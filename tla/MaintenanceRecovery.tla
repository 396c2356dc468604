------------------------- MODULE MaintenanceRecovery -------------------------
(***************************************************************************)
(* Recovery of infrastructure faults (src/src/maintenance-recovery.mjs) and *)
(* the programs around it: the observers that project a fault as an Issue   *)
(* (recover-backlog.mjs, observe-agent-fault.mjs) and the one that resumes  *)
(* a paused request of a recovered fault (resume-fault.mjs).                *)
(*                                                                          *)
(* Maintenance runs one at a time (the concurrency group of                 *)
(* controller-maintenance.yml) and takes one transition per listed fault.   *)
(* A record it appends counts only when its whole run has succeeded         *)
(* (fault-attestation.mjs), so what a run appended is kept apart from what  *)
(* is trusted, and lost with a run that dies or throws.  Observers, pushes  *)
(* to the repair and closed repairs interleave with every request of a run. *)
(*                                                                          *)
(* Bounds: MaxTime, MaxRevision, MaxGeneration, MaxEpoch, MaxHead and       *)
(* MaxPulls cap what would grow for ever; at the bound of the clock every   *)
(* wait is over.                                                            *)
(***************************************************************************)
EXTENDS FaultRecord

CONSTANTS
    Request,         \* requests that may fail on the infrastructure
    Fault,           \* fault identities
    Identity,        \* [Request -> Fault]
    Nothing,         \* no record, no Issue
    Replacing,       \* requests that recovery observes: their projection replaces the last
    MaxTime, MaxRevision, MaxGeneration, MaxEpoch, MaxHead, MaxPulls,
    RunMayFail,      \* a maintenance run may die, or an effect of it fail to answer, anywhere
    PullsClose       \* somebody may close or rewrite the open repair

(* What parseMaintenanceProfile accepts, of finitely many faults.           *)
ASSUME RecoveryAssumption ==
    /\ IsFiniteSet(Fault)
    /\ MaxEpochsPerDay \in Nat \ {0} /\ HealthySamples \in Nat \ {0} /\ Day \in Nat
    /\ NoPull \notin Nat

VARIABLES
    clock, revision,
    projection,  \* [Fault -> [open, roots, by]]: the fault Issue, by the request projected last
    observer,    \* [Request -> phase of the run that observes its failure]
    trusted,     \* [Fault -> last record of a successful run]
    appended,    \* [Fault -> record appended by the current run]
    health,      \* [Fault -> what the host has observed]
    intents,     \* <<fault, epoch, worker>>: maintenance-intents files
    pulls,       \* sequence of the repairs, in order of their numbers
    job,         \* the maintenance run
    paused,      \* requests whose subject is paused
    dispatched,  \* <<fault, request>>: automation_fault_recovered events not handled yet
    invoked      \* history: <<fault, epoch, worker>> -> times the Worker was started

env == <<clock, revision>>
host == <<health, intents, pulls>>
vars == <<env, projection, observer, trusted, appended, host, job, paused, dispatched, invoked>>

Idle == [phase |-> "idle", queue |-> <<>>, roots |-> <<>>, record |-> Nothing, head |-> 0]

RecoveryInit ==
    /\ clock = 0 /\ revision = 0
    /\ projection = [f \in Fault |-> [open |-> FALSE, roots |-> {}, by |-> Nothing]]
    /\ observer = [q \in Request |-> "healthy"]
    /\ trusted = [f \in Fault |-> Nothing]
    /\ appended = [f \in Fault |-> Nothing]
    /\ health = [f \in Fault |-> [streak |-> 0, generation |-> 0]]
    /\ intents = {} /\ pulls = <<>> /\ job = Idle
    /\ paused = {} /\ dispatched = {}
    /\ invoked = [x \in {} |-> 0]

-----------------------------------------------------------------------------
(* Observers.  Recovery pauses the subject before it projects the fault, and *)
(* its projection names this request alone; the review observer keeps the    *)
(* requests the projection named.  A projection counts once its run is over. *)
Observe(q) ==
    LET f == Identity[q]
    IN  /\ observer[q] = "healthy"
        /\ projection' = [projection EXCEPT ![f] =
               [open |-> TRUE, by |-> q,
                roots |-> IF q \in Replacing THEN {q} ELSE @.roots \union {q}]]
        /\ observer' = [observer EXCEPT ![q] = "projected"]
        /\ paused' = paused \union {q}
        /\ UNCHANGED <<env, trusted, appended, host, job, dispatched, invoked>>

ObserverEnds(q) ==
    /\ observer[q] = "projected"
    /\ \E outcome \in {"succeeded"} \union (IF RunMayFail THEN {"failed"} ELSE {}):
         observer' = [observer EXCEPT ![q] = outcome]
    /\ UNCHANGED <<env, projection, trusted, appended, host, job, paused, dispatched, invoked>>

(* resume-fault: the trusted recovered record must own the request.         *)
ResumeFault(f, q) ==
    /\ <<f, q>> \in dispatched
    /\ dispatched' = dispatched \ {<<f, q>>}
    /\ paused' = IF trusted[f] # Nothing /\ trusted[f].status = "recovered" /\ q \in trusted[f].roots
                 THEN paused \ {q} ELSE paused
    /\ UNCHANGED <<env, projection, observer, trusted, appended, host, job, invoked>>

-----------------------------------------------------------------------------
(* The world: time, a changed installation, pushes to the repair.           *)
Tick ==
    /\ clock < MaxTime
    /\ clock' = clock + 1
    /\ UNCHANGED <<revision, projection, observer, trusted, appended, host, job, paused, dispatched, invoked>>

Revise ==
    /\ revision < MaxRevision
    /\ revision' = revision + 1
    /\ UNCHANGED <<clock, projection, observer, trusted, appended, host, job, paused, dispatched, invoked>>

Push(n) ==
    /\ n \in DOMAIN pulls /\ pulls[n].state = "open" /\ pulls[n].head < MaxHead
    /\ pulls' = [pulls EXCEPT ![n].head = @ + 1]
    /\ UNCHANGED <<env, projection, observer, trusted, appended, health, intents, job, paused, dispatched, invoked>>

ClosePull(n) ==
    /\ PullsClose
    /\ n \in DOMAIN pulls /\ pulls[n].state = "open"
    /\ pulls' = [pulls EXCEPT ![n].state = "closed"]
    /\ UNCHANGED <<env, projection, observer, trusted, appended, health, intents, job, paused, dispatched, invoked>>

-----------------------------------------------------------------------------
(* A maintenance run lists the open fault Issues with their bodies.          *)
Listed == {f \in Fault: projection[f].open}

StartRun ==
    /\ job.phase = "idle" /\ Listed # {}
    /\ \E queue \in SetToSeqs(Listed):
         job' = [Idle EXCEPT !.phase = "next", !.queue = queue,
                             !.roots = [f \in Listed |-> [by |-> projection[f].by, roots |-> projection[f].roots]]]
    /\ UNCHANGED <<env, projection, observer, trusted, appended, host, paused, dispatched, invoked>>

Current == Head(job.queue)

Done(j) == [j EXCEPT !.phase = "next", !.queue = Tail(@), !.record = Nothing, !.head = 0]

(* What processFault decides for a trusted record with the requests of the   *)
(* projection attached: the record to append, the effect to execute first,   *)
(* or nothing to do in this run.                                             *)
FaultStep(record) ==
    CASE record.status = "recovered" -> "resume"
      [] record.status = "circuit-open" -> "circuit"
      [] record.status = "reviewing" ->
            IF Succeeded(record, "review") THEN "ci" ELSE "review"
      [] record.status = "deploying" -> "promotion"
      [] record.status = "verifying" -> "verification"
      [] OTHER -> nextFaultAction(record, IF clock = MaxTime THEN clock + Backoff ELSE clock)

(* Every fault is first observed: the health state on the host outlives the  *)
(* run whatever becomes of it.                                               *)
ObserveHealth(f) ==
    \E healthy \in BOOLEAN:
        /\ health' = [health EXCEPT ![f] = observeFaultHealth(@, healthy)]
        /\ health'[f].generation <= MaxGeneration

MayBegin(record, version) == CanBeginEpoch(record, version, clock) /\ EpochOf(record) < MaxEpoch

ToAppend(record) == job' = [job EXCEPT !.phase = "append", !.record = record]

ProcessFault ==
    /\ job.phase = "next" /\ job.queue # <<>>
    /\ LET f == Current
           listed == job.roots[f]
           version == [revision |-> revision, health |-> health'[f].generation]
       IN  IF observer[listed.by] # "succeeded"
           THEN job' = Done(job) /\ UNCHANGED health
           ELSE /\ ObserveHealth(f)
                /\ IF trusted[f] = Nothing
                   THEN ToAppend(createFaultRecord(listed.roots, version, clock))
                   ELSE LET record == attachRootRequests(trusted[f], listed.roots)
                            step == FaultStep(record)
                        IN  CASE step = "circuit" /\ MayBegin(record, version)
                                 -> ToAppend(beginFaultEpoch(record, version, clock))
                              [] step = "open-circuit" -> ToAppend(openFaultCircuit(record))
                              [] step = "wait" \/ (step = "circuit" /\ ~MayBegin(record, version))
                                 -> job' = Done(job)
                              [] OTHER -> job' = [job EXCEPT !.phase = step, !.record = record]
    /\ UNCHANGED <<env, projection, observer, trusted, appended, intents, pulls, paused, dispatched, invoked>>

(* The time of an attempt is kept where a later wait reads it. *)
Attempted(kind, target, succeeded, head, pull) ==
    LET at == IF kind \in {"deterministic", "maintenance-worker"} /\ ~succeeded THEN clock ELSE 0
    IN  ToAppend(recordFaultAttempt(job.record, Attempt(kind, target, succeeded, head, at), pull))

(* The effects.  An exception inside them is a failed attempt.               *)
Deterministic ==
    /\ job.phase = "deterministic"
    /\ \E succeeded \in BOOLEAN: Attempted("deterministic", 0, succeeded, 0, NoPull)
    /\ UNCHANGED <<env, projection, observer, trusted, appended, host, paused, dispatched, invoked>>

(* An open repair on the branch of this fault and epoch is adopted.  Else    *)
(* the Worker is started, once: the intent file is created exclusively.      *)
OpenRepairs(f, epoch) ==
    {n \in DOMAIN pulls: pulls[n].fault = f /\ pulls[n].epoch = epoch /\ pulls[n].state = "open"}

(* Mutant: the intent file is not created exclusively. *)
MutantNoIntent(key) == FALSE

Intended(key) == key \in intents

AdoptRepair ==
    /\ job.phase = "maintenance-worker"
    /\ LET repairs == OpenRepairs(Current, EpochOf(job.record))
           worker == Head(NextWorker(job.record))
       IN  \/ \E n \in repairs:
                Attempted("maintenance-worker", worker, Cardinality(repairs) = 1, 0, n)
           \/ /\ repairs = {} /\ Intended(<<Current, EpochOf(job.record), worker>>)
              /\ Attempted("maintenance-worker", worker, FALSE, 0, NoPull)
    /\ UNCHANGED <<env, projection, observer, trusted, appended, host, paused, dispatched, invoked>>

StartWorker ==
    /\ job.phase = "maintenance-worker"
    /\ LET key == <<Current, EpochOf(job.record), Head(NextWorker(job.record))>>
       IN  /\ OpenRepairs(Current, EpochOf(job.record)) = {} /\ ~Intended(key)
           /\ intents' = intents \union {key}
           /\ invoked' = [k \in DOMAIN invoked \union {key} |->
                            IF k \in DOMAIN invoked THEN invoked[k] + (IF k = key THEN 1 ELSE 0) ELSE 1]
    /\ job' = [job EXCEPT !.phase = "working"]
    /\ UNCHANGED <<env, projection, observer, trusted, appended, health, pulls, paused, dispatched>>

(* The Worker publishes its repair while the run waits for it, and ends. *)
PublishRepair ==
    /\ job.phase = "working" /\ Len(pulls) < MaxPulls
    /\ pulls' = Append(pulls, [fault |-> Current, epoch |-> EpochOf(job.record), state |-> "open", head |-> 1])
    /\ UNCHANGED <<env, projection, observer, trusted, appended, health, intents, job, paused, dispatched, invoked>>

WorkerEnds ==
    /\ job.phase = "working"
    /\ LET repairs == OpenRepairs(Current, EpochOf(job.record))
           worker == Head(NextWorker(job.record))
       IN  \/ Attempted("maintenance-worker", worker, FALSE, 0, NoPull)
           \/ \E n \in repairs:
                /\ Cardinality(repairs) = 1
                /\ Attempted("maintenance-worker", worker, TRUE, 0, n)
    /\ UNCHANGED <<env, projection, observer, trusted, appended, host, paused, dispatched, invoked>>

Repair == pulls[job.record.pull]

(* validateMaintenancePullRequest throws unless the repair is open. *)
Review ==
    /\ job.phase = "review"
    /\ \E pass \in BOOLEAN:
         /\ pass => Repair.state = "open"
         /\ Attempted("review", 0, pass, IF pass THEN Repair.head ELSE 0, NoPull)
    /\ UNCHANGED <<env, projection, observer, trusted, appended, host, paused, dispatched, invoked>>

HeadOf(record, kind) == LastCompleted(record, kind).head

(* assertMaintenanceHeadContinuity *)
Continuous(record, head, stages) == \A kind \in stages: Succeeded(record, kind) /\ HeadOf(record, kind) = head

(* Not in a try block: a repair that is closed ends the whole run.  CI may    *)
(* be undecided, which leaves the fault alone until the next run.             *)
CheckCi ==
    /\ job.phase = "ci" /\ Repair.state = "open"
    /\ \/ ~Continuous(job.record, Repair.head, {"review"}) /\ Attempted("ci", 0, FALSE, 0, NoPull)
       \/ /\ Continuous(job.record, Repair.head, {"review"})
          /\ \/ \E succeeded \in BOOLEAN:
                  Attempted("ci", 0, succeeded, IF succeeded THEN Repair.head ELSE 0, NoPull)
             \/ clock < MaxTime /\ job' = Done(job)
    /\ UNCHANGED <<env, projection, observer, trusted, appended, host, paused, dispatched, invoked>>

(* Promotion: the decision for the head that was reviewed and tested, then   *)
(* the merge of that head, then the reading of what was merged.              *)
AssessPromotion ==
    /\ job.phase = "promotion"
    /\ \/ /\ Repair.state = "open" /\ Continuous(job.record, Repair.head, {"review", "ci"})
          /\ job' = [job EXCEPT !.phase = "merge", !.head = Repair.head]
       \/ Attempted("promotion", 0, FALSE, 0, NoPull)
    /\ UNCHANGED <<env, projection, observer, trusted, appended, host, paused, dispatched, invoked>>

(* Mutant: the merge is not pinned to the decided head. *)
MutantMergeAny == Repair.state = "open"

Mergeable == Repair.state = "open" /\ Repair.head = job.head

Merge ==
    /\ job.phase = "merge"
    /\ \/ Mergeable /\ pulls' = [pulls EXCEPT ![job.record.pull].state = "merged"]
                    /\ job' = [job EXCEPT !.phase = "merged"]
       \/ UNCHANGED pulls /\ Attempted("promotion", 0, FALSE, 0, NoPull)
    /\ UNCHANGED <<env, projection, observer, trusted, appended, health, intents, paused, dispatched, invoked>>

ConfirmMerge ==
    /\ job.phase = "merged"
    /\ \E read \in BOOLEAN:
         /\ RunMayFail \/ read
         /\ Attempted("promotion", 0, read, IF read THEN job.head ELSE 0, NoPull)
    /\ UNCHANGED <<env, projection, observer, trusted, appended, host, paused, dispatched, invoked>>

VerifyRuntime ==
    /\ job.phase = "verification"
    /\ \/ Attempted("verification", 0, TRUE, 0, NoPull)
       \/ ToAppend(openFaultCircuit(job.record))
    /\ UNCHANGED <<env, projection, observer, trusted, appended, host, paused, dispatched, invoked>>

AppendRecord ==
    /\ job.phase = "append"
    /\ appended' = [appended EXCEPT ![Current] = job.record]
    /\ job' = Done(job)
    /\ UNCHANGED <<env, projection, observer, trusted, host, paused, dispatched, invoked>>

(* resumeOriginal: one event per root request, then the Issue is closed. *)
ResumeOriginal ==
    /\ job.phase = "resume"
    /\ \/ \E q \in job.record.roots:
            /\ <<Current, q>> \notin dispatched
            /\ job' = [job EXCEPT !.record.roots = @ \ {q}]
            /\ dispatched' = dispatched \union {<<Current, q>>}
            /\ UNCHANGED projection
       \/ /\ job.record.roots = {}
          /\ projection' = [projection EXCEPT ![Current].open = FALSE]
          /\ job' = Done(job)
          /\ UNCHANGED dispatched
    /\ UNCHANGED <<env, observer, trusted, appended, host, paused, invoked>>

EndRun ==
    /\ job.phase = "next" /\ job.queue = <<>>
    /\ trusted' = [f \in Fault |-> IF appended[f] = Nothing THEN trusted[f] ELSE appended[f]]
    /\ appended' = [f \in Fault |-> Nothing]
    /\ job' = Idle
    /\ UNCHANGED <<env, projection, observer, host, paused, dispatched, invoked>>

(* The run dies, or throws: a request fails outside the try blocks, or CI is *)
(* asked of a repair that is no longer open.                                 *)
Throws == job.phase = "ci" /\ Repair.state # "open"

FailRun ==
    /\ job.phase # "idle" /\ (RunMayFail \/ Throws)
    /\ appended' = [f \in Fault |-> Nothing]
    /\ job' = Idle
    /\ UNCHANGED <<env, projection, observer, trusted, host, paused, dispatched, invoked>>

RunStep ==
    \/ ProcessFault \/ Deterministic \/ AdoptRepair \/ StartWorker \/ WorkerEnds
    \/ Review \/ CheckCi \/ AssessPromotion \/ Merge \/ ConfirmMerge \/ VerifyRuntime
    \/ AppendRecord \/ ResumeOriginal \/ EndRun

RecoveryNext ==
    \/ \E q \in Request: Observe(q) \/ ObserverEnds(q)
    \/ \E f \in Fault, q \in Request: ResumeFault(f, q)
    \/ Tick \/ Revise
    \/ \E n \in 1 .. MaxPulls: Push(n) \/ ClosePull(n)
    \/ StartRun \/ RunStep \/ PublishRepair \/ FailRun

RecoverySpec == RecoveryInit /\ [][RecoveryNext]_vars
-----------------------------------------------------------------------------
(* However runs fail and whatever changes, no 24 hours see more epochs of a *)
(* fault opened than the profile allows (docs/operations.md:98).            *)
EpochsWithinBudget ==
    \A f \in Fault: trusted[f] # Nothing =>
        LET openings == trusted[f].openings
        IN  \A n \in DOMAIN openings:
              Cardinality({m \in 1 .. n: openings[m] + Day >= openings[n]}) <= MaxEpochsPerDay

(* A maintenance Worker is started once for a fault and an epoch, also when *)
(* the run that started it died and its record was never trusted.           *)
WorkerStartedOnce == \A key \in DOMAIN invoked: invoked[key] = 1

(* What is merged is the head a trusted review passed and a trusted CI      *)
(* decision accepted, whatever was pushed meanwhile, and it is the only     *)
(* release of its epoch, also when a run dies after the merge.              *)
ReleaseIsProven ==
    [][\A n \in DOMAIN pulls: (pulls[n].state = "open" /\ pulls'[n].state = "merged") =>
          LET record == trusted[pulls[n].fault]
          IN  /\ EpochOf(record) = pulls[n].epoch
              /\ \A kind \in {"review", "ci"}:
                   Succeeded(record, kind) /\ HeadOf(record, kind) = pulls[n].head
              /\ \A m \in DOMAIN pulls \ {n}:
                   <<pulls[m].fault, pulls[m].epoch, pulls[m].state>>
                      # <<pulls[n].fault, pulls[n].epoch, "merged">>]_vars

(* A fault is only ever closed, and its requests resumed, on a record whose *)
(* current epoch holds the required healthy samples, taken after a repair   *)
(* that was released or a deterministic action that succeeded.              *)
RecoveredIsProven ==
    \A f \in Fault: (trusted[f] # Nothing /\ trusted[f].status = "recovered") =>
        /\ Cardinality(Samples(trusted[f])) >= HealthySamples
        /\ \/ Succeeded(trusted[f], "deterministic")
           \/ Succeeded(trusted[f], "promotion") /\ pulls[trusted[f].pull].state = "merged"

(* Every fault that is being recovered is recovered at last, or its circuit *)
(* opens: no step waits for ever.  The exception is a repair that somebody  *)
(* closed before CI was decided: every later run throws on it.              *)
Settled(f) == trusted[f].status \in TerminalStatus

RepairClosed(f) == trusted[f].status = "reviewing" /\ pulls[trusted[f].pull].state = "closed"

FaultSettles == \A f \in Fault:
    (trusted[f] # Nothing) ~> (trusted[f] # Nothing /\ (Settled(f) \/ RepairClosed(f)))

(* Runs are started again and again, their requests are answered, and they  *)
(* stop failing some time.                                                  *)
RecoveryFairness ==
    /\ WF_vars(StartRun) /\ WF_vars(Tick) /\ WF_vars(RunStep)
    /\ \A q \in Request: WF_vars(ObserverEnds(q))
    /\ <>[][FailRun => EndRun]_vars

FairRecoverySpec == RecoverySpec /\ RecoveryFairness
=============================================================================

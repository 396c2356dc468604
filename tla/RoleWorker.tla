----------------------------- MODULE RoleWorker -----------------------------
(***************************************************************************)
(* runRoleWorker of src/role-worker.mjs over the durable registry: one     *)
(* admitted WorkRequest walks its routed Worker candidates, claims an      *)
(* immutable attempt in the journal, takes the half-open probe the         *)
(* candidate's capacity scopes require, starts at most one Worker, and     *)
(* records how it ended.  Every await of the code is the end of a step, so *)
(* executions of several requests interleave at each registry call, and an *)
(* execution may be killed between any two.                                *)
(*                                                                         *)
(* A session of CapacityRegistry is one execution.  The workflows run the  *)
(* executions of one request one at a time (their concurrency groups name  *)
(* the Issue or pull request), so Begin does too.                          *)
(***************************************************************************)
EXTENDS CapacityRegistry, Sequences

CONSTANTS
    Request,               \* admitted WorkRequests
    Candidates,            \* resolveWorkerCandidates: the route's Workers
    MaxDeliveries,         \* bound on the executions of each request
    MaxFailureGeneration   \* bound: a record beyond it meets no new failure

ASSUME RoleAssumption ==
    /\ Candidates \in Seq(Worker) \ {<<>>}
    /\ \A i, j \in 1 .. Len(Candidates) :
          Candidates[i] = Candidates[j] => i = j
    /\ Absent \notin Request
    /\ MaxDeliveries \in [Request -> Nat]
    /\ MaxFailureGeneration \in Nat

VARIABLES
    pc,         \* the await each execution stands at
    request,    \* its WorkRequest
    cand,       \* index of the candidate being tried
    plan,       \* prepareAttempt: what inspect returned for it
    failure,    \* the Adapter failure being handled
    claims,     \* journal: claimed attempts
    results,    \* journal: attempt results
    started,    \* attempts whose Worker session was started
    deliveries  \* how often each request was dispatched

admission == <<request, deliveries>>
journal == <<claims, results>>
locals == <<pc, request, cand, plan, failure>>
registryVars == <<now, records, machineConfig, cfg, probe, nextLease>>
roleVars == <<registryVars, locals, journal, started, deliveries>>

\* Where an execution that left runRoleWorker stands: it returned a receipt, a
\* replay or a deferral, or threw.  "conflict" is the throw of claimAttempt.
Ended == {"completed", "replayed", "deferred", "threw", "conflict"}
Location ==
    {"idle", "inspect", "claim", "defer", "probe", "invoke", "running",
     "finish", "settle", "failing", "finish-failed", "capacity-failure",
     "finish-capacity", "commit", "commit-failed", "commit-replay"} \union Ended

NoFailure == [scope |-> "none"]
NoPlan == [eligible |-> FALSE, startState |-> "cooldown", probeRequired |-> FALSE,
           hash |-> {}]

WorkerOf(s) == Candidates[cand[s]]

\* A capacity-generation digest: key, generation and state of each record.
PlanHash(s, w) ==
    {[key |-> k, generation |-> Refreshed(s, k).generation,
      state |-> Refreshed(s, k).state] : k \in EntriesOf(w)}

\* attemptIdentity: the route is a function of the request, the capacity
\* generation of the plan; startState is journaled but not part of the id.
AttemptId(s) ==
    [request |-> request[s], worker |-> WorkerOf(s), config |-> cfg[s],
     hash |-> plan[s].hash]

CapacityOutcome == {"capacity-deferred", "capacity-failure"}
AttemptOutcome == CapacityOutcome \union {"completed", "failed"}

\* sameAttemptExecution: the ids of one request, Worker and configuration.
SameExecution(a, b) ==
    a.request = b.request /\ a.worker = b.worker /\ a.config = b.config

RoleInit ==
    /\ Init
    /\ pc = [s \in Session |-> "idle"]
    /\ request = [s \in Session |-> Absent]
    /\ cand = [s \in Session |-> 1]
    /\ plan = [s \in Session |-> NoPlan]
    /\ failure = [s \in Session |-> NoFailure]
    /\ claims = {}
    /\ results = {}
    /\ started = {}
    /\ deliveries = [r \in Request |-> 0]

At(s, location) == pc[s] = location
Goto(s, location) == pc' = [pc EXCEPT ![s] = location]
Untouched == UNCHANGED registryVars

-----------------------------------------------------------------------------
(* Start and end of an execution                                           *)

Begin(s, r) ==
    /\ At(s, "idle")
    /\ \A t \in Session : request[t] # r
    /\ deliveries[r] < MaxDeliveries[r]
    /\ deliveries' = [deliveries EXCEPT ![r] = @ + 1]
    /\ Start(s)
    /\ Goto(s, "inspect")
    /\ request' = [request EXCEPT ![s] = r]
    /\ UNCHANGED <<cand, plan, failure, journal, started>>

\* The process exits after runRoleWorker ended, or is killed before.
Leave(s) ==
    /\ ~At(s, "idle")
    /\ Stop(s)
    /\ Goto(s, "idle")
    /\ plan' = [plan EXCEPT ![s] = NoPlan]
    /\ failure' = [failure EXCEPT ![s] = NoFailure]
    /\ request' = [request EXCEPT ![s] = Absent]
    /\ cand' = [cand EXCEPT ![s] = 1]
    /\ UNCHANGED <<journal, started, deliveries>>

\* Slip: the walk starts over instead of deferring.
MutantWalkAgain(s) ==
    IF cand[s] = Len(Candidates)
    THEN Goto(s, "inspect") /\ cand' = [cand EXCEPT ![s] = 1]
    ELSE Goto(s, "inspect") /\ cand' = [cand EXCEPT ![s] = @ + 1]

\* continue: the next candidate, or the capacity-deferred receipt after the
\* last one.
NextCandidate(s) ==
    IF cand[s] = Len(Candidates)
    THEN Goto(s, "deferred") /\ UNCHANGED cand
    ELSE Goto(s, "inspect") /\ cand' = [cand EXCEPT ![s] = @ + 1]

-----------------------------------------------------------------------------
(* Admission                                                               *)

\* prepareAttempt: inspect reads the registry without its lock.  A decision
\* without a "state" makes every eligible start "available".
Inspect(s) ==
    LET w == WorkerOf(s)
        eligible == WorkerEligible(s, w)
    IN  /\ At(s, "inspect")
        /\ plan' = [plan EXCEPT ![s] =
              [eligible |-> eligible,
               startState |-> IF eligible THEN "available" ELSE "cooldown",
               probeRequired |-> Due(s, w) # {},
               hash |-> PlanHash(s, w)]]
        /\ Goto(s, "claim")
        /\ Untouched
        /\ UNCHANGED <<admission, cand, failure, journal, started>>

ClaimOf(id) == {c \in claims : c.id = id}
ResultOf(id) == {e \in results : e.id = id}

\* Slip: a claim without a result counts as abandoned and runs again.
MutantResumeBareClaim(s) ==
    /\ ClaimOf(AttemptId(s)) # {}
    /\ ResultOf(AttemptId(s)) = {}
    /\ Goto(s, "invoke")
    /\ UNCHANGED <<claims, cand>>

\* claimAttemptUnlocked found the same attempt in the journal.
Replay(s) ==
    LET id == AttemptId(s)
        existing == ClaimOf(id)
        outcomes == {e.outcome : e \in ResultOf(id)}
    IN  /\ existing # {}
        /\ UNCHANGED claims
        /\ IF \E c \in existing : c.startState # plan[s].startState
           THEN Goto(s, "conflict") /\ UNCHANGED cand
           ELSE IF outcomes = {} THEN Goto(s, "replayed") /\ UNCHANGED cand
           ELSE IF outcomes \subseteq CapacityOutcome THEN NextCandidate(s)
           ELSE Goto(s, "commit-replay") /\ UNCHANGED cand

\* ... or an attempt of the same execution, under another capacity generation,
\* that ended with something else than a capacity outcome.
ReplayAcrossGenerations(s) ==
    /\ ClaimOf(AttemptId(s)) = {}
    /\ \E e \in results : /\ SameExecution(e.id, AttemptId(s))
                          /\ e.outcome \notin CapacityOutcome
    /\ Goto(s, "commit-replay")
    /\ UNCHANGED <<claims, cand>>

\* Slip: only the attempt itself is searched for, not its earlier generations.
MutantForgetGenerations(s) ==
    LET id == AttemptId(s)
    IN  /\ ClaimOf(id) = {}
        /\ claims' = claims \union {[id |-> id, startState |-> plan[s].startState]}
        /\ Goto(s, IF plan[s].eligible THEN "invoke" ELSE "defer")
        /\ UNCHANGED cand

FreshClaim(s) ==
    LET id == AttemptId(s)
    IN  /\ ClaimOf(id) = {}
        /\ \A e \in results :
              SameExecution(e.id, id) => e.outcome \in CapacityOutcome
        /\ claims' = claims \union {[id |-> id, startState |-> plan[s].startState]}
        /\ Goto(s, CASE ~plan[s].eligible -> "defer"
                     [] plan[s].eligible /\ plan[s].probeRequired -> "probe"
                     [] OTHER -> "invoke")
        /\ UNCHANGED cand

ClaimAttempt(s) ==
    /\ At(s, "claim")
    /\ Replay(s) \/ ReplayAcrossGenerations(s) \/ FreshClaim(s)
    /\ Untouched
    /\ UNCHANGED <<admission, plan, failure, results, started>>

\* claimCapacityProbe: a probe for every due scope, or a deferral, also when
\* nothing is due any more.
ClaimProbe(s) ==
    /\ At(s, "probe")
    /\ \/ ClaimHalfOpenProbe(s, WorkerOf(s)) /\ Goto(s, "invoke")
       \/ RefuseHalfOpenProbe(s, WorkerOf(s)) /\ Goto(s, "defer")
    /\ UNCHANGED <<admission, cand, plan, failure, journal, started>>

\* finishAttempt appends the attempt's one result.
Record(s, outcome) ==
    /\ ResultOf(AttemptId(s)) = {}
    /\ results' = results \union {[id |-> AttemptId(s), outcome |-> outcome]}

Defer(s) ==
    /\ At(s, "defer")
    /\ Record(s, "capacity-deferred")
    /\ NextCandidate(s)
    /\ Untouched
    /\ UNCHANGED <<admission, plan, failure, claims, started>>

-----------------------------------------------------------------------------
(* Invocation                                                              *)

\* The Adapter reports onStarted: the Worker session is visible.
StartWorker(s) ==
    /\ At(s, "invoke")
    /\ Goto(s, "running")
    /\ started' = started \union {AttemptId(s)}
    /\ Untouched
    /\ UNCHANGED <<admission, cand, plan, failure, journal>>

WorkerCompletes(s) ==
    /\ At(s, "running")
    /\ Goto(s, "finish")
    /\ Untouched
    /\ UNCHANGED <<admission, cand, plan, failure, journal, started>>

\* A started Worker that fails or times out, for whatever reason, and any
\* failure before the start that is no verified capacity failure.
WorkerFails(s) ==
    /\ pc[s] \in {"invoke", "running"}
    /\ Goto(s, "failing")
    /\ Untouched
    /\ UNCHANGED <<admission, cand, plan, failure, journal, started>>

\* Slip: a capacity failure of a started session fails over as well.
MutantMidSessionFailover(s, f) ==
    /\ pc[s] \in {"invoke", "running"}
    /\ canFailoverCapacityFailure(f)
    /\ HasScope(WorkerOf(s), f.scope)
    /\ Goto(s, "capacity-failure")
    /\ failure' = [failure EXCEPT ![s] = f]
    /\ Untouched
    /\ UNCHANGED <<admission, cand, plan, journal, started>>

\* canContinue: a verified capacity failure before the session started.
CapacityRefused(s, f) ==
    /\ At(s, "invoke")
    /\ canFailoverCapacityFailure(f)
    /\ f.confidence = "authoritative"
    /\ f.scope \in Scope
    /\ LET k == capacityRecordKey(WorkerOf(s), f.scope)
       IN  k \in Key => GenerationOf(records[k]) < MaxFailureGeneration
    /\ Goto(s, "capacity-failure")
    /\ failure' = [failure EXCEPT ![s] = f]
    /\ Untouched
    /\ UNCHANGED <<admission, cand, plan, journal, started>>

\* A registry or journal call inside the try that throws, for one because the
\* lock stayed busy past its deadline, is handled as a failure of the task.
RegistryBusy(s) ==
    /\ pc[s] \in {"defer", "probe", "finish"}
    /\ Goto(s, "failing")
    /\ Untouched
    /\ UNCHANGED <<admission, cand, plan, failure, journal, started>>

-----------------------------------------------------------------------------
(* The Worker completed                                                    *)

Finish(s) ==
    /\ At(s, "finish")
    /\ Record(s, "completed")
    /\ Goto(s, "settle")
    /\ Untouched
    /\ UNCHANGED <<admission, cand, plan, failure, claims, started>>

\* completeCapacityProbe 'success'.  Its throw leaves the durable result alone
\* and skips the commit.
Settle(s) ==
    /\ At(s, "settle")
    /\ \/ ~Holds(s) /\ Goto(s, "commit") /\ Untouched
       \/ CompleteHalfOpenProbe(s, "success", failure[s]) /\ Goto(s, "commit")
       \/ Holds(s) /\ ~Completable(s) /\ Goto(s, "threw") /\ Untouched
    /\ UNCHANGED <<admission, cand, plan, failure, journal, started>>

-----------------------------------------------------------------------------
(* The attempt failed                                                      *)

\* completeCapacityProbe 'abandon', tried again by the finally when it throws;
\* then nothing records a result.
Abandon(s) ==
    /\ At(s, "failing")
    /\ \/ ~Holds(s) /\ Goto(s, "finish-failed") /\ Untouched
       \/ /\ CompleteHalfOpenProbe(s, "abandon", failure[s])
          /\ Goto(s, "finish-failed")
       \/ Holds(s) /\ ~Completable(s) /\ Goto(s, "threw") /\ Untouched
    /\ UNCHANGED <<admission, cand, plan, failure, journal, started>>

FinishFailed(s) ==
    /\ At(s, "finish-failed")
    /\ Record(s, "failed")
    /\ Goto(s, "commit-failed")
    /\ Untouched
    /\ UNCHANGED <<admission, cand, plan, failure, claims, started>>

\* completeHalfOpenProbe throws before it looks at a lease when the Worker has
\* no identity at the failure's scope, and when another probe owns that scope.
FailureRejected(s) ==
    HasScope(WorkerOf(s), failure[s].scope) =>
        \E k \in Projected(s, "failure", failure[s]) :
            Stored(k) /\ records[k].state = "half-open"

\* The capacity failure goes to the registry, through the probe if there is
\* one.  When that call throws, the finally still abandons the probe if it can,
\* and the attempt is left without a result.
RecordCapacity(s) ==
    /\ At(s, "capacity-failure")
    /\ \/ /\ ~Holds(s)
          /\ RecordFailure(s, WorkerOf(s), failure[s])
          /\ Goto(s, "finish-capacity")
       \/ /\ ~Holds(s) /\ ~HasScope(WorkerOf(s), failure[s].scope)
          /\ Goto(s, "threw") /\ Untouched
       \/ /\ CompleteHalfOpenProbe(s, "failure", failure[s])
          /\ Goto(s, "finish-capacity")
       \/ /\ Holds(s) /\ FailureRejected(s)
          /\ CompleteHalfOpenProbe(s, "abandon", failure[s])
          /\ Goto(s, "threw")
       \/ Holds(s) /\ ~Completable(s) /\ Goto(s, "threw") /\ Untouched
    /\ UNCHANGED <<admission, cand, plan, failure, journal, started>>

FinishCapacity(s) ==
    /\ At(s, "finish-capacity")
    /\ Record(s, "capacity-failure")
    /\ NextCandidate(s)
    /\ failure' = [failure EXCEPT ![s] = NoFailure]
    /\ Untouched
    /\ UNCHANGED <<admission, plan, claims, started>>

\* commitExecution, before the execution returns or rethrows.
Commit(s) ==
    /\ \/ At(s, "commit") /\ Goto(s, "completed")
       \/ At(s, "commit-failed") /\ Goto(s, "threw")
       \/ At(s, "commit-replay") /\ Goto(s, "replayed")
    /\ Untouched
    /\ UNCHANGED <<admission, cand, plan, failure, journal, started>>

\* onExecutionCommitted throws: a later replay notifies again.
CommitThrows(s) ==
    /\ pc[s] \in {"commit", "commit-failed", "commit-replay"}
    /\ Goto(s, "threw")
    /\ Untouched
    /\ UNCHANGED <<admission, cand, plan, failure, journal, started>>

Execute(s) ==
    \/ Inspect(s) \/ ClaimAttempt(s) \/ ClaimProbe(s) \/ Defer(s)
    \/ StartWorker(s) \/ WorkerCompletes(s) \/ WorkerFails(s)
    \/ \E f \in Observed : CapacityRefused(s, f)
    \/ RegistryBusy(s) \/ Finish(s) \/ Settle(s) \/ Abandon(s)
    \/ FinishFailed(s) \/ RecordCapacity(s) \/ FinishCapacity(s)
    \/ Commit(s) \/ CommitThrows(s)

RoleEnvironment ==
    /\ Tick \/ Rotate
    /\ UNCHANGED <<locals, journal, started, deliveries>>

RoleNext ==
    \/ RoleEnvironment
    \/ \E s \in Session : (\E r \in Request : Begin(s, r)) \/ Leave(s) \/ Execute(s)

RoleSpec == RoleInit /\ [][RoleNext]_roleVars

\* A process that is not killed goes on: every await returns (registry calls
\* time out, a Worker session has a three-hour limit).  Nothing is assumed of
\* the clock, of redeliveries or of kills.
FairRoleSpec == RoleSpec /\ \A s \in Session : WF_roleVars(Execute(s))

-----------------------------------------------------------------------------
(* Correctness                                                             *)

\* A capacity outcome says that no Worker session was started, which is what
\* lets another candidate take the request over.
CapacityOutcomeNeverStarted ==
    \A e \in results : e.outcome \in CapacityOutcome => e.id \notin started

\* An attempt starts at most one Worker session, whatever is killed, replayed
\* or dispatched again.
AttemptStartsOnce ==
    [][\A s \in Session : At(s, "invoke") /\ pc'[s] = "running"
          => AttemptId(s) \notin started]_roleVars

\* A Worker that ended a request is never started on it again under the same
\* configuration, even after the capacity generations moved on.
EndedWorkNotRepeated ==
    [][\A id \in started' \ started :
          \A e \in results :
             SameExecution(e.id, id) => e.outcome \in CapacityOutcome]_roleVars

\* Whatever an execution meets, it ends: in a receipt, a replay, a deferral or
\* an error, or it is killed.
ExecutionEnds ==
    \A s \in Session : ~At(s, "idle") ~> pc[s] \in Ended \union {"idle"}
=============================================================================

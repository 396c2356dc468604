----------------------------- MODULE FaultRecord -----------------------------
(***************************************************************************)
(* The durable record of one root infrastructure fault                     *)
(* (src/src/fault-record.mjs): its recovery epochs, the attempts of the    *)
(* current epoch and the status they lead to.  A record is replaced, never *)
(* updated: every operator returns the next record.                        *)
(*                                                                         *)
(* The state version is the pair of a revision (Controller commit, runtime *)
(* snapshot, configuration, credential generation and failure signature,   *)
(* one counter for all) and the health generation.  Attempts of earlier    *)
(* epochs are dropped, since every reader filters them out.                *)
(***************************************************************************)
EXTENDS Naturals, Sequences, SequencesExt, FiniteSetsExt

CONSTANTS
    MaintenanceWorkers,  \* sequence: the declared order of the maintenance role
    DeterministicLimit,  \* profile.deterministic.limit
    Backoff,             \* clock units between two attempts of a kind
    HealthySamples,      \* profile.verification.healthySamples
    MaxEpochsPerDay,     \* profile.limits.maxEpochsPer24Hours
    Day,                 \* clock units in 24 hours
    NoPull               \* stands for an absent repairPullRequest

AttemptKind == {"deterministic", "maintenance-worker", "review", "ci", "promotion", "verification"}

TerminalStatus == {"recovered", "circuit-open"}

Status == TerminalStatus \union
    {"observed", "recovering", "repairing", "reviewing", "deploying", "verifying"}

(* An attempt: target is the Worker it was given to (or 0), head the exact  *)
(* commit a succeeded review, ci or promotion was about (or 0).             *)
Attempt(kind, target, succeeded, head, at) ==
    [kind |-> kind, target |-> target, succeeded |-> succeeded, head |-> head, at |-> at]

createFaultRecord(roots, version, now) ==
    [status |-> "observed", roots |-> roots, version |-> version,
     openings |-> <<now>>, attempts |-> <<>>, pull |-> NoPull]

EpochOf(record) == Len(record.openings)

(* By their places in the record. *)
CompletedAttempts(record, kind) ==
    {i \in DOMAIN record.attempts: record.attempts[i].kind = kind}

LastCompleted(record, kind) == record.attempts[Max(CompletedAttempts(record, kind))]

Succeeded(record, kind) == \E i \in DOMAIN record.attempts:
    record.attempts[i].kind = kind /\ record.attempts[i].succeeded

(* The healthy samples taken of a runtime. *)
Samples(record) ==
    {i \in CompletedAttempts(record, "verification"): record.attempts[i].succeeded}

(* Mutant: one sample too few. *)
MutantOneSampleLess(record) == Cardinality(Samples(record)) + 2 >= HealthySamples

(* The sample being recorded included. *)
EnoughSamples(record) == Cardinality(Samples(record)) + 1 >= HealthySamples

(* The status an attempt leads to.  Failed reviews, CI decisions, promotions *)
(* and verifications open the circuit; the epoch is recovered by the last of  *)
(* the required healthy samples.                                              *)
StatusAfter(record, a) ==
    CASE a.kind = "deterministic" -> IF a.succeeded THEN "verifying" ELSE "recovering"
      [] a.kind = "maintenance-worker" -> IF a.succeeded THEN "reviewing" ELSE "repairing"
      [] a.kind \notin {"deterministic", "maintenance-worker"} /\ ~a.succeeded -> "circuit-open"
      [] a.kind = "review" /\ a.succeeded -> "reviewing"
      [] a.kind = "ci" /\ a.succeeded -> "deploying"
      [] a.kind = "promotion" /\ a.succeeded -> "verifying"
      [] a.kind = "verification" /\ a.succeeded ->
            IF EnoughSamples(record) THEN "recovered" ELSE "verifying"

(* A terminal record accepts no attempt: recordFaultAttempt throws. *)
recordFaultAttempt(record, a, pull) ==
    [record EXCEPT !.status = StatusAfter(record, a),
                   !.attempts = Append(@, a),
                   !.pull = IF a.kind = "maintenance-worker" /\ a.succeeded THEN pull ELSE @]

openFaultCircuit(record) == [record EXCEPT !.status = "circuit-open"]

attachRootRequests(record, roots) == [record EXCEPT !.roots = @ \union roots]

(* Mutant: the window leaves its first instant out. *)
MutantShortDay(record, now) == {n \in DOMAIN record.openings: record.openings[n] + Day > now}

(* The epochs opened in the 24 hours before now, both ends included. *)
RecentEpochs(record, now) == {n \in DOMAIN record.openings: record.openings[n] + Day >= now}

CanBeginEpoch(record, version, now) ==
    /\ record.status \in TerminalStatus
    /\ version # record.version
    /\ Cardinality(RecentEpochs(record, now)) < MaxEpochsPerDay

beginFaultEpoch(record, version, now) ==
    [record EXCEPT !.status = "observed", !.version = version,
                   !.openings = Append(@, now), !.attempts = <<>>, !.pull = NoPull]

-----------------------------------------------------------------------------
(* nextFaultAction, asked only of a record whose deterministic attempts have *)
(* not succeeded (its status would be verifying).                            *)
Tried(record) ==
    {record.attempts[i].target: i \in CompletedAttempts(record, "maintenance-worker")}

DeterministicLeft(record) ==
    Cardinality(CompletedAttempts(record, "deterministic")) < DeterministicLimit

NextWorker(record) == SelectSeq(MaintenanceWorkers, LAMBDA w: w \notin Tried(record))

(* Mutant: the wait is compared the wrong way round. *)
MutantBackwards(record, kind, now) ==
    \/ CompletedAttempts(record, kind) = {}
    \/ now + Backoff <= LastCompleted(record, kind).at

BackedOff(record, kind, now) ==
    \/ CompletedAttempts(record, kind) = {}
    \/ now >= LastCompleted(record, kind).at + Backoff

nextFaultAction(record, now) ==
    CASE DeterministicLeft(record) ->
            IF BackedOff(record, "deterministic", now) THEN "deterministic" ELSE "wait"
      [] ~DeterministicLeft(record) /\ NextWorker(record) # <<>> ->
            IF BackedOff(record, "maintenance-worker", now) THEN "maintenance-worker" ELSE "wait"
      [] OTHER -> "open-circuit"

-----------------------------------------------------------------------------
(* The health of a component as one host has observed it: the generation    *)
(* rises with the third healthy sample in a row.  The streak is counted to 4. *)
observeFaultHealth(health, healthy) ==
    LET streak == IF ~healthy THEN 0 ELSE IF health.streak = 4 THEN 4 ELSE health.streak + 1
    IN  [streak |-> streak,
         generation |-> health.generation + (IF healthy /\ streak = 3 THEN 1 ELSE 0)]
=============================================================================

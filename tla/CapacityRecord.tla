--------------------------- MODULE CapacityRecord ---------------------------
(***************************************************************************)
(* The pure CapacityRecord v1 transitions of src/capacity-registry.mjs and *)
(* the part of the adapter failure vocabulary (src/capacity-failure.mjs)   *)
(* they depend on.  A record says whether one capacity scope (a capacity   *)
(* group, a provider, a model or one Worker) may be used: available,       *)
(* cooling down until retryAt, lent to one bounded half-open probe, or     *)
(* disabled until the machine configuration or credentials rotate.         *)
(*                                                                         *)
(* Times are ticks of an abstract clock; the code's thrown errors are      *)
(* predicates (CanRecord, CanAcquire, CanComplete) that guard the step.    *)
(*                                                                         *)
(* Definitions named Mutant... are slips a change of the code could make;  *)
(* no specification uses them.  Each stands before the definition it would *)
(* replace, and a model-checked property that then fails is named in       *)
(* PROJECT.json.                                                           *)
(***************************************************************************)
EXTENDS Integers

CONSTANTS
    Config,           \* pairs (configurationHash, credentialGeneration)
    Worker,           \* Worker ids of the machine configuration
    Group,            \* capacity groups
    Provider,         \* provider identifiers
    Model,            \* model identifiers
    Absent,           \* the null of an identity field, a config, a lease id
    WorkerIdentity,   \* trusted Worker snapshot: group, provider, model
    CooldownLimit,    \* REASON_COOLDOWN_LIMIT_MS
    InferredLimit,    \* MAX_INFERRED_COOLDOWN_MS
    DefaultCooldown,  \* DEFAULT_COOLDOWN_MS
    ProbeLease        \* the leaseMs of a half-open probe

CapacityReason == {"quota-exhausted", "rate-limited", "model-unavailable",
                   "provider-unavailable"}
AuthenticationReason == {"authentication-invalid"}
BillingReason == {"billing-disabled"}
IdentityReason == AuthenticationReason \union BillingReason
TaskReason == {"transport-failure", "protocol-invalid", "host-failure",
               "task-failure", "controller-failure"}
RecordReason == CapacityReason \union IdentityReason

\* CAPACITY_RECORD_SCOPES in the order workerScopeDecision visits them.  The
\* failure scope "request" has no record.
Scope == {"capacity-group", "provider", "model", "worker"}
FailureScope == Scope \union {"request"}
RecordState == {"available", "cooldown", "half-open", "disabled"}
Confidence == {"authoritative", "inferred", "low"}

Time == Nat
NoTime == -1

ASSUME ConstantsAssumption ==
    /\ Absent \notin Config \union Provider \union Model
    /\ WorkerIdentity \in
          [Worker -> [group : Group, provider : Provider \union {Absent},
                      model : Model \union {Absent}]]
    /\ CooldownLimit \in [RecordReason -> Nat \ {0}]
    /\ InferredLimit \in Nat \ {0}
    /\ DefaultCooldown \in Nat \ {0}
    /\ ProbeLease \in Nat \ {0}

-----------------------------------------------------------------------------
(* Adapter failures                                                        *)

AdapterFailure ==
    [reason : RecordReason \union TaskReason, scope : FailureScope,
     confidence : Confidence, retryAt : Time \union {NoTime}]

canFailoverCapacityFailure(f) == f.reason \in CapacityReason

disablesCapacity(f) ==
    f.confidence = "authoritative" /\ f.reason \in IdentityReason

-----------------------------------------------------------------------------
(* Record keys.  The code hashes the tuple; the digest is injective, so    *)
(* the key is the tuple itself, padded with Absent.                        *)

HasScope(w, scope) ==
    /\ scope = "provider" => WorkerIdentity[w].provider # Absent
    /\ scope = "model" => /\ WorkerIdentity[w].provider # Absent
                          /\ WorkerIdentity[w].model # Absent

capacityRecordKey(w, scope) ==
    [scope    |-> scope,
     group    |-> WorkerIdentity[w].group,
     provider |-> IF scope = "capacity-group" THEN Absent
                  ELSE WorkerIdentity[w].provider,
     model    |-> IF scope \in {"capacity-group", "provider"} THEN Absent
                  ELSE WorkerIdentity[w].model,
     worker   |-> IF scope = "worker" THEN w ELSE Absent]

Scopes(w) == {s \in Scope : HasScope(w, s)}
KeysOf(w) == {capacityRecordKey(w, s) : s \in Scopes(w)}
Key == UNION {KeysOf(w) : w \in Worker}

-----------------------------------------------------------------------------
(* Records                                                                 *)

NoLease == [leaseId |-> 0, expiresAt |-> NoTime]
Lease == [leaseId : Nat \ {0}, expiresAt : Time]

CapacityRecord ==
    [state : RecordState, reason : RecordReason \union {"none"},
     observedAt : Time, retryAt : Time \union {NoTime}, config : Config,
     generation : Nat, lease : Lease \union {NoLease}]

\* What parseCapacityRecord insists on whenever a record is read or written.
WellFormed(r) ==
    /\ r.state = "cooldown" => r.retryAt # NoTime
    /\ (r.state = "half-open") <=> (r.lease # NoLease)
    /\ r.state = "available" => r.reason = "none" /\ r.retryAt = NoTime
    /\ r.state \in {"cooldown", "half-open"} => r.reason \in RecordReason
    /\ r.state = "disabled" => r.reason \in IdentityReason /\ r.retryAt = NoTime

createCapacityRecord(cfg, now) ==
    [state |-> "available", reason |-> "none", observedAt |-> now,
     retryAt |-> NoTime, config |-> cfg, generation |-> 0, lease |-> NoLease]

LesserOf(a, b) == IF a < b THEN a ELSE b
GreaterOf(a, b) == IF a < b THEN b ELSE a

\* The longest cooldown one observation may request.
FailureLimit(f) ==
    IF f.confidence = "authoritative" THEN CooldownLimit[f.reason]
    ELSE LesserOf(CooldownLimit[f.reason], InferredLimit)

\* Slip: the provider's reset time is taken uncapped.
MutantUncappedRetryAt(f, now) ==
    IF f.retryAt = NoTime THEN now + DefaultCooldown ELSE GreaterOf(f.retryAt, now)

RetryAt(f, now) ==
    LET requested == IF f.retryAt = NoTime THEN now + DefaultCooldown
                     ELSE GreaterOf(f.retryAt, now)
    IN  LesserOf(requested, now + FailureLimit(f))

\* recordCapacityFailure throws for any other category.
CanRecord(f) == f.scope \in Scope /\ f.reason \in RecordReason

\* Every transition replaces these fields and takes the next generation; the
\* record keeps the configuration it was created or reopened under.
Changed(r, state, reason, retryAt, lease, now) ==
    [state |-> state, reason |-> reason, observedAt |-> now,
     retryAt |-> retryAt, config |-> r.config,
     generation |-> r.generation + 1, lease |-> lease]

\* Slip: a failure observation does not advance the generation.
MutantUnfencedFailure(r, f, now) ==
    [Changed(r, IF disablesCapacity(f) THEN "disabled" ELSE "cooldown", f.reason,
             IF disablesCapacity(f) THEN NoTime ELSE RetryAt(f, now),
             NoLease, now)
        EXCEPT !.generation = r.generation]

recordCapacityFailure(r, f, now) ==
    IF disablesCapacity(f)
    THEN Changed(r, "disabled", f.reason, NoTime, NoLease, now)
    ELSE Changed(r, "cooldown", f.reason, RetryAt(f, now), NoLease, now)

\* Slip: reopening does not advance the generation.
MutantReopenedInPlace(r, now) ==
    [Changed(r, "available", "none", NoTime, NoLease, now)
        EXCEPT !.generation = r.generation]

Reopened(r, now) == Changed(r, "available", "none", NoTime, NoLease, now)

\* Slip: the failure details survive the reopening.
MutantReopenKeepingReason(r, cfg, now) ==
    IF r.state # "disabled" \/ r.config = cfg THEN r
    ELSE [r EXCEPT !.state = "available", !.observedAt = now, !.config = cfg,
                   !.generation = r.generation + 1]

invalidateCapacityRecord(r, cfg, now) ==
    IF r.state # "disabled" \/ r.config = cfg THEN r
    ELSE [Reopened(r, now) EXCEPT !.config = cfg]

-----------------------------------------------------------------------------
(* Half-open probes                                                        *)

\* The cooldown or the previous probe's lease has run out.
RequiresProbe(r, now) ==
    \/ r.state = "cooldown" /\ r.retryAt <= now
    \/ r.state = "half-open" /\ r.lease.expiresAt <= now

Eligible(r, now) == r.state = "available" \/ RequiresProbe(r, now)

\* acquireHalfOpenLease returns null otherwise.
CanAcquire(r, now) ==
    /\ r.state \notin {"disabled", "available"}
    /\ r.state = "cooldown" => r.retryAt # NoTime /\ r.retryAt <= now
    /\ r.state = "half-open" => r.lease.expiresAt <= now

\* Slip: the lease is granted without an expiry.
MutantEndlessLease(r, leaseId, now) ==
    Changed(r, "half-open", r.reason, NoTime,
            [leaseId |-> leaseId, expiresAt |-> NoTime], now)

acquireHalfOpenLease(r, leaseId, now) ==
    Changed(r, "half-open", r.reason, NoTime,
            [leaseId |-> leaseId, expiresAt |-> now + ProbeLease], now)

\* Slip: any live lease will do, whoever holds it.
MutantAnyLease(r, leaseId, now) == r.state = "half-open" /\ r.lease.expiresAt > now

\* Slip: an outlived lease is still accepted.
MutantOutlivedLease(r, leaseId, now) ==
    r.state = "half-open" /\ r.lease.leaseId = leaseId

\* completeHalfOpenLease throws unless the caller still owns a live lease.
CanComplete(r, leaseId, now) ==
    /\ r.state = "half-open"
    /\ r.lease.leaseId = leaseId
    /\ r.lease.expiresAt > now

Abandoned(r, now) ==
    Changed(r, "cooldown", r.reason, now + DefaultCooldown, NoLease, now)

\* itemOutcome is "success", "abandon" or "failure"; only the last reads f.
completeHalfOpenLease(r, itemOutcome, f, now) ==
    CASE itemOutcome = "abandon" -> Abandoned(r, now)
      [] itemOutcome = "success" -> Reopened(r, now)
      [] OTHER -> recordCapacityFailure(r, f, now)
=============================================================================

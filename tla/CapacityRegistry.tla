-------------------------- MODULE CapacityRegistry --------------------------
(***************************************************************************)
(* The durable capacity registry of src/capacity-registry-store.mjs as the *)
(* facade createCapacityRegistry exposes it.  Several role processes       *)
(* (sessions) of one machine share the registry document; each built its   *)
(* facade from the machine configuration it read when it started.  Every   *)
(* facade call runs under withCapacityRegistryLock, so a call is one step; *)
(* the lock itself is the subject of another module.                       *)
(*                                                                         *)
(* A call that throws leaves the document alone and is no step here.  A    *)
(* session may stop, or be killed, between any two calls.                  *)
(***************************************************************************)
EXTENDS CapacityRecord

CONSTANTS
    Session,        \* role processes
    Observed,       \* the adapter failures the machine can meet
    MaxTime,        \* bound on the clock
    MaxGeneration   \* bound on record generations

ASSUME RegistryAssumption ==
    /\ Observed \subseteq AdapterFailure
    /\ MaxTime \in Nat
    /\ MaxGeneration \in Nat

VARIABLES
    now,            \* the machine's clock
    records,        \* the registry document: a record, or none, for each key
    machineConfig,  \* configuration and credential generation on disk
    cfg,            \* the pair each session's facade was built with
    probe,          \* the half-open probe each session holds
    nextLease       \* the next unused lease id

vars == <<now, records, machineConfig, cfg, probe, nextLease>>

NoRecord == [state |-> "none"]
NoProbe == [keys |-> {}]

\* What claimHalfOpenProbe hands out; expiresAt is the lease's, and grantedAt
\* the generation each leased record then had (only properties read the two).
Probe ==
    [worker : Worker, leaseId : Nat \ {0}, keys : (SUBSET Key) \ {{}},
     expiresAt : Time, grantedAt : [Key -> Nat]]

Holds(s) == probe[s] # NoProbe
Running(s) == cfg[s] # Absent
Stored(k) == records[k] # NoRecord
GenerationOf(r) == IF r = NoRecord THEN 0 ELSE r.generation

Init ==
    /\ now = 0
    /\ records = [k \in Key |-> NoRecord]
    /\ machineConfig \in Config
    /\ cfg = [s \in Session |-> Absent]
    /\ probe = [s \in Session |-> NoProbe]
    /\ nextLease = 1

-----------------------------------------------------------------------------
(* The environment: time, configuration, processes                         *)

Tick ==
    /\ now < MaxTime
    /\ now' = now + 1
    /\ UNCHANGED <<records, machineConfig, cfg, probe, nextLease>>

\* An operator edits the machine configuration or rotates a credential;
\* sessions already running keep the pair they loaded.
Rotate ==
    /\ machineConfig' \in Config \ {machineConfig}
    /\ UNCHANGED <<now, records, cfg, probe, nextLease>>

Start(s) ==
    /\ ~Running(s)
    /\ cfg' = [cfg EXCEPT ![s] = machineConfig]
    /\ UNCHANGED <<now, records, machineConfig, probe, nextLease>>

\* The process ends, is killed, or gives up a probe whose completion threw.
Stop(s) ==
    /\ Running(s)
    /\ cfg' = [cfg EXCEPT ![s] = Absent]
    /\ probe' = [probe EXCEPT ![s] = NoProbe]
    /\ UNCHANGED <<now, records, machineConfig, nextLease>>

-----------------------------------------------------------------------------
(* Facade calls                                                            *)

\* writeCapacityRegistry: the whole document is replaced.
Write(document) ==
    /\ \A k \in Key : GenerationOf(document[k]) <= MaxGeneration
    /\ records' = document

Refreshed(s, k) == invalidateCapacityRecord(records[k], cfg[s], now)

\* recordFailure and the projected failure of completeHalfOpenProbe start
\* from a fresh record when the scope has none.
Seed(s, k) == IF Stored(k) THEN records[k] ELSE createCapacityRecord(cfg[s], now)

\* records(): also reached through get(key).
RefreshAll(s) ==
    /\ Running(s)
    /\ Write([k \in Key |-> IF Stored(k) THEN Refreshed(s, k) ELSE NoRecord])
    /\ UNCHANGED <<now, machineConfig, cfg, probe, nextLease>>

RecordFailure(s, w, f) ==
    LET k == capacityRecordKey(w, f.scope)
    IN  /\ Running(s)
        /\ CanRecord(f)
        /\ HasScope(w, f.scope)
        /\ Write([records EXCEPT
                     ![k] = recordCapacityFailure(Seed(s, k), f, now)])
        /\ UNCHANGED <<now, machineConfig, cfg, probe, nextLease>>

\* workerScopeDecision: the stored records that concern w, refreshed.
EntriesOf(w) == {k \in KeysOf(w) : Stored(k)}
Due(s, w) == {k \in EntriesOf(w) : RequiresProbe(Refreshed(s, k), now)}
WorkerEligible(s, w) == \A k \in EntriesOf(w) : Eligible(Refreshed(s, k), now)

\* Grant session s the keys under one new lease.
Grant(s, w, keys) ==
    LET leased(k) == acquireHalfOpenLease(Refreshed(s, k), nextLease, now)
        document == [k \in Key |-> IF k \in keys THEN leased(k) ELSE records[k]]
    IN  /\ Write(document)
        /\ nextLease' = nextLease + 1
        /\ probe' = [probe EXCEPT ![s] =
              [worker |-> w, leaseId |-> nextLease, keys |-> keys,
               expiresAt |-> now + ProbeLease,
               grantedAt |-> [k \in Key |->
                   IF k \in keys THEN GenerationOf(document[k]) ELSE 0]]]

\* claimHalfOpenProbe when it grants: every due scope under one lease id, and
\* nothing at all (rollback) if one of them cannot be leased.  The refreshed
\* form of a scope that is not due is not saved.
ClaimHalfOpenProbe(s, w) ==
    /\ Running(s) /\ ~Holds(s)
    /\ WorkerEligible(s, w)
    /\ Due(s, w) # {}
    /\ \A k \in Due(s, w) : CanAcquire(Refreshed(s, k), now)
    /\ Grant(s, w, Due(s, w))
    /\ UNCHANGED <<now, machineConfig, cfg>>

\* claimHalfOpenProbe when it grants nothing saves what the refresh reopened.
RefuseHalfOpenProbe(s, w) ==
    /\ Running(s) /\ ~Holds(s)
    /\ ~WorkerEligible(s, w) \/ Due(s, w) = {}
    /\ Write([k \in Key |-> IF k \in EntriesOf(w) THEN Refreshed(s, k)
                            ELSE records[k]])
    /\ UNCHANGED <<now, machineConfig, cfg, probe, nextLease>>

\* The single-key form; any session may be handed any stored key.
AcquireHalfOpenLease(s, w, k) ==
    /\ Running(s) /\ ~Holds(s)
    /\ k \in EntriesOf(w)
    /\ CanAcquire(Refreshed(s, k), now)
    /\ Grant(s, w, {k})
    /\ UNCHANGED <<now, machineConfig, cfg>>

\* Slip: a failure of another scope counts as a success of this one.
MutantOtherScopeSucceeds(k, outcome, f) ==
    IF outcome = "failure" /\ f.scope # k.scope THEN "success" ELSE outcome

\* The outcome one leased scope of a probe gets: a failure of another scope
\* says nothing about it, so it is abandoned.
ItemOutcome(k, outcome, f) ==
    IF outcome = "failure" /\ f.scope # k.scope THEN "abandon" ELSE outcome

\* The record a failure outside the probe's own scopes lands on.
Projected(s, outcome, f) ==
    {k \in {capacityRecordKey(probe[s].worker, f.scope)} :
        outcome = "failure" /\ \A item \in probe[s].keys : item.scope # f.scope}

CompleteHalfOpenProbe(s, outcome, f) ==
    LET held == probe[s].keys
        extra == Projected(s, outcome, f)
        next(k) ==
           IF k \in held
           THEN completeHalfOpenLease(records[k], ItemOutcome(k, outcome, f),
                                      f, now)
           ELSE IF k \in extra THEN recordCapacityFailure(Seed(s, k), f, now)
                ELSE records[k]
    IN  /\ Running(s) /\ Holds(s)
        /\ \A k \in held : /\ Stored(k)
                           /\ CanComplete(records[k], probe[s].leaseId, now)
        /\ outcome = "failure" =>
              CanRecord(f) /\ HasScope(probe[s].worker, f.scope)
        \* "owned by another probe"
        /\ \A k \in extra : Stored(k) => records[k].state # "half-open"
        /\ Write([k \in Key |-> next(k)])
        /\ probe' = [probe EXCEPT ![s] = NoProbe]
        /\ UNCHANGED <<now, machineConfig, cfg, nextLease>>

\* The single-key form.  It projects nothing: a failure of another scope
\* makes recordCapacityFailure throw.
CompleteHalfOpenLease(s, k, outcome, f) ==
    /\ Running(s) /\ Holds(s)
    /\ probe[s].keys = {k}
    /\ Stored(k)
    /\ CanComplete(records[k], probe[s].leaseId, now)
    /\ outcome = "failure" => CanRecord(f) /\ f.scope = k.scope
    /\ Write([records EXCEPT ![k] = completeHalfOpenLease(@, outcome, f, now)])
    /\ probe' = [probe EXCEPT ![s] = NoProbe]
    /\ UNCHANGED <<now, machineConfig, cfg, nextLease>>

Outcome == {"success", "failure", "abandon"}

Call(s) ==
    \/ RefreshAll(s)
    \/ \E w \in Worker, f \in Observed : RecordFailure(s, w, f)
    \/ \E w \in Worker : ClaimHalfOpenProbe(s, w)
    \/ \E w \in Worker : RefuseHalfOpenProbe(s, w)
    \/ \E w \in Worker, k \in Key : AcquireHalfOpenLease(s, w, k)
    \/ \E outcome \in Outcome, f \in Observed : CompleteHalfOpenProbe(s, outcome, f)
    \/ \E k \in Key, outcome \in Outcome, f \in Observed :
          CompleteHalfOpenLease(s, k, outcome, f)

Next ==
    \/ Tick
    \/ Rotate
    \/ \E s \in Session : Start(s) \/ Stop(s) \/ Call(s)

Spec == Init /\ [][Next]_vars

-----------------------------------------------------------------------------
(* Correctness                                                             *)

\* Every variable has its type; in particular the saved document only holds
\* CapacityRecord v1 values.
TypeOK ==
    /\ now \in Time
    /\ records \in [Key -> CapacityRecord \union {NoRecord}]
    /\ machineConfig \in Config
    /\ cfg \in [Session -> Config \union {Absent}]
    /\ probe \in [Session -> Probe \union {NoProbe}]
    /\ nextLease \in Nat \ {0}

\* parseCapacityRecord accepts every saved record, so no sequence of calls
\* leaves a document that every later call would throw on.
DocumentReadable == \A k \in Key : Stored(k) => WellFormed(records[k])

\* A session's lease still stands on a record exactly when nothing was written
\* to that record since the grant: the generation is a fencing token for it.
LeaseFencedByGeneration ==
    \A s \in Session : Holds(s) =>
        \A k \in probe[s].keys :
            /\ Stored(k)
            /\ probe[s].grantedAt[k] <= records[k].generation
            /\ (records[k].lease.leaseId = probe[s].leaseId)
                  <=> (records[k].generation = probe[s].grantedAt[k])

Completable(s) ==
    Holds(s) /\ \A k \in probe[s].keys :
        Stored(k) /\ CanComplete(records[k], probe[s].leaseId, now)

\* Of two sessions that were both lent a scope, one at most can still settle
\* it: an outlived or displaced probe can no longer change the record.
OneCompleter ==
    \A s, t \in Session :
        s # t /\ Completable(s) /\ Completable(t)
            => probe[s].keys \intersect probe[t].keys = {}

\* No record but a disabled one blocks its scope for longer than the longest
\* cooldown or one lease after it was written, whoever crashed meanwhile.
BlockedFor(r) ==
    CASE r.state = "cooldown" -> r.retryAt - r.observedAt
      [] r.state = "half-open" -> r.lease.expiresAt - r.observedAt
      [] OTHER -> 0

LongestBlock(r) ==
    CASE r.state = "cooldown" -> GreaterOf(CooldownLimit[r.reason], DefaultCooldown)
      [] r.state = "half-open" -> ProbeLease
      [] OTHER -> 0

BlockBounded(r) == 0 <= BlockedFor(r) /\ BlockedFor(r) <= LongestBlock(r)

UnavailabilityBounded ==
    \A k \in Key : Stored(k) =>
        BlockBounded(records[k]) /\ records[k].observedAt <= now

\* A changed record carries the next generation and none is ever removed.
\* Attempt identities name records by generation, so a change they could not
\* see would let a new attempt pass for the old one.
GenerationMonotone ==
    [][\A k \in Key : records'[k] # records[k] =>
          GenerationOf(records'[k]) = GenerationOf(records[k]) + 1]_vars

\* A scope that failed is trusted again only through a live probe of its own,
\* or because a disabled record met another configuration.
ReopenedByProof ==
    [][\A k \in Key :
          (/\ Stored(k)
           /\ records[k].state # "available"
           /\ records'[k].state = "available")
          => \/ records[k].state = "disabled"
             \/ \E s \in Session :
                   /\ k \in probe[s].keys
                   /\ probe[s].leaseId = records[k].lease.leaseId
                   /\ now < probe[s].expiresAt
                   /\ probe'[s] = NoProbe]_vars

\* A probe settles as a whole: either all of its scopes reopen or none does,
\* and none keeps its lease.  (A session that stops settles nothing.)
Settled(s) == Holds(s) /\ probe'[s] = NoProbe /\ cfg'[s] # Absent
SettledTogether ==
    [][\A s \in Session : Settled(s) =>
          /\ \A k \in probe[s].keys : records'[k].state # "half-open"
          /\ \/ \A k \in probe[s].keys : records'[k].state = "available"
             \/ \A k \in probe[s].keys : records'[k].state # "available"]_vars

\* docs/architecture.md says of a disabled record that it reopens only after
\* a relevant generation changed: then some running session must have been
\* built with another configuration than the record's.
DisabledUntilRotation ==
    [][\A k \in Key :
          (records[k].state = "disabled" /\ records'[k].state # "disabled")
          => \E s \in Session : Running(s) /\ cfg[s] # records[k].config]_vars
=============================================================================

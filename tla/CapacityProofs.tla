-------------------------- MODULE CapacityProofs --------------------------
(***************************************************************************)
(* What the durable capacity registry and the role worker on it guarantee. *)
(*                                                                         *)
(* The first half is about the registry alone, for every set of Workers,   *)
(* sessions, configurations and failures: what each CapacityRecord         *)
(* transition does to a record, then what that does to the document and to *)
(* the probes handed out.                                                  *)
(*                                                                         *)
(* The second half is about the role worker, for any number of executions, *)
(* requests, routed Workers, deliveries, kills and registry errors.  Two   *)
(* results carry it: an execution of the role worker is one of the         *)
(* registry, so that every theorem about the registry holds of it; and the *)
(* attempt an execution works on is its own, because the executions of one *)
(* request run one at a time.                                              *)
(***************************************************************************)
EXTENDS RoleWorker, TLAPS

-----------------------------------------------------------------------------
(* The registry: record transitions                                        *)

\* A stored record is told from a missing one by its state.
LEMMA NoRecordIsNone ==
    /\ NoRecord \notin CapacityRecord
    /\ \A r \in CapacityRecord : r # NoRecord
BY DEF NoRecord, CapacityRecord, RecordState

\* createCapacityRecord yields a readable, available record of generation 0.
LEMMA CreatedRecord ==
    ASSUME NEW c \in Config, NEW t \in Time
    PROVE  LET r == createCapacityRecord(c, t)
           IN  /\ r \in CapacityRecord
               /\ WellFormed(r)
               /\ r.generation = 0
               /\ r.state = "available"
               /\ r.observedAt = t
BY DEF createCapacityRecord, CapacityRecord, WellFormed, NoLease, NoTime,
       RecordState, Time

\* The reset time an observation yields is never past and never further off
\* than the limit of its reason and confidence.
LEMMA RetryBounded ==
    ASSUME NEW f \in AdapterFailure, CanRecord(f), NEW t \in Time
    PROVE  /\ RetryAt(f, t) \in Time
           /\ t <= RetryAt(f, t)
           /\ RetryAt(f, t) <= t + CooldownLimit[f.reason]
<1>1. /\ CooldownLimit[f.reason] \in Nat \ {0}
      /\ InferredLimit \in Nat \ {0}
      /\ DefaultCooldown \in Nat \ {0}
  BY ConstantsAssumption DEF CanRecord
<1>2. f.retryAt \in Time \union {NoTime}
  BY DEF AdapterFailure
<1>3. /\ FailureLimit(f) \in Nat
      /\ FailureLimit(f) <= CooldownLimit[f.reason]
  BY <1>1 DEF FailureLimit, LesserOf
<1>4. QED
  BY <1>1, <1>2, <1>3 DEF RetryAt, LesserOf, GreaterOf, Time, NoTime

\* What every transition that changes a record guarantees of its result:
\* parseCapacityRecord accepts it, it carries the next generation, and it
\* blocks its scope no longer than its reason allows.
Advanced(n, generation, t) ==
    /\ n \in CapacityRecord
    /\ WellFormed(n)
    /\ BlockBounded(n)
    /\ n.generation = generation + 1
    /\ n.observedAt = t

\* recordCapacityFailure advances the record, blocks the scope and withdraws
\* any lease.
LEMMA FailedRecord ==
    ASSUME NEW r \in CapacityRecord, NEW f \in AdapterFailure, CanRecord(f),
           NEW t \in Time
    PROVE  LET n == recordCapacityFailure(r, f, t)
           IN  /\ Advanced(n, r.generation, t)
               /\ n.state \in {"cooldown", "disabled"}
               /\ n.lease = NoLease
<1> DEFINE n == recordCapacityFailure(r, f, t)
<1>1. f.reason \in RecordReason
  BY DEF CanRecord
<1>2. CASE disablesCapacity(f)
  <2>1. n = Changed(r, "disabled", f.reason, NoTime, NoLease, t)
    BY <1>2 DEF recordCapacityFailure
  <2>2. f.reason \in IdentityReason
    BY <1>2 DEF disablesCapacity
  <2>3. /\ n \in CapacityRecord
        /\ n.state = "disabled" /\ n.reason = f.reason
        /\ n.retryAt = NoTime /\ n.lease = NoLease
        /\ n.observedAt = t /\ n.generation = r.generation + 1
    BY <1>1, <2>1 DEF Changed, CapacityRecord, RecordState
  <2>4. WellFormed(n) /\ BlockBounded(n)
    BY <2>2, <2>3 DEF WellFormed, BlockBounded, BlockedFor, LongestBlock
  <2>5. QED
    BY <2>3, <2>4 DEF Advanced
<1>3. CASE ~disablesCapacity(f)
  <2>1. n = Changed(r, "cooldown", f.reason, RetryAt(f, t), NoLease, t)
    BY <1>3 DEF recordCapacityFailure
  <2>2. /\ RetryAt(f, t) \in Time
        /\ t <= RetryAt(f, t)
        /\ RetryAt(f, t) <= t + CooldownLimit[f.reason]
    BY RetryBounded
  <2>3. /\ n \in CapacityRecord
        /\ n.state = "cooldown" /\ n.reason = f.reason
        /\ n.retryAt = RetryAt(f, t) /\ n.lease = NoLease
        /\ n.observedAt = t /\ n.generation = r.generation + 1
    BY <1>1, <2>1, <2>2 DEF Changed, CapacityRecord, RecordState
  <2>4. WellFormed(n)
    BY <1>1, <2>2, <2>3 DEF WellFormed, NoTime, Time
  <2>5. BlockBounded(n)
    <3>1. /\ CooldownLimit[f.reason] \in Nat
          /\ DefaultCooldown \in Nat
      BY <1>1, ConstantsAssumption
    <3>2. QED
      BY <3>1, <2>2, <2>3
      DEF BlockBounded, BlockedFor, LongestBlock, GreaterOf, Time
  <2>6. QED
    BY <2>3, <2>4, <2>5 DEF Advanced
<1>4. QED
  BY <1>2, <1>3

\* Reopening advances the record and leaves it available without a lease.
LEMMA ReopenedRecord ==
    ASSUME NEW r \in CapacityRecord, NEW t \in Time
    PROVE  LET n == Reopened(r, t)
           IN  /\ Advanced(n, r.generation, t)
               /\ n.state = "available"
               /\ n.lease = NoLease
<1> DEFINE n == Reopened(r, t)
<1>1. /\ n \in CapacityRecord
      /\ n.state = "available" /\ n.reason = "none"
      /\ n.retryAt = NoTime /\ n.lease = NoLease
      /\ n.observedAt = t /\ n.generation = r.generation + 1
  BY DEF Reopened, Changed, CapacityRecord, RecordState
<1>2. WellFormed(n) /\ BlockBounded(n)
  BY <1>1 DEF WellFormed, BlockBounded, BlockedFor, LongestBlock
<1>3. QED
  BY <1>1, <1>2 DEF Advanced

\* invalidateCapacityRecord leaves a record alone, or reopens a disabled one.
LEMMA InvalidatedRecord ==
    ASSUME NEW r \in CapacityRecord, NEW c \in Config, NEW t \in Time
    PROVE  LET n == invalidateCapacityRecord(r, c, t)
           IN  \/ n = r
               \/ /\ Advanced(n, r.generation, t)
                  /\ r.state = "disabled"
                  /\ n.state = "available"
                  /\ n.lease = NoLease
<1> DEFINE n == invalidateCapacityRecord(r, c, t)
<1>1. CASE r.state # "disabled" \/ r.config = c
  BY <1>1 DEF invalidateCapacityRecord
<1>2. CASE ~(r.state # "disabled" \/ r.config = c)
  <2>1. n = [Reopened(r, t) EXCEPT !.config = c]
    BY <1>2 DEF invalidateCapacityRecord
  <2>2. /\ n \in CapacityRecord
        /\ n.state = "available" /\ n.reason = "none"
        /\ n.retryAt = NoTime /\ n.lease = NoLease
        /\ n.observedAt = t /\ n.generation = r.generation + 1
    BY <2>1 DEF Reopened, Changed, CapacityRecord, RecordState
  <2>3. WellFormed(n) /\ BlockBounded(n)
    BY <2>2 DEF WellFormed, BlockBounded, BlockedFor, LongestBlock
  <2>4. QED
    BY <1>2, <2>2, <2>3 DEF Advanced
<1>3. QED
  BY <1>1, <1>2

\* A granted lease advances the record and stands on it until it expires.
LEMMA LeasedRecord ==
    ASSUME NEW r \in CapacityRecord, WellFormed(r), NEW t \in Time,
           CanAcquire(r, t), NEW id \in Nat \ {0}
    PROVE  LET n == acquireHalfOpenLease(r, id, t)
           IN  /\ Advanced(n, r.generation, t)
               /\ n.state = "half-open"
               /\ n.lease.leaseId = id
               /\ n.lease.expiresAt = t + ProbeLease
<1> DEFINE n == acquireHalfOpenLease(r, id, t)
           l == [leaseId |-> id, expiresAt |-> t + ProbeLease]
<1>1. ProbeLease \in Nat \ {0}
  BY ConstantsAssumption
<1>2. l \in Lease /\ l # NoLease
  BY <1>1 DEF Lease, NoLease, Time
<1>3. r.reason \in RecordReason
  <2>1. r.state \in {"cooldown", "half-open"}
    BY DEF CanAcquire, CapacityRecord, RecordState
  <2>2. QED
    BY <2>1 DEF WellFormed
<1>4. n = Changed(r, "half-open", r.reason, NoTime, l, t)
  BY DEF acquireHalfOpenLease
<1> HIDE DEF l
<1>5. /\ n \in CapacityRecord
      /\ n.state = "half-open" /\ n.reason = r.reason
      /\ n.retryAt = NoTime /\ n.lease = l
      /\ n.observedAt = t /\ n.generation = r.generation + 1
  BY <1>2, <1>3, <1>4 DEF Changed, CapacityRecord, RecordState
<1>6. WellFormed(n)
  BY <1>2, <1>3, <1>5 DEF WellFormed
<1>7. BlockBounded(n)
  <2>1. n.lease.expiresAt = t + ProbeLease
    BY <1>5 DEF l
  <2>2. QED
    BY <1>1, <1>5, <2>1 DEF BlockBounded, BlockedFor, LongestBlock, Time
<1>8. QED
  BY <1>5, <1>6, <1>7 DEF Advanced, l

\* However a probe ends, the record advances and its lease is withdrawn.
LEMMA CompletedRecord ==
    ASSUME NEW r \in CapacityRecord, WellFormed(r), NEW t \in Time,
           r.state = "half-open", NEW outcome,
           NEW f \in AdapterFailure,
           outcome \notin {"success", "abandon"} => CanRecord(f)
    PROVE  LET n == completeHalfOpenLease(r, outcome, f, t)
           IN  /\ Advanced(n, r.generation, t)
               /\ n.state # "half-open"
               /\ n.lease = NoLease
               /\ n.state = "available" => outcome = "success"
<1> DEFINE n == completeHalfOpenLease(r, outcome, f, t)
<1>1. CASE outcome = "abandon"
  <2>1. n = Changed(r, "cooldown", r.reason, t + DefaultCooldown, NoLease, t)
    BY <1>1 DEF completeHalfOpenLease, Abandoned
  <2>2. /\ DefaultCooldown \in Nat
        /\ r.reason \in RecordReason
        /\ CooldownLimit[r.reason] \in Nat
    BY ConstantsAssumption DEF WellFormed
  <2>3. /\ n \in CapacityRecord
        /\ n.state = "cooldown" /\ n.reason = r.reason
        /\ n.retryAt = t + DefaultCooldown /\ n.lease = NoLease
        /\ n.observedAt = t /\ n.generation = r.generation + 1
    BY <2>1, <2>2 DEF Changed, CapacityRecord, RecordState, Time
  <2>4. WellFormed(n)
    BY <2>2, <2>3 DEF WellFormed, NoTime, Time
  <2>5. BlockBounded(n)
    BY <2>2, <2>3 DEF BlockBounded, BlockedFor, LongestBlock, GreaterOf, Time
  <2>6. QED
    BY <2>3, <2>4, <2>5 DEF Advanced
<1>2. CASE outcome = "success"
  BY <1>2, ReopenedRecord DEF completeHalfOpenLease
<1>3. CASE outcome \notin {"success", "abandon"}
  BY <1>3, FailedRecord DEF completeHalfOpenLease
<1>4. QED
  BY <1>1, <1>2, <1>3

-----------------------------------------------------------------------------
(* One step of the registry, record by record                              *)

\* Session s settles its live lease on record k and lets go of the probe.
SettledBy(s, k) ==
    /\ k \in probe[s].keys
    /\ CanComplete(records[k], probe[s].leaseId, now)
    /\ probe'[s] = NoProbe

\* A step leaves the record of key k alone, or advances it: without a lease
\* or under the lease id the step consumes, and to available only from
\* disabled or for a session that settles its live lease.
RecordStep(k) ==
    \/ records'[k] = records[k]
    \/ /\ Advanced(records'[k], GenerationOf(records[k]), now)
       /\ \/ records'[k].lease = NoLease
          \/ /\ records'[k].lease.leaseId = nextLease
             /\ nextLease' = nextLease + 1
       /\ records'[k].state = "available" =>
             \/ records[k].state = "disabled"
             \/ \E s \in Session : SettledBy(s, k)

RecordsStep ==
    /\ records' = [k \in Key |-> records'[k]]
    /\ \A k \in Key : RecordStep(k)

\* A stored record is a CapacityRecord, and a missing one counts as
\* generation 0.
LEMMA StoredRecord ==
    ASSUME TypeOK, DocumentReadable, NEW k \in Key
    PROVE  /\ Stored(k) => /\ records[k] \in CapacityRecord
                           /\ WellFormed(records[k])
                           /\ GenerationOf(records[k]) = records[k].generation
           /\ ~Stored(k) => GenerationOf(records[k]) = 0
BY NoRecordIsNone DEF TypeOK, DocumentReadable, Stored, GenerationOf

\* The record a failure is applied to has the generation the document shows.
LEMMA SeedRecord ==
    ASSUME TypeOK, DocumentReadable, NEW s \in Session, Running(s),
           NEW k \in Key
    PROVE  /\ Seed(s, k) \in CapacityRecord
           /\ Seed(s, k).generation = GenerationOf(records[k])
<1>1. cfg[s] \in Config /\ now \in Time
  BY DEF TypeOK, Running
<1>2. CASE Stored(k)
  BY <1>2, StoredRecord DEF Seed
<1>3. CASE ~Stored(k)
  BY <1>1, <1>3, StoredRecord, CreatedRecord DEF Seed
<1>4. QED
  BY <1>2, <1>3

\* The refreshed form of a stored record is that record or its reopening.
LEMMA RefreshedRecord ==
    ASSUME TypeOK, DocumentReadable, NEW s \in Session, Running(s),
           NEW k \in Key, Stored(k)
    PROVE  \/ Refreshed(s, k) = records[k]
           \/ /\ Advanced(Refreshed(s, k), GenerationOf(records[k]), now)
              /\ records[k].state = "disabled"
              /\ Refreshed(s, k).state = "available"
              /\ Refreshed(s, k).lease = NoLease
<1>1. cfg[s] \in Config /\ now \in Time
  BY DEF TypeOK, Running
<1>2. QED
  BY <1>1, StoredRecord, InvalidatedRecord DEF Refreshed

\* A record that can be leased is its own refreshed form, and leasing it is a
\* step that consumes the lease id.
LEMMA LeaseStep ==
    ASSUME TypeOK, DocumentReadable, NEW s \in Session, Running(s),
           NEW k \in Key, Stored(k), CanAcquire(Refreshed(s, k), now)
    PROVE  LET n == acquireHalfOpenLease(Refreshed(s, k), nextLease, now)
           IN  /\ Advanced(n, GenerationOf(records[k]), now)
               /\ n.state = "half-open"
               /\ n.lease.leaseId = nextLease
               /\ n.lease.expiresAt = now + ProbeLease
<1>1. Refreshed(s, k) = records[k]
  BY RefreshedRecord DEF CanAcquire
<1>2. /\ records[k] \in CapacityRecord /\ WellFormed(records[k])
      /\ GenerationOf(records[k]) = records[k].generation
  BY StoredRecord
<1>3. now \in Time /\ nextLease \in Nat \ {0}
  BY DEF TypeOK
<1>4. QED
  BY <1>1, <1>2, <1>3, LeasedRecord

\* Granting a probe over stored, leasable keys.
LEMMA GrantStep ==
    ASSUME TypeOK, DocumentReadable, NEW s \in Session, Running(s),
           NEW w \in Worker, NEW keys \in SUBSET Key,
           \A k \in keys : Stored(k) /\ CanAcquire(Refreshed(s, k), now),
           Grant(s, w, keys)
    PROVE  RecordsStep
<1>1. /\ records' = [k \in Key |->
            IF k \in keys
            THEN acquireHalfOpenLease(Refreshed(s, k), nextLease, now)
            ELSE records[k]]
      /\ nextLease' = nextLease + 1
  BY DEF Grant, Write
<1>2. ASSUME NEW k \in Key PROVE RecordStep(k)
  <2>1. CASE k \in keys
    BY <1>1, <2>1, LeaseStep DEF RecordStep
  <2>2. CASE k \notin keys
    BY <1>1, <2>2 DEF RecordStep
  <2>3. QED
    BY <2>1, <2>2
<1>3. QED
  BY <1>1, <1>2 DEF RecordsStep

\* The keys of a Worker are keys of the registry.
LEMMA WorkerKeys ==
    ASSUME NEW w \in Worker
    PROVE  /\ KeysOf(w) \subseteq Key
           /\ EntriesOf(w) \subseteq Key
           /\ \A scope \in Scope :
                 HasScope(w, scope) => capacityRecordKey(w, scope) \in Key
BY DEF Key, KeysOf, Scopes, EntriesOf

\* Every facade call advances the records it changes.
LEMMA CallStep ==
    ASSUME TypeOK, DocumentReadable, NEW s \in Session, Call(s)
    PROVE  RecordsStep
<1>1. Observed \subseteq AdapterFailure
  BY RegistryAssumption
<1>2. CASE RefreshAll(s)
  <2>1. /\ Running(s)
        /\ records' = [k \in Key |-> IF Stored(k) THEN Refreshed(s, k)
                                     ELSE NoRecord]
    BY <1>2 DEF RefreshAll, Write
  <2>2. ASSUME NEW k \in Key PROVE RecordStep(k)
    <3>1. CASE Stored(k)
      BY <2>1, <3>1, RefreshedRecord DEF RecordStep
    <3>2. CASE ~Stored(k)
      BY <2>1, <3>2 DEF RecordStep, Stored
    <3>3. QED
      BY <3>1, <3>2
  <2>3. QED
    BY <2>1, <2>2 DEF RecordsStep
<1>3. ASSUME NEW w \in Worker, NEW f \in Observed, RecordFailure(s, w, f)
      PROVE  RecordsStep
  <2> DEFINE key == capacityRecordKey(w, f.scope)
             new == recordCapacityFailure(Seed(s, key), f, now)
  <2>1. /\ Running(s) /\ CanRecord(f) /\ HasScope(w, f.scope)
        /\ records' = [records EXCEPT ![key] = new]
    BY <1>3 DEF RecordFailure, Write
  <2>2. key \in Key
    BY <2>1, WorkerKeys DEF CanRecord
  <2>3. /\ Advanced(new, GenerationOf(records[key]), now)
        /\ new.state # "available" /\ new.lease = NoLease
    BY <1>1, <2>1, <2>2, SeedRecord, FailedRecord DEF TypeOK
  <2> HIDE DEF key, new
  <2>4. /\ records \in [Key -> CapacityRecord \union {NoRecord}]
        /\ records' = [k \in Key |-> IF k = key THEN new ELSE records[k]]
    BY <2>1, <2>2 DEF TypeOK
  <2>5. ASSUME NEW k \in Key PROVE RecordStep(k)
    BY <2>3, <2>4 DEF RecordStep
  <2>6. QED
    BY <2>4, <2>5 DEF RecordsStep
<1>4. ASSUME NEW w \in Worker, ClaimHalfOpenProbe(s, w)
      PROVE  RecordsStep
  <2>1. Due(s, w) \in SUBSET Key /\ \A k \in Due(s, w) : Stored(k)
    BY WorkerKeys DEF Due, EntriesOf
  <2>2. QED
    BY <1>4, <2>1, GrantStep DEF ClaimHalfOpenProbe
<1>5. ASSUME NEW w \in Worker, RefuseHalfOpenProbe(s, w)
      PROVE  RecordsStep
  <2>1. /\ Running(s)
        /\ records' = [k \in Key |-> IF k \in EntriesOf(w) THEN Refreshed(s, k)
                                     ELSE records[k]]
    BY <1>5 DEF RefuseHalfOpenProbe, Write
  <2>2. ASSUME NEW k \in Key PROVE RecordStep(k)
    <3>1. CASE k \in EntriesOf(w)
      BY <2>1, <3>1, RefreshedRecord DEF RecordStep, EntriesOf
    <3>2. CASE k \notin EntriesOf(w)
      BY <2>1, <3>2 DEF RecordStep
    <3>3. QED
      BY <3>1, <3>2
  <2>3. QED
    BY <2>1, <2>2 DEF RecordsStep
<1>6. ASSUME NEW w \in Worker, NEW k \in Key, AcquireHalfOpenLease(s, w, k)
      PROVE  RecordsStep
  BY <1>6, GrantStep DEF AcquireHalfOpenLease, EntriesOf
<1>7. ASSUME NEW outcome \in Outcome, NEW f \in Observed,
             CompleteHalfOpenProbe(s, outcome, f)
      PROVE  RecordsStep
  <2> DEFINE held == probe[s].keys
             extra == Projected(s, outcome, f)
             settled(k) == completeHalfOpenLease(records[k],
                              ItemOutcome(k, outcome, f), f, now)
             projected(k) == recordCapacityFailure(Seed(s, k), f, now)
  <2>1. /\ Running(s)
        /\ \A k \in held : Stored(k) /\ CanComplete(records[k], probe[s].leaseId, now)
        /\ outcome = "failure" => CanRecord(f)
        /\ probe'[s] = NoProbe
        /\ records' = [k \in Key |-> IF k \in held THEN settled(k)
                                     ELSE IF k \in extra THEN projected(k)
                                     ELSE records[k]]
    BY <1>7 DEF CompleteHalfOpenProbe, Write, TypeOK
  <2>2. f \in AdapterFailure /\ now \in Time
    BY <1>1 DEF TypeOK
  <2>3. ASSUME NEW k \in Key PROVE RecordStep(k)
    <3>1. CASE k \in held
      <4>1. /\ records[k] \in CapacityRecord /\ WellFormed(records[k])
            /\ GenerationOf(records[k]) = records[k].generation
            /\ records[k].state = "half-open"
        BY <2>1, <3>1, StoredRecord DEF CanComplete
      <4>2. /\ ItemOutcome(k, outcome, f) \notin {"success", "abandon"}
                  => CanRecord(f)
        BY <2>1 DEF ItemOutcome, Outcome
      <4>3. /\ Advanced(settled(k), GenerationOf(records[k]), now)
            /\ settled(k).lease = NoLease
        BY <2>2, <4>1, <4>2, CompletedRecord
      <4>4. SettledBy(s, k)
        BY <2>1, <3>1 DEF SettledBy
      <4> HIDE DEF settled
      <4>5. records'[k] = settled(k)
        BY <2>1, <3>1
      <4>6. QED
        BY <4>3, <4>4, <4>5 DEF RecordStep
    <3>2. CASE k \notin held /\ k \in extra
      <4>1. CanRecord(f)
        BY <2>1, <3>2 DEF Projected
      <4>2. /\ Advanced(projected(k), GenerationOf(records[k]), now)
            /\ projected(k).state # "available"
            /\ projected(k).lease = NoLease
        BY <2>1, <2>2, <4>1, SeedRecord, FailedRecord
      <4> HIDE DEF projected
      <4>3. records'[k] = projected(k)
        BY <2>1, <3>2
      <4>4. QED
        BY <4>2, <4>3 DEF RecordStep
    <3>3. CASE k \notin held /\ k \notin extra
      BY <2>1, <3>3 DEF RecordStep
    <3>4. QED
      BY <3>1, <3>2, <3>3
  <2>4. QED
    BY <2>1, <2>3 DEF RecordsStep
<1>8. ASSUME NEW key \in Key, NEW outcome \in Outcome, NEW f \in Observed,
             CompleteHalfOpenLease(s, key, outcome, f)
      PROVE  RecordsStep
  <2> DEFINE new == completeHalfOpenLease(records[key], outcome, f, now)
  <2>1. /\ probe[s].keys = {key} /\ Stored(key)
        /\ CanComplete(records[key], probe[s].leaseId, now)
        /\ outcome = "failure" => CanRecord(f)
        /\ probe'[s] = NoProbe
        /\ records' = [records EXCEPT ![key] = new]
    BY <1>8 DEF CompleteHalfOpenLease, Write, TypeOK
  <2>2. /\ records[key] \in CapacityRecord /\ WellFormed(records[key])
        /\ GenerationOf(records[key]) = records[key].generation
        /\ records[key].state = "half-open"
    BY <2>1, StoredRecord DEF CanComplete
  <2>3. /\ Advanced(new, GenerationOf(records[key]), now)
        /\ new.lease = NoLease
    BY <1>1, <2>1, <2>2, CompletedRecord DEF TypeOK, Outcome
  <2>4. SettledBy(s, key)
    BY <2>1 DEF SettledBy
  <2> HIDE DEF new
  <2>5. /\ records \in [Key -> CapacityRecord \union {NoRecord}]
        /\ records' = [k \in Key |-> IF k = key THEN new ELSE records[k]]
    BY <2>1 DEF TypeOK
  <2>6. ASSUME NEW k \in Key PROVE RecordStep(k)
    BY <2>3, <2>4, <2>5 DEF RecordStep
  <2>7. QED
    BY <2>5, <2>6 DEF RecordsStep
<1>9. QED
  BY <1>2, <1>3, <1>4, <1>5, <1>6, <1>7, <1>8 DEF Call

-----------------------------------------------------------------------------
(* One step of the registry, probe by probe                                *)

\* Session s was lent the keys of its new probe under the lease id the step
\* consumes, and the probe notes what the records then say.
GrantedTo(s) ==
    /\ probe'[s] \in Probe
    /\ probe'[s].leaseId = nextLease
    /\ \A k \in probe'[s].keys :
          /\ records'[k] \in CapacityRecord
          /\ records'[k].generation = probe'[s].grantedAt[k]
          /\ records'[k].lease.leaseId = nextLease
          /\ records'[k].lease.expiresAt = probe'[s].expiresAt

\* A step hands out one probe under a fresh lease id, or none.
ProbesStep ==
    /\ probe' \in [Session -> Probe \union {NoProbe}]
    /\ \/ /\ nextLease' = nextLease
          /\ \A s \in Session : probe'[s] \in {probe[s], NoProbe}
       \/ /\ nextLease' = nextLease + 1
          /\ \E s \in Session :
                /\ GrantedTo(s)
                /\ \A t \in Session \ {s} : probe'[t] = probe[t]

\* A granted probe is a Probe, and differs from holding none.
LEMMA ProbeHeld ==
    /\ NoProbe \notin Probe
    /\ TypeOK => \A s \in Session : Holds(s) => probe[s] \in Probe
BY DEF NoProbe, Probe, TypeOK, Holds

LEMMA GrantProbe ==
    ASSUME TypeOK, DocumentReadable, NEW s \in Session, Running(s),
           NEW w \in Worker, NEW keys \in (SUBSET Key) \ {{}},
           \A k \in keys : Stored(k) /\ CanAcquire(Refreshed(s, k), now),
           Grant(s, w, keys)
    PROVE  ProbesStep
<1> DEFINE leased(k) == acquireHalfOpenLease(Refreshed(s, k), nextLease, now)
           document == [k \in Key |-> IF k \in keys THEN leased(k) ELSE records[k]]
           at == [k \in Key |->
                     IF k \in keys THEN GenerationOf(document[k]) ELSE 0]
           new == [worker |-> w, leaseId |-> nextLease, keys |-> keys,
                   expiresAt |-> now + ProbeLease, grantedAt |-> at]
<1>1. /\ records' = document
      /\ nextLease' = nextLease + 1
      /\ probe' = [probe EXCEPT ![s] = new]
  BY DEF Grant, Write
<1>2. /\ now \in Time /\ nextLease \in Nat \ {0}
      /\ probe \in [Session -> Probe \union {NoProbe}]
      /\ ProbeLease \in Nat \ {0}
  BY ConstantsAssumption DEF TypeOK
<1>3. ASSUME NEW k \in keys
      PROVE  /\ document[k] \in CapacityRecord
             /\ document[k].lease.leaseId = nextLease
             /\ document[k].lease.expiresAt = now + ProbeLease
             /\ GenerationOf(document[k]) = document[k].generation
             /\ at[k] = document[k].generation
  <2>1. /\ leased(k) \in CapacityRecord
        /\ leased(k).lease.leaseId = nextLease
        /\ leased(k).lease.expiresAt = now + ProbeLease
    BY LeaseStep DEF Advanced
  <2>2. GenerationOf(leased(k)) = leased(k).generation
    BY <2>1, NoRecordIsNone DEF GenerationOf
  <2> HIDE DEF leased
  <2>3. document[k] = leased(k)
    OBVIOUS
  <2>4. QED
    BY <2>1, <2>2, <2>3
<1>4. ASSUME NEW k \in Key PROVE at[k] \in Nat
  BY <1>3 DEF CapacityRecord
<1> HIDE DEF document
<1>5. new \in Probe
  <2>1. at \in [Key -> Nat]
    BY <1>4
  <2> HIDE DEF at
  <2>2. QED
    BY <1>2, <2>1 DEF Probe, Time
<1>6. /\ new.leaseId = nextLease /\ new.keys = keys
      /\ new.expiresAt = now + ProbeLease /\ new.grantedAt = at
  OBVIOUS
<1> HIDE DEF new, at
<1>7. probe' \in [Session -> Probe \union {NoProbe}] /\ probe'[s] = new
      /\ \A t \in Session \ {s} : probe'[t] = probe[t]
  BY <1>1, <1>2, <1>5
<1>8. GrantedTo(s)
  BY <1>1, <1>3, <1>5, <1>6, <1>7 DEF GrantedTo
<1>9. QED
  BY <1>1, <1>7, <1>8 DEF ProbesStep

\* A facade call hands out one probe, or takes at most probes back.
LEMMA CallProbes ==
    ASSUME TypeOK, DocumentReadable, NEW s \in Session, Call(s)
    PROVE  ProbesStep
<1>1. CASE RefreshAll(s)
  BY <1>1 DEF RefreshAll, ProbesStep, TypeOK
<1>2. ASSUME NEW w \in Worker, NEW f \in Observed, RecordFailure(s, w, f)
      PROVE  ProbesStep
  BY <1>2 DEF RecordFailure, ProbesStep, TypeOK
<1>3. ASSUME NEW w \in Worker, ClaimHalfOpenProbe(s, w)
      PROVE  ProbesStep
  <2>1. Due(s, w) \in (SUBSET Key) \ {{}} /\ \A k \in Due(s, w) : Stored(k)
    BY <1>3, WorkerKeys DEF ClaimHalfOpenProbe, Due, EntriesOf
  <2>2. QED
    BY <1>3, <2>1, GrantProbe DEF ClaimHalfOpenProbe
<1>4. ASSUME NEW w \in Worker, RefuseHalfOpenProbe(s, w)
      PROVE  ProbesStep
  BY <1>4 DEF RefuseHalfOpenProbe, ProbesStep, TypeOK
<1>5. ASSUME NEW w \in Worker, NEW k \in Key, AcquireHalfOpenLease(s, w, k)
      PROVE  ProbesStep
  <2>1. {k} \in (SUBSET Key) \ {{}}
    OBVIOUS
  <2>2. QED
    BY <1>5, <2>1, GrantProbe DEF AcquireHalfOpenLease, EntriesOf
<1>6. ASSUME NEW outcome \in Outcome, NEW f \in Observed,
             CompleteHalfOpenProbe(s, outcome, f)
      PROVE  ProbesStep
  BY <1>6 DEF CompleteHalfOpenProbe, ProbesStep, TypeOK
<1>7. ASSUME NEW key \in Key, NEW outcome \in Outcome, NEW f \in Observed,
             CompleteHalfOpenLease(s, key, outcome, f)
      PROVE  ProbesStep
  BY <1>7 DEF CompleteHalfOpenLease, ProbesStep, TypeOK
<1>8. QED
  BY <1>1, <1>2, <1>3, <1>4, <1>5, <1>6, <1>7 DEF Call

\* What any step of the specification does to records and probes.
LEMMA StepFacts ==
    ASSUME TypeOK, DocumentReadable, [Next]_vars
    PROVE  RecordsStep /\ ProbesStep
<1>1. ASSUME UNCHANGED <<records, nextLease>>,
             \/ UNCHANGED probe
             \/ \E s \in Session : probe' = [probe EXCEPT ![s] = NoProbe]
      PROVE  RecordsStep /\ ProbesStep
  BY <1>1 DEF RecordsStep, RecordStep, ProbesStep, TypeOK
<1>2. CASE Tick \/ Rotate \/ UNCHANGED vars
  BY <1>1, <1>2 DEF Tick, Rotate, vars
<1>3. ASSUME NEW s \in Session, Start(s) \/ Stop(s)
      PROVE  RecordsStep /\ ProbesStep
  BY <1>1, <1>3 DEF Start, Stop
<1>4. ASSUME NEW s \in Session, Call(s)
      PROVE  RecordsStep /\ ProbesStep
  BY <1>4, CallStep, CallProbes
<1>5. QED
  BY <1>2, <1>3, <1>4 DEF Next

-----------------------------------------------------------------------------
(* The invariants of the registry                                          *)

\* Every lease id was drawn before nextLease, and no two sessions' probes
\* carry the same.
LeaseIdsSpent ==
    /\ \A k \in Key : Stored(k) => records[k].lease.leaseId < nextLease
    /\ \A s \in Session : Holds(s) => probe[s].leaseId < nextLease
    /\ \A s, t \in Session :
          s # t /\ Holds(s) /\ Holds(t) => probe[s].leaseId # probe[t].leaseId

\* While a session's lease stands on a record, both agree when it runs out.
ExpiryAgreed ==
    \A s \in Session : Holds(s) =>
        \A k \in probe[s].keys :
            records[k].lease.leaseId = probe[s].leaseId =>
                records[k].lease.expiresAt = probe[s].expiresAt

IInv ==
    /\ TypeOK
    /\ DocumentReadable
    /\ LeaseIdsSpent
    /\ LeaseFencedByGeneration
    /\ ExpiryAgreed

\* The inductive invariant holds of the empty registry.
LEMMA InitIInv == Init => IInv
<1> SUFFICES ASSUME Init PROVE IInv
  OBVIOUS
<1>1. \A k \in Key : ~Stored(k)
  BY DEF Init, Stored
<1>2. \A s \in Session : ~Holds(s)
  BY DEF Init, Holds
<1>3. TypeOK
  BY DEF Init, TypeOK, Time
<1>4. QED
  BY <1>1, <1>2, <1>3
  DEF IInv, DocumentReadable, LeaseIdsSpent, LeaseFencedByGeneration, ExpiryAgreed

\* A step keeps the variables in their types.
LEMMA TypeStep ==
    ASSUME TypeOK, DocumentReadable, [Next]_vars
    PROVE  TypeOK'
<1>1. RecordsStep /\ ProbesStep
  BY StepFacts
<1>2. records' \in [Key -> CapacityRecord \union {NoRecord}]
  <2>1. ASSUME NEW k \in Key
        PROVE  records'[k] \in CapacityRecord \union {NoRecord}
    BY <1>1 DEF RecordsStep, RecordStep, Advanced, TypeOK
  <2>2. QED
    BY <1>1, <2>1 DEF RecordsStep
<1>3. /\ probe' \in [Session -> Probe \union {NoProbe}]
      /\ nextLease' \in Nat \ {0}
  BY <1>1 DEF ProbesStep, TypeOK
<1>4. /\ now' \in Time
      /\ machineConfig' \in Config
      /\ cfg' \in [Session -> Config \union {Absent}]
  <2>1. CASE UNCHANGED <<now, machineConfig, cfg>>
    BY <2>1 DEF TypeOK
  <2>2. CASE Tick
    BY <2>2 DEF Tick, TypeOK, Time
  <2>3. CASE Rotate
    BY <2>3 DEF Rotate, TypeOK
  <2>4. CASE \E s \in Session : Start(s) \/ Stop(s)
    BY <2>4 DEF Start, Stop, TypeOK
  <2>5. ASSUME NEW s \in Session, Call(s)
        PROVE  UNCHANGED <<now, machineConfig, cfg>>
    BY <2>5 DEF Call, RefreshAll, RecordFailure, ClaimHalfOpenProbe,
       RefuseHalfOpenProbe, AcquireHalfOpenLease, CompleteHalfOpenProbe,
       CompleteHalfOpenLease
  <2>6. QED
    BY <2>1, <2>2, <2>3, <2>4, <2>5 DEF Next, vars
<1>5. QED
  BY <1>2, <1>3, <1>4 DEF TypeOK

\* A step that changes a record leaves it readable.
LEMMA ReadableStep ==
    ASSUME TypeOK, DocumentReadable, [Next]_vars
    PROVE  DocumentReadable'
<1>1. RecordsStep
  BY StepFacts
<1>2. QED
  BY <1>1 DEF RecordsStep, RecordStep, Advanced, DocumentReadable, Stored

\* A step that puts a lease on a record uses the id it consumes, and only one
\* session receives it.
LEMMA LeaseIdsStep ==
    ASSUME IInv, [Next]_vars
    PROVE  LeaseIdsSpent'
<1>1. RecordsStep /\ ProbesStep
  BY StepFacts DEF IInv
<1>2. nextLease \in Nat \ {0} /\ nextLease' \in {nextLease, nextLease + 1}
  BY <1>1 DEF ProbesStep, IInv, TypeOK
<1>3. ASSUME NEW k \in Key, Stored(k)'
      PROVE  records'[k].lease.leaseId < nextLease'
  <2>1. CASE records'[k] = records[k]
    <3>1. Stored(k) /\ records[k] \in CapacityRecord
      BY <1>3, <2>1, StoredRecord DEF Stored, IInv
    <3>2. records[k].lease.leaseId \in Nat
      BY <3>1 DEF CapacityRecord, Lease, NoLease
    <3>3. QED
      BY <1>2, <2>1, <3>1, <3>2 DEF IInv, LeaseIdsSpent
  <2>2. CASE records'[k].lease = NoLease
    BY <1>2, <2>2 DEF NoLease
  <2>3. CASE /\ records'[k].lease.leaseId = nextLease
             /\ nextLease' = nextLease + 1
    BY <1>2, <2>3
  <2>4. QED
    BY <1>1, <2>1, <2>2, <2>3 DEF RecordsStep, RecordStep
<1>4. ASSUME NEW s \in Session, Holds(s)
      PROVE  probe[s].leaseId \in Nat /\ probe[s].leaseId < nextLease
  BY <1>4, ProbeHeld DEF IInv, LeaseIdsSpent, Probe
<1>5. CASE /\ nextLease' = nextLease
           /\ \A s \in Session : probe'[s] \in {probe[s], NoProbe}
  BY <1>3, <1>5 DEF IInv, LeaseIdsSpent, Holds
<1>6. ASSUME NEW u \in Session, nextLease' = nextLease + 1, GrantedTo(u),
             \A t \in Session \ {u} : probe'[t] = probe[t]
      PROVE  LeaseIdsSpent'
  <2>1. ASSUME NEW s \in Session, s # u, Holds(s)'
        PROVE  Holds(s) /\ probe'[s] = probe[s]
    BY <1>6, <2>1 DEF Holds
  <2>2. probe'[u].leaseId = nextLease
    BY <1>6 DEF GrantedTo
  <2>3. ASSUME NEW s \in Session, Holds(s)'
        PROVE  probe'[s].leaseId < nextLease'
    BY <1>2, <1>4, <1>6, <2>1, <2>2, <2>3
  <2>4. ASSUME NEW s \in Session, NEW t \in Session, s # t,
               Holds(s)', Holds(t)'
        PROVE  probe'[s].leaseId # probe'[t].leaseId
    BY <1>2, <1>4, <2>1, <2>2, <2>4 DEF IInv, LeaseIdsSpent
  <2>5. QED
    BY <1>3, <2>3, <2>4 DEF LeaseIdsSpent
<1>7. QED
  BY <1>1, <1>5, <1>6 DEF ProbesStep

\* A step that writes to a record a probe stands on advances its generation
\* past the one the probe noted, and takes the probe's lease off it.
LEMMA FenceStep ==
    ASSUME IInv, [Next]_vars
    PROVE  LeaseFencedByGeneration' /\ ExpiryAgreed'
<1> DEFINE Fenced(p, k, r) ==
        /\ r # NoRecord
        /\ p.grantedAt[k] <= r.generation
        /\ (r.lease.leaseId = p.leaseId) <=> (r.generation = p.grantedAt[k])
        /\ r.lease.leaseId = p.leaseId => r.lease.expiresAt = p.expiresAt
<1>1. RecordsStep /\ ProbesStep
  BY StepFacts DEF IInv
<1>2. ASSUME NEW s \in Session, Holds(s), NEW k \in probe[s].keys
      PROVE  Fenced(probe[s], k, records'[k])
  <2> DEFINE p == probe[s]
             r == records[k]
             n == records'[k]
  <2>1. p \in Probe /\ k \in Key
    BY <1>2, ProbeHeld DEF IInv, Probe
  <2>2. /\ p.grantedAt[k] \in Nat
        /\ p.leaseId \in Nat \ {0}
        /\ p.leaseId < nextLease
        /\ nextLease \in Nat
    BY <1>2, <2>1 DEF Probe, IInv, LeaseIdsSpent, TypeOK
  <2>3. Fenced(p, k, r) /\ Stored(k)
    BY <1>2 DEF IInv, LeaseFencedByGeneration, ExpiryAgreed, Stored
  <2>4. /\ r \in CapacityRecord
        /\ GenerationOf(r) = r.generation
    BY <2>1, <2>3, StoredRecord DEF IInv
  <2>5. CASE n = r
    BY <2>3, <2>5
  <2>6. CASE /\ Advanced(n, GenerationOf(r), now)
             /\ \/ n.lease = NoLease
                \/ n.lease.leaseId = nextLease
    <3>1. /\ n # NoRecord
          /\ n.generation = r.generation + 1
          /\ r.generation \in Nat
      BY <2>4, <2>6, NoRecordIsNone DEF Advanced, CapacityRecord
    <3>2. n.lease.leaseId # p.leaseId
      BY <2>2, <2>6 DEF NoLease
    <3>3. p.grantedAt[k] <= r.generation
      BY <2>3
    <3>4. QED
      BY <2>2, <3>1, <3>2, <3>3
  <2>7. QED
    BY <1>1, <2>1, <2>5, <2>6 DEF RecordsStep, RecordStep
<1>3. ASSUME NEW s \in Session, GrantedTo(s), NEW k \in probe'[s].keys
      PROVE  Fenced(probe'[s], k, records'[k])
  <2>1. records'[k] # NoRecord /\ records'[k].generation \in Nat
    BY <1>3, NoRecordIsNone DEF GrantedTo, CapacityRecord
  <2>2. QED
    BY <1>3, <2>1 DEF GrantedTo
<1>4. ASSUME NEW s \in Session, Holds(s)', NEW k \in probe'[s].keys
      PROVE  Fenced(probe'[s], k, records'[k])
  <2>1. GrantedTo(s) \/ probe'[s] = probe[s] \/ probe'[s] = NoProbe
    BY <1>1 DEF ProbesStep
  <2>2. QED
    BY <1>2, <1>3, <1>4, <2>1 DEF Holds
<1>5. QED
  BY <1>4 DEF LeaseFencedByGeneration, ExpiryAgreed, Stored

\* IInv is inductive.
LEMMA NextIInv == IInv /\ [Next]_vars => IInv'
BY TypeStep, ReadableStep, LeaseIdsStep, FenceStep DEF IInv

LEMMA InvariantIInv == Spec => []IInv
BY InitIInv, NextIInv, PTL DEF Spec

-----------------------------------------------------------------------------
(* What the registry guarantees                                            *)

\* The document only ever holds CapacityRecord v1 values, and every variable
\* of the model stays in its type.
THEOREM RegistryTypes == Spec => []TypeOK
<1>1. IInv => TypeOK
  BY DEF IInv
<1>2. QED
  BY <1>1, InvariantIInv, PTL

\* No sequence of facade calls, of any number of sessions, saves a record
\* that parseCapacityRecord would refuse to read back.
THEOREM RegistryReadable == Spec => []DocumentReadable
<1>1. IInv => DocumentReadable
  BY DEF IInv
<1>2. QED
  BY <1>1, InvariantIInv, PTL

\* The generation a probe was granted at is a fencing token for its lease.
THEOREM LeaseFenced == Spec => []LeaseFencedByGeneration
<1>1. IInv => LeaseFencedByGeneration
  BY DEF IInv
<1>2. QED
  BY <1>1, InvariantIInv, PTL

\* At most one session can settle the probe of a scope, however many were
\* lent it one after the other.
THEOREM SingleCompleter == Spec => []OneCompleter
<1>1. ASSUME IInv, NEW s \in Session, NEW t \in Session, s # t,
             Completable(s), Completable(t), NEW k \in probe[s].keys,
             k \in probe[t].keys
      PROVE  FALSE
  <2>1. /\ records[k].lease.leaseId = probe[s].leaseId
        /\ records[k].lease.leaseId = probe[t].leaseId
        /\ Holds(s) /\ Holds(t)
    BY <1>1 DEF Completable, CanComplete
  <2>2. QED
    BY <1>1, <2>1 DEF IInv, LeaseIdsSpent
<1>2. IInv => OneCompleter
  BY <1>1 DEF OneCompleter
<1>3. QED
  BY <1>2, InvariantIInv, PTL

\* Whoever crashed while it was blocked, a scope that is not disabled can be
\* probed again after its longest cooldown or one lease.
THEOREM BoundedUnavailability == Spec => []UnavailabilityBounded
<1>1. Init => UnavailabilityBounded
  BY DEF Init, UnavailabilityBounded, Stored
<1>2. ASSUME IInv, UnavailabilityBounded, [Next]_vars
      PROVE  UnavailabilityBounded'
  <2>1. RecordsStep
    BY <1>2, StepFacts DEF IInv
  <2>2. now \in Nat /\ now' \in {now, now + 1}
    <3>1. CASE Tick
      BY <1>2, <3>1 DEF Tick, IInv, TypeOK, Time
    <3>2. CASE UNCHANGED now
      BY <1>2, <3>2 DEF IInv, TypeOK, Time
    <3>3. Tick \/ UNCHANGED now
      BY <1>2 DEF Next, vars, Rotate, Start, Stop, Call, RefreshAll,
         RecordFailure, ClaimHalfOpenProbe, RefuseHalfOpenProbe,
         AcquireHalfOpenLease, CompleteHalfOpenProbe, CompleteHalfOpenLease
    <3>4. QED
      BY <3>1, <3>2, <3>3
  <2>3. ASSUME NEW k \in Key, Stored(k)'
        PROVE  BlockBounded(records'[k]) /\ records'[k].observedAt <= now'
    <3>1. CASE records'[k] = records[k]
      <4>1. /\ Stored(k) /\ records[k] \in CapacityRecord
            /\ BlockBounded(records[k]) /\ records[k].observedAt <= now
        BY <1>2, <2>3, <3>1, StoredRecord DEF UnavailabilityBounded, Stored, IInv
      <4>2. records[k].observedAt \in Nat
        BY <4>1 DEF CapacityRecord, Time
      <4>3. QED
        BY <2>2, <3>1, <4>1, <4>2
    <3>2. CASE Advanced(records'[k], GenerationOf(records[k]), now)
      BY <2>2, <3>2 DEF Advanced
    <3>3. QED
      BY <2>1, <3>1, <3>2 DEF RecordsStep, RecordStep
  <2>4. QED
    BY <2>3 DEF UnavailabilityBounded, Stored, BlockBounded, BlockedFor,
       LongestBlock
<1>3. QED
  BY <1>1, <1>2, InvariantIInv, PTL DEF Spec

\* Whatever changes a record advances its generation by one, so the
\* generations an attempt identity names tell every change apart.
THEOREM MonotoneGenerations == Spec => GenerationMonotone
<1>1. ASSUME IInv, [Next]_vars, NEW k \in Key, records'[k] # records[k]
      PROVE  GenerationOf(records'[k]) = GenerationOf(records[k]) + 1
  <2>1. Advanced(records'[k], GenerationOf(records[k]), now)
    BY <1>1, StepFacts DEF IInv, RecordsStep, RecordStep
  <2>2. records'[k] # NoRecord
    BY <2>1, NoRecordIsNone DEF Advanced
  <2>3. QED
    BY <2>1, <2>2 DEF Advanced, GenerationOf
<1>2. IInv /\ [Next]_vars =>
         [\A k \in Key : records'[k] # records[k] =>
             GenerationOf(records'[k]) = GenerationOf(records[k]) + 1]_vars
  BY <1>1
<1>3. QED
  BY <1>2, InvariantIInv, PTL DEF Spec, GenerationMonotone

\* A scope that failed is trusted again only through a live probe of its own
\* or, when it was disabled, under another configuration.
THEOREM ReopenedOnlyByProof == Spec => ReopenedByProof
<1> DEFINE Proof == \A k \in Key :
              (/\ Stored(k)
               /\ records[k].state # "available"
               /\ records'[k].state = "available")
              => \/ records[k].state = "disabled"
                 \/ \E s \in Session :
                       /\ k \in probe[s].keys
                       /\ probe[s].leaseId = records[k].lease.leaseId
                       /\ now < probe[s].expiresAt
                       /\ probe'[s] = NoProbe
<1>1. ASSUME IInv, [Next]_vars, NEW k \in Key, Stored(k),
             records[k].state # "available", records'[k].state = "available",
             records[k].state # "disabled"
      PROVE  \E s \in Session :
                /\ k \in probe[s].keys
                /\ probe[s].leaseId = records[k].lease.leaseId
                /\ now < probe[s].expiresAt
                /\ probe'[s] = NoProbe
  <2>1. PICK s \in Session : SettledBy(s, k)
    BY <1>1, StepFacts DEF IInv, RecordsStep, RecordStep
  <2>2. /\ k \in probe[s].keys /\ probe'[s] = NoProbe
        /\ records[k].lease.leaseId = probe[s].leaseId
        /\ records[k].lease.expiresAt > now
    BY <2>1 DEF SettledBy, CanComplete
  <2>3. Holds(s)
    BY <2>2 DEF Holds, NoProbe
  <2>4. records[k].lease.expiresAt = probe[s].expiresAt
    BY <1>1, <2>2, <2>3 DEF IInv, ExpiryAgreed
  <2>5. now \in Nat /\ probe[s].expiresAt \in Nat
    BY <1>1, <2>3, ProbeHeld DEF IInv, TypeOK, Probe, Time
  <2>6. QED
    BY <2>2, <2>4, <2>5
<1>2. IInv /\ [Next]_vars => [Proof]_vars
  BY <1>1
<1>3. QED
  BY <1>2, InvariantIInv, PTL DEF Spec, ReopenedByProof

\* A probe settles as a whole: its scopes all reopen or all stay blocked, and
\* none keeps its lease.
THEOREM ProbesSettleTogether == Spec => SettledTogether
<1> DEFINE Together(s) ==
             /\ \A k \in probe[s].keys : records'[k].state # "half-open"
             /\ \/ \A k \in probe[s].keys : records'[k].state = "available"
                \/ \A k \in probe[s].keys : records'[k].state # "available"
<1>1. ASSUME IInv, NEW s \in Session, Running(s), Holds(s),
             NEW outcome \in Outcome, NEW f \in Observed,
             CompleteHalfOpenProbe(s, outcome, f)
      PROVE  Together(s)
  <2> DEFINE settled(k) == completeHalfOpenLease(records[k],
                              ItemOutcome(k, outcome, f), f, now)
  <2>1. probe[s].keys \subseteq Key
    BY <1>1, ProbeHeld DEF IInv, Probe
  <2>2. ASSUME NEW k \in probe[s].keys
        PROVE  /\ records'[k] = settled(k)
               /\ settled(k).state # "half-open"
               /\ outcome = "success" => settled(k).state = "available"
               /\ outcome # "success" => settled(k).state # "available"
    <3>1. /\ Stored(k)
          /\ CanComplete(records[k], probe[s].leaseId, now)
          /\ outcome = "failure" => CanRecord(f)
          /\ records'[k] = settled(k)
      BY <1>1, <2>1, <2>2 DEF CompleteHalfOpenProbe, Write
    <3>2. /\ records[k] \in CapacityRecord /\ WellFormed(records[k])
          /\ records[k].state = "half-open"
      BY <1>1, <2>1, <3>1, StoredRecord DEF IInv, CanComplete
    <3>3. /\ f \in AdapterFailure /\ now \in Time
          /\ ItemOutcome(k, outcome, f) \notin {"success", "abandon"}
                => CanRecord(f)
          /\ outcome = "success" <=> ItemOutcome(k, outcome, f) = "success"
      BY <1>1, <3>1, RegistryAssumption DEF IInv, TypeOK, ItemOutcome, Outcome
    <3>4. settled(k).state # "half-open"
      BY <3>2, <3>3, CompletedRecord
    <3>5. ItemOutcome(k, outcome, f) # "success" => settled(k).state # "available"
      BY <3>2, <3>3, CompletedRecord
    <3>6. ItemOutcome(k, outcome, f) = "success" => settled(k).state = "available"
      BY <3>2, <3>3, ReopenedRecord DEF completeHalfOpenLease
    <3>7. QED
      BY <3>1, <3>3, <3>4, <3>5, <3>6
  <2>3. QED
    BY <2>2
<1>2. ASSUME IInv, NEW s \in Session, Running(s), Holds(s),
             NEW k \in Key, NEW outcome \in Outcome, NEW f \in Observed,
             CompleteHalfOpenLease(s, k, outcome, f)
      PROVE  Together(s)
  <2> DEFINE new == completeHalfOpenLease(records[k], outcome, f, now)
  <2>1. /\ probe[s].keys = {k} /\ Stored(k)
        /\ CanComplete(records[k], probe[s].leaseId, now)
        /\ outcome = "failure" => CanRecord(f)
        /\ records'[k] = new
    BY <1>2 DEF CompleteHalfOpenLease, Write, IInv, TypeOK
  <2>2. /\ records[k] \in CapacityRecord /\ WellFormed(records[k])
        /\ records[k].state = "half-open"
    BY <1>2, <2>1, StoredRecord DEF IInv, CanComplete
  <2>3. new.state # "half-open"
    BY <1>2, <2>1, <2>2, RegistryAssumption, CompletedRecord
    DEF IInv, TypeOK, Outcome
  <2>4. QED
    BY <2>1, <2>3
<1>3. ASSUME IInv, [Next]_vars, NEW s \in Session, Settled(s)
      PROVE  Together(s)
  <2>1. Holds(s) /\ probe'[s] = NoProbe /\ probe'[s] # probe[s]
        /\ cfg'[s] # Absent
    BY <1>3 DEF Settled, Holds
  <2>2. ~UNCHANGED probe
    BY <2>1
  <2>3. ASSUME NEW t \in Session, probe'[s] # probe[s], Stop(t)
        PROVE  FALSE
    BY <1>3, <2>1, <2>3 DEF Stop, IInv, TypeOK
  <2>4. PICK t \in Session : Call(t)
    BY <1>3, <2>2, <2>3, <2>1 DEF Next, vars, Tick, Rotate, Start
  <2>5. ASSUME NEW w \in Worker, NEW keys, Grant(t, w, keys)
        PROVE  FALSE
    <3>1. CASE s = t
      BY <1>3, <2>1, <2>5, <3>1 DEF Grant, IInv, TypeOK, NoProbe
    <3>2. CASE s # t
      BY <1>3, <2>1, <2>5, <3>2 DEF Grant, IInv, TypeOK
    <3>3. QED
      BY <3>1, <3>2
  <2>6. /\ \A outcome \in Outcome, f \in Observed :
             CompleteHalfOpenProbe(t, outcome, f) => t = s
        /\ \A k \in Key, outcome \in Outcome, f \in Observed :
             CompleteHalfOpenLease(t, k, outcome, f) => t = s
    BY <1>3, <2>1 DEF CompleteHalfOpenProbe, CompleteHalfOpenLease, IInv, TypeOK
  <2>7. QED
    BY <1>1, <1>2, <1>3, <2>1, <2>2, <2>4, <2>5, <2>6
    DEF Call, RefreshAll, RecordFailure, ClaimHalfOpenProbe,
        RefuseHalfOpenProbe, AcquireHalfOpenLease, CompleteHalfOpenProbe,
        CompleteHalfOpenLease
<1>4. IInv /\ [Next]_vars =>
         [\A s \in Session : Settled(s) => Together(s)]_vars
  BY <1>3
<1>5. QED
  BY <1>4, InvariantIInv, PTL DEF Spec, SettledTogether

-----------------------------------------------------------------------------
(* The role worker: its inductive invariant                                *)

\* Between the claim of an attempt and its result.
Working == {"defer", "probe", "invoke", "running", "finish", "failing", "finish-failed",
            "capacity-failure", "finish-capacity"}

\* ... and before its Worker has started, or where it never will.
NotStarted == {"defer", "probe", "invoke", "capacity-failure", "finish-capacity"}

\* A function of the sessions, whatever its values.
OfSessions(f) == f = [s \in Session |-> f[s]]

RoleTypeOK ==
    /\ pc \in [Session -> Location]
    /\ request \in [Session -> Request \union {Absent}]
    /\ cand \in [Session -> 1 .. Len(Candidates)]
    /\ OfSessions(plan)
    /\ failure \in [Session -> Observed \union {NoFailure}]
    /\ deliveries \in [Request -> Nat]

\* The executions of one request run one at a time.
OneExecution ==
    \A s, t \in Session : request[s] = request[t] /\ request[s] # Absent => s = t

ClaimIds == {c.id : c \in claims}

\* The journal: what has a result or a Worker was claimed, and an attempt that
\* ended for capacity has no Worker.
JournalOk ==
    /\ \A e \in results : e.id \in ClaimIds
    /\ \A e \in results : e.outcome \in CapacityOutcome => e.id \notin started
    /\ started \subseteq ClaimIds

\* The request of an attempt has not been ended by the same Worker.
Open(id) == \A e \in results : SameExecution(e.id, id) => e.outcome \in CapacityOutcome

\* What an execution relies on at each await.
RunOk(s) ==
    /\ At(s, "idle") <=> request[s] = Absent
    /\ At(s, "capacity-failure") => failure[s] \in Observed
    /\ pc[s] \in Working =>
          AttemptId(s) \in ClaimIds /\ ResultOf(AttemptId(s)) = {} /\ Open(AttemptId(s))
    /\ pc[s] \in NotStarted => AttemptId(s) \notin started

\* Without failures there are no records.
Sourced == (\E k \in Key : Stored(k)) => Observed # {}

RoleInv ==
    /\ RoleTypeOK
    /\ OneExecution
    /\ JournalOk
    /\ \A s \in Session : RunOk(s)
    /\ Sourced

\* With the invariant of the registry, on which it rests.
WorkerInv == IInv /\ RoleInv

-----------------------------------------------------------------------------
(* An execution of the role worker is one of the registry                  *)

\* A probe settled as a success or abandoned does not look at the failure.
LEMMA OutcomeAlone ==
    ASSUME NEW s \in Session, NEW outcome \in {"success", "abandon"}, NEW f, NEW g,
           CompleteHalfOpenProbe(s, outcome, f)
    PROVE  CompleteHalfOpenProbe(s, outcome, g)
<1>1. \A h : Projected(s, outcome, h) = {}
  BY DEF Projected
<1>2. \A k, h : ItemOutcome(k, outcome, h) = outcome
  BY DEF ItemOutcome
<1>3. \A r, h, i : completeHalfOpenLease(r, outcome, h, now)
                    = completeHalfOpenLease(r, outcome, i, now)
  BY DEF completeHalfOpenLease
<1>4. QED
  BY <1>1, <1>2, <1>3 DEF CompleteHalfOpenProbe

\* No step of the registry stores a record unless a failure was observed.
LEMMA SourcedStep ==
    ASSUME Sourced, [Next]_vars
    PROVE  Sourced'
<1> SUFFICES ASSUME Observed = {} PROVE \A k \in Key : ~ Stored(k)'
  BY DEF Sourced
<1>1. \A k \in Key : ~ Stored(k)
  BY DEF Sourced
<1>2. \A w : EntriesOf(w) = {} \/ \E k \in KeysOf(w) : Stored(k)
  BY DEF EntriesOf
<1>3. \A w \in Worker : EntriesOf(w) = {}
  BY <1>1 DEF EntriesOf, Key
<1>4. CASE records' = records
  BY <1>1, <1>4 DEF Stored
<1>5. CASE Tick \/ Rotate \/ UNCHANGED vars
  BY <1>4, <1>5 DEF Tick, Rotate, vars
<1>6. ASSUME NEW s \in Session, Start(s) \/ Stop(s) PROVE \A k \in Key : ~ Stored(k)'
  BY <1>4, <1>6 DEF Start, Stop
<1>7. ASSUME NEW s \in Session, Call(s) PROVE \A k \in Key : ~ Stored(k)'
  <2>1. CASE RefreshAll(s)
    BY <1>1, <2>1 DEF RefreshAll, Write, Stored
  <2>2. ASSUME NEW w \in Worker, ClaimHalfOpenProbe(s, w) PROVE FALSE
    BY <1>3, <2>2 DEF ClaimHalfOpenProbe, Due
  <2>3. ASSUME NEW w \in Worker, RefuseHalfOpenProbe(s, w) PROVE \A k \in Key : ~ Stored(k)'
    BY <1>1, <1>3, <2>3 DEF RefuseHalfOpenProbe, Write, Stored
  <2>4. ASSUME NEW w \in Worker, NEW k \in Key, AcquireHalfOpenLease(s, w, k) PROVE FALSE
    BY <1>3, <2>4 DEF AcquireHalfOpenLease
  <2>5. QED
    BY <1>7, <2>1, <2>2, <2>3, <2>4 DEF Call
<1>8. QED
  BY <1>5, <1>6, <1>7 DEF Next

\* The candidate being tried is a Worker.
LEMMA CandidateWorker ==
    ASSUME RoleTypeOK, NEW s \in Session
    PROVE  WorkerOf(s) \in Worker
BY RoleAssumption DEF RoleTypeOK, WorkerOf

\* A probe settled by an execution is settled by a call of the registry.
LEMMA SettledByCall ==
    ASSUME IInv, RoleInv, NEW s \in Session, NEW outcome \in {"success", "abandon"},
           CompleteHalfOpenProbe(s, outcome, failure[s])
    PROVE  Call(s)
<1>1. Holds(s) /\ \A k \in probe[s].keys : Stored(k)
  BY DEF CompleteHalfOpenProbe
<1>2. probe[s].keys \subseteq Key /\ probe[s].keys # {}
  BY <1>1 DEF IInv, TypeOK, Holds, Probe
<1>3. PICK f \in Observed : TRUE
  BY <1>1, <1>2 DEF RoleInv, Sourced
<1>4. CompleteHalfOpenProbe(s, outcome, f)
  BY OutcomeAlone
<1>5. QED
  BY <1>4 DEF Call, Outcome

\* Every step of an execution is a call of its session, or leaves the registry
\* alone.
LEMMA ExecuteStep ==
    ASSUME IInv, RoleInv, NEW s \in Session, Execute(s)
    PROVE  Call(s) \/ UNCHANGED vars
<1>0. RoleTypeOK /\ RunOk(s) /\ WorkerOf(s) \in Worker
  BY CandidateWorker DEF RoleInv
<1>1. Untouched => UNCHANGED vars
  BY DEF Untouched, registryVars, vars
<1>2. CASE ClaimProbe(s)
  BY <1>0, <1>2 DEF ClaimProbe, Call
<1>3. CASE Settle(s)
  BY <1>1, <1>3, SettledByCall DEF Settle
<1>4. CASE Abandon(s)
  BY <1>1, <1>4, SettledByCall DEF Abandon
<1>5. CASE RecordCapacity(s)
  <2>1. failure[s] \in Observed
    BY <1>0, <1>5 DEF RecordCapacity, RunOk
  <2>2. RecordFailure(s, WorkerOf(s), failure[s]) => Call(s)
    BY <1>0, <2>1 DEF Call
  <2>3. CompleteHalfOpenProbe(s, "failure", failure[s]) => Call(s)
    BY <2>1 DEF Call, Outcome
  <2>4. CompleteHalfOpenProbe(s, "abandon", failure[s]) => Call(s)
    BY <2>1 DEF Call, Outcome
  <2>5. QED
    BY <1>1, <1>5, <2>2, <2>3, <2>4 DEF RecordCapacity
<1>6. ASSUME NEW f \in Observed, CapacityRefused(s, f) PROVE Untouched
  BY <1>6 DEF CapacityRefused
<1>7. CASE \/ Inspect(s) \/ ClaimAttempt(s) \/ Defer(s) \/ StartWorker(s) \/ WorkerCompletes(s)
           \/ WorkerFails(s) \/ RegistryBusy(s) \/ Finish(s) \/ FinishFailed(s)
           \/ FinishCapacity(s) \/ Commit(s) \/ CommitThrows(s)
  BY <1>1, <1>7 DEF Inspect, ClaimAttempt, Defer, StartWorker, WorkerCompletes, WorkerFails,
                    RegistryBusy, Finish, FinishFailed, FinishCapacity, Commit, CommitThrows
<1>8. QED
  BY <1>1, <1>2, <1>3, <1>4, <1>5, <1>6, <1>7 DEF Execute

\* So does every step of the role worker.
LEMMA RegistryStep ==
    ASSUME IInv, RoleInv, [RoleNext]_roleVars
    PROVE  [Next]_vars
<1>1. CASE UNCHANGED roleVars
  BY <1>1 DEF roleVars, registryVars, vars
<1>2. CASE RoleEnvironment
  BY <1>2 DEF RoleEnvironment, Next
<1>3. ASSUME NEW s \in Session, NEW r \in Request, Begin(s, r) PROVE Next
  BY <1>3 DEF Begin, Next
<1>4. ASSUME NEW s \in Session, Leave(s) PROVE Next
  BY <1>4 DEF Leave, Next
<1>5. ASSUME NEW s \in Session, Execute(s) PROVE [Next]_vars
  BY <1>5, ExecuteStep DEF Next
<1>6. QED
  BY <1>1, <1>2, <1>3, <1>4, <1>5 DEF RoleNext

-----------------------------------------------------------------------------
(* What a step of one execution leaves alone                               *)

\* The other executions, who runs what, and the facades.
Frame(s) ==
    /\ UNCHANGED <<request, deliveries, cfg>>
    /\ \A t \in Session \ {s} :
          pc'[t] = pc[t] /\ cand'[t] = cand[t] /\ plan'[t] = plan[t] /\ failure'[t] = failure[t]

\* The journal grows by entries of its own attempt.
OwnEntries(s) ==
    /\ claims \subseteq claims' /\ results \subseteq results' /\ started \subseteq started'
    /\ \A c \in claims' \ claims : c.id = AttemptId(s)
    /\ \A e \in results' \ results : e.id = AttemptId(s)
    /\ \A id \in started' \ started : id = AttemptId(s)

\* A call of the registry does not change the pair a facade was built with.
LEMMA CallKeepsFacades ==
    ASSUME NEW s \in Session, Call(s)
    PROVE  cfg' = cfg
BY DEF Call, RefreshAll, Write, ClaimHalfOpenProbe, RefuseHalfOpenProbe, RecordFailure,
       AcquireHalfOpenLease, CompleteHalfOpenProbe, CompleteHalfOpenLease

\* The next candidate is one of the route.
LEMMA NextCandidateTyped ==
    ASSUME RoleTypeOK, NEW s \in Session, NextCandidate(s)
    PROVE  /\ pc' \in [Session -> Location] /\ cand' \in [Session -> 1 .. Len(Candidates)]
           /\ \A t \in Session \ {s} : pc'[t] = pc[t] /\ cand'[t] = cand[t]
           /\ pc'[s] \in {"deferred", "inspect"}
<1>1. Len(Candidates) \in Nat
  BY RoleAssumption
<1>2. CASE cand[s] = Len(Candidates)
  BY <1>2 DEF NextCandidate, RoleTypeOK, Goto, Location, Ended
<1>3. CASE cand[s] # Len(Candidates)
  <2>1. cand[s] + 1 \in 1 .. Len(Candidates)
    BY <1>1, <1>3 DEF RoleTypeOK
  <2>2. QED
    BY <1>3, <2>1 DEF NextCandidate, RoleTypeOK, Goto, Location
<1>4. QED
  BY <1>2, <1>3

\* Each step of an execution has this frame and keeps the types.
LEMMA ExecuteFrame ==
    ASSUME IInv, RoleInv, NEW s \in Session, Execute(s)
    PROVE  Frame(s) /\ RoleTypeOK'
<1>1. RoleTypeOK
  BY DEF RoleInv
<1>2. cfg' = cfg
  BY ExecuteStep, CallKeepsFacades DEF vars
<1>3. ASSUME NEW l \in Location, Goto(s, l)
      PROVE  pc' \in [Session -> Location] /\ \A t \in Session \ {s} : pc'[t] = pc[t]
  BY <1>1, <1>3 DEF Goto, RoleTypeOK
<1>4. CASE Inspect(s)
  <2>1. /\ UNCHANGED <<request, deliveries, cand, failure>> /\ Goto(s, "claim")
        /\ OfSessions(plan)' /\ \A t \in Session \ {s} : plan'[t] = plan[t]
    BY <1>1, <1>4 DEF Inspect, admission, RoleTypeOK, OfSessions
  <2>2. QED
    BY <1>1, <1>2, <1>3, <2>1 DEF Frame, RoleTypeOK, Location
<1>5. CASE ClaimAttempt(s)
  <2>1. UNCHANGED <<request, deliveries, plan, failure>>
    BY <1>5 DEF ClaimAttempt, admission
  <2>2. /\ pc' \in [Session -> Location] /\ cand' \in [Session -> 1 .. Len(Candidates)]
        /\ \A t \in Session \ {s} : pc'[t] = pc[t] /\ cand'[t] = cand[t]
    <3>1. CASE NextCandidate(s)
      BY <1>1, <3>1, NextCandidateTyped
    <3>2. CASE UNCHANGED cand /\ \E l \in Location : Goto(s, l)
      BY <1>1, <1>3, <3>2 DEF RoleTypeOK
    <3>3. Replay(s) => NextCandidate(s) \/ (UNCHANGED cand /\ \E l \in Location : Goto(s, l))
      BY DEF Replay, Location, Ended
    <3>4. ReplayAcrossGenerations(s) \/ FreshClaim(s)
          => UNCHANGED cand /\ \E l \in Location : Goto(s, l)
      BY DEF ReplayAcrossGenerations, FreshClaim, Location
    <3>5. QED
      BY <1>5, <3>1, <3>2, <3>3, <3>4 DEF ClaimAttempt
  <2>3. QED
    BY <1>1, <1>2, <2>1, <2>2 DEF Frame, RoleTypeOK, OfSessions
<1>6. CASE Defer(s)
  <2>1. UNCHANGED <<request, deliveries, plan, failure>> /\ NextCandidate(s)
    BY <1>6 DEF Defer, admission
  <2>2. QED
    BY <1>1, <1>2, <2>1, NextCandidateTyped DEF Frame, RoleTypeOK, OfSessions
<1>7. CASE FinishCapacity(s)
  <2>1. /\ UNCHANGED <<request, deliveries, plan>> /\ NextCandidate(s)
        /\ failure' \in [Session -> Observed \union {NoFailure}]
        /\ \A t \in Session \ {s} : failure'[t] = failure[t]
    BY <1>1, <1>7 DEF FinishCapacity, admission, RoleTypeOK
  <2>2. QED
    BY <1>1, <1>2, <2>1, NextCandidateTyped DEF Frame, RoleTypeOK, OfSessions
<1>8. ASSUME NEW f \in Observed, CapacityRefused(s, f) PROVE Frame(s) /\ RoleTypeOK'
  <2>1. /\ UNCHANGED <<request, deliveries, plan, cand>> /\ Goto(s, "capacity-failure")
        /\ failure' \in [Session -> Observed \union {NoFailure}]
        /\ \A t \in Session \ {s} : failure'[t] = failure[t]
    BY <1>1, <1>8 DEF CapacityRefused, admission, RoleTypeOK
  <2>2. QED
    BY <1>1, <1>2, <1>3, <2>1 DEF Frame, RoleTypeOK, OfSessions, Location
<1>9. CASE \/ ClaimProbe(s) \/ StartWorker(s) \/ WorkerCompletes(s) \/ WorkerFails(s)
           \/ RegistryBusy(s) \/ Finish(s) \/ Settle(s) \/ Abandon(s) \/ FinishFailed(s)
           \/ RecordCapacity(s) \/ Commit(s) \/ CommitThrows(s)
  <2>1. UNCHANGED <<request, deliveries, cand, plan, failure>>
    BY <1>9 DEF ClaimProbe, StartWorker, WorkerCompletes, WorkerFails, RegistryBusy, Finish,
                Settle, Abandon, FinishFailed, RecordCapacity, Commit, CommitThrows, admission
  <2>2. \E l \in Location : Goto(s, l)
    BY <1>9 DEF ClaimProbe, StartWorker, WorkerCompletes, WorkerFails, RegistryBusy, Finish,
                Settle, Abandon, FinishFailed, RecordCapacity, Commit, CommitThrows, Location,
                Ended
  <2>3. QED
    BY <1>1, <1>2, <1>3, <2>1, <2>2 DEF Frame, RoleTypeOK, OfSessions
<1>10. QED
  BY <1>4, <1>5, <1>6, <1>7, <1>8, <1>9 DEF Execute

-----------------------------------------------------------------------------
(* What a step does for the execution that takes it                        *)

\* Sessions differ in the request they work on, so they differ in the attempt:
\* entries of the one's attempt say nothing about the other's.
LEMMA OthersUndisturbed ==
    ASSUME RoleInv, NEW s \in Session, Frame(s), OwnEntries(s)
    PROVE  OneExecution' /\ \A t \in Session \ {s} : RunOk(t)'
<1>1. OneExecution'
  BY DEF RoleInv, OneExecution, Frame
<1>2. ASSUME NEW t \in Session \ {s} PROVE RunOk(t)'
  <2>1. /\ pc'[t] = pc[t] /\ request'[t] = request[t] /\ failure'[t] = failure[t]
        /\ AttemptId(t)' = AttemptId(t)
    BY DEF Frame, AttemptId, WorkerOf
  <2>2. RunOk(t)
    BY DEF RoleInv
  <2>3. /\ (At(t, "idle") <=> request[t] = Absent)'
        /\ (At(t, "capacity-failure") => failure[t] \in Observed)'
    BY <2>1, <2>2 DEF RunOk, At
  <2>4. ASSUME pc[t] \in Working
        PROVE  /\ AttemptId(t).request # AttemptId(s).request
               /\ (AttemptId(t) \in ClaimIds /\ ResultOf(AttemptId(t)) = {} /\ Open(AttemptId(t)))'
               /\ AttemptId(t) \notin started => (AttemptId(t) \notin started)'
    <3>1. request[t] # Absent
      BY <2>2, <2>4 DEF RunOk, At, Working
    <3>2. AttemptId(t).request # AttemptId(s).request
      BY <3>1 DEF RoleInv, OneExecution, AttemptId
    <3>3. AttemptId(t) \in ClaimIds /\ ResultOf(AttemptId(t)) = {} /\ Open(AttemptId(t))
      BY <2>2, <2>4 DEF RunOk
    <3>4. (AttemptId(t) \in ClaimIds)'
      BY <2>1, <3>3 DEF ClaimIds, OwnEntries
    <3>5. (ResultOf(AttemptId(t)) = {})'
      BY <2>1, <3>2, <3>3 DEF ResultOf, OwnEntries
    <3>6. Open(AttemptId(t))'
      BY <2>1, <3>2, <3>3 DEF Open, SameExecution, OwnEntries
    <3>7. AttemptId(t) \notin started => (AttemptId(t) \notin started)'
      BY <2>1, <3>2 DEF OwnEntries
    <3>8. QED
      BY <3>2, <3>4, <3>5, <3>6, <3>7
  <2>5. pc'[t] \in NotStarted => (AttemptId(t) \notin started)'
    BY <2>1, <2>2, <2>4 DEF RunOk, NotStarted, Working
  <2>6. QED
    BY <2>1, <2>3, <2>4, <2>5 DEF RunOk
<1>3. QED
  BY <1>1, <1>2

\* A step that writes nothing and goes no further than the execution had earned.
LEMMA QuietStep ==
    ASSUME RoleInv, NEW s \in Session, Frame(s),
           UNCHANGED <<journal, started, cand, plan>>,
           pc[s] # "idle", pc'[s] # "idle",
           pc'[s] \in Working => pc[s] \in Working,
           pc'[s] \in NotStarted => pc[s] \in NotStarted,
           pc'[s] = "capacity-failure" => failure'[s] \in Observed
    PROVE  OwnEntries(s) /\ RunOk(s)' /\ JournalOk'
<1>1. UNCHANGED <<claims, results, started, cand, plan, request, cfg>>
  BY DEF journal, Frame
<1>2. AttemptId(s)' = AttemptId(s) /\ ClaimIds' = ClaimIds
  BY <1>1 DEF AttemptId, WorkerOf, ClaimIds
<1>3. OwnEntries(s) /\ JournalOk'
  BY <1>1, <1>2 DEF OwnEntries, JournalOk, RoleInv
<1>4. RunOk(s)
  BY DEF RoleInv
<1>5. RunOk(s)'
  BY <1>1, <1>2, <1>4 DEF RunOk, At, Open, ResultOf
<1>6. QED
  BY <1>3, <1>5

\* An attempt gets its one result, and the execution is done with it.
LEMMA ResultStep ==
    ASSUME RoleInv, NEW s \in Session, Frame(s), NEW outcome \in AttemptOutcome,
           Record(s, outcome), UNCHANGED <<claims, started>>,
           pc[s] \in Working, outcome \in CapacityOutcome => pc[s] \in NotStarted,
           pc'[s] \notin Working \union {"idle"}
    PROVE  OwnEntries(s) /\ RunOk(s)' /\ JournalOk'
<1>1. RunOk(s) /\ JournalOk
  BY DEF RoleInv
<1>2. results' = results \union {[id |-> AttemptId(s), outcome |-> outcome]}
  BY DEF Record
<1>3. OwnEntries(s)
  BY <1>2 DEF OwnEntries
<1>4. ClaimIds' = ClaimIds /\ AttemptId(s) \in ClaimIds
  BY <1>1 DEF ClaimIds, RunOk
<1>5. JournalOk'
  BY <1>1, <1>2, <1>4 DEF JournalOk, RunOk
<1>6. pc[s] # "idle" /\ request'[s] = request[s]
  BY DEF Frame, Working
<1>7. RunOk(s)'
  BY <1>1, <1>6 DEF RunOk, At, Working, NotStarted
<1>8. QED
  BY <1>3, <1>5, <1>7

\* Where an execution goes that neither claims nor records leaves no attempt open.
LEMMA EndedStep ==
    ASSUME RoleInv, NEW s \in Session, Frame(s),
           UNCHANGED <<claims, results, started>>,
           pc[s] # "idle", pc'[s] \notin Working \union {"idle"}
    PROVE  OwnEntries(s) /\ RunOk(s)' /\ JournalOk'
<1>1. RunOk(s) /\ JournalOk
  BY DEF RoleInv
<1>2. OwnEntries(s) /\ JournalOk'
  BY <1>1 DEF OwnEntries, JournalOk, ClaimIds
<1>3. request'[s] = request[s]
  BY DEF Frame
<1>4. RunOk(s)'
  BY <1>1, <1>3 DEF RunOk, At, Working, NotStarted
<1>5. QED
  BY <1>2, <1>4

\* A fresh claim finds its attempt without a result, without a Worker and its
\* request open.
LEMMA FreshClaimStep ==
    ASSUME RoleInv, NEW s \in Session, Frame(s), pc[s] = "claim",
           FreshClaim(s), UNCHANGED <<plan, results, started>>
    PROVE  OwnEntries(s) /\ RunOk(s)' /\ JournalOk'
<1> DEFINE id == AttemptId(s)
<1>1. RunOk(s) /\ JournalOk
  BY DEF RoleInv
<1>2. /\ claims' = claims \union {[id |-> id, startState |-> plan[s].startState]}
      /\ cand' = cand /\ ClaimOf(id) = {} /\ Open(id)
  BY DEF FreshClaim, Open
<1>3. pc'[s] \in {"defer", "probe", "invoke"}
  BY DEF FreshClaim, Goto, RoleInv, RoleTypeOK
<1>4. id \notin ClaimIds
  BY <1>2 DEF ClaimOf, ClaimIds
<1>5. ClaimIds' = ClaimIds \union {id}
  <2>1. \A i : i \in ClaimIds' <=> \E c \in claims' : i = c.id
    BY DEF ClaimIds
  <2>2. \A i : i \in ClaimIds <=> \E c \in claims : i = c.id
    BY DEF ClaimIds
  <2>3. [id |-> id, startState |-> plan[s].startState].id = id
    OBVIOUS
  <2>4. QED
    BY <1>2, <2>1, <2>2, <2>3
<1>6. OwnEntries(s)
  BY <1>2 DEF OwnEntries
<1>7. JournalOk'
  BY <1>1, <1>5 DEF JournalOk
<1>8. ResultOf(id) = {} /\ id \notin started
  BY <1>1, <1>4 DEF JournalOk, ResultOf
<1>9. AttemptId(s)' = id
  BY <1>2 DEF Frame, AttemptId, WorkerOf
<1>10. RunOk(s)'
  <2>1. /\ (At(s, "idle") <=> request[s] = Absent)'
        /\ (At(s, "capacity-failure") => failure[s] \in Observed)'
    BY <1>1, <1>3 DEF RunOk, At, Frame
  <2>2. (AttemptId(s) \in ClaimIds /\ ResultOf(AttemptId(s)) = {} /\ Open(AttemptId(s)))'
    BY <1>2, <1>5, <1>8, <1>9 DEF ResultOf, Open
  <2>3. (AttemptId(s) \notin started)'
    BY <1>8, <1>9
  <2>4. QED
    BY <2>1, <2>2, <2>3 DEF RunOk
<1>11. QED
  BY <1>6, <1>7, <1>10

\* Only an attempt without a Worker is started.
LEMMA StartWorkerStep ==
    ASSUME RoleInv, NEW s \in Session, Frame(s), StartWorker(s)
    PROVE  OwnEntries(s) /\ RunOk(s)' /\ JournalOk'
<1>1. RunOk(s) /\ JournalOk
  BY DEF RoleInv
<1>2. /\ pc[s] = "invoke" /\ pc'[s] = "running" /\ UNCHANGED <<claims, results, cand, plan>>
      /\ started' = started \union {AttemptId(s)}
  BY DEF StartWorker, At, Goto, RoleInv, RoleTypeOK, journal
<1>3. AttemptId(s)' = AttemptId(s) /\ ClaimIds' = ClaimIds
  BY <1>2 DEF Frame, AttemptId, WorkerOf, ClaimIds
<1>4. /\ AttemptId(s) \in ClaimIds /\ ResultOf(AttemptId(s)) = {} /\ Open(AttemptId(s))
      /\ request[s] # Absent
  BY <1>1, <1>2 DEF RunOk, At, Working
<1>5. OwnEntries(s)
  BY <1>2 DEF OwnEntries
<1>6. JournalOk'
  BY <1>1, <1>2, <1>3, <1>4 DEF JournalOk, ResultOf
<1>7. RunOk(s)'
  BY <1>2, <1>3, <1>4 DEF RunOk, At, Working, NotStarted, ResultOf, Open, Frame
<1>8. QED
  BY <1>5, <1>6, <1>7

\* Every step of an execution keeps the journal in order and earns what the
\* next await relies on.
LEMMA OwnStep ==
    ASSUME RoleInv, NEW s \in Session, Frame(s), Execute(s)
    PROVE  OwnEntries(s) /\ RunOk(s)' /\ JournalOk'
<1>1. RoleTypeOK /\ RunOk(s)
  BY DEF RoleInv
<1>2. \A l : Goto(s, l) => pc'[s] = l
  BY <1>1 DEF Goto, RoleTypeOK
<1> USE DEF Working, NotStarted
<1>3. CASE Inspect(s)
  BY <1>2, <1>3, EndedStep DEF Inspect, At, journal
<1>4. CASE ClaimAttempt(s)
  <2>1. pc[s] = "claim" /\ UNCHANGED <<plan, results, started>>
    BY <1>4 DEF ClaimAttempt, At
  <2>2. CASE FreshClaim(s)
    BY <2>1, <2>2, FreshClaimStep
  <2>3. CASE ReplayAcrossGenerations(s)
    BY <1>2, <2>1, <2>3, EndedStep DEF ReplayAcrossGenerations
  <2>4. CASE Replay(s)
    <3>1. claims' = claims
      BY <2>4 DEF Replay
    <3>2. pc'[s] \in {"conflict", "replayed", "commit-replay", "deferred", "inspect"}
      BY <1>1, <1>2, <2>4, NextCandidateTyped DEF Replay
    <3>3. QED
      BY <2>1, <3>1, <3>2, EndedStep
  <2>5. QED
    BY <1>4, <2>2, <2>3, <2>4 DEF ClaimAttempt
<1>5. CASE Defer(s)
  <2>1. pc'[s] \in {"deferred", "inspect"}
    BY <1>1, <1>5, NextCandidateTyped DEF Defer
  <2>2. /\ pc[s] = "defer" /\ Record(s, "capacity-deferred") /\ UNCHANGED <<claims, started>>
        /\ "capacity-deferred" \in AttemptOutcome
    BY <1>5 DEF Defer, At, AttemptOutcome, CapacityOutcome
  <2>3. QED
    BY <2>1, <2>2, ResultStep
<1>6. CASE FinishCapacity(s)
  <2>1. pc'[s] \in {"deferred", "inspect"}
    BY <1>1, <1>6, NextCandidateTyped DEF FinishCapacity
  <2>2. /\ pc[s] = "finish-capacity" /\ Record(s, "capacity-failure")
        /\ UNCHANGED <<claims, started>> /\ "capacity-failure" \in AttemptOutcome
    BY <1>6 DEF FinishCapacity, At, AttemptOutcome, CapacityOutcome
  <2>3. QED
    BY <2>1, <2>2, ResultStep
<1>7. CASE Finish(s)
  <2>1. /\ pc[s] = "finish" /\ pc'[s] = "settle" /\ Record(s, "completed")
        /\ UNCHANGED <<claims, started>>
        /\ "completed" \in AttemptOutcome /\ "completed" \notin CapacityOutcome
    BY <1>2, <1>7 DEF Finish, At, AttemptOutcome, CapacityOutcome
  <2>2. QED
    BY <2>1, ResultStep
<1>8. CASE FinishFailed(s)
  <2>1. /\ pc[s] = "finish-failed" /\ pc'[s] = "commit-failed" /\ Record(s, "failed")
        /\ UNCHANGED <<claims, started>>
        /\ "failed" \in AttemptOutcome /\ "failed" \notin CapacityOutcome
    BY <1>2, <1>8 DEF FinishFailed, At, AttemptOutcome, CapacityOutcome
  <2>2. QED
    BY <2>1, ResultStep
<1>9. CASE StartWorker(s)
  BY <1>9, StartWorkerStep
<1>10. ASSUME NEW f \in Observed, CapacityRefused(s, f)
       PROVE  OwnEntries(s) /\ RunOk(s)' /\ JournalOk'
  <2>1. /\ pc[s] = "invoke" /\ pc'[s] = "capacity-failure" /\ failure'[s] = f
        /\ UNCHANGED <<journal, started, cand, plan>>
    BY <1>1, <1>2, <1>10 DEF CapacityRefused, At, RoleTypeOK
  <2>2. QED
    BY <2>1, QuietStep
<1>11. CASE \/ ClaimProbe(s) \/ WorkerCompletes(s) \/ WorkerFails(s) \/ RegistryBusy(s)
            \/ Abandon(s) \/ RecordCapacity(s)
  <2>1. UNCHANGED <<journal, started, cand, plan>>
    BY <1>11 DEF ClaimProbe, WorkerCompletes, WorkerFails, RegistryBusy, Abandon, RecordCapacity
  <2>2. /\ pc[s] \in Working
        /\ pc'[s] \in {"invoke", "defer", "finish", "failing", "finish-failed", "threw",
                       "finish-capacity"}
        /\ pc'[s] \in NotStarted => pc[s] \in NotStarted
    BY <1>2, <1>11
    DEF ClaimProbe, WorkerCompletes, WorkerFails, RegistryBusy, Abandon, RecordCapacity, At
  <2>3. QED
    BY <2>1, <2>2, QuietStep
<1>12. CASE Settle(s) \/ Commit(s) \/ CommitThrows(s)
  <2>1. UNCHANGED <<claims, results, started>>
    BY <1>12 DEF Settle, Commit, CommitThrows, journal
  <2>2. pc[s] # "idle" /\ pc'[s] \in {"commit", "threw", "completed", "replayed"}
    BY <1>2, <1>12 DEF Settle, Commit, CommitThrows, At
  <2>3. QED
    BY <2>1, <2>2, EndedStep
<1>13. QED
  BY <1>3, <1>4, <1>5, <1>6, <1>7, <1>8, <1>9, <1>10, <1>11, <1>12 DEF Execute

\* The dispatch of a request no execution works on.
LEMMA BeginStep ==
    ASSUME RoleInv, NEW s \in Session, NEW r \in Request, Begin(s, r)
    PROVE  RoleTypeOK' /\ OneExecution' /\ JournalOk' /\ \A t \in Session : RunOk(t)'
<1>1. RoleTypeOK /\ OneExecution /\ JournalOk /\ \A t \in Session : RunOk(t)
  BY DEF RoleInv
<1>2. /\ UNCHANGED <<cand, plan, failure, claims, results, started>>
      /\ pc' = [pc EXCEPT ![s] = "inspect"] /\ request' = [request EXCEPT ![s] = r]
      /\ cfg' = [cfg EXCEPT ![s] = machineConfig]
      /\ \A t \in Session : request[t] # r
      /\ deliveries' = [deliveries EXCEPT ![r] = @ + 1]
    BY DEF Begin, Goto, Start, journal
<1>3. RoleTypeOK'
  BY <1>1, <1>2 DEF RoleTypeOK, Location, OfSessions
<1>4. OneExecution'
  BY <1>1, <1>2 DEF OneExecution, RoleTypeOK
<1>5. JournalOk'
  BY <1>1, <1>2 DEF JournalOk, ClaimIds
<1>6. ASSUME NEW t \in Session PROVE RunOk(t)'
  <2>1. CASE t = s
    <3>1. pc'[s] = "inspect" /\ request'[s] = r /\ r # Absent
      BY <1>1, <1>2, RoleAssumption DEF RoleTypeOK
    <3>2. QED
      BY <2>1, <3>1 DEF RunOk, At, Working, NotStarted
  <2>2. CASE t # s
    <3>1. /\ pc'[t] = pc[t] /\ request'[t] = request[t] /\ failure' = failure
          /\ AttemptId(t)' = AttemptId(t) /\ ClaimIds' = ClaimIds
      BY <1>1, <1>2, <2>2 DEF RoleTypeOK, AttemptId, WorkerOf, ClaimIds
    <3>2. RunOk(t)
      BY <1>1
    <3>3. QED
      BY <1>2, <3>1, <3>2 DEF RunOk, At, ResultOf, Open
  <2>3. QED
    BY <2>1, <2>2
<1>7. QED
  BY <1>3, <1>4, <1>5, <1>6

\* A process that ends or is killed leaves the journal as it is.
LEMMA LeaveStep ==
    ASSUME RoleInv, NEW s \in Session, Leave(s)
    PROVE  RoleTypeOK' /\ OneExecution' /\ JournalOk' /\ \A t \in Session : RunOk(t)'
<1>1. RoleTypeOK /\ OneExecution /\ JournalOk /\ \A t \in Session : RunOk(t)
  BY DEF RoleInv
<1>2. /\ UNCHANGED <<claims, results, started, deliveries>>
      /\ pc' = [pc EXCEPT ![s] = "idle"] /\ request' = [request EXCEPT ![s] = Absent]
      /\ plan' = [plan EXCEPT ![s] = NoPlan] /\ failure' = [failure EXCEPT ![s] = NoFailure]
      /\ cand' = [cand EXCEPT ![s] = 1] /\ cfg' = [cfg EXCEPT ![s] = Absent]
    BY DEF Leave, Goto, Stop, journal
<1>3. RoleTypeOK'
  <2>1. 1 \in 1 .. Len(Candidates)
    BY RoleAssumption
  <2>2. QED
    BY <1>1, <1>2, <2>1 DEF RoleTypeOK, Location, OfSessions
<1>4. OneExecution'
  BY <1>1, <1>2 DEF OneExecution, RoleTypeOK
<1>5. JournalOk'
  BY <1>1, <1>2 DEF JournalOk, ClaimIds
<1>6. ASSUME NEW t \in Session PROVE RunOk(t)'
  <2>1. CASE t = s
    <3>1. pc'[s] = "idle" /\ request'[s] = Absent
      BY <1>1, <1>2 DEF RoleTypeOK
    <3>2. QED
      BY <2>1, <3>1 DEF RunOk, At, Working, NotStarted
  <2>2. CASE t # s
    <3>1. /\ pc'[t] = pc[t] /\ request'[t] = request[t] /\ failure'[t] = failure[t]
          /\ AttemptId(t)' = AttemptId(t) /\ ClaimIds' = ClaimIds
      BY <1>1, <1>2, <2>2 DEF RoleTypeOK, AttemptId, WorkerOf, ClaimIds, OfSessions
    <3>2. RunOk(t)
      BY <1>1
    <3>3. QED
      BY <1>2, <3>1, <3>2 DEF RunOk, At, ResultOf, Open
  <2>3. QED
    BY <2>1, <2>2
<1>7. QED
  BY <1>3, <1>4, <1>5, <1>6

\* A step of the clock or of the machine configuration, or none at all.
LEMMA EnvironmentStep ==
    ASSUME RoleInv, RoleEnvironment \/ UNCHANGED roleVars
    PROVE  RoleTypeOK' /\ OneExecution' /\ JournalOk' /\ \A t \in Session : RunOk(t)'
<1>1. RoleTypeOK /\ OneExecution /\ JournalOk /\ \A t \in Session : RunOk(t)
  BY DEF RoleInv
<1>2. /\ UNCHANGED <<pc, request, cand, plan, failure, claims, results, started, deliveries>>
      /\ cfg' = cfg
  BY DEF RoleEnvironment, Tick, Rotate, locals, journal, roleVars, registryVars
<1>3. RoleTypeOK' /\ OneExecution' /\ JournalOk'
  BY <1>1, <1>2 DEF RoleTypeOK, OfSessions, OneExecution, JournalOk, ClaimIds
<1>4. ASSUME NEW t \in Session PROVE RunOk(t)'
  <2>1. AttemptId(t)' = AttemptId(t) /\ ClaimIds' = ClaimIds
    BY <1>2 DEF AttemptId, WorkerOf, ClaimIds
  <2>2. RunOk(t)
    BY <1>1
  <2>3. QED
    BY <1>2, <2>1, <2>2 DEF RunOk, At, ResultOf, Open
<1>5. QED
  BY <1>3, <1>4

-----------------------------------------------------------------------------
(* What the role worker guarantees                                         *)

\* At the start nothing is dispatched and the journal is empty.
LEMMA RoleStart == RoleInit => WorkerInv
<1> SUFFICES ASSUME RoleInit PROVE WorkerInv
  OBVIOUS
<1>1. IInv
  BY InitIInv DEF RoleInit
<1>2. /\ pc = [s \in Session |-> "idle"] /\ request = [s \in Session |-> Absent]
      /\ cand = [s \in Session |-> 1] /\ plan = [s \in Session |-> NoPlan]
      /\ failure = [s \in Session |-> NoFailure] /\ claims = {} /\ results = {}
      /\ started = {} /\ deliveries = [r \in Request |-> 0]
  BY DEF RoleInit
<1>3. 1 \in 1 .. Len(Candidates)
  BY RoleAssumption
<1>4. RoleTypeOK
  BY <1>2, <1>3 DEF RoleTypeOK, Location, OfSessions
<1>5. OneExecution /\ JournalOk /\ \A s \in Session : RunOk(s)
  BY <1>2 DEF OneExecution, JournalOk, RunOk, At, Working, NotStarted
<1>6. Sourced
  BY DEF RoleInit, Init, Sourced, Stored
<1>7. QED
  BY <1>1, <1>4, <1>5, <1>6 DEF WorkerInv, RoleInv

\* Every step keeps the invariant.
LEMMA RoleStep == WorkerInv /\ [RoleNext]_roleVars => WorkerInv'
<1> SUFFICES ASSUME IInv, RoleInv, [RoleNext]_roleVars PROVE IInv' /\ RoleInv'
  BY DEF WorkerInv
<1>1. IInv' /\ Sourced'
  BY RegistryStep, NextIInv, SourcedStep DEF RoleInv
<1>2. RoleTypeOK' /\ OneExecution' /\ JournalOk' /\ \A s \in Session : RunOk(s)'
  <2>1. CASE RoleEnvironment \/ UNCHANGED roleVars
    BY <2>1, EnvironmentStep
  <2>2. ASSUME NEW s \in Session, NEW r \in Request, Begin(s, r)
        PROVE  RoleTypeOK' /\ OneExecution' /\ JournalOk' /\ \A t \in Session : RunOk(t)'
    BY <2>2, BeginStep
  <2>3. ASSUME NEW s \in Session, Leave(s)
        PROVE  RoleTypeOK' /\ OneExecution' /\ JournalOk' /\ \A t \in Session : RunOk(t)'
    BY <2>3, LeaveStep
  <2>4. ASSUME NEW s \in Session, Execute(s)
        PROVE  RoleTypeOK' /\ OneExecution' /\ JournalOk' /\ \A t \in Session : RunOk(t)'
    <3>1. Frame(s) /\ RoleTypeOK'
      BY <2>4, ExecuteFrame
    <3>2. OwnEntries(s) /\ RunOk(s)' /\ JournalOk'
      BY <2>4, <3>1, OwnStep
    <3>3. OneExecution' /\ \A t \in Session \ {s} : RunOk(t)'
      BY <3>1, <3>2, OthersUndisturbed
    <3>4. QED
      BY <3>1, <3>2, <3>3
  <2>5. QED
    BY <2>1, <2>2, <2>3, <2>4 DEF RoleNext
<1>3. QED
  BY <1>1, <1>2 DEF RoleInv

\* What an execution relies on at each await holds there, for any number of
\* executions, redeliveries, kills and registry errors.
THEOREM RoleInvariant == RoleSpec => []WorkerInv
BY RoleStart, RoleStep, PTL DEF RoleSpec

\* The role worker uses the capacity registry as the registry's own
\* specification allows: runRoleWorker (role-worker.mjs) adds no call and no
\* write of its own, so what is proved of the registry holds under it.
THEOREM RoleImplementsRegistry == RoleSpec => Spec
<1>1. RoleInit => Init
  BY DEF RoleInit
<1>2. WorkerInv /\ [RoleNext]_roleVars => [Next]_vars
  BY RegistryStep DEF WorkerInv
<1>3. QED
  BY <1>1, <1>2, RoleInvariant, PTL DEF RoleSpec, Spec

\* Among the executions that run role workers, at most one can complete the
\* probe of a capacity scope.
THEOREM RoleSingleCompleter == RoleSpec => []OneCompleter
BY RoleImplementsRegistry, SingleCompleter, PTL

\* An attempt that ended for capacity has started no Worker session, which is
\* what lets another candidate take the request over.
THEOREM CapacityNeverStarted == RoleSpec => []CapacityOutcomeNeverStarted
<1>1. WorkerInv => CapacityOutcomeNeverStarted
  BY DEF WorkerInv, RoleInv, JournalOk, CapacityOutcomeNeverStarted
<1>2. QED
  BY <1>1, RoleInvariant, PTL

\* An attempt starts at most one Worker session, whatever is killed, replayed
\* or dispatched again (the durable claim of claimAttempt).
THEOREM StartsOnce == RoleSpec => AttemptStartsOnce
<1>1. WorkerInv => \A s \in Session :
          At(s, "invoke") /\ pc'[s] = "running" => AttemptId(s) \notin started
  BY DEF WorkerInv, RoleInv, RunOk, At, NotStarted
<1>2. QED
  BY <1>1, RoleInvariant, PTL DEF AttemptStartsOnce

\* A Worker that ended a request is not started on it again under the same
\* configuration, although the capacity generation in the attempt's identity
\* moved on (sameAttemptExecution of the journal).
THEOREM NotRepeated == RoleSpec => EndedWorkNotRepeated
<1>1. ASSUME WorkerInv, [RoleNext]_roleVars, NEW id \in started' \ started
      PROVE  Open(id)
  <2>1. PICK s \in Session : StartWorker(s)
    <3>1. started' # started
      BY <1>1
    <3>2. PICK s \in Session : Execute(s)
      BY <1>1, <3>1 DEF RoleNext, RoleEnvironment, Begin, Leave, roleVars
    <3>3. StartWorker(s)
      BY <3>1, <3>2
      DEF Execute, Inspect, ClaimAttempt, ClaimProbe, Defer, WorkerCompletes, WorkerFails,
          CapacityRefused, RegistryBusy, Finish, Settle, Abandon, FinishFailed, RecordCapacity,
          FinishCapacity, Commit, CommitThrows
    <3>4. QED
      BY <3>3
  <2>2. id = AttemptId(s) /\ pc[s] \in Working
    BY <1>1, <2>1 DEF StartWorker, At, Working
  <2>3. QED
    BY <1>1, <2>2 DEF WorkerInv, RoleInv, RunOk
<1>2. WorkerInv /\ [RoleNext]_roleVars
      => [\A id \in started' \ started :
             \A e \in results : SameExecution(e.id, id) => e.outcome \in CapacityOutcome]_roleVars
  BY <1>1 DEF Open
<1>3. QED
  BY <1>2, RoleInvariant, PTL DEF RoleSpec, EndedWorkNotRepeated
=============================================================================

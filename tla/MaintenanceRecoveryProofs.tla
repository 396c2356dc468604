--------------------- MODULE MaintenanceRecoveryProofs ---------------------
(***************************************************************************)
(* What holds of fault recovery for any faults, requests, Workers, profile *)
(* and clock, wherever maintenance runs die: no more epochs than the       *)
(* profile allows, one start of each Worker, releases that were reviewed   *)
(* and tested, and recoveries that were proven.                            *)
(*                                                                         *)
(* Everything rests on what holds of one record of a fault, trusted,       *)
(* appended or in the hands of a run, against the repairs there are.       *)
(***************************************************************************)
EXTENDS MaintenanceRecovery, FiniteSetTheorems, TLAPS

-----------------------------------------------------------------------------
(* The inductive invariant                                                 *)

\* A sequence, whatever its elements.
IsList(s) == s \in Seq({s[i] : i \in DOMAIN s})

\* Before anything was released or found to work.
EarlyStatus == {"observed", "recovering", "repairing"}

IsRecord(x) ==
    /\ x = [status |-> x.status, roots |-> x.roots, version |-> x.version,
            openings |-> x.openings, attempts |-> x.attempts, pull |-> x.pull]
    /\ x.status \in Status
    /\ x.openings \in Seq(Nat) /\ x.openings # << >>
    /\ IsList(x.attempts)

\* The openings in the 24 hours before the nth one, it included.
Window(openings, n) == {m \in 1 .. n : openings[m] + Day >= openings[n]}

WithinBudget(x) ==
    \A n \in DOMAIN x.openings : Cardinality(Window(x.openings, n)) <= MaxEpochsPerDay

\* What works was repaired, what is recovered was watched.
Proven(x) ==
    /\ x.status \in {"verifying", "recovered"} =>
           Succeeded(x, "deterministic") \/ Succeeded(x, "promotion")
    /\ x.status = "recovered" => Cardinality(Samples(x)) >= HealthySamples

\* The repair of a record is one of its fault and epoch; a promotion that
\* succeeded has merged it.
Repaired(repairs, f, x) ==
    /\ x.pull = NoPull \/ x.pull \in DOMAIN repairs
    /\ x.pull \in DOMAIN repairs =>
           repairs[x.pull].fault = f /\ repairs[x.pull].epoch = EpochOf(x)
    /\ x.status \in {"reviewing", "deploying"} => x.pull \in DOMAIN repairs
    /\ Succeeded(x, "promotion") =>
           /\ x.status \in {"verifying", "recovered", "circuit-open"}
           /\ x.pull \in DOMAIN repairs /\ repairs[x.pull].state = "merged"

\* What was merged for the fault is the repair of this record, or of an epoch
\* before it.
Latest(repairs, f, x) ==
    \A m \in DOMAIN repairs :
        repairs[m].fault = f /\ repairs[m].state = "merged" =>
            \/ repairs[m].epoch < EpochOf(x)
            \/ /\ repairs[m].epoch = EpochOf(x) /\ x.pull = m
               /\ x.status \notin EarlyStatus

RecordOk(repairs, f, x) ==
    /\ IsRecord(x) /\ WithinBudget(x) /\ Proven(x)
    /\ Repaired(repairs, f, x) /\ Latest(repairs, f, x)

\* The record a run works on is the trusted one with more root requests.
Alike(x, y) ==
    /\ x.status = y.status /\ x.version = y.version /\ x.openings = y.openings
    /\ x.attempts = y.attempts /\ x.pull = y.pull

\* The phases in which a run carries out an effect, and the status each needs.
Working ==
    {"deterministic", "maintenance-worker", "working", "review", "ci", "promotion", "merge",
     "merged", "verification"}

PhaseFits(phase, status) ==
    /\ phase \in {"deterministic", "maintenance-worker", "working"} => status \in EarlyStatus
    /\ phase \in {"review", "ci"} => status = "reviewing"
    /\ phase \in {"promotion", "merge", "merged"} => status = "deploying"
    /\ phase = "verification" => status = "verifying"

JobOk ==
    /\ job = [phase |-> job.phase, queue |-> job.queue, roots |-> job.roots,
              record |-> job.record, head |-> job.head]
    /\ job.phase \in Working \union {"idle", "next", "append", "resume"}
    /\ job.queue \in Seq(Fault)
    /\ \A i, j \in DOMAIN job.queue : job.queue[i] = job.queue[j] => i = j
    /\ \A i \in DOMAIN job.queue : appended[job.queue[i]] = Nothing
    /\ job.phase = "idle" => \A f \in Fault : appended[f] = Nothing
    /\ job.phase \notin {"idle", "next"} => job.queue # << >>

\* What a run has in hand.
WorkOk ==
    /\ job.phase \in Working =>
           /\ trusted[Current] # Nothing
           /\ Alike(job.record, trusted[Current])
           /\ IsRecord(job.record)
           /\ PhaseFits(job.phase, job.record.status)
    /\ job.phase = "append" => RecordOk(pulls, Current, job.record)
    /\ job.phase = "merge" => Continuous(job.record, job.head, {"review", "ci"})
    /\ job.phase = "merged" => Repair.state = "merged"

\* Every record, and every repair that was merged for a fault.
RecordsOk ==
    /\ \A f \in Fault : trusted[f] # Nothing => RecordOk(pulls, f, trusted[f])
    /\ \A f \in Fault : appended[f] # Nothing => RecordOk(pulls, f, appended[f])
    /\ \A m \in DOMAIN pulls : pulls[m].state = "merged" => trusted[pulls[m].fault] # Nothing

PullRequest == [fault : Fault, epoch : Nat, state : {"open", "closed", "merged"}, head : Nat]

RecoveryTypeOK ==
    /\ clock \in Nat
    /\ trusted = [f \in Fault |-> trusted[f]] /\ appended = [f \in Fault |-> appended[f]]
    /\ pulls \in Seq(PullRequest)

\* The Workers that were started left their intent.
StartsOk ==
    /\ invoked = [key \in DOMAIN invoked |-> invoked[key]]
    /\ DOMAIN invoked \subseteq intents
    /\ WorkerStartedOnce

\* The invariant without the starts of Workers, which stand on their own.
CoreInv == RecoveryTypeOK /\ JobOk /\ WorkOk /\ RecordsOk

RecoveryInv == CoreInv /\ StartsOk

-----------------------------------------------------------------------------
(* Lists and windows                                                       *)

\* A sequence over any set is a list.
LEMMA SequenceIsList ==
    ASSUME NEW S, NEW s \in Seq(S)
    PROVE  IsList(s)
BY DEF IsList

\* A list with one more element.
LEMMA ListAppend ==
    ASSUME NEW s, NEW x, IsList(s)
    PROVE  /\ IsList(Append(s, x)) /\ Len(s) \in Nat /\ DOMAIN s = 1 .. Len(s)
           /\ DOMAIN Append(s, x) = 1 .. (Len(s) + 1)
           /\ \A i \in 1 .. Len(s) : Append(s, x)[i] = s[i]
           /\ Append(s, x)[Len(s) + 1] = x
<1> DEFINE S == {s[i] : i \in DOMAIN s} \union {x}
<1>1. s \in Seq(S) /\ x \in S
  BY DEF IsList
<1> HIDE DEF S
<1>2. Append(s, x) \in Seq(S)
  BY <1>1
<1>3. IsList(Append(s, x))
  BY <1>2, SequenceIsList
<1>4. QED
  BY <1>1, <1>3

\* Opening an epoch when fewer than the allowed ones lie in the last 24 hours
\* leaves no window with more than are allowed.
LEMMA WindowAppend ==
    ASSUME NEW openings \in Seq(Nat), NEW now \in Nat,
           \A n \in DOMAIN openings : Cardinality(Window(openings, n)) <= MaxEpochsPerDay,
           Cardinality({n \in DOMAIN openings : openings[n] + Day >= now}) < MaxEpochsPerDay
    PROVE  \A n \in DOMAIN Append(openings, now) :
               Cardinality(Window(Append(openings, now), n)) <= MaxEpochsPerDay
<1> DEFINE next == Append(openings, now)
           recent == {n \in DOMAIN openings : openings[n] + Day >= now}
           last == Len(openings) + 1
<1>1. /\ next \in Seq(Nat) /\ Len(openings) \in Nat /\ last \in Nat
      /\ DOMAIN openings = 1 .. Len(openings) /\ DOMAIN next = 1 .. last
      /\ \A n \in 1 .. Len(openings) : next[n] = openings[n]
      /\ next[last] = now
  OBVIOUS
<1> HIDE DEF next
<1> SUFFICES ASSUME NEW n \in DOMAIN next
             PROVE  Cardinality(Window(next, n)) <= MaxEpochsPerDay
  BY DEF next
<1>2. CASE n \in 1 .. Len(openings)
  <2>1. Window(next, n) = Window(openings, n)
    <3>1. \A m \in 1 .. n : m \in 1 .. Len(openings)
      BY <1>1, <1>2
    <3>2. next[n] = openings[n] /\ \A m \in 1 .. n : next[m] = openings[m]
      BY <1>1, <1>2, <3>1
    <3>3. QED
      BY <3>2 DEF Window
  <2>2. QED
    BY <1>1, <1>2, <2>1
<1>3. CASE n = last
  <2>1. IsFiniteSet(recent)
    <3>1. IsFiniteSet(1 .. Len(openings)) /\ recent \subseteq 1 .. Len(openings)
      BY <1>1, FS_Interval
    <3>2. QED
      BY <3>1, FS_Subset
  <2>2. Window(next, n) \subseteq recent \union {last}
    <3>1. \A m \in 1 .. last : m = last \/ m \in 1 .. Len(openings)
      BY <1>1
    <3>2. QED
      BY <1>1, <1>3, <3>1 DEF Window
  <2>3. /\ IsFiniteSet(recent \union {last})
        /\ Cardinality(recent \union {last}) <= Cardinality(recent) + 1
    <3>1. last \notin recent
      BY <1>1
    <3>2. Cardinality(recent) \in Nat
      BY <2>1, FS_CardinalityType
    <3>3. /\ IsFiniteSet(recent \union {last})
          /\ Cardinality(recent \union {last})
                 = IF last \in recent THEN Cardinality(recent) ELSE Cardinality(recent) + 1
      <4> HIDE DEF recent, last
      <4>1. QED
        BY <2>1, FS_AddElement
    <3>4. QED
      BY <3>1, <3>2, <3>3
  <2>4. /\ IsFiniteSet(Window(next, n))
        /\ Cardinality(Window(next, n)) <= Cardinality(recent \union {last})
    BY <2>2, <2>3, FS_Subset
  <2>5. /\ Cardinality(recent) \in Nat /\ Cardinality(recent) < MaxEpochsPerDay
        /\ Cardinality(Window(next, n)) \in Nat /\ Cardinality(recent \union {last}) \in Nat
        /\ MaxEpochsPerDay \in Nat
    BY <2>1, <2>3, <2>4, FS_CardinalityType, RecoveryAssumption
  <2>6. QED
    BY <2>3, <2>4, <2>5
<1>4. QED
  BY <1>1, <1>2, <1>3

-----------------------------------------------------------------------------
(* Records                                                                 *)

\* A record with more root requests is as good as the record.
LEMMA AlikeOk ==
    ASSUME NEW repairs, NEW f, NEW x, NEW y, RecordOk(repairs, f, y), IsRecord(x), Alike(x, y)
    PROVE  RecordOk(repairs, f, x)
<1>1. \A kind : (Succeeded(x, kind) <=> Succeeded(y, kind))
  BY DEF Succeeded, Alike
<1>2. Samples(x) = Samples(y) /\ EpochOf(x) = EpochOf(y)
  BY DEF Samples, CompletedAttempts, EpochOf, Alike
<1>3. WithinBudget(x) /\ Proven(x)
  BY <1>1, <1>2 DEF RecordOk, WithinBudget, Proven, Alike
<1>4. Repaired(repairs, f, x) /\ Latest(repairs, f, x)
  BY <1>1, <1>2 DEF RecordOk, Repaired, Latest, Alike
<1>5. QED
  BY <1>3, <1>4 DEF RecordOk

\* attachRootRequests changes the root requests only.
LEMMA Attached ==
    ASSUME NEW x, NEW roots, IsRecord(x)
    PROVE  IsRecord(attachRootRequests(x, roots)) /\ Alike(attachRootRequests(x, roots), x)
<1> DEFINE y == attachRootRequests(x, roots)
           all == x.roots \union roots
<1>0. y = [x EXCEPT !.roots = all]
  BY DEF attachRootRequests
<1> HIDE DEF y, all
<1>1. y = [status |-> x.status, roots |-> all, version |-> x.version,
           openings |-> x.openings, attempts |-> x.attempts, pull |-> x.pull]
  BY <1>0 DEF IsRecord
<1>2. IsRecord(y) /\ Alike(y, x)
  BY <1>1 DEF IsRecord, Alike
<1>3. QED
  BY <1>2 DEF y

\* The first record of a fault nothing was merged for.
LEMMA CreatedOk ==
    ASSUME NEW repairs, NEW f, NEW roots, NEW version, NEW now \in Nat,
           NoPull \notin DOMAIN repairs,
           \A m \in DOMAIN repairs : repairs[m].fault = f => repairs[m].state # "merged"
    PROVE  RecordOk(repairs, f, createFaultRecord(roots, version, now))
<1> DEFINE x == createFaultRecord(roots, version, now)
<1>1. x = [status |-> "observed", roots |-> roots, version |-> version,
           openings |-> <<now>>, attempts |-> << >>, pull |-> NoPull]
  BY DEF createFaultRecord
<1> HIDE DEF x
<1>2. IsList(<< >>) /\ DOMAIN (<< >>) = {} /\ <<now>> \in Seq(Nat) /\ <<now>> # << >>
  BY DEF IsList
<1>3. IsRecord(x)
  BY <1>1, <1>2 DEF IsRecord, Status
<1>4. WithinBudget(x)
  <2>1. ASSUME NEW n \in DOMAIN x.openings
        PROVE  Cardinality(Window(x.openings, n)) <= MaxEpochsPerDay
    <3>1. n = 1
      BY <1>1
    <3>2. Window(x.openings, n) \subseteq {1}
      BY <3>1 DEF Window
    <3>3. IsFiniteSet({1}) /\ Cardinality({1}) = 1
      BY FS_Singleton
    <3>4. /\ Cardinality(Window(x.openings, n)) <= 1
          /\ Cardinality(Window(x.openings, n)) \in Nat
      BY <3>2, <3>3, FS_Subset, FS_CardinalityType
    <3>5. QED
      BY <3>4, RecoveryAssumption
  <2>2. QED
    BY <2>1 DEF WithinBudget
<1>5. \A kind : ~ Succeeded(x, kind)
  BY <1>1, <1>2 DEF Succeeded
<1>6. Proven(x) /\ Repaired(repairs, f, x) /\ Latest(repairs, f, x)
  BY <1>1, <1>5 DEF Proven, Repaired, Latest
<1>7. QED
  BY <1>3, <1>4, <1>6 DEF RecordOk, x

\* A new epoch.
LEMMA BegunOk ==
    ASSUME NEW repairs, NEW f, NEW x, NEW version, NEW now \in Nat,
           NoPull \notin DOMAIN repairs, \A m \in DOMAIN repairs : repairs[m].epoch \in Nat,
           RecordOk(repairs, f, x), CanBeginEpoch(x, version, now)
    PROVE  RecordOk(repairs, f, beginFaultEpoch(x, version, now))
<1> DEFINE y == beginFaultEpoch(x, version, now)
           next == Append(x.openings, now)
<1>0. y = [x EXCEPT !.status = "observed", !.version = version, !.openings = next,
                    !.attempts = << >>, !.pull = NoPull]
  BY DEF beginFaultEpoch
<1> HIDE DEF y, next
<1>1. IsRecord(x) /\ x.openings \in Seq(Nat)
  BY DEF RecordOk, IsRecord
<1>2. y = [status |-> "observed", roots |-> x.roots, version |-> version,
           openings |-> next, attempts |-> << >>, pull |-> NoPull]
  BY <1>0, <1>1 DEF IsRecord
<1>3. IsList(<< >>) /\ DOMAIN (<< >>) = {}
  BY DEF IsList
<1>4. IsRecord(y)
  <2>1. next \in Seq(Nat) /\ next # << >>
    BY <1>1 DEF next
  <2>2. QED
    BY <1>2, <1>3, <2>1 DEF IsRecord, Status
<1>5. WithinBudget(y)
  BY <1>1, <1>2, WindowAppend DEF RecordOk, WithinBudget, CanBeginEpoch, RecentEpochs, next
<1>6. \A kind : ~ Succeeded(y, kind)
  BY <1>2, <1>3 DEF Succeeded
<1>7. EpochOf(x) \in Nat /\ EpochOf(y) = EpochOf(x) + 1
  BY <1>1, <1>2 DEF EpochOf, next
<1>8. Latest(repairs, f, y)
  BY <1>7 DEF RecordOk, Latest
<1>9. Proven(y) /\ Repaired(repairs, f, y)
  BY <1>2, <1>6 DEF Proven, Repaired
<1>10. QED
  BY <1>4, <1>5, <1>8, <1>9 DEF RecordOk, y

\* An open circuit.
LEMMA CircuitOk ==
    ASSUME NEW repairs, NEW f, NEW x, RecordOk(repairs, f, x)
    PROVE  RecordOk(repairs, f, openFaultCircuit(x))
<1> DEFINE y == openFaultCircuit(x)
<1>1. IsRecord(x)
  BY DEF RecordOk
<1>2. y = [status |-> "circuit-open", roots |-> x.roots, version |-> x.version,
           openings |-> x.openings, attempts |-> x.attempts, pull |-> x.pull]
  BY <1>1 DEF openFaultCircuit, IsRecord
<1> HIDE DEF y
<1>3. IsRecord(y)
  BY <1>1, <1>2 DEF IsRecord, Status, TerminalStatus
<1>4. EpochOf(y) = EpochOf(x) /\ \A kind : (Succeeded(y, kind) <=> Succeeded(x, kind))
  BY <1>2 DEF EpochOf, Succeeded
<1>5. WithinBudget(y) /\ Proven(y)
  BY <1>2 DEF RecordOk, WithinBudget, Proven
<1>6. Repaired(repairs, f, y) /\ Latest(repairs, f, y)
  BY <1>2, <1>4 DEF RecordOk, Repaired, Latest, EarlyStatus
<1>7. QED
  BY <1>3, <1>5, <1>6 DEF RecordOk, y

\* What an attempt adds to a record.
LEMMA AttemptAdds ==
    ASSUME NEW x, NEW a, NEW pull, IsRecord(x), a.kind \in AttemptKind, a.succeeded \in BOOLEAN
    PROVE  LET y == recordFaultAttempt(x, a, pull)
           IN  /\ IsRecord(y) /\ y.status = StatusAfter(x, a) /\ y.openings = x.openings
               /\ y.pull = IF a.kind = "maintenance-worker" /\ a.succeeded THEN pull ELSE x.pull
               /\ \A kind : (Succeeded(y, kind)
                                <=> Succeeded(x, kind) \/ (a.kind = kind /\ a.succeeded))
               /\ a.kind = "verification" /\ a.succeeded =>
                      Cardinality(Samples(y)) = Cardinality(Samples(x)) + 1
<1> DEFINE y == recordFaultAttempt(x, a, pull)
           next == Append(x.attempts, a)
           after == StatusAfter(x, a)
           repair == IF a.kind = "maintenance-worker" /\ a.succeeded THEN pull ELSE x.pull
<1>0. y = [x EXCEPT !.status = after, !.attempts = next, !.pull = repair]
  BY DEF recordFaultAttempt
<1> HIDE DEF y, next, after, repair
<1>1. y = [status |-> after, roots |-> x.roots, version |-> x.version,
           openings |-> x.openings, attempts |-> next, pull |-> repair]
  BY <1>0 DEF IsRecord
<1>2. /\ IsList(next) /\ Len(x.attempts) \in Nat /\ DOMAIN x.attempts = 1 .. Len(x.attempts)
      /\ DOMAIN next = 1 .. (Len(x.attempts) + 1)
      /\ \A i \in 1 .. Len(x.attempts) : next[i] = x.attempts[i]
      /\ next[Len(x.attempts) + 1] = a
  BY ListAppend DEF IsRecord, next
<1>3. after \in Status
  BY DEF StatusAfter, Status, TerminalStatus, AttemptKind, after
<1>4. IsRecord(y)
  BY <1>1, <1>2, <1>3 DEF IsRecord
<1>5. ASSUME NEW i \in DOMAIN next PROVE i \in DOMAIN x.attempts \/ i = Len(x.attempts) + 1
  BY <1>2
<1>6. DOMAIN x.attempts \subseteq DOMAIN next /\ Len(x.attempts) + 1 \in DOMAIN next
  BY <1>2
<1>7. ASSUME NEW kind
      PROVE  Succeeded(y, kind) <=> Succeeded(x, kind) \/ (a.kind = kind /\ a.succeeded)
  BY <1>1, <1>2, <1>5, <1>6 DEF Succeeded
<1>8. ASSUME a.kind = "verification", a.succeeded
      PROVE  Cardinality(Samples(y)) = Cardinality(Samples(x)) + 1
  <2>1. Samples(y) = Samples(x) \union {Len(x.attempts) + 1}
    BY <1>1, <1>2, <1>5, <1>6, <1>8 DEF Samples, CompletedAttempts
  <2>2. Samples(x) \subseteq 1 .. Len(x.attempts)
    BY <1>2 DEF Samples, CompletedAttempts
  <2>3. IsFiniteSet(Samples(x))
    <3>1. IsFiniteSet(1 .. Len(x.attempts))
      BY <1>2, FS_Interval
    <3>2. QED
      BY <2>2, <3>1, FS_Subset
  <2>4. Len(x.attempts) + 1 \notin Samples(x)
    BY <1>2, <2>2
  <2>5. QED
    BY <2>1, <2>3, <2>4, FS_AddElement
<1>9. QED
  BY <1>1, <1>4, <1>7, <1>8 DEF y, after, repair

\* The kinds of attempt and the status of the record they are made for.
KindFits(kind, status) ==
    /\ kind \in {"deterministic", "maintenance-worker"} => status \in EarlyStatus
    /\ kind \in {"review", "ci"} => status = "reviewing"
    /\ kind = "promotion" => status = "deploying"
    /\ kind = "verification" => status = "verifying"

\* An attempt keeps a record sound when a Worker names a repair of its fault
\* and epoch, and a promotion succeeds only after the merge.
LEMMA AttemptOk ==
    ASSUME NEW repairs, NEW f, NEW x, NEW a, NEW pull, RecordOk(repairs, f, x),
           a.kind \in AttemptKind, a.succeeded \in BOOLEAN, KindFits(a.kind, x.status),
           a.kind = "maintenance-worker" /\ a.succeeded =>
               /\ pull \in DOMAIN repairs
               /\ repairs[pull].fault = f /\ repairs[pull].epoch = EpochOf(x),
           a.kind = "promotion" /\ a.succeeded => repairs[x.pull].state = "merged"
    PROVE  RecordOk(repairs, f, recordFaultAttempt(x, a, pull))
<1> DEFINE y == recordFaultAttempt(x, a, pull)
<1>1. /\ IsRecord(y) /\ y.status = StatusAfter(x, a) /\ y.openings = x.openings
      /\ y.pull = IF a.kind = "maintenance-worker" /\ a.succeeded THEN pull ELSE x.pull
      /\ \A kind : (Succeeded(y, kind) <=> Succeeded(x, kind) \/ (a.kind = kind /\ a.succeeded))
      /\ a.kind = "verification" /\ a.succeeded =>
             Cardinality(Samples(y)) = Cardinality(Samples(x)) + 1
  BY AttemptAdds DEF RecordOk
<1> HIDE DEF y
<1>2. EpochOf(y) = EpochOf(x)
  BY <1>1 DEF EpochOf
<1>3. WithinBudget(y)
  BY <1>1 DEF RecordOk, WithinBudget
<1>4. Proven(y)
  <2>1. ASSUME y.status \in {"verifying", "recovered"}
        PROVE  Succeeded(y, "deterministic") \/ Succeeded(y, "promotion")
    <3>1. a.succeeded /\ a.kind \in {"deterministic", "promotion", "verification"}
      <4>1. y.status = StatusAfter(x, a)
        BY <1>1
      <4>2. QED
        BY <2>1, <4>1 DEF StatusAfter, AttemptKind
    <3>2. a.kind = "verification" => x.status = "verifying"
      BY DEF KindFits
    <3>3. QED
      BY <1>1, <3>1, <3>2 DEF RecordOk, Proven
  <2>2. ASSUME y.status = "recovered" PROVE Cardinality(Samples(y)) >= HealthySamples
    <3>1. a.kind = "verification" /\ a.succeeded /\ EnoughSamples(x)
      <4>1. y.status = StatusAfter(x, a)
        BY <1>1
      <4>2. QED
        BY <2>2, <4>1 DEF StatusAfter, AttemptKind
    <3>2. QED
      BY <1>1, <3>1 DEF EnoughSamples
  <2>3. QED
    BY <2>1, <2>2 DEF Proven
<1>5. /\ a.kind \in {"deterministic", "maintenance-worker"} =>
             x.status \notin {"verifying", "recovered", "circuit-open"}
      /\ a.kind \in {"review", "ci"} => y.status \in {"reviewing", "deploying", "circuit-open"}
      /\ x.status \in Status
  BY <1>1 DEF StatusAfter, KindFits, EarlyStatus, RecordOk, IsRecord, AttemptKind
<1>6. Repaired(repairs, f, y)
  <2>1. y.pull = NoPull \/ y.pull \in DOMAIN repairs
    BY <1>1 DEF RecordOk, Repaired
  <2>2. y.pull \in DOMAIN repairs =>
            repairs[y.pull].fault = f /\ repairs[y.pull].epoch = EpochOf(y)
    BY <1>1, <1>2 DEF RecordOk, Repaired
  <2>3. y.status \in {"reviewing", "deploying"} => y.pull \in DOMAIN repairs
    BY <1>1 DEF RecordOk, Repaired, StatusAfter, KindFits, AttemptKind
  <2>4. ASSUME Succeeded(y, "promotion")
        PROVE  /\ y.status \in {"verifying", "recovered", "circuit-open"}
               /\ y.pull \in DOMAIN repairs /\ repairs[y.pull].state = "merged"
    <3>1. CASE Succeeded(x, "promotion")
      <4>1. /\ x.status \in {"verifying", "recovered", "circuit-open"}
            /\ x.pull \in DOMAIN repairs /\ repairs[x.pull].state = "merged"
        BY <3>1 DEF RecordOk, Repaired
      <4>2. a.kind = "verification"
        BY <4>1 DEF KindFits, EarlyStatus, AttemptKind
      <4>3. QED
        BY <1>1, <4>1, <4>2 DEF StatusAfter
    <3>2. CASE a.kind = "promotion" /\ a.succeeded
      BY <1>1, <3>2 DEF StatusAfter, RecordOk, Repaired, KindFits
    <3>3. QED
      BY <1>1, <2>4, <3>1, <3>2
  <2>5. QED
    BY <2>1, <2>2, <2>3, <2>4 DEF Repaired
<1>7. Latest(repairs, f, y)
  <2> SUFFICES ASSUME NEW m \in DOMAIN repairs,
                      repairs[m].fault = f, repairs[m].state = "merged"
               PROVE  \/ repairs[m].epoch < EpochOf(y)
                      \/ /\ repairs[m].epoch = EpochOf(y) /\ y.pull = m
                         /\ y.status \notin EarlyStatus
    BY DEF Latest
  <2>1. \/ repairs[m].epoch < EpochOf(x)
        \/ /\ repairs[m].epoch = EpochOf(x) /\ x.pull = m
           /\ x.status \notin EarlyStatus
    BY DEF RecordOk, Latest
  <2>2. x.status \notin EarlyStatus =>
            a.kind \notin {"deterministic", "maintenance-worker"} /\ y.status \notin EarlyStatus
    BY <1>1 DEF KindFits, EarlyStatus, StatusAfter, AttemptKind
  <2>3. QED
    BY <1>1, <1>2, <2>1, <2>2
<1>8. QED
  BY <1>1, <1>3, <1>4, <1>6, <1>7 DEF RecordOk, y

-----------------------------------------------------------------------------
(* Repairs                                                                 *)

\* New repairs, and the same merged ones.
Kept(repairs, next) ==
    /\ DOMAIN repairs \subseteq DOMAIN next
    /\ \A n \in DOMAIN repairs :
           /\ next[n].fault = repairs[n].fault /\ next[n].epoch = repairs[n].epoch
           /\ (next[n].state = "merged" <=> repairs[n].state = "merged")
    /\ \A n \in DOMAIN next \ DOMAIN repairs : next[n].state # "merged"

\* Records stay sound while repairs are opened, pushed to and closed.
LEMMA KeptOk ==
    ASSUME NEW repairs, NEW next, NEW f, NEW x, Kept(repairs, next),
           NoPull \notin DOMAIN next, RecordOk(repairs, f, x)
    PROVE  RecordOk(next, f, x)
<1>1. Repaired(next, f, x)
  BY DEF RecordOk, Repaired, Kept
<1>2. Latest(next, f, x)
  BY DEF RecordOk, Latest, Kept
<1>3. QED
  BY <1>1, <1>2 DEF RecordOk

\* Records stay sound when the repair of a deploying one is merged.
LEMMA MergedOk ==
    ASSUME NEW repairs, NEW next, NEW n, NEW f, NEW x, RecordOk(repairs, f, x),
           DOMAIN next = DOMAIN repairs,
           \A m \in DOMAIN repairs :
               /\ next[m].fault = repairs[m].fault /\ next[m].epoch = repairs[m].epoch
               /\ (next[m].state = "merged" <=> repairs[m].state = "merged" \/ m = n),
           repairs[n].fault = f =>
               /\ x.pull = n /\ repairs[n].epoch = EpochOf(x) /\ x.status = "deploying"
    PROVE  RecordOk(next, f, x)
<1>1. Repaired(next, f, x)
  BY DEF RecordOk, Repaired
<1>2. Latest(next, f, x)
  BY DEF RecordOk, Latest, EarlyStatus
<1>3. QED
  BY <1>1, <1>2 DEF RecordOk

-----------------------------------------------------------------------------
(* Steps that leave the repairs and the records alone                      *)

\* A repair has a number.
LEMMA Numbered == RecoveryTypeOK => NoPull \notin DOMAIN pulls
<1>1. RecoveryTypeOK => DOMAIN pulls \subseteq Nat
  BY DEF RecoveryTypeOK
<1>2. QED
  BY <1>1, RecoveryAssumption

\* Repairs have their fields, and keep the others when one is changed.
LEMMA RepairFields ==
    ASSUME RecoveryTypeOK, NEW n \in DOMAIN pulls
    PROVE  /\ pulls[n].fault \in Fault /\ pulls[n].epoch \in Nat /\ pulls[n].head \in Nat
           /\ \A state \in {"open", "closed", "merged"} :
                  LET next == [pulls EXCEPT ![n].state = state]
                  IN  /\ next \in Seq(PullRequest) /\ DOMAIN next = DOMAIN pulls
                      /\ next[n].fault = pulls[n].fault /\ next[n].epoch = pulls[n].epoch
                      /\ next[n].state = state
                      /\ \A m \in DOMAIN pulls \ {n} : next[m] = pulls[m]
           /\ LET next == [pulls EXCEPT ![n].head = @ + 1]
              IN  /\ next \in Seq(PullRequest) /\ DOMAIN next = DOMAIN pulls
                  /\ next[n].fault = pulls[n].fault /\ next[n].epoch = pulls[n].epoch
                  /\ next[n].state = pulls[n].state
                  /\ \A m \in DOMAIN pulls \ {n} : next[m] = pulls[m]
<1>1. pulls \in Seq(PullRequest)
  BY DEF RecoveryTypeOK
<1>2. pulls[n] \in PullRequest
  BY <1>1
<1>3. /\ pulls[n].fault \in Fault /\ pulls[n].epoch \in Nat /\ pulls[n].head \in Nat
  BY <1>2 DEF PullRequest
<1>4. ASSUME NEW p \in PullRequest
      PROVE  LET next == [pulls EXCEPT ![n] = p]
             IN  /\ next \in Seq(PullRequest) /\ DOMAIN next = DOMAIN pulls /\ next[n] = p
                 /\ \A m \in DOMAIN pulls \ {n} : next[m] = pulls[m]
  BY <1>1
<1>5. ASSUME NEW state \in {"open", "closed", "merged"}
      PROVE  LET p == [pulls[n] EXCEPT !.state = state]
             IN  /\ p \in PullRequest /\ p.fault = pulls[n].fault
                 /\ p.epoch = pulls[n].epoch /\ p.state = state
  BY <1>2 DEF PullRequest
<1>6. LET p == [pulls[n] EXCEPT !.head = @ + 1]
      IN  /\ p \in PullRequest /\ p.fault = pulls[n].fault
          /\ p.epoch = pulls[n].epoch /\ p.state = pulls[n].state
  BY <1>2 DEF PullRequest
<1>7. QED
  BY <1>3, <1>4, <1>5, <1>6

\* The first fault of the queue.
LEMMA QueueHead ==
    ASSUME JobOk, job.queue # << >>
    PROVE  /\ Current \in Fault /\ appended[Current] = Nothing
           /\ 1 \in DOMAIN job.queue /\ Current = job.queue[1]
BY DEF JobOk, Current

\* Time, observers and resumed requests.
LEMMA QuietStep ==
    ASSUME CoreInv, UNCHANGED <<trusted, appended, pulls, job>>, clock' \in Nat
    PROVE  CoreInv'
<1>1. RecoveryTypeOK' /\ JobOk'
  BY DEF CoreInv, RecoveryTypeOK, JobOk
<1>2. WorkOk'
  BY DEF CoreInv, WorkOk, Current, Repair
<1>3. RecordsOk'
  BY DEF CoreInv, RecordsOk
<1>4. QED
  BY <1>1, <1>2, <1>3 DEF CoreInv

\* The same queue in another phase, with a record and a head.
LEMMA HandStep ==
    ASSUME CoreInv, UNCHANGED <<clock, trusted, appended, pulls>>, job.queue # << >>,
           NEW phase \in Working \union {"append", "resume"}, NEW x, NEW head,
           job' = [phase |-> phase, queue |-> job.queue, roots |-> job.roots, record |-> x,
                   head |-> head],
           phase \in Working =>
               /\ trusted[Current] # Nothing /\ Alike(x, trusted[Current]) /\ IsRecord(x)
               /\ PhaseFits(phase, x.status),
           phase = "append" => RecordOk(pulls, Current, x),
           phase = "merge" => Continuous(x, head, {"review", "ci"}),
           phase = "merged" => pulls[x.pull].state = "merged"
    PROVE  CoreInv'
<1>1. /\ job'.phase = phase /\ job'.queue = job.queue /\ job'.record = x /\ job'.head = head
      /\ job' = [phase |-> job'.phase, queue |-> job'.queue, roots |-> job'.roots,
                 record |-> job'.record, head |-> job'.head]
  OBVIOUS
<1>2. Current' = Current
  BY <1>1 DEF Current
<1>3. phase \notin {"idle", "next"}
  BY DEF Working
<1>4. JobOk'
  BY <1>1, <1>3 DEF CoreInv, JobOk
<1>5. WorkOk'
  BY <1>1, <1>2 DEF WorkOk, Repair
<1>6. RecoveryTypeOK' /\ RecordsOk'
  BY DEF CoreInv, RecoveryTypeOK, RecordsOk
<1>7. QED
  BY <1>4, <1>5, <1>6 DEF CoreInv

\* A record to append.
LEMMA AppendStep ==
    ASSUME CoreInv, UNCHANGED <<clock, trusted, appended, pulls>>, job.queue # << >>,
           NEW x, ToAppend(x), RecordOk(pulls, Current, x)
    PROVE  CoreInv'
<1>1. job' = [phase |-> "append", queue |-> job.queue, roots |-> job.roots, record |-> x,
              head |-> job.head]
  BY DEF ToAppend, CoreInv, JobOk
<1>2. "append" \notin Working
  BY DEF Working
<1>3. QED
  BY <1>1, <1>2, HandStep

\* The fault is left alone until the next run.
LEMMA DoneStep ==
    ASSUME CoreInv, UNCHANGED <<clock, trusted, pulls>>, job.queue # << >>, job' = Done(job),
           \A f \in Fault : f # Current => appended'[f] = appended[f],
           RecoveryTypeOK',
           \A f \in Fault : appended'[f] # Nothing => RecordOk(pulls, f, appended'[f])
    PROVE  CoreInv'
<1>1. job' = [phase |-> "next", queue |-> Tail(job.queue), roots |-> job.roots,
              record |-> Nothing, head |-> 0]
  BY DEF CoreInv, JobOk, Done
<1>2. /\ job.queue \in Seq(Fault) /\ Tail(job.queue) \in Seq(Fault)
      /\ \A i \in DOMAIN Tail(job.queue) :
            i + 1 \in DOMAIN job.queue /\ Tail(job.queue)[i] = job.queue[i + 1] /\ i + 1 # 1
      /\ \A i, j \in DOMAIN Tail(job.queue) : i + 1 = j + 1 => i = j
      /\ Current = job.queue[1] /\ 1 \in DOMAIN job.queue
  BY DEF CoreInv, JobOk, Current
<1>3. JobOk'
  <2>1. \A i, j \in DOMAIN Tail(job.queue) : Tail(job.queue)[i] = Tail(job.queue)[j] => i = j
    BY <1>2 DEF CoreInv, JobOk
  <2>2. ASSUME NEW i \in DOMAIN Tail(job.queue) PROVE appended'[Tail(job.queue)[i]] = Nothing
    <3>1. Tail(job.queue)[i] # Current /\ appended[Tail(job.queue)[i]] = Nothing
      BY <1>2 DEF CoreInv, JobOk
    <3>2. Tail(job.queue)[i] \in Fault
      BY <1>2
    <3>3. QED
      BY <3>1, <3>2
  <2>3. QED
    BY <1>1, <1>2, <2>1, <2>2 DEF JobOk
<1>4. WorkOk'
  BY <1>1 DEF WorkOk, Working
<1>5. RecordsOk'
  BY DEF CoreInv, RecordsOk
<1>6. QED
  BY <1>3, <1>4, <1>5 DEF CoreInv

-----------------------------------------------------------------------------
(* The steps of a run                                                      *)

\* What a run works on is sound.
LEMMA InHand ==
    ASSUME CoreInv, job.phase \in Working
    PROVE  /\ job.queue # << >> /\ Current \in Fault /\ trusted[Current] # Nothing
           /\ RecordOk(pulls, Current, job.record)
           /\ PhaseFits(job.phase, job.record.status)
<1>1. job.queue # << >>
  BY DEF CoreInv, JobOk, Working
<1>2. Current \in Fault
  BY <1>1, QueueHead DEF CoreInv
<1>3. /\ trusted[Current] # Nothing /\ Alike(job.record, trusted[Current])
      /\ IsRecord(job.record) /\ PhaseFits(job.phase, job.record.status)
  BY DEF CoreInv, WorkOk
<1>4. RecordOk(pulls, Current, trusted[Current])
  BY <1>2, <1>3 DEF CoreInv, RecordsOk
<1>5. QED
  BY <1>1, <1>2, <1>3, <1>4, AlikeOk

\* An effect that was tried.
LEMMA AttemptStep ==
    ASSUME CoreInv, UNCHANGED <<clock, trusted, appended, pulls>>, job.phase \in Working,
           NEW kind \in AttemptKind, NEW target, NEW succeeded \in BOOLEAN, NEW head, NEW pull,
           Attempted(kind, target, succeeded, head, pull), KindFits(kind, job.record.status),
           kind = "maintenance-worker" /\ succeeded =>
               /\ pull \in DOMAIN pulls
               /\ pulls[pull].fault = Current /\ pulls[pull].epoch = EpochOf(job.record),
           kind = "promotion" /\ succeeded => pulls[job.record.pull].state = "merged"
    PROVE  CoreInv'
<1>1. PICK at : ToAppend(recordFaultAttempt(job.record,
                                            Attempt(kind, target, succeeded, head, at), pull))
  BY DEF Attempted
<1> DEFINE a == Attempt(kind, target, succeeded, head, at)
<1>2. a.kind = kind /\ a.succeeded = succeeded
  BY DEF Attempt
<1>3. /\ job.queue # << >> /\ RecordOk(pulls, Current, job.record)
  BY InHand
<1> HIDE DEF a
<1>4. RecordOk(pulls, Current, recordFaultAttempt(job.record, a, pull))
  BY <1>2, <1>3, AttemptOk
<1>5. QED
  BY <1>1, <1>3, <1>4, AppendStep DEF a

\* What processFault leads to.
LEMMA ProcessOutcome ==
    ASSUME CoreInv, ProcessFault
    PROVE  \/ job' = Done(job)
           \/ \E version :
                 /\ trusted[Current] = Nothing
                 /\ ToAppend(createFaultRecord(job.roots[Current].roots, version, clock))
           \/ /\ trusted[Current] # Nothing
              /\ LET x == attachRootRequests(trusted[Current], job.roots[Current].roots)
                 IN  \/ \E version : /\ CanBeginEpoch(x, version, clock)
                                     /\ ToAppend(beginFaultEpoch(x, version, clock))
                     \/ ToAppend(openFaultCircuit(x))
                     \/ \E phase \in Working \union {"resume"} :
                           /\ phase \notin {"merge", "merged"}
                           /\ phase \in Working => PhaseFits(phase, x.status)
                           /\ job' = [job EXCEPT !.phase = phase, !.record = x]
<1> DEFINE x == attachRootRequests(trusted[Current], job.roots[Current].roots)
           step == FaultStep(x)
<1>1. CASE trusted[Current] = Nothing
  BY <1>1 DEF ProcessFault
<1>2. CASE trusted[Current] # Nothing
  <2>1. Current \in Fault
    BY QueueHead DEF ProcessFault, CoreInv
  <2>2. IsRecord(trusted[Current])
    BY <1>2, <2>1 DEF CoreInv, RecordsOk, RecordOk
  <2>3. x.status \in Status
    BY <2>2, Attached DEF IsRecord
  <2>4. /\ step \in {"resume", "circuit", "ci", "review", "promotion", "verification",
                     "deterministic", "maintenance-worker", "wait", "open-circuit"}
        /\ step \in Working => PhaseFits(step, x.status)
    BY <2>3 DEF FaultStep, nextFaultAction, Status, TerminalStatus, PhaseFits, EarlyStatus, Working
  <2>5. \/ job' = Done(job)
        \/ \E version : /\ MayBegin(x, version)
                        /\ ToAppend(beginFaultEpoch(x, version, clock))
        \/ ToAppend(openFaultCircuit(x))
        \/ /\ step \notin {"open-circuit", "wait", "circuit"}
           /\ job' = [job EXCEPT !.phase = step, !.record = x]
    BY <1>2 DEF ProcessFault
  <2> HIDE DEF step, x
  <2>6. CASE /\ step \notin {"open-circuit", "wait", "circuit"}
             /\ job' = [job EXCEPT !.phase = step, !.record = x]
    <3>1. step \in (Working \union {"resume"}) \ {"merge", "merged"}
      BY <2>4, <2>6 DEF Working
    <3>2. QED
      BY <1>2, <2>4, <2>6, <3>1 DEF x
  <2>7. QED
    BY <1>2, <2>5, <2>6 DEF MayBegin, x
<1>3. QED
  BY <1>1, <1>2

\* processFault.
LEMMA ProcessStep ==
    ASSUME CoreInv, ProcessFault
    PROVE  CoreInv'
<1> DEFINE x == attachRootRequests(trusted[Current], job.roots[Current].roots)
<1>1. /\ UNCHANGED <<clock, trusted, appended, pulls>> /\ job.queue # << >>
      /\ clock \in Nat /\ RecoveryTypeOK /\ Current \in Fault
  BY QueueHead DEF ProcessFault, env, CoreInv, RecoveryTypeOK
<1>2. CASE job' = Done(job)
  <2>1. /\ RecoveryTypeOK'
        /\ \A f \in Fault : appended'[f] # Nothing => RecordOk(pulls, f, appended'[f])
    BY <1>1 DEF CoreInv, RecordsOk, RecoveryTypeOK
  <2>2. QED
    BY <1>1, <1>2, <2>1, DoneStep
<1>3. ASSUME NEW version, trusted[Current] = Nothing,
             ToAppend(createFaultRecord(job.roots[Current].roots, version, clock))
      PROVE  CoreInv'
  <2>1. \A m \in DOMAIN pulls : pulls[m].fault = Current => pulls[m].state # "merged"
    BY <1>3 DEF CoreInv, RecordsOk
  <2>2. RecordOk(pulls, Current, createFaultRecord(job.roots[Current].roots, version, clock))
    BY <1>1, <2>1, Numbered, CreatedOk
  <2>3. QED
    BY <1>1, <1>3, <2>2, AppendStep
<1>4. ASSUME trusted[Current] # Nothing
      PROVE  /\ RecordOk(pulls, Current, x) /\ IsRecord(x) /\ Alike(x, trusted[Current])
  <2>1. RecordOk(pulls, Current, trusted[Current])
    BY <1>1, <1>4 DEF CoreInv, RecordsOk
  <2>2. IsRecord(x) /\ Alike(x, trusted[Current])
    BY <2>1, Attached DEF RecordOk
  <2>3. QED
    BY <2>1, <2>2, AlikeOk
<1>5. ASSUME trusted[Current] # Nothing, NEW version, CanBeginEpoch(x, version, clock),
             ToAppend(beginFaultEpoch(x, version, clock))
      PROVE  CoreInv'
  <2> HIDE DEF x
  <2>1. \A m \in DOMAIN pulls : pulls[m].epoch \in Nat
    BY <1>1, RepairFields
  <2>2. RecordOk(pulls, Current, beginFaultEpoch(x, version, clock))
    BY <1>1, <1>4, <1>5, <2>1, Numbered, BegunOk
  <2>3. QED
    BY <1>1, <1>5, <2>2, AppendStep
<1>6. ASSUME trusted[Current] # Nothing, ToAppend(openFaultCircuit(x)) PROVE CoreInv'
  <2> HIDE DEF x
  <2>1. RecordOk(pulls, Current, openFaultCircuit(x))
    BY <1>4, <1>6, CircuitOk
  <2>2. QED
    BY <1>1, <1>6, <2>1, AppendStep
<1>7. ASSUME trusted[Current] # Nothing, NEW phase \in Working \union {"resume"},
             phase \in Working => PhaseFits(phase, x.status),
             job' = [job EXCEPT !.phase = phase, !.record = x],
             phase \notin {"merge", "merged"}
      PROVE  CoreInv'
  <2> HIDE DEF x
  <2>1. job' = [phase |-> phase, queue |-> job.queue, roots |-> job.roots, record |-> x,
                head |-> job.head]
    BY <1>7 DEF CoreInv, JobOk
  <2>2. QED
    BY <1>1, <1>4, <1>7, <2>1, HandStep DEF Working
<1>8. QED
  BY <1>2, <1>3, <1>5, <1>6, <1>7, ProcessOutcome

\* The effects whose outcome is recorded at once.
LEMMA EffectStep ==
    ASSUME CoreInv,
           \/ Deterministic \/ AdoptRepair \/ WorkerEnds \/ Review
           \/ AssessPromotion \/ ConfirmMerge \/ VerifyRuntime
    PROVE  CoreInv'
<1>1. UNCHANGED <<clock, trusted, appended, pulls>> /\ job.phase \in Working
  BY DEF Deterministic, AdoptRepair, WorkerEnds, Review, AssessPromotion, ConfirmMerge,
         VerifyRuntime, host, env, Working
<1>2. /\ job.queue # << >> /\ Current \in Fault /\ trusted[Current] # Nothing
      /\ RecordOk(pulls, Current, job.record)
      /\ PhaseFits(job.phase, job.record.status)
  BY <1>1, InHand
<1>3. \A n \in OpenRepairs(Current, EpochOf(job.record)) :
          /\ n \in DOMAIN pulls
          /\ pulls[n].fault = Current /\ pulls[n].epoch = EpochOf(job.record)
  BY DEF OpenRepairs
<1>4. CASE Deterministic
  <2>1. PICK succeeded \in BOOLEAN : Attempted("deterministic", 0, succeeded, 0, NoPull)
    BY <1>4 DEF Deterministic
  <2>2. KindFits("deterministic", job.record.status)
    BY <1>2, <1>4 DEF Deterministic, KindFits, PhaseFits
  <2>3. QED
    BY <1>1, <2>1, <2>2, AttemptStep DEF AttemptKind
<1>5. CASE AdoptRepair \/ WorkerEnds
  <2>1. KindFits("maintenance-worker", job.record.status)
    BY <1>2, <1>5 DEF AdoptRepair, WorkerEnds, KindFits, PhaseFits
  <2>2. \/ \E worker : Attempted("maintenance-worker", worker, FALSE, 0, NoPull)
        \/ \E worker, n : \E succeeded \in BOOLEAN :
               /\ n \in OpenRepairs(Current, EpochOf(job.record))
               /\ Attempted("maintenance-worker", worker, succeeded, 0, n)
    <3>1. CASE AdoptRepair
      <4>1. \/ \E worker : Attempted("maintenance-worker", worker, FALSE, 0, NoPull)
            \/ \E worker : \E n \in OpenRepairs(Current, EpochOf(job.record)) :
                   Attempted("maintenance-worker", worker,
                             Cardinality(OpenRepairs(Current, EpochOf(job.record))) = 1, 0, n)
        BY <3>1 DEF AdoptRepair
      <4>2. (Cardinality(OpenRepairs(Current, EpochOf(job.record))) = 1) \in BOOLEAN
        OBVIOUS
      <4>3. QED
        BY <4>1, <4>2
    <3>2. CASE WorkerEnds
      BY <3>2 DEF WorkerEnds
    <3>3. QED
      BY <1>5, <3>1, <3>2
  <2>3. QED
    BY <1>1, <1>3, <2>1, <2>2, AttemptStep DEF AttemptKind
<1>6. CASE Review
  <2>1. PICK succeeded \in BOOLEAN : \E head : Attempted("review", 0, succeeded, head, NoPull)
    BY <1>6 DEF Review
  <2>2. KindFits("review", job.record.status)
    BY <1>2, <1>6 DEF Review, KindFits, PhaseFits
  <2>3. QED
    BY <1>1, <2>1, <2>2, AttemptStep DEF AttemptKind
<1>7. CASE AssessPromotion
  <2>1. job.phase = "promotion" /\ KindFits("promotion", job.record.status)
    BY <1>2, <1>7 DEF AssessPromotion, KindFits, PhaseFits
  <2>2. CASE Attempted("promotion", 0, FALSE, 0, NoPull)
    BY <1>1, <2>1, <2>2, AttemptStep DEF AttemptKind
  <2>3. ASSUME Continuous(job.record, Repair.head, {"review", "ci"}),
               job' = [job EXCEPT !.phase = "merge", !.head = Repair.head]
        PROVE  CoreInv'
    <3>1. job' = [phase |-> "merge", queue |-> job.queue, roots |-> job.roots,
                  record |-> job.record, head |-> Repair.head]
      BY <2>3 DEF CoreInv, JobOk
    <3>2. PhaseFits("merge", job.record.status)
      BY <1>2, <2>1 DEF PhaseFits
    <3>3. Alike(job.record, trusted[Current]) /\ IsRecord(job.record)
      BY <1>1 DEF CoreInv, WorkOk
    <3>4. QED
      BY <1>1, <1>2, <2>3, <3>1, <3>2, <3>3, HandStep DEF Working
  <2>4. QED
    BY <1>7, <2>2, <2>3 DEF AssessPromotion
<1>8. CASE ConfirmMerge
  <2>1. PICK read \in BOOLEAN : \E head : Attempted("promotion", 0, read, head, NoPull)
    BY <1>8 DEF ConfirmMerge
  <2>2. /\ KindFits("promotion", job.record.status)
        /\ pulls[job.record.pull].state = "merged"
    BY <1>2, <1>8 DEF ConfirmMerge, KindFits, PhaseFits, CoreInv, WorkOk, Repair
  <2>3. QED
    BY <1>1, <2>1, <2>2, AttemptStep DEF AttemptKind
<1>9. CASE VerifyRuntime
  <2>1. KindFits("verification", job.record.status)
    BY <1>2, <1>9 DEF VerifyRuntime, KindFits, PhaseFits
  <2>2. CASE Attempted("verification", 0, TRUE, 0, NoPull)
    BY <1>1, <2>1, <2>2, AttemptStep DEF AttemptKind
  <2>3. CASE ToAppend(openFaultCircuit(job.record))
    <3>1. RecordOk(pulls, Current, openFaultCircuit(job.record))
      BY <1>2, CircuitOk
    <3>2. QED
      BY <1>1, <1>2, <2>3, <3>1, AppendStep
  <2>4. QED
    BY <1>9, <2>2, <2>3 DEF VerifyRuntime
<1>10. QED
  BY <1>4, <1>5, <1>6, <1>7, <1>8, <1>9

\* The CI decision, or none yet.
LEMMA CiStep ==
    ASSUME CoreInv, CheckCi
    PROVE  CoreInv'
<1>1. UNCHANGED <<clock, trusted, appended, pulls>> /\ job.phase = "ci" /\ job.phase \in Working
  BY DEF CheckCi, host, env, Working
<1>2. /\ job.queue # << >> /\ KindFits("ci", job.record.status)
  BY <1>1, InHand DEF PhaseFits, KindFits
<1>3. CASE job' = Done(job)
  <2>1. /\ RecoveryTypeOK'
        /\ \A f \in Fault : appended'[f] # Nothing => RecordOk(pulls, f, appended'[f])
    BY <1>1 DEF CoreInv, RecordsOk, RecoveryTypeOK
  <2>2. QED
    BY <1>1, <1>2, <1>3, <2>1, DoneStep
<1>4. ASSUME NEW succeeded \in BOOLEAN, NEW head, Attempted("ci", 0, succeeded, head, NoPull)
      PROVE  CoreInv'
  BY <1>1, <1>2, <1>4, AttemptStep DEF AttemptKind
<1>5. job' = Done(job)
      \/ \E succeeded \in BOOLEAN : \E head : Attempted("ci", 0, succeeded, head, NoPull)
  BY DEF CheckCi
<1>6. QED
  BY <1>3, <1>4, <1>5

\* The start of a Worker changes the phase only.
LEMMA StartStep ==
    ASSUME CoreInv, StartWorker
    PROVE  CoreInv'
<1>1. /\ UNCHANGED <<clock, trusted, appended, pulls>> /\ job.phase \in Working
      /\ job.phase = "maintenance-worker"
  BY DEF StartWorker, env, Working
<1>2. /\ job.queue # << >> /\ PhaseFits("working", job.record.status)
      /\ trusted[Current] # Nothing
      /\ Alike(job.record, trusted[Current]) /\ IsRecord(job.record)
  BY <1>1, InHand DEF PhaseFits, CoreInv, WorkOk
<1>3. job' = [phase |-> "working", queue |-> job.queue, roots |-> job.roots,
              record |-> job.record, head |-> job.head]
  BY DEF StartWorker, CoreInv, JobOk
<1>4. QED
  BY <1>1, <1>2, <1>3, HandStep DEF Working

\* An original request is resumed, or its Issue closed.
LEMMA ResumeStep ==
    ASSUME CoreInv, ResumeOriginal
    PROVE  CoreInv'
<1>1. /\ UNCHANGED <<clock, trusted, appended, pulls>> /\ job.phase = "resume"
      /\ "resume" \notin Working
  BY DEF ResumeOriginal, host, env, Working
<1>2. job.queue # << >>
  BY <1>1 DEF CoreInv, JobOk
<1>3. CASE job' = Done(job)
  <2>1. /\ RecoveryTypeOK'
        /\ \A f \in Fault : appended'[f] # Nothing => RecordOk(pulls, f, appended'[f])
    BY <1>1 DEF CoreInv, RecordsOk, RecoveryTypeOK
  <2>2. QED
    BY <1>1, <1>2, <1>3, <2>1, DoneStep
<1>4. ASSUME NEW q, job' = [job EXCEPT !.record.roots = @ \ {q}]
      PROVE  CoreInv'
  <2>1. PICK x : job' = [job EXCEPT !.record = x]
    BY <1>4
  <2>2. job' = [phase |-> "resume", queue |-> job.queue, roots |-> job.roots,
                record |-> x, head |-> job.head]
    BY <1>1, <2>1 DEF CoreInv, JobOk
  <2>3. QED
    BY <1>1, <1>2, <2>2, HandStep
<1>5. QED
  BY <1>3, <1>4 DEF ResumeOriginal

\* The merge of the repair that was decided.
LEMMA MergeStep ==
    ASSUME CoreInv, Merge
    PROVE  CoreInv'
<1>1. UNCHANGED <<clock, trusted, appended>> /\ job.phase = "merge" /\ job.phase \in Working
  BY DEF Merge, env, Working
<1>2. /\ job.queue # << >> /\ Current \in Fault /\ trusted[Current] # Nothing
      /\ RecordOk(pulls, Current, job.record) /\ job.record.status = "deploying"
      /\ appended[Current] = Nothing
      /\ Alike(job.record, trusted[Current]) /\ IsRecord(job.record)
  BY <1>1, InHand, QueueHead DEF PhaseFits, CoreInv, WorkOk
<1>3. CASE UNCHANGED pulls /\ Attempted("promotion", 0, FALSE, 0, NoPull)
  BY <1>1, <1>2, <1>3, AttemptStep DEF AttemptKind, KindFits
<1>4. ASSUME Mergeable, pulls' = [pulls EXCEPT ![job.record.pull].state = "merged"],
             job' = [job EXCEPT !.phase = "merged"]
      PROVE  CoreInv'
  <2> DEFINE n == job.record.pull
  <2>1. /\ n \in DOMAIN pulls /\ pulls[n].fault = Current
        /\ pulls[n].epoch = EpochOf(job.record)
    BY <1>2 DEF RecordOk, Repaired
  <2>2. /\ DOMAIN pulls' = DOMAIN pulls
        /\ \A m \in DOMAIN pulls :
               /\ pulls'[m].fault = pulls[m].fault /\ pulls'[m].epoch = pulls[m].epoch
               /\ (pulls'[m].state = "merged" <=> pulls[m].state = "merged" \/ m = n)
    BY <1>4, <2>1, RepairFields DEF CoreInv
  <2>3. RecoveryTypeOK'
    <3>1. pulls' \in Seq(PullRequest)
      BY <1>4, <2>1, RepairFields DEF CoreInv
    <3>2. QED
      BY <1>1, <3>1 DEF CoreInv, RecoveryTypeOK
  <2>4. /\ job'.phase = "merged" /\ job'.queue = job.queue /\ job'.record = job.record
        /\ job' = [phase |-> job'.phase, queue |-> job'.queue, roots |-> job'.roots,
                   record |-> job'.record, head |-> job'.head]
    BY <1>4 DEF CoreInv, JobOk
  <2>5. JobOk'
    BY <1>1, <1>2, <2>4 DEF CoreInv, JobOk, Working
  <2>6. ASSUME NEW f, NEW x, RecordOk(pulls, f, x),
               f = Current => Alike(x, job.record)
        PROVE  RecordOk(pulls', f, x)
    <3>1. f = Current =>
              x.pull = n /\ pulls[n].epoch = EpochOf(x) /\ x.status = "deploying"
      BY <1>2, <2>1, <2>6 DEF Alike, EpochOf
    <3> HIDE DEF n
    <3>2. QED
      BY <2>1, <2>2, <2>6, <3>1, MergedOk
  <2>7. RecordsOk'
    <3>1. ASSUME NEW f \in Fault, trusted[f] # Nothing PROVE RecordOk(pulls', f, trusted[f])
      BY <1>2, <2>6, <3>1 DEF CoreInv, RecordsOk, Alike
    <3>2. ASSUME NEW f \in Fault, appended[f] # Nothing PROVE RecordOk(pulls', f, appended[f])
      BY <1>2, <2>6, <3>2 DEF CoreInv, RecordsOk
    <3>3. ASSUME NEW m \in DOMAIN pulls', pulls'[m].state = "merged"
          PROVE  trusted[pulls'[m].fault] # Nothing
      BY <1>2, <2>1, <2>2, <3>3 DEF CoreInv, RecordsOk
    <3>4. QED
      BY <1>1, <3>1, <3>2, <3>3 DEF RecordsOk
  <2>8. WorkOk'
    <3>1. Current' = Current /\ trusted' = trusted
      BY <1>1, <2>4 DEF Current
    <3>2. Repair'.state = "merged"
      BY <2>1, <2>2, <2>4 DEF Repair
    <3>3. PhaseFits("merged", job.record.status) /\ "merged" \notin {"append", "merge"}
      BY <1>2 DEF PhaseFits
    <3>4. QED
      BY <1>2, <2>4, <3>1, <3>2, <3>3 DEF WorkOk
  <2>9. QED
    BY <2>3, <2>5, <2>7, <2>8 DEF CoreInv
<1>5. QED
  BY <1>3, <1>4 DEF Merge

\* The run puts its record where it counts once the run has succeeded.
LEMMA AppendRecordStep ==
    ASSUME CoreInv, AppendRecord
    PROVE  CoreInv'
<1>1. /\ UNCHANGED <<clock, trusted, pulls>> /\ job.phase = "append" /\ job' = Done(job)
      /\ appended' = [appended EXCEPT ![Current] = job.record]
  BY DEF AppendRecord, env, host
<1>2. job.queue # << >>
  BY <1>1 DEF CoreInv, JobOk
<1>3. Current \in Fault /\ RecordOk(pulls, Current, job.record)
  BY <1>1, <1>2, QueueHead DEF CoreInv, WorkOk
<1>4. appended = [f \in Fault |-> appended[f]]
  BY DEF CoreInv, RecoveryTypeOK
<1>5. /\ appended' = [f \in Fault |-> appended'[f]]
      /\ \A f \in Fault : appended'[f] = IF f = Current THEN job.record ELSE appended[f]
  BY <1>1, <1>3, <1>4
<1>6. RecoveryTypeOK'
  BY <1>1, <1>5 DEF CoreInv, RecoveryTypeOK
<1>7. \A f \in Fault : appended'[f] # Nothing => RecordOk(pulls, f, appended'[f])
  BY <1>3, <1>5 DEF CoreInv, RecordsOk
<1>8. QED
  BY <1>1, <1>2, <1>5, <1>6, <1>7, DoneStep

\* A run starts on the listed faults, each once.
LEMMA StartRunStep ==
    ASSUME CoreInv, StartRun
    PROVE  CoreInv'
<1>1. UNCHANGED <<clock, trusted, appended, pulls>> /\ job.phase = "idle"
  BY DEF StartRun, env, host
<1>2. PICK queue \in SetToSeqs(Listed) : \E roots :
          job' = [Idle EXCEPT !.phase = "next", !.queue = queue, !.roots = roots]
  BY DEF StartRun
<1>3. PICK roots : job' = [phase |-> "next", queue |-> queue, roots |-> roots,
                           record |-> Nothing, head |-> 0]
  BY <1>2 DEF Idle
<1>4. /\ queue \in Seq(Fault)
      /\ \A i, j \in DOMAIN queue : queue[i] = queue[j] => i = j
  <2>1. IsFiniteSet(Listed) /\ Listed \subseteq Fault
    <3>1. Listed \subseteq Fault
      BY DEF Listed
    <3>2. QED
      BY <3>1, FS_Subset, RecoveryAssumption
  <2>2. Cardinality(Listed) \in Nat
    BY <2>1, FS_CardinalityType
  <2> DEFINE D == 1 .. Cardinality(Listed)
  <2>3. queue \in [D -> Listed] /\ \A i, j \in D : i # j => queue[i] # queue[j]
    BY <1>2 DEF SetToSeqs
  <2>4. QED
    BY <2>1, <2>2, <2>3
<1>5. /\ job'.phase = "next" /\ job'.queue = queue
      /\ job' = [phase |-> job'.phase, queue |-> job'.queue, roots |-> job'.roots,
                 record |-> job'.record, head |-> job'.head]
  BY <1>3
<1>6. \A f \in Fault : appended[f] = Nothing
  BY <1>1 DEF CoreInv, JobOk
<1>7. \A i \in DOMAIN queue : queue[i] \in Fault
  BY <1>4
<1>8. JobOk'
  BY <1>1, <1>4, <1>5, <1>6, <1>7 DEF JobOk
<1>9. WorkOk'
  BY <1>5 DEF WorkOk, Working
<1>10. RecoveryTypeOK' /\ RecordsOk'
  BY <1>1 DEF CoreInv, RecoveryTypeOK, RecordsOk
<1>11. QED
  BY <1>8, <1>9, <1>10 DEF CoreInv

\* The run is over: what it appended is trusted, or lost with it.
LEMMA OverStep ==
    ASSUME CoreInv, EndRun \/ FailRun
    PROVE  CoreInv'
<1>1. /\ UNCHANGED <<clock, pulls>> /\ job' = Idle
      /\ appended' = [f \in Fault |-> Nothing]
      /\ \/ trusted' = trusted
         \/ trusted' = [f \in Fault |-> IF appended[f] = Nothing THEN trusted[f] ELSE appended[f]]
  BY DEF EndRun, FailRun, env, host
<1>2. /\ trusted' = [f \in Fault |-> trusted'[f]]
      /\ \A f \in Fault : trusted'[f] = trusted[f]
                          \/ (trusted'[f] = appended[f] /\ appended[f] # Nothing)
  BY <1>1 DEF CoreInv, RecoveryTypeOK
<1>3. /\ appended' = [f \in Fault |-> appended'[f]] /\ \A f \in Fault : appended'[f] = Nothing
  BY <1>1
<1>4. RecoveryTypeOK'
  BY <1>1, <1>2, <1>3 DEF CoreInv, RecoveryTypeOK
<1>5. /\ job'.phase = "idle" /\ job'.queue = << >>
      /\ job' = [phase |-> job'.phase, queue |-> job'.queue, roots |-> job'.roots,
                 record |-> job'.record, head |-> job'.head]
  BY <1>1 DEF Idle
<1>6. JobOk'
  BY <1>3, <1>5 DEF JobOk
<1>7. WorkOk'
  BY <1>5 DEF WorkOk, Working
<1>8. RecordsOk'
  <2>1. \A f \in Fault : trusted'[f] # Nothing => RecordOk(pulls, f, trusted'[f])
    BY <1>2 DEF CoreInv, RecordsOk
  <2>2. \A f \in Fault : trusted[f] # Nothing => trusted'[f] # Nothing
    BY <1>2
  <2>3. \A m \in DOMAIN pulls : pulls[m].state = "merged" => trusted'[pulls[m].fault] # Nothing
    BY <2>2, RepairFields DEF CoreInv, RecordsOk
  <2>4. QED
    BY <1>1, <1>3, <2>1, <2>3 DEF RecordsOk
<1>9. QED
  BY <1>4, <1>6, <1>7, <1>8 DEF CoreInv

-----------------------------------------------------------------------------
(* Steps of the repairs                                                    *)

\* Repairs are opened, pushed to and closed.
LEMMA KeptStep ==
    ASSUME CoreInv, UNCHANGED <<clock, trusted, appended, job>>,
           pulls' \in Seq(PullRequest), Kept(pulls, pulls')
    PROVE  CoreInv'
<1>1. RecoveryTypeOK' /\ JobOk'
  BY DEF CoreInv, RecoveryTypeOK, JobOk
<1>2. NoPull \notin DOMAIN pulls'
  <2>1. DOMAIN pulls' \subseteq Nat
    OBVIOUS
  <2>2. QED
    BY <2>1, RecoveryAssumption
<1>3. \A f, x : RecordOk(pulls, f, x) => RecordOk(pulls', f, x)
  BY <1>2, KeptOk
<1>4. WorkOk'
  <2>1. Current' = Current
    BY DEF Current
  <2>2. job.phase = "append" => RecordOk(pulls', Current, job.record)
    BY <1>3 DEF CoreInv, WorkOk
  <2>3. ASSUME job.phase = "merged" PROVE pulls'[job.record.pull].state = "merged"
    <3>1. job.phase \in Working
      BY <2>3 DEF Working
    <3>2. RecordOk(pulls, Current, job.record) /\ job.record.status = "deploying"
      BY <2>3, <3>1, InHand DEF PhaseFits
    <3>3. job.record.pull \in DOMAIN pulls /\ pulls[job.record.pull].state = "merged"
      BY <2>3, <3>2 DEF RecordOk, Repaired, CoreInv, WorkOk, Repair
    <3>4. QED
      BY <3>3 DEF Kept
  <2>4. QED
    BY <2>1, <2>2, <2>3 DEF CoreInv, WorkOk, Repair
<1>5. RecordsOk'
  <2>1. ASSUME NEW m \in DOMAIN pulls', pulls'[m].state = "merged"
        PROVE  trusted[pulls'[m].fault] # Nothing
    BY <2>1 DEF Kept, CoreInv, RecordsOk
  <2>2. QED
    BY <1>3, <2>1 DEF CoreInv, RecordsOk
<1>6. QED
  BY <1>1, <1>4, <1>5 DEF CoreInv

LEMMA RepairsStep ==
    ASSUME CoreInv, PublishRepair \/ \E n \in 1 .. MaxPulls : Push(n) \/ ClosePull(n)
    PROVE  CoreInv'
<1>1. UNCHANGED <<clock, trusted, appended, job>> /\ RecoveryTypeOK
  BY DEF PublishRepair, Push, ClosePull, env, CoreInv
<1>2. CASE PublishRepair
  <2> DEFINE p == [fault |-> Current, epoch |-> EpochOf(job.record), state |-> "open", head |-> 1]
  <2>1. job.phase \in Working /\ pulls' = Append(pulls, p)
    BY <1>2 DEF PublishRepair, Working
  <2>2. Current \in Fault /\ job.record.openings \in Seq(Nat)
    BY <2>1, InHand DEF RecordOk, IsRecord
  <2>3. p \in PullRequest /\ p.state # "merged"
    BY <2>2 DEF PullRequest, EpochOf
  <2> HIDE DEF p
  <2>4. /\ pulls \in Seq(PullRequest) /\ pulls' \in Seq(PullRequest)
        /\ DOMAIN pulls' = DOMAIN pulls \union {Len(pulls) + 1}
        /\ \A n \in DOMAIN pulls : pulls'[n] = pulls[n]
        /\ pulls'[Len(pulls) + 1] = p
    BY <1>1, <2>1, <2>3 DEF RecoveryTypeOK
  <2>5. Kept(pulls, pulls')
    BY <2>3, <2>4 DEF Kept
  <2>6. QED
    BY <1>1, <2>4, <2>5, KeptStep
<1>3. ASSUME NEW n \in DOMAIN pulls, pulls[n].state = "open",
             \/ pulls' = [pulls EXCEPT ![n].head = @ + 1]
             \/ pulls' = [pulls EXCEPT ![n].state = "closed"]
      PROVE  CoreInv'
  <2>1. /\ pulls' \in Seq(PullRequest) /\ DOMAIN pulls' = DOMAIN pulls
        /\ pulls'[n].fault = pulls[n].fault /\ pulls'[n].epoch = pulls[n].epoch
        /\ pulls'[n].state # "merged"
        /\ \A m \in DOMAIN pulls \ {n} : pulls'[m] = pulls[m]
    <3>1. CASE pulls' = [pulls EXCEPT ![n].head = @ + 1]
      <4>1. pulls'[n].state = pulls[n].state
        BY <1>1, <3>1, RepairFields
      <4>2. QED
        BY <1>1, <1>3, <3>1, <4>1, RepairFields
    <3>2. CASE pulls' = [pulls EXCEPT ![n].state = "closed"]
      BY <1>1, <3>2, RepairFields
    <3>3. QED
      BY <1>3, <3>1, <3>2
  <2>2. Kept(pulls, pulls')
    BY <1>3, <2>1 DEF Kept
  <2>3. QED
    BY <1>1, <2>1, <2>2, KeptStep
<1>4. QED
  BY <1>2, <1>3 DEF Push, ClosePull

-----------------------------------------------------------------------------
(* The theorems                                                            *)

\* At the start there is nothing.
LEMMA RecoveryStart == RecoveryInit => RecoveryInv
<1> SUFFICES ASSUME RecoveryInit PROVE RecoveryInv
  OBVIOUS
<1>1. /\ trusted = [f \in Fault |-> Nothing] /\ appended = [f \in Fault |-> Nothing]
      /\ pulls = << >> /\ job = Idle /\ clock = 0 /\ intents = {} /\ invoked = [x \in {} |-> 0]
  BY DEF RecoveryInit
<1>2. RecoveryTypeOK
  BY <1>1 DEF RecoveryTypeOK
<1>3. JobOk /\ WorkOk
  BY <1>1 DEF Idle, JobOk, WorkOk, Working
<1>4. RecordsOk
  BY <1>1 DEF RecordsOk
<1>5. StartsOk
  BY <1>1 DEF StartsOk, WorkerStartedOnce
<1>6. QED
  BY <1>2, <1>3, <1>4, <1>5 DEF RecoveryInv, CoreInv

\* A Worker is started only where no intent was.
LEMMA StartsStep == StartsOk /\ [RecoveryNext]_vars => StartsOk'
<1> SUFFICES ASSUME StartsOk, [RecoveryNext]_vars PROVE StartsOk'
  OBVIOUS
<1>1. CASE UNCHANGED <<intents, invoked>>
  BY <1>1 DEF StartsOk, WorkerStartedOnce
<1>2. CASE StartWorker
  <2> DEFINE key == <<Current, EpochOf(job.record), Head(NextWorker(job.record))>>
  <2>1. /\ key \notin intents /\ intents' = intents \union {key}
        /\ invoked' = [k \in DOMAIN invoked \union {key} |->
                          IF k \in DOMAIN invoked THEN invoked[k] + (IF k = key THEN 1 ELSE 0)
                          ELSE 1]
    BY <1>2 DEF StartWorker, Intended
  <2> HIDE DEF key
  <2>2. QED
    BY <2>1 DEF StartsOk, WorkerStartedOnce
<1>3. QED
  BY <1>1, <1>2
  DEF RecoveryNext, RunStep, Observe, ObserverEnds, ResumeFault, Tick, Revise, Push, ClosePull,
      StartRun, ProcessFault, Deterministic, AdoptRepair, WorkerEnds, Review, CheckCi,
      AssessPromotion, Merge, ConfirmMerge, VerifyRuntime, AppendRecord, ResumeOriginal, EndRun,
      PublishRepair, FailRun, host, vars

\* Every step keeps the invariant.
LEMMA RecoveryStep == RecoveryInv /\ [RecoveryNext]_vars => RecoveryInv'
<1> SUFFICES ASSUME RecoveryInv, [RecoveryNext]_vars PROVE RecoveryInv'
  OBVIOUS
<1>1. CoreInv /\ StartsOk'
  BY StartsStep DEF RecoveryInv
<1>2. clock \in Nat
  BY <1>1 DEF CoreInv, RecoveryTypeOK
<1>3. CASE \/ \E q \in Request : Observe(q) \/ ObserverEnds(q)
           \/ \E f \in Fault, q \in Request : ResumeFault(f, q)
           \/ Tick \/ Revise \/ UNCHANGED vars
  <2>1. UNCHANGED <<trusted, appended, pulls, job>> /\ clock' \in Nat
    <3>1. CASE UNCHANGED vars
      BY <1>2, <3>1 DEF vars, host, env
    <3>2. ASSUME NEW q \in Request, Observe(q) \/ ObserverEnds(q)
          PROVE  UNCHANGED <<trusted, appended, pulls, job>> /\ clock' \in Nat
      BY <1>2, <3>2 DEF Observe, ObserverEnds, host, env
    <3>3. ASSUME NEW f \in Fault, NEW q \in Request, ResumeFault(f, q)
          PROVE  UNCHANGED <<trusted, appended, pulls, job>> /\ clock' \in Nat
      BY <1>2, <3>3 DEF ResumeFault, host, env
    <3>4. CASE Tick \/ Revise
      BY <1>2, <3>4 DEF Tick, Revise, host
    <3>5. QED
      BY <1>3, <3>1, <3>2, <3>3, <3>4
  <2>2. QED
    BY <1>1, <2>1, QuietStep DEF RecoveryInv
<1>4. CASE PublishRepair \/ \E n \in 1 .. MaxPulls : Push(n) \/ ClosePull(n)
  BY <1>1, <1>4, RepairsStep DEF RecoveryInv
<1>5. CASE StartRun \/ EndRun \/ FailRun
  BY <1>1, <1>5, StartRunStep, OverStep DEF RecoveryInv
<1>6. CASE RunStep
  <2>1. CASE ProcessFault
    BY <1>1, <2>1, ProcessStep DEF RecoveryInv
  <2>2. CASE \/ Deterministic \/ AdoptRepair \/ WorkerEnds \/ Review
             \/ AssessPromotion \/ ConfirmMerge \/ VerifyRuntime
    BY <1>1, <2>2, EffectStep DEF RecoveryInv
  <2>3. CASE StartWorker \/ CheckCi \/ Merge
    BY <1>1, <2>3, StartStep, CiStep, MergeStep DEF RecoveryInv
  <2>4. CASE AppendRecord \/ ResumeOriginal
    BY <1>1, <2>4, AppendRecordStep, ResumeStep DEF RecoveryInv
  <2>5. QED
    BY <1>5, <1>6, <2>1, <2>2, <2>3, <2>4 DEF RunStep
<1>7. QED
  BY <1>3, <1>4, <1>5, <1>6 DEF RecoveryNext

\* Records, repairs and runs fit each other, wherever runs die.
THEOREM RecoveryInvariant == RecoverySpec => []RecoveryInv
BY RecoveryStart, RecoveryStep, PTL DEF RecoverySpec

\* No 24 hours see more epochs of a fault opened than the profile allows
\* (beginFaultEpoch), for any profile, clock and changes of the installation.
THEOREM EpochBudget == RecoverySpec => []EpochsWithinBudget
<1>1. RecoveryInv => EpochsWithinBudget
  BY DEF RecoveryInv, CoreInv, RecordsOk, RecordOk, WithinBudget, Window, EpochsWithinBudget
<1>2. QED
  BY <1>1, RecoveryInvariant, PTL

\* No maintenance Worker is started twice for a fault and an epoch, although
\* runs die after they started it (executeMaintenanceWorker).
THEOREM StartedOnce == RecoverySpec => []WorkerStartedOnce
<1>1. RecoveryInv => WorkerStartedOnce
  BY DEF RecoveryInv, StartsOk
<1>2. QED
  BY <1>1, RecoveryInvariant, PTL

\* A trusted record is recovered only after the required healthy samples of a
\* runtime that was repaired (recordFaultAttempt, promoteMaintenance).
THEOREM RecoveryProven == RecoverySpec => []RecoveredIsProven
<1>1. RecoveryInv => RecoveredIsProven
  BY DEF RecoveryInv, CoreInv, RecordsOk, RecordOk, Proven, Repaired, RecoveredIsProven
<1>2. QED
  BY <1>1, RecoveryInvariant, PTL

\* What is merged was reviewed and tested at that head in a trusted record,
\* and is the only release of its epoch (assessMaintenancePromotion,
\* promoteMaintenance), whatever is pushed and wherever runs die.
THEOREM ReleaseProven == RecoverySpec => ReleaseIsProven
<1>1. ASSUME RecoveryInv, [RecoveryNext]_vars, NEW n \in DOMAIN pulls,
             pulls[n].state = "open", pulls'[n].state = "merged"
      PROVE  LET record == trusted[pulls[n].fault]
             IN  /\ EpochOf(record) = pulls[n].epoch
                 /\ \A kind \in {"review", "ci"} :
                        Succeeded(record, kind) /\ HeadOf(record, kind) = pulls[n].head
                 /\ \A m \in DOMAIN pulls \ {n} :
                        <<pulls[m].fault, pulls[m].epoch, pulls[m].state>>
                            # <<pulls[n].fault, pulls[n].epoch, "merged">>
  <2>1. RecoveryTypeOK /\ CoreInv
    BY <1>1 DEF RecoveryInv, CoreInv
  <2>2. Merge /\ Mergeable /\ pulls' = [pulls EXCEPT ![job.record.pull].state = "merged"]
    <3>1. CASE UNCHANGED pulls
      BY <1>1, <3>1
    <3>2. CASE PublishRepair
      <4>1. \E p : pulls' = Append(pulls, p)
        BY <3>2 DEF PublishRepair
      <4>2. pulls'[n] = pulls[n]
        BY <2>1, <4>1 DEF RecoveryTypeOK
      <4>3. QED
        BY <1>1, <4>2
    <3>3. ASSUME NEW k \in 1 .. MaxPulls, Push(k) \/ ClosePull(k) PROVE FALSE
      <4>1. /\ k \in DOMAIN pulls /\ pulls[k].state = "open"
            /\ \/ pulls' = [pulls EXCEPT ![k].head = @ + 1]
               \/ pulls' = [pulls EXCEPT ![k].state = "closed"]
        BY <3>3 DEF Push, ClosePull
      <4>2. CASE pulls' = [pulls EXCEPT ![k].head = @ + 1]
        <5>1. pulls'[k].state = pulls[k].state /\ \A m \in DOMAIN pulls \ {k} : pulls'[m] = pulls[m]
          BY <2>1, <4>1, <4>2, RepairFields
        <5>2. QED
          BY <1>1, <4>1, <5>1
      <4>3. CASE pulls' = [pulls EXCEPT ![k].state = "closed"]
        <5>1. pulls'[k].state = "closed" /\ \A m \in DOMAIN pulls \ {k} : pulls'[m] = pulls[m]
          BY <2>1, <4>1, <4>3, RepairFields
        <5>2. QED
          BY <1>1, <5>1
      <4>4. QED
        BY <4>1, <4>2, <4>3
    <3>4. CASE Merge
      BY <1>1, <3>4 DEF Merge
    <3>5. QED
      BY <1>1, <3>1, <3>2, <3>3, <3>4
      DEF RecoveryNext, RunStep, Observe, ObserverEnds, ResumeFault, Tick, Revise, StartRun,
          ProcessFault, Deterministic, AdoptRepair, StartWorker, WorkerEnds, Review, CheckCi,
          AssessPromotion, ConfirmMerge, VerifyRuntime, AppendRecord, ResumeOriginal, EndRun,
          FailRun, host, vars
  <2>3. job.phase = "merge" /\ job.phase \in Working
    BY <2>2 DEF Merge, Working
  <2>4. /\ Current \in Fault /\ trusted[Current] # Nothing
        /\ RecordOk(pulls, Current, job.record) /\ job.record.status = "deploying"
        /\ Alike(job.record, trusted[Current])
        /\ Continuous(job.record, job.head, {"review", "ci"})
    BY <2>1, <2>3, InHand DEF PhaseFits, CoreInv, WorkOk
  <2>5. /\ job.record.pull \in DOMAIN pulls /\ pulls[job.record.pull].fault = Current
        /\ pulls[job.record.pull].epoch = EpochOf(job.record)
    BY <2>4 DEF RecordOk, Repaired
  <2>6. n = job.record.pull
    BY <1>1, <2>1, <2>2, <2>5, RepairFields
  <2>7. EpochOf(trusted[Current]) = EpochOf(job.record)
    BY <2>4 DEF Alike, EpochOf
  <2>8. ASSUME NEW kind \in {"review", "ci"}
        PROVE  Succeeded(trusted[Current], kind) /\ HeadOf(trusted[Current], kind) = pulls[n].head
    <3>1. Succeeded(job.record, kind) /\ HeadOf(job.record, kind) = pulls[n].head
      BY <2>2, <2>4, <2>6 DEF Continuous, Mergeable, Repair
    <3>2. /\ (Succeeded(trusted[Current], kind) <=> Succeeded(job.record, kind))
          /\ HeadOf(trusted[Current], kind) = HeadOf(job.record, kind)
      BY <2>4 DEF Alike, Succeeded, HeadOf, LastCompleted, CompletedAttempts
    <3>3. QED
      BY <3>1, <3>2
  <2>9. ASSUME NEW m \in DOMAIN pulls \ {n}, pulls[m].fault = Current,
               pulls[m].epoch = pulls[n].epoch, pulls[m].state = "merged"
        PROVE  FALSE
    <3>1. pulls[m].epoch \in Nat /\ pulls[m].epoch = EpochOf(job.record)
      BY <2>1, <2>5, <2>6, <2>9, RepairFields
    <3>2. QED
      BY <2>4, <2>6, <2>9, <3>1 DEF RecordOk, Latest
  <2>10. QED
    BY <2>5, <2>6, <2>7, <2>8, <2>9
<1>2. RecoveryInv /\ [RecoveryNext]_vars =>
          \A n \in DOMAIN pulls : (pulls[n].state = "open" /\ pulls'[n].state = "merged") =>
              LET record == trusted[pulls[n].fault]
              IN  /\ EpochOf(record) = pulls[n].epoch
                  /\ \A kind \in {"review", "ci"} :
                         Succeeded(record, kind) /\ HeadOf(record, kind) = pulls[n].head
                  /\ \A m \in DOMAIN pulls \ {n} :
                         <<pulls[m].fault, pulls[m].epoch, pulls[m].state>>
                             # <<pulls[n].fault, pulls[n].epoch, "merged">>
  BY <1>1
<1>3. QED
  BY <1>2, RecoveryInvariant, PTL DEF RecoverySpec, ReleaseIsProven

=============================================================================

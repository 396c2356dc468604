-------------------------- MODULE CapacityLockProofs --------------------------
(***************************************************************************)
(* What holds of the registry lock for any processes, deaths, leases and   *)
(* failing probes, as long as directories can be listed: one process at a  *)
(* time is inside, and, unless two appends come to the same fence, the     *)
(* lock implements ExclusiveLock and keeps every success.                  *)
(***************************************************************************)
EXTENDS CapacityLock, WellFoundedInduction, TLAPS

-----------------------------------------------------------------------------
(* The inductive invariant                                                 *)

\* Where a process has a lease but no gate, where it has the marker, where it is
\* in the lock, and where it knows that nobody is inside.
Claiming == {"reserve", "publish", "mark", "stage"}
Marking == {"taken", "assert", "look", "quarantine", "evict", "purge", "confirm-marker",
            "install", "yield", "fail"}
Owning == {"inside", "write", "rename", "compact", "write-base", "base",
           "sweep", "swept", "confirm", "release", "abandon"}
Clearing == {"quarantine", "evict", "purge", "confirm-marker", "install"}
Outside == {"gate", "announced", "marker", "clean", "announce", "leave", "leave-failed",
            "done", "threw", "dead"}
Location == Claiming \union Marking \union Owning \union Outside

LeaseOk(l) ==
    /\ l = [proc |-> l.proc, fence |-> l.fence, expires |-> l.expires]
    /\ l.fence \in Nat

GateOk(g) ==
    /\ g = [exists |-> g.exists, owners |-> g.owners]
    /\ ~g.exists => g.owners = {}

SeenOk(s) ==
    /\ s = [state |-> s.state, revision |-> s.revision, document |-> s.document]
    /\ s.revision \in Nat

\* Directories, leases in them and stored files have their shapes ...
FilesOK ==
    /\ gate = [path \in Path |-> gate[path]]
    /\ \A path \in Path : GateOk(gate[path]) /\ \A l \in LeasesAt(path) : l.fence \in Nat
    /\ highWater \in Nat
    /\ \A s \in snapshots : s.fence \in Nat /\ s.revision \in Nat
    /\ \A b \in bases : b.fence \in Nat /\ b.name \in Nat
    /\ \A e \in events : e.fence \in Nat

\* ... and so have the locals of every process.
LocalsOK ==
    /\ pc \in [Process -> Location]
    /\ lease = [p \in Process |-> lease[p]]
    /\ seen = [p \in Process |-> seen[p]]
    /\ \A p \in Process : LeaseOk(lease[p]) /\ SeenOk(seen[p])

LockTypeOK == FilesOK /\ LocalsOK /\ now \in Nat

\* Whatever was stored or taken has fences up to some number.
FencesBounded ==
    \E n \in Nat :
        /\ \A s \in snapshots : s.fence <= n
        /\ \A b \in bases : b.fence <= n
        /\ \A e \in events : e.fence <= n
        /\ \A path \in Path : \A l \in LeasesAt(path) : l.fence <= n

\* A live process that took the marker has it, and one that installed it has the
\* lock, alone; while one has found the lock free, nobody is inside.
Exclusion ==
    /\ \A p \in Process : pc[p] \in Claiming \union Marking \union Owning => lease[p].proc = p
    /\ \A p \in Process : pc[p] \in Marking => LeasesAt("reclaim") = {lease[p]}
    /\ \A p \in Process : pc[p] \in Owning => LeasesAt("lock") = {lease[p]}
    /\ \A p, q \in Process : pc[p] \in Clearing => pc[q] \notin Owning

\* There is one newest snapshot.
Sharper(s, t) == s.fence > t.fence \/ (s.fence = t.fence /\ s.revision > t.revision)
OneNewest ==
    snapshots = {} \/ \E s \in snapshots : \A t \in snapshots \ {s} : Sharper(s, t)

\* The snapshot that the process inside prepares follows the newest one.
SnapshotPrepared ==
    \A p \in Process \ Appends : pc[p] \in {"write", "rename"} =>
        /\ seen[p].document = CurrentSnapshot.document
        /\ lease[p].fence >= CurrentSnapshot.fence
        /\ lease[p].fence = CurrentSnapshot.fence => seen[p].revision > CurrentSnapshot.revision

\* What a record writer published is in the document of the records.
SnapshotKept ==
    \A p \in Process \ Appends :
        pc[p] \in {"compact", "confirm", "release", "leave", "done"} =>
            p \in CurrentSnapshot.document

\* Bases have fences of their own.
OneBase == \A b, c \in bases : b.fence = c.fence => b = c

\* The process inside that appends is above what is stored, and its base holds
\* the journal before anything is removed.
AppendPrepared ==
    \A p \in Appends :
        /\ pc[p] \in {"write", "rename"} =>
             /\ seen[p].document = Journal
             /\ \A b \in bases : b.fence < lease[p].fence
             /\ \A e \in events : e.fence < lease[p].fence
        /\ pc[p] \in {"write-base", "base"} =>
             /\ seen[p].document \union {p} = Journal
             /\ \A b \in bases : b.fence < lease[p].fence
             /\ \A e \in events : e.fence <= lease[p].fence
        /\ pc[p] \in {"sweep", "swept"} =>
             /\ \E b \in bases : b.fence = lease[p].fence /\ b.attempts = Journal
             /\ \A b \in bases : b.fence <= lease[p].fence
             /\ \A e \in events : e.fence <= lease[p].fence

\* Where an append has published its attempt and has not failed since.
Recorded == {"write-base", "base", "sweep", "swept", "confirm", "release", "leave", "done"}

\* What an append published is in the journal.
AppendKept == \A p \in Appends : pc[p] \in Recorded => p \in Journal

\* Who appends is never where the records are written, nor the other way round.
OwnOperation ==
    \A p \in Process :
        /\ pc[p] \in {"write-base", "base", "sweep", "swept"} => p \in Appends
        /\ pc[p] = "compact" => p \notin Appends

LockInv ==
    /\ LockTypeOK /\ FencesBounded /\ Exclusion /\ OwnOperation
    /\ OneNewest /\ SnapshotPrepared /\ SnapshotKept

JournalInv == OneBase /\ AppendPrepared /\ AppendKept

\* No process that appends is inside at a fence that the journal has already.
FreshFence == \A p \in Appends : At(p, "inside") => StoredFence(p) # lease[p].fence


\* Where a process has not published yet.
Beginning ==
    Claiming \union Marking \union
        {"gate", "announced", "marker", "clean", "announce", "inside", "write", "rename"}

\* Until the one process that appends publishes, the journal is what it was to begin
\* with, and every fence that is claimed is above that.
SoleAppend ==
    /\ \A p \in Appends : pc[p] \in Claiming \union Marking \union Owning => lease[p].fence > 0
    /\ \A p \in Appends : pc[p] \in Beginning =>
         bases = {} /\ \A e \in events : e.fence = 0

-----------------------------------------------------------------------------
(* Greatest elements                                                       *)

\* A nonempty set of naturals has a least element.
LEMMA LeastNatural ==
    ASSUME NEW S, S \subseteq Nat, S # {}
    PROVE  \E m \in S : \A n \in S : m <= n
<1> DEFINE R == OpToRel(<, Nat)
<1>1. IsWellFoundedOn(R, Nat)
  BY NatLessThanWellFounded
<1>2. \A y, x \in Nat : <<y, x>> \in R <=> y < x
  BY DEF OpToRel
<1> HIDE DEF R
<1>3. \E m \in S : \A y \in S : <<y, m>> \notin R
  BY <1>1, WFMin
<1>4. PICK m \in S : \A y \in S : <<y, m>> \notin R
  BY <1>3
<1>5. ASSUME NEW y \in S PROVE m <= y
  <2>1. m \in Nat /\ y \in Nat /\ ~ (y < m)
    BY <1>2, <1>4
  <2>2. QED
    BY <2>1
<1>6. QED
  BY <1>4, <1>5

\* Greatest chooses the greatest of numbers up to a bound.
LEMMA GreatestMember ==
    ASSUME NEW n \in Nat, NEW S, S \subseteq 0 .. n, S # {}
    PROVE  /\ Greatest(S) \in S /\ \A k \in S : k <= Greatest(S)
           /\ Greatest(S) \in Nat
<1> DEFINE T == {n - k : k \in S}
<1>1. T \subseteq Nat /\ T # {}
  <2>1. \A k \in S : n - k \in Nat
    OBVIOUS
  <2>2. QED
    BY <2>1
<1>2. PICK m \in T : \A k \in T : m <= k
  BY <1>1, LeastNatural
<1>3. PICK k \in S : m = n - k
  OBVIOUS
<1>4. \A j \in S : j \in Nat
  OBVIOUS
<1>5. ASSUME NEW j \in S PROVE j <= k
  <2>1. n - j \in T
    OBVIOUS
  <2>2. n - k <= n - j
    BY <1>2, <1>3, <2>1
  <2>3. j \in Nat /\ k \in Nat
    BY <1>4
  <2>4. QED
    BY <2>2, <2>3
<1>6. \E x \in S : \A j \in S : j <= x
  <2> HIDE DEF T
  <2>1. QED
    BY <1>5
<1>7. Greatest(S) \in S /\ \A j \in S : j <= Greatest(S)
  BY <1>6 DEF Greatest
<1>8. QED
  BY <1>4, <1>7

\* Of two numbers it is one that is below neither.
LEMMA GreatestOfTwo ==
    ASSUME NEW a \in Nat, NEW b \in Nat
    PROVE  /\ Greatest({a, b}) \in Nat
           /\ Greatest({a, b}) >= a /\ Greatest({a, b}) >= b
<1>1. \E n \in Nat : a <= n /\ b <= n
  <2>1. a <= a + b /\ b <= a + b /\ a + b \in Nat
    OBVIOUS
  <2>2. QED
    BY <2>1
<1>2. PICK n \in Nat : a <= n /\ b <= n
  BY <1>1
<1>3. {a, b} \subseteq 0 .. n /\ {a, b} # {}
  BY <1>2
<1>4. Greatest({a, b}) \in {a, b} /\ \A k \in {a, b} : k <= Greatest({a, b})
  BY <1>2, <1>3, GreatestMember
<1>5. QED
  BY <1>4

\* The fence that a new claim starts from is a number.
LEMMA HighestFenceNatural ==
    ASSUME LockTypeOK, FencesBounded
    PROVE  HighestFence \in Nat
<1> DEFINE F == {highWater} \union {s.fence : s \in snapshots}
                \union {b.fence : b \in bases} \union {e.fence : e \in events}
                \union {l.fence : l \in LeasesAt("lock") \union LeasesAt("reclaim")}
<1>1. PICK n \in Nat :
        /\ \A s \in snapshots : s.fence <= n
        /\ \A b \in bases : b.fence <= n
        /\ \A e \in events : e.fence <= n
        /\ \A path \in Path : \A l \in LeasesAt(path) : l.fence <= n
  BY DEF FencesBounded
<1>2. PICK m \in Nat : n <= m /\ highWater <= m
  <2>1. highWater \in Nat
    BY DEF LockTypeOK, FilesOK
  <2>2. n <= n + highWater /\ highWater <= n + highWater /\ n + highWater \in Nat
    BY <2>1
  <2>3. QED
    BY <2>2
<1>3. \A s \in snapshots : s.fence \in 0 .. m
  BY <1>1, <1>2 DEF LockTypeOK, FilesOK
<1>4. \A s \in bases \union events : s.fence \in 0 .. m
  BY <1>1, <1>2 DEF LockTypeOK, FilesOK
<1>5. \A l \in LeasesAt("lock") \union LeasesAt("reclaim") : l.fence \in 0 .. m
  <2>1. \A path \in Path : \A l \in LeasesAt(path) : l.fence \in Nat
    BY DEF LockTypeOK, FilesOK
  <2>2. QED
    BY <1>1, <1>2, <2>1 DEF Path
<1>6. highWater \in 0 .. m
  BY <1>2 DEF LockTypeOK, FilesOK
<1>7. F \subseteq 0 .. m /\ F # {}
  BY <1>3, <1>4, <1>5, <1>6
<1>8. Greatest(F) \in F
  BY <1>7, GreatestMember
<1>9. QED
  BY <1>7, <1>8 DEF HighestFence

-----------------------------------------------------------------------------
(* What is stored                                                          *)

\* The newest snapshot is above every other one.
LEMMA NewestSnapshot ==
    ASSUME LockTypeOK, OneNewest
    PROVE  /\ CurrentSnapshot.fence \in Nat /\ CurrentSnapshot.revision \in Nat
           /\ snapshots # {} => CurrentSnapshot \in snapshots
           /\ \A t \in snapshots : t # CurrentSnapshot => Sharper(CurrentSnapshot, t)
<1>1. CASE snapshots = {}
  BY <1>1 DEF CurrentSnapshot, NoSnapshot
<1>2. CASE snapshots # {}
  <2>1. \A s \in snapshots : s.fence \in Nat /\ s.revision \in Nat
    BY DEF LockTypeOK, FilesOK
  <2>2. PICK s \in snapshots : \A t \in snapshots \ {s} : Sharper(s, t)
    BY <1>2 DEF OneNewest
  <2>3. \A t \in snapshots : Newer(s, t)
    BY <2>1, <2>2 DEF Newer, Sharper
  <2>4. CurrentSnapshot \in snapshots /\ \A t \in snapshots : Newer(CurrentSnapshot, t)
    BY <1>2, <2>3 DEF CurrentSnapshot
  <2>5. CurrentSnapshot = s
    BY <2>1, <2>2, <2>4 DEF Newer, Sharper
  <2>6. QED
    BY <2>1, <2>2, <2>5
<1>3. QED
  BY <1>1, <1>2

\* What is above every other snapshot is the newest one.
LEMMA NewestIsCurrent ==
    ASSUME \A s \in snapshots : s.fence \in Nat /\ s.revision \in Nat,
           NEW s \in snapshots, \A t \in snapshots \ {s} : Sharper(s, t)
    PROVE  CurrentSnapshot = s
<1>1. \A t \in snapshots : Newer(s, t)
  BY DEF Newer, Sharper
<1>2. CurrentSnapshot \in snapshots /\ \A t \in snapshots : Newer(CurrentSnapshot, t)
  BY <1>1 DEF CurrentSnapshot
<1>3. QED
  BY <1>2 DEF Newer, Sharper

\* The newest base is above every other one.
LEMMA NewestBase ==
    ASSUME LockTypeOK, FencesBounded, OneBase
    PROVE  /\ CurrentBase.fence \in Nat
           /\ bases # {} => CurrentBase \in bases
           /\ \A b \in bases : b.fence <= CurrentBase.fence
<1>1. CASE bases = {}
  BY <1>1 DEF CurrentBase, NoBase
<1>2. CASE bases # {}
  <2> DEFINE F == {b.fence : b \in bases}
  <2>1. \A b \in bases : b.fence \in Nat /\ b.name \in Nat
    BY DEF LockTypeOK, FilesOK
  <2>2. PICK n \in Nat : \A b \in bases : b.fence <= n
    BY DEF FencesBounded
  <2>3. F \subseteq 0 .. n /\ F # {}
    BY <1>2, <2>1, <2>2
  <2>4. Greatest(F) \in F /\ \A k \in F : k <= Greatest(F)
    BY <2>3, GreatestMember
  <2>5. PICK b \in bases : \A c \in bases : c.fence <= b.fence
    BY <2>4
  <2>6. \A c \in bases : b.fence > c.fence \/ (b.fence = c.fence /\ b.name >= c.name)
    BY <2>1, <2>5 DEF OneBase
  <2>7. /\ CurrentBase \in bases
        /\ \A c \in bases : \/ CurrentBase.fence > c.fence
                            \/ CurrentBase.fence = c.fence /\ CurrentBase.name >= c.name
    BY <1>2, <2>6 DEF CurrentBase
  <2>8. QED
    BY <2>1, <2>7
<1>3. QED
  BY <1>1, <1>2

\* What is above every other base is the newest one.
LEMMA NewestIsBase ==
    ASSUME \A b \in bases : b.fence \in Nat /\ b.name \in Nat,
           NEW b \in bases, \A c \in bases \ {b} : c.fence < b.fence
    PROVE  CurrentBase = b
<1>1. \A c \in bases : b.fence > c.fence \/ (b.fence = c.fence /\ b.name >= c.name)
  OBVIOUS
<1>2. /\ CurrentBase \in bases
      /\ \A c \in bases : \/ CurrentBase.fence > c.fence
                          \/ CurrentBase.fence = c.fence /\ CurrentBase.name >= c.name
  BY <1>1 DEF CurrentBase
<1>3. QED
  BY <1>2

\* The fence an append is compared with is not below any that the journal has.
LEMMA StoredFenceAbove ==
    ASSUME LockTypeOK, FencesBounded, OneBase, NEW p \in Appends
    PROVE  /\ StoredFence(p) \in Nat
           /\ \A b \in bases : b.fence <= StoredFence(p)
           /\ \A e \in events : e.fence <= StoredFence(p)
           /\ \A m \in Nat : (\A b \in bases : b.fence <= m) /\ (\A e \in events : e.fence <= m)
                               => StoredFence(p) <= m
<1> DEFINE F == {CurrentBase.fence} \union {e.fence : e \in events}
<1>1. /\ CurrentBase.fence \in Nat
      /\ \A b \in bases : b.fence <= CurrentBase.fence /\ b.fence \in Nat
      /\ bases # {} => CurrentBase \in bases
  BY NewestBase DEF LockTypeOK, FilesOK
<1>2. \A e \in events : e.fence \in Nat
  BY DEF LockTypeOK, FilesOK
<1>3. PICK n \in Nat : \A e \in events : e.fence <= n
  BY DEF FencesBounded
<1>4. PICK k \in Nat : n <= k /\ CurrentBase.fence <= k
  <2>1. n <= n + CurrentBase.fence /\ CurrentBase.fence <= n + CurrentBase.fence
        /\ n + CurrentBase.fence \in Nat
    BY <1>1
  <2>2. QED
    BY <2>1
<1>5. F \subseteq 0 .. k /\ F # {}
  BY <1>1, <1>2, <1>3, <1>4
<1>6. Greatest(F) \in F /\ Greatest(F) \in Nat /\ \A f \in F : f <= Greatest(F)
  BY <1>4, <1>5, GreatestMember
<1>7. StoredFence(p) = Greatest(F)
  BY DEF StoredFence
<1>8. Greatest(F) \in Nat
  BY <1>6
<1>9. CurrentBase.fence <= Greatest(F) /\ \A e \in events : e.fence <= Greatest(F)
  BY <1>6
<1>10. \A b \in bases : b.fence <= Greatest(F)
  BY <1>1, <1>8, <1>9
<1>11. ASSUME NEW m \in Nat, \A b \in bases : b.fence <= m, \A e \in events : e.fence <= m
       PROVE  Greatest(F) <= m
  <2>1. CurrentBase.fence <= m
    BY <1>1, <1>11 DEF CurrentBase, NoBase
  <2>2. QED
    BY <1>6, <1>11, <2>1
<1>12. QED
  BY <1>7, <1>8, <1>9, <1>10, <1>11

-----------------------------------------------------------------------------
(* One step of a process                                                   *)

Act(p) == Step(p) \/ Busy(p) \/ ProbeFails(p) \/ Die(p)

\* Every step moves the process that takes it from location to location.
LEMMA MovesOne ==
    ASSUME LocalsOK, NEW p \in Process, Act(p)
    PROVE  /\ pc' \in [Process -> Location]
           /\ \A q \in Process : q # p => pc'[q] = pc[q]
<1> USE DEF Goto, At, Location, Claiming, Marking, Owning, Outside
<1>1. pc \in [Process -> Location]
  BY DEF LocalsOK
<1>2. CASE ReadGate(p)
  BY <1>1, <1>2 DEF ReadGate
<1>3. CASE ReadAnnounced(p)
  BY <1>1, <1>3 DEF ReadAnnounced
<1>4. CASE ReadMarker(p)
  BY <1>1, <1>4 DEF ReadMarker
<1>5. CASE CleanMarker(p)
  BY <1>1, <1>5 DEF CleanMarker
<1>6. CASE Announce(p)
  BY <1>1, <1>6 DEF Announce
<1>7. CASE ReserveFence(p)
  BY <1>1, <1>7 DEF ReserveFence
<1>8. CASE CheckHighWater(p)
  BY <1>1, <1>8 DEF CheckHighWater
<1>9. CASE WriteHighWater(p)
  BY <1>1, <1>9 DEF WriteHighWater
<1>10. CASE TakeMarker(p)
  BY <1>1, <1>10 DEF TakeMarker
<1>11. CASE MissMarker(p)
  BY <1>1, <1>11 DEF MissMarker
<1>12. CASE Withdraw(p)
  BY <1>1, <1>12 DEF Withdraw
<1>13. CASE AssertMarker(p, "assert", "look")
  BY <1>1, <1>13 DEF AssertMarker
<1>14. CASE LookAtLock(p)
  BY <1>1, <1>14 DEF LookAtLock
<1>15. CASE LookAtQuarantine(p)
  BY <1>1, <1>15 DEF LookAtQuarantine
<1>16. CASE Evict(p)
  BY <1>1, <1>16 DEF Evict
<1>17. CASE Purge(p)
  BY <1>1, <1>17 DEF Purge
<1>18. CASE AssertMarker(p, "confirm-marker", "install")
  BY <1>1, <1>18 DEF AssertMarker
<1>19. CASE Install(p)
  BY <1>1, <1>19 DEF Install
<1>20. CASE GiveMarkerBack(p)
  BY <1>1, <1>20 DEF GiveMarkerBack
<1>21. CASE Prepare(p)
  BY <1>1, <1>21 DEF Prepare
<1>22. CASE AssertOwner(p, "write", "rename")
  BY <1>1, <1>22 DEF AssertOwner
<1>23. CASE PublishSnapshot(p)
  BY <1>1, <1>23 DEF PublishSnapshot
<1>24. CASE CompactSnapshots(p)
  BY <1>1, <1>24 DEF CompactSnapshots
<1>25. CASE PublishEvent(p)
  BY <1>1, <1>25 DEF PublishEvent
<1>26. CASE AssertOwner(p, "write-base", "base")
  BY <1>1, <1>26 DEF AssertOwner
<1>27. CASE PublishBase(p)
  BY <1>1, <1>27 DEF PublishBase
<1>28. CASE AssertOwner(p, "sweep", "swept")
  BY <1>1, <1>28 DEF AssertOwner
<1>29. CASE Sweep(p)
  BY <1>1, <1>29 DEF Sweep
<1>30. CASE AssertOwner(p, "confirm", "release")
  BY <1>1, <1>30 DEF AssertOwner
<1>31. CASE RemoveMarker(p)
  BY <1>1, <1>31 DEF RemoveMarker
<1>32. CASE RemoveDirectory(p)
  BY <1>1, <1>32 DEF RemoveDirectory
<1>33. CASE Busy(p)
  BY <1>1, <1>33 DEF Busy
<1>34. CASE ProbeFails(p)
  BY <1>1, <1>34 DEF ProbeFails
<1>35. CASE Die(p)
  BY <1>1, <1>35 DEF Die
<1>36. QED
  BY <1>2, <1>3, <1>4, <1>5, <1>6, <1>7, <1>8, <1>9, <1>10, <1>11, <1>12, <1>13, <1>14, <1>15,
     <1>16, <1>17, <1>18, <1>19, <1>20, <1>21, <1>22, <1>23, <1>24, <1>25, <1>26, <1>27, <1>28,
     <1>29, <1>30, <1>31, <1>32, <1>33, <1>34, <1>35 DEF Act, Step

\* A lease with another fence.
LEMMA FenceSet ==
    ASSUME lease = [q \in Process |-> lease[q]], NEW p \in Process, LeaseOk(lease[p]),
           NEW f \in Nat, lease' = [lease EXCEPT ![p].fence = f]
    PROVE  /\ lease' = [q \in Process |-> lease'[q]]
           /\ \A q \in Process : q # p => lease'[q] = lease[q]
           /\ lease'[p] = [proc |-> lease[p].proc, fence |-> f, expires |-> lease[p].expires]
           /\ LeaseOk(lease'[p])
<1>1. lease[p] = [proc |-> lease[p].proc, fence |-> lease[p].fence, expires |-> lease[p].expires]
  BY DEF LeaseOk
<1>2. [lease[p] EXCEPT !.fence = f]
      = [proc |-> lease[p].proc, fence |-> f, expires |-> lease[p].expires]
  BY <1>1
<1>3. lease'[p] = [lease[p] EXCEPT !.fence = f]
  OBVIOUS
<1>4. QED
  BY <1>2, <1>3 DEF LeaseOk

\* The lease of one process is forgotten, or gets a fence that is a number.
LEMMA LeasesOne ==
    ASSUME LockTypeOK, FencesBounded, NEW p \in Process, Act(p)
    PROVE  /\ lease' = [q \in Process |-> lease'[q]]
           /\ \A q \in Process : q # p => lease'[q] = lease[q]
           /\ LeaseOk(lease'[p])
<1>1. lease = [q \in Process |-> lease[q]] /\ LeaseOk(lease[p])
  BY DEF LockTypeOK, LocalsOK
<1>2. LeaseOk(NoLease)
  BY DEF LeaseOk, NoLease
<1>3. highWater \in Nat /\ now \in Nat /\ highWater + 1 \in Nat
  BY DEF LockTypeOK, FilesOK
<1>4. CASE ReadGate(p)
  BY <1>1, <1>2, <1>4 DEF ReadGate
<1>5. CASE ReadAnnounced(p)
  BY <1>1, <1>2, <1>5 DEF ReadAnnounced
<1>6. CASE ReadMarker(p)
  BY <1>1, <1>2, <1>6 DEF ReadMarker, Forget
<1>7. CASE CleanMarker(p)
  BY <1>1, <1>2, <1>7 DEF CleanMarker
<1>8. CASE Announce(p)
  <2> DEFINE claim == [proc |-> p, fence |-> Greatest({now, HighestFence}) + 1,
                       expires |-> Least(now + LeaseTime, MaxTime)]
  <2>1. Greatest({now, HighestFence}) + 1 \in Nat
    BY <1>3, GreatestOfTwo, HighestFenceNatural
  <2>2. LeaseOk(claim)
    BY <2>1 DEF LeaseOk
  <2>3. lease' = [lease EXCEPT ![p] = claim]
    BY <1>8 DEF Announce
  <2> HIDE DEF claim
  <2>4. QED
    BY <1>1, <2>2, <2>3
<1>9. CASE ReserveFence(p)
  <2> DEFINE f == Greatest({lease[p].fence, highWater + 1})
  <2>1. f \in Nat
    BY <1>1, <1>3, GreatestOfTwo DEF LeaseOk
  <2>2. lease' = [lease EXCEPT ![p].fence = f]
    BY <1>9 DEF ReserveFence
  <2> HIDE DEF f
  <2>3. QED
    BY <1>1, <2>1, <2>2, FenceSet
<1>10. CASE CheckHighWater(p)
  <2>1. lease' = lease \/ lease' = [lease EXCEPT ![p].fence = highWater + 1]
    BY <1>10 DEF CheckHighWater
  <2>2. QED
    BY <1>1, <1>3, <2>1, FenceSet
<1>11. CASE WriteHighWater(p)
  BY <1>1, <1>2, <1>11 DEF WriteHighWater
<1>12. CASE TakeMarker(p)
  BY <1>1, <1>2, <1>12 DEF TakeMarker
<1>13. CASE MissMarker(p)
  BY <1>1, <1>2, <1>13 DEF MissMarker, Forget
<1>14. CASE Withdraw(p)
  BY <1>1, <1>2, <1>14 DEF Withdraw
<1>15. CASE AssertMarker(p, "assert", "look")
  BY <1>1, <1>2, <1>15 DEF AssertMarker
<1>16. CASE LookAtLock(p)
  BY <1>1, <1>2, <1>16 DEF LookAtLock
<1>17. CASE LookAtQuarantine(p)
  BY <1>1, <1>2, <1>17 DEF LookAtQuarantine
<1>18. CASE Evict(p)
  BY <1>1, <1>2, <1>18 DEF Evict
<1>19. CASE Purge(p)
  BY <1>1, <1>2, <1>19 DEF Purge
<1>20. CASE AssertMarker(p, "confirm-marker", "install")
  BY <1>1, <1>2, <1>20 DEF AssertMarker
<1>21. CASE Install(p)
  BY <1>1, <1>2, <1>21 DEF Install
<1>22. CASE GiveMarkerBack(p)
  BY <1>1, <1>2, <1>22 DEF GiveMarkerBack, Forget
<1>23. CASE Prepare(p)
  BY <1>1, <1>2, <1>23 DEF Prepare
<1>24. CASE AssertOwner(p, "write", "rename")
  BY <1>1, <1>2, <1>24 DEF AssertOwner
<1>25. CASE PublishSnapshot(p)
  BY <1>1, <1>2, <1>25 DEF PublishSnapshot
<1>26. CASE CompactSnapshots(p)
  BY <1>1, <1>2, <1>26 DEF CompactSnapshots
<1>27. CASE PublishEvent(p)
  BY <1>1, <1>2, <1>27 DEF PublishEvent
<1>28. CASE AssertOwner(p, "write-base", "base")
  BY <1>1, <1>2, <1>28 DEF AssertOwner
<1>29. CASE PublishBase(p)
  BY <1>1, <1>2, <1>29 DEF PublishBase
<1>30. CASE AssertOwner(p, "sweep", "swept")
  BY <1>1, <1>2, <1>30 DEF AssertOwner
<1>31. CASE Sweep(p)
  BY <1>1, <1>2, <1>31 DEF Sweep
<1>32. CASE AssertOwner(p, "confirm", "release")
  BY <1>1, <1>2, <1>32 DEF AssertOwner
<1>33. CASE RemoveMarker(p)
  BY <1>1, <1>2, <1>33 DEF RemoveMarker
<1>34. CASE RemoveDirectory(p)
  BY <1>1, <1>2, <1>34 DEF RemoveDirectory, Forget
<1>35. CASE Busy(p)
  BY <1>1, <1>2, <1>35 DEF Busy, Forget
<1>36. CASE ProbeFails(p)
  BY <1>1, <1>2, <1>36 DEF ProbeFails
<1>37. CASE Die(p)
  BY <1>1, <1>2, <1>37 DEF Die, Forget
<1>38. QED
  BY <1>4, <1>5, <1>6, <1>7, <1>8, <1>9, <1>10, <1>11, <1>12, <1>13, <1>14, <1>15, <1>16, <1>17,
     <1>18, <1>19, <1>20, <1>21, <1>22, <1>23, <1>24, <1>25, <1>26, <1>27, <1>28, <1>29, <1>30,
     <1>31, <1>32, <1>33, <1>34, <1>35, <1>36, <1>37 DEF Act, Step

\* A change of what a process has seen keeps its shape.
LEMMA SeenSet ==
    ASSUME NEW s, SeenOk(s), NEW x
    PROVE  SeenOk([s EXCEPT !.state = x])
<1>1. s = [state |-> s.state, revision |-> s.revision, document |-> s.document]
      /\ s.revision \in Nat
  BY DEF SeenOk
<1>2. [s EXCEPT !.state = x]
      = [state |-> x, revision |-> s.revision, document |-> s.document]
  BY <1>1
<1>3. SeenOk([state |-> x, revision |-> s.revision, document |-> s.document])
  BY <1>1 DEF SeenOk
<1>4. QED
  BY <1>2, <1>3

\* What one process has seen is forgotten, or keeps its shape.
LEMMA SeesOne ==
    ASSUME LockTypeOK, OneNewest, NEW p \in Process, Act(p)
    PROVE  /\ seen' = [q \in Process |-> seen'[q]]
           /\ \A q \in Process : q # p => seen'[q] = seen[q]
           /\ SeenOk(seen'[p])
<1>1. seen = [q \in Process |-> seen[q]] /\ SeenOk(seen[p])
  BY DEF LockTypeOK, LocalsOK
<1>2. SeenOk(NothingSeen)
  BY DEF SeenOk, NothingSeen
<1>3. CASE ReadGate(p)
  BY <1>1, <1>2, <1>3 DEF ReadGate
<1>4. CASE ReadAnnounced(p)
  <2> DEFINE x == IF PendingLeases = {} THEN "absent" ELSE "stale"
  <2>1. seen' = seen \/ seen' = [seen EXCEPT ![p].state = x]
    BY <1>4 DEF ReadAnnounced
  <2> HIDE DEF x
  <2>2. SeenOk([seen[p] EXCEPT !.state = x])
    BY <1>1, SeenSet
  <2>3. QED
    BY <1>1, <2>1, <2>2
<1>5. CASE ReadMarker(p)
  BY <1>1, <1>2, <1>5 DEF ReadMarker, Forget
<1>6. CASE CleanMarker(p)
  BY <1>1, <1>2, <1>6 DEF CleanMarker
<1>7. CASE Announce(p)
  BY <1>1, <1>2, <1>7 DEF Announce
<1>8. CASE ReserveFence(p)
  BY <1>1, <1>2, <1>8 DEF ReserveFence
<1>9. CASE CheckHighWater(p)
  BY <1>1, <1>2, <1>9 DEF CheckHighWater
<1>10. CASE WriteHighWater(p)
  BY <1>1, <1>2, <1>10 DEF WriteHighWater
<1>11. CASE TakeMarker(p)
  BY <1>1, <1>2, <1>11 DEF TakeMarker
<1>12. CASE MissMarker(p)
  BY <1>1, <1>2, <1>12 DEF MissMarker, Forget
<1>13. CASE Withdraw(p)
  BY <1>1, <1>2, <1>13 DEF Withdraw
<1>14. CASE AssertMarker(p, "assert", "look")
  BY <1>1, <1>2, <1>14 DEF AssertMarker
<1>15. CASE LookAtLock(p)
  <2>1. PICK x \in ObservedStates("lock") : seen' = [seen EXCEPT ![p].state = x]
    BY <1>15 DEF LookAtLock
  <2>2. SeenOk([seen[p] EXCEPT !.state = x])
    BY <1>1, SeenSet
  <2>3. QED
    BY <1>1, <2>1, <2>2
<1>16. CASE LookAtQuarantine(p)
  BY <1>1, <1>2, <1>16 DEF LookAtQuarantine
<1>17. CASE Evict(p)
  BY <1>1, <1>2, <1>17 DEF Evict
<1>18. CASE Purge(p)
  BY <1>1, <1>2, <1>18 DEF Purge
<1>19. CASE AssertMarker(p, "confirm-marker", "install")
  BY <1>1, <1>2, <1>19 DEF AssertMarker
<1>20. CASE Install(p)
  BY <1>1, <1>2, <1>20 DEF Install
<1>21. CASE GiveMarkerBack(p)
  BY <1>1, <1>2, <1>21 DEF GiveMarkerBack, Forget
<1>22. CASE Prepare(p)
  <2> DEFINE n == IF lease[p].fence = CurrentSnapshot.fence THEN CurrentSnapshot.revision + 1
                  ELSE 0
             next == [state |-> "absent", document |-> Document(p), revision |-> n]
  <2>1. n \in Nat
    BY NewestSnapshot
  <2>2. seen' = seen \/ seen' = [seen EXCEPT ![p] = next]
    BY <1>22 DEF Prepare
  <2>3. SeenOk(next)
    <3> HIDE DEF n
    <3>1. QED
      BY <2>1 DEF SeenOk
  <2> HIDE DEF next
  <2>4. QED
    BY <1>1, <2>2, <2>3
<1>23. CASE AssertOwner(p, "write", "rename")
  BY <1>1, <1>2, <1>23 DEF AssertOwner
<1>24. CASE PublishSnapshot(p)
  BY <1>1, <1>2, <1>24 DEF PublishSnapshot
<1>25. CASE CompactSnapshots(p)
  BY <1>1, <1>2, <1>25 DEF CompactSnapshots
<1>26. CASE PublishEvent(p)
  BY <1>1, <1>2, <1>26 DEF PublishEvent
<1>27. CASE AssertOwner(p, "write-base", "base")
  BY <1>1, <1>2, <1>27 DEF AssertOwner
<1>28. CASE PublishBase(p)
  BY <1>1, <1>2, <1>28 DEF PublishBase
<1>29. CASE AssertOwner(p, "sweep", "swept")
  BY <1>1, <1>2, <1>29 DEF AssertOwner
<1>30. CASE Sweep(p)
  BY <1>1, <1>2, <1>30 DEF Sweep
<1>31. CASE AssertOwner(p, "confirm", "release")
  BY <1>1, <1>2, <1>31 DEF AssertOwner
<1>32. CASE RemoveMarker(p)
  BY <1>1, <1>2, <1>32 DEF RemoveMarker
<1>33. CASE RemoveDirectory(p)
  BY <1>1, <1>2, <1>33 DEF RemoveDirectory, Forget
<1>34. CASE Busy(p)
  BY <1>1, <1>2, <1>34 DEF Busy, Forget
<1>35. CASE ProbeFails(p)
  BY <1>1, <1>2, <1>35 DEF ProbeFails
<1>36. CASE Die(p)
  BY <1>1, <1>2, <1>36 DEF Die, Forget
<1>37. QED
  BY <1>3, <1>4, <1>5, <1>6, <1>7, <1>8, <1>9, <1>10, <1>11, <1>12, <1>13, <1>14, <1>15, <1>16,
     <1>17, <1>18, <1>19, <1>20, <1>21, <1>22, <1>23, <1>24, <1>25, <1>26, <1>27, <1>28, <1>29,
     <1>30, <1>31, <1>32, <1>33, <1>34, <1>35, <1>36 DEF Act, Step

\* A step changes the locals of the process that takes it, and no other's.
LEMMA LocalsOne ==
    ASSUME LockTypeOK, FencesBounded, OneNewest, NEW p \in Process, Act(p)
    PROVE  /\ LocalsOK'
           /\ \A q \in Process : q # p =>
                pc'[q] = pc[q] /\ lease'[q] = lease[q] /\ seen'[q] = seen[q]
<1>1. pc' \in [Process -> Location] /\ \A q \in Process : q # p => pc'[q] = pc[q]
  BY MovesOne DEF LockTypeOK
<1>2. /\ lease' = [q \in Process |-> lease'[q]]
      /\ \A q \in Process : q # p => lease'[q] = lease[q]
      /\ LeaseOk(lease'[p])
  BY LeasesOne
<1>3. /\ seen' = [q \in Process |-> seen'[q]]
      /\ \A q \in Process : q # p => seen'[q] = seen[q]
      /\ SeenOk(seen'[p])
  BY SeesOne
<1>4. \A q \in Process : LeaseOk(lease[q]) /\ SeenOk(seen[q])
  BY DEF LockTypeOK, LocalsOK
<1>5. QED
  BY <1>1, <1>2, <1>3, <1>4 DEF LocalsOK

\* The gates have no lease that was not in one of them or is the step's own.
LEMMA GatesOne ==
    ASSUME LockTypeOK, NEW p \in Process, Act(p)
    PROVE  /\ gate' = [path \in Path |-> gate'[path]]
           /\ \A path \in Path :
                /\ GateOk(gate'[path])
                /\ \A l \in gate'[path].owners :
                     l = lease[p] \/ \E from \in Path : l \in gate[from].owners
<1>1. gate = [path \in Path |-> gate[path]] /\ \A path \in Path : GateOk(gate[path])
  BY DEF LockTypeOK, FilesOK
<1>2. GateOk(Missing) /\ Missing.owners = {}
  BY DEF GateOk, Missing
<1>3. \A S : GateOk(Directory(S)) /\ Directory(S).owners = S
  BY DEF GateOk, Directory
<1>4. Path = {"lock", "reclaim", "quarantine"}
  BY DEF Path
<1>5. CASE ReadGate(p)
  BY <1>1, <1>5 DEF ReadGate, files
<1>6. CASE ReadAnnounced(p)
  BY <1>1, <1>6 DEF ReadAnnounced, files
<1>7. CASE ReadMarker(p)
  BY <1>1, <1>7 DEF ReadMarker, files
<1>8. CASE CleanMarker(p)
  <2> DEFINE left == {l \in LeasesAt("reclaim") : Held(l)}
             g == IF left = {} THEN Missing ELSE Directory(left)
  <2>1. gate' = [gate EXCEPT !["reclaim"] = g]
    BY <1>8 DEF CleanMarker
  <2>2. GateOk(g) /\ \A l \in g.owners : l \in gate["reclaim"].owners
    BY <1>2, <1>3 DEF LeasesAt
  <2> HIDE DEF g
  <2>3. QED
    BY <1>1, <1>4, <2>1, <2>2
<1>9. CASE Announce(p)
  BY <1>1, <1>9 DEF Announce, files
<1>10. CASE ReserveFence(p)
  BY <1>1, <1>10 DEF ReserveFence, files
<1>11. CASE CheckHighWater(p)
  BY <1>1, <1>11 DEF CheckHighWater, files
<1>12. CASE WriteHighWater(p)
  BY <1>1, <1>12 DEF WriteHighWater, files
<1>13. CASE TakeMarker(p)
  <2>1. gate' = [gate EXCEPT !["reclaim"] = Directory({lease[p]})]
    BY <1>13 DEF TakeMarker
  <2>2. \A l \in Directory({lease[p]}).owners : l = lease[p]
    BY <1>3
  <2>3. QED
    BY <1>1, <1>3, <1>4, <2>1, <2>2
<1>14. CASE MissMarker(p)
  BY <1>1, <1>14 DEF MissMarker, files
<1>15. CASE Withdraw(p)
  BY <1>1, <1>15 DEF Withdraw, files
<1>16. CASE AssertMarker(p, "assert", "look")
  BY <1>1, <1>16 DEF AssertMarker, files
<1>17. CASE LookAtLock(p)
  BY <1>1, <1>17 DEF LookAtLock, files
<1>18. CASE LookAtQuarantine(p)
  BY <1>1, <1>18 DEF LookAtQuarantine, files
<1>19. CASE Evict(p)
  <2>1. \/ gate' = [gate EXCEPT !["quarantine"] = gate["lock"], !["lock"] = Missing]
        \/ gate' = [gate EXCEPT !["quarantine"] = Missing]
    BY <1>19 DEF Evict
  <2>2. QED
    BY <1>1, <1>2, <1>4, <2>1
<1>20. CASE Purge(p)
  <2>1. gate' = [gate EXCEPT !["quarantine"] = Missing]
    BY <1>20 DEF Purge
  <2>2. QED
    BY <1>1, <1>2, <1>4, <2>1
<1>21. CASE AssertMarker(p, "confirm-marker", "install")
  BY <1>1, <1>21 DEF AssertMarker, files
<1>22. CASE Install(p)
  <2>1. \/ gate' = [gate EXCEPT !["lock"] = gate["reclaim"], !["reclaim"] = Missing]
        \/ gate' = gate
    BY <1>22 DEF Install
  <2>2. QED
    BY <1>1, <1>2, <1>4, <2>1
<1>23. CASE GiveMarkerBack(p)
  <2> DEFINE left == LeasesAt("reclaim") \ {lease[p]}
             g == IF lease[p] \notin gate["reclaim"].owners THEN gate["reclaim"]
                  ELSE IF left = {} THEN Missing ELSE Directory(left)
  <2>1. gate' = [gate EXCEPT !["reclaim"] = g]
    BY <1>23 DEF GiveMarkerBack
  <2>2. GateOk(g) /\ \A l \in g.owners : l \in gate["reclaim"].owners
    BY <1>1, <1>2, <1>3, <1>4 DEF LeasesAt
  <2> HIDE DEF g
  <2>3. QED
    BY <1>1, <1>4, <2>1, <2>2
<1>24. CASE Prepare(p)
  BY <1>1, <1>24 DEF Prepare, files
<1>25. CASE AssertOwner(p, "write", "rename")
  BY <1>1, <1>25 DEF AssertOwner, files
<1>26. CASE PublishSnapshot(p)
  BY <1>1, <1>26 DEF PublishSnapshot, files
<1>27. CASE CompactSnapshots(p)
  BY <1>1, <1>27 DEF CompactSnapshots, files
<1>28. CASE PublishEvent(p)
  BY <1>1, <1>28 DEF PublishEvent, files
<1>29. CASE AssertOwner(p, "write-base", "base")
  BY <1>1, <1>29 DEF AssertOwner, files
<1>30. CASE PublishBase(p)
  BY <1>1, <1>30 DEF PublishBase, files
<1>31. CASE AssertOwner(p, "sweep", "swept")
  BY <1>1, <1>31 DEF AssertOwner, files
<1>32. CASE Sweep(p)
  BY <1>1, <1>32 DEF Sweep, files
<1>33. CASE AssertOwner(p, "confirm", "release")
  BY <1>1, <1>33 DEF AssertOwner, files
<1>34. CASE RemoveMarker(p)
  <2>1. gate' = [gate EXCEPT !["lock"].owners = @ \ {lease[p]}]
    BY <1>34 DEF RemoveMarker
  <2>2. gate'["lock"] = [gate["lock"] EXCEPT !.owners = @ \ {lease[p]}]
        /\ (\A path \in Path : path # "lock" => gate'[path] = gate[path])
        /\ gate' = [path \in Path |-> gate'[path]]
    BY <1>1, <1>4, <2>1
  <2>3. gate["lock"] = [exists |-> gate["lock"].exists, owners |-> gate["lock"].owners]
    BY <1>1, <1>4 DEF GateOk
  <2>4. gate'["lock"] = [exists |-> gate["lock"].exists,
                        owners |-> gate["lock"].owners \ {lease[p]}]
    BY <2>2, <2>3
  <2>5. QED
    BY <1>1, <1>4, <2>2, <2>4 DEF GateOk
<1>35. CASE RemoveDirectory(p)
  <2> DEFINE g == IF gate["lock"].owners = {} THEN Missing ELSE gate["lock"]
  <2>1. gate' = [gate EXCEPT !["lock"] = g]
    BY <1>35 DEF RemoveDirectory
  <2>2. GateOk(g) /\ \A l \in g.owners : l \in gate["lock"].owners
    BY <1>1, <1>2, <1>4
  <2> HIDE DEF g
  <2>3. QED
    BY <1>1, <1>4, <2>1, <2>2
<1>36. CASE Busy(p)
  BY <1>1, <1>36 DEF Busy, files
<1>37. CASE ProbeFails(p)
  BY <1>1, <1>37 DEF ProbeFails, files
<1>38. CASE Die(p)
  BY <1>1, <1>38 DEF Die, files
<1>39. QED
  BY <1>5, <1>6, <1>7, <1>8, <1>9, <1>10, <1>11, <1>12, <1>13, <1>14, <1>15, <1>16, <1>17,
     <1>18, <1>19, <1>20, <1>21, <1>22, <1>23, <1>24, <1>25, <1>26, <1>27, <1>28, <1>29, <1>30,
     <1>31, <1>32, <1>33, <1>34, <1>35, <1>36, <1>37, <1>38 DEF Act, Step

\* What is stored keeps its types, and its fences are old ones or the step's own.
LEMMA StoresOne ==
    ASSUME LockTypeOK, OneNewest, NEW p \in Process, Act(p)
    PROVE  /\ highWater' \in Nat
           /\ \A s \in snapshots' :
                /\ s.fence \in Nat /\ s.revision \in Nat
                /\ \/ s.fence = lease[p].fence \/ s.fence = 0
                   \/ \E t \in snapshots : s.fence = t.fence
           /\ \A b \in bases' :
                /\ b.fence \in Nat /\ b.name \in Nat
                /\ b.fence = lease[p].fence \/ b \in bases
           /\ \A e \in events' :
                /\ e.fence \in Nat
                /\ e.fence = lease[p].fence \/ e \in events
<1>1. /\ highWater \in Nat
      /\ \A s \in snapshots : s.fence \in Nat /\ s.revision \in Nat
      /\ \A b \in bases : b.fence \in Nat /\ b.name \in Nat
      /\ \A e \in events : e.fence \in Nat
  BY DEF LockTypeOK, FilesOK
<1>2. lease[p].fence \in Nat /\ seen[p].revision \in Nat
  BY DEF LockTypeOK, LocalsOK, LeaseOk, SeenOk
<1>3. CASE ReadGate(p)
  BY <1>1, <1>2, <1>3 DEF ReadGate, files, stored
<1>4. CASE ReadAnnounced(p)
  BY <1>1, <1>2, <1>4 DEF ReadAnnounced, files, stored
<1>5. CASE ReadMarker(p)
  BY <1>1, <1>2, <1>5 DEF ReadMarker, files, stored
<1>6. CASE CleanMarker(p)
  BY <1>1, <1>2, <1>6 DEF CleanMarker, files, stored
<1>7. CASE Announce(p)
  BY <1>1, <1>2, <1>7 DEF Announce, files, stored
<1>8. CASE ReserveFence(p)
  BY <1>1, <1>2, <1>8 DEF ReserveFence, files, stored
<1>9. CASE CheckHighWater(p)
  BY <1>1, <1>2, <1>9 DEF CheckHighWater, files, stored
<1>10. CASE WriteHighWater(p)
  BY <1>1, <1>2, <1>10 DEF WriteHighWater, files, stored
<1>11. CASE TakeMarker(p)
  BY <1>1, <1>2, <1>11 DEF TakeMarker, files, stored
<1>12. CASE MissMarker(p)
  BY <1>1, <1>2, <1>12 DEF MissMarker, files, stored
<1>13. CASE Withdraw(p)
  BY <1>1, <1>2, <1>13 DEF Withdraw, files, stored
<1>14. CASE AssertMarker(p, "assert", "look")
  BY <1>1, <1>2, <1>14 DEF AssertMarker, files, stored
<1>15. CASE LookAtLock(p)
  BY <1>1, <1>2, <1>15 DEF LookAtLock, files, stored
<1>16. CASE LookAtQuarantine(p)
  BY <1>1, <1>2, <1>16 DEF LookAtQuarantine, files, stored
<1>17. CASE Evict(p)
  BY <1>1, <1>2, <1>17 DEF Evict, files, stored
<1>18. CASE Purge(p)
  BY <1>1, <1>2, <1>18 DEF Purge, files, stored
<1>19. CASE AssertMarker(p, "confirm-marker", "install")
  BY <1>1, <1>2, <1>19 DEF AssertMarker, files, stored
<1>20. CASE Install(p)
  BY <1>1, <1>2, <1>20 DEF Install, files, stored
<1>21. CASE GiveMarkerBack(p)
  BY <1>1, <1>2, <1>21 DEF GiveMarkerBack, files, stored
<1>22. CASE Prepare(p)
  BY <1>1, <1>2, <1>22 DEF Prepare, files, stored
<1>23. CASE AssertOwner(p, "write", "rename")
  BY <1>1, <1>2, <1>23 DEF AssertOwner, files, stored
<1>24. CASE PublishSnapshot(p)
  <2> DEFINE s == [fence |-> lease[p].fence, revision |-> seen[p].revision,
                   document |-> seen[p].document \union {p}]
  <2>1. snapshots' = snapshots \union {s} /\ UNCHANGED <<highWater, bases, events>>
    BY <1>24 DEF PublishSnapshot
  <2>2. s.fence = lease[p].fence /\ s.revision = seen[p].revision
    OBVIOUS
  <2> HIDE DEF s
  <2>3. QED
    BY <1>1, <1>2, <2>1, <2>2
<1>25. CASE CompactSnapshots(p)
  <2>1. snapshots' = {CurrentSnapshot}
        /\ UNCHANGED <<highWater, bases, events>>
    BY <1>25 DEF CompactSnapshots
  <2>2. CurrentSnapshot.fence \in Nat /\ CurrentSnapshot.revision \in Nat
        /\ (CurrentSnapshot.fence = 0 \/ CurrentSnapshot \in snapshots)
    BY NewestSnapshot DEF CurrentSnapshot, NoSnapshot
  <2>3. QED
    BY <1>1, <2>1, <2>2
<1>26. CASE PublishEvent(p)
  BY <1>1, <1>2, <1>26 DEF PublishEvent, files, stored
<1>27. CASE AssertOwner(p, "write-base", "base")
  BY <1>1, <1>2, <1>27 DEF AssertOwner, files, stored
<1>28. CASE PublishBase(p)
  BY <1>1, <1>2, <1>28 DEF PublishBase, files, stored
<1>29. CASE AssertOwner(p, "sweep", "swept")
  BY <1>1, <1>2, <1>29 DEF AssertOwner, files, stored
<1>30. CASE Sweep(p)
  BY <1>1, <1>2, <1>30 DEF Sweep, files, stored
<1>31. CASE AssertOwner(p, "confirm", "release")
  BY <1>1, <1>2, <1>31 DEF AssertOwner, files, stored
<1>32. CASE RemoveMarker(p)
  BY <1>1, <1>2, <1>32 DEF RemoveMarker, files, stored
<1>33. CASE RemoveDirectory(p)
  BY <1>1, <1>2, <1>33 DEF RemoveDirectory, files, stored
<1>34. CASE Busy(p)
  BY <1>1, <1>2, <1>34 DEF Busy, files, stored
<1>35. CASE ProbeFails(p)
  BY <1>1, <1>2, <1>35 DEF ProbeFails, files, stored
<1>36. CASE Die(p)
  BY <1>1, <1>2, <1>36 DEF Die, files, stored
<1>37. QED
  BY <1>3, <1>4, <1>5, <1>6, <1>7, <1>8, <1>9, <1>10, <1>11, <1>12, <1>13, <1>14, <1>15, <1>16,
     <1>17, <1>18, <1>19, <1>20, <1>21, <1>22, <1>23, <1>24, <1>25, <1>26, <1>27, <1>28, <1>29,
     <1>30, <1>31, <1>32, <1>33, <1>34, <1>35, <1>36 DEF Act, Step

\* The types and the bound of the fences survive every step.
LEMMA TypesStep ==
    ASSUME LockTypeOK, FencesBounded, OneNewest, [Next]_vars
    PROVE  LockTypeOK' /\ FencesBounded'
<1>1. ASSUME NEW p \in Process, Act(p)
      PROVE  LockTypeOK' /\ FencesBounded'
  <2>1. LocalsOK'
    BY <1>1, LocalsOne
  <2>2. lease[p].fence \in Nat
    BY DEF LockTypeOK, LocalsOK, LeaseOk
  <2>3. now' \in Nat
    <3>1. now' = now
      BY <1>1 DEF Act, Step, Busy, ProbeFails, Die, ReadGate, ReadAnnounced, ReadMarker,
         CleanMarker, Announce, ReserveFence, CheckHighWater, WriteHighWater, TakeMarker,
         MissMarker, Withdraw, AssertMarker, LookAtLock, LookAtQuarantine, Evict, Purge,
         Install, GiveMarkerBack, Prepare, AssertOwner, PublishSnapshot, CompactSnapshots,
         PublishEvent, PublishBase, Sweep, RemoveMarker, RemoveDirectory
    <3>2. QED
      BY <3>1 DEF LockTypeOK
  <2>4. \A path \in Path : \A l \in gate[path].owners : l.fence \in Nat
    BY DEF LockTypeOK, FilesOK, LeasesAt
  <2>5. FilesOK'
    BY <1>1, <2>2, <2>4, GatesOne, StoresOne DEF FilesOK, LeasesAt
  <2>6. FencesBounded'
    <3>1. PICK n \in Nat :
            /\ \A s \in snapshots : s.fence <= n
            /\ \A b \in bases : b.fence <= n
            /\ \A e \in events : e.fence <= n
            /\ \A path \in Path : \A l \in gate[path].owners : l.fence <= n
      BY DEF FencesBounded, LeasesAt
    <3>2. PICK m \in Nat : n <= m /\ lease[p].fence <= m
      <4>1. n <= n + lease[p].fence /\ lease[p].fence <= n + lease[p].fence
            /\ n + lease[p].fence \in Nat
        BY <2>2
      <4>2. QED
        BY <4>1
    <3>3. /\ \A s \in snapshots : s.fence <= m /\ s.fence \in Nat
          /\ \A b \in bases : b.fence <= m
          /\ \A e \in events : e.fence <= m
          /\ \A path \in Path : \A l \in gate[path].owners : l.fence <= m
      BY <2>4, <3>1, <3>2 DEF LockTypeOK, FilesOK
    <3>4. \A s \in snapshots' : s.fence <= m
      BY <1>1, <3>2, <3>3, StoresOne
    <3>5. \A b \in bases' : b.fence <= m
      BY <1>1, <3>2, <3>3, StoresOne
    <3>6. \A e \in events' : e.fence <= m
      BY <1>1, <3>2, <3>3, StoresOne
    <3>7. \A path \in Path : \A l \in gate'[path].owners : l.fence <= m
      BY <1>1, <3>2, <3>3, GatesOne
    <3>8. QED
      BY <3>4, <3>5, <3>6, <3>7 DEF FencesBounded, LeasesAt
  <2>7. QED
    BY <2>1, <2>3, <2>5, <2>6 DEF LockTypeOK
<1>2. CASE Tick \/ UNCHANGED vars
  <2>1. now' \in Nat /\ UNCHANGED <<gate, highWater, snapshots, bases, events, pc, lease, seen>>
    BY <1>2 DEF Tick, vars, files, stored, LockTypeOK
  <2>2. QED
    BY <2>1 DEF LockTypeOK, FilesOK, LocalsOK, FencesBounded, LeasesAt
<1>3. QED
  BY <1>1, <1>2 DEF Next, Act

-----------------------------------------------------------------------------
(* One process at a time                                                   *)

\* Who is alive holds its lease, however late it is.
LEMMA AliveHolds ==
    ASSUME NEW q \in Process, pc[q] # "dead", lease[q].proc = q
    PROVE  Held(lease[q])
BY ProcessAssumption DEF Held

\* One process has the marker, and one is in the lock.
LEMMA OneOwner ==
    ASSUME Exclusion, NEW p \in Process, NEW q \in Process,
           \/ pc[p] \in Marking /\ pc[q] \in Marking
           \/ pc[p] \in Owning /\ pc[q] \in Owning
    PROVE  p = q
<1>1. lease[p].proc = p /\ lease[q].proc = q
  BY DEF Exclusion
<1>2. {lease[p]} = {lease[q]}
  BY DEF Exclusion
<1>3. QED
  BY <1>1, <1>2

\* A step that touches no gate, and gets its process no further than it was.
LEMMA ExclusionKept ==
    ASSUME Exclusion, NEW p \in Process, gate' = gate,
           \A q \in Process : q # p => pc'[q] = pc[q] /\ lease'[q] = lease[q],
           pc'[p] \in Claiming \union Marking \union Owning => lease'[p].proc = p,
           pc'[p] \in Marking => pc[p] \in Marking /\ lease'[p] = lease[p],
           pc'[p] \in Owning => pc[p] \in Owning /\ lease'[p] = lease[p],
           pc'[p] \in Clearing => pc[p] \in Clearing
    PROVE  Exclusion'
BY DEF Exclusion, LeasesAt

\* The conditions of ExclusionKept on the locals of the process that moves.
Settled(p) ==
    /\ gate' = gate
    /\ pc'[p] \in Claiming \union Marking \union Owning => lease'[p].proc = p
    /\ pc'[p] \in Marking => pc[p] \in Marking /\ lease'[p] = lease[p]
    /\ pc'[p] \in Owning => pc[p] \in Owning /\ lease'[p] = lease[p]
    /\ pc'[p] \in Clearing => pc[p] \in Clearing

\* While directories can be listed, every step keeps the gates exclusive.
LEMMA ExclusionOne ==
    ASSUME ListingFails = FALSE, LockTypeOK, FencesBounded, OneNewest, Exclusion,
           NEW p \in Process, Act(p)
    PROVE  Exclusion'
<1>1. /\ pc \in [Process -> Location] /\ lease = [q \in Process |-> lease[q]]
      /\ pc[p] \in Claiming \union Marking \union Owning => lease[p].proc = p
  BY DEF LockTypeOK, LocalsOK, Exclusion
<1>2. \A q \in Process : q # p => pc'[q] = pc[q] /\ lease'[q] = lease[q]
  BY LocalsOne
<1>3. gate = [path \in Path |-> gate[path]] /\ Path = {"lock", "reclaim", "quarantine"}
      /\ \A path \in Path : ~gate[path].exists => gate[path].owners = {}
  BY DEF LockTypeOK, FilesOK, GateOk, Path
<1>4. \A S : Directory(S).owners = S
  BY DEF Directory
<1>5. Settled(p) => Exclusion'
  BY <1>2, ExclusionKept DEF Settled
<1>6. \A q \in Process :
        /\ pc[q] \in Claiming \union Marking \union Owning => lease[q].proc = q
        /\ pc[q] \in Marking => gate["reclaim"].owners = {lease[q]}
        /\ pc[q] \in Owning => gate["lock"].owners = {lease[q]}
        /\ pc[q] \in Clearing => \A r \in Process : pc[r] \notin Owning
  BY DEF Exclusion, LeasesAt
<1>7. (\A q \in Process :
         /\ pc'[q] \in Claiming \union Marking \union Owning => lease'[q].proc = q
         /\ pc'[q] \in Marking => gate'["reclaim"].owners = {lease'[q]}
         /\ pc'[q] \in Owning => gate'["lock"].owners = {lease'[q]}
         /\ pc'[q] \in Clearing => \A r \in Process : pc'[r] \notin Owning) => Exclusion'
  BY DEF Exclusion, LeasesAt
<1>8. CASE ReadGate(p)
  BY <1>1, <1>5, <1>8 DEF ReadGate, Settled, Goto, At, files, Claiming, Marking, Owning,
     Clearing
<1>9. CASE ReadAnnounced(p)
  BY <1>1, <1>5, <1>9 DEF ReadAnnounced, Settled, Goto, At, files, Claiming, Marking, Owning,
     Clearing
<1>10. CASE ReadMarker(p)
  BY <1>1, <1>5, <1>10 DEF ReadMarker, Settled, Goto, At, files, Claiming, Marking, Owning,
     Clearing
<1>11. CASE CleanMarker(p)
  <2> DEFINE left == {l \in LeasesAt("reclaim") : Held(l)}
             g == IF left = {} THEN Missing ELSE Directory(left)
  <2>1. gate' = [gate EXCEPT !["reclaim"] = g] /\ lease' = lease
        /\ pc' = [pc EXCEPT ![p] = "announced"]
    BY <1>11 DEF CleanMarker, Goto
  <2>2. ASSUME NEW q \in Process, gate["reclaim"].owners = {lease[q]}, Held(lease[q])
        PROVE  g.owners = {lease[q]}
    <3>1. left = {lease[q]}
      BY <2>2 DEF LeasesAt
    <3>2. QED
      BY <1>4, <3>1
  <2>3. \A q \in Process : pc[q] \in Marking => Held(lease[q])
    BY <1>6, AliveHolds DEF Marking
  <2> HIDE DEF g
  <2>4. gate'["reclaim"] = g /\ gate'["lock"] = gate["lock"]
    BY <1>3, <2>1
  <2>5. pc'[p] \notin Claiming \union Marking \union Owning \union Clearing
    BY <1>1, <2>1 DEF Claiming, Marking, Owning, Clearing
  <2>6. QED
    BY <1>2, <1>6, <1>7, <2>1, <2>2, <2>3, <2>4, <2>5
<1>12. CASE Announce(p)
  <2> DEFINE claim == [proc |-> p, fence |-> Greatest({now, HighestFence}) + 1,
                       expires |-> Least(now + LeaseTime, MaxTime)]
  <2>1. lease' = [lease EXCEPT ![p] = claim] /\ gate' = gate
        /\ pc' = [pc EXCEPT ![p] = "reserve"]
    BY <1>12 DEF Announce, Goto
  <2>2. claim.proc = p
    OBVIOUS
  <2> HIDE DEF claim
  <2>3. lease'[p].proc = p /\ pc'[p] = "reserve"
    BY <1>1, <2>1, <2>2
  <2>4. QED
    BY <1>5, <2>1, <2>3 DEF Settled, Claiming, Marking, Owning, Clearing
<1>13. CASE ReserveFence(p)
  <2> DEFINE f == Greatest({lease[p].fence, highWater + 1})
  <2>1. f \in Nat
    <3>1. lease[p].fence \in Nat /\ highWater + 1 \in Nat
      BY DEF LockTypeOK, FilesOK, LocalsOK, LeaseOk
    <3>2. QED
      BY <3>1, GreatestOfTwo
  <2>2. lease' = [lease EXCEPT ![p].fence = f] /\ gate' = gate
        /\ pc' = [pc EXCEPT ![p] = "publish"] /\ pc[p] = "reserve"
    BY <1>13 DEF ReserveFence, Goto, At, files
  <2> HIDE DEF f
  <2>3. lease'[p].proc = lease[p].proc /\ pc'[p] = "publish"
    <3>1. LeaseOk(lease[p])
      BY DEF LockTypeOK, LocalsOK
    <3>2. lease'[p] = [proc |-> lease[p].proc, fence |-> f, expires |-> lease[p].expires]
      BY <1>1, <2>1, <2>2, <3>1, FenceSet
    <3>3. pc'[p] = "publish"
      BY <1>1, <2>2
    <3>4. QED
      BY <3>2, <3>3
  <2>4. QED
    BY <1>1, <1>5, <2>2, <2>3 DEF Settled, Claiming, Marking, Owning, Clearing
<1>14. CASE CheckHighWater(p)
  <2>1. highWater + 1 \in Nat
    BY DEF LockTypeOK, FilesOK
  <2>2. /\ lease' = lease \/ lease' = [lease EXCEPT ![p].fence = highWater + 1]
        /\ gate' = gate /\ pc[p] = "publish" /\ pc'[p] \in Claiming
    BY <1>1, <1>14 DEF CheckHighWater, Goto, At, files, Claiming
  <2>3. lease'[p].proc = lease[p].proc
    BY <2>1, <2>2, FenceSet DEF LockTypeOK, LocalsOK
  <2>4. QED
    BY <1>1, <1>5, <2>2, <2>3 DEF Settled, Claiming, Marking, Owning, Clearing
<1>15. CASE WriteHighWater(p)
  BY <1>1, <1>5, <1>15 DEF WriteHighWater, Settled, Goto, At, files, Claiming, Marking, Owning,
     Clearing
<1>16. CASE TakeMarker(p)
  <2>1. gate' = [gate EXCEPT !["reclaim"] = Directory({lease[p]})] /\ lease' = lease
        /\ pc' = [pc EXCEPT ![p] = "taken"] /\ pc[p] = "stage"
        /\ gate["reclaim"].owners = {}
    BY <1>16 DEF TakeMarker, Goto, At, LeasesAt
  <2>2. \A q \in Process : pc[q] \notin Marking
    BY <1>6, <2>1
  <2>3. gate'["reclaim"].owners = {lease[p]} /\ gate'["lock"] = gate["lock"]
    BY <1>3, <1>4, <2>1
  <2>4. pc'[p] = "taken" /\ lease[p].proc = p
    BY <1>1, <2>1 DEF Claiming
  <2>5. \A q \in Process : pc'[q] \notin Clearing
    BY <1>2, <2>2, <2>4 DEF Clearing, Marking
  <2>6. pc'[p] \notin Owning
    BY <2>4 DEF Owning
  <2>7. QED
    BY <1>2, <1>6, <1>7, <2>1, <2>2, <2>3, <2>4, <2>5, <2>6
<1>17. CASE MissMarker(p)
  BY <1>1, <1>5, <1>17 DEF MissMarker, Settled, Goto, At, files, Claiming, Marking, Owning,
     Clearing
<1>18. CASE Withdraw(p)
  BY <1>1, <1>5, <1>18 DEF Withdraw, Settled, Goto, At, files, Claiming, Marking, Owning,
     Clearing
<1>19. CASE AssertMarker(p, "assert", "look")
  BY <1>1, <1>5, <1>19 DEF AssertMarker, Settled, Goto, At, files, Claiming, Marking, Owning,
     Clearing
<1>20. CASE LookAtLock(p)
  <2>1. PICK state \in ObservedStates("lock") :
          pc' = [pc EXCEPT ![p] = IF state = "held" THEN "yield" ELSE "quarantine"]
    BY <1>20 DEF LookAtLock, Goto
  <2>2. state = GateState("lock") /\ gate' = gate /\ lease' = lease /\ pc[p] = "look"
    BY <2>1, <1>20 DEF ObservedStates, LookAtLock, At, files
  <2>3. CASE state = "held"
    <3>1. pc'[p] = "yield"
      BY <1>1, <2>1, <2>3
    <3>2. QED
      BY <1>1, <1>5, <2>2, <3>1 DEF Settled, Claiming, Marking, Owning, Clearing
  <2>4. CASE state # "held"
    <3>1. ASSUME NEW q \in Process, pc[q] \in Owning PROVE FALSE
      <4>1. gate["lock"].owners = {lease[q]} /\ Held(lease[q])
        BY <1>6, <3>1, AliveHolds DEF Owning
      <4>2. GateState("lock") = "held"
        BY <1>3, <4>1 DEF GateState, LeasesAt
      <4>3. QED
        BY <2>2, <2>4, <4>2
    <3>2. pc'[p] = "quarantine"
      BY <1>1, <2>1, <2>4
    <3>3. pc'[p] \notin Owning /\ pc[p] \in Marking
      BY <2>2, <3>2 DEF Owning, Marking
    <3>4. QED
      BY <1>2, <1>6, <1>7, <2>2, <3>1, <3>3
  <2>5. QED
    BY <2>3, <2>4
<1>21. CASE LookAtQuarantine(p)
  BY <1>1, <1>5, <1>21 DEF LookAtQuarantine, Settled, Goto, At, files, Claiming, Marking,
     Owning, Clearing
<1>22. CASE Evict(p)
  <2>1. gate'["reclaim"] = gate["reclaim"] /\ lease' = lease /\ pc[p] = "evict"
        /\ pc'[p] \in {"purge", "yield", "confirm-marker"}
    BY <1>1, <1>3, <1>22 DEF Evict, Goto, At
  <2>2. \A q \in Process : pc[q] \notin Owning
    BY <1>6, <2>1 DEF Clearing
  <2>3. pc'[p] \notin Owning /\ pc[p] \in Marking
    BY <2>1 DEF Owning, Marking
  <2>4. QED
    BY <1>2, <1>6, <1>7, <2>1, <2>2, <2>3
<1>23. CASE Purge(p)
  <2>1. gate'["reclaim"] = gate["reclaim"] /\ lease' = lease /\ pc[p] = "purge"
        /\ pc'[p] \in {"purge", "yield", "confirm-marker"}
    BY <1>1, <1>3, <1>23 DEF Purge, Goto, At
  <2>2. \A q \in Process : pc[q] \notin Owning
    BY <1>6, <2>1 DEF Clearing
  <2>3. pc'[p] \notin Owning /\ pc[p] \in Marking
    BY <2>1 DEF Owning, Marking
  <2>4. QED
    BY <1>2, <1>6, <1>7, <2>1, <2>2, <2>3
<1>24. CASE AssertMarker(p, "confirm-marker", "install")
  BY <1>1, <1>5, <1>24 DEF AssertMarker, Settled, Goto, At, files, Claiming, Marking, Owning,
     Clearing
<1>25. CASE Install(p)
  <2>1. CASE gate' = gate
    <3>1. lease' = lease /\ pc[p] = "install" /\ pc'[p] = "yield"
      BY <1>1, <1>3, <1>6, <2>1, <1>25 DEF Install, Goto, At, Marking, Missing
    <3>2. QED
      BY <1>1, <1>5, <2>1, <3>1 DEF Settled, Claiming, Marking, Owning, Clearing
  <2>2. CASE gate' # gate
    <3>1. gate' = [gate EXCEPT !["lock"] = gate["reclaim"], !["reclaim"] = Missing]
          /\ lease' = lease /\ pc[p] = "install" /\ pc' = [pc EXCEPT ![p] = "inside"]
      BY <2>2, <1>25 DEF Install, Goto, At
    <3>2. pc[p] \in Marking /\ pc[p] \in Clearing /\ pc'[p] = "inside"
      BY <1>1, <3>1 DEF Marking, Clearing
    <3>3. gate'["lock"].owners = {lease[p]}
      BY <1>3, <1>6, <3>1, <3>2
    <3>4. \A q \in Process : q # p => pc'[q] \notin Marking
      BY <1>2, <3>2, OneOwner
    <3>5. pc'[p] \notin Marking /\ \A q \in Process : pc'[q] \in Clearing => pc'[q] \in Marking
      BY <3>2 DEF Marking, Clearing
    <3>6. QED
      BY <1>2, <1>6, <1>7, <3>1, <3>2, <3>3, <3>4, <3>5
  <2>3. QED
    BY <2>1, <2>2
<1>26. CASE GiveMarkerBack(p)
  <2>1. pc[p] \in {"yield", "fail"} /\ pc'[p] \in {"gate", "threw"}
        /\ gate'["lock"] = gate["lock"]
    BY <1>1, <1>3, <1>26 DEF GiveMarkerBack, Goto
  <2>2. \A q \in Process : q # p => pc[q] \notin Marking
    BY <2>1, OneOwner DEF Marking
  <2>3. pc'[p] \notin Claiming \union Marking \union Owning \union Clearing
    BY <2>1 DEF Claiming, Marking, Owning, Clearing
  <2>4. QED
    BY <1>2, <1>6, <1>7, <2>1, <2>2, <2>3
<1>27. CASE Prepare(p)
  BY <1>1, <1>5, <1>27 DEF Prepare, Settled, Goto, At, files, Claiming, Marking, Owning,
     Clearing
<1>28. CASE AssertOwner(p, "write", "rename")
  BY <1>1, <1>5, <1>28 DEF AssertOwner, Settled, Goto, At, files, Claiming, Marking, Owning,
     Clearing
<1>29. CASE PublishSnapshot(p)
  BY <1>1, <1>5, <1>29 DEF PublishSnapshot, Settled, Goto, At, files, Claiming, Marking, Owning,
     Clearing
<1>30. CASE CompactSnapshots(p)
  BY <1>1, <1>5, <1>30 DEF CompactSnapshots, Settled, Goto, At, files, Claiming, Marking,
     Owning, Clearing
<1>31. CASE PublishEvent(p)
  BY <1>1, <1>5, <1>31 DEF PublishEvent, Settled, Goto, At, files, Claiming, Marking, Owning,
     Clearing
<1>32. CASE AssertOwner(p, "write-base", "base")
  BY <1>1, <1>5, <1>32 DEF AssertOwner, Settled, Goto, At, files, Claiming, Marking, Owning,
     Clearing
<1>33. CASE PublishBase(p)
  BY <1>1, <1>5, <1>33 DEF PublishBase, Settled, Goto, At, files, Claiming, Marking, Owning,
     Clearing
<1>34. CASE AssertOwner(p, "sweep", "swept")
  BY <1>1, <1>5, <1>34 DEF AssertOwner, Settled, Goto, At, files, Claiming, Marking, Owning,
     Clearing
<1>35. CASE Sweep(p)
  BY <1>1, <1>5, <1>35 DEF Sweep, Settled, Goto, At, files, Claiming, Marking, Owning, Clearing
<1>36. CASE AssertOwner(p, "confirm", "release")
  BY <1>1, <1>5, <1>36 DEF AssertOwner, Settled, Goto, At, files, Claiming, Marking, Owning,
     Clearing
<1>37. CASE RemoveMarker(p)
  <2>1. pc[p] \in {"release", "abandon"} /\ pc'[p] \in {"leave", "leave-failed"}
        /\ gate'["reclaim"] = gate["reclaim"]
    BY <1>1, <1>3, <1>37 DEF RemoveMarker, Goto, At
  <2>2. \A q \in Process : q # p => pc[q] \notin Owning
    BY <2>1, OneOwner DEF Owning
  <2>3. pc'[p] \notin Claiming \union Marking \union Owning \union Clearing
    BY <2>1 DEF Claiming, Marking, Owning, Clearing
  <2>4. QED
    BY <1>2, <1>6, <1>7, <2>1, <2>2, <2>3
<1>38. CASE RemoveDirectory(p)
  <2>1. pc'[p] \in {"done", "threw"} /\ gate'["reclaim"] = gate["reclaim"]
        /\ (gate["lock"].owners # {} => gate'["lock"] = gate["lock"])
    BY <1>1, <1>3, <1>38 DEF RemoveDirectory, Goto, At
  <2>2. pc'[p] \notin Claiming \union Marking \union Owning \union Clearing
    BY <2>1 DEF Claiming, Marking, Owning, Clearing
  <2>3. QED
    BY <1>2, <1>6, <1>7, <2>1, <2>2
<1>39. CASE Busy(p)
  BY <1>1, <1>5, <1>39 DEF Busy, Settled, Goto, At, files, Claiming, Marking, Owning, Clearing
<1>40. CASE ProbeFails(p)
  BY <1>1, <1>5, <1>40 DEF ProbeFails, Settled, Goto, At, files, Claiming, Marking, Owning,
     Clearing
<1>41. CASE Die(p)
  BY <1>1, <1>5, <1>41 DEF Die, Ended, Settled, Goto, At, files, Claiming, Marking, Owning,
     Clearing
<1>42. QED
  BY <1>8, <1>9, <1>10, <1>11, <1>12, <1>13, <1>14, <1>15, <1>16, <1>17, <1>18, <1>19, <1>20,
     <1>21, <1>22, <1>23, <1>24, <1>25, <1>26, <1>27, <1>28, <1>29, <1>30, <1>31, <1>32, <1>33,
     <1>34, <1>35, <1>36, <1>37, <1>38, <1>39, <1>40, <1>41 DEF Act, Step

-----------------------------------------------------------------------------
(* The records                                                             *)

\* Steps that write the records and steps that append stay apart.
LEMMA OwnOperationOne ==
    ASSUME LockTypeOK, OwnOperation, NEW p \in Process, Act(p)
    PROVE  OwnOperation'
<1>1. pc \in [Process -> Location] /\ \A q \in Process : q # p => pc'[q] = pc[q]
  BY MovesOne DEF LockTypeOK, LocalsOK
<1>2. (/\ pc'[p] \in {"write-base", "base", "sweep", "swept"} => p \in Appends
       /\ pc'[p] = "compact" => p \notin Appends) => OwnOperation'
  BY <1>1 DEF OwnOperation
<1>3. /\ pc[p] \in {"write-base", "base", "sweep", "swept"} => p \in Appends
      /\ pc[p] = "compact" => p \notin Appends
  BY DEF OwnOperation
<1>4. CASE ReadGate(p)
  BY <1>1, <1>2, <1>3, <1>4 DEF ReadGate, Goto, At
<1>5. CASE ReadAnnounced(p)
  BY <1>1, <1>2, <1>3, <1>5 DEF ReadAnnounced, Goto, At
<1>6. CASE ReadMarker(p)
  BY <1>1, <1>2, <1>3, <1>6 DEF ReadMarker, Goto, At
<1>7. CASE CleanMarker(p)
  BY <1>1, <1>2, <1>3, <1>7 DEF CleanMarker, Goto, At
<1>8. CASE Announce(p)
  BY <1>1, <1>2, <1>3, <1>8 DEF Announce, Goto, At
<1>9. CASE ReserveFence(p)
  BY <1>1, <1>2, <1>3, <1>9 DEF ReserveFence, Goto, At
<1>10. CASE CheckHighWater(p)
  BY <1>1, <1>2, <1>3, <1>10 DEF CheckHighWater, Goto, At
<1>11. CASE WriteHighWater(p)
  BY <1>1, <1>2, <1>3, <1>11 DEF WriteHighWater, Goto, At
<1>12. CASE TakeMarker(p)
  BY <1>1, <1>2, <1>3, <1>12 DEF TakeMarker, Goto, At
<1>13. CASE MissMarker(p)
  BY <1>1, <1>2, <1>3, <1>13 DEF MissMarker, Goto, At
<1>14. CASE Withdraw(p)
  BY <1>1, <1>2, <1>3, <1>14 DEF Withdraw, Goto, At
<1>15. CASE AssertMarker(p, "assert", "look")
  BY <1>1, <1>2, <1>3, <1>15 DEF AssertMarker, Goto, At
<1>16. CASE LookAtLock(p)
  BY <1>1, <1>2, <1>3, <1>16 DEF LookAtLock, Goto, At
<1>17. CASE LookAtQuarantine(p)
  BY <1>1, <1>2, <1>3, <1>17 DEF LookAtQuarantine, Goto, At
<1>18. CASE Evict(p)
  BY <1>1, <1>2, <1>3, <1>18 DEF Evict, Goto, At
<1>19. CASE Purge(p)
  BY <1>1, <1>2, <1>3, <1>19 DEF Purge, Goto, At
<1>20. CASE AssertMarker(p, "confirm-marker", "install")
  BY <1>1, <1>2, <1>3, <1>20 DEF AssertMarker, Goto, At
<1>21. CASE Install(p)
  BY <1>1, <1>2, <1>3, <1>21 DEF Install, Goto, At
<1>22. CASE GiveMarkerBack(p)
  BY <1>1, <1>2, <1>3, <1>22 DEF GiveMarkerBack, Goto, At
<1>23. CASE Prepare(p)
  BY <1>1, <1>2, <1>3, <1>23 DEF Prepare, Goto, At
<1>24. CASE AssertOwner(p, "write", "rename")
  BY <1>1, <1>2, <1>3, <1>24 DEF AssertOwner, Goto, At
<1>25. CASE PublishSnapshot(p)
  BY <1>1, <1>2, <1>3, <1>25 DEF PublishSnapshot, Goto, At
<1>26. CASE CompactSnapshots(p)
  BY <1>1, <1>2, <1>3, <1>26 DEF CompactSnapshots, Goto, At
<1>27. CASE PublishEvent(p)
  BY <1>1, <1>2, <1>3, <1>27 DEF PublishEvent, Goto, At
<1>28. CASE AssertOwner(p, "write-base", "base")
  BY <1>1, <1>2, <1>3, <1>28 DEF AssertOwner, Goto, At
<1>29. CASE PublishBase(p)
  BY <1>1, <1>2, <1>3, <1>29 DEF PublishBase, Goto, At
<1>30. CASE AssertOwner(p, "sweep", "swept")
  BY <1>1, <1>2, <1>3, <1>30 DEF AssertOwner, Goto, At
<1>31. CASE Sweep(p)
  BY <1>1, <1>2, <1>3, <1>31 DEF Sweep, Goto, At
<1>32. CASE AssertOwner(p, "confirm", "release")
  BY <1>1, <1>2, <1>3, <1>32 DEF AssertOwner, Goto, At
<1>33. CASE RemoveMarker(p)
  BY <1>1, <1>2, <1>3, <1>33 DEF RemoveMarker, Goto, At
<1>34. CASE RemoveDirectory(p)
  BY <1>1, <1>2, <1>3, <1>34 DEF RemoveDirectory, Goto, At
<1>35. CASE Busy(p)
  BY <1>1, <1>2, <1>3, <1>35 DEF Busy, Goto, At
<1>36. CASE ProbeFails(p)
  BY <1>1, <1>2, <1>3, <1>36 DEF ProbeFails, Goto, At
<1>37. CASE Die(p)
  BY <1>1, <1>2, <1>3, <1>37 DEF Die, Ended, Goto, At
<1>38. QED
  BY <1>4, <1>5, <1>6, <1>7, <1>8, <1>9, <1>10, <1>11, <1>12, <1>13, <1>14, <1>15, <1>16, <1>17,
     <1>18, <1>19, <1>20, <1>21, <1>22, <1>23, <1>24, <1>25, <1>26, <1>27, <1>28, <1>29, <1>30,
     <1>31, <1>32, <1>33, <1>34, <1>35, <1>36, <1>37 DEF Act, Step

\* A step that leaves the snapshots, and gets its process no further with one.
SettledRecords(p) ==
    /\ snapshots' = snapshots
    /\ p \notin Appends /\ pc'[p] \in {"write", "rename"} =>
         pc[p] \in {"write", "rename"} /\ lease'[p] = lease[p] /\ seen'[p] = seen[p]
    /\ p \notin Appends /\ pc'[p] \in {"compact", "confirm", "release", "leave", "done"} =>
         pc[p] \in {"compact", "confirm", "release", "leave", "done"}

\* Such a step keeps what holds of the snapshots.
LEMMA RecordsKept ==
    ASSUME OneNewest, SnapshotPrepared, SnapshotKept, NEW p \in Process, SettledRecords(p),
           \A q \in Process : q # p =>
               pc'[q] = pc[q] /\ lease'[q] = lease[q] /\ seen'[q] = seen[q]
    PROVE  /\ OneNewest' /\ SnapshotPrepared' /\ SnapshotKept'
           /\ CurrentSnapshot' = CurrentSnapshot
<1>1. CurrentSnapshot' = CurrentSnapshot
  BY DEF SettledRecords, CurrentSnapshot
<1>2. OneNewest'
  BY DEF SettledRecords, OneNewest
<1>3. SnapshotPrepared'
  BY <1>1 DEF SettledRecords, SnapshotPrepared
<1>4. SnapshotKept'
  BY <1>1 DEF SettledRecords, SnapshotKept
<1>5. QED
  BY <1>1, <1>2, <1>3, <1>4

\* The process inside is the only one that prepares or publishes anything.
LEMMA AloneInside ==
    ASSUME Exclusion, NEW p \in Process, pc[p] \in Owning, NEW q \in Process, q # p
    PROVE  pc[q] \notin Owning
BY OneOwner

\* Every step keeps one newest snapshot, what is prepared and what was published, and
\* adds the process that publishes to the records.
LEMMA RecordsOne ==
    ASSUME LockInv, NEW p \in Process, Act(p)
    PROVE  /\ OneNewest' /\ SnapshotPrepared' /\ SnapshotKept'
           /\ CurrentSnapshot'.document =
                IF PublishSnapshot(p) THEN CurrentSnapshot.document \union {p}
                ELSE CurrentSnapshot.document
<1>1. \A q \in Process : q # p =>
          pc'[q] = pc[q] /\ lease'[q] = lease[q] /\ seen'[q] = seen[q]
  BY LocalsOne DEF LockInv
<1>2. SettledRecords(p) => /\ OneNewest' /\ SnapshotPrepared' /\ SnapshotKept'
                           /\ CurrentSnapshot' = CurrentSnapshot
  BY <1>1, RecordsKept DEF LockInv
<1>3. pc \in [Process -> Location] /\ lease = [q \in Process |-> lease[q]]
      /\ seen = [q \in Process |-> seen[q]]
  BY DEF LockInv, LockTypeOK, LocalsOK
<1>4. pc[p] \in {"write-base", "base", "sweep", "swept"} => p \in Appends
  BY DEF LockInv, OwnOperation
<1>5. /\ CurrentSnapshot.fence \in Nat /\ CurrentSnapshot.revision \in Nat
      /\ snapshots # {} => CurrentSnapshot \in snapshots
      /\ \A t \in snapshots : t # CurrentSnapshot => Sharper(CurrentSnapshot, t)
  BY NewestSnapshot DEF LockInv
<1>6. \A s \in snapshots : s.fence \in Nat /\ s.revision \in Nat
  BY DEF LockInv, LockTypeOK, FilesOK
<1>7. lease[p].fence \in Nat /\ seen[p].revision \in Nat
  BY DEF LockInv, LockTypeOK, LocalsOK, LeaseOk, SeenOk
<1>8. CASE ReadGate(p)
  BY <1>2, <1>3, <1>4, <1>8 DEF ReadGate, SettledRecords, PublishSnapshot, Goto, At, files,
     stored
<1>9. CASE ReadAnnounced(p)
  BY <1>2, <1>3, <1>4, <1>9 DEF ReadAnnounced, SettledRecords, PublishSnapshot, Goto, At, files,
     stored
<1>10. CASE ReadMarker(p)
  BY <1>2, <1>3, <1>4, <1>10 DEF ReadMarker, SettledRecords, PublishSnapshot, Goto, At, files,
     stored
<1>11. CASE CleanMarker(p)
  BY <1>2, <1>3, <1>4, <1>11 DEF CleanMarker, SettledRecords, PublishSnapshot, Goto, At, files,
     stored
<1>12. CASE Announce(p)
  BY <1>2, <1>3, <1>4, <1>12 DEF Announce, SettledRecords, PublishSnapshot, Goto, At, files,
     stored
<1>13. CASE ReserveFence(p)
  BY <1>2, <1>3, <1>4, <1>13 DEF ReserveFence, SettledRecords, PublishSnapshot, Goto, At, files,
     stored
<1>14. CASE CheckHighWater(p)
  BY <1>2, <1>3, <1>4, <1>14 DEF CheckHighWater, SettledRecords, PublishSnapshot, Goto, At,
     files, stored
<1>15. CASE WriteHighWater(p)
  BY <1>2, <1>3, <1>4, <1>15 DEF WriteHighWater, SettledRecords, PublishSnapshot, Goto, At,
     files, stored
<1>16. CASE TakeMarker(p)
  BY <1>2, <1>3, <1>4, <1>16 DEF TakeMarker, SettledRecords, PublishSnapshot, Goto, At, files,
     stored
<1>17. CASE MissMarker(p)
  BY <1>2, <1>3, <1>4, <1>17 DEF MissMarker, SettledRecords, PublishSnapshot, Goto, At, files,
     stored
<1>18. CASE Withdraw(p)
  BY <1>2, <1>3, <1>4, <1>18 DEF Withdraw, SettledRecords, PublishSnapshot, Goto, At, files,
     stored
<1>19. CASE AssertMarker(p, "assert", "look")
  BY <1>2, <1>3, <1>4, <1>19 DEF AssertMarker, SettledRecords, PublishSnapshot, Goto, At, files,
     stored
<1>20. CASE LookAtLock(p)
  BY <1>2, <1>3, <1>4, <1>20 DEF LookAtLock, SettledRecords, PublishSnapshot, Goto, At, files,
     stored
<1>21. CASE LookAtQuarantine(p)
  BY <1>2, <1>3, <1>4, <1>21 DEF LookAtQuarantine, SettledRecords, PublishSnapshot, Goto, At,
     files, stored
<1>22. CASE Evict(p)
  BY <1>2, <1>3, <1>4, <1>22 DEF Evict, SettledRecords, PublishSnapshot, Goto, At, files, stored
<1>23. CASE Purge(p)
  BY <1>2, <1>3, <1>4, <1>23 DEF Purge, SettledRecords, PublishSnapshot, Goto, At, files, stored
<1>24. CASE AssertMarker(p, "confirm-marker", "install")
  BY <1>2, <1>3, <1>4, <1>24 DEF AssertMarker, SettledRecords, PublishSnapshot, Goto, At, files,
     stored
<1>25. CASE Install(p)
  BY <1>2, <1>3, <1>4, <1>25 DEF Install, SettledRecords, PublishSnapshot, Goto, At, files,
     stored
<1>26. CASE GiveMarkerBack(p)
  BY <1>2, <1>3, <1>4, <1>26 DEF GiveMarkerBack, SettledRecords, PublishSnapshot, Goto, At,
     files, stored
<1>27. CASE Prepare(p)
  <2>0. ~PublishSnapshot(p)
    BY <1>27 DEF Prepare, PublishSnapshot, At
  <2> DEFINE n == IF lease[p].fence = CurrentSnapshot.fence THEN CurrentSnapshot.revision + 1
                  ELSE 0
             next == [state |-> "absent", document |-> Document(p), revision |-> n]
  <2>1. CASE pc'[p] # "write" \/ p \in Appends
    <3>1. pc'[p] \in {"write", "abandon"} /\ snapshots' = snapshots
      BY <1>3, <1>27 DEF Prepare, Goto, files, stored
    <3>2. QED
      BY <1>2, <2>0, <2>1, <3>1 DEF SettledRecords
  <2>2. CASE pc'[p] = "write" /\ p \notin Appends
    <3>1. /\ lease[p].fence >= StoredFence(p)
          /\ seen' = [seen EXCEPT ![p] = next]
          /\ snapshots' = snapshots /\ lease' = lease
      <4>1. \/ pc' = [pc EXCEPT ![p] = "abandon"]
            \/ ~(lease[p].fence < StoredFence(p)) /\ seen' = [seen EXCEPT ![p] = next]
        BY <1>27 DEF Prepare, Goto
      <4>2. StoredFence(p) = CurrentSnapshot.fence
        BY <2>2 DEF StoredFence
      <4>3. pc' # [pc EXCEPT ![p] = "abandon"]
        BY <1>3, <2>2
      <4>4. snapshots' = snapshots /\ lease' = lease
        BY <1>27 DEF Prepare, files, stored
      <4>5. QED
        BY <1>5, <1>7, <4>1, <4>2, <4>3, <4>4
    <3>2. lease[p].fence >= CurrentSnapshot.fence
          /\ (lease[p].fence = CurrentSnapshot.fence => n > CurrentSnapshot.revision)
      BY <1>5, <2>2, <3>1 DEF StoredFence
    <3>3. next.document = CurrentSnapshot.document /\ next.revision = n
      BY <2>2 DEF Document
    <3> HIDE DEF n, next
    <3>4. seen'[p] = next
      BY <1>3, <3>1
    <3>5. CurrentSnapshot' = CurrentSnapshot
      BY <3>1 DEF CurrentSnapshot
    <3>6. OneNewest'
      BY <3>1 DEF LockInv, OneNewest
    <3>7. SnapshotPrepared'
      BY <1>1, <3>1, <3>2, <3>3, <3>4, <3>5 DEF LockInv, SnapshotPrepared
    <3>8. SnapshotKept'
      BY <1>1, <2>2, <3>5 DEF LockInv, SnapshotKept
    <3>9. QED
      BY <2>0, <3>5, <3>6, <3>7, <3>8
  <2>3. QED
    BY <2>1, <2>2
<1>28. CASE AssertOwner(p, "write", "rename")
  BY <1>2, <1>3, <1>4, <1>28 DEF AssertOwner, SettledRecords, PublishSnapshot, Goto, At, files,
     stored
<1>29. CASE PublishSnapshot(p)
  <2> DEFINE s == [fence |-> lease[p].fence, revision |-> seen[p].revision,
                   document |-> seen[p].document \union {p}]
  <2>1. /\ snapshots' = snapshots \union {s} /\ p \notin Appends /\ pc[p] = "rename"
        /\ pc'[p] = "compact"
    BY <1>3, <1>29 DEF PublishSnapshot, At, Goto
  <2>2. /\ s.fence = lease[p].fence /\ s.revision = seen[p].revision
        /\ s.document = seen[p].document \union {p}
    OBVIOUS
  <2> HIDE DEF s
  <2>3. /\ seen[p].document = CurrentSnapshot.document
        /\ lease[p].fence >= CurrentSnapshot.fence
        /\ lease[p].fence = CurrentSnapshot.fence => seen[p].revision > CurrentSnapshot.revision
    BY <2>1 DEF LockInv, SnapshotPrepared
  <2>4. Sharper(s, CurrentSnapshot)
    BY <1>5, <1>7, <2>2, <2>3 DEF Sharper
  <2>5. \A t \in snapshots : Sharper(s, t)
    BY <1>5, <1>6, <1>7, <2>2, <2>4 DEF Sharper
  <2>6. \A t \in snapshots' \ {s} : Sharper(s, t)
    BY <2>1, <2>5
  <2>7. OneNewest'
    BY <2>1, <2>6 DEF OneNewest, Sharper
  <2>8. CurrentSnapshot' = s
    <3>1. \A t \in snapshots' : t.fence \in Nat /\ t.revision \in Nat
      BY <1>6, <1>7, <2>1, <2>2
    <3>2. \A t \in snapshots' : Newer(s, t)
      BY <1>7, <2>2, <2>6, <3>1 DEF Newer, Sharper
    <3>3. s \in snapshots'
      BY <2>1
    <3>4. CurrentSnapshot' \in snapshots' /\ \A t \in snapshots' : Newer(CurrentSnapshot', t)
      BY <3>2, <3>3 DEF CurrentSnapshot, Newer
    <3>5. Newer(CurrentSnapshot', s)
      BY <3>3, <3>4
    <3>6. QED
      BY <1>7, <2>2, <2>6, <3>1, <3>4, <3>5 DEF Newer, Sharper
  <2>9. \A q \in Process : q # p => pc'[q] \notin {"write", "rename"}
    BY <1>1, <2>1, AloneInside DEF Owning, LockInv
  <2>10. SnapshotPrepared'
    BY <2>1, <2>9 DEF SnapshotPrepared
  <2>11. CurrentSnapshot.document \subseteq s.document /\ p \in s.document
    BY <2>2, <2>3
  <2>12. SnapshotKept'
    BY <1>1, <2>8, <2>11 DEF LockInv, SnapshotKept
  <2>13. QED
    BY <2>2, <2>3, <2>7, <2>8, <2>10, <2>12, <1>29
<1>30. CASE CompactSnapshots(p)
  <2>1. snapshots' = {CurrentSnapshot} /\ pc[p] = "compact" /\ pc'[p] = "confirm"
    BY <1>3, <1>30 DEF CompactSnapshots, At, Goto
  <2>2. CurrentSnapshot' = CurrentSnapshot
    <3>1. snapshots' # {}
      BY <2>1
    <3>2. \A t \in snapshots' : Newer(CurrentSnapshot, t)
      BY <1>5, <2>1 DEF Newer
    <3>3. CurrentSnapshot' \in snapshots'
      BY <2>1, <3>1, <3>2 DEF CurrentSnapshot, Newer
    <3>4. QED
      BY <2>1, <3>3
  <2>3. OneNewest'
    BY <2>1 DEF OneNewest
  <2>4. SnapshotPrepared'
    <3>1. \A q \in Process : q # p => pc'[q] \notin {"write", "rename"}
      BY <1>1, <2>1, AloneInside DEF Owning, LockInv
    <3>2. QED
      BY <2>1, <3>1 DEF SnapshotPrepared
  <2>5. SnapshotKept'
    BY <1>1, <2>1, <2>2 DEF LockInv, SnapshotKept
  <2>6. ~PublishSnapshot(p)
    BY <2>1 DEF PublishSnapshot, At
  <2>7. QED
    BY <2>2, <2>3, <2>4, <2>5, <2>6
<1>31. CASE PublishEvent(p)
  BY <1>2, <1>3, <1>4, <1>31 DEF PublishEvent, SettledRecords, PublishSnapshot, Goto, At, files,
     stored
<1>32. CASE AssertOwner(p, "write-base", "base")
  BY <1>2, <1>3, <1>4, <1>32 DEF AssertOwner, SettledRecords, PublishSnapshot, Goto, At, files,
     stored
<1>33. CASE PublishBase(p)
  BY <1>2, <1>3, <1>4, <1>33 DEF PublishBase, SettledRecords, PublishSnapshot, Goto, At, files,
     stored
<1>34. CASE AssertOwner(p, "sweep", "swept")
  BY <1>2, <1>3, <1>4, <1>34 DEF AssertOwner, SettledRecords, PublishSnapshot, Goto, At, files,
     stored
<1>35. CASE Sweep(p)
  BY <1>2, <1>3, <1>4, <1>35 DEF Sweep, SettledRecords, PublishSnapshot, Goto, At, files, stored
<1>36. CASE AssertOwner(p, "confirm", "release")
  BY <1>2, <1>3, <1>4, <1>36 DEF AssertOwner, SettledRecords, PublishSnapshot, Goto, At, files,
     stored
<1>37. CASE RemoveMarker(p)
  BY <1>2, <1>3, <1>4, <1>37 DEF RemoveMarker, SettledRecords, PublishSnapshot, Goto, At, files,
     stored
<1>38. CASE RemoveDirectory(p)
  BY <1>2, <1>3, <1>4, <1>38 DEF RemoveDirectory, SettledRecords, PublishSnapshot, Goto, At,
     files, stored
<1>39. CASE Busy(p)
  BY <1>2, <1>3, <1>4, <1>39 DEF Busy, SettledRecords, PublishSnapshot, Goto, At, files, stored
<1>40. CASE ProbeFails(p)
  BY <1>2, <1>3, <1>4, <1>40 DEF ProbeFails, SettledRecords, PublishSnapshot, Goto, At, files,
     stored
<1>41. CASE Die(p)
  BY <1>2, <1>3, <1>4, <1>41 DEF Die, Ended, SettledRecords, PublishSnapshot, Goto, At, files,
     stored
<1>42. QED
  BY <1>8, <1>9, <1>10, <1>11, <1>12, <1>13, <1>14, <1>15, <1>16, <1>17, <1>18, <1>19, <1>20,
     <1>21, <1>22, <1>23, <1>24, <1>25, <1>26, <1>27, <1>28, <1>29, <1>30, <1>31, <1>32, <1>33,
     <1>34, <1>35, <1>36, <1>37, <1>38, <1>39, <1>40, <1>41 DEF Act, Step

-----------------------------------------------------------------------------
(* The lock                                                                *)

\* The lock starts in its invariant.
LEMMA LockStarts ==
    ASSUME LockInit
    PROVE  LockInv
<1>1. /\ gate \in LeftGates /\ highWater \in Nat
      /\ snapshots = {} /\ bases = {}
      /\ events = {[fence |-> 0, attempt |-> a] : a \in Earlier}
      /\ now = 0
      /\ pc = [p \in Process |-> IF p \in Gone THEN "dead" ELSE "gate"]
      /\ lease = [p \in Process |-> NoLease]
      /\ seen = [p \in Process |-> NothingSeen]
  BY DEF LockInit
<1>2. \A p : Leftover(p).fence = 1
  BY DEF Leftover
<1>3. /\ gate = [path \in Path |-> gate[path]]
      /\ \A path \in Path : GateOk(gate[path]) /\ \A l \in gate[path].owners : l.fence = 1
  <2>1. GateOk(Missing) /\ Missing.owners = {}
    BY DEF GateOk, Missing
  <2>2. \A S : GateOk(Directory(S)) /\ Directory(S).owners = S
    BY DEF GateOk, Directory
  <2>3. \/ gate = NoGates
        \/ \E path \in {"lock", "reclaim"}, p \in Gone :
             gate = [NoGates EXCEPT ![path] = Directory({Leftover(p)})]
        \/ gate = [NoGates EXCEPT !["lock"] = Directory({})]
    BY <1>1 DEF LeftGates
  <2>4. CASE gate = NoGates
    BY <2>1, <2>4 DEF NoGates
  <2>5. ASSUME NEW path \in {"lock", "reclaim"}, NEW p \in Gone,
               gate = [NoGates EXCEPT ![path] = Directory({Leftover(p)})]
        PROVE  /\ gate = [x \in Path |-> gate[x]]
               /\ \A x \in Path : GateOk(gate[x]) /\ \A l \in gate[x].owners : l.fence = 1
    <3>1. gate[path] = Directory({Leftover(p)}) /\ gate = [x \in Path |-> gate[x]]
          /\ \A x \in Path : x # path => gate[x] = Missing
      BY <2>5 DEF NoGates, Path
    <3>2. QED
      BY <1>2, <2>1, <2>2, <3>1
  <2>6. CASE gate = [NoGates EXCEPT !["lock"] = Directory({})]
    <3>1. gate["lock"] = Directory({}) /\ gate = [x \in Path |-> gate[x]]
          /\ \A x \in Path : x # "lock" => gate[x] = Missing
      BY <2>6 DEF NoGates, Path
    <3>2. QED
      BY <2>1, <2>2, <3>1
  <2>7. QED
    BY <2>3, <2>4, <2>5, <2>6
<1>4. \A e \in events : e.fence = 0
  BY <1>1
<1>5. LeaseOk(NoLease) /\ SeenOk(NothingSeen)
  BY DEF LeaseOk, NoLease, SeenOk, NothingSeen
<1>6. pc \in [Process -> {"dead", "gate"}]
  BY <1>1
<1>7. FilesOK
  BY <1>1, <1>3, <1>4 DEF FilesOK, LeasesAt
<1>8. LocalsOK
  <2>1. {"dead", "gate"} \subseteq Location
    BY DEF Location, Outside
  <2>2. QED
    BY <1>1, <1>5, <1>6, <2>1 DEF LocalsOK
<1>9. FencesBounded
  <2>1. \A path \in Path : \A l \in LeasesAt(path) : l.fence <= 1
    BY <1>3 DEF LeasesAt
  <2>2. \A e \in events : e.fence <= 1
    BY <1>4
  <2>3. QED
    BY <1>1, <2>1, <2>2 DEF FencesBounded
<1>10. \A p \in Process :
         pc[p] \notin Claiming \union Marking \union Owning \union Clearing
  BY <1>6 DEF Claiming, Marking, Owning, Clearing
<1>11. Exclusion
  BY <1>10 DEF Exclusion
<1>12. OwnOperation /\ OneNewest /\ SnapshotPrepared /\ SnapshotKept
  BY <1>1, <1>6 DEF OwnOperation, OneNewest, SnapshotPrepared, SnapshotKept
<1>13. QED
  BY <1>1, <1>7, <1>8, <1>9, <1>11, <1>12 DEF LockInv, LockTypeOK

\* Every step keeps the invariant, while directories can be listed.
LEMMA LockStep ==
    ASSUME ListingFails = FALSE, LockInv, [Next]_vars
    PROVE  LockInv'
<1>1. LockTypeOK' /\ FencesBounded'
  BY TypesStep DEF LockInv
<1>2. ASSUME NEW p \in Process, Act(p)
      PROVE  Exclusion' /\ OwnOperation' /\ OneNewest' /\ SnapshotPrepared' /\ SnapshotKept'
  BY <1>2, ExclusionOne, OwnOperationOne, RecordsOne DEF LockInv
<1>3. CASE Tick \/ UNCHANGED vars
  <2>1. UNCHANGED <<gate, snapshots, pc, lease, seen>>
    BY <1>3 DEF Tick, vars, files, stored
  <2>2. CurrentSnapshot' = CurrentSnapshot
    BY <2>1 DEF CurrentSnapshot
  <2>3. Exclusion' /\ OwnOperation' /\ OneNewest'
    BY <2>1 DEF LockInv, Exclusion, OwnOperation, OneNewest, LeasesAt
  <2>4. SnapshotPrepared' /\ SnapshotKept'
    BY <2>1, <2>2 DEF LockInv, SnapshotPrepared, SnapshotKept
  <2>5. QED
    BY <1>1, <2>3, <2>4 DEF LockInv
<1>4. QED
  BY <1>1, <1>2, <1>3 DEF LockInv, Next, Act

\* The gates, fences and records are as LockInv says whatever processes there are,
\* die, fail to probe an identity or are late (withRegistryLock, atomicWriteJson).
THEOREM LockInvariant ==
    ASSUME ListingFails = FALSE
    PROVE  LockSpec => []LockInv
<1>1. LockInit => LockInv
  BY LockStarts
<1>2. LockInv /\ [Next]_vars => LockInv'
  BY LockStep
<1>3. QED
  BY <1>1, <1>2, PTL DEF LockSpec

\* One process at a time is inside, a late owner is not evicted, and no process has
\* found the lock free while another is in it (withCapacityRegistryLock).
THEOREM MutualExclusion ==
    ASSUME ListingFails = FALSE
    PROVE  LockSpec => [](/\ \A p, q \in Process : p \in Inside /\ q \in Inside => p = q
                          /\ \A p \in Process : pc[p] \in Owning => p \in Inside)
<1>1. LockInv => /\ \A p, q \in Process : p \in Inside /\ q \in Inside => p = q
                 /\ \A p \in Process : pc[p] \in Owning => p \in Inside
  <2>1. ASSUME LockInv, NEW p \in Process
        PROVE  p \in Inside <=> pc[p] \in Owning
    BY <2>1 DEF LockInv, Exclusion, Inside, Owning
  <2>2. QED
    BY <2>1, OneOwner DEF LockInv
<1>2. QED
  BY <1>1, LockInvariant, PTL

-----------------------------------------------------------------------------
(* The attempt journal                                                     *)

\* A step that leaves the journal, and gets its process no further with it.
SettledJournal(p) ==
    /\ bases' = bases /\ events' = events
    /\ p \in Appends /\ pc'[p] \in {"write", "rename"} =>
         pc[p] \in {"write", "rename"} /\ lease'[p] = lease[p] /\ seen'[p] = seen[p]
    /\ p \in Appends /\ pc'[p] \in {"write-base", "base"} =>
         pc[p] \in {"write-base", "base"} /\ lease'[p] = lease[p] /\ seen'[p] = seen[p]
    /\ p \in Appends /\ pc'[p] \in {"sweep", "swept"} =>
         pc[p] \in {"sweep", "swept"} /\ lease'[p] = lease[p] /\ seen'[p] = seen[p]
    /\ p \in Appends /\ pc'[p] \in Recorded => pc[p] \in Recorded

\* Such a step keeps what holds of the journal.
LEMMA JournalKept ==
    ASSUME JournalInv, NEW p \in Process, SettledJournal(p),
           \A q \in Process : q # p =>
               pc'[q] = pc[q] /\ lease'[q] = lease[q] /\ seen'[q] = seen[q]
    PROVE  JournalInv' /\ Journal' = Journal
<1>1. CurrentBase' = CurrentBase
  BY DEF SettledJournal, CurrentBase
<1>2. Journal' = Journal
  BY <1>1 DEF SettledJournal, Journal
<1>3. OneBase'
  BY DEF SettledJournal, JournalInv, OneBase
<1>4. ASSUME NEW q \in Appends
      PROVE  /\ pc'[q] \in {"write", "rename"} =>
                  pc[q] \in {"write", "rename"} /\ lease'[q] = lease[q] /\ seen'[q] = seen[q]
             /\ pc'[q] \in {"write-base", "base"} =>
                  pc[q] \in {"write-base", "base"} /\ lease'[q] = lease[q] /\ seen'[q] = seen[q]
             /\ pc'[q] \in {"sweep", "swept"} =>
                  pc[q] \in {"sweep", "swept"} /\ lease'[q] = lease[q] /\ seen'[q] = seen[q]
             /\ pc'[q] \in Recorded => pc[q] \in Recorded
  BY <1>4, ProcessAssumption DEF SettledJournal
<1>5. bases' = bases /\ events' = events
  BY DEF SettledJournal
<1>6. AppendPrepared'
  BY <1>2, <1>4, <1>5 DEF JournalInv, AppendPrepared
<1>7. AppendKept'
  BY <1>2, <1>4 DEF JournalInv, AppendKept
<1>8. QED
  BY <1>2, <1>3, <1>6, <1>7 DEF JournalInv

\* While no append comes to a fence that the journal has, every step keeps what is
\* stored of it, and adds the process that publishes to what a reader finds.
LEMMA JournalOne ==
    ASSUME LockInv, JournalInv, FreshFence, NEW p \in Process, Act(p)
    PROVE  /\ JournalInv'
           /\ Journal' = IF PublishEvent(p) THEN Journal \union {p} ELSE Journal
<1>1. \A q \in Process : q # p =>
          pc'[q] = pc[q] /\ lease'[q] = lease[q] /\ seen'[q] = seen[q]
  BY LocalsOne DEF LockInv
<1>2. SettledJournal(p) => JournalInv' /\ Journal' = Journal
  BY <1>1, JournalKept
<1>3. pc \in [Process -> Location] /\ lease = [q \in Process |-> lease[q]]
      /\ seen = [q \in Process |-> seen[q]]
  BY DEF LockInv, LockTypeOK, LocalsOK
<1>4. /\ pc[p] \in {"write-base", "base", "sweep", "swept"} => p \in Appends
      /\ pc[p] = "compact" => p \notin Appends
  BY DEF LockInv, OwnOperation
<1>5. /\ CurrentBase.fence \in Nat
      /\ bases # {} => CurrentBase \in bases
      /\ \A b \in bases : b.fence <= CurrentBase.fence
  BY NewestBase DEF LockInv, JournalInv
<1>6. /\ \A b \in bases : b.fence \in Nat /\ b.name \in Nat
      /\ \A e \in events : e.fence \in Nat
  BY DEF LockInv, LockTypeOK, FilesOK
<1>7. lease[p].fence \in Nat
  BY DEF LockInv, LockTypeOK, LocalsOK, LeaseOk
<1>8. pc[p] \in Owning => \A q \in Appends : q # p => pc'[q] = pc[q] /\ pc'[q] \notin Owning
  BY <1>1, AloneInside, ProcessAssumption DEF LockInv
<1>9. ~PublishEvent(p) => (Journal' = Journal =>
        Journal' = IF PublishEvent(p) THEN Journal \union {p} ELSE Journal)
  OBVIOUS
<1>10. CASE ReadGate(p)
  BY <1>2, <1>3, <1>4, <1>10 DEF ReadGate, SettledJournal, Recorded, PublishEvent, Goto, At,
     files, stored
<1>11. CASE ReadAnnounced(p)
  BY <1>2, <1>3, <1>4, <1>11 DEF ReadAnnounced, SettledJournal, Recorded, PublishEvent, Goto,
     At, files, stored
<1>12. CASE ReadMarker(p)
  BY <1>2, <1>3, <1>4, <1>12 DEF ReadMarker, SettledJournal, Recorded, PublishEvent, Goto, At,
     files, stored
<1>13. CASE CleanMarker(p)
  BY <1>2, <1>3, <1>4, <1>13 DEF CleanMarker, SettledJournal, Recorded, PublishEvent, Goto, At,
     files, stored
<1>14. CASE Announce(p)
  BY <1>2, <1>3, <1>4, <1>14 DEF Announce, SettledJournal, Recorded, PublishEvent, Goto, At,
     files, stored
<1>15. CASE ReserveFence(p)
  BY <1>2, <1>3, <1>4, <1>15 DEF ReserveFence, SettledJournal, Recorded, PublishEvent, Goto, At,
     files, stored
<1>16. CASE CheckHighWater(p)
  BY <1>2, <1>3, <1>4, <1>16 DEF CheckHighWater, SettledJournal, Recorded, PublishEvent, Goto,
     At, files, stored
<1>17. CASE WriteHighWater(p)
  BY <1>2, <1>3, <1>4, <1>17 DEF WriteHighWater, SettledJournal, Recorded, PublishEvent, Goto,
     At, files, stored
<1>18. CASE TakeMarker(p)
  BY <1>2, <1>3, <1>4, <1>18 DEF TakeMarker, SettledJournal, Recorded, PublishEvent, Goto, At,
     files, stored
<1>19. CASE MissMarker(p)
  BY <1>2, <1>3, <1>4, <1>19 DEF MissMarker, SettledJournal, Recorded, PublishEvent, Goto, At,
     files, stored
<1>20. CASE Withdraw(p)
  BY <1>2, <1>3, <1>4, <1>20 DEF Withdraw, SettledJournal, Recorded, PublishEvent, Goto, At,
     files, stored
<1>21. CASE AssertMarker(p, "assert", "look")
  BY <1>2, <1>3, <1>4, <1>21 DEF AssertMarker, SettledJournal, Recorded, PublishEvent, Goto, At,
     files, stored
<1>22. CASE LookAtLock(p)
  BY <1>2, <1>3, <1>4, <1>22 DEF LookAtLock, SettledJournal, Recorded, PublishEvent, Goto, At,
     files, stored
<1>23. CASE LookAtQuarantine(p)
  BY <1>2, <1>3, <1>4, <1>23 DEF LookAtQuarantine, SettledJournal, Recorded, PublishEvent, Goto,
     At, files, stored
<1>24. CASE Evict(p)
  BY <1>2, <1>3, <1>4, <1>24 DEF Evict, SettledJournal, Recorded, PublishEvent, Goto, At, files,
     stored
<1>25. CASE Purge(p)
  BY <1>2, <1>3, <1>4, <1>25 DEF Purge, SettledJournal, Recorded, PublishEvent, Goto, At, files,
     stored
<1>26. CASE AssertMarker(p, "confirm-marker", "install")
  BY <1>2, <1>3, <1>4, <1>26 DEF AssertMarker, SettledJournal, Recorded, PublishEvent, Goto, At,
     files, stored
<1>27. CASE Install(p)
  BY <1>2, <1>3, <1>4, <1>27 DEF Install, SettledJournal, Recorded, PublishEvent, Goto, At,
     files, stored
<1>28. CASE GiveMarkerBack(p)
  BY <1>2, <1>3, <1>4, <1>28 DEF GiveMarkerBack, SettledJournal, Recorded, PublishEvent, Goto,
     At, files, stored
<1>29. CASE Prepare(p)
  <2>1. ~PublishEvent(p)
    BY <1>29 DEF Prepare, PublishEvent, At
  <2>2. CASE pc'[p] # "write" \/ p \notin Appends
    <3>1. pc'[p] \in {"write", "abandon"} /\ bases' = bases /\ events' = events
      BY <1>3, <1>29 DEF Prepare, Goto, files, stored
    <3>2. SettledJournal(p)
      BY <2>2, <3>1 DEF SettledJournal, Recorded
    <3>3. QED
      BY <1>2, <2>1, <3>2
  <2>3. CASE pc'[p] = "write" /\ p \in Appends
    <3> DEFINE n == IF lease[p].fence = CurrentSnapshot.fence THEN CurrentSnapshot.revision + 1
                    ELSE 0
               next == [state |-> "absent", document |-> Document(p), revision |-> n]
    <3>1. /\ ~(lease[p].fence < StoredFence(p)) /\ pc[p] = "inside"
          /\ seen' = [seen EXCEPT ![p] = next]
          /\ bases' = bases /\ events' = events /\ lease' = lease
      <4>1. \/ pc' = [pc EXCEPT ![p] = "abandon"]
            \/ ~(lease[p].fence < StoredFence(p)) /\ seen' = [seen EXCEPT ![p] = next]
        BY <1>29 DEF Prepare, Goto
      <4>2. pc' # [pc EXCEPT ![p] = "abandon"]
        BY <1>3, <2>3
      <4>3. bases' = bases /\ events' = events /\ lease' = lease /\ pc[p] = "inside"
        BY <1>29 DEF Prepare, files, stored, At
      <4>4. QED
        BY <4>1, <4>2, <4>3
    <3>2. StoredFence(p) # lease[p].fence
      BY <2>3, <3>1 DEF FreshFence, At
    <3>3. /\ StoredFence(p) \in Nat
          /\ \A b \in bases : b.fence <= StoredFence(p)
          /\ \A e \in events : e.fence <= StoredFence(p)
      BY <2>3, StoredFenceAbove DEF LockInv, JournalInv
    <3>4. /\ \A b \in bases : b.fence < lease[p].fence
          /\ \A e \in events : e.fence < lease[p].fence
      BY <1>6, <1>7, <3>1, <3>2, <3>3
    <3>5. next.document = Journal
      BY <2>3 DEF Document
    <3> HIDE DEF next
    <3>6. seen'[p].document = Journal
      BY <1>3, <3>1, <3>5
    <3>7. Journal' = Journal
      BY <3>1 DEF Journal, CurrentBase
    <3>8. OneBase'
      BY <3>1 DEF JournalInv, OneBase
    <3>9. AppendPrepared'
      BY <1>8, <2>3, <3>1, <3>4, <3>6, <3>7 DEF AppendPrepared, Owning
    <3>10. AppendKept'
      BY <1>1, <2>3, <3>7, ProcessAssumption DEF JournalInv, AppendKept, Recorded
    <3>11. QED
      BY <2>1, <3>7, <3>8, <3>9, <3>10 DEF JournalInv
  <2>4. QED
    BY <2>2, <2>3
<1>30. CASE AssertOwner(p, "write", "rename")
  BY <1>2, <1>3, <1>4, <1>30 DEF AssertOwner, SettledJournal, Recorded, PublishEvent, Goto, At,
     files, stored
<1>31. CASE PublishSnapshot(p)
  BY <1>2, <1>3, <1>4, <1>31 DEF PublishSnapshot, SettledJournal, Recorded, PublishEvent, Goto,
     At, files, stored
<1>32. CASE CompactSnapshots(p)
  BY <1>2, <1>3, <1>4, <1>32 DEF CompactSnapshots, SettledJournal, Recorded, PublishEvent, Goto,
     At, files, stored
<1>33. CASE PublishEvent(p)
  <2> DEFINE e == [fence |-> lease[p].fence, attempt |-> p]
  <2>1. /\ events' = events \union {e} /\ bases' = bases /\ p \in Appends
        /\ pc[p] = "rename" /\ pc'[p] \in {"write-base", "confirm"}
        /\ lease' = lease /\ seen' = seen
    BY <1>3, <1>33 DEF PublishEvent, Goto, At
  <2>2. e.fence = lease[p].fence /\ e.attempt = p
    OBVIOUS
  <2> HIDE DEF e
  <2>3. /\ seen[p].document = Journal
        /\ \A b \in bases : b.fence < lease[p].fence
        /\ \A f \in events : f.fence < lease[p].fence
    BY <2>1 DEF JournalInv, AppendPrepared
  <2>4. CurrentBase' = CurrentBase
    BY <2>1 DEF CurrentBase
  <2>5. CurrentBase.fence <= lease[p].fence
    <3>1. CASE bases = {}
      BY <1>7, <3>1 DEF CurrentBase, NoBase
    <3>2. CASE bases # {}
      BY <1>5, <1>7, <2>3, <3>2
    <3>3. QED
      BY <3>1, <3>2
  <2>6. Journal' = Journal \union {p}
    BY <1>5, <1>7, <2>1, <2>2, <2>4, <2>5 DEF Journal
  <2>7. \A f \in events' : f.fence <= lease[p].fence
    BY <1>6, <1>7, <2>1, <2>2, <2>3
  <2>8. OneBase'
    BY <2>1 DEF JournalInv, OneBase
  <2>9. AppendPrepared'
    BY <1>8, <2>1, <2>3, <2>6, <2>7 DEF AppendPrepared, Owning
  <2>10. AppendKept'
    BY <1>1, <2>1, <2>6, ProcessAssumption DEF JournalInv, AppendKept
  <2>11. QED
    BY <2>6, <2>8, <2>9, <2>10, <1>33 DEF JournalInv
<1>34. CASE AssertOwner(p, "write-base", "base")
  BY <1>2, <1>3, <1>4, <1>34 DEF AssertOwner, SettledJournal, Recorded, PublishEvent, Goto, At,
     files, stored
<1>35. CASE PublishBase(p)
  <2>1. pc[p] = "base" /\ p \in Appends /\ ~PublishEvent(p)
    BY <1>4, <1>35 DEF PublishBase, PublishEvent, At
  <2>2. PICK name \in 1 .. 2 :
          bases' = bases \union {[fence |-> lease[p].fence, name |-> name,
                                 attempts |-> seen[p].document \union {p}]}
    BY <1>35 DEF PublishBase
  <2> DEFINE b == [fence |-> lease[p].fence, name |-> name,
                   attempts |-> seen[p].document \union {p}]
  <2>3. /\ bases' = bases \union {b} /\ events' = events
        /\ pc'[p] = "sweep" /\ lease' = lease /\ seen' = seen
    BY <1>3, <2>2, <1>35 DEF PublishBase, Goto
  <2>4. /\ b.fence = lease[p].fence /\ b.attempts = seen[p].document \union {p}
        /\ b.name \in Nat
    OBVIOUS
  <2> HIDE DEF b
  <2>5. /\ seen[p].document \union {p} = Journal
        /\ \A c \in bases : c.fence < lease[p].fence
        /\ \A e \in events : e.fence <= lease[p].fence
    BY <2>1 DEF JournalInv, AppendPrepared
  <2>6. CurrentBase' = b
    <3>1. \A c \in bases' : b.fence > c.fence \/ (b.fence = c.fence /\ b.name >= c.name)
      BY <1>6, <1>7, <2>3, <2>4, <2>5
    <3>2. b \in bases'
      BY <2>3
    <3>3. /\ CurrentBase' \in bases'
          /\ \A c \in bases' :
               \/ CurrentBase'.fence > c.fence
               \/ CurrentBase'.fence = c.fence /\ CurrentBase'.name >= c.name
      BY <3>1, <3>2 DEF CurrentBase
    <3>4. \/ CurrentBase'.fence > b.fence
          \/ CurrentBase'.fence = b.fence
      BY <3>2, <3>3
    <3>5. CurrentBase' \notin bases
      BY <1>6, <1>7, <2>4, <2>5, <3>4
    <3>6. QED
      BY <2>3, <3>3, <3>5
  <2>7. Journal' = Journal
    <3>1. CurrentBase.fence <= lease[p].fence
      <4>1. CASE bases = {}
        BY <1>7, <4>1 DEF CurrentBase, NoBase
      <4>2. CASE bases # {}
        BY <1>5, <1>7, <2>5, <4>2
      <4>3. QED
        BY <4>1, <4>2
    <3>2. \A e \in events : e.fence >= lease[p].fence => e.attempt \in Journal
      BY <1>5, <1>6, <1>7, <3>1 DEF Journal
    <3>3. Journal' = b.attempts
                     \union {e.attempt : e \in {f \in events : f.fence >= lease[p].fence}}
      BY <2>3, <2>4, <2>6 DEF Journal
    <3>4. QED
      BY <2>4, <2>5, <3>2, <3>3
  <2>8. OneBase'
    BY <1>6, <1>7, <2>3, <2>4, <2>5 DEF JournalInv, OneBase
  <2>9. \A c \in bases' : c.fence <= lease[p].fence
    BY <1>6, <1>7, <2>3, <2>4, <2>5
  <2>10. AppendPrepared'
    BY <1>8, <2>1, <2>3, <2>4, <2>5, <2>7, <2>9 DEF AppendPrepared, Owning
  <2>11. AppendKept'
    BY <1>1, <2>1, <2>3, <2>7, ProcessAssumption DEF JournalInv, AppendKept, Recorded
  <2>12. QED
    BY <2>1, <2>7, <2>8, <2>10, <2>11 DEF JournalInv
<1>36. CASE AssertOwner(p, "sweep", "swept")
  BY <1>2, <1>3, <1>4, <1>36 DEF AssertOwner, SettledJournal, Recorded, PublishEvent, Goto, At,
     files, stored
<1>37. CASE Sweep(p)
  <2>1. pc[p] = "swept" /\ p \in Appends /\ ~PublishEvent(p)
        /\ lease' = lease /\ seen' = seen
    BY <1>4, <1>37 DEF Sweep, PublishEvent, At
  <2>2. PICK b \in bases :
          /\ b.fence = lease[p].fence /\ b.attempts = Journal
          /\ \A c \in bases : c.fence <= lease[p].fence
          /\ \A e \in events : e.fence <= lease[p].fence
    BY <2>1 DEF JournalInv, AppendPrepared
  <2>3. \A c \in bases \ {b} : c.fence < b.fence
    BY <1>6, <1>7, <2>2 DEF JournalInv, OneBase
  <2>4. CurrentBase = b
    BY <1>6, <2>3, NewestIsBase
  <2>5. b \notin Doomed(p).bases
    <3> DEFINE own == {c \in bases : c.fence = lease[p].fence}
               newest == CHOOSE c \in own : \A d \in own : d.name <= c.name
    <3>1. own = {b}
      BY <1>7, <2>2, <2>3
    <3>2. \A d \in own : d.name <= b.name
      BY <1>6, <3>1
    <3>3. newest = b
      BY <3>1, <3>2
    <3>4. Doomed(p).bases = {c \in bases : c.fence <= lease[p].fence} \ {newest}
      BY DEF Doomed
    <3> HIDE DEF newest
    <3>5. QED
      BY <3>3, <3>4
  <2>6. CASE SettledJournal(p)
    BY <1>2, <2>1, <2>6
  <2>7. CASE /\ bases' \subseteq bases /\ b \in bases' /\ events' \subseteq events
             /\ pc' = pc
    <3>1. CurrentBase' = b
      <4>1. \A c \in bases' : b.fence > c.fence \/ (b.fence = c.fence /\ b.name >= c.name)
        BY <1>6, <2>3, <2>7
      <4>2. /\ CurrentBase' \in bases'
            /\ \A c \in bases' :
                 \/ CurrentBase'.fence > c.fence
                 \/ CurrentBase'.fence = c.fence /\ CurrentBase'.name >= c.name
        BY <2>7, <4>1 DEF CurrentBase
      <4>3. QED
        BY <1>6, <2>3, <2>7, <4>2
    <3>2. Journal' = Journal
      <4>1. \A e \in events : e.fence >= b.fence => e.attempt \in Journal
        BY <2>4 DEF Journal
      <4>2. Journal' = b.attempts \union {e.attempt : e \in {f \in events' : f.fence >= b.fence}}
        BY <3>1 DEF Journal
      <4>3. QED
        BY <2>2, <2>7, <4>1, <4>2
    <3>3. OneBase'
      BY <2>7 DEF JournalInv, OneBase
    <3>4. AppendPrepared'
      BY <1>8, <2>1, <2>2, <2>7, <3>2 DEF AppendPrepared, Owning
    <3>5. AppendKept'
      BY <2>7, <3>2 DEF JournalInv, AppendKept
    <3>6. QED
      BY <2>1, <3>2, <3>3, <3>4, <3>5 DEF JournalInv
  <2>8. \/ SettledJournal(p)
        \/ /\ bases' \subseteq bases /\ b \in bases' /\ events' \subseteq events
           /\ pc' = pc
    <3>1. \/ \E c \in Doomed(p).bases : bases' = bases \ {c} /\ events' = events /\ pc' = pc
          \/ /\ \E e \in Doomed(p).events : events' = events \ {e}
             /\ bases' = bases /\ pc' = pc
          \/ pc'[p] = "confirm" /\ bases' = bases /\ events' = events
      BY <1>3, <1>37 DEF Sweep, Goto
    <3>2. pc'[p] = "confirm" /\ bases' = bases /\ events' = events => SettledJournal(p)
      BY <2>1 DEF SettledJournal, Recorded
    <3>3. QED
      BY <2>5, <3>1, <3>2
  <2>9. QED
    BY <2>6, <2>7, <2>8
<1>38. CASE AssertOwner(p, "confirm", "release")
  BY <1>2, <1>3, <1>4, <1>38 DEF AssertOwner, SettledJournal, Recorded, PublishEvent, Goto, At,
     files, stored
<1>39. CASE RemoveMarker(p)
  BY <1>2, <1>3, <1>4, <1>39 DEF RemoveMarker, SettledJournal, Recorded, PublishEvent, Goto, At,
     files, stored
<1>40. CASE RemoveDirectory(p)
  BY <1>2, <1>3, <1>4, <1>40 DEF RemoveDirectory, SettledJournal, Recorded, PublishEvent, Goto,
     At, files, stored
<1>41. CASE Busy(p)
  BY <1>2, <1>3, <1>4, <1>41 DEF Busy, SettledJournal, Recorded, PublishEvent, Goto, At, files,
     stored
<1>42. CASE ProbeFails(p)
  BY <1>2, <1>3, <1>4, <1>42 DEF ProbeFails, SettledJournal, Recorded, PublishEvent, Goto, At,
     files, stored
<1>43. CASE Die(p)
  BY <1>2, <1>3, <1>4, <1>43 DEF Die, Ended, SettledJournal, Recorded, PublishEvent, Goto, At,
     files, stored
<1>44. QED
  BY <1>10, <1>11, <1>12, <1>13, <1>14, <1>15, <1>16, <1>17, <1>18, <1>19, <1>20, <1>21, <1>22,
     <1>23, <1>24, <1>25, <1>26, <1>27, <1>28, <1>29, <1>30, <1>31, <1>32, <1>33, <1>34, <1>35,
     <1>36, <1>37, <1>38, <1>39, <1>40, <1>41, <1>42, <1>43 DEF Act, Step

\* The journal starts as JournalInv has it, and is what there was before.
LEMMA JournalStarts ==
    ASSUME LockInit
    PROVE  JournalInv /\ Journal = Earlier /\ CurrentSnapshot.document = {}
<1>1. /\ snapshots = {} /\ bases = {}
      /\ events = {[fence |-> 0, attempt |-> a] : a \in Earlier}
      /\ pc = [p \in Process |-> IF p \in Gone THEN "dead" ELSE "gate"]
  BY DEF LockInit
<1>2. \A p \in Process : pc[p] \in {"dead", "gate"}
  BY <1>1
<1>3. CurrentBase.fence = 0 /\ CurrentBase.attempts = {}
  BY <1>1 DEF CurrentBase, NoBase
<1>4. Journal = Earlier
  <2>1. \A e \in events : e.fence >= CurrentBase.fence
    BY <1>1, <1>3
  <2>2. Journal = {e.attempt : e \in events}
    BY <1>3, <2>1 DEF Journal
  <2>3. {e.attempt : e \in events} = Earlier
    <3>1. \A a \in Earlier : \E e \in events : e.attempt = a
      <4>1. ASSUME NEW a \in Earlier PROVE [fence |-> 0, attempt |-> a] \in events
        BY <1>1
      <4>2. \A a : [fence |-> 0, attempt |-> a].attempt = a
        OBVIOUS
      <4>3. QED
        BY <4>1, <4>2
    <3>2. \A e \in events : e.attempt \in Earlier
      BY <1>1
    <3>3. QED
      BY <3>1, <3>2
  <2>4. QED
    BY <2>2, <2>3
<1>5. JournalInv
  BY <1>1, <1>2, ProcessAssumption DEF JournalInv, OneBase, AppendPrepared, AppendKept, Recorded
<1>6. QED
  BY <1>1, <1>4, <1>5 DEF CurrentSnapshot, NoSnapshot

\* Every step keeps what holds of the journal, while no append repeats a fence.
LEMMA JournalStep ==
    ASSUME LockInv, JournalInv, FreshFence, [Next]_vars
    PROVE  JournalInv'
<1>1. ASSUME NEW p \in Process, Act(p)
      PROVE  JournalInv'
  BY <1>1, JournalOne
<1>2. CASE Tick \/ UNCHANGED vars
  <2>1. UNCHANGED <<bases, events, pc, lease, seen>>
    BY <1>2 DEF Tick, vars, files, stored
  <2>2. Journal' = Journal
    BY <2>1 DEF Journal, CurrentBase
  <2>3. QED
    BY <2>1, <2>2 DEF JournalInv, OneBase, AppendPrepared, AppendKept
<1>3. QED
  BY <1>1, <1>2 DEF Next, Act

-----------------------------------------------------------------------------
(* The abstract lock                                                       *)

\* What the abstract lock is told: who is inside, and what a reader finds.
OwnerSeen == IF Inside = {} THEN Nobody ELSE CHOOSE p \in Inside : TRUE
DocumentSeen == CurrentSnapshot.document \union Journal

\* The process inside is the owner; with nobody inside there is none.
LEMMA OwnerIs ==
    ASSUME Exclusion
    PROVE  /\ \A p \in Process : pc[p] \in Owning => OwnerSeen = p
           /\ (\A p \in Process : pc[p] \notin Owning) => OwnerSeen = Nobody
<1>1. \A p \in Process : p \in Inside <=> pc[p] \in Owning
  BY DEF Exclusion, Inside, Owning
<1>2. ASSUME NEW p \in Process, pc[p] \in Owning
      PROVE  OwnerSeen = p
  <2>1. Inside = {p}
    BY <1>1, <1>2, OneOwner DEF Inside
  <2>2. QED
    BY <2>1 DEF OwnerSeen
<1>3. ASSUME \A p \in Process : pc[p] \notin Owning
      PROVE  OwnerSeen = Nobody
  <2>1. Inside = {}
    BY <1>1, <1>3 DEF Inside
  <2>2. QED
    BY <2>1 DEF OwnerSeen
<1>4. QED
  BY <1>2, <1>3

\* The same after a step.
LEMMA OwnerIsThen ==
    ASSUME Exclusion'
    PROVE  /\ \A p \in Process : pc'[p] \in Owning => OwnerSeen' = p
           /\ (\A p \in Process : pc'[p] \notin Owning) => OwnerSeen' = Nobody
<1>1. \A p \in Process : p \in Inside' <=> pc'[p] \in Owning
  BY DEF Exclusion, Inside, Owning
<1>2. ASSUME NEW p \in Process, pc'[p] \in Owning
      PROVE  OwnerSeen' = p
  <2>1. \A q \in Process : pc'[q] \in Owning => q = p
    BY <1>2 DEF Exclusion, Owning, Claiming, Marking, LeasesAt
  <2>2. Inside' = {p}
    BY <1>1, <1>2, <2>1 DEF Inside
  <2>3. QED
    BY <2>2 DEF OwnerSeen
<1>3. ASSUME \A p \in Process : pc'[p] \notin Owning
      PROVE  OwnerSeen' = Nobody
  <2>1. Inside' = {}
    BY <1>1, <1>3 DEF Inside
  <2>2. QED
    BY <2>1 DEF OwnerSeen
<1>4. QED
  BY <1>2, <1>3

\* The rename of the marker is the only way in.
LEMMA EntersByInstall ==
    ASSUME LocalsOK, NEW p \in Process, Act(p), pc[p] \notin Owning, pc'[p] \in Owning
    PROVE  pc[p] = "install"
<1>1. pc \in [Process -> Location]
  BY DEF LocalsOK
<1>2. CASE ReadGate(p)
  BY <1>1, <1>2 DEF ReadGate, Goto, At, Owning
<1>3. CASE ReadAnnounced(p)
  BY <1>1, <1>3 DEF ReadAnnounced, Goto, At, Owning
<1>4. CASE ReadMarker(p)
  BY <1>1, <1>4 DEF ReadMarker, Goto, At, Owning
<1>5. CASE CleanMarker(p)
  BY <1>1, <1>5 DEF CleanMarker, Goto, At, Owning
<1>6. CASE Announce(p)
  BY <1>1, <1>6 DEF Announce, Goto, At, Owning
<1>7. CASE ReserveFence(p)
  BY <1>1, <1>7 DEF ReserveFence, Goto, At, Owning
<1>8. CASE CheckHighWater(p)
  BY <1>1, <1>8 DEF CheckHighWater, Goto, At, Owning
<1>9. CASE WriteHighWater(p)
  BY <1>1, <1>9 DEF WriteHighWater, Goto, At, Owning
<1>10. CASE TakeMarker(p)
  BY <1>1, <1>10 DEF TakeMarker, Goto, At, Owning
<1>11. CASE MissMarker(p)
  BY <1>1, <1>11 DEF MissMarker, Goto, At, Owning
<1>12. CASE Withdraw(p)
  BY <1>1, <1>12 DEF Withdraw, Goto, At, Owning
<1>13. CASE AssertMarker(p, "assert", "look")
  BY <1>1, <1>13 DEF AssertMarker, Goto, At, Owning
<1>14. CASE LookAtLock(p)
  BY <1>1, <1>14 DEF LookAtLock, Goto, At, Owning
<1>15. CASE LookAtQuarantine(p)
  BY <1>1, <1>15 DEF LookAtQuarantine, Goto, At, Owning
<1>16. CASE Evict(p)
  BY <1>1, <1>16 DEF Evict, Goto, At, Owning
<1>17. CASE Purge(p)
  BY <1>1, <1>17 DEF Purge, Goto, At, Owning
<1>18. CASE AssertMarker(p, "confirm-marker", "install")
  BY <1>1, <1>18 DEF AssertMarker, Goto, At, Owning
<1>19. CASE Install(p)
  BY <1>1, <1>19 DEF Install, Goto, At, Owning
<1>20. CASE GiveMarkerBack(p)
  BY <1>1, <1>20 DEF GiveMarkerBack, Goto, At, Owning
<1>21. CASE Prepare(p)
  BY <1>1, <1>21 DEF Prepare, Goto, At, Owning
<1>22. CASE AssertOwner(p, "write", "rename")
  BY <1>1, <1>22 DEF AssertOwner, Goto, At, Owning
<1>23. CASE PublishSnapshot(p)
  BY <1>1, <1>23 DEF PublishSnapshot, Goto, At, Owning
<1>24. CASE CompactSnapshots(p)
  BY <1>1, <1>24 DEF CompactSnapshots, Goto, At, Owning
<1>25. CASE PublishEvent(p)
  BY <1>1, <1>25 DEF PublishEvent, Goto, At, Owning
<1>26. CASE AssertOwner(p, "write-base", "base")
  BY <1>1, <1>26 DEF AssertOwner, Goto, At, Owning
<1>27. CASE PublishBase(p)
  BY <1>1, <1>27 DEF PublishBase, Goto, At, Owning
<1>28. CASE AssertOwner(p, "sweep", "swept")
  BY <1>1, <1>28 DEF AssertOwner, Goto, At, Owning
<1>29. CASE Sweep(p)
  BY <1>1, <1>29 DEF Sweep, Goto, At, Owning
<1>30. CASE AssertOwner(p, "confirm", "release")
  BY <1>1, <1>30 DEF AssertOwner, Goto, At, Owning
<1>31. CASE RemoveMarker(p)
  BY <1>1, <1>31 DEF RemoveMarker, Goto, At, Owning
<1>32. CASE RemoveDirectory(p)
  BY <1>1, <1>32 DEF RemoveDirectory, Goto, At, Owning
<1>33. CASE Busy(p)
  BY <1>1, <1>33 DEF Busy, Goto, At, Owning
<1>34. CASE ProbeFails(p)
  BY <1>1, <1>34 DEF ProbeFails, Goto, At, Owning
<1>35. CASE Die(p)
  BY <1>1, <1>35 DEF Die, Ended, Goto, At, Owning
<1>36. QED
  BY <1>2, <1>3, <1>4, <1>5, <1>6, <1>7, <1>8, <1>9, <1>10, <1>11, <1>12, <1>13, <1>14, <1>15,
     <1>16, <1>17, <1>18, <1>19, <1>20, <1>21, <1>22, <1>23, <1>24, <1>25, <1>26, <1>27, <1>28,
     <1>29, <1>30, <1>31, <1>32, <1>33, <1>34, <1>35 DEF Act, Step

\* Every step of a process is a step of the abstract lock or none.
LEMMA ExclusiveStep ==
    ASSUME ListingFails = FALSE, LockInv, JournalInv, FreshFence, [Next]_vars
    PROVE  [Lock!NextOwner]_(Lock!lockVars)
<1>1. ASSUME NEW p \in Process, Act(p)
      PROVE  \/ OwnerSeen = Nobody /\ OwnerSeen' = p /\ DocumentSeen' = DocumentSeen
             \/ OwnerSeen = p /\ DocumentSeen' = DocumentSeen \union {p} /\ OwnerSeen' = OwnerSeen
             \/ OwnerSeen = p /\ OwnerSeen' = Nobody /\ DocumentSeen' = DocumentSeen
             \/ OwnerSeen' = OwnerSeen /\ DocumentSeen' = DocumentSeen
  <2>1. LockInv'
    BY LockStep
  <2>2. /\ \A q \in Process : pc[q] \in Owning => OwnerSeen = q
        /\ (\A q \in Process : pc[q] \notin Owning) => OwnerSeen = Nobody
    BY OwnerIs DEF LockInv
  <2>3. /\ \A q \in Process : pc'[q] \in Owning => OwnerSeen' = q
        /\ (\A q \in Process : pc'[q] \notin Owning) => OwnerSeen' = Nobody
    BY <2>1, OwnerIsThen DEF LockInv
  <2>4. pc \in [Process -> Location] /\ \A q \in Process : q # p => pc'[q] = pc[q]
    BY <1>1, MovesOne DEF LockInv, LockTypeOK, LocalsOK
  <2>5. /\ CurrentSnapshot'.document =
              IF PublishSnapshot(p) THEN CurrentSnapshot.document \union {p}
              ELSE CurrentSnapshot.document
        /\ Journal' = IF PublishEvent(p) THEN Journal \union {p} ELSE Journal
    BY <1>1, RecordsOne, JournalOne
  <2>6. PublishSnapshot(p) \/ PublishEvent(p) => pc[p] \in Owning /\ pc'[p] \in Owning
    BY <2>4 DEF PublishSnapshot, PublishEvent, At, Goto, Owning
  <2>7. /\ PublishSnapshot(p) \/ PublishEvent(p) => DocumentSeen' = DocumentSeen \union {p}
        /\ ~(PublishSnapshot(p) \/ PublishEvent(p)) => DocumentSeen' = DocumentSeen
    BY <2>5 DEF DocumentSeen, PublishSnapshot, PublishEvent
  <2>8. CASE pc[p] \in Owning /\ pc'[p] \in Owning
    BY <2>2, <2>3, <2>7, <2>8
  <2>9. CASE pc[p] \in Owning /\ pc'[p] \notin Owning
    <3>1. \A q \in Process : pc'[q] \notin Owning
      BY <2>4, <2>9, AloneInside DEF LockInv
    <3>2. QED
      BY <2>2, <2>3, <2>6, <2>7, <2>9, <3>1
  <2>10. CASE pc[p] \notin Owning /\ pc'[p] \in Owning
    <3>1. pc[p] \in Clearing
      BY <1>1, <2>10, EntersByInstall DEF Clearing, LockInv, LockTypeOK
    <3>2. \A q \in Process : pc[q] \notin Owning
      BY <3>1 DEF LockInv, Exclusion
    <3>3. QED
      BY <2>2, <2>3, <2>6, <2>7, <2>10, <3>2
  <2>11. CASE pc[p] \notin Owning /\ pc'[p] \notin Owning
    <3>1. \A q \in Process : pc'[q] \in Owning <=> pc[q] \in Owning
      BY <2>4, <2>11
    <3>2. OwnerSeen' = OwnerSeen
      BY <2>2, <2>3, <3>1
    <3>3. QED
      BY <2>6, <2>7, <2>11, <3>2
  <2>12. QED
    BY <2>8, <2>9, <2>10, <2>11
<1>2. CASE Tick \/ UNCHANGED vars
  <2>1. UNCHANGED <<gate, snapshots, bases, events, pc, lease>>
    BY <1>2 DEF Tick, vars, files, stored
  <2>2. Inside' = Inside /\ CurrentSnapshot' = CurrentSnapshot /\ Journal' = Journal
    BY <2>1 DEF Inside, LeasesAt, CurrentSnapshot, CurrentBase, Journal
  <2>3. OwnerSeen' = OwnerSeen /\ DocumentSeen' = DocumentSeen
    BY <2>2 DEF OwnerSeen, DocumentSeen
  <2>4. QED
    BY <2>3 DEF Lock!lockVars, OwnerSeen, DocumentSeen
<1>3. ASSUME NEW p \in Process, Act(p)
      PROVE  [Lock!NextOwner]_(Lock!lockVars)
  BY <1>1, <1>3 DEF Lock!NextOwner, Lock!Enter, Lock!Publish, Lock!Leave, Lock!lockVars,
     OwnerSeen, DocumentSeen
<1>4. QED
  BY <1>2, <1>3 DEF Next, Act

\* The abstract lock starts free, with the attempts there were.
LEMMA ExclusiveStarts ==
    ASSUME LockInit
    PROVE  Lock!FreeInit
<1>1. LockInv /\ Journal = Earlier /\ CurrentSnapshot.document = {}
  BY LockStarts, JournalStarts
<1>2. \A p \in Process : pc[p] \notin Owning
  BY DEF LockInit, Owning
<1>3. OwnerSeen = Nobody
  BY <1>1, <1>2, OwnerIs DEF LockInv
<1>4. QED
  BY <1>1, <1>3 DEF Lock!FreeInit, OwnerSeen

\* Unless two appends come to the same fence, the directories, renames and fences
\* implement the abstract lock, whatever processes there are and die
\* (withCapacityRegistryLock; the fence of an append is README section 6's exception).
THEOREM LockImplemented ==
    ASSUME ListingFails = FALSE
    PROVE  LockSpec /\ []FreshFence => ImplementsLock
<1>1. LockInit => LockInv /\ JournalInv /\ Lock!FreeInit
  BY LockStarts, JournalStarts, ExclusiveStarts
<1>2. LockInv /\ JournalInv /\ FreshFence /\ [Next]_vars =>
        LockInv' /\ JournalInv' /\ [Lock!NextOwner]_(Lock!lockVars)
  BY LockStep, JournalStep, ExclusiveStep
<1>3. QED
  BY <1>1, <1>2, PTL DEF LockSpec, ImplementsLock, Lock!Exclusive

\* Then what an operation was told to be a success stays in what a reader finds
\* (writeRegistryUnlocked, appendCapacityAttemptUnlocked).
THEOREM SuccessKept ==
    ASSUME ListingFails = FALSE
    PROVE  LockSpec /\ []FreshFence => []SuccessIsKept
<1>1. LockInit => LockInv /\ JournalInv
  BY LockStarts, JournalStarts
<1>2. LockInv /\ JournalInv /\ FreshFence /\ [Next]_vars => LockInv' /\ JournalInv'
  BY LockStep, JournalStep
<1>3. LockInv /\ JournalInv => SuccessIsKept
  BY DEF LockInv, SnapshotKept, JournalInv, AppendKept, Recorded, SuccessIsKept, At, Document
<1>4. QED
  BY <1>1, <1>2, <1>3, PTL DEF LockSpec

-----------------------------------------------------------------------------
(* One process that appends                                                *)

\* With one append, every step keeps its fence above the journal's.
LEMMA SoleOne ==
    ASSUME LockInv, SoleAppend, \A a, b \in Appends : a = b, NEW p \in Process, Act(p)
    PROVE  SoleAppend'
<1>1. pc \in [Process -> Location] /\ lease = [q \in Process |-> lease[q]]
  BY DEF LockInv, LockTypeOK, LocalsOK
<1>2. \A q \in Process : q # p => pc'[q] = pc[q] /\ lease'[q] = lease[q]
  BY LocalsOne DEF LockInv
<1>3. ASSUME p \in Appends /\ pc'[p] \in Beginning =>
               pc[p] \in Beginning /\ bases' = bases /\ events' = events,
             p \notin Appends => bases' = bases /\ events' = events,
             p \in Appends /\ pc'[p] \in Claiming \union Marking \union Owning =>
               lease'[p].fence > 0
      PROVE  SoleAppend'
  BY <1>2, <1>3, ProcessAssumption DEF SoleAppend
<1>4. p \in Appends /\ pc[p] \in Claiming \union Marking \union Owning => lease[p].fence > 0
  BY DEF SoleAppend
<1>5. pc[p] \in {"write-base", "base", "sweep", "swept"} => p \in Appends
  BY DEF LockInv, OwnOperation
<1>6. highWater + 1 \in Nat /\ highWater + 1 > 0 /\ now \in Nat
      /\ lease[p].fence \in Nat /\ LeaseOk(lease[p])
  BY DEF LockInv, LockTypeOK, FilesOK, LocalsOK, LeaseOk
<1>7. CASE ReadGate(p)
  BY <1>1, <1>3, <1>4, <1>5, <1>7 DEF ReadGate, Goto, At, files, stored, Beginning, Claiming,
     Marking, Owning
<1>8. CASE ReadAnnounced(p)
  BY <1>1, <1>3, <1>4, <1>5, <1>8 DEF ReadAnnounced, Goto, At, files, stored, Beginning,
     Claiming, Marking, Owning
<1>9. CASE ReadMarker(p)
  BY <1>1, <1>3, <1>4, <1>5, <1>9 DEF ReadMarker, Goto, At, files, stored, Beginning, Claiming,
     Marking, Owning
<1>10. CASE CleanMarker(p)
  BY <1>1, <1>3, <1>4, <1>5, <1>10 DEF CleanMarker, Goto, At, files, stored, Beginning,
     Claiming, Marking, Owning
<1>11. CASE Announce(p)
  <2> DEFINE f == Greatest({now, HighestFence}) + 1
             claim == [proc |-> p, fence |-> f, expires |-> Least(now + LeaseTime, MaxTime)]
  <2>1. /\ lease' = [lease EXCEPT ![p] = claim] /\ pc' = [pc EXCEPT ![p] = "reserve"]
        /\ pc[p] = "announce" /\ bases' = bases /\ events' = events
    BY <1>11 DEF Announce, Goto, At, stored
  <2>2. f > 0
    <3>1. Greatest({now, HighestFence}) \in Nat
      BY <1>6, GreatestOfTwo, HighestFenceNatural DEF LockInv
    <3>2. QED
      BY <3>1
  <2>3. claim.fence = f
    OBVIOUS
  <2> HIDE DEF f, claim
  <2>4. lease'[p].fence > 0
    BY <1>1, <2>1, <2>2, <2>3
  <2>5. pc[p] \in Beginning
    BY <2>1 DEF Beginning
  <2>6. QED
    BY <1>3, <2>1, <2>4, <2>5
<1>12. CASE ReserveFence(p)
  <2> DEFINE f == Greatest({lease[p].fence, highWater + 1})
  <2>1. f \in Nat /\ f >= highWater + 1
    BY <1>6, GreatestOfTwo
  <2>2. /\ lease' = [lease EXCEPT ![p].fence = f] /\ pc[p] = "reserve"
        /\ bases' = bases /\ events' = events
    BY <1>12 DEF ReserveFence, At, files, stored
  <2> HIDE DEF f
  <2>3. lease'[p] = [proc |-> lease[p].proc, fence |-> f, expires |-> lease[p].expires]
    BY <1>1, <1>6, <2>1, <2>2, FenceSet
  <2>4. lease'[p].fence > 0
    <3>1. highWater \in Nat
      BY DEF LockInv, LockTypeOK, FilesOK
    <3>2. QED
      BY <2>1, <2>3, <3>1
  <2>5. pc[p] \in Beginning
    BY <2>2 DEF Beginning, Claiming
  <2>6. QED
    BY <1>3, <2>2, <2>4, <2>5
<1>13. CASE CheckHighWater(p)
  <2>1. /\ lease' = lease \/ lease' = [lease EXCEPT ![p].fence = highWater + 1]
        /\ pc[p] = "publish" /\ bases' = bases /\ events' = events
    BY <1>13 DEF CheckHighWater, At, files, stored
  <2>2. pc[p] \in Beginning /\ pc[p] \in Claiming
    BY <2>1 DEF Beginning, Claiming
  <2>3. CASE lease' = lease
    BY <1>3, <1>4, <2>1, <2>2, <2>3
  <2>4. CASE lease' = [lease EXCEPT ![p].fence = highWater + 1]
    <3>1. lease'[p] = [proc |-> lease[p].proc, fence |-> highWater + 1,
                       expires |-> lease[p].expires]
      BY <1>1, <1>6, <2>4, FenceSet
    <3>2. lease'[p].fence > 0
      BY <1>6, <3>1
    <3>3. QED
      BY <1>3, <2>1, <2>2, <3>2
  <2>5. QED
    BY <2>1, <2>3, <2>4
<1>14. CASE WriteHighWater(p)
  BY <1>1, <1>3, <1>4, <1>5, <1>14 DEF WriteHighWater, Goto, At, files, stored, Beginning,
     Claiming, Marking, Owning
<1>15. CASE TakeMarker(p)
  BY <1>1, <1>3, <1>4, <1>5, <1>15 DEF TakeMarker, Goto, At, files, stored, Beginning, Claiming,
     Marking, Owning
<1>16. CASE MissMarker(p)
  BY <1>1, <1>3, <1>4, <1>5, <1>16 DEF MissMarker, Goto, At, files, stored, Beginning, Claiming,
     Marking, Owning
<1>17. CASE Withdraw(p)
  BY <1>1, <1>3, <1>4, <1>5, <1>17 DEF Withdraw, Goto, At, files, stored, Beginning, Claiming,
     Marking, Owning
<1>18. CASE AssertMarker(p, "assert", "look")
  BY <1>1, <1>3, <1>4, <1>5, <1>18 DEF AssertMarker, Goto, At, files, stored, Beginning,
     Claiming, Marking, Owning
<1>19. CASE LookAtLock(p)
  BY <1>1, <1>3, <1>4, <1>5, <1>19 DEF LookAtLock, Goto, At, files, stored, Beginning, Claiming,
     Marking, Owning
<1>20. CASE LookAtQuarantine(p)
  BY <1>1, <1>3, <1>4, <1>5, <1>20 DEF LookAtQuarantine, Goto, At, files, stored, Beginning,
     Claiming, Marking, Owning
<1>21. CASE Evict(p)
  BY <1>1, <1>3, <1>4, <1>5, <1>21 DEF Evict, Goto, At, files, stored, Beginning, Claiming,
     Marking, Owning
<1>22. CASE Purge(p)
  BY <1>1, <1>3, <1>4, <1>5, <1>22 DEF Purge, Goto, At, files, stored, Beginning, Claiming,
     Marking, Owning
<1>23. CASE AssertMarker(p, "confirm-marker", "install")
  BY <1>1, <1>3, <1>4, <1>5, <1>23 DEF AssertMarker, Goto, At, files, stored, Beginning,
     Claiming, Marking, Owning
<1>24. CASE Install(p)
  BY <1>1, <1>3, <1>4, <1>5, <1>24 DEF Install, Goto, At, files, stored, Beginning, Claiming,
     Marking, Owning
<1>25. CASE GiveMarkerBack(p)
  BY <1>1, <1>3, <1>4, <1>5, <1>25 DEF GiveMarkerBack, Goto, At, files, stored, Beginning,
     Claiming, Marking, Owning
<1>26. CASE Prepare(p)
  BY <1>1, <1>3, <1>4, <1>5, <1>26 DEF Prepare, Goto, At, files, stored, Beginning, Claiming,
     Marking, Owning
<1>27. CASE AssertOwner(p, "write", "rename")
  BY <1>1, <1>3, <1>4, <1>5, <1>27 DEF AssertOwner, Goto, At, files, stored, Beginning,
     Claiming, Marking, Owning
<1>28. CASE PublishSnapshot(p)
  BY <1>1, <1>3, <1>4, <1>5, <1>28 DEF PublishSnapshot, Goto, At, files, stored, Beginning,
     Claiming, Marking, Owning
<1>29. CASE CompactSnapshots(p)
  BY <1>1, <1>3, <1>4, <1>5, <1>29 DEF CompactSnapshots, Goto, At, files, stored, Beginning,
     Claiming, Marking, Owning
<1>30. CASE PublishEvent(p)
  BY <1>1, <1>3, <1>4, <1>5, <1>30 DEF PublishEvent, Goto, At, files, stored, Beginning,
     Claiming, Marking, Owning
<1>31. CASE AssertOwner(p, "write-base", "base")
  BY <1>1, <1>3, <1>4, <1>5, <1>31 DEF AssertOwner, Goto, At, files, stored, Beginning,
     Claiming, Marking, Owning
<1>32. CASE PublishBase(p)
  BY <1>1, <1>3, <1>4, <1>5, <1>32 DEF PublishBase, Goto, At, files, stored, Beginning,
     Claiming, Marking, Owning
<1>33. CASE AssertOwner(p, "sweep", "swept")
  BY <1>1, <1>3, <1>4, <1>5, <1>33 DEF AssertOwner, Goto, At, files, stored, Beginning,
     Claiming, Marking, Owning
<1>34. CASE Sweep(p)
  BY <1>1, <1>3, <1>4, <1>5, <1>34 DEF Sweep, Goto, At, files, stored, Beginning, Claiming,
     Marking, Owning
<1>35. CASE AssertOwner(p, "confirm", "release")
  BY <1>1, <1>3, <1>4, <1>5, <1>35 DEF AssertOwner, Goto, At, files, stored, Beginning,
     Claiming, Marking, Owning
<1>36. CASE RemoveMarker(p)
  BY <1>1, <1>3, <1>4, <1>5, <1>36 DEF RemoveMarker, Goto, At, files, stored, Beginning,
     Claiming, Marking, Owning
<1>37. CASE RemoveDirectory(p)
  BY <1>1, <1>3, <1>4, <1>5, <1>37 DEF RemoveDirectory, Goto, At, files, stored, Beginning,
     Claiming, Marking, Owning
<1>38. CASE Busy(p)
  BY <1>1, <1>3, <1>4, <1>5, <1>38 DEF Busy, Goto, At, files, stored, Beginning, Claiming,
     Marking, Owning
<1>39. CASE ProbeFails(p)
  BY <1>1, <1>3, <1>4, <1>5, <1>39 DEF ProbeFails, Goto, At, files, stored, Beginning, Claiming,
     Marking, Owning
<1>40. CASE Die(p)
  BY <1>1, <1>3, <1>4, <1>5, <1>40 DEF Die, Ended, Goto, At, files, stored, Beginning, Claiming,
     Marking, Owning
<1>41. QED
  BY <1>7, <1>8, <1>9, <1>10, <1>11, <1>12, <1>13, <1>14, <1>15, <1>16, <1>17, <1>18, <1>19,
     <1>20, <1>21, <1>22, <1>23, <1>24, <1>25, <1>26, <1>27, <1>28, <1>29, <1>30, <1>31, <1>32,
     <1>33, <1>34, <1>35, <1>36, <1>37, <1>38, <1>39, <1>40 DEF Act, Step

\* The one append never comes to a fence that the journal has.
LEMMA SoleIsFresh ==
    ASSUME LockInv, JournalInv, SoleAppend
    PROVE  FreshFence
<1>1. ASSUME NEW p \in Appends, pc[p] = "inside"
      PROVE  StoredFence(p) # lease[p].fence
  <2>1. bases = {} /\ \A e \in events : e.fence = 0
    BY <1>1 DEF SoleAppend, Beginning
  <2>2. lease[p].fence > 0
    BY <1>1 DEF SoleAppend, Owning
  <2>3. (\A b \in bases : b.fence <= 0) /\ (\A e \in events : e.fence <= 0)
    BY <2>1
  <2>4. StoredFence(p) \in Nat /\ StoredFence(p) <= 0
    BY <2>3, StoredFenceAbove DEF LockInv, JournalInv
  <2>5. QED
    BY <2>2, <2>4
<1>2. QED
  BY <1>1 DEF FreshFence, At

\* The facts of SoleOne as an invariant.
LEMMA SoleInvariant ==
    ASSUME ListingFails = FALSE, \A a, b \in Appends : a = b
    PROVE  LockSpec => [](LockInv /\ JournalInv /\ SoleAppend)
<1>1. LockInit => LockInv /\ JournalInv /\ SoleAppend
  <2>1. ASSUME LockInit PROVE SoleAppend
    <3>1. bases = {} /\ \A e \in events : e.fence = 0
      BY <2>1 DEF LockInit
    <3>2. \A p \in Process : pc[p] \in {"dead", "gate"}
      BY <2>1 DEF LockInit
    <3>3. QED
      BY <3>1, <3>2, ProcessAssumption DEF SoleAppend, Claiming, Marking, Owning
  <2>2. QED
    BY <2>1, LockStarts, JournalStarts
<1>2. ASSUME LockInv, JournalInv, SoleAppend, [Next]_vars
      PROVE  LockInv' /\ JournalInv' /\ SoleAppend'
  <2>1. LockInv' /\ JournalInv'
    BY <1>2, SoleIsFresh, LockStep, JournalStep
  <2>2. ASSUME NEW p \in Process, Act(p) PROVE SoleAppend'
    BY <1>2, <2>2, SoleOne
  <2>3. CASE Tick \/ UNCHANGED vars
    <3>1. UNCHANGED <<bases, events, pc, lease>>
      BY <2>3 DEF Tick, vars, files, stored
    <3>2. QED
      BY <1>2, <2>1, <3>1 DEF SoleAppend
  <2>4. QED
    BY <1>2, <2>1, <2>2, <2>3 DEF Next, Act
<1>3. QED
  BY <1>1, <1>2, PTL DEF LockSpec

\* With one process that appends, as in the runs, and any that write the records, the
\* lock implements the abstract one without any further condition.
THEOREM SoleAppendImplements ==
    ASSUME ListingFails = FALSE, \A a, b \in Appends : a = b
    PROVE  LockSpec => ImplementsLock
<1>1. LockInv /\ JournalInv /\ SoleAppend => FreshFence
  BY SoleIsFresh
<1>2. QED
  BY <1>1, SoleInvariant, LockImplemented, PTL

\* And it keeps every success.
THEOREM SoleAppendKept ==
    ASSUME ListingFails = FALSE, \A a, b \in Appends : a = b
    PROVE  LockSpec => []SuccessIsKept
<1>1. LockInv /\ JournalInv /\ SoleAppend => FreshFence
  BY SoleIsFresh
<1>2. QED
  BY <1>1, SoleInvariant, SuccessKept, PTL

=============================================================================

----------------------------- MODULE CapacityLock -----------------------------
(***************************************************************************)
(* The registry lock of capacity-registry-store.mjs: processes of one       *)
(* machine that serialize their registry operations through directories and *)
(* rename, with the fenced snapshots they publish while they are inside.    *)
(*                                                                          *)
(* One action is the work up to the next file system call another process   *)
(* can notice.  A gate path is a directory with the owner markers in it; a  *)
(* lease names its process, for which the recorded start identity stands.   *)
(* rename replaces an empty directory and fails on any other, as POSIX has  *)
(* it.                                                                      *)
(***************************************************************************)
EXTENDS Integers, FiniteSets, SequencesExt

CONSTANTS
    Process,        \* processes that each run one registry operation
    Nobody,
    MaxTime,        \* the bounded clock; every lease has expired at its end
    LeaseTime,      \* leaseMs
    Appends,        \* those that append an attempt; the others write the records
    Threshold,      \* ATTEMPT_COMPACTION_THRESHOLD
    MaxAttempts,    \* MAX_ATTEMPTS
    Earlier,        \* attempts that are in the journal when the processes start
    Mortal,         \* the processes that may die
    Gone,           \* processes that have died before the others start
    Unverifiable,   \* TRUE: the process identity probe of the host may fail
    ListingFails    \* TRUE: reading an owner directory may meet EPERM or EBUSY

ASSUME ClockAssumption == MaxTime \in Nat /\ LeaseTime \in Nat \ {0}
ASSUME ProcessAssumption ==
    /\ Nobody \notin Process
    /\ Appends \subseteq Process /\ Mortal \subseteq Process /\ Gone \subseteq Process

VARIABLES
    gate,       \* registry.lock, registry.lock.reclaim, registry.lock.quarantine
    pending,    \* registry-reclaim.<owner>.json: announced claims of the marker
    highWater,  \* registry-fence.json
    snapshots,  \* records.<fence>.<revision>.json
    bases,      \* attempt-base.<fence>...json
    events,     \* attempt-event.<fence>...json
    now,
    pc,
    lease,      \* the lease a process has taken or is taking
    seen        \* what it has read and acts on in later steps

vars == <<gate, pending, highWater, snapshots, bases, events, now, pc, lease, seen>>
stored == <<snapshots, bases, events>>
files == <<gate, pending, highWater, stored>>

Path == {"lock", "reclaim", "quarantine"}
NoLease == [proc |-> Nobody, fence |-> 0, expires |-> 0]
Lease == [proc : Process \union {Nobody}, fence : Nat, expires : Nat]
Missing == [exists |-> FALSE, owners |-> {}]
Directory(owners) == [exists |-> TRUE, owners |-> owners]
NothingSeen == [state |-> "absent", revision |-> 0, document |-> {}]

Least(a, b) == IF a < b THEN a ELSE b
Greatest(S) == CHOOSE n \in S : \A m \in S : m <= n

\* Mutant: an owner that is merely late counts as gone.
MutantExpiryAlone(l) == l.expires > now

\* leaseIsHeld: expiry alone ends nothing, the process must be gone as well.
Held(l) == l.expires > now \/ (l.proc # Nobody /\ pc[l.proc] # "dead")
\* What makes leaseIsHeld ask the host, whose probe may fail.
Probes(leases) == Unverifiable /\ \E l \in leases : l.expires <= now

LeasesAt(path) == gate[path].owners
PendingLeases == {pending[p] : p \in Process} \ {NoLease}

GateState(path) ==
    IF ~gate[path].exists THEN "absent"
    ELSE IF \E l \in LeasesAt(path) : Held(l) THEN "held" ELSE "stale"

\* A listing that meets EPERM or EBUSY counts as an empty one (gateOwnerFiles).
ObservedStates(path) ==
    {GateState(path)} \union
        (IF ListingFails /\ gate[path].exists THEN {"stale"} ELSE {})

\* highestFence over the high water mark, the snapshots, lock and marker.
HighestFence ==
    Greatest({highWater} \union {s.fence : s \in snapshots}
             \union {b.fence : b \in bases} \union {e.fence : e \in events}
             \union {l.fence : l \in LeasesAt("lock") \union LeasesAt("reclaim")})

\* readRegistrySnapshot: the highest fence, then the highest revision.
NoSnapshot == [fence |-> 0, revision |-> 0, document |-> {}]
Newer(s, t) == s.fence > t.fence \/ (s.fence = t.fence /\ s.revision >= t.revision)
CurrentSnapshot ==
    IF snapshots = {} THEN NoSnapshot
    ELSE CHOOSE s \in snapshots : \A t \in snapshots : Newer(s, t)

\* readAttemptSnapshot: the newest base and every event not below its fence.
NoBase == [fence |-> 0, name |-> 0, attempts |-> {}]
CurrentBase ==
    IF bases = {} THEN NoBase
    ELSE CHOOSE b \in bases : \A c \in bases :
             b.fence > c.fence \/ (b.fence = c.fence /\ b.name >= c.name)
Journal ==
    CurrentBase.attempts \union
        {e.attempt : e \in {f \in events : f.fence >= CurrentBase.fence}}

Document(p) == IF p \in Appends THEN Journal ELSE CurrentSnapshot.document
StoredFence(p) ==
    IF p \in Appends THEN Greatest({CurrentBase.fence} \union {e.fence : e \in events})
    ELSE CurrentSnapshot.fence

Renamable(from, to) == gate[from].exists /\ LeasesAt(to) = {}

-----------------------------------------------------------------------------
At(p, from) == pc[p] = from
Goto(p, to) == pc' = [pc EXCEPT ![p] = to]
Forget(p) ==
    /\ lease' = [lease EXCEPT ![p] = NoLease]
    /\ seen' = [seen EXCEPT ![p] = NothingSeen]
Owns(p, path) == lease[p] \in LeasesAt(path) /\ Held(lease[p])

\* What a process that died earlier may have left: an announcement, the marker,
\* the lock, or the empty directory of a lock it was releasing.
Leftover(p) == [proc |-> p, fence |-> 1, expires |-> LeaseTime]
NoGates == [path \in Path |-> Missing]
LeftGates ==
    {NoGates}
    \union {[NoGates EXCEPT !["reclaim"] = Directory({Leftover(p)})] : p \in Gone}
    \union {[NoGates EXCEPT !["lock"] = Directory({Leftover(p)})] : p \in Gone}
    \union {[NoGates EXCEPT !["lock"] = Directory({})] : p \in Gone}

LockInit ==
    /\ gate \in LeftGates
    /\ pending \in [Process -> {NoLease} \union {Leftover(p) : p \in Gone}]
    /\ \A p \in Process : pending[p] # NoLease =>
         pending[p].proc = p /\ ~gate["lock"].exists
    /\ highWater = IF Gone = {} THEN 0 ELSE 1
    /\ snapshots = {} /\ bases = {}
    /\ events = {[fence |-> 0, attempt |-> a] : a \in Earlier}
    /\ now = 0
    /\ pc = [p \in Process |-> IF p \in Gone THEN "dead" ELSE "gate"]
    /\ lease = [p \in Process |-> NoLease]
    /\ seen = [p \in Process |-> NothingSeen]

\* The look at the lock before anything is claimed; held means another try.
ReadGate(p) ==
    /\ At(p, "gate")
    /\ \E state \in ObservedStates("lock") :
         /\ state # "held"
         /\ Goto(p, "announced")
    /\ UNCHANGED <<files, now, lease, seen>>

\* readReclaimState, first half: claims that are announced.
ReadAnnounced(p) ==
    /\ At(p, "announced")
    /\ IF \E l \in PendingLeases : Held(l)
       THEN Goto(p, "gate") /\ UNCHANGED seen
       ELSE /\ Goto(p, "marker")
            /\ seen' = [seen EXCEPT ![p].state =
                            IF PendingLeases = {} THEN "absent" ELSE "stale"]
    /\ UNCHANGED <<files, now, lease>>

\* readReclaimState, second half: the marker itself.
ReadMarker(p) ==
    /\ At(p, "marker")
    /\ \E state \in ObservedStates("reclaim") :
         Goto(p, IF state = "held" THEN "gate"
                 ELSE IF state = "stale" \/ seen[p].state = "stale" THEN "clean"
                 ELSE "announce")
    /\ Forget(p)
    /\ UNCHANGED <<files, now>>

\* Mutant: dead announcements stay.
MutantKeepsAnnounced(p) ==
    /\ At(p, "clean")
    /\ LET left == {l \in LeasesAt("reclaim") : Held(l)}
       IN  gate' = [gate EXCEPT !["reclaim"] =
                        IF left = {} THEN Missing ELSE Directory(left)]
    /\ Goto(p, "announced")
    /\ UNCHANGED <<pending, highWater, stored, now, lease, seen>>

\* removeStaleReclaim, then cleanupStaleLeaseFiles over the announcements.
CleanMarker(p) ==
    /\ At(p, "clean")
    /\ LET left == {l \in LeasesAt("reclaim") : Held(l)}
       IN  gate' = [gate EXCEPT !["reclaim"] =
                        IF left = {} THEN Missing ELSE Directory(left)]
    /\ pending' = [q \in Process |-> IF Held(pending[q]) THEN pending[q] ELSE NoLease]
    /\ Goto(p, "announced")
    /\ UNCHANGED <<highWater, stored, now, lease, seen>>

\* Fence and lease of a new claim, published for the others to see.
Announce(p) ==
    /\ At(p, "announce")
    /\ LET claim == [proc |-> p, fence |-> Greatest({now, HighestFence}) + 1,
                     expires |-> Least(now + LeaseTime, MaxTime)]
       IN  /\ lease' = [lease EXCEPT ![p] = claim]
           /\ pending' = [pending EXCEPT ![p] = claim]
    /\ Goto(p, "reserve")
    /\ UNCHANGED <<gate, highWater, stored, now, seen>>

\* reserveLeaseFence reads the high water mark and moves above it ...
ReserveFence(p) ==
    /\ At(p, "reserve")
    /\ lease' = [lease EXCEPT ![p].fence = Greatest({@, highWater + 1})]
    /\ Goto(p, "publish")
    /\ UNCHANGED <<files, now, seen>>

\* ... publishFenceHighWater reads it again: an equal mark is accepted ...
CheckHighWater(p) ==
    /\ At(p, "publish")
    /\ IF highWater < lease[p].fence
       THEN Goto(p, "mark") /\ UNCHANGED lease
       ELSE IF highWater = lease[p].fence
       THEN Goto(p, "stage") /\ UNCHANGED lease
       ELSE /\ lease' = [lease EXCEPT ![p].fence = highWater + 1]
            /\ Goto(p, "reserve")
    /\ UNCHANGED <<files, now, seen>>

\* ... and renames the new mark over whatever is there by then.
WriteHighWater(p) ==
    /\ At(p, "mark")
    /\ highWater' = lease[p].fence
    /\ Goto(p, "stage")
    /\ UNCHANGED <<gate, pending, stored, now, lease, seen>>

\* The staged directory, owner marker inside, becomes the reclaim marker.
TakeMarker(p) ==
    /\ At(p, "stage")
    /\ LeasesAt("reclaim") = {}
    /\ gate' = [gate EXCEPT !["reclaim"] = Directory({lease[p]})]
    /\ Goto(p, "taken")
    /\ UNCHANGED <<pending, highWater, stored, now, lease, seen>>

\* Another process was faster: the announcement is withdrawn, the claim repeated.
MissMarker(p) ==
    /\ At(p, "stage")
    /\ LeasesAt("reclaim") # {}
    /\ pending' = [pending EXCEPT ![p] = NoLease]
    /\ Goto(p, "announced")
    /\ Forget(p)
    /\ UNCHANGED <<gate, highWater, stored, now>>

Withdraw(p) ==
    /\ At(p, "taken")
    /\ pending' = [pending EXCEPT ![p] = NoLease]
    /\ Goto(p, "assert")
    /\ UNCHANGED <<gate, highWater, stored, now, lease, seen>>

AssertMarker(p, from, to) ==
    /\ At(p, from)
    /\ Goto(p, IF Owns(p, "reclaim") THEN to ELSE "fail")
    /\ UNCHANGED <<files, now, lease, seen>>

\* The look at the lock that counts: it is taken with the marker in hand.
LookAtLock(p) ==
    /\ At(p, "look")
    /\ \E state \in ObservedStates("lock") :
         /\ seen' = [seen EXCEPT ![p].state = state]
         /\ Goto(p, IF state = "held" THEN "yield" ELSE "quarantine")
    /\ UNCHANGED <<files, now, lease>>

LookAtQuarantine(p) ==
    /\ At(p, "quarantine")
    /\ Goto(p, IF GateState("quarantine") = "held" THEN "yield"
               ELSE IF seen[p].state = "absent" THEN "purge" ELSE "evict")
    /\ seen' = [seen EXCEPT ![p] = NothingSeen]
    /\ UNCHANGED <<files, now, lease>>

\* What is at the lock path by now is moved aside, whoever it belongs to.
Evict(p) ==
    /\ At(p, "evict")
    /\ IF gate["lock"].exists
       THEN /\ gate' = [gate EXCEPT !["quarantine"] = gate["lock"], !["lock"] = Missing]
            /\ Goto(p, "purge")
       ELSE Goto(p, "yield") /\ gate' = [gate EXCEPT !["quarantine"] = Missing]
    /\ UNCHANGED <<pending, highWater, stored, now, lease, seen>>

Purge(p) ==
    /\ At(p, "purge")
    /\ gate' = [gate EXCEPT !["quarantine"] = Missing]
    /\ Goto(p, "confirm-marker")
    /\ UNCHANGED <<pending, highWater, stored, now, lease, seen>>

\* rename(reclaimPath, lockPath): the marker becomes the lock.
Install(p) ==
    /\ At(p, "install")
    /\ IF Renamable("reclaim", "lock")
       THEN /\ gate' = [gate EXCEPT !["lock"] = gate["reclaim"], !["reclaim"] = Missing]
            /\ Goto(p, "inside")
       ELSE Goto(p, "yield") /\ UNCHANGED gate
    /\ UNCHANGED <<pending, highWater, stored, now, lease, seen>>

\* releaseReclaim, before the next try ("yield") or before the error ("fail").
GiveMarkerBack(p) ==
    /\ pc[p] \in {"yield", "fail"}
    /\ LET left == LeasesAt("reclaim") \ {lease[p]}
       IN  gate' = [gate EXCEPT !["reclaim"] =
                        IF lease[p] \notin @.owners THEN @
                        ELSE IF left = {} THEN Missing ELSE Directory(left)]
    /\ Goto(p, IF At(p, "yield") THEN "gate" ELSE "threw")
    /\ Forget(p)
    /\ UNCHANGED <<pending, highWater, stored, now>>

-----------------------------------------------------------------------------
\* The operation inside reads what is stored, checks its fence against it and
\* prepares the file it adds.  A full journal and a stale fence are errors.
Prepare(p) ==
    /\ At(p, "inside")
    /\ LET top == CurrentSnapshot
           next == [state |-> "absent", document |-> Document(p), revision |->
                        IF lease[p].fence = top.fence THEN top.revision + 1 ELSE 0]
       IN  IF \/ lease[p].fence < StoredFence(p)
              \/ p \in Appends /\ Cardinality(Document(p)) >= MaxAttempts
           THEN Goto(p, "abandon") /\ UNCHANGED seen
           ELSE Goto(p, "write") /\ seen' = [seen EXCEPT ![p] = next]
    /\ UNCHANGED <<files, now, lease>>

\* assertOwner, the last call before a file is renamed into place or removed,
\* and the one after the operation: only then is it a success.
AssertOwner(p, from, to) ==
    /\ At(p, from)
    /\ Goto(p, IF Owns(p, "lock") THEN to ELSE "abandon")
    /\ UNCHANGED <<files, now, lease, seen>>

\* The rename that publishes a registry snapshot.
PublishSnapshot(p) ==
    /\ At(p, "rename") /\ p \notin Appends
    /\ snapshots' = snapshots \union
         {[fence |-> lease[p].fence, revision |-> seen[p].revision,
           document |-> seen[p].document \union {p}]}
    /\ Goto(p, "compact")
    /\ UNCHANGED <<gate, pending, highWater, bases, events, now, lease, seen>>

\* compactSnapshots keeps the newest; a process that dies before it leaves the
\* older ones, which no reader selects.
CompactSnapshots(p) ==
    /\ At(p, "compact")
    /\ snapshots' = {CurrentSnapshot}
    /\ Goto(p, "confirm")
    /\ UNCHANGED <<gate, pending, highWater, bases, events, now, lease, seen>>

\* The rename that publishes one attempt; from the threshold on, a base follows.
PublishEvent(p) ==
    /\ At(p, "rename") /\ p \in Appends
    /\ events' = events \union {[fence |-> lease[p].fence, attempt |-> p]}
    /\ Goto(p, IF Cardinality(events') >= Threshold THEN "write-base" ELSE "confirm")
    /\ UNCHANGED <<gate, pending, highWater, snapshots, bases, now, lease, seen>>

\* Mutant: the base is made of what was read before the append.
MutantBaseWithoutOwn(p) ==
    /\ At(p, "base")
    /\ \E name \in 1..2 :
         /\ \A b \in bases : b.fence = lease[p].fence => b.name # name
         /\ bases' = bases \union {[fence |-> lease[p].fence, name |-> name,
                                    attempts |-> seen[p].document]}
    /\ Goto(p, "sweep")
    /\ UNCHANGED <<gate, pending, highWater, snapshots, events, now, lease, seen>>

\* A base holds everything so far; its name, which orders equal fences, is random.
PublishBase(p) ==
    /\ At(p, "base")
    /\ \E name \in 1..2 :
         /\ \A b \in bases : b.fence = lease[p].fence => b.name # name
         /\ bases' = bases \union {[fence |-> lease[p].fence, name |-> name,
                                    attempts |-> seen[p].document \union {p}]}
    /\ Goto(p, "sweep")
    /\ UNCHANGED <<gate, pending, highWater, snapshots, events, now, lease, seen>>

\* compactAttemptStorage: nothing above the own fence, and not the newest base
\* of the own fence, is removed; one file after the other.
Doomed(p) ==
    LET own == {b \in bases : b.fence = lease[p].fence}
        newest == CHOOSE b \in own : \A c \in own : c.name <= b.name
    IN  [bases |-> {b \in bases : b.fence <= lease[p].fence} \ {newest},
         events |-> {e \in events : e.fence <= lease[p].fence}]

Sweep(p) ==
    /\ At(p, "swept")
    /\ LET doomed == Doomed(p)
       IN  \/ /\ doomed.bases # {}
              /\ \E b \in doomed.bases : bases' = bases \ {b}
              /\ UNCHANGED <<events, pc>>
           \/ /\ doomed.bases = {} /\ doomed.events # {}
              /\ \E e \in doomed.events : events' = events \ {e}
              /\ UNCHANGED <<bases, pc>>
           \/ /\ doomed.bases = {} /\ doomed.events = {}
              /\ Goto(p, "confirm")
              /\ UNCHANGED <<bases, events>>
    /\ UNCHANGED <<gate, pending, highWater, snapshots, now, lease, seen>>

\* releaseLease removes the marker of this owner, then the directory if empty.
RemoveMarker(p) ==
    /\ pc[p] \in {"release", "abandon"}
    /\ gate' = [gate EXCEPT !["lock"].owners = @ \ {lease[p]}]
    /\ Goto(p, IF At(p, "release") THEN "leave" ELSE "leave-failed")
    /\ UNCHANGED <<pending, highWater, stored, now, lease, seen>>

RemoveDirectory(p) ==
    /\ pc[p] \in {"leave", "leave-failed"}
    /\ gate' = [gate EXCEPT !["lock"] = IF @.owners = {} THEN Missing ELSE @]
    /\ Goto(p, IF At(p, "leave") THEN "done" ELSE "threw")
    /\ Forget(p)
    /\ UNCHANGED <<pending, highWater, stored, now>>

\* The deadline: loop heads give up, with nothing left behind.
Busy(p) ==
    /\ pc[p] \in {"gate", "announced"}
    /\ Goto(p, "threw")
    /\ Forget(p)
    /\ UNCHANGED <<files, now>>

\* The identity probe fails: the caller gets the error, the gate stays as it is.
ProbeFails(p) ==
    /\ \/ At(p, "gate") /\ Probes(LeasesAt("lock")) /\ Goto(p, "threw")
       \/ At(p, "announced") /\ Probes(PendingLeases) /\ Goto(p, "threw")
       \/ At(p, "marker") /\ Probes(LeasesAt("reclaim")) /\ Goto(p, "threw")
       \/ At(p, "look") /\ Probes(LeasesAt("lock")) /\ Goto(p, "fail")
       \/ pc[p] \in {"assert", "confirm-marker"} /\ Probes({lease[p]}) /\ Goto(p, "fail")
       \/ pc[p] \in {"write", "write-base", "sweep", "confirm"} /\ Probes({lease[p]}) /\ Goto(p, "abandon")
    /\ UNCHANGED <<files, now, lease, seen>>

Ended == {"done", "threw", "dead"}

\* Death leaves every file as it is.
Die(p) ==
    /\ p \in Mortal /\ pc[p] \notin Ended
    /\ Goto(p, "dead")
    /\ Forget(p)
    /\ UNCHANGED <<files, now>>

Tick ==
    /\ now < MaxTime
    /\ now' = now + 1
    /\ UNCHANGED <<files, pc, lease, seen>>

Step(p) ==
    \/ ReadGate(p) \/ ReadAnnounced(p) \/ ReadMarker(p) \/ CleanMarker(p)
    \/ Announce(p) \/ ReserveFence(p) \/ CheckHighWater(p) \/ WriteHighWater(p)
    \/ TakeMarker(p) \/ MissMarker(p) \/ Withdraw(p)
    \/ AssertMarker(p, "assert", "look") \/ LookAtLock(p) \/ LookAtQuarantine(p)
    \/ Evict(p) \/ Purge(p) \/ AssertMarker(p, "confirm-marker", "install")
    \/ Install(p) \/ GiveMarkerBack(p)
    \/ Prepare(p) \/ AssertOwner(p, "write", "rename")
    \/ PublishSnapshot(p) \/ CompactSnapshots(p)
    \/ PublishEvent(p) \/ AssertOwner(p, "write-base", "base") \/ PublishBase(p)
    \/ AssertOwner(p, "sweep", "swept") \/ Sweep(p)
    \/ AssertOwner(p, "confirm", "release") \/ RemoveMarker(p) \/ RemoveDirectory(p)

Next ==
    \/ \E p \in Process : Step(p) \/ Busy(p) \/ ProbeFails(p) \/ Die(p)
    \/ Tick

\* Processes that run take their steps and the clock moves; nothing makes a
\* process die, a probe fail or a deadline pass.
Fairness == WF_vars(Tick) /\ \A p \in Process : WF_vars(Step(p))

LockSpec == LockInit /\ [][Next]_vars /\ Fairness

-----------------------------------------------------------------------------
\* The process inside: its marker is in the lock and it is between the rename
\* that installed it and the removal of the marker.
Inside == {p \in Process :
             /\ pc[p] \in {"inside", "write", "rename", "compact", "write-base", "base",
                           "sweep", "swept", "confirm", "release", "abandon"}
             /\ lease[p] \in LeasesAt("lock")}

\* Whoever is inside, of the processes that are running, and the document a
\* reader of the newest snapshot sees.
Lock == INSTANCE ExclusiveLock WITH
    owner <- IF Inside = {} THEN Nobody ELSE CHOOSE p \in Inside : TRUE,
    document <- CurrentSnapshot.document \union Journal

\* architecture.md: one operation at a time is admitted, a suspended owner stays
\* exclusive however late it is, only death ends a turn for its holder; and what
\* is published grows by the operation of the process inside alone.
ImplementsLock == Lock!Exclusive

\* An operation that was told it succeeded is in the document, whatever fences
\* the processes after it reserved.
SuccessIsKept ==
    \A p \in Process : At(p, "done") => p \in Document(p)

\* Dead owners, dead claimants and half-removed directories never wedge the
\* lock: every process that lives comes to the end of its operation.
LockIsFreed == \A p \in Process : <>(pc[p] \in Ended)
==============================================================================

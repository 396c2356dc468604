----------------------- MODULE BacklogDispatchProofs -----------------------
(***************************************************************************)
(* What backlog dispatch guarantees for any Issues, texts, limits, batches *)
(* and scenarios: the coordination limit, and that the Worker of a state   *)
(* is started once.                                                        *)
(*                                                                         *)
(* The dispatcher decides on a snapshot and acts on it later, so both      *)
(* invariants say what has become of an Issue while a run has it in hand.  *)
(***************************************************************************)
EXTENDS BacklogDispatch, FiniteSetTheorems, WellFoundedInduction, TLAPS

-----------------------------------------------------------------------------
(* The inductive invariant                                                 *)

Location ==
    {"idle", "reading", "base", "deciding", "observing", "labelling", "posting",
     "cleaning", "recording"}

Request == [declaration : Declaration, base : Nat]

IssueType == [open : BOOLEAN, pull : BOOLEAN, labels : SUBSET Labels, version : Versions]
EpochType ==
    [dispatch : [Versions -> {"none", "candidate", "admitted", "applied"}],
     recovered : [Versions -> {"none", "admitted", "applied"}],
     attempts : Nat, paused : BOOLEAN]
MemberType == [number : Issues, version : Versions]
RunType ==
    [at : Location, target : Issues \union {Scan}, pulls : SUBSET Issues,
     todo : SUBSET MemberType, base : Nat]
WorkerType ==
    [at : {"idle"}, version : Versions, request : {<< >>}]
    \union [at : {"verifying", "surveying", "ready", "running", "checking"},
            version : Versions, request : Request]
StatusType ==
    [is : {"none", "complete", "waiting", "running", "failed", "blocked", "capacity-waiting"},
     version : Versions \union {0}, base : Nat]
JournalType == [execution : Versions \X Nat, is : {"started", "completed", "blocked", "failed"}]

BacklogTypeOK ==
    /\ issue \in [Issues -> IssueType]
    /\ base \in Nat
    /\ governor \in [Issues -> [epoch : EpochType, attested : SUBSET Versions]]
    /\ wake \in SUBSET (Issues \union {Scan})
    /\ run \in RunType
    /\ queue \in [Issues -> SUBSET Request]
    /\ worker \in [Issues -> WorkerType]
    /\ status \in [Issues -> StatusType]
    /\ recovery = [i \in Issues |-> recovery[i]]
    /\ journal \in [Issues -> SUBSET JournalType]
    /\ irregular \in [Issues -> SUBSET (Uncounted \union Repeatable)]

\* A run takes up an Issue once, and works on some Issue until it has none left.
RunOk ==
    /\ run.at \in {"idle", "reading"} <=> run.todo = {}
    /\ \A m, n \in run.todo : m.number = n.number => m = n

Counted(i) == irregular[i] \cap Uncounted = {}

InHand(i) == \E m \in run.todo : m.number = i

\* A wake asks for the Issue.
AskedFor(i) == i \in wake \/ (run.at = "reading" /\ run.target = i)

Owned(i) == "dsh" \in issue[i].labels
Ended(i) == issue[i].labels \cap {"failed", "blocked"} # {}

\* Nothing was recorded of the Issue, and so no Worker of it came far.
Untouched(i) ==
    /\ governor[i].attested = {}
    /\ worker[i].at \in {"idle", "verifying"}
    /\ ~ issue[i].pull

\* The Issue at hand has its label, or had it until a request failed.
Labelled == {"posting", "cleaning", "recording"}

\* What keeps an Issue in the count of a dispatcher while it counts: its label,
\* until its Worker ends, and then its pull request.
CountOk(i) ==
    /\ ~ Owned(i) /\ ~ Ended(i) => Untouched(i)
    /\ Ended(i) => ~ Owned(i) /\ worker[i].at = "idle"
    /\ InHand(i) =>
          /\ ~ Ended(i) /\ Untouched(i)
          /\ DeclarationNow(i).declares = "work"
          /\ Owned(i) <=> (run.at \in Labelled /\ This = i)
    /\ AskedFor(i) => ~ Owned(i) /\ ~ InHand(i)
    /\ run.at = "reading" => i \notin wake
    /\ Owned(i) \/ issue[i].pull => DeclarationNow(i).declares = "work"
    /\ run.at = "reading" /\ issue[i].pull /\ ~ Owned(i) => i \in run.pulls

\* A Worker that has not started a model found no pull request.
NoPullYet == \A i \in Issues : worker[i].at = "ready" => ~ issue[i].pull

\* The places that are taken, those of Issues in hand included.
Taken ==
    {i \in Issues : issue[i].open /\ Counted(i) /\ (Owned(i) \/ issue[i].pull \/ InHand(i))}

LimitInv ==
    /\ BacklogTypeOK /\ RunOk /\ NoPullYet
    /\ \A i \in Issues : Counted(i) => CountOk(i)
    /\ Cardinality(Taken) <= Limit

Plain(i) == irregular[i] \cap Repeatable = {}

\* Only what was recorded is worked on.
OfAttested(i) ==
    /\ worker[i].at \notin {"idle", "verifying"} => worker[i].version \in governor[i].attested
    /\ status[i].is = "capacity-waiting" => status[i].version \in governor[i].attested
    /\ \A e \in journal[i] : e.execution[1] \in governor[i].attested

\* No request is of a revision that is not there yet.
RevisionsKnown(i) ==
    /\ \A r \in queue[i] : r.base <= base
    /\ worker[i].at # "idle" => worker[i].request.base <= base

\* All there is of a version, or may still come, is of one revision.
Fixed(i, v, revision) ==
    /\ \A e \in journal[i] : e.execution[1] = v => e.execution[2] = revision
    /\ worker[i].at # "idle" /\ worker[i].version = v =>
          /\ worker[i].request.base <= revision
          /\ worker[i].at # "verifying" => worker[i].request.base = revision
    /\ status[i].is = "capacity-waiting" /\ status[i].version = v => status[i].base = revision
    /\ issue[i].version = v => \A r \in queue[i] : r.base <= revision

\* The requests there are of an Issue are no newer than the revision the run
\* goes by.
Older(i) ==
    /\ \A r \in queue[i] : r.base <= run.base
    /\ worker[i].at # "idle" => worker[i].request.base <= run.base

\* A run that acts on a version acts on one that was not recorded.
MemberOk(i) ==
    \A m \in run.todo :
        m.number = i =>
            /\ issue[i].version \in governor[i].attested => issue[i].version = m.version
            /\ m.version \notin governor[i].attested /\ run.at # "base" => Older(i)
            /\ run.at \in Labelled \union {"labelling"} /\ m = Member =>
                  m.version \notin governor[i].attested

StartOk(i) ==
    /\ \A v \in governor[i].attested : Epoch(i).dispatch[v] = "applied"
    /\ \A v \in governor[i].attested :
          \E revision \in Nat : revision <= base /\ Fixed(i, v, revision)
    /\ MemberOk(i)

OnceInv ==
    /\ BacklogTypeOK /\ RunOk
    /\ run.at \notin {"idle", "reading", "base"} => run.base <= base
    /\ \A i \in Issues : OfAttested(i) /\ RevisionsKnown(i)
    /\ \A i \in Issues : Plain(i) => StartOk(i)

-----------------------------------------------------------------------------
(* The least of numbers, and the member at hand                            *)

\* Any numbers have a least one.
LEMMA LeastNatural ==
    ASSUME NEW S, S \subseteq Nat, S # {}
    PROVE  \E m \in S : \A n \in S : m <= n
<1> DEFINE R == OpToRel(<, Nat)
<1>1. \E m \in S : \A y \in S : <<y, m>> \notin R
  <2>1. IsWellFoundedOn(R, Nat)
    BY NatLessThanWellFounded
  <2> HIDE DEF R
  <2>2. QED
    BY <2>1, WFMin
<1>2. PICK m \in S : \A y \in S : <<y, m>> \notin R
  BY <1>1
<1>3. ASSUME NEW y \in S PROVE m <= y
  <2>1. \A a, b \in Nat : <<a, b>> \in R <=> a < b
    BY DEF OpToRel
  <2> HIDE DEF R
  <2>2. m \in Nat /\ y \in Nat /\ ~ (y < m)
    BY <1>2, <2>1
  <2>3. QED
    BY <2>2
<1>4. QED
  BY <1>3

\* What the constants are.
LEMMA Constants ==
    /\ Issues \subseteq Nat /\ 0 \notin Issues /\ IsFiniteSet(Issues)
    /\ Versions \subseteq Nat /\ 0 \notin Versions /\ Versions # {}
    /\ \A v \in Versions : DeclarationOf[v] \in Declaration
    /\ Limit \in Nat /\ 1 \in Nat
BY BacklogAssumption

\* What is recorded of an Issue.
LEMMA IssueShape ==
    ASSUME BacklogTypeOK
    PROVE  \A i \in Issues : issue[i] \in IssueType
BY DEF BacklogTypeOK

\* A run that works on Issues has one at hand, of least number.
LEMMA AtHand ==
    ASSUME BacklogTypeOK, RunOk, run.at \notin {"idle", "reading"}
    PROVE  /\ Member \in run.todo
           /\ This \in Issues /\ Seen \in Versions
           /\ Member = [number |-> This, version |-> Seen]
           /\ InHand(This)
           /\ \A m \in run.todo : m.number = This => m = Member
<1> DEFINE numbers == {m.number : m \in run.todo}
<1>1. run.todo # {} /\ run.todo \subseteq MemberType
  BY DEF BacklogTypeOK, RunOk, RunType
<1>2. numbers \subseteq Nat /\ numbers # {}
  BY <1>1, Constants DEF MemberType
<1>3. PICK n \in numbers : \A k \in numbers : n <= k
  <2> HIDE DEF numbers
  <2>1. QED
    BY <1>2, LeastNatural
<1>4. \E m \in run.todo : \A k \in run.todo : m.number <= k.number
  BY <1>3
<1>5. Member \in run.todo
  BY <1>4 DEF Member
<1>6. This \in Issues /\ Seen \in Versions /\ Member = [number |-> This, version |-> Seen]
  BY <1>1, <1>5 DEF MemberType, This, Seen
<1>7. QED
  BY <1>5, <1>6 DEF InHand, RunOk, This

\* The next member leaves the present one behind.
LEMMA NextRun ==
    ASSUME BacklogTypeOK, RunOk, run.at \notin {"idle", "reading"}
    PROVE  /\ NextMember \in RunType
           /\ NextMember.todo = run.todo \ {Member}
           /\ NextMember.at = IF NextMember.todo = {} THEN "idle" ELSE "deciding"
           /\ NextMember.at = "deciding" => NextMember.base = run.base
<1>1. Member \in run.todo
  BY AtHand
<1>2. run \in RunType /\ Idle \in RunType
  BY DEF BacklogTypeOK, RunType, Idle, Location, Scan
<1>3. CASE run.todo = {Member}
  BY <1>1, <1>2, <1>3 DEF NextMember, Idle
<1>4. CASE run.todo # {Member}
  <2>1. NextMember = [run EXCEPT !.at = "deciding", !.todo = @ \ {Member}]
    BY <1>4 DEF NextMember
  <2>2. run.todo \ {Member} # {}
    BY <1>1, <1>4
  <2>3. QED
    BY <1>2, <2>1, <2>2 DEF RunType, Location
<1>5. QED
  BY <1>3, <1>4

\* Runs that have nothing at hand, and Workers.
LEMMA Typed ==
    /\ Idle \in RunType /\ Idle.todo = {} /\ Idle.at = "idle"
    /\ Unemployed \in WorkerType /\ Unemployed.at = "idle"
    /\ NewEpoch \in EpochType /\ NoStatus \in StatusType
    /\ \A v \in Versions, b \in Nat : RequestFor(v, b) \in Request /\ RequestFor(v, b).base = b
<1>1. Unemployed.version \in Versions
  BY Constants DEF Unemployed
<1>2. Idle \in RunType /\ Idle.todo = {} /\ Idle.at = "idle"
  BY DEF Idle, RunType, Location, Scan
<1>3. Unemployed \in WorkerType /\ Unemployed.at = "idle"
  BY <1>1 DEF Unemployed, WorkerType
<1>4. NewEpoch \in EpochType
  BY DEF NewEpoch, EpochType
<1>5. NoStatus \in StatusType
  BY DEF NoStatus, StatusType
<1>6. \A v \in Versions, b \in Nat : RequestFor(v, b) \in Request /\ RequestFor(v, b).base = b
  BY Constants DEF RequestFor, Request
<1>7. QED
  BY <1>2, <1>3, <1>4, <1>5, <1>6

-----------------------------------------------------------------------------
(* Types                                                                   *)

\* A request is what the Worker of a run that works on one has.
LEMMA WorkerTyped ==
    ASSUME BacklogTypeOK, NEW i \in Issues
    PROVE  /\ worker[i] \in WorkerType /\ worker[i].version \in Versions
           /\ worker[i].at # "idle" =>
                 /\ worker[i].request \in Request /\ worker[i].request.base \in Nat
                 /\ \A at \in {"surveying", "ready", "running", "checking"} :
                       [worker[i] EXCEPT !.at = at] \in WorkerType
BY DEF BacklogTypeOK, WorkerType, Request

Typing == BacklogTypeOK' /\ RunOk'

\* A run of the group starts (Start).
LEMMA StartTyped ==
    ASSUME BacklogTypeOK, RunOk, Start
    PROVE  Typing
<1>1. PICK target \in wake :
        run' = [Idle EXCEPT !.at = "reading", !.target = target,
                            !.pulls = {i \in Issues : issue[i].pull}]
  BY DEF Start
<1>2. run' \in RunType /\ run'.todo = {} /\ run'.at = "reading"
  BY <1>1, Typed DEF BacklogTypeOK, RunType, Location
<1>3. QED
  BY <1>2 DEF Start, Typing, BacklogTypeOK, RunOk, ofWorker

\* The selection made from the snapshot (Select).
LEMMA SelectTyped ==
    ASSUME BacklogTypeOK, RunOk, Select
    PROVE  Typing
<1> DEFINE chosen == IF run.target = Scan THEN SelectBatch(run.pulls)
                     ELSE SelectRequested(run.target, run.pulls)
           members == {[number |-> i, version |-> issue[i].version] : i \in chosen}
<1>1. run' = IF chosen = {} THEN Idle
             ELSE [run EXCEPT !.at = "base", !.pulls = {}, !.todo = members]
  BY DEF Select
<1>2. chosen \subseteq Issues
  BY DEF SelectBatch, SelectRequested, BacklogTypeOK, RunType
<1> HIDE DEF chosen
<1>3. members \in SUBSET MemberType /\ \A m, n \in members : m.number = n.number => m = n
  BY <1>2 DEF BacklogTypeOK, IssueType, MemberType
<1>4. chosen # {} => members # {}
  OBVIOUS
<1> HIDE DEF members
<1>5. run' \in RunType
  BY <1>1, <1>3, Typed DEF BacklogTypeOK, RunType, Location
<1>6. (run'.at \in {"idle", "reading"} <=> run'.todo = {})
      /\ \A m, n \in run'.todo : m.number = n.number => m = n
  <2>1. CASE chosen = {}
    BY <1>1, <2>1, Typed
  <2>2. CASE chosen # {}
    BY <1>1, <1>3, <1>4, <2>2 DEF BacklogTypeOK, RunType
  <2>3. QED
    BY <2>1, <2>2
<1>7. QED
  BY <1>5, <1>6 DEF Select, Typing, BacklogTypeOK, RunOk, ofWorker

\* The head of the default branch (ReadBase).
LEMMA ReadBaseTyped ==
    ASSUME BacklogTypeOK, RunOk, ReadBase
    PROVE  Typing
<1>1. run' \in RunType /\ run'.todo = run.todo /\ run'.at = "deciding"
  BY DEF ReadBase, BacklogTypeOK, RunType, Location
<1>2. QED
  BY <1>1 DEF ReadBase, Typing, BacklogTypeOK, RunOk, ofWorker

\* A run that goes on with the Issue at hand, or with the next.
LEMMA GoesOn ==
    ASSUME BacklogTypeOK, RunOk, run.at \notin {"idle", "reading"},
           \/ run' = NextMember
           \/ run' = Idle
           \/ \E at \in Location \ {"idle", "reading"} : run' = [run EXCEPT !.at = at]
    PROVE  run' \in RunType /\ RunOk'
<1>1. CASE run' = NextMember
  BY <1>1, NextRun DEF RunOk
<1>2. CASE run' = Idle
  BY <1>2, Typed DEF RunOk
<1>3. CASE \E at \in Location \ {"idle", "reading"} : run' = [run EXCEPT !.at = at]
  <2>1. PICK at \in Location \ {"idle", "reading"} : run' = [run EXCEPT !.at = at]
    BY <1>3
  <2>2. run' \in RunType /\ run'.todo = run.todo /\ run'.at = at
    BY <2>1 DEF BacklogTypeOK, RunType
  <2>3. QED
    BY <2>1, <2>2 DEF RunOk
<1>4. QED
  BY <1>1, <1>2, <1>3

\* Other labels of an Issue.
LEMMA Relabels ==
    ASSUME BacklogTypeOK, NEW i \in Issues, NEW L, L \subseteq Labels
    PROVE  /\ [issue EXCEPT ![i].labels = L] \in [Issues -> IssueType]
           /\ \A j \in Issues : [issue EXCEPT ![i].labels = L][j] =
                 IF j = i THEN [issue[i] EXCEPT !.labels = L] ELSE issue[j]
<1>1. issue \in [Issues -> IssueType] /\ issue[i] \in IssueType
  BY DEF BacklogTypeOK
<1>2. [issue[i] EXCEPT !.labels = L] \in IssueType
  BY <1>1 DEF IssueType
<1>3. QED
  BY <1>1, <1>2

\* What a run records of the state at hand.
LEMMA StageTyped ==
    ASSUME BacklogTypeOK, RunOk, run.at \notin {"idle", "reading"},
           NEW stage \in {"candidate", "admitted", "applied"}
    PROVE  /\ WithStage(stage) \in [Issues -> [epoch : EpochType, attested : SUBSET Versions]]
           /\ \A i \in Issues : WithStage(stage)[i].attested = governor[i].attested
           /\ \A i \in Issues : WithStage(stage)[i].epoch.dispatch =
                 IF i = This THEN [governor[i].epoch.dispatch EXCEPT ![Seen] = stage]
                 ELSE governor[i].epoch.dispatch
<1>1. This \in Issues /\ Seen \in Versions
  BY AtHand
<1> HIDE DEF This, Seen
<1> DEFINE epoch == [governor[This].epoch EXCEPT !.dispatch[Seen] = stage]
<1>2. governor[This].epoch \in EpochType /\ governor[This].attested \subseteq Versions
  BY <1>1 DEF BacklogTypeOK
<1>3. epoch \in EpochType
      /\ epoch.dispatch = [governor[This].epoch.dispatch EXCEPT ![Seen] = stage]
  BY <1>1, <1>2 DEF EpochType
<1>4. WithStage(stage) = [governor EXCEPT ![This] = [governor[This] EXCEPT !.epoch = epoch]]
  BY <1>1, <1>2 DEF WithStage, BacklogTypeOK
<1> HIDE DEF epoch
<1>5. QED
  BY <1>1, <1>2, <1>3, <1>4 DEF BacklogTypeOK

\* The decision of the Governor on the state that was read (Decide).
LEMMA DecideTyped ==
    ASSUME BacklogTypeOK, RunOk, Decide
    PROVE  Typing
<1>1. run' \in RunType /\ RunOk'
  BY GoesOn DEF Decide, Location
<1>2. governor' = governor \/ governor' = WithStage("candidate") \/ governor' = WithStage("admitted")
  BY DEF Decide
<1>3. governor' \in [Issues -> [epoch : EpochType, attested : SUBSET Versions]]
  BY <1>2, StageTyped DEF Decide, BacklogTypeOK
<1>4. QED
  BY <1>1, <1>3 DEF Decide, Typing, BacklogTypeOK, ofWorker

\* The request for an independent observation (Observe).
LEMMA ObserveTyped ==
    ASSUME BacklogTypeOK, RunOk, Observe
    PROVE  Typing
<1>1. run' \in RunType /\ RunOk'
  BY GoesOn DEF Observe
<1>2. This \in Issues
  BY AtHand DEF Observe
<1>3. QED
  BY <1>1, <1>2 DEF Observe, Typing, BacklogTypeOK, ofWorker

\* The label (AddLabel).
LEMMA AddLabelTyped ==
    ASSUME BacklogTypeOK, RunOk, AddLabel
    PROVE  Typing
<1>1. run' \in RunType /\ RunOk'
  BY GoesOn DEF AddLabel, Location
<1>2. This \in Issues
  BY AtHand DEF AddLabel
<1>3. issue' \in [Issues -> IssueType]
  <2>1. issue[This].labels \union {"dsh"} \subseteq Labels
    BY <1>2 DEF BacklogTypeOK, IssueType, Labels
  <2>2. issue' = [issue EXCEPT ![This].labels = issue[This].labels \union {"dsh"}]
    BY DEF AddLabel
  <2>3. QED
    BY <1>2, <2>1, <2>2, Relabels
<1>4. QED
  BY <1>1, <1>3 DEF AddLabel, Typing, BacklogTypeOK, ofWorker

\* The dispatch (Post).
LEMMA PostTyped ==
    ASSUME BacklogTypeOK, RunOk, Post
    PROVE  Typing
<1>1. run' \in RunType /\ RunOk'
  BY GoesOn DEF Post, Location
<1>2. This \in Issues /\ RequestFor(Seen, run.base) \in Request
  <2>1. This \in Issues /\ Seen \in Versions
    BY AtHand DEF Post
  <2>2. run.base \in Nat
    BY DEF BacklogTypeOK, RunType
  <2>3. QED
    BY <2>1, <2>2, Typed
<1>3. queue' \in [Issues -> SUBSET Request]
  <2>1. queue' = queue \/ queue' = [queue EXCEPT ![This] = {RequestFor(Seen, run.base)}]
    BY DEF Post
  <2>2. queue \in [Issues -> SUBSET Request]
    BY DEF BacklogTypeOK
  <2>3. QED
    BY <1>2, <2>1, <2>2
<1>4. irregular' \in [Issues -> SUBSET (Uncounted \union Repeatable)]
  BY DEF Post, BacklogTypeOK, Repeatable
<1>5. QED
  BY <1>1, <1>3, <1>4 DEF Post, Typing, BacklogTypeOK

\* The label is taken back (Clean).
LEMMA CleanTyped ==
    ASSUME BacklogTypeOK, RunOk, Clean
    PROVE  Typing
<1>1. run' \in RunType /\ RunOk'
  BY GoesOn DEF Clean
<1>2. issue' \in [Issues -> IssueType]
  BY DEF Clean, BacklogTypeOK, IssueType
<1>3. QED
  BY <1>1, <1>2 DEF Clean, Typing, BacklogTypeOK, ofWorker

\* The applied record (Record).
LEMMA RecordTyped ==
    ASSUME BacklogTypeOK, RunOk, Record
    PROVE  Typing
<1>1. run' \in RunType /\ RunOk'
  BY GoesOn DEF Record
<1>2. This \in Issues /\ Seen \in Versions
  BY AtHand DEF Record
<1>3. WithStage("applied") \in [Issues -> [epoch : EpochType, attested : SUBSET Versions]]
  BY StageTyped DEF Record
<1>4. governor' \in [Issues -> [epoch : EpochType, attested : SUBSET Versions]]
  BY <1>2, <1>3 DEF Record, EpochType
<1>5. QED
  BY <1>1, <1>4 DEF Record, Typing, BacklogTypeOK, ofWorker

\* A run dies or a request of it fails (Fault).
LEMMA FaultTyped ==
    ASSUME BacklogTypeOK, RunOk, Fault
    PROVE  Typing
<1>1. run' \in RunType /\ RunOk'
  <2>1. CASE run' = Idle
    BY <2>1, Typed DEF RunOk
  <2>2. CASE run' # Idle
    BY <2>2, GoesOn DEF Fault
  <2>3. QED
    BY <2>1, <2>2
<1>2. irregular' \in [Issues -> SUBSET (Uncounted \union Repeatable)]
  BY DEF Fault, BacklogTypeOK, Repeatable
<1>3. QED
  BY <1>1, <1>2 DEF Fault, Typing, BacklogTypeOK, ofWorker

\* The parts of a state that a step of one Issue changes.
LEMMA IssueTyped ==
    ASSUME BacklogTypeOK, RunOk, UNCHANGED run, NEW i \in Issues,
           issue' \in [Issues -> IssueType], base' \in Nat,
           governor' \in [Issues -> [epoch : EpochType, attested : SUBSET Versions]],
           wake' \in {wake, {i}, {Scan}},
           queue' \in [Issues -> SUBSET Request],
           worker' \in [Issues -> WorkerType], status' \in [Issues -> StatusType],
           recovery' = [j \in Issues |-> recovery'[j]],
           journal' \in [Issues -> SUBSET JournalType],
           irregular' \in [Issues -> SUBSET (Uncounted \union Repeatable)]
    PROVE  Typing
BY DEF Typing, BacklogTypeOK, RunOk

\* A status of the run.
LEMMA Reports ==
    ASSUME BacklogTypeOK, NEW i \in Issues, 
           NEW is \in {"complete", "waiting", "running", "failed", "blocked"}, Report(i, is)
    PROVE  /\ status' \in [Issues -> StatusType]
           /\ \A j \in Issues \ {i} : status'[j] = status[j]
           /\ status'[i].is # "capacity-waiting"
<1>1. [NoStatus EXCEPT !.is = is] \in StatusType /\ [NoStatus EXCEPT !.is = is].is = is
  BY DEF NoStatus, StatusType
<1>2. QED
  BY <1>1 DEF Report, BacklogTypeOK

\* An entry of the execution of the run.
LEMMA Enters ==
    ASSUME BacklogTypeOK, NEW i \in Issues, worker[i].at # "idle",
           NEW is \in {"started", "completed", "blocked", "failed"}, Entered(i, is)
    PROVE  /\ journal' \in [Issues -> SUBSET JournalType]
           /\ \A j \in Issues \ {i} : journal'[j] = journal[j]
           /\ \A e \in journal'[i] :
                 e \in journal[i] \/ e.execution = <<worker[i].version, worker[i].request.base>>
<1> DEFINE entry == [execution |-> Execution(i), is |-> is]
<1>1. Execution(i) \in Versions \X Nat
  BY WorkerTyped DEF Execution
<1>2. entry \in JournalType
  BY <1>1 DEF JournalType
<1>3. journal' = [journal EXCEPT ![i] = (journal[i] \ Executed(i)) \union {entry}]
  BY DEF Entered
<1>4. journal \in [Issues -> SUBSET JournalType]
  BY DEF BacklogTypeOK
<1>5. journal'[i] = (journal[i] \ Executed(i)) \union {entry}
  BY <1>3, <1>4
<1>6. entry.execution = <<worker[i].version, worker[i].request.base>>
  BY DEF Execution
<1> HIDE DEF entry
<1>7. QED
  BY <1>2, <1>3, <1>4, <1>5, <1>6

\* A run that ends in an error.
LEMMA EndsInError ==
    ASSUME BacklogTypeOK, NEW i \in Issues, EndInError(i)
    PROVE  /\ issue' \in [Issues -> IssueType]
           /\ \A j \in Issues \ {i} : issue'[j] = issue[j]
           /\ issue'[i] = [issue[i] EXCEPT !.labels =
                              (issue[i].labels \ {"dsh", "blocked"}) \union {"failed"}]
           /\ status' \in [Issues -> StatusType]
           /\ \A j \in Issues \ {i} : status'[j] = status[j]
           /\ status'[i].is # "capacity-waiting"
           /\ recovery' = [j \in Issues |-> recovery'[j]]
           /\ wake' = {Scan}
           /\ worker' = [worker EXCEPT ![i] = Unemployed] /\ worker' \in [Issues -> WorkerType]
<1> DEFINE L == (issue[i].labels \ {"dsh", "blocked"}) \union {"failed"}
<1>1. issue' = [issue EXCEPT ![i].labels = L] /\ L \subseteq Labels
  BY DEF EndInError, BacklogTypeOK, IssueType, Labels
<1> HIDE DEF L
<1>2. /\ issue' \in [Issues -> IssueType]
      /\ \A j \in Issues : issue'[j] = IF j = i THEN [issue[i] EXCEPT !.labels = L] ELSE issue[j]
  BY <1>1, Relabels
<1>3. Report(i, "failed")
  BY DEF EndInError
<1>4. /\ status' \in [Issues -> StatusType]
      /\ \A j \in Issues \ {i} : status'[j] = status[j]
      /\ status'[i].is # "capacity-waiting"
  BY <1>3, Reports
<1>5. worker' = [worker EXCEPT ![i] = Unemployed] /\ worker' \in [Issues -> WorkerType]
  BY Typed DEF EndInError, Dismiss, Employ, BacklogTypeOK
<1>6. wake' = {Scan} /\ recovery' = [j \in Issues |-> recovery'[j]]
  BY DEF EndInError, BacklogTypeOK
<1>7. QED
  BY <1>2, <1>4, <1>5, <1>6 DEF L

\* The marks of an Issue only become more.
Marks(i, S) ==
    /\ irregular' = [irregular EXCEPT ![i] = irregular[i] \union S]
    /\ S \subseteq Uncounted \union Repeatable

LEMMA Marked ==
    ASSUME BacklogTypeOK, NEW i \in Issues, NEW S, Marks(i, S)
    PROVE  /\ irregular' \in [Issues -> SUBSET (Uncounted \union Repeatable)]
           /\ \A j \in Issues \ {i} : irregular'[j] = irregular[j]
           /\ irregular'[i] = irregular[i] \union S
BY DEF Marks, BacklogTypeOK

-----------------------------------------------------------------------------
(* What a step of one Issue changes                                        *)

\* A step of one Issue leaves the others and the dispatcher alone.
ByIssue(i) ==
    /\ run' = run
    /\ wake' \in {wake, {i}, {Scan}}
    /\ \A j \in Issues \ {i} :
          /\ issue'[j] = issue[j] /\ governor'[j] = governor[j] /\ queue'[j] = queue[j]
          /\ worker'[j] = worker[j] /\ status'[j] = status[j] /\ journal'[j] = journal[j]
          /\ irregular'[j] = irregular[j]

\* The run, if it is one of the Issue, stands where it stood, has begun or has
\* ended; it has begun with a pending request, and goes on once it is admitted.
WorkerCalm(i) ==
    \/ worker'[i] = worker[i]
    \/ worker'[i].at = "idle"
    \/ /\ worker[i].at \notin {"idle", "verifying"} /\ worker'[i].at \notin {"idle", "verifying"}
       /\ worker'[i].version = worker[i].version /\ worker'[i].request = worker[i].request
    \/ /\ worker'[i].at = "verifying" /\ Owned(i)
       /\ worker'[i].version = issue[i].version /\ worker'[i].request \in queue[i]
    \/ /\ worker[i].at = "verifying" /\ worker'[i].at = "surveying"
       /\ worker'[i].version = worker[i].version /\ worker'[i].request = worker[i].request
       /\ worker[i].request.base = base /\ worker[i].version \in governor[i].attested

\* What is new in the journal or waits is of the run, which is past its checks.
EntriesCalm(i) ==
    /\ \A e \in journal'[i] :
          \/ e \in journal[i]
          \/ /\ worker[i].at \notin {"idle", "verifying"}
             /\ e.execution = <<worker[i].version, worker[i].request.base>>
    /\ \/ status'[i] = status[i]
       \/ status'[i].is # "capacity-waiting"
       \/ /\ worker[i].at \notin {"idle", "verifying"}
          /\ status'[i].version = worker[i].version
          /\ status'[i].base = worker[i].request.base

\* No new text, dispatch or request.
Calm(i) ==
    /\ issue'[i].version = issue[i].version
    /\ governor'[i].attested = governor[i].attested
    /\ governor'[i].epoch.dispatch = governor[i].epoch.dispatch
    /\ queue'[i] \subseteq queue[i]
    /\ irregular[i] \subseteq irregular'[i]
    /\ WorkerCalm(i) /\ EntriesCalm(i)

\* The run takes the pending request (Take).
LEMMA TakeEffect ==
    ASSUME BacklogTypeOK, RunOk, NEW i \in Issues, Take(i)
    PROVE  /\ Typing /\ ByIssue(i) /\ Calm(i) /\ UNCHANGED <<issue, governor, wake, irregular>>
           /\ worker'[i] = worker[i] \/ (Owned(i) /\ worker'[i].at = "verifying")
<1>1. PICK request \in queue[i] :
          \/ worker' = worker
          \/ /\ Owned(i)
             /\ worker' = [worker EXCEPT ![i] = [at |-> "verifying", version |-> issue[i].version,
                                                 request |-> request]]
  BY DEF Take, Employ, Owned
<1>2. request \in Request /\ issue[i].version \in Versions
  BY IssueShape DEF BacklogTypeOK, IssueType
<1> DEFINE w == [at |-> "verifying", version |-> issue[i].version, request |-> request]
<1>3. w \in WorkerType /\ w.at = "verifying" /\ w.version = issue[i].version /\ w.request = request
  BY <1>2 DEF WorkerType
<1> HIDE DEF w
<1>4. \/ worker' = worker
      \/ Owned(i) /\ worker' = [worker EXCEPT ![i] = w]
  BY <1>1 DEF w
<1>5. /\ worker' \in [Issues -> WorkerType] /\ \A j \in Issues \ {i} : worker'[j] = worker[j]
      /\ worker'[i] = worker[i] \/ (Owned(i) /\ worker'[i] = w)
  BY <1>3, <1>4 DEF BacklogTypeOK
<1>6. queue' = [queue EXCEPT ![i] = {}]
      /\ UNCHANGED <<issue, base, governor, wake, run, status, recovery, journal, irregular>>
  BY DEF Take, ofDispatch
<1>7. queue' \in [Issues -> SUBSET Request] /\ queue'[i] = {}
      /\ \A j \in Issues \ {i} : queue'[j] = queue[j]
  BY <1>6 DEF BacklogTypeOK
<1>8. Typing
  BY <1>5, <1>6, <1>7, IssueTyped DEF BacklogTypeOK
<1>9. ByIssue(i) /\ Calm(i)
  BY <1>3, <1>5, <1>6, <1>7 DEF ByIssue, Calm, WorkerCalm, EntriesCalm
<1>10. QED
  BY <1>3, <1>5, <1>6, <1>8, <1>9

\* The run stands elsewhere.
LEMMA Moves ==
    ASSUME BacklogTypeOK, NEW i \in Issues, worker[i].at # "idle",
           NEW at \in {"surveying", "ready", "running", "checking"},
           worker' = [worker EXCEPT ![i] = [worker[i] EXCEPT !.at = at]]
    PROVE  /\ worker' \in [Issues -> WorkerType]
           /\ \A j \in Issues \ {i} : worker'[j] = worker[j]
           /\ worker'[i].at = at /\ worker'[i].version = worker[i].version
           /\ worker'[i].request = worker[i].request
<1> DEFINE w == [worker[i] EXCEPT !.at = at]
<1>1. w \in WorkerType
  BY WorkerTyped
<1>2. w.at = at /\ w.version = worker[i].version /\ w.request = worker[i].request
  BY DEF BacklogTypeOK, WorkerType
<1> HIDE DEF w
<1>3. worker' = [worker EXCEPT ![i] = w]
  BY DEF w
<1>4. QED
  BY <1>1, <1>2, <1>3 DEF BacklogTypeOK

\* The run has ended.
LEMMA Dismisses ==
    ASSUME BacklogTypeOK, NEW i \in Issues, worker' = [worker EXCEPT ![i] = Unemployed]
    PROVE  /\ worker' \in [Issues -> WorkerType]
           /\ \A j \in Issues \ {i} : worker'[j] = worker[j]
           /\ worker'[i].at = "idle"
BY Typed DEF BacklogTypeOK

\* The run checks its request (Verify).
LEMMA VerifyEffect ==
    ASSUME BacklogTypeOK, RunOk, NEW i \in Issues, Verify(i)
    PROVE  /\ Typing /\ ByIssue(i) /\ Calm(i) /\ UNCHANGED <<issue, governor, wake, irregular>>
           /\ worker'[i].at # "idle" => worker'[i].at = "surveying" /\ worker[i].version \in governor[i].attested
<1>1. worker[i].at = "verifying"
      /\ UNCHANGED <<issue, base, governor, wake, run, queue, status, recovery, journal, irregular>>
  BY DEF Verify, ofDispatch
<1>2. CASE worker[i].request.base = base /\ Admitted(i) /\ StillDeclared(i)
  <2>1. worker' = [worker EXCEPT ![i] = [worker[i] EXCEPT !.at = "surveying"]]
    BY <1>2 DEF Verify, Employ
  <2>2. /\ worker' \in [Issues -> WorkerType]
        /\ \A j \in Issues \ {i} : worker'[j] = worker[j]
        /\ worker'[i].at = "surveying" /\ worker'[i].version = worker[i].version
        /\ worker'[i].request = worker[i].request
    BY <1>1, <2>1, Moves
  <2>3. Typing
    BY <1>1, <2>2, IssueTyped DEF BacklogTypeOK
  <2>4. ByIssue(i) /\ Calm(i)
    BY <1>1, <1>2, <2>2 DEF ByIssue, Calm, WorkerCalm, EntriesCalm, Admitted
  <2>5. QED
    BY <1>1, <1>2, <2>2, <2>3, <2>4 DEF Admitted
<1>3. CASE ~ (worker[i].request.base = base /\ Admitted(i) /\ StillDeclared(i))
  <2>1. worker' = [worker EXCEPT ![i] = Unemployed]
    BY <1>3 DEF Verify, Dismiss, Employ
  <2>2. /\ worker' \in [Issues -> WorkerType]
        /\ \A j \in Issues \ {i} : worker'[j] = worker[j]
        /\ worker'[i].at = "idle"
    BY <2>1, Dismisses
  <2>3. Typing
    BY <1>1, <2>2, IssueTyped DEF BacklogTypeOK
  <2>4. ByIssue(i) /\ Calm(i)
    BY <1>1, <2>2 DEF ByIssue, Calm, WorkerCalm, EntriesCalm
  <2>5. QED
    BY <1>1, <2>2, <2>3, <2>4
<1>4. QED
  BY <1>2, <1>3

\* The run looks at the pull request and the dependencies (Survey).
LEMMA SurveyEffect ==
    ASSUME BacklogTypeOK, RunOk, NEW i \in Issues, Survey(i)
    PROVE  /\ Typing /\ ByIssue(i) /\ Calm(i)
           /\ UNCHANGED <<governor, wake, irregular>> /\ worker[i].at = "surveying"
           /\ \/ issue'[i] = issue[i]
              \/ issue'[i] = [issue[i] EXCEPT !.labels = issue[i].labels \ {"failed", "blocked"}]
           /\ worker'[i].at \in {"idle", "ready"} /\ (worker'[i].at = "ready" => ~ issue[i].pull)
<1>1. /\ worker[i].at = "surveying"
      /\ UNCHANGED <<base, governor, wake, run, queue, journal, irregular>>
  BY DEF Survey, ofDispatch
<1>2. \/ worker' = [worker EXCEPT ![i] = Unemployed] /\ UNCHANGED issue
      \/ /\ worker' = [worker EXCEPT ![i] = [worker[i] EXCEPT !.at = "ready"]]
         /\ issue' = [issue EXCEPT ![i].labels = issue[i].labels \ {"failed", "blocked"}]
         /\ ~ issue[i].pull
  BY DEF Survey, Dismiss, Employ
<1>3. status' = status \/ \E is \in {"complete", "waiting", "running"} : Report(i, is)
  BY DEF Survey
<1>4. recovery' = [j \in Issues |-> recovery'[j]]
  BY DEF Survey, BacklogTypeOK
<1>5. /\ status' \in [Issues -> StatusType]
      /\ \A j \in Issues \ {i} : status'[j] = status[j]
      /\ status'[i] = status[i] \/ status'[i].is # "capacity-waiting"
  <2>1. CASE status' = status
    BY <2>1 DEF BacklogTypeOK
  <2>2. ASSUME NEW is \in {"complete", "waiting", "running"}, Report(i, is)
        PROVE  /\ status' \in [Issues -> StatusType]
               /\ \A j \in Issues \ {i} : status'[j] = status[j]
               /\ status'[i].is # "capacity-waiting"
    BY <2>2, Reports
  <2>3. QED
    BY <1>3, <2>1, <2>2
<1>6. /\ worker' \in [Issues -> WorkerType]
      /\ \A j \in Issues \ {i} : worker'[j] = worker[j]
      /\ \/ worker'[i].at = "idle"
         \/ /\ worker'[i].at = "ready" /\ worker'[i].version = worker[i].version
            /\ worker'[i].request = worker[i].request /\ ~ issue[i].pull
  BY <1>1, <1>2, Moves, Dismisses
<1>7. /\ issue' \in [Issues -> IssueType]
      /\ \A j \in Issues \ {i} : issue'[j] = issue[j]
      /\ \/ issue'[i] = issue[i]
         \/ issue'[i] = [issue[i] EXCEPT !.labels = issue[i].labels \ {"failed", "blocked"}]
      /\ issue'[i].version = issue[i].version
  <2>1. CASE issue' = issue
    BY <2>1 DEF BacklogTypeOK
  <2>2. CASE issue' = [issue EXCEPT ![i].labels = issue[i].labels \ {"failed", "blocked"}]
    <3> DEFINE labels == issue[i].labels \ {"failed", "blocked"}
    <3>1. labels \subseteq Labels
      BY IssueShape DEF IssueType
    <3>2. issue' = [issue EXCEPT ![i].labels = labels]
      BY <2>2
    <3> HIDE DEF labels
    <3>3. /\ issue' \in [Issues -> IssueType]
          /\ \A j \in Issues : issue'[j] = IF j = i THEN [issue[i] EXCEPT !.labels = labels]
                                             ELSE issue[j]
      BY <3>1, <3>2, Relabels
    <3>4. [issue[i] EXCEPT !.labels = labels].version = issue[i].version
      BY IssueShape DEF IssueType
    <3>5. QED
      BY <3>3, <3>4 DEF labels
  <2>3. QED
    BY <1>2, <2>1, <2>2
<1>8. Typing
  BY <1>1, <1>4, <1>5, <1>6, <1>7, IssueTyped DEF BacklogTypeOK
<1>9. ByIssue(i) /\ Calm(i)
  BY <1>1, <1>4, <1>5, <1>6, <1>7 DEF ByIssue, Calm, WorkerCalm, EntriesCalm
<1>10. QED
  BY <1>1, <1>4, <1>5, <1>6, <1>7, <1>8, <1>9

\* The Issue waits for capacity (Defer).
LEMMA DeferEffect ==
    ASSUME BacklogTypeOK, RunOk, NEW i \in Issues, Defer(i)
    PROVE  /\ Typing /\ ByIssue(i) /\ Calm(i) /\ UNCHANGED <<issue, governor, wake, irregular>> /\ worker'[i].at = "idle"
<1>1. /\ worker[i].at = "ready" /\ status' = [status EXCEPT ![i] = WaitOf(i)]
      /\ worker' = [worker EXCEPT ![i] = Unemployed]
      /\ UNCHANGED <<issue, base, governor, wake, run, queue, recovery, journal, irregular>>
  BY DEF Defer, Dismiss, Employ, ofDispatch
<1>2. /\ worker' \in [Issues -> WorkerType]
      /\ \A j \in Issues \ {i} : worker'[j] = worker[j]
      /\ worker'[i].at = "idle"
  BY <1>1, Dismisses
<1>3. WaitOf(i) \in StatusType /\ WaitOf(i).version = worker[i].version
      /\ WaitOf(i).base = worker[i].request.base
  BY <1>1, WorkerTyped DEF WaitOf, StatusType
<1>4. /\ status' \in [Issues -> StatusType]
      /\ \A j \in Issues \ {i} : status'[j] = status[j]
      /\ status'[i].version = worker[i].version /\ status'[i].base = worker[i].request.base
  BY <1>1, <1>3 DEF BacklogTypeOK
<1>8. Typing
  BY <1>1, <1>2, <1>4, IssueTyped DEF BacklogTypeOK
<1>9. ByIssue(i) /\ Calm(i)
  BY <1>1, <1>2, <1>4 DEF ByIssue, Calm, WorkerCalm, EntriesCalm
<1>10. QED
  BY <1>1, <1>2, <1>4, <1>8, <1>9

\* A model is started (StartModel).
LEMMA StartModelEffect ==
    ASSUME BacklogTypeOK, RunOk, NEW i \in Issues, StartModel(i)
    PROVE  /\ Typing /\ ByIssue(i) /\ Calm(i) /\ UNCHANGED <<issue, governor, wake, irregular>>
           /\ worker[i].at = "ready" /\ worker'[i].at = "running"
<1>1. /\ worker[i].at = "ready" /\ Entered(i, "started")
      /\ worker' = [worker EXCEPT ![i] = [worker[i] EXCEPT !.at = "running"]]
      /\ UNCHANGED <<issue, base, governor, wake, run, queue, status, recovery, irregular>>
  BY DEF StartModel, Employ, ofDispatch
<1>2. /\ worker' \in [Issues -> WorkerType]
      /\ \A j \in Issues \ {i} : worker'[j] = worker[j]
      /\ worker'[i].at = "running" /\ worker'[i].version = worker[i].version
      /\ worker'[i].request = worker[i].request
  BY <1>1, Moves
<1>3. /\ journal' \in [Issues -> SUBSET JournalType]
      /\ \A j \in Issues \ {i} : journal'[j] = journal[j]
      /\ \A e \in journal'[i] :
            e \in journal[i] \/ e.execution = <<worker[i].version, worker[i].request.base>>
  BY <1>1, Enters
<1>8. Typing
  BY <1>1, <1>2, <1>3, IssueTyped DEF BacklogTypeOK
<1>9. ByIssue(i) /\ Calm(i)
  BY <1>1, <1>2, <1>3 DEF ByIssue, Calm, WorkerCalm, EntriesCalm
<1>10. QED
  BY <1>1, <1>2, <1>3, <1>8, <1>9

\* The execution completes (Complete).
LEMMA CompleteEffect ==
    ASSUME BacklogTypeOK, RunOk, NEW i \in Issues, Complete(i)
    PROVE  /\ Typing /\ ByIssue(i) /\ Calm(i) /\ UNCHANGED <<issue, governor, wake, irregular>>
           /\ worker[i].at = "running" /\ worker'[i].at = "checking"
<1>1. /\ worker[i].at = "running" /\ Entered(i, "completed")
      /\ worker' = [worker EXCEPT ![i] = [worker[i] EXCEPT !.at = "checking"]]
      /\ UNCHANGED <<issue, base, governor, wake, run, queue, status, recovery, irregular>>
  BY DEF Complete, Employ, ofDispatch
<1>2. /\ worker' \in [Issues -> WorkerType]
      /\ \A j \in Issues \ {i} : worker'[j] = worker[j]
      /\ worker'[i].at = "checking" /\ worker'[i].version = worker[i].version
      /\ worker'[i].request = worker[i].request
  BY <1>1, Moves
<1>3. /\ journal' \in [Issues -> SUBSET JournalType]
      /\ \A j \in Issues \ {i} : journal'[j] = journal[j]
      /\ \A e \in journal'[i] :
            e \in journal[i] \/ e.execution = <<worker[i].version, worker[i].request.base>>
  BY <1>1, Enters
<1>8. Typing
  BY <1>1, <1>2, <1>3, IssueTyped DEF BacklogTypeOK
<1>9. ByIssue(i) /\ Calm(i)
  BY <1>1, <1>2, <1>3 DEF ByIssue, Calm, WorkerCalm, EntriesCalm
<1>10. QED
  BY <1>1, <1>2, <1>3, <1>8, <1>9

\* A run that ends in an error and leaves no entry.
LEMMA ErrorEffect ==
    ASSUME BacklogTypeOK, RunOk, NEW i \in Issues, EndInError(i),
           UNCHANGED <<base, governor, run, queue, journal, irregular>>
    PROVE  /\ Typing /\ ByIssue(i) /\ Calm(i)
<1>1. /\ issue' \in [Issues -> IssueType]
      /\ \A j \in Issues \ {i} : issue'[j] = issue[j]
      /\ issue'[i] = [issue[i] EXCEPT !.labels =
                         (issue[i].labels \ {"dsh", "blocked"}) \union {"failed"}]
      /\ status' \in [Issues -> StatusType]
      /\ \A j \in Issues \ {i} : status'[j] = status[j]
      /\ status'[i].is # "capacity-waiting"
      /\ recovery' = [j \in Issues |-> recovery'[j]]
      /\ wake' = {Scan}
      /\ worker' = [worker EXCEPT ![i] = Unemployed] /\ worker' \in [Issues -> WorkerType]
  BY EndsInError
<1>2. worker'[i].at = "idle" /\ \A j \in Issues \ {i} : worker'[j] = worker[j]
  BY <1>1, Dismisses
<1>3. issue'[i].version = issue[i].version
  BY <1>1 DEF BacklogTypeOK, IssueType
<1>4. Typing
  BY <1>1, IssueTyped DEF BacklogTypeOK
<1>5. ByIssue(i) /\ Calm(i)
  BY <1>1, <1>2, <1>3 DEF ByIssue, Calm, WorkerCalm, EntriesCalm
<1>6. QED
  BY <1>4, <1>5

\* The run fails before a model call (FailSetup).
LEMMA FailSetupEffect ==
    ASSUME BacklogTypeOK, RunOk, NEW i \in Issues, FailSetup(i)
    PROVE  /\ Typing /\ ByIssue(i) /\ Calm(i) /\ UNCHANGED <<governor, irregular>>
           /\ worker[i].at = "ready" /\ worker'[i].at = "idle" /\ wake' = {Scan}
           /\ issue'[i] = [issue[i] EXCEPT !.labels =
                               (issue[i].labels \ {"dsh", "blocked"}) \union {"failed"}]
<1>1. /\ worker[i].at = "ready" /\ EndInError(i)
      /\ UNCHANGED <<base, governor, run, queue, journal, irregular>>
  BY DEF FailSetup
<1>2. QED
  BY <1>1, ErrorEffect, EndsInError, Dismisses

\* An execution that was started is replayed (Replay).
LEMMA ReplayEffect ==
    ASSUME BacklogTypeOK, RunOk, NEW i \in Issues, Replay(i)
    PROVE  /\ Typing /\ ByIssue(i) /\ Calm(i)
           /\ UNCHANGED <<governor, irregular>> /\ worker[i].at = "ready"
           /\ \/ issue' = issue /\ wake' = wake /\ worker'[i].at = "checking"
              \/ /\ worker'[i].at = "idle" /\ wake' = {Scan}
                 /\ issue'[i] = [issue[i] EXCEPT !.labels =
                               (issue[i].labels \ {"dsh", "blocked"}) \union {"failed"}]
<1>1. /\ worker[i].at = "ready" /\ UNCHANGED <<base, governor, run, queue, journal, irregular>>
  BY DEF Replay
<1>2. CASE \E e \in Executed(i) : e.is = "completed"
  <2>1. /\ worker' = [worker EXCEPT ![i] = [worker[i] EXCEPT !.at = "checking"]]
        /\ UNCHANGED <<issue, status, recovery, wake>>
    BY <1>2 DEF Replay, Employ
  <2>2. /\ worker' \in [Issues -> WorkerType]
        /\ \A j \in Issues \ {i} : worker'[j] = worker[j]
        /\ worker'[i].at = "checking" /\ worker'[i].version = worker[i].version
        /\ worker'[i].request = worker[i].request
    BY <1>1, <2>1, Moves
  <2>3. Typing
    BY <1>1, <2>1, <2>2, IssueTyped DEF BacklogTypeOK
  <2>4. ByIssue(i) /\ Calm(i)
    BY <1>1, <2>1, <2>2 DEF ByIssue, Calm, WorkerCalm, EntriesCalm
  <2>5. QED
    BY <1>1, <2>1, <2>2, <2>3, <2>4
<1>3. CASE ~ (\E e \in Executed(i) : e.is = "completed")
  <2>1. EndInError(i)
    BY <1>3 DEF Replay
  <2>2. QED
    BY <1>1, <1>3, <2>1, ErrorEffect, EndsInError, Dismisses
<1>4. QED
  BY <1>2, <1>3

\* The result of the execution is checked (Check).
LEMMA CheckEffect ==
    ASSUME BacklogTypeOK, RunOk, NEW i \in Issues, Check(i)
    PROVE  /\ Typing /\ ByIssue(i) /\ Calm(i)
           /\ UNCHANGED <<governor, irregular>> /\ worker[i].at = "checking"
           /\ \/ issue' = issue /\ wake' = wake /\ worker'[i].at = "idle"
              \/ /\ worker'[i].at = "idle" /\ wake' = {Scan} /\ ~ issue[i].pull
                 /\ issue'[i] = [issue[i] EXCEPT !.labels =
                               (issue[i].labels \ {"dsh", "blocked"}) \union {"failed"}]
<1>1. /\ worker[i].at = "checking" /\ UNCHANGED <<base, governor, run, queue, journal, irregular>>
  BY DEF Check
<1>2. CASE issue[i].pull
  <2>1. Report(i, "complete") /\ worker' = [worker EXCEPT ![i] = Unemployed]
        /\ UNCHANGED <<issue, recovery, wake>>
    BY <1>2 DEF Check, Dismiss, Employ
  <2>2. /\ worker' \in [Issues -> WorkerType]
        /\ \A j \in Issues \ {i} : worker'[j] = worker[j]
        /\ worker'[i].at = "idle"
        /\ status' \in [Issues -> StatusType]
        /\ \A j \in Issues \ {i} : status'[j] = status[j]
        /\ status'[i].is # "capacity-waiting"
    BY <2>1, Dismisses, Reports
  <2>3. Typing
    BY <1>1, <2>1, <2>2, IssueTyped DEF BacklogTypeOK
  <2>4. ByIssue(i) /\ Calm(i)
    BY <1>1, <2>1, <2>2 DEF ByIssue, Calm, WorkerCalm, EntriesCalm
  <2>5. QED
    BY <1>1, <2>1, <2>2, <2>3, <2>4
<1>3. CASE ~ (issue[i].pull)
  <2>1. EndInError(i)
    BY <1>3 DEF Check
  <2>2. QED
    BY <1>1, <1>3, <2>1, ErrorEffect, EndsInError, Dismisses
<1>4. QED
  BY <1>2, <1>3

\* The mark of a label given up between the reads of a dispatcher.
LEMMA OverlookedMarks ==
    ASSUME BacklogTypeOK, NEW i \in Issues, Overlooked(i)
    PROVE  /\ irregular' \in [Issues -> SUBSET (Uncounted \union Repeatable)]
           /\ \A j \in Issues \ {i} : irregular'[j] = irregular[j]
           /\ irregular[i] \subseteq irregular'[i]
           /\ run.at = "reading" /\ issue[i].pull /\ i \notin run.pulls =>
                 "overlooked" \in irregular'[i]
<1> DEFINE marks == IF run.at = "reading" /\ issue[i].pull /\ i \notin run.pulls
                    THEN {"overlooked"} ELSE {}
<1>1. Marks(i, marks)
  BY DEF Overlooked, Marks, Uncounted, BacklogTypeOK
<1>2. run.at = "reading" /\ issue[i].pull /\ i \notin run.pulls => "overlooked" \in marks
  OBVIOUS
<1> HIDE DEF marks
<1>3. QED
  BY <1>1, <1>2, Marked

\* Another state of an Issue.
LEMMA IssueBecomes ==
    ASSUME BacklogTypeOK, NEW i \in Issues, NEW now \in IssueType,
           issue' = [issue EXCEPT ![i] = now]
    PROVE  /\ issue' \in [Issues -> IssueType] /\ issue'[i] = now
           /\ \A j \in Issues \ {i} : issue'[j] = issue[j]
BY DEF BacklogTypeOK

\* Other labels leave the rest of an Issue.
LEMMA LabelsAlone ==
    ASSUME BacklogTypeOK, NEW i \in Issues, NEW L, L \subseteq Labels
    PROVE  /\ [issue[i] EXCEPT !.labels = L] \in IssueType
           /\ [issue[i] EXCEPT !.labels = L].version = issue[i].version
           /\ [issue[i] EXCEPT !.labels = L].pull = issue[i].pull
           /\ [issue EXCEPT ![i].labels = L] = [issue EXCEPT ![i] = [issue[i] EXCEPT !.labels = L]]
<1>1. issue[i] \in IssueType
  BY DEF BacklogTypeOK
<1>2. QED
  BY <1>1 DEF IssueType, BacklogTypeOK

\* The execution is blocked (Block).
LEMMA BlockEffect ==
    ASSUME BacklogTypeOK, RunOk, NEW i \in Issues, Block(i)
    PROVE  /\ Typing /\ ByIssue(i) /\ Calm(i) /\ UNCHANGED <<governor, wake>>
           /\ worker[i].at = "running" /\ worker'[i].at = "idle"
           /\ issue'[i] = [issue[i] EXCEPT !.labels =
                              (issue[i].labels \ {"dsh"}) \union {"blocked"}]
           /\ (run.at = "reading" /\ issue[i].pull /\ i \notin run.pulls =>
                  "overlooked" \in irregular'[i])
<1> DEFINE labels == (issue[i].labels \ {"dsh"}) \union {"blocked"}
<1>1. /\ worker[i].at = "running" /\ Entered(i, "blocked") /\ Report(i, "blocked")
      /\ worker' = [worker EXCEPT ![i] = Unemployed] /\ Overlooked(i)
      /\ issue' = [issue EXCEPT ![i].labels = labels]
      /\ UNCHANGED <<base, governor, wake, run, queue, recovery>>
  BY DEF Block, Dismiss, Employ, ofDispatch
<1>2. labels \subseteq Labels
  BY IssueShape DEF IssueType, Labels
<1> HIDE DEF labels
<1>3. /\ issue' \in [Issues -> IssueType] /\ issue'[i] = [issue[i] EXCEPT !.labels = labels]
      /\ \A j \in Issues \ {i} : issue'[j] = issue[j]
      /\ issue'[i].version = issue[i].version
  BY <1>1, <1>2, LabelsAlone, IssueBecomes
<1>4. /\ worker' \in [Issues -> WorkerType]
      /\ \A j \in Issues \ {i} : worker'[j] = worker[j]
      /\ worker'[i].at = "idle"
  BY <1>1, Dismisses
<1>5. /\ journal' \in [Issues -> SUBSET JournalType]
      /\ \A j \in Issues \ {i} : journal'[j] = journal[j]
      /\ \A e \in journal'[i] :
            e \in journal[i] \/ e.execution = <<worker[i].version, worker[i].request.base>>
  BY <1>1, Enters
<1>6. /\ status' \in [Issues -> StatusType]
      /\ \A j \in Issues \ {i} : status'[j] = status[j]
      /\ status'[i].is # "capacity-waiting"
  BY <1>1, Reports
<1>7. /\ irregular' \in [Issues -> SUBSET (Uncounted \union Repeatable)]
      /\ \A j \in Issues \ {i} : irregular'[j] = irregular[j]
      /\ irregular[i] \subseteq irregular'[i]
      /\ (run.at = "reading" /\ issue[i].pull /\ i \notin run.pulls =>
                  "overlooked" \in irregular'[i])
  BY <1>1, OverlookedMarks
<1>8. Typing
  BY <1>1, <1>3, <1>4, <1>5, <1>6, <1>7, IssueTyped DEF BacklogTypeOK
<1>9. ByIssue(i) /\ Calm(i)
  BY <1>1, <1>3, <1>4, <1>5, <1>6, <1>7 DEF ByIssue, Calm, WorkerCalm, EntriesCalm
<1>10. QED
  BY <1>1, <1>3, <1>4, <1>5, <1>6, <1>7, <1>8, <1>9 DEF labels

\* The execution fails (FailModel).
LEMMA FailModelEffect ==
    ASSUME BacklogTypeOK, RunOk, NEW i \in Issues, FailModel(i)
    PROVE  /\ Typing /\ ByIssue(i) /\ Calm(i) /\ UNCHANGED governor
           /\ worker[i].at = "running" /\ worker'[i].at = "idle" /\ wake' = {Scan}
           /\ issue'[i] = [issue[i] EXCEPT !.labels =
                              (issue[i].labels \ {"dsh", "blocked"}) \union {"failed"}]
           /\ (run.at = "reading" /\ issue[i].pull /\ i \notin run.pulls =>
                  "overlooked" \in irregular'[i])
<1>1. /\ worker[i].at = "running" /\ Entered(i, "failed") /\ EndInError(i) /\ Overlooked(i)
      /\ UNCHANGED <<base, governor, run, queue>>
  BY DEF FailModel
<1>2. /\ issue' \in [Issues -> IssueType]
      /\ \A j \in Issues \ {i} : issue'[j] = issue[j]
      /\ issue'[i] = [issue[i] EXCEPT !.labels =
                         (issue[i].labels \ {"dsh", "blocked"}) \union {"failed"}]
      /\ status' \in [Issues -> StatusType]
      /\ \A j \in Issues \ {i} : status'[j] = status[j]
      /\ status'[i].is # "capacity-waiting"
      /\ recovery' = [j \in Issues |-> recovery'[j]]
      /\ wake' = {Scan}
      /\ worker' = [worker EXCEPT ![i] = Unemployed]
  BY <1>1, EndsInError
<1>3. /\ worker' \in [Issues -> WorkerType]
      /\ \A j \in Issues \ {i} : worker'[j] = worker[j]
      /\ worker'[i].at = "idle"
  BY <1>2, Dismisses
<1>4. /\ journal' \in [Issues -> SUBSET JournalType]
      /\ \A j \in Issues \ {i} : journal'[j] = journal[j]
      /\ \A e \in journal'[i] :
            e \in journal[i] \/ e.execution = <<worker[i].version, worker[i].request.base>>
  BY <1>1, Enters
<1>5. /\ irregular' \in [Issues -> SUBSET (Uncounted \union Repeatable)]
      /\ \A j \in Issues \ {i} : irregular'[j] = irregular[j]
      /\ irregular[i] \subseteq irregular'[i]
      /\ (run.at = "reading" /\ issue[i].pull /\ i \notin run.pulls =>
                  "overlooked" \in irregular'[i])
  BY <1>1, OverlookedMarks
<1>6. issue'[i].version = issue[i].version
  BY <1>2 DEF BacklogTypeOK, IssueType
<1>7. Typing
  BY <1>1, <1>2, <1>3, <1>4, <1>5, <1>6, IssueTyped DEF BacklogTypeOK
<1>8. ByIssue(i) /\ Calm(i)
  BY <1>1, <1>2, <1>3, <1>4, <1>5, <1>6 DEF ByIssue, Calm, WorkerCalm, EntriesCalm
<1>9. QED
  BY <1>1, <1>2, <1>3, <1>4, <1>5, <1>6, <1>7, <1>8

\* The pull request is opened (OpenPull).
LEMMA OpenPullEffect ==
    ASSUME BacklogTypeOK, RunOk, NEW i \in Issues, OpenPull(i)
    PROVE  /\ Typing /\ ByIssue(i) /\ Calm(i)
           /\ UNCHANGED <<governor, wake, worker, irregular>> /\ worker[i].at = "running"
           /\ issue'[i] = [issue[i] EXCEPT !.pull = TRUE]
<1>1. /\ worker[i].at = "running" /\ issue' = [issue EXCEPT ![i].pull = TRUE]
      /\ UNCHANGED <<base, governor, wake, run, queue, worker, status, recovery, journal, irregular>>
  BY DEF OpenPull, ofDispatch, ofWorker
<1>2. [issue[i] EXCEPT !.pull = TRUE] \in IssueType
      /\ [issue[i] EXCEPT !.pull = TRUE].version = issue[i].version
  BY IssueShape DEF IssueType
<1>3. issue' = [issue EXCEPT ![i] = [issue[i] EXCEPT !.pull = TRUE]]
  BY <1>1 DEF BacklogTypeOK
<1>4. /\ issue' \in [Issues -> IssueType] /\ issue'[i] = [issue[i] EXCEPT !.pull = TRUE]
      /\ \A j \in Issues \ {i} : issue'[j] = issue[j]
      /\ issue'[i].version = issue[i].version
  BY <1>2, <1>3, IssueBecomes
<1>5. Typing
  BY <1>1, <1>4, IssueTyped DEF BacklogTypeOK
<1>6. ByIssue(i) /\ Calm(i)
  BY <1>1, <1>4 DEF ByIssue, Calm, WorkerCalm, EntriesCalm
<1>7. QED
  BY <1>1, <1>4, <1>5, <1>6

\* The runner is lost (Kill).
LEMMA KillEffect ==
    ASSUME BacklogTypeOK, RunOk, NEW i \in Issues, Kill(i)
    PROVE  /\ Typing /\ ByIssue(i) /\ Calm(i)
           /\ UNCHANGED <<issue, governor, wake, irregular>> /\ worker'[i].at = "idle"
<1>1. /\ worker' = [worker EXCEPT ![i] = Unemployed]
      /\ UNCHANGED <<issue, base, governor, wake, run, queue, status, journal, irregular>>
      /\ recovery' = [j \in Issues |-> recovery'[j]]
  BY DEF Kill, Dismiss, Employ, ofDispatch, BacklogTypeOK
<1>2. /\ worker' \in [Issues -> WorkerType]
      /\ \A j \in Issues \ {i} : worker'[j] = worker[j]
      /\ worker'[i].at = "idle"
  BY <1>1, Dismisses
<1>3. Typing
  BY <1>1, <1>2, IssueTyped DEF BacklogTypeOK
<1>4. ByIssue(i) /\ Calm(i)
  BY <1>1, <1>2 DEF ByIssue, Calm, WorkerCalm, EntriesCalm
<1>5. QED
  BY <1>1, <1>2, <1>3, <1>4

\* Another epoch of the Governor.
LEMMA EpochBecomes ==
    ASSUME BacklogTypeOK, NEW i \in Issues, NEW epoch \in EpochType
    PROVE  /\ [governor EXCEPT ![i].epoch = epoch] \in
                 [Issues -> [epoch : EpochType, attested : SUBSET Versions]]
           /\ \A j \in Issues \ {i} : [governor EXCEPT ![i].epoch = epoch][j] = governor[j]
           /\ [governor EXCEPT ![i].epoch = epoch][i].attested = governor[i].attested
           /\ [governor EXCEPT ![i].epoch = epoch][i].epoch = epoch
BY DEF BacklogTypeOK

\* A recovery is admitted, or the Issue paused (AdmitRecovery).
LEMMA AdmitRecoveryEffect ==
    ASSUME BacklogTypeOK, RunOk, NEW i \in Issues, AdmitRecovery(i)
    PROVE  /\ Typing /\ ByIssue(i) /\ Calm(i)
           /\ UNCHANGED <<wake, worker, irregular>>
           /\ \/ issue'[i] = issue[i]
              \/ issue'[i] = [issue[i] EXCEPT !.labels = issue[i].labels \union {"paused"}]
<1>1. /\ UNCHANGED <<base, wake, run, queue, worker, status, journal, irregular>>
      /\ recovery' = [j \in Issues |-> recovery'[j]]
  BY DEF AdmitRecovery, BacklogTypeOK
<1>2. \/ issue' = issue
      \/ issue' = [issue EXCEPT ![i].labels = issue[i].labels \union {"paused"}]
  BY DEF AdmitRecovery
<1>3. /\ issue' \in [Issues -> IssueType] /\ \A j \in Issues \ {i} : issue'[j] = issue[j]
      /\ \/ issue'[i] = issue[i]
         \/ issue'[i] = [issue[i] EXCEPT !.labels = issue[i].labels \union {"paused"}]
      /\ issue'[i].version = issue[i].version
  <2>1. CASE issue' = issue
    BY <2>1 DEF BacklogTypeOK
  <2>2. CASE issue' = [issue EXCEPT ![i].labels = issue[i].labels \union {"paused"}]
    <3>1. issue[i].labels \union {"paused"} \subseteq Labels
      BY IssueShape DEF IssueType, Labels
    <3>2. QED
      BY <2>2, <3>1, LabelsAlone, IssueBecomes
  <2>3. QED
    BY <1>2, <2>1, <2>2
<1> DEFINE admitted == [Epoch(i) EXCEPT !.attempts = Epoch(i).attempts + 1,
                                       !.recovered[issue[i].version] = "admitted"]
           paused == [Epoch(i) EXCEPT !.paused = TRUE]
<1>4. Epoch(i) \in EpochType /\ issue[i].version \in Versions
  BY DEF BacklogTypeOK, Epoch, IssueType
<1>5. admitted \in EpochType /\ admitted.dispatch = Epoch(i).dispatch
  <2>1. Epoch(i).attempts + 1 \in Nat
    BY <1>4 DEF EpochType
  <2>2. [Epoch(i).recovered EXCEPT ![issue[i].version] = "admitted"]
           \in [Versions -> {"none", "admitted", "applied"}]
    BY <1>4 DEF EpochType
  <2>3. admitted = [Epoch(i) EXCEPT !.attempts = Epoch(i).attempts + 1,
              !.recovered = [Epoch(i).recovered EXCEPT ![issue[i].version] = "admitted"]]
    BY <1>4 DEF EpochType
  <2> HIDE DEF admitted
  <2>4. QED
    BY <1>4, <2>1, <2>2, <2>3 DEF EpochType
<1>6. paused \in EpochType /\ paused.dispatch = Epoch(i).dispatch
  BY <1>4 DEF EpochType
<1>7. \/ governor' = governor
      \/ governor' = [governor EXCEPT ![i].epoch = admitted]
      \/ governor' = [governor EXCEPT ![i].epoch = paused]
  <2>1. CASE UNCHANGED governor
    BY <2>1
  <2>2. CASE governor' = [governor EXCEPT ![i].epoch.attempts = @ + 1,
                                          ![i].epoch.recovered[issue[i].version] = "admitted"]
    <3> DEFINE g == [governor EXCEPT ![i].epoch.attempts = governor[i].epoch.attempts + 1]
               counted == [Epoch(i) EXCEPT !.attempts = Epoch(i).attempts + 1]
    <3>1. governor' = [g EXCEPT ![i].epoch.recovered[issue[i].version] = "admitted"]
      BY <2>2
    <3>2. g = [governor EXCEPT ![i].epoch = counted]
      BY DEF BacklogTypeOK, Epoch
    <3>3. admitted = [counted EXCEPT !.recovered[issue[i].version] = "admitted"]
      OBVIOUS
    <3>4. governor \in [Issues -> [epoch : EpochType, attested : SUBSET Versions]]
      BY DEF BacklogTypeOK
    <3> HIDE DEF g, counted, admitted
    <3>5. g[i].epoch = counted /\ DOMAIN g = Issues
          /\ [g EXCEPT ![i].epoch = admitted] = [governor EXCEPT ![i].epoch = admitted]
      BY <3>2, <3>4
    <3>6. [g EXCEPT ![i].epoch.recovered[issue[i].version] = "admitted"]
             = [g EXCEPT ![i].epoch = admitted]
      BY <3>3, <3>5
    <3>7. QED
      BY <3>1, <3>5, <3>6
  <2>3. CASE governor' = [governor EXCEPT ![i].epoch.paused = TRUE]
    BY <1>4, <2>3 DEF BacklogTypeOK, Epoch, EpochType
  <2>4. QED
    BY <2>1, <2>2, <2>3 DEF AdmitRecovery
<1> HIDE DEF admitted, paused
<1>8. /\ governor' \in [Issues -> [epoch : EpochType, attested : SUBSET Versions]]
      /\ \A j \in Issues \ {i} : governor'[j] = governor[j]
      /\ governor'[i].attested = governor[i].attested
      /\ governor'[i].epoch.dispatch = governor[i].epoch.dispatch
  <2>1. CASE governor' = governor
    BY <2>1 DEF BacklogTypeOK
  <2>2. CASE governor' = [governor EXCEPT ![i].epoch = admitted]
    BY <1>5, <2>2, EpochBecomes DEF Epoch
  <2>3. CASE governor' = [governor EXCEPT ![i].epoch = paused]
    BY <1>6, <2>3, EpochBecomes DEF Epoch
  <2>4. QED
    BY <1>7, <2>1, <2>2, <2>3
<1>9. Typing
  BY <1>1, <1>3, <1>8, IssueTyped DEF BacklogTypeOK
<1>10. ByIssue(i) /\ Calm(i)
  BY <1>1, <1>3, <1>8 DEF ByIssue, Calm, WorkerCalm, EntriesCalm
<1>11. QED
  BY <1>1, <1>3, <1>8, <1>9, <1>10

\* The recovery is recorded as applied (ApplyRecovery).
LEMMA ApplyRecoveryEffect ==
    ASSUME BacklogTypeOK, RunOk, NEW i \in Issues, ApplyRecovery(i)
    PROVE  /\ Typing /\ ByIssue(i) /\ Calm(i)
           /\ UNCHANGED <<issue, wake, worker, irregular>>
<1>1. /\ UNCHANGED <<issue, base, wake, run, queue, worker, status, journal, irregular>>
      /\ recovery' = [j \in Issues |-> recovery'[j]]
  BY DEF ApplyRecovery, BacklogTypeOK
<1> DEFINE v == recovery[i].version
           applied == [Epoch(i) EXCEPT !.recovered[v] = "applied"]
<1>2. Epoch(i) \in EpochType
  BY DEF BacklogTypeOK, Epoch
<1>3. applied \in EpochType /\ applied.dispatch = Epoch(i).dispatch
  BY <1>2 DEF EpochType
<1>4. governor' = [governor EXCEPT ![i].epoch = applied]
  <2>1. governor' = [governor EXCEPT ![i].epoch.recovered[v] = "applied"]
    BY DEF ApplyRecovery
  <2>2. QED
    BY <1>2, <2>1 DEF BacklogTypeOK, Epoch, EpochType
<1> HIDE DEF applied
<1>5. /\ governor' \in [Issues -> [epoch : EpochType, attested : SUBSET Versions]]
      /\ \A j \in Issues \ {i} : governor'[j] = governor[j]
      /\ governor'[i].attested = governor[i].attested
      /\ governor'[i].epoch.dispatch = governor[i].epoch.dispatch
  BY <1>3, <1>4, EpochBecomes DEF Epoch, BacklogTypeOK
<1>8. Typing
  BY <1>1, <1>5, IssueTyped DEF BacklogTypeOK
<1>9. ByIssue(i) /\ Calm(i)
  BY <1>1, <1>5 DEF ByIssue, Calm, WorkerCalm, EntriesCalm
<1>10. QED
  BY <1>1, <1>5, <1>8, <1>9

\* The recovery dies (LoseRecovery).
LEMMA LoseRecoveryEffect ==
    ASSUME BacklogTypeOK, RunOk, NEW i \in Issues, LoseRecovery(i)
    PROVE  /\ Typing /\ ByIssue(i) /\ Calm(i) /\ UNCHANGED <<issue, governor, wake, worker, irregular>>
<1>1. /\ UNCHANGED <<issue, base, governor, wake, run, queue, worker, status, journal, irregular>>
      /\ recovery' = [j \in Issues |-> recovery'[j]]
  BY DEF LoseRecovery, ofDispatch, BacklogTypeOK
<1>2. Typing
  BY <1>1, IssueTyped DEF BacklogTypeOK
<1>3. ByIssue(i) /\ Calm(i)
  BY <1>1 DEF ByIssue, Calm, WorkerCalm, EntriesCalm
<1>4. QED
  BY <1>1, <1>2, <1>3

\* A step outside the Workers that marks the Issue.
LEMMA MarkedEffect ==
    ASSUME BacklogTypeOK, RunOk, NEW i \in Issues, NEW mark \in Uncounted \union Repeatable,
           NEW now \in IssueType, now.version = issue[i].version, now.pull = issue[i].pull,
           issue' = [issue EXCEPT ![i] = now],
           irregular' = [irregular EXCEPT ![i] = irregular[i] \union {mark}],
           wake' \in {wake, {i}, {Scan}}, recovery' = [j \in Issues |-> recovery'[j]],
           UNCHANGED <<base, governor, run, queue, worker, status, journal>>
    PROVE  /\ Typing /\ ByIssue(i) /\ Calm(i) /\ mark \in irregular'[i]
           /\ worker' = worker /\ issue'[i].pull = issue[i].pull
<1>1. Marks(i, {mark})
  BY DEF Marks
<1>2. /\ irregular' \in [Issues -> SUBSET (Uncounted \union Repeatable)]
      /\ \A j \in Issues \ {i} : irregular'[j] = irregular[j]
      /\ irregular[i] \subseteq irregular'[i] /\ mark \in irregular'[i]
  BY <1>1, Marked
<1>3. /\ issue' \in [Issues -> IssueType] /\ issue'[i] = now
      /\ \A j \in Issues \ {i} : issue'[j] = issue[j]
  BY IssueBecomes
<1>4. Typing
  BY <1>2, <1>3, IssueTyped DEF BacklogTypeOK
<1>5. ByIssue(i) /\ Calm(i)
  BY <1>2, <1>3 DEF ByIssue, Calm, WorkerCalm, EntriesCalm
<1>6. QED
  BY <1>2, <1>3, <1>4, <1>5

\* The recovery sets labels (Relabel).
LEMMA RelabelEffect ==
    ASSUME BacklogTypeOK, RunOk, NEW i \in Issues, Relabel(i)
    PROVE  /\ Typing /\ ByIssue(i) /\ Calm(i) /\ "relabelled" \in irregular'[i]
           /\ worker' = worker /\ issue'[i].pull = issue[i].pull
<1>1. /\ irregular' = [irregular EXCEPT ![i] = irregular[i] \union {"relabelled"}]
      /\ UNCHANGED <<base, governor, wake, run, queue, worker, status, journal>>
      /\ recovery' = [j \in Issues |-> recovery'[j]]
  BY DEF Relabel, ofDispatch, BacklogTypeOK
<1>2. PICK labels \in SUBSET Labels : issue' = [issue EXCEPT ![i].labels = labels]
  <2>1. (issue[i].labels \ {"failed"}) \union {"dsh"} \in SUBSET Labels
        /\ issue[i].labels \union {"failed"} \in SUBSET Labels
    BY IssueShape DEF IssueType, Labels
  <2>2. QED
    BY <2>1 DEF Relabel
<1>3. QED
  BY <1>1, <1>2, LabelsAlone, MarkedEffect DEF Uncounted

\* A person asks for the Issue (AskFor).
LEMMA AskForEffect ==
    ASSUME BacklogTypeOK, RunOk, NEW i \in Issues, AskFor(i)
    PROVE  /\ Typing /\ ByIssue(i) /\ Calm(i) /\ "relabelled" \in irregular'[i]
           /\ worker' = worker /\ issue'[i].pull = issue[i].pull
<1>1. /\ irregular' = [irregular EXCEPT ![i] = irregular[i] \union {"relabelled"}]
      /\ UNCHANGED <<base, governor, run, queue, worker, status, recovery, journal>>
      /\ issue' = [issue EXCEPT ![i] = [issue[i] EXCEPT !.labels = issue[i].labels \union {"dsh"}]]
      /\ wake' \in {wake, {i}, {Scan}} /\ recovery' = [j \in Issues |-> recovery'[j]]
  BY DEF AskFor, Outside, ofWorker, BacklogTypeOK
<1>2. issue[i].labels \union {"dsh"} \subseteq Labels
  BY IssueShape DEF IssueType, Labels
<1>3. QED
  BY <1>1, <1>2, LabelsAlone, MarkedEffect DEF Uncounted

\* A person takes a label (TakeLabel).
LEMMA TakeLabelEffect ==
    ASSUME BacklogTypeOK, RunOk, NEW i \in Issues, TakeLabel(i)
    PROVE  /\ Typing /\ ByIssue(i) /\ Calm(i) /\ "relabelled" \in irregular'[i]
           /\ worker' = worker /\ issue'[i].pull = issue[i].pull
<1>1. /\ irregular' = [irregular EXCEPT ![i] = irregular[i] \union {"relabelled"}]
      /\ UNCHANGED <<base, governor, run, queue, worker, status, recovery, journal>>
      /\ wake' \in {wake, {i}, {Scan}} /\ recovery' = [j \in Issues |-> recovery'[j]]
  BY DEF TakeLabel, Outside, ofWorker, BacklogTypeOK
<1>2. PICK label : issue' = [issue EXCEPT ![i] = [issue[i] EXCEPT !.labels = issue[i].labels \ {label}]]
  BY DEF TakeLabel, Outside
<1>3. issue[i].labels \ {label} \subseteq Labels
  BY IssueShape DEF IssueType
<1>4. QED
  BY <1>1, <1>2, <1>3, LabelsAlone, MarkedEffect DEF Uncounted

\* The Issue is closed or reopened (CloseOrReopen).
LEMMA CloseOrReopenEffect ==
    ASSUME BacklogTypeOK, RunOk, NEW i \in Issues, CloseOrReopen(i)
    PROVE  /\ Typing /\ ByIssue(i) /\ Calm(i)
           /\ UNCHANGED <<governor, worker>> /\ wake' = {Scan}
           /\ issue'[i] = [issue[i] EXCEPT !.open = ~ issue[i].open]
           /\ ~ issue[i].open => "reopened" \in irregular'[i]
<1> DEFINE now == [issue[i] EXCEPT !.open = ~ issue[i].open]
<1>1. /\ UNCHANGED <<base, governor, run, queue, worker, status, recovery, journal>>
      /\ wake' = {Scan} /\ recovery' = [j \in Issues |-> recovery'[j]]
      /\ issue' = [issue EXCEPT ![i] = now]
  BY DEF CloseOrReopen, Outside, ofWorker, BacklogTypeOK
<1>2. now \in IssueType /\ now.version = issue[i].version
  BY IssueShape DEF IssueType
<1> HIDE DEF now
<1>3. /\ issue' \in [Issues -> IssueType] /\ issue'[i] = now
      /\ \A j \in Issues \ {i} : issue'[j] = issue[j]
  BY <1>1, <1>2, IssueBecomes
<1>4. /\ irregular' \in [Issues -> SUBSET (Uncounted \union Repeatable)]
      /\ \A j \in Issues \ {i} : irregular'[j] = irregular[j]
      /\ irregular[i] \subseteq irregular'[i]
      /\ ~ issue[i].open => "reopened" \in irregular'[i]
  <2>1. CASE issue[i].open
    BY <2>1 DEF CloseOrReopen, BacklogTypeOK
  <2>2. CASE ~ issue[i].open
    <3>1. Marks(i, {"reopened"})
      BY <2>2 DEF CloseOrReopen, Marks, Uncounted
    <3>2. QED
      BY <3>1, Marked
  <2>3. QED
    BY <2>1, <2>2
<1>5. Typing
  BY <1>1, <1>2, <1>3, <1>4, IssueTyped DEF BacklogTypeOK
<1>6. ByIssue(i) /\ Calm(i)
  BY <1>1, <1>2, <1>3, <1>4 DEF ByIssue, Calm, WorkerCalm, EntriesCalm
<1>7. QED
  BY <1>1, <1>2, <1>3, <1>4, <1>5, <1>6 DEF now

\* The pull request is merged (Land).
LEMMA LandEffect ==
    ASSUME BacklogTypeOK, RunOk, NEW i \in Issues, Land(i)
    PROVE  /\ Typing /\ ByIssue(i) /\ Calm(i)
           /\ UNCHANGED <<governor, worker, irregular>> /\ base' = base + 1 /\ wake' = {Scan}
           /\ issue'[i] = [issue[i] EXCEPT !.pull = FALSE, !.open = FALSE]
<1> DEFINE now == [issue[i] EXCEPT !.pull = FALSE, !.open = FALSE]
<1>1. /\ UNCHANGED <<governor, run, queue, worker, status, recovery, journal, irregular>>
      /\ wake' = {Scan} /\ base' = base + 1
      /\ issue' = [issue EXCEPT ![i].pull = FALSE, ![i].open = FALSE]
  BY DEF Land, ofWorker
<1>2. now \in IssueType /\ now.version = issue[i].version
  BY IssueShape DEF IssueType
<1>3. issue' = [issue EXCEPT ![i] = now]
  BY <1>1 DEF BacklogTypeOK, IssueType
<1>4. base' \in Nat
  BY <1>1 DEF BacklogTypeOK
<1> HIDE DEF now
<1>5. /\ issue' \in [Issues -> IssueType] /\ issue'[i] = now
      /\ \A j \in Issues \ {i} : issue'[j] = issue[j]
  BY <1>2, <1>3, IssueBecomes
<1>6. Typing
  BY <1>1, <1>2, <1>4, <1>5, IssueTyped DEF BacklogTypeOK
<1>7. ByIssue(i) /\ Calm(i)
  BY <1>1, <1>2, <1>4, <1>5 DEF ByIssue, Calm, WorkerCalm, EntriesCalm
<1>8. QED
  BY <1>1, <1>2, <1>4, <1>5, <1>6, <1>7 DEF now

\* The pull request is closed (Abandon).
LEMMA AbandonEffect ==
    ASSUME BacklogTypeOK, RunOk, NEW i \in Issues, Abandon(i)
    PROVE  /\ Typing /\ ByIssue(i) /\ Calm(i)
           /\ UNCHANGED <<governor, wake, worker, irregular>>
           /\ issue'[i] = [issue[i] EXCEPT !.pull = FALSE]
<1> DEFINE now == [issue[i] EXCEPT !.pull = FALSE]
<1>1. /\ UNCHANGED <<base, governor, wake, run, queue, worker, status, recovery, journal, irregular>>
      /\ issue' = [issue EXCEPT ![i] = now]
  BY DEF Abandon, Outside, ofWorker
<1>2. now \in IssueType /\ now.version = issue[i].version
  BY IssueShape DEF IssueType
<1> HIDE DEF now
<1>3. /\ issue' \in [Issues -> IssueType] /\ issue'[i] = now
      /\ \A j \in Issues \ {i} : issue'[j] = issue[j]
  BY <1>1, <1>2, IssueBecomes
<1>4. Typing
  BY <1>1, <1>2, <1>3, IssueTyped DEF BacklogTypeOK
<1>5. ByIssue(i) /\ Calm(i)
  BY <1>1, <1>2, <1>3 DEF ByIssue, Calm, WorkerCalm, EntriesCalm
<1>6. QED
  BY <1>1, <1>2, <1>3, <1>4, <1>5 DEF now

\* The Issue is edited (Edit).
LEMMA EditEffect ==
    ASSUME BacklogTypeOK, RunOk, NEW i \in Issues, Edit(i)
    PROVE  /\ Typing /\ ByIssue(i)
           /\ UNCHANGED <<base, governor, queue, worker, status, journal>>
           /\ irregular[i] \subseteq irregular'[i] /\ wake' = {Scan}
           /\ issue'[i].version # issue[i].version
           /\ issue'[i] = [issue[i] EXCEPT !.version = issue'[i].version]
           /\ DeclarationOf[issue'[i].version].declares # "work" => "undeclared" \in irregular'[i]
           /\ issue'[i].version \in governor[i].attested => "restored" \in irregular'[i]
<1>1. PICK v \in Versions \ {issue[i].version} :
          /\ Outside(i, [issue[i] EXCEPT !.version = v], {Scan})
          /\ irregular' = [irregular EXCEPT ![i] = irregular[i] \union EditMarks(i, v)]
  BY DEF Edit
<1> DEFINE now == [issue[i] EXCEPT !.version = v]
<1>2. /\ UNCHANGED <<base, governor, run, queue, worker, status, recovery, journal>>
      /\ wake' = {Scan} /\ issue' = [issue EXCEPT ![i] = now]
  BY <1>1 DEF Outside, ofWorker
<1>3. now \in IssueType /\ now.version = v
  BY IssueShape DEF IssueType
<1> HIDE DEF now
<1>4. /\ issue' \in [Issues -> IssueType] /\ issue'[i] = now
      /\ \A j \in Issues \ {i} : issue'[j] = issue[j]
  BY <1>2, <1>3, IssueBecomes
<1>5. Marks(i, EditMarks(i, v))
  BY <1>1 DEF Marks, EditMarks, Uncounted, Repeatable
<1>6. /\ irregular' \in [Issues -> SUBSET (Uncounted \union Repeatable)]
      /\ \A j \in Issues \ {i} : irregular'[j] = irregular[j]
      /\ irregular[i] \subseteq irregular'[i]
      /\ EditMarks(i, v) \subseteq irregular'[i]
  BY <1>5, Marked
<1>7. /\ DeclarationOf[v].declares # "work" => "undeclared" \in irregular'[i]
      /\ v \in governor[i].attested => "restored" \in irregular'[i]
  BY <1>6 DEF EditMarks
<1>8. Typing
  BY <1>2, <1>3, <1>4, <1>6, <1>7, IssueTyped DEF BacklogTypeOK
<1>9. ByIssue(i)
  BY <1>2, <1>3, <1>4, <1>6, <1>7 DEF ByIssue, Calm, WorkerCalm, EntriesCalm
<1>10. issue'[i].version = v /\ issue'[i] = [issue[i] EXCEPT !.version = issue'[i].version]
  BY <1>3, <1>4 DEF now
<1>11. QED
  BY <1>10, <1>2, <1>3, <1>4, <1>6, <1>7, <1>8, <1>9

\* A person answers the pause (Resume).
LEMMA ResumeEffect ==
    ASSUME BacklogTypeOK, RunOk, NEW i \in Issues, Resume(i)
    PROVE  /\ Typing /\ ByIssue(i)
           /\ UNCHANGED <<base, wake, queue, worker, status, journal>>
           /\ governor'[i].attested = governor[i].attested
           /\ irregular[i] \subseteq irregular'[i] /\ "resumed" \in irregular'[i]
           /\ issue'[i] = [issue[i] EXCEPT !.labels = issue[i].labels \ {"paused"}]
           /\ issue'[i].version = issue[i].version
<1> DEFINE labels == issue[i].labels \ {"paused"}
<1>1. /\ UNCHANGED <<base, wake, run, queue, worker, status, recovery, journal>>
      /\ governor' = [governor EXCEPT ![i].epoch = NewEpoch]
      /\ issue' = [issue EXCEPT ![i].labels = labels]
      /\ Marks(i, {"resumed"})
  BY DEF Resume, ofWorker, Marks, Repeatable
<1>2. labels \subseteq Labels
  BY IssueShape DEF IssueType
<1> HIDE DEF labels
<1>3. /\ issue' \in [Issues -> IssueType] /\ issue'[i] = [issue[i] EXCEPT !.labels = labels]
      /\ \A j \in Issues \ {i} : issue'[j] = issue[j]
      /\ issue'[i].version = issue[i].version
  BY <1>1, <1>2, LabelsAlone, IssueBecomes
<1>4. /\ governor' \in [Issues -> [epoch : EpochType, attested : SUBSET Versions]]
      /\ \A j \in Issues \ {i} : governor'[j] = governor[j]
      /\ governor'[i].attested = governor[i].attested
  BY <1>1, Typed, EpochBecomes
<1>5. /\ irregular' \in [Issues -> SUBSET (Uncounted \union Repeatable)]
      /\ \A j \in Issues \ {i} : irregular'[j] = irregular[j]
      /\ irregular[i] \subseteq irregular'[i]
      /\ "resumed" \in irregular'[i]
  BY <1>1, Marked
<1>6. Typing
  BY <1>1, <1>3, <1>4, <1>5, IssueTyped DEF BacklogTypeOK
<1>7. ByIssue(i)
  BY <1>1, <1>3, <1>4, <1>5 DEF ByIssue, Calm, WorkerCalm, EntriesCalm
<1>8. QED
  BY <1>3, <1>1, <1>3, <1>4, <1>5, <1>6, <1>7 DEF labels

\* A capacity wait is dispatched again (ResumeCapacity).
LEMMA ResumeCapacityEffect ==
    ASSUME BacklogTypeOK, RunOk, NEW i \in Issues, ResumeCapacity(i)
    PROVE  /\ Typing /\ ByIssue(i)
           /\ UNCHANGED <<issue, base, governor, wake, worker, status, journal, irregular>>
           /\ Resumable(i)
           /\ \A r \in queue'[i] : r.base = base
<1> DEFINE request == RequestFor(issue[i].version, base)
<1>1. /\ UNCHANGED <<issue, base, governor, wake, run, worker, status, recovery, journal, irregular>>
      /\ Resumable(i) /\ queue' = [queue EXCEPT ![i] = {request}]
  BY DEF ResumeCapacity, ofDispatch
<1>2. request \in Request /\ request.base = base
  <2>1. issue[i].version \in Versions /\ base \in Nat
    BY IssueShape DEF BacklogTypeOK, IssueType
  <2>2. QED
    BY <2>1, Typed
<1> HIDE DEF request
<1>3. /\ queue' \in [Issues -> SUBSET Request] /\ queue'[i] = {request}
      /\ \A j \in Issues \ {i} : queue'[j] = queue[j]
  BY <1>1, <1>2 DEF BacklogTypeOK
<1>4. Typing
  BY <1>1, <1>2, <1>3, IssueTyped DEF BacklogTypeOK
<1>5. ByIssue(i)
  BY <1>1, <1>2, <1>3 DEF ByIssue, Calm, WorkerCalm, EntriesCalm
<1>6. QED
  BY <1>1, <1>2, <1>3, <1>4, <1>5

-----------------------------------------------------------------------------
(* The limit                                                               *)

\* A step that leaves the run leaves the Issue at hand.
LEMMA SameRun ==
    ASSUME run' = run
    PROVE  /\ Member' = Member /\ This' = This /\ Seen' = Seen
           /\ \A i \in Issues : InHand(i)' <=> InHand(i)
<1>1. Member' = Member
  BY DEF Member
<1>2. QED
  BY <1>1 DEF This, Seen, InHand

\* A Worker past its checks has its label, and no dispatcher has its Issue.
LEMMA BusyOwned ==
    ASSUME LimitInv, NEW i \in Issues, Counted(i), worker[i].at # "idle",
           worker[i].at # "verifying" \/ governor[i].attested # {}
    PROVE  Owned(i) /\ ~ Ended(i) /\ ~ InHand(i) /\ ~ AskedFor(i)
BY DEF LimitInv, CountOk, Untouched

\* There are finitely many places.
LEMMA TakenFinite ==
    IsFiniteSet(Taken) /\ \A S \in SUBSET Taken : Cardinality(S) <= Cardinality(Taken)
<1>1. Taken \subseteq Issues
  BY DEF Taken
<1>2. IsFiniteSet(Taken)
  BY <1>1, Constants, FS_Subset
<1>3. QED
  BY <1>2, FS_Subset

\* A step keeps the limit if it keeps each Issue in the count and takes no
\* place.
LEMMA NoPlaceTaken ==
    ASSUME LimitInv, Typing, NoPullYet',
           \A i \in Issues : Counted(i)' => CountOk(i)',
           \A i \in Issues : i \in Taken' => i \in Taken
    PROVE  LimitInv'
<1>1. Taken' \in SUBSET Taken
  BY DEF Taken
<1>2. Cardinality(Taken') <= Cardinality(Taken) /\ IsFiniteSet(Taken) /\ IsFiniteSet(Taken')
  BY <1>1, TakenFinite, FS_Subset
<1>3. Cardinality(Taken') \in Nat /\ Cardinality(Taken) \in Nat /\ Limit \in Nat
  BY <1>2, FS_CardinalityType, Constants
<1>4. Cardinality(Taken) <= Limit
  BY DEF LimitInv
<1>5. Cardinality(Taken') <= Limit
  BY <1>2, <1>3, <1>4
<1>6. Cardinality(Taken)' <= Limit
  BY <1>5
<1>7. QED
  BY <1>6 DEF LimitInv, Typing

\* A step of one Issue keeps the limit if it keeps that Issue in the count.
LEMMA IssueCounts ==
    ASSUME LimitInv, Typing, NEW i \in Issues, ByIssue(i),
           worker'[i].at = "ready" => ~ issue'[i].pull,
           Counted(i)' => CountOk(i)' /\ (i \in Taken' => i \in Taken)
    PROVE  LimitInv'
<1>1. This' = This /\ \A j \in Issues : InHand(j)' <=> InHand(j)
  BY SameRun DEF ByIssue
<1>2. NoPullYet'
  BY DEF LimitInv, NoPullYet, ByIssue
<1>3. ASSUME NEW j \in Issues \ {i}, Counted(j)'
      PROVE  CountOk(j)' /\ (j \in Taken' => j \in Taken)
  <2>1. /\ issue'[j] = issue[j] /\ governor'[j] = governor[j] /\ worker'[j] = worker[j]
        /\ irregular'[j] = irregular[j] /\ run' = run
    BY DEF ByIssue
  <2>2. (AskedFor(j)' => AskedFor(j)) /\ (j \in wake' => j \in wake)
    BY <2>1, Constants DEF ByIssue, AskedFor, Scan
  <2>3. CountOk(j) /\ Counted(j)
    BY <1>3, <2>1 DEF LimitInv, Counted
  <2>4. /\ Owned(j)' <=> Owned(j)
        /\ Ended(j)' <=> Ended(j)
        /\ Untouched(j)' <=> Untouched(j)
        /\ DeclarationNow(j)' = DeclarationNow(j)
    BY <2>1 DEF Owned, Ended, Untouched, DeclarationNow
  <2>5. CountOk(j)'
    BY <1>1, <2>1, <2>2, <2>3, <2>4 DEF CountOk
  <2>6. j \in Taken' => j \in Taken
    BY <1>1, <2>1, <2>3, <2>4 DEF Taken
  <2>7. QED
    BY <2>5, <2>6
<1>4. \A j \in Issues : Counted(j)' => CountOk(j)' /\ (j \in Taken' => j \in Taken)
  BY <1>3
<1>5. \A j \in Issues : j \in Taken' => Counted(j)'
  BY DEF Taken
<1>6. QED
  BY <1>2, <1>4, <1>5, NoPlaceTaken

\* What happens to an Issue out of the count is of no account.
LEMMA UncountedStep ==
    ASSUME LimitInv, Typing, NEW i \in Issues, ByIssue(i), ~ Counted(i)',
           worker'[i].at = "ready" => ~ issue'[i].pull
    PROVE  LimitInv'
BY IssueCounts

\* The run takes the pending request (Take).
LEMMA TakeCounts ==
    ASSUME LimitInv, NEW i \in Issues, Take(i)
    PROVE  LimitInv'
<1>1. /\ Typing /\ ByIssue(i) /\ Calm(i) /\ UNCHANGED <<issue, governor, wake, irregular>>
      /\ worker'[i] = worker[i] \/ (Owned(i) /\ worker'[i].at = "verifying")
  BY TakeEffect DEF LimitInv
<1>2. This' = This /\ \A j \in Issues : InHand(j)' <=> InHand(j)
  BY <1>1, SameRun DEF ByIssue
<1>3. Counted(i)' => Counted(i) /\ CountOk(i)
  BY <1>1 DEF Calm, Counted, LimitInv
<1>4. worker'[i].at = "ready" => ~ issue'[i].pull
  BY <1>1 DEF LimitInv, NoPullYet
<1>5. ASSUME Counted(i)'
      PROVE  CountOk(i)' /\ (i \in Taken' => i \in Taken)
  BY <1>1, <1>2, <1>3, <1>5, Constants
     DEF ByIssue, Calm, Counted, CountOk, Owned, Ended, Untouched, AskedFor, DeclarationNow, Taken, Scan
<1>6. QED
  BY <1>1, <1>4, <1>5, IssueCounts

\* The run checks its request (Verify).
LEMMA VerifyCounts ==
    ASSUME LimitInv, NEW i \in Issues, Verify(i)
    PROVE  LimitInv'
<1>1. /\ Typing /\ ByIssue(i) /\ Calm(i) /\ UNCHANGED <<issue, governor, wake, irregular>> /\ worker[i].at = "verifying"
      /\ worker'[i].at # "idle" => worker'[i].at = "surveying" /\ worker[i].version \in governor[i].attested
  BY VerifyEffect DEF LimitInv, Verify
<1>2. This' = This /\ \A j \in Issues : InHand(j)' <=> InHand(j)
  BY <1>1, SameRun DEF ByIssue
<1>3. Counted(i)' => Counted(i) /\ CountOk(i)
  BY <1>1 DEF Calm, Counted, LimitInv
<1>4. worker'[i].at = "ready" => ~ issue'[i].pull
  BY <1>1 DEF LimitInv, NoPullYet
<1>5. ASSUME Counted(i)'
      PROVE  CountOk(i)' /\ (i \in Taken' => i \in Taken)
  BY <1>1, <1>2, <1>3, <1>5, Constants
     DEF ByIssue, Calm, Counted, CountOk, Owned, Ended, Untouched, AskedFor, DeclarationNow, Taken, Scan
<1>6. QED
  BY <1>1, <1>4, <1>5, IssueCounts

\* The run looks at the pull request and the dependencies (Survey).
LEMMA SurveyCounts ==
    ASSUME LimitInv, NEW i \in Issues, Survey(i)
    PROVE  LimitInv'
<1>1. /\ Typing /\ ByIssue(i) /\ Calm(i) /\ UNCHANGED <<governor, wake, irregular>>
      /\ worker[i].at = "surveying" /\ worker'[i].at \in {"idle", "ready"}
      /\ worker'[i].at = "ready" => ~ issue[i].pull
      /\ \/ issue'[i] = issue[i]
         \/ issue'[i] = [issue[i] EXCEPT !.labels = issue[i].labels \ {"failed", "blocked"}]
  BY SurveyEffect DEF LimitInv
<1>2. This' = This /\ \A j \in Issues : InHand(j)' <=> InHand(j)
  BY <1>1, SameRun DEF ByIssue
<1>3. Counted(i)' => Counted(i) /\ CountOk(i)
  BY <1>1 DEF Calm, Counted, LimitInv
<1>4. /\ issue'[i].open = issue[i].open /\ issue'[i].pull = issue[i].pull
      /\ issue'[i].version = issue[i].version
      /\ issue'[i].labels \in {issue[i].labels, issue[i].labels \ {"failed", "blocked"}}
  BY <1>1 DEF LimitInv, BacklogTypeOK, IssueType
<1>5. worker'[i].at = "ready" => ~ issue'[i].pull
  BY <1>1, <1>4 DEF LimitInv, NoPullYet
<1>6. ASSUME Counted(i)'
      PROVE  CountOk(i)' /\ (i \in Taken' => i \in Taken)
  <2>1. Owned(i) /\ ~ Ended(i) /\ ~ InHand(i) /\ ~ AskedFor(i)
    BY <1>1, <1>2, <1>3, <1>4, <1>6, BusyOwned
  <2>2. QED
    BY <1>1, <1>2, <1>3, <1>4, <1>6, <2>1, Constants
       DEF ByIssue, Calm, Counted, CountOk, Owned, Ended, Untouched, AskedFor, DeclarationNow, Taken, Scan
<1>7. QED
  BY <1>1, <1>5, <1>6, IssueCounts

\* The Issue waits for capacity (Defer).
LEMMA DeferCounts ==
    ASSUME LimitInv, NEW i \in Issues, Defer(i)
    PROVE  LimitInv'
<1>1. /\ Typing /\ ByIssue(i) /\ Calm(i) /\ UNCHANGED <<issue, governor, wake, irregular>> /\ worker'[i].at = "idle"
  BY DeferEffect DEF LimitInv
<1>2. This' = This /\ \A j \in Issues : InHand(j)' <=> InHand(j)
  BY <1>1, SameRun DEF ByIssue
<1>3. Counted(i)' => Counted(i) /\ CountOk(i)
  BY <1>1 DEF Calm, Counted, LimitInv
<1>4. worker'[i].at = "ready" => ~ issue'[i].pull
  BY <1>1 DEF LimitInv, NoPullYet
<1>5. ASSUME Counted(i)'
      PROVE  CountOk(i)' /\ (i \in Taken' => i \in Taken)
  BY <1>1, <1>2, <1>3, <1>5, Constants
     DEF ByIssue, Calm, Counted, CountOk, Owned, Ended, Untouched, AskedFor, DeclarationNow, Taken, Scan
<1>6. QED
  BY <1>1, <1>4, <1>5, IssueCounts

\* A model is started (StartModel).
LEMMA StartModelCounts ==
    ASSUME LimitInv, NEW i \in Issues, StartModel(i)
    PROVE  LimitInv'
<1>1. /\ Typing /\ ByIssue(i) /\ Calm(i) /\ UNCHANGED <<issue, governor, wake, irregular>>
      /\ worker[i].at = "ready" /\ worker'[i].at = "running"
  BY StartModelEffect DEF LimitInv
<1>2. This' = This /\ \A j \in Issues : InHand(j)' <=> InHand(j)
  BY <1>1, SameRun DEF ByIssue
<1>3. Counted(i)' => Counted(i) /\ CountOk(i)
  BY <1>1 DEF Calm, Counted, LimitInv
<1>4. worker'[i].at = "ready" => ~ issue'[i].pull
  BY <1>1 DEF LimitInv, NoPullYet
<1>5. ASSUME Counted(i)'
      PROVE  CountOk(i)' /\ (i \in Taken' => i \in Taken)
  <2>1. Owned(i) /\ ~ Ended(i) /\ ~ InHand(i) /\ ~ AskedFor(i)
    BY <1>1, <1>2, <1>3, <1>5, BusyOwned
  <2>2. QED
    BY <1>1, <1>2, <1>3, <1>5, <2>1, Constants
       DEF ByIssue, Calm, Counted, CountOk, Owned, Ended, Untouched, AskedFor, DeclarationNow, Taken, Scan
<1>6. QED
  BY <1>1, <1>4, <1>5, IssueCounts

\* The execution completes (Complete).
LEMMA CompleteCounts ==
    ASSUME LimitInv, NEW i \in Issues, Complete(i)
    PROVE  LimitInv'
<1>1. /\ Typing /\ ByIssue(i) /\ Calm(i) /\ UNCHANGED <<issue, governor, wake, irregular>>
      /\ worker[i].at = "running" /\ worker'[i].at = "checking"
  BY CompleteEffect DEF LimitInv
<1>2. This' = This /\ \A j \in Issues : InHand(j)' <=> InHand(j)
  BY <1>1, SameRun DEF ByIssue
<1>3. Counted(i)' => Counted(i) /\ CountOk(i)
  BY <1>1 DEF Calm, Counted, LimitInv
<1>4. worker'[i].at = "ready" => ~ issue'[i].pull
  BY <1>1 DEF LimitInv, NoPullYet
<1>5. ASSUME Counted(i)'
      PROVE  CountOk(i)' /\ (i \in Taken' => i \in Taken)
  <2>1. Owned(i) /\ ~ Ended(i) /\ ~ InHand(i) /\ ~ AskedFor(i)
    BY <1>1, <1>2, <1>3, <1>5, BusyOwned
  <2>2. QED
    BY <1>1, <1>2, <1>3, <1>5, <2>1, Constants
       DEF ByIssue, Calm, Counted, CountOk, Owned, Ended, Untouched, AskedFor, DeclarationNow, Taken, Scan
<1>6. QED
  BY <1>1, <1>4, <1>5, IssueCounts

\* The run fails before a model call (FailSetup).
LEMMA FailSetupCounts ==
    ASSUME LimitInv, NEW i \in Issues, FailSetup(i)
    PROVE  LimitInv'
<1>1. /\ Typing /\ ByIssue(i) /\ Calm(i) /\ UNCHANGED <<governor, irregular>> /\ wake' = {Scan}
      /\ worker[i].at = "ready" /\ ~ issue[i].pull /\ worker'[i].at = "idle"
      /\ issue'[i] = [issue[i] EXCEPT !.labels =
                         (issue[i].labels \ {"dsh", "blocked"}) \union {"failed"}]
  BY FailSetupEffect DEF LimitInv, NoPullYet
<1>2. This' = This /\ \A j \in Issues : InHand(j)' <=> InHand(j)
  BY <1>1, SameRun DEF ByIssue
<1>3. Counted(i)' => Counted(i) /\ CountOk(i)
  BY <1>1 DEF Calm, Counted, LimitInv
<1>4. /\ issue'[i].open = issue[i].open /\ issue'[i].pull = issue[i].pull
      /\ issue'[i].version = issue[i].version
      /\ issue'[i].labels = (issue[i].labels \ {"dsh", "blocked"}) \union {"failed"}
  BY <1>1 DEF LimitInv, BacklogTypeOK, IssueType
<1>5. worker'[i].at = "ready" => ~ issue'[i].pull
  BY <1>1, <1>4 DEF LimitInv, NoPullYet
<1>6. ASSUME Counted(i)'
      PROVE  CountOk(i)' /\ (i \in Taken' => i \in Taken)
  <2>1. Owned(i) /\ ~ Ended(i) /\ ~ InHand(i) /\ ~ AskedFor(i)
    BY <1>1, <1>2, <1>3, <1>4, <1>6, BusyOwned
  <2>2. QED
    BY <1>1, <1>2, <1>3, <1>4, <1>6, <2>1, Constants
       DEF ByIssue, Calm, Counted, CountOk, Owned, Ended, Untouched, AskedFor, DeclarationNow, Taken, Scan
<1>7. QED
  BY <1>1, <1>5, <1>6, IssueCounts

\* An execution that was started is replayed (Replay).
LEMMA ReplayCounts ==
    ASSUME LimitInv, NEW i \in Issues, Replay(i)
    PROVE  LimitInv'
<1>1. /\ Typing /\ ByIssue(i) /\ Calm(i) /\ UNCHANGED <<governor, irregular>>
      /\ worker[i].at = "ready" /\ ~ issue[i].pull
      /\ \/ issue' = issue /\ wake' = wake /\ worker'[i].at = "checking"
         \/ /\ worker'[i].at = "idle" /\ wake' = {Scan}
            /\ issue'[i] = [issue[i] EXCEPT !.labels =
                         (issue[i].labels \ {"dsh", "blocked"}) \union {"failed"}]
  BY ReplayEffect DEF LimitInv, NoPullYet
<1>2. This' = This /\ \A j \in Issues : InHand(j)' <=> InHand(j)
  BY <1>1, SameRun DEF ByIssue
<1>3. Counted(i)' => Counted(i) /\ CountOk(i)
  BY <1>1 DEF Calm, Counted, LimitInv
<1>4. /\ issue'[i].open = issue[i].open /\ issue'[i].pull = issue[i].pull
      /\ issue'[i].version = issue[i].version
      /\ issue'[i].labels \in {issue[i].labels,
                             (issue[i].labels \ {"dsh", "blocked"}) \union {"failed"}}
      /\ issue'[i] = issue[i] \/ (worker'[i].at = "idle" /\ "failed" \in issue'[i].labels
                                  /\ "dsh" \notin issue'[i].labels)
      /\ wake' \in {wake, {Scan}}
  BY <1>1 DEF LimitInv, BacklogTypeOK, IssueType
<1>5. worker'[i].at = "ready" => ~ issue'[i].pull
  BY <1>1, <1>4 DEF LimitInv, NoPullYet
<1>6. ASSUME Counted(i)'
      PROVE  CountOk(i)' /\ (i \in Taken' => i \in Taken)
  <2>1. Owned(i) /\ ~ Ended(i) /\ ~ InHand(i) /\ ~ AskedFor(i)
    BY <1>1, <1>2, <1>3, <1>4, <1>6, BusyOwned
  <2>2. QED
    BY <1>1, <1>2, <1>3, <1>4, <1>6, <2>1, Constants
       DEF ByIssue, Calm, Counted, CountOk, Owned, Ended, Untouched, AskedFor, DeclarationNow, Taken, Scan
<1>7. QED
  BY <1>1, <1>5, <1>6, IssueCounts

\* The result of the execution is checked (Check).
LEMMA CheckCounts ==
    ASSUME LimitInv, NEW i \in Issues, Check(i)
    PROVE  LimitInv'
<1>1. /\ Typing /\ ByIssue(i) /\ Calm(i) /\ UNCHANGED <<governor, irregular>>
      /\ worker[i].at = "checking" /\ worker'[i].at = "idle"
      /\ \/ issue' = issue /\ wake' = wake
         \/ /\ ~ issue[i].pull /\ wake' = {Scan}
            /\ issue'[i] = [issue[i] EXCEPT !.labels =
                         (issue[i].labels \ {"dsh", "blocked"}) \union {"failed"}]
  BY CheckEffect DEF LimitInv
<1>2. This' = This /\ \A j \in Issues : InHand(j)' <=> InHand(j)
  BY <1>1, SameRun DEF ByIssue
<1>3. Counted(i)' => Counted(i) /\ CountOk(i)
  BY <1>1 DEF Calm, Counted, LimitInv
<1>4. /\ issue'[i].open = issue[i].open /\ issue'[i].pull = issue[i].pull
      /\ issue'[i].version = issue[i].version
      /\ issue'[i].labels \in {issue[i].labels,
                             (issue[i].labels \ {"dsh", "blocked"}) \union {"failed"}}
      /\ issue'[i] = issue[i] \/ ("failed" \in issue'[i].labels /\ "dsh" \notin issue'[i].labels
                                  /\ ~ issue[i].pull)
      /\ wake' \in {wake, {Scan}}
  BY <1>1 DEF LimitInv, BacklogTypeOK, IssueType
<1>5. worker'[i].at = "ready" => ~ issue'[i].pull
  BY <1>1, <1>4 DEF LimitInv, NoPullYet
<1>6. ASSUME Counted(i)'
      PROVE  CountOk(i)' /\ (i \in Taken' => i \in Taken)
  <2>1. Owned(i) /\ ~ Ended(i) /\ ~ InHand(i) /\ ~ AskedFor(i)
    BY <1>1, <1>2, <1>3, <1>4, <1>6, BusyOwned
  <2>2. QED
    BY <1>1, <1>2, <1>3, <1>4, <1>6, <2>1, Constants
       DEF ByIssue, Calm, Counted, CountOk, Owned, Ended, Untouched, AskedFor, DeclarationNow, Taken, Scan
<1>7. QED
  BY <1>1, <1>5, <1>6, IssueCounts

\* The execution is blocked (Block).
LEMMA BlockCounts ==
    ASSUME LimitInv, NEW i \in Issues, Block(i)
    PROVE  LimitInv'
<1>1. /\ Typing /\ ByIssue(i) /\ Calm(i) /\ UNCHANGED <<governor, wake>>
      /\ worker[i].at = "running" /\ worker'[i].at = "idle" /\ (run.at = "reading" /\ issue[i].pull /\ i \notin run.pulls =>
             "overlooked" \in irregular'[i])
      /\ issue'[i] = [issue[i] EXCEPT !.labels = (issue[i].labels \ {"dsh"}) \union {"blocked"}]
  BY BlockEffect DEF LimitInv
<1>2. This' = This /\ \A j \in Issues : InHand(j)' <=> InHand(j)
  BY <1>1, SameRun DEF ByIssue
<1>3. Counted(i)' => Counted(i) /\ CountOk(i)
  BY <1>1 DEF Calm, Counted, LimitInv
<1>4. /\ issue'[i].open = issue[i].open /\ issue'[i].pull = issue[i].pull
      /\ issue'[i].version = issue[i].version
      /\ issue'[i].labels = (issue[i].labels \ {"dsh"}) \union {"blocked"}
  BY <1>1 DEF LimitInv, BacklogTypeOK, IssueType
<1>5. worker'[i].at = "ready" => ~ issue'[i].pull
  BY <1>1, <1>4 DEF LimitInv, NoPullYet
<1>6. ASSUME Counted(i)'
      PROVE  CountOk(i)' /\ (i \in Taken' => i \in Taken)
  <2>1. Owned(i) /\ ~ Ended(i) /\ ~ InHand(i) /\ ~ AskedFor(i)
    BY <1>1, <1>2, <1>3, <1>4, <1>6, BusyOwned
  <2>2. QED
    BY <1>1, <1>2, <1>3, <1>4, <1>6, <2>1, Constants
       DEF ByIssue, Calm, Counted, CountOk, Owned, Ended, Untouched, AskedFor, DeclarationNow, Taken, Scan, Uncounted
<1>7. QED
  BY <1>1, <1>5, <1>6, IssueCounts

\* The execution fails (FailModel).
LEMMA FailModelCounts ==
    ASSUME LimitInv, NEW i \in Issues, FailModel(i)
    PROVE  LimitInv'
<1>1. /\ Typing /\ ByIssue(i) /\ Calm(i) /\ UNCHANGED governor /\ wake' = {Scan}
      /\ worker[i].at = "running" /\ worker'[i].at = "idle" /\ (run.at = "reading" /\ issue[i].pull /\ i \notin run.pulls =>
             "overlooked" \in irregular'[i])
      /\ issue'[i] = [issue[i] EXCEPT !.labels =
                         (issue[i].labels \ {"dsh", "blocked"}) \union {"failed"}]
  BY FailModelEffect DEF LimitInv
<1>2. This' = This /\ \A j \in Issues : InHand(j)' <=> InHand(j)
  BY <1>1, SameRun DEF ByIssue
<1>3. Counted(i)' => Counted(i) /\ CountOk(i)
  BY <1>1 DEF Calm, Counted, LimitInv
<1>4. /\ issue'[i].open = issue[i].open /\ issue'[i].pull = issue[i].pull
      /\ issue'[i].version = issue[i].version
      /\ issue'[i].labels = (issue[i].labels \ {"dsh", "blocked"}) \union {"failed"}
  BY <1>1 DEF LimitInv, BacklogTypeOK, IssueType
<1>5. worker'[i].at = "ready" => ~ issue'[i].pull
  BY <1>1, <1>4 DEF LimitInv, NoPullYet
<1>6. ASSUME Counted(i)'
      PROVE  CountOk(i)' /\ (i \in Taken' => i \in Taken)
  <2>1. Owned(i) /\ ~ Ended(i) /\ ~ InHand(i) /\ ~ AskedFor(i)
    BY <1>1, <1>2, <1>3, <1>4, <1>6, BusyOwned
  <2>2. QED
    BY <1>1, <1>2, <1>3, <1>4, <1>6, <2>1, Constants
       DEF ByIssue, Calm, Counted, CountOk, Owned, Ended, Untouched, AskedFor, DeclarationNow, Taken, Scan, Uncounted
<1>7. QED
  BY <1>1, <1>5, <1>6, IssueCounts

\* The pull request is opened (OpenPull).
LEMMA OpenPullCounts ==
    ASSUME LimitInv, NEW i \in Issues, OpenPull(i)
    PROVE  LimitInv'
<1>1. /\ Typing /\ ByIssue(i) /\ Calm(i) /\ UNCHANGED <<governor, wake, worker, irregular>>
      /\ worker[i].at = "running" /\ issue'[i] = [issue[i] EXCEPT !.pull = TRUE]
  BY OpenPullEffect DEF LimitInv
<1>2. This' = This /\ \A j \in Issues : InHand(j)' <=> InHand(j)
  BY <1>1, SameRun DEF ByIssue
<1>3. Counted(i)' => Counted(i) /\ CountOk(i)
  BY <1>1 DEF Calm, Counted, LimitInv
<1>4. /\ issue'[i].open = issue[i].open /\ issue'[i].labels = issue[i].labels
      /\ issue'[i].version = issue[i].version
  BY <1>1 DEF LimitInv, BacklogTypeOK, IssueType
<1>5. worker'[i].at = "ready" => ~ issue'[i].pull
  BY <1>1, <1>4 DEF LimitInv, NoPullYet
<1>6. ASSUME Counted(i)'
      PROVE  CountOk(i)' /\ (i \in Taken' => i \in Taken)
  <2>1. Owned(i) /\ ~ Ended(i) /\ ~ InHand(i) /\ ~ AskedFor(i)
    BY <1>1, <1>2, <1>3, <1>4, <1>6, BusyOwned
  <2>2. QED
    BY <1>1, <1>2, <1>3, <1>4, <1>6, <2>1, Constants
       DEF ByIssue, Calm, Counted, CountOk, Owned, Ended, Untouched, AskedFor, DeclarationNow, Taken, Scan
<1>7. QED
  BY <1>1, <1>5, <1>6, IssueCounts

\* The runner is lost (Kill).
LEMMA KillCounts ==
    ASSUME LimitInv, NEW i \in Issues, Kill(i)
    PROVE  LimitInv'
<1>1. /\ Typing /\ ByIssue(i) /\ Calm(i) /\ UNCHANGED <<issue, governor, wake, irregular>> /\ worker'[i].at = "idle"
  BY KillEffect DEF LimitInv
<1>2. This' = This /\ \A j \in Issues : InHand(j)' <=> InHand(j)
  BY <1>1, SameRun DEF ByIssue
<1>3. Counted(i)' => Counted(i) /\ CountOk(i)
  BY <1>1 DEF Calm, Counted, LimitInv
<1>4. worker'[i].at = "ready" => ~ issue'[i].pull
  BY <1>1 DEF LimitInv, NoPullYet
<1>5. ASSUME Counted(i)'
      PROVE  CountOk(i)' /\ (i \in Taken' => i \in Taken)
  BY <1>1, <1>2, <1>3, <1>5, Constants
     DEF ByIssue, Calm, Counted, CountOk, Owned, Ended, Untouched, AskedFor, DeclarationNow, Taken, Scan
<1>6. QED
  BY <1>1, <1>4, <1>5, IssueCounts

\* A recovery is admitted, or the Issue paused (AdmitRecovery).
LEMMA AdmitRecoveryCounts ==
    ASSUME LimitInv, NEW i \in Issues, AdmitRecovery(i)
    PROVE  LimitInv'
<1>1. /\ Typing /\ ByIssue(i) /\ Calm(i) /\ UNCHANGED <<wake, worker, irregular>>
      /\ \/ issue'[i] = issue[i]
         \/ issue'[i] = [issue[i] EXCEPT !.labels = issue[i].labels \union {"paused"}]
  BY AdmitRecoveryEffect DEF LimitInv
<1>2. This' = This /\ \A j \in Issues : InHand(j)' <=> InHand(j)
  BY <1>1, SameRun DEF ByIssue
<1>3. Counted(i)' => Counted(i) /\ CountOk(i)
  BY <1>1 DEF Calm, Counted, LimitInv
<1>4. /\ issue'[i].open = issue[i].open /\ issue'[i].pull = issue[i].pull
      /\ issue'[i].version = issue[i].version
      /\ issue'[i].labels \in {issue[i].labels, issue[i].labels \union {"paused"}}
  BY <1>1 DEF LimitInv, BacklogTypeOK, IssueType
<1>5. worker'[i].at = "ready" => ~ issue'[i].pull
  BY <1>1, <1>4 DEF LimitInv, NoPullYet
<1>6. ASSUME Counted(i)'
      PROVE  CountOk(i)' /\ (i \in Taken' => i \in Taken)
  BY <1>1, <1>2, <1>3, <1>4, <1>6, Constants
     DEF ByIssue, Calm, Counted, CountOk, Owned, Ended, Untouched, AskedFor, DeclarationNow, Taken, Scan
<1>7. QED
  BY <1>1, <1>5, <1>6, IssueCounts

\* The recovery is recorded as applied (ApplyRecovery).
LEMMA ApplyRecoveryCounts ==
    ASSUME LimitInv, NEW i \in Issues, ApplyRecovery(i)
    PROVE  LimitInv'
<1>1. /\ Typing /\ ByIssue(i) /\ Calm(i) /\ UNCHANGED <<issue, wake, worker, irregular>>
  BY ApplyRecoveryEffect DEF LimitInv
<1>2. This' = This /\ \A j \in Issues : InHand(j)' <=> InHand(j)
  BY <1>1, SameRun DEF ByIssue
<1>3. Counted(i)' => Counted(i) /\ CountOk(i)
  BY <1>1 DEF Calm, Counted, LimitInv
<1>4. worker'[i].at = "ready" => ~ issue'[i].pull
  BY <1>1 DEF LimitInv, NoPullYet
<1>5. ASSUME Counted(i)'
      PROVE  CountOk(i)' /\ (i \in Taken' => i \in Taken)
  BY <1>1, <1>2, <1>3, <1>5, Constants
     DEF ByIssue, Calm, Counted, CountOk, Owned, Ended, Untouched, AskedFor, DeclarationNow, Taken, Scan
<1>6. QED
  BY <1>1, <1>4, <1>5, IssueCounts

\* The recovery dies (LoseRecovery).
LEMMA LoseRecoveryCounts ==
    ASSUME LimitInv, NEW i \in Issues, LoseRecovery(i)
    PROVE  LimitInv'
<1>1. /\ Typing /\ ByIssue(i) /\ Calm(i) /\ UNCHANGED <<issue, governor, wake, irregular>> /\ UNCHANGED worker
  BY LoseRecoveryEffect DEF LimitInv
<1>2. This' = This /\ \A j \in Issues : InHand(j)' <=> InHand(j)
  BY <1>1, SameRun DEF ByIssue
<1>3. Counted(i)' => Counted(i) /\ CountOk(i)
  BY <1>1 DEF Calm, Counted, LimitInv
<1>4. worker'[i].at = "ready" => ~ issue'[i].pull
  BY <1>1 DEF LimitInv, NoPullYet
<1>5. ASSUME Counted(i)'
      PROVE  CountOk(i)' /\ (i \in Taken' => i \in Taken)
  BY <1>1, <1>2, <1>3, <1>5, Constants
     DEF ByIssue, Calm, Counted, CountOk, Owned, Ended, Untouched, AskedFor, DeclarationNow, Taken, Scan
<1>6. QED
  BY <1>1, <1>4, <1>5, IssueCounts

\* The pull request is merged (Land).
LEMMA LandCounts ==
    ASSUME LimitInv, NEW i \in Issues, Land(i)
    PROVE  LimitInv'
<1>1. /\ Typing /\ ByIssue(i) /\ Calm(i) /\ UNCHANGED <<governor, worker, irregular>> /\ wake' = {Scan}
      /\ issue'[i] = [issue[i] EXCEPT !.pull = FALSE, !.open = FALSE]
  BY LandEffect DEF LimitInv
<1>2. This' = This /\ \A j \in Issues : InHand(j)' <=> InHand(j)
  BY <1>1, SameRun DEF ByIssue
<1>3. Counted(i)' => Counted(i) /\ CountOk(i)
  BY <1>1 DEF Calm, Counted, LimitInv
<1>4. /\ issue'[i].labels = issue[i].labels /\ issue'[i].version = issue[i].version
      /\ ~ issue'[i].pull /\ ~ issue'[i].open
  BY <1>1 DEF LimitInv, BacklogTypeOK, IssueType
<1>5. worker'[i].at = "ready" => ~ issue'[i].pull
  BY <1>1, <1>4 DEF LimitInv, NoPullYet
<1>6. ASSUME Counted(i)'
      PROVE  CountOk(i)' /\ (i \in Taken' => i \in Taken)
  BY <1>1, <1>2, <1>3, <1>4, <1>6, Constants
     DEF ByIssue, Calm, Counted, CountOk, Owned, Ended, Untouched, AskedFor, DeclarationNow, Taken, Scan
<1>7. QED
  BY <1>1, <1>5, <1>6, IssueCounts

\* The pull request is closed (Abandon).
LEMMA AbandonCounts ==
    ASSUME LimitInv, NEW i \in Issues, Abandon(i)
    PROVE  LimitInv'
<1>1. /\ Typing /\ ByIssue(i) /\ Calm(i) /\ UNCHANGED <<governor, wake, worker, irregular>>
      /\ issue'[i] = [issue[i] EXCEPT !.pull = FALSE]
  BY AbandonEffect DEF LimitInv
<1>2. This' = This /\ \A j \in Issues : InHand(j)' <=> InHand(j)
  BY <1>1, SameRun DEF ByIssue
<1>3. Counted(i)' => Counted(i) /\ CountOk(i)
  BY <1>1 DEF Calm, Counted, LimitInv
<1>4. /\ issue'[i].labels = issue[i].labels /\ issue'[i].version = issue[i].version
      /\ ~ issue'[i].pull /\ issue'[i].open = issue[i].open
  BY <1>1 DEF LimitInv, BacklogTypeOK, IssueType
<1>5. worker'[i].at = "ready" => ~ issue'[i].pull
  BY <1>1, <1>4 DEF LimitInv, NoPullYet
<1>6. ASSUME Counted(i)'
      PROVE  CountOk(i)' /\ (i \in Taken' => i \in Taken)
  BY <1>1, <1>2, <1>3, <1>4, <1>6, Constants
     DEF ByIssue, Calm, Counted, CountOk, Owned, Ended, Untouched, AskedFor, DeclarationNow, Taken, Scan
<1>7. QED
  BY <1>1, <1>5, <1>6, IssueCounts

\* The Issue is closed or reopened (CloseOrReopen).
LEMMA CloseOrReopenCounts ==
    ASSUME LimitInv, NEW i \in Issues, CloseOrReopen(i)
    PROVE  LimitInv'
<1>1. /\ Typing /\ ByIssue(i) /\ Calm(i) /\ UNCHANGED <<governor, worker>> /\ wake' = {Scan}
      /\ issue'[i] = [issue[i] EXCEPT !.open = ~ issue[i].open]
      /\ ~ issue[i].open => "reopened" \in irregular'[i]
  BY CloseOrReopenEffect DEF LimitInv
<1>2. This' = This /\ \A j \in Issues : InHand(j)' <=> InHand(j)
  BY <1>1, SameRun DEF ByIssue
<1>3. Counted(i)' => Counted(i) /\ CountOk(i)
  BY <1>1 DEF Calm, Counted, LimitInv
<1>4. /\ issue'[i].labels = issue[i].labels /\ issue'[i].version = issue[i].version
      /\ issue'[i].pull = issue[i].pull /\ (issue'[i].open => ~ issue[i].open)
  BY <1>1 DEF LimitInv, BacklogTypeOK, IssueType
<1>5. worker'[i].at = "ready" => ~ issue'[i].pull
  BY <1>1, <1>4 DEF LimitInv, NoPullYet
<1>6. ASSUME Counted(i)'
      PROVE  CountOk(i)' /\ (i \in Taken' => i \in Taken)
  BY <1>1, <1>2, <1>3, <1>4, <1>6, Constants
     DEF ByIssue, Calm, Counted, CountOk, Owned, Ended, Untouched, AskedFor, DeclarationNow, Taken, Scan, Uncounted
<1>7. QED
  BY <1>1, <1>5, <1>6, IssueCounts

\* The recovery sets labels (Relabel).
LEMMA RelabelCounts ==
    ASSUME LimitInv, NEW i \in Issues, Relabel(i)
    PROVE  LimitInv'
<1>1. /\ Typing /\ ByIssue(i) /\ "relabelled" \in irregular'[i]
      /\ worker' = worker /\ issue'[i].pull = issue[i].pull
  BY RelabelEffect DEF LimitInv
<1>2. ~ Counted(i)'
  BY <1>1 DEF Counted, Uncounted
<1>3. worker'[i].at = "ready" => ~ issue'[i].pull
  BY <1>1 DEF LimitInv, NoPullYet
<1>4. QED
  BY <1>1, <1>2, <1>3, UncountedStep

\* A person asks for the Issue (AskFor).
LEMMA AskForCounts ==
    ASSUME LimitInv, NEW i \in Issues, AskFor(i)
    PROVE  LimitInv'
<1>1. /\ Typing /\ ByIssue(i) /\ "relabelled" \in irregular'[i]
      /\ worker' = worker /\ issue'[i].pull = issue[i].pull
  BY AskForEffect DEF LimitInv
<1>2. ~ Counted(i)'
  BY <1>1 DEF Counted, Uncounted
<1>3. worker'[i].at = "ready" => ~ issue'[i].pull
  BY <1>1 DEF LimitInv, NoPullYet
<1>4. QED
  BY <1>1, <1>2, <1>3, UncountedStep

\* A person takes a label (TakeLabel).
LEMMA TakeLabelCounts ==
    ASSUME LimitInv, NEW i \in Issues, TakeLabel(i)
    PROVE  LimitInv'
<1>1. /\ Typing /\ ByIssue(i) /\ "relabelled" \in irregular'[i]
      /\ worker' = worker /\ issue'[i].pull = issue[i].pull
  BY TakeLabelEffect DEF LimitInv
<1>2. ~ Counted(i)'
  BY <1>1 DEF Counted, Uncounted
<1>3. worker'[i].at = "ready" => ~ issue'[i].pull
  BY <1>1 DEF LimitInv, NoPullYet
<1>4. QED
  BY <1>1, <1>2, <1>3, UncountedStep

\* A capacity wait is dispatched again (ResumeCapacity).
LEMMA ResumeCapacityCounts ==
    ASSUME LimitInv, NEW i \in Issues, ResumeCapacity(i)
    PROVE  LimitInv'
<1>1. /\ Typing /\ ByIssue(i) /\ UNCHANGED <<issue, governor, wake, worker, irregular>>
  BY ResumeCapacityEffect DEF LimitInv
<1>2. This' = This /\ \A j \in Issues : InHand(j)' <=> InHand(j)
  BY <1>1, SameRun DEF ByIssue
<1>3. Counted(i)' => Counted(i) /\ CountOk(i)
  BY <1>1 DEF Counted, LimitInv
<1>4. worker'[i].at = "ready" => ~ issue'[i].pull
  BY <1>1 DEF LimitInv, NoPullYet
<1>5. ASSUME Counted(i)'
      PROVE  CountOk(i)' /\ (i \in Taken' => i \in Taken)
  BY <1>1, <1>2, <1>3, <1>5, Constants
     DEF ByIssue, Calm, Counted, CountOk, Owned, Ended, Untouched, AskedFor, DeclarationNow, Taken, Scan
<1>6. QED
  BY <1>1, <1>4, <1>5, IssueCounts

\* A person answers the pause (Resume).
LEMMA ResumeCounts ==
    ASSUME LimitInv, NEW i \in Issues, Resume(i)
    PROVE  LimitInv'
<1>1. /\ Typing /\ ByIssue(i) /\ UNCHANGED <<wake, worker>> /\ irregular[i] \subseteq irregular'[i]
      /\ governor'[i].attested = governor[i].attested
      /\ issue'[i] = [issue[i] EXCEPT !.labels = issue[i].labels \ {"paused"}]
  BY ResumeEffect DEF LimitInv
<1>2. This' = This /\ \A j \in Issues : InHand(j)' <=> InHand(j)
  BY <1>1, SameRun DEF ByIssue
<1>3. Counted(i)' => Counted(i) /\ CountOk(i)
  BY <1>1 DEF Counted, LimitInv
<1>4. /\ issue'[i].open = issue[i].open /\ issue'[i].pull = issue[i].pull
      /\ issue'[i].version = issue[i].version
      /\ issue'[i].labels = issue[i].labels \ {"paused"}
  BY <1>1 DEF LimitInv, BacklogTypeOK, IssueType
<1>5. worker'[i].at = "ready" => ~ issue'[i].pull
  BY <1>1, <1>4 DEF LimitInv, NoPullYet
<1>6. ASSUME Counted(i)'
      PROVE  CountOk(i)' /\ (i \in Taken' => i \in Taken)
  BY <1>1, <1>2, <1>3, <1>4, <1>6, Constants
     DEF ByIssue, Calm, Counted, CountOk, Owned, Ended, Untouched, AskedFor, DeclarationNow, Taken, Scan, Uncounted
<1>7. QED
  BY <1>1, <1>5, <1>6, IssueCounts

\* The Issue is edited (Edit).
LEMMA EditCounts ==
    ASSUME LimitInv, NEW i \in Issues, Edit(i)
    PROVE  LimitInv'
<1>1. /\ Typing /\ ByIssue(i) /\ UNCHANGED <<governor, worker>> /\ wake' = {Scan}
      /\ irregular[i] \subseteq irregular'[i]
      /\ issue'[i] = [issue[i] EXCEPT !.version = issue'[i].version]
      /\ DeclarationOf[issue'[i].version].declares # "work" => "undeclared" \in irregular'[i]
  BY EditEffect DEF LimitInv
<1>2. This' = This /\ \A j \in Issues : InHand(j)' <=> InHand(j)
  BY <1>1, SameRun DEF ByIssue
<1>3. Counted(i)' => Counted(i) /\ CountOk(i)
  BY <1>1 DEF Counted, LimitInv
<1>4. /\ issue'[i].open = issue[i].open /\ issue'[i].pull = issue[i].pull
      /\ issue'[i].labels = issue[i].labels
  BY <1>1 DEF LimitInv, BacklogTypeOK, IssueType
<1>5. worker'[i].at = "ready" => ~ issue'[i].pull
  BY <1>1, <1>4 DEF LimitInv, NoPullYet
<1>6. ASSUME Counted(i)'
      PROVE  CountOk(i)' /\ (i \in Taken' => i \in Taken)
  BY <1>1, <1>2, <1>3, <1>4, <1>6, Constants
     DEF ByIssue, Calm, Counted, CountOk, Owned, Ended, Untouched, AskedFor, DeclarationNow, Taken, Scan, Uncounted
<1>7. QED
  BY <1>1, <1>5, <1>6, IssueCounts

\* What is below a bound in the order of a set is no more than the bound.
LEMMA FirstOnes ==
    ASSUME NEW S, S \subseteq Nat, IsFiniteSet(S), NEW n \in Nat, NEW T, T \subseteq S,
           \A i \in T : Cardinality({j \in S : j < i}) < n
    PROVE  IsFiniteSet(T) /\ Cardinality(T) <= n
<1> DEFINE Below(i) == {j \in S : j < i}
           rank == [i \in T |-> Cardinality(Below(i))]
<1>1. ASSUME NEW i \in S PROVE IsFiniteSet(Below(i)) /\ Cardinality(Below(i)) \in Nat
  <2>1. Below(i) \in SUBSET S
    OBVIOUS
  <2> HIDE DEF Below
  <2>2. IsFiniteSet(Below(i))
    BY <2>1, FS_Subset
  <2>3. QED
    BY <2>2, FS_CardinalityType
<1>2. ASSUME NEW i \in S, NEW k \in S, i < k
      PROVE  Cardinality(Below(i)) < Cardinality(Below(k))
  <2>1. Below(i) \union {i} \in SUBSET Below(k) /\ i \notin Below(i)
    <3>1. i \in Nat /\ k \in Nat /\ \A j \in S : j \in Nat
      OBVIOUS
    <3>2. \A j \in S : j < i => j < k
      BY <1>2, <3>1
    <3>3. i \notin Below(i)
      BY <3>1
    <3>4. QED
      BY <1>2, <3>2, <3>3
  <2> HIDE DEF Below
  <2>2. Cardinality(Below(i) \union {i}) = Cardinality(Below(i)) + 1
    BY <1>1, <2>1, FS_AddElement
  <2>3. Cardinality(Below(i) \union {i}) <= Cardinality(Below(k))
    BY <1>1, <2>1, FS_Subset
  <2>4. QED
    BY <1>1, <2>2, <2>3
<1>3. \A i \in T : Cardinality(Below(i)) \in 0 .. n - 1
  <2>1. \A i \in T : Cardinality(Below(i)) < n
    OBVIOUS
  <2> HIDE DEF Below
  <2>2. QED
    BY <1>1, <2>1
<1>4. rank \in Injection(T, 0 .. n - 1)
  <2>1. ASSUME NEW i \in T, NEW k \in T, i # k PROVE Cardinality(Below(i)) # Cardinality(Below(k))
    <3>1. i < k \/ k < i
      BY <2>1
    <3> HIDE DEF Below
    <3>2. Cardinality(Below(i)) \in Nat /\ Cardinality(Below(k)) \in Nat
      BY <1>1
    <3>3. QED
      BY <1>2, <3>1, <3>2
  <2> HIDE DEF Below
  <2>2. QED
    BY <1>3, <2>1 DEF Injection, IsInjective
<1> HIDE DEF rank
<1>5. IsFiniteSet(0 .. n - 1) /\ Cardinality(0 .. n - 1) = n
  BY FS_Interval
<1>6. QED
  BY <1>4, <1>5, FS_Injection

\* Runs of the same members have the same at hand.
LEMMA SameTodo ==
    ASSUME run'.todo = run.todo
    PROVE  /\ Member' = Member /\ This' = This /\ Seen' = Seen
           /\ \A i \in Issues : InHand(i)' <=> InHand(i)
<1>1. Member' = Member
  BY DEF Member
<1>2. QED
  BY <1>1 DEF This, Seen, InHand

\* A run that goes on with the next member, or dies, has left this one.
LEMMA Leaves ==
    ASSUME BacklogTypeOK, RunOk, run.at \notin {"idle", "reading"}, run' \in {NextMember, Idle}
    PROVE  /\ run'.at \in {"idle", "deciding"}
           /\ \A j \in Issues : InHand(j)' => InHand(j) /\ j # This
<1>1. CASE run' = NextMember
  <2>1. /\ run'.todo = run.todo \ {Member}
        /\ run'.at = IF run'.todo = {} THEN "idle" ELSE "deciding"
    BY <1>1, NextRun
  <2>2. \A m \in run.todo : m.number = This => m = Member
    BY AtHand
  <2>3. QED
    BY <2>1, <2>2 DEF InHand
<1>2. CASE run' = Idle
  BY <1>2, Typed DEF InHand
<1>3. QED
  BY <1>1, <1>2

\* A step of a run leaves the Issues that it does not have at hand.
LEMMA OtherMembers ==
    ASSUME LimitInv, run.at \notin {"idle", "reading"}, NEW j \in Issues, j # This,
           run'.at # "reading", run'.at \in Labelled => This' = This,
           InHand(j)' => InHand(j), j \in wake' => j \in wake,
           issue'[j] = issue[j], worker'[j] = worker[j],
           governor'[j].attested = governor[j].attested,
           irregular'[j] \cap Uncounted = irregular[j] \cap Uncounted
    PROVE  /\ Counted(j)' => CountOk(j)'
           /\ j \in Taken' => j \in Taken
<1>1. Counted(j)' <=> Counted(j)
  BY DEF Counted
<1>2. Counted(j) => CountOk(j)
  BY DEF LimitInv
<1>3. /\ Owned(j)' <=> Owned(j)
      /\ Ended(j)' <=> Ended(j)
      /\ Untouched(j)' <=> Untouched(j)
      /\ DeclarationNow(j)' = DeclarationNow(j)
      /\ AskedFor(j)' => AskedFor(j)
  BY DEF Owned, Ended, Untouched, DeclarationNow, AskedFor
<1>4. QED
  BY <1>1, <1>2, <1>3 DEF CountOk, Taken

\* A run reads the pull requests (Start).
LEMMA StartCounts ==
    ASSUME LimitInv, Start
    PROVE  LimitInv'
<1>1. Typing
  BY StartTyped DEF LimitInv
<1>2. PICK target \in wake :
        run' = [Idle EXCEPT !.at = "reading", !.target = target,
                            !.pulls = {i \in Issues : issue[i].pull}]
  BY DEF Start
<1>3. /\ run'.at = "reading" /\ run'.target = target /\ run'.todo = {}
      /\ run'.pulls = {i \in Issues : issue[i].pull}
  BY <1>2, Typed DEF Idle
<1>4. run.todo = {} /\ wake' = {} /\ UNCHANGED <<issue, governor, worker, irregular>>
  BY DEF Start, LimitInv, RunOk, ofWorker
<1>5. ASSUME NEW j \in Issues
      PROVE  (Counted(j)' => CountOk(j)') /\ (j \in Taken' => j \in Taken)
  <2>1. ~ InHand(j) /\ ~ InHand(j)'
    BY <1>3, <1>4 DEF InHand
  <2>2. (Counted(j)' <=> Counted(j)) /\ (Counted(j) => CountOk(j))
    BY <1>4 DEF Counted, LimitInv
  <2>3. /\ (Owned(j)' <=> Owned(j)) /\ (Ended(j)' <=> Ended(j)) /\ (Untouched(j)' <=> Untouched(j))
        /\ DeclarationNow(j)' = DeclarationNow(j)
    BY <1>4 DEF Owned, Ended, Untouched, DeclarationNow
  <2>4. AskedFor(j)' => AskedFor(j)
    BY <1>2, <1>3, <1>4 DEF AskedFor
  <2>5. QED
    BY <1>3, <1>4, <2>1, <2>2, <2>3, <2>4 DEF CountOk, Taken
<1>6. NoPullYet'
  BY <1>4 DEF LimitInv, NoPullYet
<1>7. QED
  BY <1>1, <1>5, <1>6, NoPlaceTaken

\* The places taken when a run selects are those it counts.
LEMMA TakenIsActive ==
    ASSUME LimitInv, run.at = "reading"
    PROVE  Taken \subseteq Active(run.pulls)
<1>1. ASSUME NEW i \in Taken PROVE i \in Active(run.pulls)
  <2>1. ~ InHand(i)
    BY DEF LimitInv, RunOk, InHand
  <2>2. CountOk(i) /\ i \in Issues /\ issue[i].open /\ (Owned(i) \/ issue[i].pull)
    BY <2>1 DEF LimitInv, Taken
  <2>3. QED
    BY <2>2 DEF CountOk, Active, Owned
<1>2. QED
  BY <1>1

\* A batch fits in what the limit leaves.
LEMMA BatchFits ==
    ASSUME NEW pulls, SelectBatch(pulls) # {}
    PROVE  /\ IsFiniteSet(Active(pulls)) /\ IsFiniteSet(SelectBatch(pulls))
           /\ Cardinality(Active(pulls) \union SelectBatch(pulls)) <= Limit
<1> DEFINE ready == {i \in Issues : Selectable(i, pulls, FALSE)}
           active == Active(pulls)
           batch == SelectBatch(pulls)
           room == Limit - Cardinality(active)
<1>1. ready \in SUBSET Issues /\ active \in SUBSET Issues
  BY DEF Active
<1>2. batch \subseteq ready /\ \A i \in batch : Cardinality({j \in ready : j < i}) < room
  BY DEF SelectBatch
<1> HIDE DEF ready, active, batch
<1>3. IsFiniteSet(ready) /\ ready \subseteq Nat /\ IsFiniteSet(active)
  BY <1>1, Constants, FS_Subset
<1>4. Cardinality(active) \in Nat /\ Limit \in Nat
  BY <1>3, FS_CardinalityType, Constants
<1>5. room \in Nat
  <2>1. PICK i \in batch : TRUE
    BY DEF batch
  <2>2. {j \in ready : j < i} \in SUBSET ready
    OBVIOUS
  <2>3. Cardinality({j \in ready : j < i}) \in Nat
    BY <1>3, <2>2, FS_Subset, FS_CardinalityType
  <2>4. Cardinality({j \in ready : j < i}) < room
    BY <1>2, <2>1
  <2>5. QED
    BY <1>4, <2>3, <2>4
<1> HIDE DEF room
<1>6. IsFiniteSet(batch) /\ Cardinality(batch) <= room
  BY <1>2, <1>3, <1>5, FirstOnes
<1>7. /\ Cardinality(active \union batch) =
            Cardinality(active) + Cardinality(batch) - Cardinality(active \cap batch)
      /\ Cardinality(active \cap batch) \in Nat /\ Cardinality(batch) \in Nat
  <2>1. active \cap batch \in SUBSET active
    OBVIOUS
  <2>2. IsFiniteSet(active \cap batch)
    BY <1>3, <2>1, FS_Subset
  <2>3. QED
    BY <1>3, <1>6, <2>2, FS_Union, FS_CardinalityType
<1>8. Cardinality(active \union batch) <= Limit
  BY <1>4, <1>6, <1>7 DEF room
<1>9. QED
  BY <1>3, <1>6, <1>8 DEF active, batch

\* An Issue that is asked for fits in what the limit leaves.
LEMMA RequestedFits ==
    ASSUME NEW pulls, NEW i \in Issues, SelectRequested(i, pulls) # {}
    PROVE  /\ IsFiniteSet(Active(pulls)) /\ SelectRequested(i, pulls) = {i}
           /\ Cardinality(Active(pulls) \union {i}) <= Limit
<1> DEFINE others == Active(pulls) \ {i}
<1>1. SelectRequested(i, pulls) = {i} /\ Cardinality(others) < Limit
  BY DEF SelectRequested
<1>2. others \in SUBSET Issues /\ Active(pulls) \in SUBSET Issues
      /\ Active(pulls) \union {i} = others \union {i} /\ i \notin others
  BY DEF Active
<1> HIDE DEF others
<1>3. IsFiniteSet(others) /\ IsFiniteSet(Active(pulls))
  BY <1>2, Constants, FS_Subset
<1>4. Cardinality(others \union {i}) = Cardinality(others) + 1 /\ Cardinality(others) \in Nat
  BY <1>2, <1>3, FS_AddElement, FS_CardinalityType
<1>5. QED
  BY <1>1, <1>2, <1>3, <1>4, Constants

\* The work is selected (Select).
LEMMA SelectCounts ==
    ASSUME LimitInv, Select
    PROVE  LimitInv'
<1> DEFINE chosen == IF run.target = Scan THEN SelectBatch(run.pulls)
                     ELSE SelectRequested(run.target, run.pulls)
           members == {[number |-> i, version |-> issue[i].version] : i \in chosen}
<1>1. Typing
  BY SelectTyped DEF LimitInv
<1>2. /\ run.at = "reading" /\ run.todo = {}
      /\ UNCHANGED <<issue, governor, worker, wake, irregular>>
  BY DEF Select, LimitInv, RunOk, ofWorker
<1>3. run' = IF chosen = {} THEN Idle
             ELSE [run EXCEPT !.at = "base", !.pulls = {}, !.todo = members]
  BY DEF Select
<1>4. \A i \in chosen :
          /\ i \in Issues /\ issue[i].labels \cap {"failed", "blocked", "paused"} = {}
          /\ DeclarationNow(i).declares = "work"
          /\ "dsh" \in issue[i].labels => i = run.target
  <2>1. CASE run.target = Scan
    BY <2>1 DEF SelectBatch, Selectable
  <2>2. CASE run.target # Scan
    <3>1. run.target \in Issues
      BY <2>2 DEF LimitInv, BacklogTypeOK, RunType
    <3>2. QED
      BY <2>2, <3>1 DEF SelectRequested, Selectable
  <2>3. QED
    BY <2>1, <2>2
<1>5. chosen # {} => Cardinality(Active(run.pulls) \union chosen) <= Limit
                     /\ IsFiniteSet(Active(run.pulls) \union chosen)
  <2>1. CASE run.target = Scan /\ chosen # {}
    BY <2>1, BatchFits, FS_Union
  <2>2. CASE run.target # Scan /\ chosen # {}
    <3>1. run.target \in Issues
      BY <2>2 DEF LimitInv, BacklogTypeOK, RunType
    <3>2. chosen = {run.target} /\ Cardinality(Active(run.pulls) \union {run.target}) <= Limit
          /\ IsFiniteSet(Active(run.pulls))
      BY <2>2, <3>1, RequestedFits
    <3>3. QED
      BY <3>2, FS_AddElement
  <2>3. QED
    BY <2>1, <2>2
<1> HIDE DEF chosen
<1>6. /\ run'.at = IF chosen = {} THEN "idle" ELSE "base"
      /\ \A i \in Issues : InHand(i)' <=> i \in chosen
  <2>1. CASE chosen = {}
    BY <1>3, <2>1, Typed DEF InHand
  <2>2. CASE chosen # {}
    <3>1. run'.at = "base" /\ run'.todo = members
      BY <1>3, <2>2 DEF LimitInv, BacklogTypeOK, RunType
    <3>2. \A i \in Issues : (\E m \in members : m.number = i) <=> i \in chosen
      <4>1. ASSUME NEW i \in Issues, i \in chosen PROVE \E m \in members : m.number = i
        <5>1. [number |-> i, version |-> issue[i].version] \in members
          BY <4>1
        <5> HIDE DEF members
        <5>2. QED
          BY <5>1
      <4>2. \A m \in members : m.number \in chosen
        OBVIOUS
      <4> HIDE DEF members
      <4>3. QED
        BY <4>1, <4>2
    <3> HIDE DEF members
    <3>3. QED
      BY <2>2, <3>1, <3>2 DEF InHand
  <2>3. QED
    BY <2>1, <2>2
<1> HIDE DEF members
<1>7. \A i \in Issues : ~ InHand(i)
  BY <1>2 DEF InHand
<1>8. ASSUME NEW i \in Issues
      PROVE  Counted(i)' => CountOk(i)'
  <2>1. (Counted(i)' <=> Counted(i)) /\ (Counted(i) => CountOk(i))
    BY <1>2 DEF Counted, LimitInv
  <2>2. /\ (Owned(i)' <=> Owned(i)) /\ (Ended(i)' <=> Ended(i)) /\ (Untouched(i)' <=> Untouched(i))
        /\ DeclarationNow(i)' = DeclarationNow(i)
    BY <1>2 DEF Owned, Ended, Untouched, DeclarationNow
  <2>3. (AskedFor(i)' => AskedFor(i) /\ i \in wake) /\ (run.target = i => AskedFor(i))
    BY <1>2, <1>6 DEF AskedFor
  <2>4. i \in chosen => ~ Ended(i) /\ (Owned(i) => AskedFor(i)) /\ DeclarationNow(i).declares = "work"
    BY <1>4, <2>3 DEF Ended, Owned
  <2>5. run'.at \notin Labelled /\ run'.at # "reading"
    BY <1>6 DEF Labelled
  <2>6. QED
    BY <1>2, <1>6, <1>7, <2>1, <2>2, <2>3, <2>4, <2>5 DEF CountOk
<1>9. NoPullYet'
  BY <1>2 DEF LimitInv, NoPullYet
<1>10. CASE chosen = {}
  <2>1. \A i \in Issues : i \in Taken' => i \in Taken
    BY <1>2, <1>6, <1>7, <1>10 DEF Taken, Counted, Owned
  <2>2. QED
    BY <1>1, <1>8, <1>9, <2>1, NoPlaceTaken
<1>11. CASE chosen # {}
  <2>1. Taken' \in SUBSET (Active(run.pulls) \union chosen)
    <3>1. \A i \in Taken' : i \in Taken \/ i \in chosen
      BY <1>2, <1>6 DEF Taken, Counted, Owned
    <3>2. QED
      BY <1>2, <3>1, TakenIsActive
  <2>2. /\ Cardinality(Taken') <= Cardinality(Active(run.pulls) \union chosen)
        /\ IsFiniteSet(Taken')
    BY <1>5, <1>11, <2>1, FS_Subset
  <2>3. /\ Cardinality(Taken') \in Nat /\ Limit \in Nat
        /\ Cardinality(Active(run.pulls) \union chosen) \in Nat
    BY <1>5, <1>11, <2>2, FS_CardinalityType, Constants
  <2>4. Cardinality(Taken') <= Limit
    BY <1>5, <1>11, <2>2, <2>3
  <2>5. Cardinality(Taken)' <= Limit
    BY <2>4
  <2>6. QED
    BY <1>1, <1>8, <1>9, <2>5 DEF LimitInv, Typing
<1>12. QED
  BY <1>10, <1>11

\* A step of a run keeps the limit if it keeps the Issue at hand in the count.
LEMMA RunCounts ==
    ASSUME LimitInv, Typing, NEW i \in Issues, i = This,
           run.at \notin {"idle", "reading"}, run'.at # "reading",
           run'.at \in Labelled => This' = This,
           UNCHANGED worker, issue'[i].pull = issue[i].pull,
           \A j \in Issues : InHand(j)' => InHand(j),
           \A j \in Issues \ {i} :
               /\ j \in wake' => j \in wake
               /\ issue'[j] = issue[j] /\ governor'[j].attested = governor[j].attested
               /\ irregular'[j] \cap Uncounted = irregular[j] \cap Uncounted,
           Counted(i)' => CountOk(i)' /\ (i \in Taken' => i \in Taken)
    PROVE  LimitInv'
<1>1. \A j \in Issues \ {i} : (Counted(j)' => CountOk(j)') /\ (j \in Taken' => j \in Taken)
  BY OtherMembers
<1>2. NoPullYet'
  BY DEF LimitInv, NoPullYet
<1>3. \A j \in Issues : j \in Taken' => Counted(j)'
  BY DEF Taken
<1>4. \A j \in Issues : (Counted(j)' => CountOk(j)') /\ (j \in Taken' => j \in Taken)
  BY <1>1, <1>3
<1>5. QED
  BY <1>2, <1>4, NoPlaceTaken

\* The run reads the head of the default branch (ReadBase).
LEMMA ReadBaseCounts ==
    ASSUME LimitInv, ReadBase
    PROVE  LimitInv'
<1>1. Typing
  BY ReadBaseTyped DEF LimitInv
<1>2. run.at \notin {"idle", "reading"}
  BY DEF ReadBase
<1>3. PICK i \in Issues : i = This
  BY <1>2, AtHand DEF LimitInv
<1>4. InHand(i) /\ (Counted(i) => CountOk(i))
  BY <1>2, <1>3, AtHand DEF LimitInv
<1>5. UNCHANGED <<issue, governor, wake, worker, irregular>>
  BY <1>1, <1>2, <1>3, Constants DEF ReadBase, ofWorker
<1>6. /\ run.at = "base" /\ run'.at = "deciding" /\ This' = This
      /\ \A j \in Issues : InHand(j)' <=> InHand(j)
  <2>1. run.at = "base" /\ run'.at = "deciding" /\ run'.todo = run.todo
    BY DEF ReadBase, LimitInv, BacklogTypeOK, RunType
  <2>2. QED
    BY <2>1, SameTodo
<1>7. ASSUME Counted(i)' PROVE CountOk(i)' /\ (i \in Taken' => i \in Taken)
  <2>1. Counted(i) /\ CountOk(i)
    BY <1>4, <1>5, <1>7 DEF Counted
  <2>2. QED
    BY <1>3, <1>4, <1>5, <1>6, <2>1, Constants
       DEF Counted, CountOk, Owned, Ended, Untouched, AskedFor, DeclarationNow, Taken, Labelled
<1>8. QED
  BY <1>1, <1>2, <1>3, <1>5, <1>6, <1>7, RunCounts DEF Labelled

\* The run asks for another look at the Issue (Observe).
LEMMA ObserveCounts ==
    ASSUME LimitInv, Observe
    PROVE  LimitInv'
<1>1. Typing
  BY ObserveTyped DEF LimitInv
<1>2. run.at \notin {"idle", "reading"}
  BY DEF Observe
<1>3. PICK i \in Issues : i = This
  BY <1>2, AtHand DEF LimitInv
<1>4. InHand(i) /\ (Counted(i) => CountOk(i))
  BY <1>2, <1>3, AtHand DEF LimitInv
<1>5. UNCHANGED <<issue, governor, worker, irregular>> /\ wake' = {i}
  BY <1>1, <1>2, <1>3, Constants DEF Observe, ofWorker
<1>6. /\ run.at = "observing" /\ run'.at \in {"idle", "deciding"}
      /\ \A j \in Issues : InHand(j)' => InHand(j) /\ j # i
  BY <1>2, <1>3, Leaves DEF Observe, LimitInv
<1>7. ASSUME Counted(i)' PROVE CountOk(i)' /\ (i \in Taken' => i \in Taken)
  <2>1. Counted(i) /\ CountOk(i)
    BY <1>4, <1>5, <1>7 DEF Counted
  <2>2. QED
    BY <1>3, <1>4, <1>5, <1>6, <2>1, Constants
       DEF Counted, CountOk, Owned, Ended, Untouched, AskedFor, DeclarationNow, Taken, Labelled
<1>8. QED
  BY <1>1, <1>2, <1>3, <1>5, <1>6, <1>7, RunCounts DEF Labelled

\* The run labels the Issue (AddLabel).
LEMMA AddLabelCounts ==
    ASSUME LimitInv, AddLabel
    PROVE  LimitInv'
<1>1. Typing
  BY AddLabelTyped DEF LimitInv
<1>2. run.at \notin {"idle", "reading"}
  BY DEF AddLabel
<1>3. PICK i \in Issues : i = This
  BY <1>2, AtHand DEF LimitInv
<1>4. InHand(i) /\ (Counted(i) => CountOk(i))
  BY <1>2, <1>3, AtHand DEF LimitInv
<1>5. /\ UNCHANGED <<governor, wake, worker, irregular>>
      /\ \A j \in Issues \ {i} : issue'[j] = issue[j]
      /\ issue'[i].open = issue[i].open /\ issue'[i].pull = issue[i].pull
      /\ issue'[i].version = issue[i].version
      /\ issue'[i].labels = issue[i].labels \union {"dsh"}
  <2>1. UNCHANGED <<governor, wake, worker, irregular>>
        /\ issue' = [issue EXCEPT ![i].labels = issue[i].labels \union {"dsh"}]
    BY <1>3 DEF AddLabel, ofWorker
  <2>2. issue \in [Issues -> IssueType] /\ issue[i] \in IssueType
    BY DEF LimitInv, BacklogTypeOK
  <2>3. QED
    BY <2>1, <2>2 DEF IssueType
<1>6. /\ run.at = "labelling" /\ run'.at = "posting" /\ This' = This
      /\ \A j \in Issues : InHand(j)' <=> InHand(j)
  <2>1. run.at = "labelling" /\ run'.at = "posting" /\ run'.todo = run.todo
    BY DEF AddLabel, LimitInv, BacklogTypeOK, RunType
  <2>2. QED
    BY <2>1, SameTodo
<1>7. ASSUME Counted(i)' PROVE CountOk(i)' /\ (i \in Taken' => i \in Taken)
  <2>1. Counted(i) /\ CountOk(i)
    BY <1>4, <1>5, <1>7 DEF Counted
  <2>2. QED
    BY <1>3, <1>4, <1>5, <1>6, <2>1, Constants
       DEF Counted, CountOk, Owned, Ended, Untouched, AskedFor, DeclarationNow, Taken, Labelled
<1>8. QED
  BY <1>1, <1>2, <1>3, <1>5, <1>6, <1>7, RunCounts DEF Labelled

\* The run takes its label back (Clean).
LEMMA CleanCounts ==
    ASSUME LimitInv, Clean
    PROVE  LimitInv'
<1>1. Typing
  BY CleanTyped DEF LimitInv
<1>2. run.at \notin {"idle", "reading"}
  BY DEF Clean
<1>3. PICK i \in Issues : i = This
  BY <1>2, AtHand DEF LimitInv
<1>4. InHand(i) /\ (Counted(i) => CountOk(i))
  BY <1>2, <1>3, AtHand DEF LimitInv
<1>5. /\ UNCHANGED <<governor, wake, worker, irregular>>
      /\ \A j \in Issues \ {i} : issue'[j] = issue[j]
      /\ issue'[i].open = issue[i].open /\ issue'[i].pull = issue[i].pull
      /\ issue'[i].version = issue[i].version
      /\ issue'[i].labels = issue[i].labels \ {"dsh"}
  <2>1. UNCHANGED <<governor, wake, worker, irregular>>
        /\ issue' = [issue EXCEPT ![i].labels = issue[i].labels \ {"dsh"}]
    BY <1>3 DEF Clean, ofWorker
  <2>2. issue \in [Issues -> IssueType] /\ issue[i] \in IssueType
    BY DEF LimitInv, BacklogTypeOK
  <2>3. QED
    BY <2>1, <2>2 DEF IssueType
<1>6. /\ run.at = "cleaning" /\ run'.at \in {"idle", "deciding"}
      /\ \A j \in Issues : InHand(j)' => InHand(j) /\ j # i
  BY <1>2, <1>3, Leaves DEF Clean, LimitInv
<1>7. ASSUME Counted(i)' PROVE CountOk(i)' /\ (i \in Taken' => i \in Taken)
  <2>1. Counted(i) /\ CountOk(i)
    BY <1>4, <1>5, <1>7 DEF Counted
  <2>2. QED
    BY <1>3, <1>4, <1>5, <1>6, <2>1, Constants
       DEF Counted, CountOk, Owned, Ended, Untouched, AskedFor, DeclarationNow, Taken, Labelled
<1>8. QED
  BY <1>1, <1>2, <1>3, <1>5, <1>6, <1>7, RunCounts DEF Labelled

\* The run posts the request (Post).
LEMMA PostCounts ==
    ASSUME LimitInv, Post
    PROVE  LimitInv'
<1>1. Typing
  BY PostTyped DEF LimitInv
<1>2. run.at \notin {"idle", "reading"}
  BY DEF Post
<1>3. PICK i \in Issues : i = This
  BY <1>2, AtHand DEF LimitInv
<1>4. InHand(i) /\ (Counted(i) => CountOk(i))
  BY <1>2, <1>3, AtHand DEF LimitInv
<1>5. /\ UNCHANGED <<issue, governor, wake, worker>>
      /\ \A j \in Issues : irregular'[j] \cap Uncounted = irregular[j] \cap Uncounted
  <2>1. irregular' = irregular \/ irregular' = [irregular EXCEPT ![i] = irregular[i] \union {"unrecorded"}]
    BY <1>3 DEF Post
  <2>2. irregular \in [Issues -> SUBSET (Uncounted \union Repeatable)]
    BY DEF LimitInv, BacklogTypeOK
  <2>3. \A j \in Issues : irregular'[j] \cap Uncounted = irregular[j] \cap Uncounted
    BY <2>1, <2>2 DEF Uncounted
  <2>4. QED
    BY <2>3 DEF Post
<1>6. /\ run.at = "posting" /\ run'.at \in {"recording", "cleaning"} /\ This' = This
      /\ \A j \in Issues : InHand(j)' <=> InHand(j)
  <2>1. run.at = "posting" /\ run'.at \in {"recording", "cleaning"} /\ run'.todo = run.todo
    BY DEF Post, LimitInv, BacklogTypeOK, RunType
  <2>2. QED
    BY <2>1, SameTodo
<1>7. ASSUME Counted(i)' PROVE CountOk(i)' /\ (i \in Taken' => i \in Taken)
  <2>1. Counted(i) /\ CountOk(i)
    BY <1>4, <1>5, <1>7 DEF Counted
  <2>2. QED
    BY <1>3, <1>4, <1>5, <1>6, <2>1, Constants
       DEF Counted, CountOk, Owned, Ended, Untouched, AskedFor, DeclarationNow, Taken, Labelled
<1>8. QED
  BY <1>1, <1>2, <1>3, <1>5, <1>6, <1>7, RunCounts DEF Labelled

\* The run records the work as applied (Record).
LEMMA RecordCounts ==
    ASSUME LimitInv, Record
    PROVE  LimitInv'
<1>1. Typing
  BY RecordTyped DEF LimitInv
<1>2. run.at \notin {"idle", "reading"}
  BY DEF Record
<1>3. PICK i \in Issues : i = This
  BY <1>2, AtHand DEF LimitInv
<1>4. InHand(i) /\ (Counted(i) => CountOk(i))
  BY <1>2, <1>3, AtHand DEF LimitInv
<1>5. /\ UNCHANGED <<issue, wake, worker, irregular>>
      /\ \A j \in Issues \ {i} : governor'[j].attested = governor[j].attested
  <2>1. \A j \in Issues : WithStage("applied")[j].attested = governor[j].attested
    BY <1>2, StageTyped DEF LimitInv
  <2>2. WithStage("applied") \in [Issues -> [epoch : EpochType, attested : SUBSET Versions]]
    BY <1>2, StageTyped DEF LimitInv
  <2>3. governor' = [WithStage("applied") EXCEPT ![i].attested = @ \union {Seen}]
    BY <1>3 DEF Record
  <2>4. \A j \in Issues \ {i} : governor'[j] = WithStage("applied")[j]
    BY <2>2, <2>3
  <2>5. QED
    BY <2>1, <2>4 DEF Record, ofWorker
<1>6. /\ run.at = "recording" /\ run'.at \in {"idle", "deciding"}
      /\ \A j \in Issues : InHand(j)' => InHand(j) /\ j # i
  BY <1>2, <1>3, Leaves DEF Record, LimitInv
<1>7. ASSUME Counted(i)' PROVE CountOk(i)' /\ (i \in Taken' => i \in Taken)
  <2>1. Counted(i) /\ CountOk(i)
    BY <1>4, <1>5, <1>7 DEF Counted
  <2>2. QED
    BY <1>3, <1>4, <1>5, <1>6, <2>1, Constants
       DEF Counted, CountOk, Owned, Ended, Untouched, AskedFor, DeclarationNow, Taken, Labelled
<1>8. QED
  BY <1>1, <1>2, <1>3, <1>5, <1>6, <1>7, RunCounts DEF Labelled

\* The Governor decides on the state that was read (Decide).
LEMMA DecideCounts ==
    ASSUME LimitInv, Decide
    PROVE  LimitInv'
<1>1. Typing
  BY DecideTyped DEF LimitInv
<1>2. run.at \notin {"idle", "reading"}
  BY DEF Decide
<1>3. PICK i \in Issues : i = This
  BY <1>2, AtHand DEF LimitInv
<1>4. InHand(i) /\ (Counted(i) => CountOk(i))
  BY <1>2, <1>3, AtHand DEF LimitInv
<1>5. /\ UNCHANGED <<issue, wake, worker, irregular>>
      /\ \A j \in Issues : governor'[j].attested = governor[j].attested
  <2>1. governor' = governor \/ governor' = WithStage("candidate") \/ governor' = WithStage("admitted")
    BY DEF Decide
  <2>2. QED
    BY <1>2, <2>1, StageTyped DEF Decide, ofWorker, LimitInv
<1>6. /\ run.at = "deciding" /\ run'.at \in {"idle", "deciding", "observing", "labelling"}
      /\ \A j \in Issues : InHand(j)' => InHand(j)
  <2>1. run.at = "deciding"
    BY DEF Decide
  <2>2. run' = NextMember \/ \E at \in {"observing", "labelling"} : run' = [run EXCEPT !.at = at]
    BY DEF Decide
  <2>3. CASE run' = NextMember
    BY <1>2, <2>1, <2>3, Leaves DEF LimitInv
  <2>4. ASSUME NEW at \in {"observing", "labelling"}, run' = [run EXCEPT !.at = at]
        PROVE  run'.at = at /\ \A j \in Issues : InHand(j)' => InHand(j)
    BY <2>4 DEF LimitInv, BacklogTypeOK, RunType, InHand
  <2>5. QED
    BY <2>1, <2>2, <2>3, <2>4
<1>7. ASSUME Counted(i)' PROVE CountOk(i)' /\ (i \in Taken' => i \in Taken)
  <2>1. Counted(i) /\ CountOk(i)
    BY <1>4, <1>5, <1>7 DEF Counted
  <2>2. QED
    BY <1>3, <1>4, <1>5, <1>6, <2>1, Constants
       DEF Counted, CountOk, Owned, Ended, Untouched, AskedFor, DeclarationNow, Taken, Labelled
<1>8. QED
  BY <1>1, <1>2, <1>3, <1>5, <1>6, <1>7, RunCounts DEF Labelled

\* The run or a request of it fails (Fault).
LEMMA FaultCounts ==
    ASSUME LimitInv, Fault
    PROVE  LimitInv'
<1>1. Typing
  BY FaultTyped DEF LimitInv
<1>2. UNCHANGED <<issue, governor, wake, worker>>
  BY DEF Fault, ofWorker
<1>3. CASE run.at = "reading"
  <2>1. run' = Idle /\ UNCHANGED irregular
    BY <1>3 DEF Fault
  <2>2. \A j \in Issues : ~ InHand(j) /\ ~ InHand(j)'
    BY <1>3, <2>1, Typed DEF LimitInv, RunOk, InHand
  <2>3. ASSUME NEW j \in Issues
        PROVE  (Counted(j)' => CountOk(j)') /\ (j \in Taken' => j \in Taken)
    BY <1>2, <1>3, <2>1, <2>2, Typed
       DEF LimitInv, Counted, CountOk, Owned, Ended, Untouched, AskedFor, DeclarationNow, Taken
  <2>4. NoPullYet'
    BY <1>2 DEF LimitInv, NoPullYet
  <2>5. QED
    BY <1>1, <2>3, <2>4, NoPlaceTaken
<1>4. CASE run.at # "reading"
  <2>1. run.at \notin {"idle", "reading"}
    BY <1>4 DEF Fault
  <2>2. PICK i \in Issues : i = This
    BY <2>1, AtHand DEF LimitInv
  <2>3. /\ run'.at \in {"idle", "deciding"}
        /\ \A j \in Issues : InHand(j)' => InHand(j) /\ j # i
    BY <2>1, <2>2, Leaves DEF Fault, LimitInv
  <2>4. \A j \in Issues : irregular'[j] \cap Uncounted = irregular[j] \cap Uncounted
    <3>1. irregular' = irregular \/ irregular' = [irregular EXCEPT ![i] = irregular[i] \union {"unrecorded"}]
      BY <2>2 DEF Fault
    <3>2. irregular \in [Issues -> SUBSET (Uncounted \union Repeatable)]
      BY DEF LimitInv, BacklogTypeOK
    <3>3. QED
      BY <3>1, <3>2 DEF Uncounted
  <2>5. ASSUME Counted(i)' PROVE CountOk(i)' /\ (i \in Taken' => i \in Taken)
    <3>1. Counted(i) /\ CountOk(i) /\ InHand(i)
      BY <2>1, <2>2, <2>4, <2>5, AtHand DEF Counted, LimitInv
    <3>2. QED
      BY <1>2, <2>1, <2>2, <2>3, <2>4, <3>1
         DEF Counted, CountOk, Owned, Ended, Untouched, AskedFor, DeclarationNow, Taken
  <2>6. QED
    BY <1>1, <1>2, <2>1, <2>2, <2>3, <2>4, <2>5, RunCounts DEF Labelled
<1>5. QED
  BY <1>3, <1>4

\* Wakes that ask for no Issue, and steps that change nothing.
LEMMA QuietCounts ==
    ASSUME LimitInv, base' \in Nat, wake' \in {wake, {Scan}},
           recovery' = recovery,
           UNCHANGED <<issue, governor, run, queue, worker, status, journal, irregular>>
    PROVE  LimitInv' /\ Typing
<1>1. Typing
  BY DEF LimitInv, Typing, BacklogTypeOK, RunOk
<1>2. \A j \in Issues : AskedFor(j)' => AskedFor(j)
  BY Constants DEF AskedFor, Scan
<1>3. This' = This /\ \A j \in Issues : InHand(j)' <=> InHand(j)
  BY SameRun
<1>4. ASSUME NEW j \in Issues
      PROVE  (Counted(j)' => CountOk(j)') /\ (j \in Taken' => j \in Taken)
  <2>1. j \in wake' => j \in wake
    BY Constants DEF Scan
  <2>2. QED
    BY <1>2, <1>3, <2>1
       DEF LimitInv, Counted, CountOk, Owned, Ended, Untouched, DeclarationNow, Taken
<1>5. NoPullYet'
  BY DEF LimitInv, NoPullYet
<1>6. QED
  BY <1>1, <1>4, <1>5, NoPlaceTaken

\* At first nothing is at work, and no place taken.
LEMMA InitCounts ==
    ASSUME Init
    PROVE  LimitInv
<1>1. /\ left \in [backlog : SUBSET Issues, edits : Nat, labels : Nat, states : Nat,
                   moves : Nat, faults : Nat, deferrals : Nat]
      /\ left.backlog \subseteq Issues
  BY BacklogAssumption DEF Init
<1> DEFINE first == CHOOSE v \in Versions : \A w \in Versions : v <= w
<1>2. first \in Versions
  <2>1. \E v \in Versions : \A w \in Versions : v <= w
    BY Constants, LeastNatural
  <2>2. QED
    BY <2>1
<1>3. /\ issue = [i \in Issues |-> [open |-> i \in left.backlog, pull |-> FALSE,
                                    labels |-> {}, version |-> first]]
      /\ base = 1 /\ wake = {Scan} /\ run = Idle
      /\ governor = [i \in Issues |-> [epoch |-> NewEpoch, attested |-> {}]]
      /\ queue = [i \in Issues |-> {}] /\ worker = [i \in Issues |-> Unemployed]
      /\ status = [i \in Issues |-> NoStatus] /\ recovery = [i \in Issues |-> NoRecovery]
      /\ journal = [i \in Issues |-> {}] /\ irregular = [i \in Issues |-> {}]
  BY DEF Init
<1> HIDE DEF first
<1>4. issue \in [Issues -> IssueType]
  BY <1>2, <1>3 DEF IssueType
<1>5. governor \in [Issues -> [epoch : EpochType, attested : SUBSET Versions]]
  BY <1>3, Typed
<1>6. BacklogTypeOK
  BY <1>3, <1>4, <1>5, Typed DEF BacklogTypeOK
<1>7. RunOk /\ \A i \in Issues : ~ InHand(i) /\ ~ AskedFor(i)
  BY <1>3, Typed, Constants DEF RunOk, InHand, AskedFor, Scan
<1>8. \A i \in Issues : CountOk(i)
  BY <1>3, <1>7, Typed DEF CountOk, Owned, Ended, Untouched
<1>9. NoPullYet
  BY <1>3 DEF NoPullYet
<1>10. Taken = {}
  BY <1>3, <1>7 DEF Taken, Owned
<1>11. Cardinality(Taken) <= Limit
  BY <1>10, FS_EmptySet, Constants
<1>12. QED
  BY <1>6, <1>7, <1>8, <1>9, <1>11 DEF LimitInv

\* Every step keeps the limit.
LEMMA StepCounts ==
    ASSUME LimitInv, [Next]_vars
    PROVE  LimitInv'
<1>1. CASE Dispatcher
  BY <1>1, StartCounts, SelectCounts, ReadBaseCounts, DecideCounts, ObserveCounts,
     AddLabelCounts, PostCounts, CleanCounts, RecordCounts DEF Dispatcher
<1>2. CASE Fault
  BY <1>2, FaultCounts
<1>3. CASE Scheduled \/ MoveBase \/ UNCHANGED vars
  <2>1. base \in Nat
    BY DEF LimitInv, BacklogTypeOK
  <2>2. /\ base' \in Nat /\ wake' \in {wake, {Scan}} /\ recovery' = recovery
        /\ UNCHANGED <<issue, governor, run, queue, worker, status, journal, irregular>>
    BY <1>3, <2>1 DEF Scheduled, MoveBase, vars, ofWorker
  <2>3. QED
    BY <2>2, QuietCounts
<1>4. ASSUME NEW i \in Issues,
             \/ WorkerStep(i) \/ Defer(i) \/ OpenPull(i) \/ Block(i) \/ FailModel(i)
             \/ FailSetup(i) \/ Kill(i)
      PROVE  LimitInv'
  BY <1>4, TakeCounts, VerifyCounts, SurveyCounts, StartModelCounts, ReplayCounts,
     CompleteCounts, CheckCounts, DeferCounts, OpenPullCounts, BlockCounts, FailModelCounts,
     FailSetupCounts, KillCounts DEF WorkerStep
<1>5. ASSUME NEW i \in Issues,
             \/ AdmitRecovery(i) \/ ApplyRecovery(i) \/ Relabel(i) \/ LoseRecovery(i)
             \/ ResumeCapacity(i)
      PROVE  LimitInv'
  BY <1>5, AdmitRecoveryCounts, ApplyRecoveryCounts, RelabelCounts, LoseRecoveryCounts,
     ResumeCapacityCounts
<1>6. ASSUME NEW i \in Issues,
             \/ Edit(i) \/ AskFor(i) \/ TakeLabel(i) \/ Resume(i)
             \/ Land(i) \/ Abandon(i) \/ CloseOrReopen(i)
      PROVE  LimitInv'
  BY <1>6, EditCounts, AskForCounts, TakeLabelCounts, ResumeCounts, LandCounts,
     AbandonCounts, CloseOrReopenCounts
<1>7. QED
  BY <1>1, <1>2, <1>3, <1>4, <1>5, <1>6 DEF Next

\* Every place that is taken is one of an Issue with its label, its pull request
\* or a dispatcher at work on it, and they are no more than the limit.
THEOREM LimitInvariant == Spec => []LimitInv
<1>1. Init => LimitInv
  BY InitCounts
<1>2. LimitInv /\ [Next]_vars => LimitInv'
  BY StepCounts
<1>3. QED
  BY <1>1, <1>2, PTL DEF Spec

\* The coordination limit holds for Workers and pull requests (dispatch-policy.mjs,
\* activeWorkflowIssueNumbers): a dispatcher that decides on one snapshot and acts
\* later, displaced wakes, failures and recoveries never let more than Limit Issues
\* be worked on, unless an Issue is out of the count.
THEOREM LimitKept == Spec => []WithinLimit
<1>1. LimitInv => WithinLimit
  <2>1. SUFFICES ASSUME LimitInv PROVE WithinLimit
    OBVIOUS
  <2> DEFINE busy == {i \in Issues :
                /\ issue[i].open /\ irregular[i] \cap Uncounted = {}
                /\ worker[i].at = "running" \/ issue[i].pull}
  <2>2. busy \in SUBSET Taken
    <3>1. ASSUME NEW i \in busy PROVE i \in Taken
      <4>1. Counted(i) /\ i \in Issues
        BY DEF Counted
      <4>2. worker[i].at = "running" => Owned(i)
        BY <2>1, <4>1, BusyOwned
      <4>3. QED
        BY <4>1, <4>2 DEF Taken
    <3>2. QED
      BY <3>1
  <2>3. /\ Cardinality(busy) <= Cardinality(Taken)
        /\ IsFiniteSet(busy) /\ IsFiniteSet(Taken)
    <3> HIDE DEF busy
    <3>1. QED
      BY <2>2, TakenFinite, FS_Subset
  <2>4. Cardinality(Taken) <= Limit
    BY <2>1 DEF LimitInv
  <2>5. Cardinality(busy) \in Nat /\ Cardinality(Taken) \in Nat /\ Limit \in Nat
    <3> HIDE DEF busy
    <3>1. QED
      BY <2>3, FS_CardinalityType, Constants
  <2>6. Cardinality(busy) <= Limit
    <3> HIDE DEF busy
    <3>1. QED
      BY <2>3, <2>4, <2>5
  <2>7. QED
    BY <2>6 DEF WithinLimit
<1>2. QED
  BY <1>1, LimitInvariant, PTL

-----------------------------------------------------------------------------
(* One start for one state                                                 *)

\* A step without a new text, dispatch or request keeps what there is of each
\* version of one revision.
LEMMA CalmKeeps ==
    ASSUME OnceInv, Typing, run' = run, base <= base', NEW i \in Issues, Calm(i)
    PROVE  OfAttested(i)' /\ RevisionsKnown(i)' /\ (Plain(i)' => StartOk(i)')
<1>1. /\ issue'[i].version = issue[i].version
      /\ governor'[i].attested = governor[i].attested
      /\ governor'[i].epoch.dispatch = governor[i].epoch.dispatch
      /\ queue'[i] \subseteq queue[i] /\ irregular[i] \subseteq irregular'[i]
  BY DEF Calm
<1>2. /\ base \in Nat /\ base' \in Nat /\ run.base \in Nat
      /\ \A r \in queue[i] : r.base \in Nat
      /\ worker[i].at # "idle" => worker[i].request.base \in Nat
  <2>1. base \in Nat /\ base' \in Nat /\ run.base \in Nat
    BY DEF OnceInv, Typing, BacklogTypeOK, RunType
  <2>2. queue[i] \subseteq Request
    BY DEF OnceInv, BacklogTypeOK
  <2>3. \A r \in queue[i] : r.base \in Nat
    BY <2>2 DEF Request
  <2>4. worker[i].at # "idle" => worker[i].request.base \in Nat
    BY WorkerTyped DEF OnceInv
  <2>5. QED
    BY <2>1, <2>3, <2>4
<1>3. OfAttested(i) /\ RevisionsKnown(i) /\ (Plain(i) => StartOk(i))
  BY DEF OnceInv
<1>4. OfAttested(i)'
  <2>1. worker'[i].at \notin {"idle", "verifying"} => worker'[i].version \in governor[i].attested
    BY <1>3 DEF Calm, WorkerCalm, OfAttested
  <2>2. status'[i].is = "capacity-waiting" => status'[i].version \in governor[i].attested
    BY <1>3 DEF Calm, EntriesCalm, OfAttested
  <2>3. \A e \in journal'[i] : e.execution[1] \in governor[i].attested
    BY <1>3 DEF Calm, EntriesCalm, OfAttested
  <2>4. QED
    BY <1>1, <2>1, <2>2, <2>3 DEF OfAttested
<1>5. RevisionsKnown(i)'
  <2>1. \A r \in queue'[i] : r.base <= base'
    BY <1>1, <1>2, <1>3 DEF RevisionsKnown
  <2>2. worker'[i].at # "idle" => worker'[i].request.base <= base'
    BY <1>2, <1>3 DEF Calm, WorkerCalm, RevisionsKnown
  <2>3. QED
    BY <2>1, <2>2 DEF RevisionsKnown
<1>6. ASSUME Plain(i)' PROVE StartOk(i)'
  <2>1. StartOk(i)
    BY <1>1, <1>3, <1>6 DEF Plain
  <2>2. ASSUME NEW v \in governor[i].attested, NEW revision \in Nat, revision <= base,
               Fixed(i, v, revision)
        PROVE  Fixed(i, v, revision)'
    <3>1. \A e \in journal'[i] : e.execution[1] = v => e.execution[2] = revision
      BY <2>2 DEF Calm, EntriesCalm, Fixed
    <3>2. worker'[i].at # "idle" /\ worker'[i].version = v =>
             /\ worker'[i].request.base <= revision
             /\ worker'[i].at # "verifying" => worker'[i].request.base = revision
      <4>1. CASE worker[i].at = "verifying" /\ worker'[i].at = "surveying"
        BY <1>2, <2>2, <4>1 DEF Calm, WorkerCalm, Fixed
      <4>2. CASE ~ (worker[i].at = "verifying" /\ worker'[i].at = "surveying")
        BY <1>1, <1>2, <2>2, <4>2 DEF Calm, WorkerCalm, Fixed
      <4>3. QED
        BY <4>1, <4>2
    <3>3. status'[i].is = "capacity-waiting" /\ status'[i].version = v => status'[i].base = revision
      BY <2>2 DEF Calm, EntriesCalm, Fixed
    <3>4. issue'[i].version = v => \A r \in queue'[i] : r.base <= revision
      BY <1>1, <2>2 DEF Fixed
    <3>5. QED
      BY <3>1, <3>2, <3>3, <3>4 DEF Fixed
  <2>3. \A v \in governor'[i].attested :
            \E revision \in Nat : revision <= base' /\ Fixed(i, v, revision)'
    BY <1>1, <1>2, <2>1, <2>2 DEF StartOk
  <2>4. \A v \in governor'[i].attested : Epoch(i)'.dispatch[v] = "applied"
    BY <1>1, <2>1 DEF StartOk, Epoch
  <2>5. Older(i) => Older(i)'
    BY <1>1, <1>2 DEF Older, Calm, WorkerCalm
  <2>6. MemberOk(i)'
    <3>1. Member' = Member
      BY SameRun
    <3>2. QED
      BY <1>1, <2>1, <2>5, <3>1 DEF StartOk, MemberOk
  <2>7. QED
    BY <2>3, <2>4, <2>6 DEF StartOk
<1>7. QED
  BY <1>4, <1>5, <1>6

\* A step of one Issue that keeps it right keeps the rest.
LEMMA IssueOnce ==
    ASSUME OnceInv, Typing, base <= base', NEW i \in Issues, ByIssue(i),
           OfAttested(i)', RevisionsKnown(i)', Plain(i)' => StartOk(i)'
    PROVE  OnceInv'
<1>1. run' = run
  BY DEF ByIssue
<1>2. ASSUME NEW j \in Issues \ {i}
      PROVE  OfAttested(j)' /\ RevisionsKnown(j)' /\ (Plain(j)' => StartOk(j)')
  <2>1. Calm(j)
    BY DEF ByIssue, Calm, WorkerCalm, EntriesCalm
  <2>2. QED
    BY <1>1, <2>1, CalmKeeps
<1>3. run'.at \notin {"idle", "reading", "base"} => run'.base <= base'
  <2>1. base \in Nat /\ base' \in Nat /\ run.base \in Nat
    BY DEF OnceInv, Typing, BacklogTypeOK, RunType
  <2>2. QED
    BY <1>1, <2>1 DEF OnceInv
<1>4. QED
  BY <1>2, <1>3 DEF OnceInv, Typing

\* A calm step of one Issue.
LEMMA CalmOnce ==
    ASSUME OnceInv, Typing, base <= base', NEW i \in Issues, ByIssue(i), Calm(i)
    PROVE  OnceInv'
BY CalmKeeps, IssueOnce DEF ByIssue

\* The Issue is edited (Edit).
LEMMA EditOnce ==
    ASSUME OnceInv, NEW i \in Issues, Edit(i)
    PROVE  OnceInv'
<1>1. /\ Typing /\ ByIssue(i) /\ run' = run
      /\ UNCHANGED <<base, governor, queue, worker, status, journal>>
      /\ irregular[i] \subseteq irregular'[i]
      /\ issue'[i].version \in governor[i].attested => "restored" \in irregular'[i]
  BY EditEffect DEF OnceInv, ByIssue
<1>2. OfAttested(i)' /\ RevisionsKnown(i)'
  BY <1>1 DEF OnceInv, OfAttested, RevisionsKnown
<1>3. ASSUME Plain(i)' PROVE StartOk(i)'
  <2>1. StartOk(i) /\ issue'[i].version \notin governor[i].attested
    BY <1>1, <1>3 DEF OnceInv, Plain, Repeatable
  <2>2. \A v \in governor[i].attested, revision \in Nat :
            Fixed(i, v, revision) => Fixed(i, v, revision)'
    BY <1>1, <2>1 DEF Fixed
  <2>3. Member' = Member
    BY <1>1, SameRun
  <2>4. MemberOk(i)'
    BY <1>1, <2>1, <2>3 DEF StartOk, MemberOk, Older
  <2>5. QED
    BY <1>1, <2>1, <2>2, <2>4 DEF StartOk, Epoch
<1>4. base <= base'
  BY <1>1 DEF OnceInv, BacklogTypeOK
<1>5. QED
  BY <1>1, <1>2, <1>3, <1>4, IssueOnce

\* A person answers the pause (Resume).
LEMMA ResumeOnce ==
    ASSUME OnceInv, NEW i \in Issues, Resume(i)
    PROVE  OnceInv'
<1>1. /\ Typing /\ ByIssue(i)
      /\ UNCHANGED <<base, wake, queue, worker, status, journal>>
      /\ governor'[i].attested = governor[i].attested
      /\ "resumed" \in irregular'[i]
  BY ResumeEffect DEF OnceInv
<1>2. OfAttested(i)' /\ RevisionsKnown(i)' /\ ~ Plain(i)'
  BY <1>1 DEF OnceInv, OfAttested, RevisionsKnown, Plain, Repeatable
<1>3. base <= base'
  BY <1>1 DEF OnceInv, BacklogTypeOK
<1>4. QED
  BY <1>1, <1>2, <1>3, IssueOnce

\* A capacity wait is dispatched again, of the state and revision that it has
\* (ResumeCapacity).
LEMMA ResumeCapacityOnce ==
    ASSUME OnceInv, NEW i \in Issues, ResumeCapacity(i)
    PROVE  OnceInv'
<1>1. /\ Typing /\ ByIssue(i) /\ run' = run
      /\ UNCHANGED <<issue, base, governor, wake, worker, status, journal, irregular>>
      /\ Resumable(i) /\ \A r \in queue'[i] : r.base = base
  BY ResumeCapacityEffect DEF OnceInv, ByIssue
<1>2. base \in Nat
  BY DEF OnceInv, BacklogTypeOK
<1>3. OfAttested(i)' /\ RevisionsKnown(i)'
  BY <1>1, <1>2 DEF OnceInv, OfAttested, RevisionsKnown
<1>4. /\ status[i].is = "capacity-waiting"
      /\ status[i].version = issue[i].version /\ status[i].base = base
      /\ issue[i].version \in governor[i].attested
  BY <1>1 DEF Resumable, WaitIsCurrent, OnceInv, OfAttested
<1>5. ASSUME Plain(i)' PROVE StartOk(i)'
  <2>1. StartOk(i)
    BY <1>1, <1>5 DEF OnceInv, Plain
  <2>2. \A v \in governor[i].attested, revision \in Nat :
            Fixed(i, v, revision) => Fixed(i, v, revision)'
    BY <1>1, <1>2, <1>4 DEF Fixed
  <2>3. Member' = Member
    BY <1>1, SameRun
  <2>4. MemberOk(i)'
    BY <1>1, <1>4, <2>1, <2>3 DEF StartOk, MemberOk, Older
  <2>5. QED
    BY <1>1, <2>1, <2>2, <2>4 DEF StartOk, Epoch
<1>6. QED
  BY <1>1, <1>2, <1>3, <1>5, IssueOnce

\* A step of a run that leaves the texts, requests, Workers and waits.
LEMMA StillOnce ==
    ASSUME OnceInv, NEW i \in Issues, base' = base,
           issue'[i].version = issue[i].version, queue'[i] = queue[i],
           worker'[i] = worker[i], status'[i] = status[i], journal'[i] = journal[i],
           governor'[i].attested = governor[i].attested,
           irregular[i] \subseteq irregular'[i],
           Plain(i)' => /\ \A v \in governor[i].attested :
                              governor'[i].epoch.dispatch[v] = "applied"
                        /\ MemberOk(i)'
    PROVE  OfAttested(i)' /\ RevisionsKnown(i)' /\ (Plain(i)' => StartOk(i)')
<1>1. OfAttested(i)' /\ RevisionsKnown(i)'
  BY DEF OnceInv, OfAttested, RevisionsKnown
<1>2. ASSUME Plain(i)' PROVE StartOk(i)'
  <2>1. StartOk(i)
    BY <1>2 DEF OnceInv, Plain
  <2>2. \A v \in governor[i].attested, revision \in Nat :
            Fixed(i, v, revision) => Fixed(i, v, revision)'
    BY DEF Fixed
  <2>3. QED
    BY <1>2, <2>1, <2>2 DEF StartOk, Epoch
<1>3. QED
  BY <1>1, <1>2

\* A run that dies has nothing at hand.
LEMMA IdleOnce ==
    ASSUME NEW i \in Issues, run'.todo = {}
    PROVE  MemberOk(i)'
BY DEF MemberOk

\* The members that a run has left are as they were.
LEMMA NextOnce ==
    ASSUME OnceInv, run.at \notin {"idle", "reading", "base"}, run' \in {NextMember, Idle},
           NEW i \in Issues, Plain(i), issue'[i].version = issue[i].version,
           governor'[i].attested = governor[i].attested,
           queue'[i] = queue[i], worker'[i] = worker[i]
    PROVE  MemberOk(i)'
<1>1. CASE run' = Idle
  BY <1>1, Typed, IdleOnce
<1>2. CASE run' = NextMember
  <2>1. /\ run'.todo = run.todo \ {Member}
        /\ run'.todo # {} => run'.at = "deciding" /\ run'.base = run.base
    BY <1>2, NextRun DEF OnceInv
  <2>2. MemberOk(i)
    BY DEF OnceInv, StartOk
  <2>3. QED
    BY <2>1, <2>2 DEF MemberOk, Older, Labelled
<1>3. QED
  BY <1>1, <1>2

\* A run that goes on goes by a revision that is there.
LEMMA RunRevision ==
    ASSUME OnceInv, base' = base,
           \/ run' = Idle
           \/ run.at \notin {"idle", "reading", "base"} /\ run' = NextMember
           \/ run.at \notin {"idle", "reading", "base"} /\ run'.base = run.base
    PROVE  run'.at \notin {"idle", "reading", "base"} => run'.base <= base'
<1>1. CASE run' = Idle
  BY <1>1, Typed
<1>2. CASE run.at \notin {"idle", "reading", "base"} /\ run' = NextMember
  <2>1. run'.at = "idle" \/ (run'.at = "deciding" /\ run'.base = run.base)
    BY <1>2, NextRun DEF OnceInv
  <2>2. QED
    BY <1>2, <2>1 DEF OnceInv
<1>3. CASE run.at \notin {"idle", "reading", "base"} /\ run'.base = run.base
  BY <1>3 DEF OnceInv
<1>4. QED
  BY <1>1, <1>2, <1>3

\* A run reads the pull requests (Start).
LEMMA StartOnce ==
    ASSUME OnceInv, Start
    PROVE  OnceInv'
<1>1. Typing
  BY StartTyped DEF OnceInv
<1>2. run'.at = "reading" /\ run'.todo = {}
  BY Typed DEF Start, Idle
<1>3. UNCHANGED <<issue, base, governor, queue, worker, status, journal, irregular>>
  BY DEF Start, ofWorker
<1>4. ASSUME NEW i \in Issues
      PROVE  OfAttested(i)' /\ RevisionsKnown(i)' /\ (Plain(i)' => StartOk(i)')
  <2>1. MemberOk(i)'
    BY <1>2, IdleOnce
  <2>2. Plain(i)' => \A v \in governor[i].attested : governor'[i].epoch.dispatch[v] = "applied"
    BY <1>3 DEF OnceInv, Plain, StartOk, Epoch
  <2>3. QED
    BY <1>3, <2>1, <2>2, StillOnce
<1>5. QED
  BY <1>1, <1>2, <1>4 DEF OnceInv, Typing

\* The work is selected (Select).
LEMMA SelectOnce ==
    ASSUME OnceInv, Select
    PROVE  OnceInv'
<1> DEFINE chosen == IF run.target = Scan THEN SelectBatch(run.pulls)
                     ELSE SelectRequested(run.target, run.pulls)
           members == {[number |-> i, version |-> issue[i].version] : i \in chosen}
<1>1. Typing
  BY SelectTyped DEF OnceInv
<1>2. UNCHANGED <<issue, base, governor, queue, worker, status, journal, irregular>>
  BY DEF Select, ofWorker
<1>3. run' = IF chosen = {} THEN Idle
             ELSE [run EXCEPT !.at = "base", !.pulls = {}, !.todo = members]
  BY DEF Select
<1>4. \A m \in members : m.version = issue[m.number].version
  OBVIOUS
<1> HIDE DEF chosen, members
<1>5. /\ run'.at \in {"idle", "base"} /\ (run'.todo # {} => run'.at = "base")
      /\ run'.todo \subseteq members
  <2>1. CASE chosen = {}
    BY <1>3, <2>1, Typed
  <2>2. CASE chosen # {}
    BY <1>3, <2>2 DEF OnceInv, BacklogTypeOK, RunType
  <2>3. QED
    BY <2>1, <2>2
<1>6. ASSUME NEW i \in Issues
      PROVE  OfAttested(i)' /\ RevisionsKnown(i)' /\ (Plain(i)' => StartOk(i)')
  <2>1. MemberOk(i)'
    BY <1>2, <1>4, <1>5 DEF MemberOk, Labelled
  <2>2. Plain(i)' => \A v \in governor[i].attested : governor'[i].epoch.dispatch[v] = "applied"
    BY <1>2 DEF OnceInv, Plain, StartOk, Epoch
  <2>3. QED
    BY <1>2, <2>1, <2>2, StillOnce
<1>7. QED
  BY <1>1, <1>5, <1>6 DEF OnceInv, Typing

\* The run reads the head of the default branch, of which no request is newer
\* (ReadBase).
LEMMA ReadBaseOnce ==
    ASSUME OnceInv, ReadBase
    PROVE  OnceInv'
<1>1. Typing
  BY ReadBaseTyped DEF OnceInv
<1>2. UNCHANGED <<issue, base, governor, queue, worker, status, journal, irregular>>
  BY DEF ReadBase, ofWorker
<1>3. run.at = "base" /\ run'.at = "deciding" /\ run'.base = base /\ run'.todo = run.todo
  BY DEF ReadBase, OnceInv, BacklogTypeOK, RunType
<1>4. ASSUME NEW i \in Issues
      PROVE  OfAttested(i)' /\ RevisionsKnown(i)' /\ (Plain(i)' => StartOk(i)')
  <2>1. Older(i)'
    BY <1>2, <1>3 DEF OnceInv, RevisionsKnown, Older
  <2>2. Plain(i)' => MemberOk(i)'
    BY <1>2, <1>3, <2>1 DEF OnceInv, Plain, StartOk, MemberOk, Labelled
  <2>3. Plain(i)' => \A v \in governor[i].attested : governor'[i].epoch.dispatch[v] = "applied"
    BY <1>2 DEF OnceInv, Plain, StartOk, Epoch
  <2>4. QED
    BY <1>2, <2>2, <2>3, StillOnce
<1>5. base \in Nat
  BY DEF OnceInv, BacklogTypeOK
<1>6. QED
  BY <1>1, <1>2, <1>3, <1>4, <1>5 DEF OnceInv, Typing

\* What the Governor lets a run act on was not recorded as applied (Decide).
LEMMA DecideOnce ==
    ASSUME OnceInv, Decide
    PROVE  OnceInv'
<1>1. Typing
  BY DecideTyped DEF OnceInv
<1>2. run.at = "deciding" /\ UNCHANGED <<issue, base, queue, worker, status, journal, irregular>>
  BY DEF Decide, ofWorker
<1>3. /\ This \in Issues /\ Seen \in Versions
      /\ Member \in run.todo /\ Member = [number |-> This, version |-> Seen]
      /\ \A m \in run.todo : m.number = This => m = Member
  BY <1>2, AtHand DEF OnceInv
<1>4. Plain(This) /\ Seen \in governor[This].attested => Stage = "applied"
  BY <1>3 DEF OnceInv, StartOk, Stage
<1>5. \/ /\ governor' = governor
         /\ run' = NextMember \/ (Stage = "admitted" /\ run' = [run EXCEPT !.at = "labelling"])
      \/ /\ Stage \in {"none", "candidate"}
         /\ \E stage \in {"candidate", "admitted"} : governor' = WithStage(stage)
         /\ run' = [run EXCEPT !.at = "observing"] \/ run' = [run EXCEPT !.at = "labelling"]
  <2>1. CASE ~ Epoch(This).paused /\ Stage = "none"
    BY <2>1 DEF Decide, Executes
  <2>2. CASE Executes
    BY <2>2 DEF Decide, Executes
  <2>3. CASE ~ Executes /\ (Epoch(This).paused \/ Stage # "none")
    BY <2>3 DEF Decide
  <2>4. QED
    BY <2>1, <2>2, <2>3 DEF Decide
<1>6. /\ \A i \in Issues : governor'[i].attested = governor[i].attested
      /\ \A i \in Issues, v \in Versions :
            governor[i].epoch.dispatch[v] = "applied" =>
                \/ governor'[i].epoch.dispatch[v] = "applied"
                \/ i = This /\ v = Seen /\ Stage \in {"none", "candidate"}
  <2>1. CASE governor' = governor
    BY <2>1
  <2>2. ASSUME NEW stage \in {"candidate", "admitted"}, governor' = WithStage(stage),
               Stage \in {"none", "candidate"}
        PROVE  /\ \A i \in Issues : governor'[i].attested = governor[i].attested
               /\ \A i \in Issues, v \in Versions :
                     governor[i].epoch.dispatch[v] = "applied" =>
                         \/ governor'[i].epoch.dispatch[v] = "applied"
                         \/ i = This /\ v = Seen /\ Stage \in {"none", "candidate"}
    <3>1. \A i \in Issues : WithStage(stage)[i].attested = governor[i].attested
      BY <1>2, StageTyped DEF OnceInv
    <3>2. \A i \in Issues : WithStage(stage)[i].epoch.dispatch =
             IF i = This THEN [governor[i].epoch.dispatch EXCEPT ![Seen] = stage]
             ELSE governor[i].epoch.dispatch
      BY <1>2, StageTyped DEF OnceInv
    <3>3. \A i \in Issues : governor[i].epoch.dispatch \in
             [Versions -> {"none", "candidate", "admitted", "applied"}]
      BY DEF OnceInv, BacklogTypeOK, EpochType
    <3>4. QED
      BY <1>3, <2>2, <3>1, <3>2, <3>3
  <2>3. QED
    BY <1>5, <2>1, <2>2
<1>7. ASSUME NEW i \in Issues
      PROVE  OfAttested(i)' /\ RevisionsKnown(i)' /\ (Plain(i)' => StartOk(i)')
  <2>1. ASSUME Plain(i)'
        PROVE  \A v \in governor[i].attested : governor'[i].epoch.dispatch[v] = "applied"
    <3>1. Plain(i)
      BY <1>2, <2>1 DEF Plain
    <3>2. governor[i].attested \subseteq Versions
      BY DEF OnceInv, BacklogTypeOK
    <3>3. \A v \in governor[i].attested : governor[i].epoch.dispatch[v] = "applied"
      BY <3>1 DEF OnceInv, StartOk, Epoch
    <3>4. i = This => Seen \notin governor[i].attested \/ Stage = "applied"
      BY <1>4, <3>1
    <3>5. QED
      BY <1>6, <3>2, <3>3, <3>4
  <2>2. ASSUME Plain(i)' PROVE MemberOk(i)'
    <3>1. Plain(i) /\ MemberOk(i)
      BY <1>2, <2>2 DEF Plain, OnceInv, StartOk
    <3>2. CASE run' = NextMember
      BY <1>2, <1>6, <3>1, <3>2, NextOnce
    <3>3. ASSUME NEW at \in {"observing", "labelling"}, run' = [run EXCEPT !.at = at],
                 Stage # "applied"
          PROVE  MemberOk(i)'
      <4>1. run'.at = at /\ run'.todo = run.todo /\ run'.base = run.base
        BY <3>3 DEF OnceInv, BacklogTypeOK, RunType
      <4>2. Member' = Member
        BY <4>1, SameTodo
      <4>3. Older(i) => Older(i)'
        BY <1>2, <4>1 DEF Older
      <4>4. ASSUME NEW m \in run.todo, m.number = i
            PROVE  /\ issue'[i].version \in governor'[i].attested => issue'[i].version = m.version
                   /\ m.version \notin governor'[i].attested /\ run'.at # "base" => Older(i)'
                   /\ m = Member => m.version \notin governor'[i].attested
        <5>1. /\ issue[i].version \in governor[i].attested => issue[i].version = m.version
              /\ m.version \notin governor[i].attested => Older(i)
          BY <1>2, <3>1, <4>4 DEF MemberOk
        <5>2. m = Member => m.version \notin governor[i].attested
          BY <1>3, <1>4, <3>1, <3>3, <4>4
        <5>3. QED
          BY <1>2, <1>6, <4>3, <5>1, <5>2
      <4>5. QED
        BY <4>1, <4>2, <4>4 DEF MemberOk
    <3>4. QED
      BY <1>5, <3>2, <3>3
  <2>3. QED
    BY <1>2, <1>6, <2>1, <2>2, StillOnce
<1>8. run'.at \notin {"idle", "reading", "base"} => run'.base <= base'
  <2>1. run' = NextMember \/ run'.base = run.base
    BY <1>5 DEF OnceInv, BacklogTypeOK, RunType
  <2>2. QED
    BY <1>2, <2>1, RunRevision
<1>9. QED
  BY <1>1, <1>7, <1>8 DEF OnceInv, Typing

\* A run goes on with the next Issue, or dies, and changes no more than labels,
\* wakes and marks.
LEMMA LeavesOnce ==
    ASSUME OnceInv, Typing, run.at # "idle",
           \/ run' = Idle
           \/ run.at \notin {"idle", "reading", "base"} /\ run' = NextMember,
           UNCHANGED <<base, governor, queue, worker, status, journal>>,
           \A i \in Issues : issue'[i].version = issue[i].version,
           \A i \in Issues : irregular[i] \subseteq irregular'[i]
    PROVE  OnceInv'
<1>1. ASSUME NEW i \in Issues
      PROVE  OfAttested(i)' /\ RevisionsKnown(i)' /\ (Plain(i)' => StartOk(i)')
  <2>1. Plain(i)' => Plain(i)
    BY DEF Plain
  <2>2. CASE run' = Idle
    <3>1. MemberOk(i)'
      BY <2>2, Typed, IdleOnce
    <3>2. Plain(i)' => \A v \in governor[i].attested : governor'[i].epoch.dispatch[v] = "applied"
      BY <2>1 DEF OnceInv, StartOk, Epoch
    <3>3. QED
      BY <3>1, <3>2, StillOnce
  <2>3. CASE run.at \notin {"idle", "reading", "base"} /\ run' = NextMember
    <3>1. Plain(i)' => MemberOk(i)'
      BY <2>1, <2>3, NextOnce
    <3>2. Plain(i)' => \A v \in governor[i].attested : governor'[i].epoch.dispatch[v] = "applied"
      BY <2>1 DEF OnceInv, StartOk, Epoch
    <3>3. QED
      BY <3>1, <3>2, StillOnce
  <2>4. QED
    BY <2>2, <2>3
<1>2. run'.at \notin {"idle", "reading", "base"} => run'.base <= base'
  BY RunRevision
<1>3. QED
  BY <1>1, <1>2 DEF OnceInv, Typing

\* The run asks for another look at the Issue (Observe).
LEMMA ObserveOnce ==
    ASSUME OnceInv, Observe
    PROVE  OnceInv'
<1>1. Typing
  BY ObserveTyped DEF OnceInv
<1>2. /\ run.at = "observing" /\ run' = NextMember
      /\ UNCHANGED <<issue, base, governor, queue, worker, status, journal, irregular>>
  BY DEF Observe, ofWorker
<1>3. QED
  BY <1>1, <1>2, LeavesOnce

\* Labels are no part of the version of an Issue.
LEMMA LabelVersion ==
    ASSUME BacklogTypeOK, NEW n \in Issues, NEW L, issue' = [issue EXCEPT ![n].labels = L]
    PROVE  \A i \in Issues : issue'[i].version = issue[i].version
<1>1. issue \in [Issues -> IssueType] /\ issue[n] \in IssueType
  BY DEF BacklogTypeOK
<1>2. QED
  BY <1>1 DEF IssueType

\* The run takes its label back (Clean).
LEMMA CleanOnce ==
    ASSUME OnceInv, Clean
    PROVE  OnceInv'
<1>1. Typing
  BY CleanTyped DEF OnceInv
<1>2. /\ run.at = "cleaning" /\ run' = NextMember
      /\ UNCHANGED <<base, governor, queue, worker, status, journal, irregular>>
      /\ issue' = [issue EXCEPT ![This].labels = @ \ {"dsh"}]
  BY DEF Clean, ofWorker
<1>3. This \in Issues
  BY <1>2, AtHand DEF OnceInv
<1>4. \A i \in Issues : issue'[i].version = issue[i].version
  BY <1>2, <1>3, LabelVersion DEF OnceInv
<1>5. QED
  BY <1>1, <1>2, <1>4, LeavesOnce

\* The run or a request of it fails (Fault).
LEMMA FaultOnce ==
    ASSUME OnceInv, Fault
    PROVE  OnceInv'
<1>1. Typing
  BY FaultTyped DEF OnceInv
<1>2. /\ run.at # "idle"
      /\ \/ run' = Idle
         \/ run.at \notin {"idle", "reading", "base"} /\ run' = NextMember
      /\ UNCHANGED <<issue, base, governor, queue, worker, status, journal>>
  BY DEF Fault, ofWorker
<1>3. \A i \in Issues : irregular[i] \subseteq irregular'[i]
  BY DEF Fault, OnceInv, BacklogTypeOK
<1>4. QED
  BY <1>1, <1>2, <1>3, LeavesOnce

\* The run labels the Issue (AddLabel).
LEMMA AddLabelOnce ==
    ASSUME OnceInv, AddLabel
    PROVE  OnceInv'
<1>1. Typing
  BY AddLabelTyped DEF OnceInv
<1>2. /\ run.at = "labelling" /\ run'.at = "posting" /\ run'.todo = run.todo /\ run'.base = run.base
      /\ UNCHANGED <<base, governor, queue, worker, status, journal, irregular>>
      /\ issue' = [issue EXCEPT ![This].labels = @ \union {"dsh"}]
  BY DEF AddLabel, ofWorker, OnceInv, BacklogTypeOK, RunType
<1>3. This \in Issues
  BY <1>2, AtHand DEF OnceInv
<1>4. \A i \in Issues : issue'[i].version = issue[i].version
  BY <1>2, <1>3, LabelVersion DEF OnceInv
<1>5. Member' = Member
  BY <1>2, SameTodo
<1>6. ASSUME NEW i \in Issues
      PROVE  OfAttested(i)' /\ RevisionsKnown(i)' /\ (Plain(i)' => StartOk(i)')
  <2>1. ASSUME Plain(i)' PROVE MemberOk(i)'
    <3>1. MemberOk(i)
      BY <1>2, <2>1 DEF Plain, OnceInv, StartOk
    <3>2. Older(i) => Older(i)'
      BY <1>2 DEF Older
    <3>3. QED
      BY <1>2, <1>4, <1>5, <3>1, <3>2 DEF MemberOk, Labelled
  <2>2. Plain(i)' => \A v \in governor[i].attested : governor'[i].epoch.dispatch[v] = "applied"
    BY <1>2 DEF OnceInv, Plain, StartOk, Epoch
  <2>3. QED
    BY <1>2, <1>4, <2>1, <2>2, StillOnce
<1>7. run'.at \notin {"idle", "reading", "base"} => run'.base <= base'
  BY <1>2, RunRevision
<1>8. QED
  BY <1>1, <1>6, <1>7 DEF OnceInv, Typing

\* The run posts a request of the revision that it goes by (Post).
LEMMA PostOnce ==
    ASSUME OnceInv, Post
    PROVE  OnceInv'
<1>1. Typing
  BY PostTyped DEF OnceInv
<1>2. /\ run.at = "posting" /\ run'.at \in {"recording", "cleaning"}
      /\ run'.todo = run.todo /\ run'.base = run.base
      /\ UNCHANGED <<issue, base, governor, worker, status, journal>>
  BY DEF Post, OnceInv, BacklogTypeOK, RunType
<1>3. PICK n \in Issues : n = This
  BY <1>2, AtHand DEF OnceInv
<1>4. Member \in run.todo /\ Member.number = n
      /\ \A m \in run.todo : m.number = n => m = Member
  BY <1>2, <1>3, AtHand DEF OnceInv
<1>5. Member' = Member
  BY <1>2, SameTodo
<1> DEFINE request == RequestFor(Seen, run.base)
<1>6. request.base = run.base /\ run.base \in Nat /\ run.base <= base /\ base \in Nat
  <2>1. Seen \in Versions
    BY <1>2, AtHand DEF OnceInv
  <2>2. run.base \in Nat /\ run.base <= base /\ base \in Nat
    BY <1>2 DEF OnceInv, BacklogTypeOK, RunType
  <2>3. QED
    BY <2>1, <2>2, Typed
<1>7. \/ queue' = queue /\ irregular' = irregular
      \/ queue' = [queue EXCEPT ![n] = {request}] /\ irregular' = irregular
      \/ /\ queue' = [queue EXCEPT ![n] = {request}]
         /\ irregular' = [irregular EXCEPT ![n] = irregular[n] \union {"unrecorded"}]
  BY <1>3 DEF Post
<1> HIDE DEF request
<1>8. /\ \A i \in Issues : irregular[i] \subseteq irregular'[i]
      /\ \A i \in Issues \ {n} : queue'[i] = queue[i]
      /\ queue'[n] = queue[n] \/ queue'[n] = {request}
  BY <1>7 DEF OnceInv, BacklogTypeOK
<1>9. ASSUME NEW i \in Issues
      PROVE  (Plain(i)' => Plain(i) /\ MemberOk(i)')
             /\ (Plain(i)' => \A v \in governor[i].attested :
                    governor'[i].epoch.dispatch[v] = "applied")
  <2>1. ASSUME Plain(i)' PROVE Plain(i) /\ MemberOk(i)'
    <3>1. Plain(i) /\ MemberOk(i)
      BY <1>8, <2>1 DEF Plain, OnceInv, StartOk
    <3>2. Older(i) => Older(i)'
      BY <1>2, <1>6, <1>8 DEF Older
    <3>3. QED
      BY <1>2, <1>5, <3>1, <3>2 DEF MemberOk, Labelled
  <2>2. QED
    BY <1>2, <2>1 DEF OnceInv, StartOk, Epoch
<1>10. ASSUME NEW i \in Issues \ {n}
       PROVE  OfAttested(i)' /\ RevisionsKnown(i)' /\ (Plain(i)' => StartOk(i)')
  BY <1>2, <1>8, <1>9, StillOnce
<1>11. OfAttested(n)' /\ RevisionsKnown(n)'
  BY <1>2, <1>6, <1>8 DEF OnceInv, OfAttested, RevisionsKnown
<1>12. ASSUME Plain(n)' PROVE StartOk(n)'
  <2>1. Plain(n) /\ StartOk(n) /\ MemberOk(n)'
    BY <1>9, <1>12 DEF OnceInv
  <2>2. issue[n].version \notin governor[n].attested
    BY <1>2, <1>4, <2>1 DEF StartOk, MemberOk, Labelled
  <2>3. \A v \in governor[n].attested, revision \in Nat :
            Fixed(n, v, revision) => Fixed(n, v, revision)'
    BY <1>2, <2>2 DEF Fixed
  <2>4. QED
    BY <1>2, <1>9, <1>12, <2>1, <2>3 DEF StartOk, Epoch
<1>13. run'.at \notin {"idle", "reading", "base"} => run'.base <= base'
  BY <1>2, RunRevision
<1>14. QED
  BY <1>1, <1>10, <1>11, <1>12, <1>13 DEF OnceInv, Typing

\* What is recorded is of the revision that the run goes by (Record).
LEMMA RecordOnce ==
    ASSUME OnceInv, Record
    PROVE  OnceInv'
<1>1. Typing
  BY RecordTyped DEF OnceInv
<1>2. /\ run.at = "recording" /\ run' = NextMember
      /\ UNCHANGED <<issue, base, queue, worker, status, journal, irregular>>
  BY DEF Record, ofWorker
<1>3. PICK n \in Issues, seen \in Versions : n = This /\ seen = Seen
  BY <1>2, AtHand DEF OnceInv
<1>4. /\ Member \in run.todo /\ Member = [number |-> n, version |-> seen]
      /\ \A m \in run.todo : m.number = n => m = Member
  BY <1>2, <1>3, AtHand DEF OnceInv
<1>5. /\ \A i \in Issues : governor'[i].attested =
             IF i = n THEN governor[i].attested \union {seen} ELSE governor[i].attested
      /\ \A i \in Issues, v \in Versions : governor[i].epoch.dispatch[v] = "applied" =>
             governor'[i].epoch.dispatch[v] = "applied"
      /\ governor'[n].epoch.dispatch[seen] = "applied"
  <2>1. \A i \in Issues : WithStage("applied")[i].attested = governor[i].attested
    BY <1>2, StageTyped DEF OnceInv
  <2>2. \A i \in Issues : WithStage("applied")[i].epoch.dispatch =
           IF i = n THEN [governor[i].epoch.dispatch EXCEPT ![seen] = "applied"]
           ELSE governor[i].epoch.dispatch
    BY <1>2, <1>3, StageTyped DEF OnceInv
  <2>3. WithStage("applied") \in [Issues -> [epoch : EpochType, attested : SUBSET Versions]]
    BY <1>2, StageTyped DEF OnceInv
  <2>4. governor' = [WithStage("applied") EXCEPT ![n].attested = @ \union {seen}]
    BY <1>3 DEF Record
  <2>5. \A i \in Issues : governor[i].epoch.dispatch \in
           [Versions -> {"none", "candidate", "admitted", "applied"}]
    BY DEF OnceInv, BacklogTypeOK, EpochType
  <2>6. \A i \in Issues : governor'[i].epoch.dispatch = WithStage("applied")[i].epoch.dispatch
    BY <2>3, <2>4
  <2>7. \A i \in Issues : governor'[i].attested =
             IF i = n THEN governor[i].attested \union {seen} ELSE governor[i].attested
    BY <2>1, <2>3, <2>4
  <2>8. \A i \in Issues, v \in Versions : governor[i].epoch.dispatch[v] = "applied" =>
            WithStage("applied")[i].epoch.dispatch[v] = "applied"
    BY <2>2, <2>5
  <2>9. WithStage("applied")[n].epoch.dispatch[seen] = "applied"
    BY <2>2, <2>5
  <2>10. QED
    BY <2>6, <2>7, <2>8, <2>9
<1>6. /\ run'.todo = run.todo \ {Member}
      /\ run'.todo # {} => run'.at = "deciding" /\ run'.base = run.base
  BY <1>2, NextRun DEF OnceInv
<1>7. ASSUME NEW i \in Issues
      PROVE  OfAttested(i)' /\ RevisionsKnown(i)'
  BY <1>2, <1>5 DEF OnceInv, OfAttested, RevisionsKnown
<1>8. ASSUME NEW i \in Issues \ {n}
      PROVE  Plain(i)' => StartOk(i)'
  <2>1. Plain(i)' => MemberOk(i)'
    BY <1>2, <1>5, NextOnce DEF Plain
  <2>2. Plain(i)' => \A v \in governor[i].attested : governor'[i].epoch.dispatch[v] = "applied"
    BY <1>2, <1>5 DEF OnceInv, Plain, StartOk, Epoch, BacklogTypeOK
  <2>3. QED
    BY <1>2, <1>5, <2>1, <2>2, StillOnce
<1>9. ASSUME Plain(n)' PROVE StartOk(n)'
  <2>1. Plain(n) /\ StartOk(n)
    BY <1>2, <1>9 DEF Plain, OnceInv
  <2>2. seen \notin governor[n].attested /\ Older(n)
    BY <1>2, <1>4, <2>1 DEF StartOk, MemberOk, Labelled
  <2>3. PICK revision \in Nat : revision = run.base /\ revision <= base
    BY <1>2 DEF OnceInv, BacklogTypeOK, RunType
  <2>4. Fixed(n, seen, revision)'
    <3>1. OfAttested(n)
      BY DEF OnceInv
    <3>2. QED
      BY <1>2, <2>2, <2>3, <3>1 DEF Fixed, Older, OfAttested
  <2>5. \A v \in governor[n].attested, r \in Nat : Fixed(n, v, r) => Fixed(n, v, r)'
    BY <1>2 DEF Fixed
  <2>6. \A v \in governor'[n].attested : \E r \in Nat : r <= base' /\ Fixed(n, v, r)'
    BY <1>2, <1>5, <2>1, <2>3, <2>4, <2>5 DEF StartOk
  <2>7. \A v \in governor'[n].attested : Epoch(n)'.dispatch[v] = "applied"
    <3>1. governor[n].attested \subseteq Versions
      BY DEF OnceInv, BacklogTypeOK
    <3>2. QED
      BY <1>5, <2>1, <3>1 DEF StartOk, Epoch
  <2>8. MemberOk(n)'
    BY <1>4, <1>6 DEF MemberOk
  <2>9. QED
    BY <2>6, <2>7, <2>8 DEF StartOk
<1>10. run'.at \notin {"idle", "reading", "base"} => run'.base <= base'
  BY <1>2, RunRevision
<1>11. QED
  BY <1>1, <1>7, <1>8, <1>9, <1>10 DEF OnceInv, Typing


\* No step of an Issue takes the default branch back.
LEMMA BaseForward ==
    ASSUME BacklogTypeOK, NEW i \in Issues,
           \/ WorkerStep(i) \/ Defer(i) \/ OpenPull(i) \/ Block(i) \/ FailModel(i)
           \/ FailSetup(i) \/ Kill(i)
           \/ AdmitRecovery(i) \/ ApplyRecovery(i) \/ Relabel(i) \/ LoseRecovery(i)
           \/ AskFor(i) \/ TakeLabel(i)
           \/ Land(i) \/ Abandon(i) \/ CloseOrReopen(i)
    PROVE  base <= base'
<1>1. base \in Nat
  BY DEF BacklogTypeOK
<1>2. base' = base \/ base' = base + 1
  <2>1. CASE WorkerStep(i)
    BY <2>1 DEF WorkerStep, Take, Verify, Survey, StartModel, Replay, Complete, Check
  <2>2. CASE Defer(i) \/ OpenPull(i) \/ Block(i) \/ FailModel(i) \/ FailSetup(i) \/ Kill(i)
    BY <2>2 DEF Defer, OpenPull, Block, FailModel, FailSetup, Kill
  <2>3. CASE AdmitRecovery(i) \/ ApplyRecovery(i) \/ Relabel(i) \/ LoseRecovery(i)
    BY <2>3 DEF AdmitRecovery, ApplyRecovery, Relabel, LoseRecovery
  <2>4. CASE AskFor(i) \/ TakeLabel(i) \/ Land(i) \/ Abandon(i) \/ CloseOrReopen(i)
    BY <2>4 DEF AskFor, TakeLabel, Land, Abandon, CloseOrReopen, Outside
  <2>5. QED
    BY <2>1, <2>2, <2>3, <2>4
<1>3. QED
  BY <1>1, <1>2

\* Wakes, moves of the base, and steps that change nothing.
LEMMA QuietOnce ==
    ASSUME OnceInv, base' \in Nat, base <= base', wake' \in {wake, {Scan}},
           recovery' = recovery,
           UNCHANGED <<issue, governor, run, queue, worker, status, journal, irregular>>
    PROVE  OnceInv'
<1>1. Typing
  BY DEF OnceInv, Typing, BacklogTypeOK, RunOk
<1>2. ASSUME NEW i \in Issues
      PROVE  OfAttested(i)' /\ RevisionsKnown(i)' /\ (Plain(i)' => StartOk(i)')
  <2>1. Calm(i)
    BY DEF Calm, WorkerCalm, EntriesCalm
  <2>2. QED
    BY <1>1, <2>1, CalmKeeps
<1>3. run'.at \notin {"idle", "reading", "base"} => run'.base <= base'
  <2>1. base \in Nat /\ run.base \in Nat
    BY DEF OnceInv, BacklogTypeOK, RunType
  <2>2. QED
    BY <2>1 DEF OnceInv
<1>4. QED
  BY <1>1, <1>2, <1>3 DEF OnceInv, Typing

\* At first nothing is recorded.
LEMMA InitOnce ==
    ASSUME Init
    PROVE  OnceInv
<1>1. BacklogTypeOK /\ RunOk
  BY InitCounts DEF LimitInv
<1>2. /\ governor = [i \in Issues |-> [epoch |-> NewEpoch, attested |-> {}]]
      /\ run = Idle /\ queue = [i \in Issues |-> {}]
      /\ worker = [i \in Issues |-> Unemployed] /\ status = [i \in Issues |-> NoStatus]
      /\ journal = [i \in Issues |-> {}]
  BY DEF Init
<1>3. ASSUME NEW i \in Issues
      PROVE  OfAttested(i) /\ RevisionsKnown(i) /\ StartOk(i)
  <2>1. /\ governor[i].attested = {} /\ queue[i] = {} /\ journal[i] = {}
        /\ worker[i].at = "idle" /\ status[i].is = "none" /\ run.todo = {}
    BY <1>2, Typed DEF NoStatus
  <2>2. QED
    BY <2>1 DEF OfAttested, RevisionsKnown, StartOk, MemberOk
<1>4. run.at = "idle"
  BY <1>2, Typed
<1>5. QED
  BY <1>1, <1>3, <1>4 DEF OnceInv

\* Every step keeps what is recorded of one revision.
LEMMA StepOnce ==
    ASSUME OnceInv, [Next]_vars
    PROVE  OnceInv'
<1>1. BacklogTypeOK /\ RunOk
  BY DEF OnceInv
<1>2. CASE Dispatcher
  BY <1>2, StartOnce, SelectOnce, ReadBaseOnce, DecideOnce, ObserveOnce,
     AddLabelOnce, PostOnce, CleanOnce, RecordOnce DEF Dispatcher
<1>3. CASE Fault
  BY <1>3, FaultOnce
<1>4. CASE Scheduled \/ MoveBase \/ UNCHANGED vars
  <2>1. base \in Nat
    BY <1>1 DEF BacklogTypeOK
  <2>2. /\ base' \in Nat /\ base <= base' /\ wake' \in {wake, {Scan}} /\ recovery' = recovery
        /\ UNCHANGED <<issue, governor, run, queue, worker, status, journal, irregular>>
    BY <1>4, <2>1 DEF Scheduled, MoveBase, vars, ofWorker
  <2>3. QED
    BY <2>2, QuietOnce
<1>5. ASSUME NEW i \in Issues,
             \/ WorkerStep(i) \/ Defer(i) \/ OpenPull(i) \/ Block(i) \/ FailModel(i)
             \/ FailSetup(i) \/ Kill(i)
      PROVE  OnceInv'
  <2>1. base <= base'
    BY <1>1, <1>5, BaseForward
  <2>2. Typing /\ ByIssue(i) /\ Calm(i)
    BY <1>1, <1>5, TakeEffect, VerifyEffect, SurveyEffect, StartModelEffect, ReplayEffect,
       CompleteEffect, CheckEffect, DeferEffect, OpenPullEffect, BlockEffect, FailModelEffect,
       FailSetupEffect, KillEffect DEF WorkerStep
  <2>3. QED
    BY <2>1, <2>2, CalmOnce
<1>6. ASSUME NEW i \in Issues,
             \/ AdmitRecovery(i) \/ ApplyRecovery(i) \/ Relabel(i) \/ LoseRecovery(i)
             \/ AskFor(i) \/ TakeLabel(i)
             \/ Land(i) \/ Abandon(i) \/ CloseOrReopen(i)
      PROVE  OnceInv'
  <2>1. base <= base'
    BY <1>1, <1>6, BaseForward
  <2>2. Typing /\ ByIssue(i) /\ Calm(i)
    BY <1>1, <1>6, AdmitRecoveryEffect, ApplyRecoveryEffect, RelabelEffect, LoseRecoveryEffect,
       AskForEffect, TakeLabelEffect, LandEffect, AbandonEffect, CloseOrReopenEffect
  <2>3. QED
    BY <2>1, <2>2, CalmOnce
<1>7. ASSUME NEW i \in Issues, ResumeCapacity(i) \/ Edit(i) \/ Resume(i)
      PROVE  OnceInv'
  BY <1>7, ResumeCapacityOnce, EditOnce, ResumeOnce
<1>8. QED
  BY <1>2, <1>3, <1>4, <1>5, <1>6, <1>7 DEF Next

\* All that is or may still come of a recorded version of an Issue is of one
\* revision of the default branch, and a version is recorded once, unless the
\* Issue was resumed, cut off from its record or edited back (dsh-issue.mjs,
\* dispatch-backlog.mjs).
THEOREM OnceInvariant == Spec => []OnceInv
<1>1. Init => OnceInv
  BY InitOnce
<1>2. OnceInv /\ [Next]_vars => OnceInv'
  BY StepOnce
<1>3. QED
  BY <1>1, <1>2, PTL DEF Spec

\* The Worker of a state is started once (runRoleWorker in role-worker.mjs, called
\* by dsh-issue.mjs): a dispatch that is repeated, a wait that is resumed, a lost
\* run, an edit or a move of the base starts no second model for the same text of
\* an Issue, unless the state may be executed again.
THEOREM StartedOncePerState == Spec => OneStartPerState
<1>1. ASSUME OnceInv
      PROVE  \A i \in Issues :
                StartModel(i) =>
                    \/ irregular[i] \cap Repeatable # {}
                    \/ \A e \in journal[i] : e.execution[1] # worker[i].version
  <2>1. ASSUME NEW i \in Issues, StartModel(i), Plain(i), NEW e \in journal[i],
               e.execution[1] = worker[i].version
        PROVE  FALSE
    <3>1. worker[i].at = "ready" /\ Executed(i) = {}
      BY <2>1 DEF StartModel, Replayable
    <3>2. worker[i].version \in governor[i].attested
      BY <1>1, <3>1 DEF OnceInv, OfAttested
    <3>3. PICK revision \in Nat : Fixed(i, worker[i].version, revision)
      BY <1>1, <2>1, <3>2 DEF OnceInv, StartOk
    <3>4. e.execution[2] = revision /\ worker[i].request.base = revision
      BY <2>1, <3>1, <3>3 DEF Fixed
    <3>5. e.execution \in Versions \X Nat
      BY <1>1, <2>1 DEF OnceInv, BacklogTypeOK, JournalType
    <3>6. e.execution = Execution(i)
      BY <2>1, <3>4, <3>5 DEF Execution
    <3>7. QED
      BY <2>1, <3>1, <3>6 DEF Executed
  <2>2. QED
    BY <2>1 DEF Plain
<1>2. OnceInv => [\A i \in Issues :
                    StartModel(i) =>
                        \/ irregular[i] \cap Repeatable # {}
                        \/ \A e \in journal[i] : e.execution[1] # worker[i].version]_vars
  BY <1>1
<1>3. QED
  BY <1>2, OnceInvariant, PTL DEF OneStartPerState

=============================================================================

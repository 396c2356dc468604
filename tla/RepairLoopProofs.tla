------------------------- MODULE RepairLoopProofs -------------------------
(***************************************************************************)
(* What the repairs of one pull request guarantee for any number of runs,  *)
(* heads, attempts and recoveries, and any faults.  The first part types   *)
(* the state; the second shows what no step takes back; the third is the   *)
(* inductive invariant, by what a run has still to write and by what the   *)
(* status comments say of the runs that wrote them.                        *)
(***************************************************************************)
EXTENDS RepairLoop, FiniteSetTheorems, TLAPS

-----------------------------------------------------------------------------
(* Types                                                                   *)

Place == {"pending", "reading", "writing", "checkout", "claiming", "working",
          "committing", "judging", "ended"}
Terminal == {"succeed", "fail", "checkout"}
Item == Status \union Labels \union Records \union Terminal \union {"rerun", "advance"}
Outcome == {"none", "completed", "blocked", "failed"}

RunType ==
    [request : Request, source : Nat, at : Place, todo : Seq(Item), outcome : Outcome,
     charge : Nat, seen : Nat, head : Revision, recovery : {"none", "admitted", "done"},
     conclusion : {"none", "success", "failure", "cancelled"}]

PrType == [head : Revision, blocked : BOOLEAN, ready : BOOLEAN, paused : BOOLEAN]
CiType == [Revision -> [attempt : Nat, result : {"pending", "passed", "failed"}]]

LedgerType == [candidates : SUBSET Revision,
               started : SUBSET [head : Revision, attempt : Nat],
               recovered : SUBSET Revision, paused : BOOLEAN]

\* Each variable is in its type.
RepairTypeOK ==
    /\ pr \in PrType
    /\ ci \in CiType
    /\ reviews \in [Revision -> Nat]
    /\ runs \in Seq(RunType)
    /\ comments \subseteq [marker : Request \X Nat, status : Status, run : Nat]
    /\ journal \subseteq [execution : Request,
                          outcome : {"claimed", "completed", "blocked", "failed"}]
    /\ ledger \in LedgerType
    /\ IsFiniteSet(ledger.started)
    /\ wanted \subseteq Revision

\* The pull request and its CI runs.
LEMMA HeadTyped ==
    ASSUME RepairTypeOK
    PROVE  pr.head \in Revision /\ pr.head \in Nat /\ Revision \subseteq Nat
BY RepairAssumption DEF RepairTypeOK, PrType, Revision

\* The attempts of the CI runs are counted.
LEMMA CiTyped ==
    ASSUME RepairTypeOK
    PROVE  \A h \in Revision : ci[h].attempt \in Nat
BY DEF RepairTypeOK, CiType

\* A change of one field of the pull request leaves it in its type.
LEMMA PrChanged ==
    ASSUME NEW p \in PrType
    PROVE  /\ \A h \in Revision : /\ [p EXCEPT !.head = h] \in PrType
                                 /\ [p EXCEPT !.head = h].head = h
           /\ \A b \in BOOLEAN :
                 /\ [p EXCEPT !.blocked = b] \in PrType
                 /\ [p EXCEPT !.blocked = b].head = p.head
                 /\ [p EXCEPT !.ready = b] \in PrType
                 /\ [p EXCEPT !.ready = b].head = p.head
                 /\ [p EXCEPT !.ready = FALSE, !.blocked = b] \in PrType
                 /\ [p EXCEPT !.ready = FALSE, !.blocked = b].head = p.head
                 /\ [p EXCEPT !.paused = b] \in PrType
                 /\ [p EXCEPT !.paused = b].head = p.head
BY DEF PrType

\* What a run has still to write is well formed: it ends in its only terminal
\* item, a start or a failure is not written by a run that is to succeed, and
\* the next review is asked for before the repair is complete.
Script(todo) ==
    /\ todo \in Seq(Item)
    /\ Len(todo) >= 1
    /\ \A i \in 1 .. Len(todo) : todo[i] \in Terminal <=> i = Len(todo)
    /\ \A i \in 1 .. Len(todo) :
          todo[i] \in {"running", "failed"} => todo[Len(todo)] # "succeed"
    /\ \A i, j \in 1 .. Len(todo) : todo[i] = "complete" /\ todo[j] = "advance" => j < i

\* Each list of writes in the program is well formed.
LEMMA Scripts ==
    /\ Script(<<"running", "labels", "checkout">>)
    /\ Script(<<"candidate", "rerun", "succeed">>)
    /\ Script(<<"pause", "pause-label", "succeed">>)
    /\ Script(<<"ready", "advance", "clear", "fail">>)
    /\ Script(<<"failed", "block", "fail">>)
    /\ Script(<<"capacity-waiting", "succeed">>)
    /\ Script(<<"blocked", "succeed">>)
    /\ Script(<<"ready", "advance", "clear", "complete", "succeed">>)
    /\ Script(<<"complete", "succeed">>)
BY DEF Script, Item, Status, Labels, Records, Terminal

\* What is left of a list of writes after one that is not its last.
LEMMA ScriptTail ==
    ASSUME NEW todo, Script(todo), Head(todo) \notin Terminal
    PROVE  /\ Script(Tail(todo))
           /\ Len(todo) >= 2
           /\ Len(Tail(todo)) = Len(todo) - 1
           /\ \A i \in 1 .. Len(todo) - 1 : Tail(todo)[i] = todo[i + 1]
BY DEF Script

\* One run is replaced.
LEMMA RunsUpdated ==
    ASSUME runs \in Seq(RunType), NEW r \in RunId, NEW x \in RunType
    PROVE  [runs EXCEPT ![r] = x] \in Seq(RunType)
BY DEF RunId

Cancelled(run) == [run EXCEPT !.at = "ended", !.conclusion = "cancelled"]

\* The pending runs of a lane are cancelled and no other run changes.
LEMMA LaneDisplaced ==
    ASSUME runs \in Seq(RunType), NEW lane
    PROVE  /\ Displaced(lane) \in Seq(RunType)
           /\ Len(Displaced(lane)) = Len(runs)
           /\ DOMAIN Displaced(lane) = RunId
           /\ \A r \in RunId :
                 \/ Displaced(lane)[r] = runs[r]
                 \/ runs[r].at = "pending" /\ Displaced(lane)[r] = Cancelled(runs[r])
<1>1. \A r \in RunId : runs[r] \in RunType
  BY DEF RunId
<1>2. ASSUME NEW r \in RunId PROVE Cancelled(runs[r]) \in RunType
  BY <1>1 DEF RunType, Place, Cancelled
<1>3. /\ RunId = 1 .. Len(runs) /\ Len(runs) \in Nat
      /\ DOMAIN Displaced(lane) = RunId
  BY DEF Displaced, RunId
<1>4. ASSUME NEW r \in RunId
      PROVE  \/ Displaced(lane)[r] = runs[r]
             \/ runs[r].at = "pending" /\ Displaced(lane)[r] = Cancelled(runs[r])
  BY Zenon DEF Displaced, Cancelled
<1>5. \A r \in RunId : Displaced(lane)[r] \in RunType
  BY <1>1, <1>2, <1>4
<1>6. Displaced(lane) = [r \in 1 .. Len(runs) |-> Displaced(lane)[r]]
  BY <1>3, Zenon DEF Displaced
<1>7. Displaced(lane) \in Seq(RunType) /\ Len(Displaced(lane)) = Len(runs)
  BY <1>3, <1>5, <1>6
<1>8. QED
  BY <1>3, <1>4, <1>7

\* A run as it is requested.
Fresh(run) ==
    run.at = "pending" /\ run.outcome = "none" /\ run.conclusion = "none"

\* A run is appended behind those of its lane that are displaced.
LEMMA RunsEnqueued ==
    ASSUME runs \in Seq(RunType), NEW lane, NEW run \in RunType
    PROVE  /\ Append(Displaced(lane), run) \in Seq(RunType)
           /\ DOMAIN Append(Displaced(lane), run) = RunId \union {Len(runs) + 1}
           /\ Len(runs) + 1 \in Nat \ RunId
           /\ Append(Displaced(lane), run)[Len(runs) + 1] = run
           /\ \A r \in RunId : Append(Displaced(lane), run)[r] = Displaced(lane)[r]
<1> DEFINE d == Displaced(lane)
           e == Append(d, run)
<1>1. d \in Seq(RunType) /\ Len(d) = Len(runs) /\ DOMAIN d = RunId
  BY LaneDisplaced
<1> HIDE DEF d
<1>2. RunId = 1 .. Len(runs) /\ Len(runs) \in Nat
  BY DEF RunId
<1>3. /\ e \in Seq(RunType) /\ Len(e) = Len(runs) + 1
      /\ e[Len(runs) + 1] = run
      /\ \A r \in RunId : e[r] = d[r]
  BY <1>1, <1>2
<1>4. DOMAIN e = 1 .. (Len(runs) + 1)
  BY <1>2, <1>3
<1>5. QED
  BY <1>2, <1>3, <1>4 DEF d

-----------------------------------------------------------------------------
(* What one run's own steps change                                         *)

\* Only this run changes, and it stays the run of its request.
Only(r) ==
    /\ runs' \in Seq(RunType) /\ RunId' = RunId
    /\ runs'[r] \in RunType
    /\ runs'[r].request = runs[r].request /\ runs'[r].source = runs[r].source
    /\ \A o \in RunId : o # r => runs'[o] = runs[o]

Keeps(r) ==
    /\ runs'[r].outcome = runs[r].outcome /\ runs'[r].charge = runs[r].charge
    /\ runs'[r].head = runs[r].head

\* A run is replaced by one of the same request.
LEMMA Change ==
    ASSUME RepairTypeOK, NEW r \in RunId, NEW x \in RunType,
           x.request = runs[r].request, x.source = runs[r].source,
           runs' = [runs EXCEPT ![r] = x]
    PROVE  Only(r) /\ runs'[r] = x
<1>1. runs \in Seq(RunType)
  BY DEF RepairTypeOK
<1>2. runs' \in Seq(RunType)
  BY <1>1, RunsUpdated
<1>3. RunId' = RunId /\ runs'[r] = x /\ \A o \in RunId : o # r => runs'[o] = runs[o]
  BY <1>1 DEF RunId
<1>4. QED
  BY <1>2, <1>3 DEF Only

\* What a run says of its request is typed.
LEMMA RunTyped ==
    ASSUME RepairTypeOK, NEW r \in RunId
    PROVE  /\ runs[r] \in RunType /\ r \in Nat
           /\ RequestOf(r) \in Request /\ HeadOf(r) \in Revision
           /\ Marker(r) \in Request \X Nat
<1>1. runs[r] \in RunType /\ r \in Nat
  BY DEF RepairTypeOK, RunId
<1>2. QED
  BY <1>1 DEF RunType, RequestOf, HeadOf, Marker, Request

\* A run goes on to another place.
LEMMA GotoChange ==
    ASSUME RepairTypeOK, NEW r \in RunId, NEW place \in Place, Goto(r, place)
    PROVE  /\ Only(r) /\ Keeps(r)
           /\ runs'[r].at = place /\ runs'[r].todo = runs[r].todo
           /\ runs'[r].conclusion = runs[r].conclusion
<1> DEFINE x == [runs[r] EXCEPT !.at = place]
<1>1. runs[r] \in RunType
  BY RunTyped
<1>2. /\ x \in RunType /\ x.request = runs[r].request /\ x.source = runs[r].source
      /\ x.at = place /\ x.todo = runs[r].todo /\ x.outcome = runs[r].outcome
      /\ x.charge = runs[r].charge /\ x.head = runs[r].head
      /\ x.conclusion = runs[r].conclusion
  BY <1>1 DEF RunType
<1>3. runs' = [runs EXCEPT ![r] = x]
  BY DEF Goto
<1> HIDE DEF x
<1>4. Only(r) /\ runs'[r] = x
  BY <1>2, <1>3, Change
<1>5. QED
  BY <1>2, <1>4 DEF Keeps

\* A run notes what it is to write.
LEMMA PlanChange ==
    ASSUME RepairTypeOK, NEW r \in RunId, NEW todo \in Seq(Item), Plan(r, todo)
    PROVE  /\ Only(r) /\ Keeps(r)
           /\ runs'[r].at = "writing" /\ runs'[r].todo = todo
           /\ runs'[r].conclusion = runs[r].conclusion
<1> DEFINE x == [runs[r] EXCEPT !.at = "writing", !.todo = todo]
<1>1. runs[r] \in RunType
  BY RunTyped
<1>2. /\ x \in RunType /\ x.request = runs[r].request /\ x.source = runs[r].source
      /\ x.at = "writing" /\ x.todo = todo /\ x.outcome = runs[r].outcome
      /\ x.charge = runs[r].charge /\ x.head = runs[r].head
      /\ x.conclusion = runs[r].conclusion
  BY <1>1 DEF RunType, Place
<1>3. runs' = [runs EXCEPT ![r] = x]
  BY DEF Plan
<1> HIDE DEF x
<1>4. Only(r) /\ runs'[r] = x
  BY <1>2, <1>3, Change
<1>5. QED
  BY <1>2, <1>4 DEF Keeps

\* A run stops.
LEMMA StopChange ==
    ASSUME RepairTypeOK, NEW r \in RunId,
           NEW conclusion \in {"success", "failure"}, Stop(r, conclusion)
    PROVE  /\ Only(r) /\ Keeps(r)
           /\ runs'[r].at = "ended" /\ runs'[r].conclusion = conclusion
<1> DEFINE x == [runs[r] EXCEPT !.at = "ended", !.conclusion = conclusion, !.todo = << >>]
<1>1. runs[r] \in RunType
  BY RunTyped
<1>2. /\ x \in RunType /\ x.request = runs[r].request /\ x.source = runs[r].source
      /\ x.at = "ended" /\ x.outcome = runs[r].outcome
      /\ x.charge = runs[r].charge /\ x.head = runs[r].head
      /\ x.conclusion = conclusion
  <2>1. << >> \in Seq(Item)
    OBVIOUS
  <2>2. QED
    BY <1>1, <2>1 DEF RunType, Place
<1>3. runs' = [runs EXCEPT ![r] = x]
  BY DEF Stop
<1> HIDE DEF x
<1>4. Only(r) /\ runs'[r] = x
  BY <1>2, <1>3, Change
<1>5. QED
  BY <1>2, <1>4 DEF Keeps

\* The head that is current is noted with what is to be written.
LEMMA NotedChange ==
    ASSUME RepairTypeOK, NEW r \in RunId, NEW todo \in Seq(Item), NEW head \in Revision,
           runs' = [runs EXCEPT ![r].at = "writing", ![r].head = head, ![r].todo = todo]
    PROVE  /\ Only(r)
           /\ runs'[r].at = "writing" /\ runs'[r].todo = todo /\ runs'[r].head = head
           /\ runs'[r].outcome = runs[r].outcome /\ runs'[r].charge = runs[r].charge
           /\ runs'[r].conclusion = runs[r].conclusion
<1> DEFINE x == [runs[r] EXCEPT !.at = "writing", !.head = head, !.todo = todo]
<1>1. runs[r] \in RunType
  BY RunTyped
<1>2. /\ x \in RunType /\ x.request = runs[r].request /\ x.source = runs[r].source
      /\ x.at = "writing" /\ x.todo = todo /\ x.head = head
      /\ x.outcome = runs[r].outcome /\ x.charge = runs[r].charge
      /\ x.conclusion = runs[r].conclusion
  BY <1>1 DEF RunType, Place
<1>3. runs' = [runs EXCEPT ![r] = x]
  OBVIOUS
<1> HIDE DEF x
<1>4. Only(r) /\ runs'[r] = x
  BY <1>2, <1>3, Change
<1>5. QED
  BY <1>2, <1>4

\* The charge is noted with the writes of the start.
LEMMA ChargedChange ==
    ASSUME RepairTypeOK, NEW r \in RunId, NEW todo \in Seq(Item), NEW charge \in Nat,
           runs' = [runs EXCEPT ![r].at = "writing", ![r].charge = charge, ![r].todo = todo]
    PROVE  /\ Only(r)
           /\ runs'[r].at = "writing" /\ runs'[r].todo = todo /\ runs'[r].charge = charge
           /\ runs'[r].outcome = runs[r].outcome /\ runs'[r].head = runs[r].head
           /\ runs'[r].conclusion = runs[r].conclusion
<1> DEFINE x == [runs[r] EXCEPT !.at = "writing", !.charge = charge, !.todo = todo]
<1>1. runs[r] \in RunType
  BY RunTyped
<1>2. /\ x \in RunType /\ x.request = runs[r].request /\ x.source = runs[r].source
      /\ x.at = "writing" /\ x.todo = todo /\ x.charge = charge
      /\ x.outcome = runs[r].outcome /\ x.head = runs[r].head
      /\ x.conclusion = runs[r].conclusion
  BY <1>1 DEF RunType, Place
<1>3. runs' = [runs EXCEPT ![r] = x]
  OBVIOUS
<1> HIDE DEF x
<1>4. Only(r) /\ runs'[r] = x
  BY <1>2, <1>3, Change
<1>5. QED
  BY <1>2, <1>4

\* The outcome of the Worker is noted.
LEMMA OutcomeChange ==
    ASSUME RepairTypeOK, NEW r \in RunId, NEW outcome \in Outcome,
           runs' = [runs EXCEPT ![r].at = "committing", ![r].outcome = outcome]
    PROVE  /\ Only(r)
           /\ runs'[r].at = "committing" /\ runs'[r].outcome = outcome
           /\ runs'[r].charge = runs[r].charge /\ runs'[r].head = runs[r].head
           /\ runs'[r].conclusion = runs[r].conclusion
<1> DEFINE x == [runs[r] EXCEPT !.at = "committing", !.outcome = outcome]
<1>1. runs[r] \in RunType
  BY RunTyped
<1>2. /\ x \in RunType /\ x.request = runs[r].request /\ x.source = runs[r].source
      /\ x.at = "committing" /\ x.outcome = outcome
      /\ x.charge = runs[r].charge /\ x.head = runs[r].head
      /\ x.conclusion = runs[r].conclusion
  BY <1>1 DEF RunType, Place
<1>3. runs' = [runs EXCEPT ![r] = x]
  OBVIOUS
<1> HIDE DEF x
<1>4. Only(r) /\ runs'[r] = x
  BY <1>2, <1>3, Change
<1>5. QED
  BY <1>2, <1>4

\* One item is written.
LEMMA WrittenChange ==
    ASSUME RepairTypeOK, NEW r \in RunId, Script(runs[r].todo),
           Head(runs[r].todo) \notin Terminal, Written(r)
    PROVE  /\ Only(r) /\ Keeps(r)
           /\ runs'[r].at = runs[r].at /\ runs'[r].todo = Tail(runs[r].todo)
           /\ runs'[r].conclusion = runs[r].conclusion
<1> DEFINE seen == IF Head(runs[r].todo) = "labels" THEN reviews[HeadOf(r)] ELSE runs[r].seen
           todo == Tail(runs[r].todo)
           x == [runs[r] EXCEPT !.todo = todo, !.seen = seen]
<1>1. runs[r] \in RunType
  BY RunTyped
<1>2. todo \in Seq(Item)
  BY ScriptTail DEF Script
<1>3. seen \in Nat
  BY <1>1, RunTyped DEF RunType, RepairTypeOK
<1>4. runs' = [runs EXCEPT ![r] = x]
  BY DEF Written
<1> HIDE DEF seen, todo
<1>5. /\ x \in RunType /\ x.request = runs[r].request /\ x.source = runs[r].source
      /\ x.at = runs[r].at /\ x.todo = todo
      /\ x.outcome = runs[r].outcome /\ x.charge = runs[r].charge /\ x.head = runs[r].head
      /\ x.conclusion = runs[r].conclusion
  BY <1>1, <1>2, <1>3 DEF RunType
<1> HIDE DEF x
<1>6. Only(r) /\ runs'[r] = x
  BY <1>4, <1>5, Change
<1>7. QED
  BY <1>5, <1>6 DEF Keeps, todo

\* What recovery made of the run is noted.
LEMMA RecoveryChange ==
    ASSUME RepairTypeOK, NEW r \in RunId, NEW recovery \in {"none", "admitted", "done"},
           runs' = [runs EXCEPT ![r].recovery = recovery]
    PROVE  /\ Only(r) /\ Keeps(r)
           /\ runs'[r].at = runs[r].at /\ runs'[r].todo = runs[r].todo
           /\ runs'[r].conclusion = runs[r].conclusion
<1> DEFINE x == [runs[r] EXCEPT !.recovery = recovery]
<1>1. runs[r] \in RunType
  BY RunTyped
<1>2. /\ x \in RunType /\ x.request = runs[r].request /\ x.source = runs[r].source
      /\ x.at = runs[r].at /\ x.todo = runs[r].todo
      /\ x.outcome = runs[r].outcome /\ x.charge = runs[r].charge /\ x.head = runs[r].head
      /\ x.conclusion = runs[r].conclusion
  BY <1>1 DEF RunType
<1>3. runs' = [runs EXCEPT ![r] = x]
  OBVIOUS
<1> HIDE DEF x
<1>4. Only(r) /\ runs'[r] = x
  BY <1>2, <1>3, Change
<1>5. QED
  BY <1>2, <1>4 DEF Keeps
-----------------------------------------------------------------------------
(* The inductive invariant                                                 *)

Writes(r, item) ==
    runs[r].at = "writing" /\ \E i \in 1 .. Len(runs[r].todo) : runs[r].todo[i] = item
Starting(r) ==
    runs[r].at \in {"checkout", "claiming", "working", "committing"} \/ Writes(r, "checkout")
Posts(r) ==
    /\ runs[r].at \notin {"pending", "reading", "ended"}
    /\ \/ Starting(r) \/ runs[r].at = "judging" \/ runs[r].outcome # "none"
       \/ \E status \in Status : Writes(r, status)

\* The Worker of a request ended, and the journal has its outcome.
Closed(q) == \E e \in journal : e.execution = q /\ e.outcome # "claimed"

\* What CompleteIsHandedOn asks of a request.
Proven(q) ==
    \/ \E h \in wanted : h > q.head
    \/ q.kind = "review" /\ q.head \in wanted
    \/ q.kind = "ci" /\ ci[q.head].attempt > q.nth

\* The review the run asks for proves its request.
HandsOn(r) ==
    \/ runs[r].head > HeadOf(r)
    \/ RequestOf(r).kind = "review" /\ runs[r].head = HeadOf(r)

\* A repair is charged from its start to its end, proven when it says so, and
\* its outcome is the one of the journal.
RunOk(r) ==
    /\ runs[r].at = "writing" => Script(runs[r].todo)
    /\ HeadOf(r) <= pr.head
    /\ RequestOf(r).kind = "ci" /\ Starting(r) => runs[r].charge # 0 \/ Started(HeadOf(r))
    /\ RequestOf(r).kind = "ci"
          /\ (runs[r].at = "judging" \/ Writes(r, "complete") \/ Writes(r, "blocked"))
       => Started(HeadOf(r))
    /\ Writes(r, "complete") => Proven(RequestOf(r)) \/ (Writes(r, "advance") /\ HandsOn(r))
    /\ runs[r].outcome # "none" =>
          Closed(RequestOf(r)) /\ runs[r].at \notin {"pending", "reading"}

\* A run that posts found no status of another run that ends its request.
MarkedOk(r) ==
    Posts(r) => \A c \in comments : c.marker = Marker(r) /\ c.run # r
                                       => c.status \in {"running", "capacity-waiting"}

\* A run whose comment says that it runs does not succeed before another status.
Interrupted(r) ==
    /\ Writes(r, "succeed") =>
          \E status \in Status \ {"running"} : Writes(r, status)
    /\ Ended(r) => runs[r].conclusion # "success"

CommentOk(c) ==
    /\ c.run \in RunId /\ c.marker = Marker(c.run)
    /\ runs[c.run].at \notin {"pending", "reading"}
    /\ c.status = "running" => Interrupted(c.run)
    /\ c.status = "complete" => Proven(c.marker[1])
    /\ c.status \in {"complete", "blocked"} /\ c.marker[1].kind = "ci"
          => Started(c.marker[1].head)

\* One run at a time in each lane.
LanesOk ==
    \A r, o \in RunId : Running(r) /\ Running(o) /\ LaneOf(r) = LaneOf(o) => r = o

ModelsOk == \A model \in models : model[2] \in RunId /\ model[1] = RequestOf(model[2])

RepairInv ==
    /\ RepairTypeOK
    /\ \A r \in RunId : RunOk(r) /\ MarkedOk(r)
    /\ \A c \in comments : CommentOk(c)
    /\ LanesOk
    /\ ModelsOk

\* What no step takes back.
Grow ==
    /\ ledger.started \subseteq ledger'.started
    /\ pr.head <= pr'.head
    /\ wanted \subseteq wanted'
    /\ \A h \in Revision : ci[h].attempt <= ci'[h].attempt
    /\ \A q \in Request : Closed(q) => Closed(q)'

\* What was proven, charged or closed once stays so.
LEMMA Monotone ==
    ASSUME RepairTypeOK, RepairTypeOK', Grow, NEW q \in Request
    PROVE  /\ Proven(q) => Proven(q)'
           /\ Started(q.head) => Started(q.head)'
           /\ Closed(q) => Closed(q)'
<1>1. q.head \in Revision /\ q.nth \in Nat
  BY DEF Request
<1>2. /\ ci[q.head].attempt \in Nat /\ ci'[q.head].attempt \in Nat
      /\ ci[q.head].attempt <= ci'[q.head].attempt
  BY <1>1 DEF RepairTypeOK, CiType, Grow
<1>3. QED
  BY <1>1, <1>2 DEF Grow, Proven, Started

\* A run that does not change stays as it should be, and so does one that is
\* displaced or recovered.
Stays(o) ==
    /\ runs'[o].request = runs[o].request /\ runs'[o].source = runs[o].source
    /\ runs'[o].outcome = runs[o].outcome
    /\ \/ /\ runs'[o].at = runs[o].at /\ runs'[o].todo = runs[o].todo
          /\ runs'[o].charge = runs[o].charge /\ runs'[o].head = runs[o].head
          /\ runs'[o].conclusion = runs[o].conclusion
       \/ runs[o].at = "pending" /\ runs'[o].at = "ended"

\* The invariant of a run that stays.
LEMMA StaysOk ==
    ASSUME RepairTypeOK, RepairTypeOK', Grow, NEW o \in RunId, Stays(o), RunOk(o)
    PROVE  RunOk(o)'
<1> DEFINE same == /\ runs'[o].at = runs[o].at /\ runs'[o].todo = runs[o].todo
                   /\ runs'[o].charge = runs[o].charge /\ runs'[o].head = runs[o].head
<1>1. /\ RequestOf(o)' = RequestOf(o) /\ HeadOf(o)' = HeadOf(o)
      /\ HeadOf(o) = RequestOf(o).head /\ runs'[o].outcome = runs[o].outcome
  BY DEF Stays, RequestOf, HeadOf
<1>2. /\ RequestOf(o) \in Request /\ HeadOf(o) \in Nat
      /\ pr.head \in Nat /\ pr'.head \in Nat
  <2>1. Revision \subseteq Nat
    BY RepairAssumption DEF Revision
  <2>2. pr.head \in Revision /\ pr'.head \in Revision
    BY DEF RepairTypeOK, PrType
  <2>3. QED
    BY <2>1, <2>2, RunTyped
<1>3. HeadOf(o)' <= pr'.head
  BY <1>1, <1>2 DEF RunOk, Grow
<1>4. PICK q \in Request : q = RequestOf(o)
  BY <1>2
<1>5. /\ Proven(q) => Proven(q)'
      /\ Started(q.head) => Started(q.head)'
      /\ Closed(q) => Closed(q)'
  BY Monotone
<1>6. CASE runs'[o].at = "ended"
  BY <1>1, <1>3, <1>4, <1>5, <1>6 DEF RunOk, Starting, Writes
<1>7. CASE same
  <2>1. \A item : Writes(o, item)' <=> Writes(o, item)
    BY <1>7 DEF Writes
  <2>2. (Starting(o)' <=> Starting(o)) /\ (HandsOn(o)' <=> HandsOn(o))
    BY <1>1, <1>7, <2>1 DEF Starting, HandsOn
  <2>3. QED
    BY <1>1, <1>3, <1>4, <1>5, <1>7, <2>1, <2>2 DEF RunOk
<1>8. QED
  BY <1>6, <1>7 DEF Stays

\* Runs are requested, displaced or recovered; nothing else is done.
LEMMA Arrived ==
    ASSUME RepairInv, RepairTypeOK', Grow, RunId \subseteq RunId',
           \A o \in RunId : Stays(o),
           \A n \in RunId' \ RunId : Fresh(runs'[n]) /\ HeadOf(n)' <= pr'.head,
           UNCHANGED <<comments, models>>
    PROVE  RepairInv'
<1> USE DEF RepairInv
<1>1. ASSUME NEW o \in RunId PROVE RunOk(o)'
  BY <1>1, StaysOk
<1>2. ASSUME NEW n \in RunId' \ RunId PROVE RunOk(n)' /\ MarkedOk(n)' /\ ~Running(n)'
  BY <1>2 DEF Fresh, RunOk, MarkedOk, Posts, Starting, Writes, Running
<1>3. ASSUME NEW o \in RunId
      PROVE  /\ Posts(o)' => Posts(o)
             /\ Running(o)' => Running(o)
             /\ RequestOf(o)' = RequestOf(o) /\ Marker(o)' = Marker(o) /\ LaneOf(o)' = LaneOf(o)
             /\ \/ runs[o].at = "pending"
                \/ runs'[o].at = runs[o].at /\ (Interrupted(o) => Interrupted(o)')
  BY <1>3 DEF Stays, Posts, Starting, Writes, Running, Marker, LaneOf, RequestOf, Interrupted, Ended
<1>4. ASSUME NEW o \in RunId PROVE MarkedOk(o)'
  BY <1>3, <1>4 DEF MarkedOk
<1>5. ASSUME NEW c \in comments PROVE CommentOk(c)'
  <2>1. CommentOk(c)
    OBVIOUS
  <2>2. /\ c.run \in RunId' /\ c.marker = Marker(c.run)'
        /\ runs'[c.run].at = runs[c.run].at /\ (Interrupted(c.run) => Interrupted(c.run)')
    BY <1>3, <2>1 DEF CommentOk
  <2>3. PICK q \in Request : q = c.marker[1]
    BY <1>5 DEF RepairTypeOK
  <2>4. (Proven(q) => Proven(q)') /\ (Started(q.head) => Started(q.head)')
    BY Monotone
  <2>5. QED
    BY <2>1, <2>2, <2>3, <2>4 DEF CommentOk
<1>6. LanesOk'
  BY <1>2, <1>3 DEF LanesOk
<1>7. ModelsOk'
  BY <1>3 DEF ModelsOk
<1>8. QED
  BY <1>1, <1>2, <1>4, <1>5, <1>6, <1>7

\* What a step of a run leaves alone.
Alone(r) ==
    /\ Only(r) /\ RunOk(r)'
    /\ Running(r)' =>
          \A o \in RunId \ {r} : ~(Running(o) /\ LaneOf(o) = LaneOf(r))
    /\ models' \subseteq models \union {<<RequestOf(r), r>>}

\* Whatever a run does, all others stay as they should be.
LEMMA OthersStay ==
    ASSUME RepairInv, RepairTypeOK', Grow, NEW r \in RunId, Alone(r)
    PROVE  /\ \A o \in RunId' : RunOk(o)'
           /\ \A o \in RunId : /\ Marker(o)' = Marker(o)
                              /\ RequestOf(o)' = RequestOf(o) /\ LaneOf(o)' = LaneOf(o)
           /\ \A o \in RunId :
                 o # r => /\ Posts(o)' => Posts(o)
                          /\ Interrupted(o) => Interrupted(o)'
                          /\ runs'[o] = runs[o]
           /\ \A c \in comments : c.run # r => CommentOk(c)'
           /\ LanesOk' /\ ModelsOk'
<1> USE DEF RepairInv
<1>1. RunId' = RunId /\ RunOk(r)' /\ \A o \in RunId \ {r} : runs'[o] = runs[o]
  BY DEF Alone, Only
<1>2. ASSUME NEW o \in RunId PROVE RunOk(o)'
  <2>1. CASE o = r
    BY <1>1, <2>1
  <2>2. CASE o # r
    <3>1. Stays(o)
      BY <1>1, <2>2 DEF Stays
    <3>2. QED
      BY <3>1, StaysOk
  <2>3. QED
    BY <2>1, <2>2
<1>3. ASSUME NEW o \in RunId
      PROVE  Marker(o)' = Marker(o) /\ RequestOf(o)' = RequestOf(o) /\ LaneOf(o)' = LaneOf(o)
  BY <1>1 DEF Alone, Only, Marker, RequestOf, LaneOf
<1>4. ASSUME NEW o \in RunId, o # r
      PROVE  /\ Posts(o)' => Posts(o)
             /\ Interrupted(o) => Interrupted(o)'
             /\ Running(o)' => Running(o)
  BY <1>1, <1>4 DEF Posts, Starting, Writes, Interrupted, Ended, Running
<1>5. ASSUME NEW c \in comments, c.run # r PROVE CommentOk(c)'
  <2>1. CommentOk(c)
    OBVIOUS
  <2>2. /\ c.run \in RunId' /\ c.marker = Marker(c.run)'
        /\ runs'[c.run].at = runs[c.run].at /\ (Interrupted(c.run) => Interrupted(c.run)')
    BY <1>1, <1>3, <1>4, <1>5, <2>1 DEF CommentOk
  <2>3. PICK q \in Request : q = c.marker[1]
    BY <1>5 DEF RepairTypeOK
  <2>4. (Proven(q) => Proven(q)') /\ (Started(q.head) => Started(q.head)')
    BY Monotone
  <2>5. QED
    BY <2>1, <2>2, <2>3, <2>4 DEF CommentOk
<1>6. LanesOk'
  BY <1>1, <1>3, <1>4 DEF LanesOk, Alone
<1>7. ModelsOk'
  BY <1>1, <1>3 DEF ModelsOk, Alone
<1>8. QED
  BY <1>1, <1>2, <1>3, <1>4, <1>5, <1>6, <1>7

Unmarked(r) ==
    \A c \in comments : c.marker = Marker(r) /\ c.run # r
                            => c.status \in {"running", "capacity-waiting"}

\* A step of a run that posts no status.
LEMMA Silent ==
    ASSUME RepairInv, RepairTypeOK', Grow, NEW r \in RunId, Alone(r),
           UNCHANGED comments, Posts(r)' => Unmarked(r),
           \A c \in comments : c.run = r =>
              /\ runs'[r].at \notin {"pending", "reading"}
              /\ c.status = "running" => Interrupted(r)'
    PROVE  RepairInv'
<1> USE DEF RepairInv
<1>1. RunId' = RunId
  BY DEF Alone, Only
<1>2. ASSUME NEW o \in RunId PROVE MarkedOk(o)'
  <2>1. Marker(o)' = Marker(o) /\ MarkedOk(o)
    BY OthersStay
  <2>2. Posts(o)' => Unmarked(o)
    <3>1. CASE o = r
      BY <3>1
    <3>2. CASE o # r
      <4>1. Posts(o)' => Posts(o)
        BY <3>2, OthersStay
      <4>2. QED
        BY <2>1, <4>1 DEF MarkedOk, Unmarked
    <3>3. QED
      BY <3>1, <3>2
  <2>3. QED
    BY <2>1, <2>2 DEF MarkedOk, Unmarked
<1>3. ASSUME NEW c \in comments PROVE CommentOk(c)'
  <2>1. CASE c.run # r
    BY <2>1, OthersStay
  <2>2. CASE c.run = r
    <3>1. CommentOk(c)
      OBVIOUS
    <3>2. /\ c.run \in RunId' /\ c.marker = Marker(c.run)'
          /\ runs'[c.run].at \notin {"pending", "reading"}
          /\ c.status = "running" => Interrupted(c.run)'
      BY <1>1, <2>2, <3>1, OthersStay DEF CommentOk
    <3>3. PICK q \in Request : q = c.marker[1]
      BY <1>3 DEF RepairTypeOK
    <3>4. (Proven(q) => Proven(q)') /\ (Started(q.head) => Started(q.head)')
      BY Monotone
    <3>5. QED
      BY <3>1, <3>2, <3>3, <3>4 DEF CommentOk
  <2>3. QED
    BY <2>1, <2>2
<1>4. QED
  BY <1>1, <1>2, <1>3, OthersStay

\* A step of a run that posts a status.
LEMMA Speaks ==
    ASSUME RepairInv, RepairTypeOK', Grow, NEW r \in RunId, Alone(r),
           Running(r), Posts(r), NEW status \in Status, Post(r, status),
           runs'[r].at \notin {"pending", "reading"},
           status = "running" => Interrupted(r)',
           status = "complete" => Proven(RequestOf(r))',
           status \in {"complete", "blocked"} /\ RequestOf(r).kind = "ci" => Started(HeadOf(r))'
    PROVE  RepairInv'
<1> USE DEF RepairInv
<1> DEFINE new == [marker |-> Marker(r), status |-> status, run |-> r]
<1>1. RunId' = RunId /\ comments' = {c \in comments : c.marker # Marker(r)} \union {new}
  BY DEF Alone, Only, Post
<1>2. ASSUME NEW o \in RunId PROVE MarkedOk(o)'
  <2>1. CASE o = r
    BY <1>1, <2>1, OthersStay DEF MarkedOk
  <2>2. CASE o # r
    <3>1. ASSUME Posts(o) PROVE Marker(o) # Marker(r)
      <4>1. Running(o)
        BY <3>1 DEF Posts, Writes, Running
      <4>2. LaneOf(o) # LaneOf(r)
        BY <2>2, <4>1 DEF LanesOk
      <4>3. QED
        BY <4>2 DEF LaneOf, Marker
    <3>2. (Posts(o)' => Posts(o)) /\ Marker(o)' = Marker(o) /\ MarkedOk(o)
      BY <2>2, OthersStay
    <3>3. new.marker = Marker(r)
      OBVIOUS
    <3> HIDE DEF new
    <3>4. QED
      BY <1>1, <3>1, <3>2, <3>3 DEF MarkedOk
  <2>3. QED
    BY <2>1, <2>2
<1>3. ASSUME NEW c \in comments, c.marker # Marker(r) PROVE CommentOk(c)'
  <2>1. c.run # r
    BY <1>3 DEF CommentOk
  <2>2. QED
    BY <2>1, OthersStay
<1>4. ASSUME NEW c, c = new PROVE CommentOk(c)'
  <2>1. c.marker = Marker(r) /\ c.status = status /\ c.run = r
    BY <1>4
  <2>2. /\ Marker(r)' = Marker(r) /\ RequestOf(r)' = RequestOf(r)
        /\ Marker(r)[1] = RequestOf(r) /\ HeadOf(r)' = RequestOf(r).head
    <3>1. Marker(r)' = Marker(r) /\ RequestOf(r)' = RequestOf(r)
      BY OthersStay
    <3>2. HeadOf(r)' = RequestOf(r)'.head
      BY DEF HeadOf, RequestOf
    <3>3. QED
      BY <3>1, <3>2 DEF Marker, RequestOf
  <2>3. PICK q : q = RequestOf(r)
    OBVIOUS
  <2>4. /\ status = "complete" => Proven(q)'
        /\ status \in {"complete", "blocked"} /\ q.kind = "ci" => Started(q.head)'
    BY <2>2, <2>3
  <2>5. QED
    BY <1>1, <2>1, <2>2, <2>3, <2>4 DEF CommentOk
<1>5. QED
  BY <1>1, <1>2, <1>3, <1>4, OthersStay

-----------------------------------------------------------------------------
(* The steps of a run                                                      *)

\* A step that writes nothing but the run.
LEMMA Quiet ==
    ASSUME RepairTypeOK, runs' \in Seq(RunType),
           UNCHANGED <<pr, ci, reviews, comments, journal, ledger, wanted>>
    PROVE  RepairTypeOK' /\ Grow
<1>1. RepairTypeOK'
  BY DEF RepairTypeOK
<1>2. pr.head \in Nat /\ \A h \in Revision : ci[h].attempt \in Nat
  BY HeadTyped, CiTyped
<1>3. QED
  BY <1>1, <1>2 DEF Grow, Closed

\* What is so of a run of which only its own step changes something.
LEMMA Own ==
    ASSUME RepairInv, RepairTypeOK', Grow, NEW r \in RunId, Only(r)
    PROVE  /\ RequestOf(r) \in Request /\ RequestOf(r)' = RequestOf(r)
           /\ HeadOf(r) = RequestOf(r).head /\ HeadOf(r)' = HeadOf(r)
           /\ Marker(r)' = Marker(r) /\ LaneOf(r)' = LaneOf(r)
           /\ HeadOf(r)' <= pr'.head
           /\ Started(HeadOf(r)) => Started(HeadOf(r))'
           /\ Closed(RequestOf(r)) => Closed(RequestOf(r))'
           /\ Proven(RequestOf(r)) => Proven(RequestOf(r))'
<1> USE DEF RepairInv
<1>1. /\ RequestOf(r)' = RequestOf(r) /\ HeadOf(r)' = HeadOf(r)
      /\ HeadOf(r) = RequestOf(r).head
      /\ Marker(r)' = Marker(r) /\ LaneOf(r)' = LaneOf(r)
  BY DEF Only, RequestOf, HeadOf, Marker, LaneOf
<1>2. /\ RequestOf(r) \in Request /\ HeadOf(r) \in Nat
      /\ pr.head \in Nat /\ pr'.head \in Nat
  <2>1. Revision \subseteq Nat
    BY RepairAssumption DEF Revision
  <2>2. pr.head \in Revision /\ pr'.head \in Revision
    BY DEF RepairTypeOK, PrType
  <2>3. QED
    BY <2>1, <2>2, RunTyped
<1>3. HeadOf(r)' <= pr'.head
  BY <1>1, <1>2 DEF RunOk, Grow
<1>4. PICK q \in Request : q = RequestOf(r)
  BY <1>2
<1>5. /\ Proven(q) => Proven(q)'
      /\ Started(q.head) => Started(q.head)'
      /\ Closed(q) => Closed(q)'
  BY Monotone
<1>6. QED
  BY <1>1, <1>2, <1>3, <1>4, <1>5

\* A run that goes on is still the only one of its lane.
LEMMA StillAlone ==
    ASSUME RepairInv, NEW r \in RunId, Only(r), RunOk(r)', Running(r),
           models' \subseteq models \union {<<RequestOf(r), r>>}
    PROVE  Alone(r)
BY DEF Alone, RepairInv, LanesOk

\* A run ends.
LEMMA Ends ==
    ASSUME RepairInv, RepairTypeOK', Grow, NEW r \in RunId, Only(r), Running(r),
           runs'[r].at = "ended", runs'[r].outcome = runs[r].outcome,
           UNCHANGED <<comments, models>>,
           runs'[r].conclusion = "success" =>
              \A c \in comments : c.run = r => c.status # "running"
    PROVE  RepairInv'
<1>1. RunOk(r)'
  <2>1. RunOk(r)
    BY DEF RepairInv
  <2>2. QED
    BY <2>1, Own DEF RunOk, Starting, Writes
<1>2. Alone(r)
  BY <1>1, StillAlone
<1>3. ~Posts(r)'
  BY DEF Posts
<1>4. ASSUME NEW c \in comments, c.run = r, c.status = "running" PROVE Interrupted(r)'
  BY <1>4 DEF Interrupted, Writes
<1>5. QED
  BY <1>2, <1>3, <1>4, Silent

\* A run goes on to another place of the program.
LEMMA Moves ==
    ASSUME RepairInv, RepairTypeOK', Grow, NEW r \in RunId, Only(r), Posts(r), Running(r),
           runs'[r].at \in {"checkout", "claiming", "working", "committing", "judging"},
           runs'[r].outcome # "none" => Closed(RequestOf(r))',
           RequestOf(r).kind = "ci" =>
              IF runs'[r].at = "judging" THEN Started(HeadOf(r))'
              ELSE runs'[r].charge # 0 \/ Started(HeadOf(r))',
           UNCHANGED comments, models' \subseteq models \union {<<RequestOf(r), r>>}
    PROVE  RepairInv'
<1>1. RunOk(r)'
  BY Own DEF RunOk, Starting, Writes
<1>2. Alone(r)
  BY <1>1, StillAlone
<1>3. Unmarked(r)
  BY DEF RepairInv, MarkedOk, Unmarked
<1>4. Interrupted(r)'
  BY DEF Interrupted, Writes, Ended
<1>5. QED
  BY <1>2, <1>3, <1>4, Silent

\* A run is to write a list of items.
LEMMA Planned ==
    ASSUME RepairInv, RepairTypeOK', Grow, NEW r \in RunId, Only(r), Running(r),
           runs'[r].at = "writing", Script(runs'[r].todo),
           runs'[r].outcome = runs[r].outcome,
           UNCHANGED <<comments, models>>,
           RequestOf(r).kind = "ci" /\ Writes(r, "checkout")' =>
              runs'[r].charge # 0 \/ Started(HeadOf(r))',
           RequestOf(r).kind = "ci" /\ (Writes(r, "complete")' \/ Writes(r, "blocked")') =>
              Started(HeadOf(r))',
           Writes(r, "complete")' =>
              Proven(RequestOf(r))' \/ (Writes(r, "advance")' /\ HandsOn(r)'),
           Unmarked(r) \/ ~Posts(r)',
           \/ runs[r].at = "reading"
           \/ Writes(r, "succeed")' => \E status \in Status \ {"running"} : Writes(r, status)'
    PROVE  RepairInv'
<1>1. RunOk(r)
  BY DEF RepairInv
<1>2. RunOk(r)'
  BY <1>1, Own DEF RunOk, Starting
<1>3. Alone(r)
  BY <1>2, StillAlone
<1>4. ASSUME NEW c \in comments, c.run = r PROVE Interrupted(r)'
  <2>1. runs[r].at # "reading"
    BY <1>4 DEF RepairInv, CommentOk
  <2>2. QED
    BY <2>1 DEF Interrupted, Ended
<1>5. QED
  BY <1>3, <1>4, Silent

\* The catch of a run that may post.
LEMMA Fails ==
    ASSUME RepairInv, RepairTypeOK', Grow, NEW r \in RunId, Posts(r), Plan(r, Failure),
           UNCHANGED <<comments, models>>
    PROVE  RepairInv'
<1>1. Script(Failure) /\ Failure \in Seq(Item)
  BY Scripts DEF Failure, Script
<1>2. RepairTypeOK
  BY DEF RepairInv
<1>3. /\ Only(r) /\ Keeps(r) /\ runs'[r].at = "writing" /\ runs'[r].todo = Failure
  BY <1>1, <1>2, PlanChange
<1>4. ASSUME NEW item PROVE Writes(r, item)' <=> item \in {"failed", "block", "fail"}
  BY <1>3 DEF Writes, Failure
<1>5. Unmarked(r) /\ Running(r)
  BY DEF RepairInv, MarkedOk, Unmarked, Posts, Running
<1>6. QED
  BY <1>1, <1>3, <1>4, <1>5, Planned DEF Keeps

-----------------------------------------------------------------------------
(* The steps of others                                                     *)

\* Nothing happens to the runs.
LEMMA RunsStay ==
    ASSUME RepairInv, RepairTypeOK', Grow, UNCHANGED <<runs, comments, models>>
    PROVE  RepairInv'
<1>1. RunId' = RunId /\ \A o \in RunId : Stays(o)
  BY DEF RunId, Stays
<1>2. QED
  BY <1>1, Arrived

\* A run is requested.
WithRun(lane, request, source) ==
    Append(Displaced(lane),
           [request |-> request, source |-> source, at |-> "pending",
            todo |-> << >>, outcome |-> "none", charge |-> 0, seen |-> 0,
            head |-> request.head, recovery |-> "none", conclusion |-> "none"])

\* The runs after a request: the old ones stay or are cancelled, one is new.
LEMMA Requested ==
    ASSUME RepairInv, NEW request \in Request, request.head <= pr.head,
           NEW source \in Nat, NEW lane
    PROVE  /\ WithRun(lane, request, source) \in Seq(RunType)
           /\ RunId \subseteq DOMAIN WithRun(lane, request, source)
           /\ \A o \in RunId :
                 \/ WithRun(lane, request, source)[o] = runs[o]
                 \/ /\ runs[o].at = "pending"
                    /\ WithRun(lane, request, source)[o] = Cancelled(runs[o])
           /\ \A n \in DOMAIN WithRun(lane, request, source) \ RunId :
                 /\ Fresh(WithRun(lane, request, source)[n])
                 /\ WithRun(lane, request, source)[n].request.head <= pr.head
<1> PICK e : e = WithRun(lane, request, source)
  OBVIOUS
<1> DEFINE run == [request |-> request, source |-> source, at |-> "pending",
                   todo |-> << >>, outcome |-> "none", charge |-> 0, seen |-> 0,
                   head |-> request.head, recovery |-> "none", conclusion |-> "none"]
<1>1. run \in RunType /\ Fresh(run) /\ run.request.head = request.head
  <2>1. << >> \in Seq(Item) /\ request.head \in Revision
    BY DEF Request
  <2>2. QED
    BY <2>1 DEF RunType, Place, Outcome, Fresh
<1>2. runs \in Seq(RunType) /\ e = Append(Displaced(lane), run)
  BY DEF RepairInv, RepairTypeOK, WithRun
<1> HIDE DEF run
<1>3. /\ e \in Seq(RunType) /\ DOMAIN e = RunId \union {Len(runs) + 1}
      /\ e[Len(runs) + 1] = run
      /\ \A r \in RunId : e[r] = Displaced(lane)[r]
  <2>1. /\ Append(Displaced(lane), run) \in Seq(RunType)
        /\ DOMAIN Append(Displaced(lane), run) = RunId \union {Len(runs) + 1}
        /\ Append(Displaced(lane), run)[Len(runs) + 1] = run
        /\ \A r \in RunId : Append(Displaced(lane), run)[r] = Displaced(lane)[r]
    BY <1>1, <1>2, RunsEnqueued
  <2>2. QED
    BY <1>2, <2>1
<1>4. ASSUME NEW o \in RunId
      PROVE  \/ e[o] = runs[o]
             \/ /\ runs[o].at = "pending"
                /\ e[o] = Cancelled(runs[o])
  <2>1. PICK d : d = Displaced(lane)
    OBVIOUS
  <2>2. e[o] = d[o]
    BY <1>3, <2>1
  <2>3. \/ d[o] = runs[o]
        \/ /\ runs[o].at = "pending"
           /\ d[o] = Cancelled(runs[o])
    BY <1>2, <2>1, LaneDisplaced
  <2>4. QED
    BY <2>2, <2>3
<1>5. \A n \in DOMAIN e \ RunId : Fresh(e[n]) /\ e[n].request.head <= pr.head
  BY <1>1, <1>3
<1>6. QED
  BY <1>3, <1>4, <1>5

\* A cancelled run was pending, so that nothing is known of it.
LEMMA DisplacedStays ==
    ASSUME RepairInv, NEW o \in RunId,
           \/ runs'[o] = runs[o]
           \/ /\ runs[o].at = "pending"
              /\ runs'[o] = Cancelled(runs[o])
    PROVE  Stays(o)
<1>1. runs[o] \in RunType
  BY DEF RepairInv, RepairTypeOK, RunId
<1>2. QED
  BY <1>1 DEF Stays, RunType, Cancelled

\* A run is requested on the lane of its request.
LEMMA Enqueued ==
    ASSUME RepairInv, NEW request \in Request, request.head <= pr.head,
           NEW source \in Nat, Enqueue(request, source)
    PROVE  /\ runs' \in Seq(RunType)
           /\ RunId \subseteq RunId'
           /\ \A o \in RunId : Stays(o)
           /\ \A n \in RunId' \ RunId : Fresh(runs'[n]) /\ HeadOf(n)' <= pr.head
<1>1. PICK e : e = runs' /\ e = WithRun(Lane(request, source), request, source)
  BY DEF Enqueue, WithRun
<1>2. RunId' = DOMAIN e
  BY <1>1 DEF RunId
<1>3. /\ e \in Seq(RunType)
      /\ RunId \subseteq DOMAIN e
      /\ \A o \in RunId :
            \/ e[o] = runs[o]
            \/ /\ runs[o].at = "pending"
               /\ e[o] = Cancelled(runs[o])
      /\ \A n \in DOMAIN e \ RunId : Fresh(e[n]) /\ e[n].request.head <= pr.head
  <2>1. PICK lane : lane = Lane(request, source)
    OBVIOUS
  <2>2. e = WithRun(lane, request, source)
    BY <1>1, <2>1
  <2>3. PICK w : w = WithRun(lane, request, source)
    OBVIOUS
  <2>4. w \in Seq(RunType)
    BY <2>3, Requested
  <2>5. RunId \subseteq DOMAIN w
    BY <2>3, Requested
  <2>6. \A o \in RunId :
            \/ w[o] = runs[o]
            \/ /\ runs[o].at = "pending"
               /\ w[o] = Cancelled(runs[o])
    BY <2>3, Requested
  <2>7. \A n \in DOMAIN w \ RunId : Fresh(w[n]) /\ w[n].request.head <= pr.head
    BY <2>3, Requested
  <2>8. QED
    BY <2>2, <2>3, <2>4, <2>5, <2>6, <2>7
<1>4. \A o \in RunId : Stays(o)
  BY <1>1, <1>3, DisplacedStays
<1>5. QED
  BY <1>1, <1>2, <1>3, <1>4 DEF HeadOf

\* A CI attempt ends, and asks for a repair if it failed.
LEMMA CompleteCiStep ==
    ASSUME RepairInv, CompleteCi
    PROVE  RepairInv' /\ Grow
<1>1. PICK h \in Revision, result \in {"passed", "failed"} :
         /\ h <= pr.head
         /\ ci' = [ci EXCEPT ![h].result = result]
         /\ IF result = "failed"
            THEN Enqueue([kind |-> "ci", head |-> h, nth |-> ci[h].attempt], 0)
            ELSE UNCHANGED runs
         /\ UNCHANGED <<pr, reviews, comments, journal, ledger, wanted, models>>
  BY DEF CompleteCi
<1>2. RepairTypeOK /\ ci[h].attempt \in Nat
  BY DEF RepairInv, RepairTypeOK, CiType
<1>3. /\ ci' \in CiType
      /\ \A g \in Revision : ci'[g].attempt = ci[g].attempt /\ ci[g].attempt \in Nat
  BY <1>1, <1>2 DEF RepairTypeOK, CiType
<1>4. ASSUME runs' \in Seq(RunType) PROVE RepairTypeOK' /\ Grow
  <2>1. RepairTypeOK'
    BY <1>1, <1>2, <1>3, <1>4 DEF RepairTypeOK
  <2>2. pr.head \in Nat
    BY <1>2, HeadTyped
  <2>3. QED
    BY <1>1, <1>3, <2>1, <2>2 DEF Grow, Closed
<1>5. CASE result = "failed"
  <2> DEFINE request == [kind |-> "ci", head |-> h, nth |-> ci[h].attempt]
  <2>1. request \in Request /\ request.head <= pr.head /\ Enqueue(request, 0)
    BY <1>1, <1>2, <1>5 DEF Request
  <2> HIDE DEF request
  <2>2. /\ runs' \in Seq(RunType) /\ RunId \subseteq RunId' /\ \A o \in RunId : Stays(o)
        /\ \A n \in RunId' \ RunId : Fresh(runs'[n]) /\ HeadOf(n)' <= pr.head
    BY <2>1, Enqueued
  <2>3. QED
    BY <1>1, <1>4, <2>2, Arrived
<1>6. CASE result = "passed"
  BY <1>1, <1>2, <1>4, <1>6, RunsStay DEF RepairTypeOK
<1>7. QED
  BY <1>5, <1>6

\* A repair of a review or of a conflict is requested.
LEMMA SendStep ==
    ASSUME RepairInv, SendRepair
    PROVE  RepairInv' /\ Grow
<1>1. PICK request \in Request :
         request.head = pr.head /\ Enqueue(request, 0)
         /\ UNCHANGED <<pr, ci, reviews, comments, journal, ledger, wanted, models>>
  <2>1. pr.head \in Revision /\ reviews[pr.head] \in Nat
    BY HeadTyped DEF RepairInv, RepairTypeOK
  <2>2. /\ [kind |-> "merge", head |-> pr.head, nth |-> 1] \in Request
        /\ [kind |-> "review", head |-> pr.head, nth |-> reviews[pr.head]] \in Request
    BY <2>1 DEF Request
  <2>3. QED
    BY <2>2 DEF SendRepair, Send
<1>2. RepairTypeOK /\ pr.head \in Nat
  BY HeadTyped DEF RepairInv
<1>3. /\ runs' \in Seq(RunType) /\ RunId \subseteq RunId' /\ \A o \in RunId : Stays(o)
      /\ \A n \in RunId' \ RunId : Fresh(runs'[n]) /\ HeadOf(n)' <= pr.head
  BY <1>1, <1>2, Enqueued
<1>4. RepairTypeOK' /\ Grow
  BY <1>1, <1>2, <1>3, Quiet
<1>5. QED
  BY <1>1, <1>3, <1>4, Arrived

\* A comment takes the place of a pending repair.
LEMMA CommentStep ==
    ASSUME RepairInv, Comment
    PROVE  RepairInv' /\ Grow
<1>1. runs \in Seq(RunType) /\ RepairTypeOK
  BY DEF RepairInv, RepairTypeOK
<1>2. /\ runs' \in Seq(RunType) /\ RunId' = RunId
      /\ \A o \in RunId :
            \/ runs'[o] = runs[o]
            \/ /\ runs[o].at = "pending"
               /\ runs'[o] = Cancelled(runs[o])
  <2>1. runs' = Displaced("pr")
    BY DEF Comment
  <2>2. RunId' = DOMAIN Displaced("pr")
    BY <2>1 DEF RunId
  <2>3. QED
    BY <1>1, <2>1, <2>2, LaneDisplaced
<1>3. ASSUME NEW o \in RunId PROVE Stays(o)
  BY <1>2, DisplacedStays
<1>4. RepairTypeOK' /\ Grow
  BY <1>1, <1>2, Quiet DEF Comment
<1>5. QED
  BY <1>2, <1>3, <1>4, Arrived DEF Comment

\* A head is pushed, reviewed or rebutted, or CI runs again: no run changes.
LEMMA PullRequestStep ==
    ASSUME RepairInv,
           pr' \in PrType,
           pr.head <= pr'.head,
           ci' \in CiType,
           \A h \in Revision : ci[h].attempt <= ci'[h].attempt,
           reviews' \in [Revision -> Nat],
           UNCHANGED <<runs, comments, journal, ledger, wanted, models>>
    PROVE  RepairInv' /\ Grow
<1>1. RepairTypeOK' /\ Grow
  BY DEF RepairInv, RepairTypeOK, Grow, Closed
<1>2. QED
  BY <1>1, RunsStay

\* A push, a review and a rebuttal change the pull request only.
LEMMA PushStep ==
    ASSUME RepairInv, Push \/ Review \/ \E r \in RunId : WorkerPushes(r) \/ WorkerRebuts(r)
    PROVE  RepairInv' /\ Grow
<1>1. /\ RepairTypeOK /\ pr \in PrType /\ ci \in CiType /\ reviews \in [Revision -> Nat]
      /\ pr.head \in Revision /\ pr.head \in Nat
      /\ \A h \in Revision : ci[h].attempt \in Nat
  BY HeadTyped, CiTyped DEF RepairInv, RepairTypeOK
<1>2. UNCHANGED <<ci, runs, comments, journal, ledger, wanted, models>>
  BY DEF Push, Review, WorkerPushes, WorkerRebuts
<1>3. CASE pr.head < MaxHead /\ pr' = [pr EXCEPT !.head = @ + 1] /\ UNCHANGED reviews
  <2>1. pr.head + 1 \in Revision
    BY <1>1, <1>3, RepairAssumption DEF Revision
  <2>2. pr' \in PrType /\ pr'.head = pr.head + 1
    BY <1>1, <1>3, <2>1, PrChanged
  <2>3. QED
    BY <1>1, <1>2, <1>3, <2>2, PullRequestStep
<1>4. CASE Review
  <2>1. PICK b \in BOOLEAN : pr' = [pr EXCEPT !.ready = FALSE, !.blocked = b]
    BY <1>4 DEF Review
  <2>2. pr' \in PrType /\ pr'.head = pr.head
    BY <1>1, <2>1, PrChanged
  <2>3. reviews' = [reviews EXCEPT ![pr.head] = @ + 1]
    BY <1>4 DEF Review
  <2>4. reviews' \in [Revision -> Nat]
    BY <1>1, <2>3
  <2>5. QED
    BY <1>1, <1>2, <2>2, <2>4, PullRequestStep
<1>5. CASE pr' = [pr EXCEPT !.ready = TRUE] /\ UNCHANGED reviews
  <2>1. pr' \in PrType /\ pr'.head = pr.head
    BY <1>1, <1>5, PrChanged
  <2>2. QED
    BY <1>1, <1>2, <1>5, <2>1, PullRequestStep
<1>6. QED
  BY <1>3, <1>4, <1>5 DEF Push, WorkerPushes, WorkerRebuts

\* CI runs again, on a later attempt.
LEMMA RerunTyped ==
    ASSUME RepairTypeOK, NEW h \in Revision, Rerun(h)
    PROVE  /\ ci' \in CiType
           /\ \A g \in Revision : ci[g].attempt <= ci'[g].attempt
<1> DEFINE next == [attempt |-> ci[h].attempt + 1, result |-> "pending"]
<1>1. ci' = [ci EXCEPT ![h] = next]
  BY DEF Rerun
<1>2. next \in [attempt : Nat, result : {"pending", "passed", "failed"}]
      /\ next.attempt = ci[h].attempt + 1
  BY CiTyped
<1> HIDE DEF next
<1>3. QED
  BY <1>1, <1>2, CiTyped DEF RepairTypeOK, CiType

\* The Worker runs CI again.
LEMMA RunsCiStep ==
    ASSUME RepairInv, NEW r \in RunId, WorkerRunsCi(r)
    PROVE  RepairInv' /\ Grow
<1>1. /\ RepairTypeOK /\ pr \in PrType /\ pr.head \in Nat
      /\ reviews \in [Revision -> Nat] /\ HeadOf(r) \in Revision
  BY HeadTyped, RunTyped DEF RepairInv, RepairTypeOK
<1>2. Rerun(HeadOf(r)) /\ UNCHANGED <<pr, reviews, runs, comments, journal, ledger, wanted, models>>
  BY DEF WorkerRunsCi
<1>3. ci' \in CiType /\ \A g \in Revision : ci[g].attempt <= ci'[g].attempt
  BY <1>1, <1>2, RerunTyped
<1>4. QED
  BY <1>1, <1>2, <1>3, PullRequestStep

\* A recovery sends the original request again.
LEMMA SendRecoveryStep ==
    ASSUME RepairInv, NEW r \in RunId, SendRecovery(r)
    PROVE  RepairInv' /\ Grow
<1> DEFINE e == WithRun("pr", RequestOf(r), r)
<1>1. /\ RepairTypeOK /\ RequestOf(r) \in Request /\ r \in Nat
      /\ RequestOf(r).head <= pr.head
  BY RunTyped DEF RepairInv, RunOk, HeadOf, RequestOf
<1>2. /\ e \in Seq(RunType) /\ RunId \subseteq DOMAIN e
      /\ \A o \in RunId :
            e[o] = runs[o] \/ (runs[o].at = "pending" /\ e[o] = Cancelled(runs[o]))
      /\ \A n \in DOMAIN e \ RunId : Fresh(e[n]) /\ e[n].request.head <= pr.head
  BY <1>1, Requested
<1>3. runs' = [e EXCEPT ![r].recovery = "done"]
  BY DEF SendRecovery, WithRun, HeadOf, RequestOf
<1> HIDE DEF e
<1> DEFINE x == [e[r] EXCEPT !.recovery = "done"]
<1>4. r \in DOMAIN e /\ e[r] \in RunType
  BY <1>2
<1>5. /\ x \in RunType /\ x.request = e[r].request /\ x.source = e[r].source
      /\ x.at = e[r].at /\ x.todo = e[r].todo /\ x.outcome = e[r].outcome
      /\ x.charge = e[r].charge /\ x.head = e[r].head /\ x.conclusion = e[r].conclusion
  BY <1>4 DEF RunType
<1>6. runs' = [e EXCEPT ![r] = x]
  BY <1>3
<1> HIDE DEF x
<1>7. /\ runs' \in Seq(RunType) /\ RunId' = DOMAIN e
      /\ runs'[r] = x /\ \A o \in DOMAIN e : o # r => runs'[o] = e[o]
  BY <1>2, <1>4, <1>5, <1>6 DEF RunId
<1>8. ASSUME NEW o \in RunId PROVE Stays(o)
  <2>1. runs[o] \in RunType
    BY <1>1 DEF RepairTypeOK, RunId
  <2>2. /\ e[o].request = runs[o].request /\ e[o].source = runs[o].source
        /\ e[o].outcome = runs[o].outcome
        /\ e[o] = runs[o] \/ (runs[o].at = "pending" /\ e[o].at = "ended")
    BY <1>2, <2>1 DEF RunType, Cancelled
  <2>3. o \in DOMAIN e
    BY <1>2
  <2>4. QED
    BY <1>5, <1>7, <2>2, <2>3 DEF Stays
<1>9. UNCHANGED <<pr, ci, reviews, comments, journal, ledger, wanted, models>>
  BY DEF SendRecovery
<1>10. RepairTypeOK' /\ Grow
  BY <1>1, <1>7, <1>9, Quiet
<1>11. \A n \in RunId' \ RunId : Fresh(runs'[n]) /\ HeadOf(n)' <= pr'.head
  BY <1>2, <1>7, <1>9 DEF HeadOf
<1>12. QED
  BY <1>2, <1>7, <1>8, <1>9, <1>10, <1>11, Arrived

\* What recovery notes of a run changes nothing the run depends on.
LEMMA RecoveryStays ==
    ASSUME RepairInv, NEW r \in RunId, NEW recovery \in {"admitted", "done"},
           runs' = [runs EXCEPT ![r].recovery = recovery]
    PROVE  /\ runs' \in Seq(RunType) /\ RunId' = RunId
           /\ \A o \in RunId : Stays(o)
<1>1. /\ Only(r) /\ Keeps(r)
      /\ runs'[r].at = runs[r].at /\ runs'[r].todo = runs[r].todo
      /\ runs'[r].conclusion = runs[r].conclusion
  BY RecoveryChange DEF RepairInv
<1>2. QED
  BY <1>1 DEF Only, Keeps, Stays

\* A recovery is lost.
LEMMA LoseRecoveryStep ==
    ASSUME RepairInv, NEW r \in RunId, LoseRecovery(r)
    PROVE  RepairInv' /\ Grow
<1>1. /\ runs' \in Seq(RunType) /\ RunId' = RunId /\ \A o \in RunId : Stays(o)
  BY RecoveryStays DEF LoseRecovery
<1>2. RepairTypeOK' /\ Grow
  BY <1>1, Quiet DEF LoseRecovery, RepairInv
<1>3. QED
  BY <1>1, <1>2, Arrived DEF LoseRecovery

\* A new record leaves the ledger in its type.
LEMMA LedgerChanged ==
    ASSUME NEW l \in LedgerType
    PROVE  /\ \A h \in Revision :
                 /\ [l EXCEPT !.candidates = @ \union {h}] \in LedgerType
                 /\ [l EXCEPT !.candidates = @ \union {h}].started = l.started
                 /\ [l EXCEPT !.recovered = @ \union {h}] \in LedgerType
                 /\ [l EXCEPT !.recovered = @ \union {h}].started = l.started
           /\ [l EXCEPT !.paused = TRUE] \in LedgerType
           /\ [l EXCEPT !.paused = TRUE].started = l.started
           /\ \A s \in [head : Revision, attempt : Nat] :
                 /\ [l EXCEPT !.started = @ \union {s}] \in LedgerType
                 /\ [l EXCEPT !.started = @ \union {s}].started = l.started \union {s}
BY DEF LedgerType

\* A recovery is admitted, or the branch is paused.
LEMMA AdmitRecoveryStep ==
    ASSUME RepairInv, NEW r \in RunId, AdmitRecovery(r)
    PROVE  RepairInv' /\ Grow
<1>1. /\ RepairTypeOK /\ pr \in PrType /\ pr.head \in Revision /\ pr.head \in Nat
      /\ ledger \in LedgerType /\ \A h \in Revision : ci[h].attempt \in Nat
  BY HeadTyped, CiTyped DEF RepairInv, RepairTypeOK
<1>2. UNCHANGED <<ci, reviews, comments, journal, wanted, models>>
  BY DEF AdmitRecovery
<1>3. PICK recovery \in {"admitted", "done"} : runs' = [runs EXCEPT ![r].recovery = recovery]
  BY DEF AdmitRecovery
<1>4. /\ runs' \in Seq(RunType) /\ RunId' = RunId /\ \A o \in RunId : Stays(o)
  BY <1>3, RecoveryStays
<1>5. /\ pr' \in PrType /\ pr'.head = pr.head
      /\ ledger' \in LedgerType /\ ledger'.started = ledger.started
  <2>1. CASE /\ ledger' = [ledger EXCEPT !.recovered = @ \union {pr.head}]
             /\ pr' = pr
    BY <1>1, <2>1, LedgerChanged
  <2>2. CASE /\ ledger' = [ledger EXCEPT !.paused = TRUE]
             /\ pr' = [pr EXCEPT !.paused = TRUE]
    BY <1>1, <2>2, LedgerChanged, PrChanged
  <2>3. QED
    BY <2>1, <2>2 DEF AdmitRecovery
<1>6. RepairTypeOK'
  BY <1>1, <1>2, <1>4, <1>5 DEF RepairTypeOK
<1>7. Grow
  BY <1>1, <1>2, <1>5 DEF Grow, Closed
<1>8. QED
  BY <1>2, <1>4, <1>6, <1>7, Arrived

-----------------------------------------------------------------------------
(* The steps of a run: what it does before its Worker                      *)

\* A run begins: the lane was free.
LEMMA BeginStep ==
    ASSUME RepairInv, NEW r \in RunId, Begin(r)
    PROVE  RepairInv' /\ Grow
<1>1. RepairTypeOK /\ RunOk(r)
  BY DEF RepairInv
<1>2. Only(r) /\ Keeps(r) /\ runs'[r].at = "reading"
  BY <1>1, GotoChange DEF Begin, Goto, Place
<1>3. UNCHANGED <<pr, ci, reviews, comments, journal, ledger, wanted, models>>
  BY DEF Begin
<1>4. RepairTypeOK' /\ Grow
  BY <1>1, <1>2, <1>3, Quiet DEF Only
<1>5. RunOk(r)' /\ ~Posts(r)'
  BY <1>1, <1>2, <1>4, Own DEF RunOk, Keeps, Starting, Writes, Posts, Begin
<1>6. Alone(r)
  BY <1>2, <1>3, <1>5 DEF Alone, Begin
<1>7. \A c \in comments : c.run # r
  BY DEF RepairInv, CommentOk, Begin
<1>8. QED
  BY <1>3, <1>4, <1>5, <1>6, <1>7, Silent

\* A run is killed, with no chance to post.
LEMMA KillStep ==
    ASSUME RepairInv, NEW r \in RunId, Kill(r)
    PROVE  RepairInv' /\ Grow
<1>1. RepairTypeOK
  BY DEF RepairInv
<1>2. Stop(r, "failure")
  BY DEF Kill, Stop
<1>3. Only(r) /\ Keeps(r) /\ runs'[r].at = "ended" /\ runs'[r].conclusion = "failure"
  BY <1>1, <1>2, StopChange
<1>4. RepairTypeOK' /\ Grow
  BY <1>1, <1>3, Quiet DEF Only, Kill
<1>5. QED
  BY <1>3, <1>4, Ends DEF Kill, Keeps

\* A run that read its request and posted nothing may stop, or plan to go on.
LEMMA ReadStops ==
    ASSUME RepairInv, NEW r \in RunId, runs[r].at = "reading",
           NEW conclusion \in {"success", "failure"}, Stop(r, conclusion),
           UNCHANGED <<pr, ci, reviews, comments, journal, ledger, wanted, models>>
    PROVE  RepairInv' /\ Grow
<1>1. RepairTypeOK
  BY DEF RepairInv
<1>2. Only(r) /\ Keeps(r) /\ runs'[r].at = "ended"
  BY <1>1, StopChange
<1>3. RepairTypeOK' /\ Grow
  BY <1>1, <1>2, Quiet DEF Only
<1>4. Running(r) /\ \A c \in comments : c.run # r
  BY DEF RepairInv, CommentOk, Running
<1>5. QED
  BY <1>2, <1>3, <1>4, Ends DEF Keeps

\* What a run that only read may plan without a charge: no status.
LEMMA ReadPlans ==
    ASSUME RepairInv, NEW r \in RunId, runs[r].at = "reading",
           NEW todo, Script(todo),
           \A i \in 1 .. Len(todo) :
              todo[i] \notin Status /\ todo[i] # "checkout",
           Only(r), runs'[r].at = "writing", runs'[r].todo = todo,
           runs'[r].outcome = runs[r].outcome,
           UNCHANGED <<pr, ci, reviews, comments, journal, ledger, wanted, models>>
    PROVE  RepairInv' /\ Grow
<1>1. RepairTypeOK
  BY DEF RepairInv
<1>2. RepairTypeOK' /\ Grow
  BY <1>1, Quiet DEF Only
<1>3. \A item : Writes(r, item)' => item \notin Status /\ item # "checkout"
  BY DEF Writes
<1>4. /\ \A status \in Status : ~Writes(r, status)'
      /\ ~Writes(r, "checkout")' /\ ~Writes(r, "complete")' /\ ~Writes(r, "blocked")'
  BY <1>3 DEF Status
<1>5. runs[r].outcome = "none"
  BY DEF RepairInv, RunOk
<1>6. ~Posts(r)'
  BY <1>4, <1>5 DEF Posts, Starting
<1>7. Running(r)
  BY DEF Running
<1>8. QED
  BY <1>2, <1>4, <1>6, <1>7, Planned

\* A run goes on with its start.
LEMMA ReadProceeds ==
    ASSUME RepairInv, NEW r \in RunId, runs[r].at = "reading",
           NEW charge \in Nat,
           RequestOf(r).kind = "ci" => charge # 0 \/ Started(HeadOf(r)),
           Proceed(r, charge),
           UNCHANGED <<pr, ci, reviews, comments, journal, ledger, wanted, models>>
    PROVE  RepairInv' /\ Grow
<1> DEFINE todo == <<"running", "labels", "checkout">>
<1>1. RepairTypeOK /\ Script(todo) /\ todo \in Seq(Item) /\ Running(r)
  BY Scripts DEF RepairInv, Script, Running
<1>2. CASE Stop(r, "success")
  BY <1>2, ReadStops
<1>3. CASE /\ \A c \in comments : c.marker = Marker(r) => MayRetry(c)
           /\ runs' = [runs EXCEPT ![r].at = "writing", ![r].charge = charge,
                                   ![r].todo = todo]
  <2>1. \A item : item \in {"running", "labels", "checkout"} <=>
                     \E i \in 1 .. Len(todo) : todo[i] = item
    OBVIOUS
  <2> HIDE DEF todo
  <2>2. /\ Only(r) /\ runs'[r].at = "writing" /\ runs'[r].todo = todo
        /\ runs'[r].charge = charge /\ runs'[r].outcome = runs[r].outcome
    BY <1>1, <1>3, ChargedChange
  <2>3. RepairTypeOK' /\ Grow
    BY <1>1, <2>2, Quiet DEF Only
  <2>4. /\ ~Writes(r, "complete")' /\ ~Writes(r, "blocked")'
    BY <2>1, <2>2 DEF Writes
  <2>5. Unmarked(r)
    BY <1>3 DEF Unmarked, MayRetry
  <2>6. RequestOf(r).kind = "ci" => charge # 0 \/ Started(HeadOf(r))'
    BY <2>2, <2>3, Own
  <2>7. QED
    BY <1>1, <2>2, <2>3, <2>4, <2>5, <2>6, Planned
<1>4. QED
  BY <1>2, <1>3 DEF Proceed

\* The charges of a branch are counted.
LEMMA ConsumedTyped ==
    ASSUME RepairTypeOK
    PROVE  Consumed \in Nat
<1> DEFINE attempts == {s.attempt : s \in ledger.started}
           f == [s \in ledger.started |-> s.attempt]
<1>1. f \in Surjection(ledger.started, attempts)
  BY DEF Surjection
<1>2. IsFiniteSet(ledger.started)
  BY DEF RepairTypeOK
<1>3. IsFiniteSet(attempts)
  BY <1>1, <1>2, FS_Surjection
<1>4. QED
  BY <1>3, FS_CardinalityType DEF Consumed

\* A CI run notes its first failure, or the pause of its branch.
LEMMA ReadPlansList ==
    ASSUME RepairInv, NEW r \in RunId, runs[r].at = "reading",
           NEW todo \in {<<"candidate", "rerun", "succeed">>,
                         <<"pause", "pause-label", "succeed">>},
           Plan(r, todo),
           UNCHANGED <<pr, ci, reviews, comments, journal, ledger, wanted, models>>
    PROVE  RepairInv' /\ Grow
<1>1. RepairTypeOK /\ Script(todo) /\ todo \in Seq(Item)
  <2>1. Script(todo)
    BY Scripts
  <2>2. QED
    BY <2>1 DEF RepairInv, Script
<1>2. \A i \in 1 .. Len(todo) : todo[i] \notin Status /\ todo[i] # "checkout"
  BY DEF Status
<1>3. /\ Only(r) /\ Keeps(r) /\ runs'[r].at = "writing" /\ runs'[r].todo = todo
  BY <1>1, PlanChange
<1>4. QED
  BY <1>1, <1>2, <1>3, ReadPlans DEF Keeps

\* A run has read its request and the records: it stops, notes or starts.
LEMMA ReadStep ==
    ASSUME RepairInv, NEW r \in RunId, ReadPullRequest(r)
    PROVE  RepairInv' /\ Grow
<1>1. /\ RepairTypeOK /\ runs[r].at = "reading"
      /\ UNCHANGED <<pr, ci, reviews, comments, journal, ledger, wanted, models>>
  BY DEF RepairInv, ReadPullRequest, At
<1>2. Consumed + 1 \in Nat \ {0}
  BY <1>1, ConsumedTyped
<1>3. ASSUME NEW conclusion \in {"success", "failure"}, Stop(r, conclusion)
      PROVE  RepairInv' /\ Grow
  BY <1>1, <1>3, ReadStops
<1>4. ASSUME NEW todo \in {<<"candidate", "rerun", "succeed">>,
                           <<"pause", "pause-label", "succeed">>}, Plan(r, todo)
      PROVE  RepairInv' /\ Grow
  BY <1>1, <1>4, ReadPlansList
<1>5. ASSUME Proceed(r, Consumed + 1) PROVE RepairInv' /\ Grow
  BY <1>1, <1>2, <1>5, ReadProceeds
<1>6. ASSUME Proceed(r, 0), RequestOf(r).kind = "ci" => Started(HeadOf(r))
      PROVE  RepairInv' /\ Grow
  BY <1>1, <1>6, ReadProceeds
<1>7. CASE runs' = [runs EXCEPT ![r].at = "writing", ![r].head = pr.head,
                                ![r].todo = <<"ready", "advance", "clear", "fail">>]
  <2> DEFINE todo == <<"ready", "advance", "clear", "fail">>
  <2>1. /\ Script(todo) /\ todo \in Seq(Item) /\ pr.head \in Revision
        /\ \A i \in 1 .. Len(todo) : todo[i] \notin Status /\ todo[i] # "checkout"
    BY <1>1, Scripts, HeadTyped DEF Script, Status
  <2> HIDE DEF todo
  <2>2. runs' = [runs EXCEPT ![r].at = "writing", ![r].head = pr.head, ![r].todo = todo]
    BY <1>7 DEF todo
  <2>3. /\ Only(r) /\ runs'[r].at = "writing" /\ runs'[r].todo = todo
        /\ runs'[r].outcome = runs[r].outcome
    BY <1>1, <2>1, <2>2, NotedChange
  <2>4. QED
    BY <1>1, <2>1, <2>3, ReadPlans
<1>8. ASSUME AdmitCi(r) PROVE RepairInv' /\ Grow
  BY <1>3, <1>4, <1>5, <1>8 DEF AdmitCi
<1>9. ASSUME AdmitCiRecovery(r) PROVE RepairInv' /\ Grow
  BY <1>3, <1>5, <1>6, <1>9 DEF AdmitCiRecovery
<1>10. QED
  BY <1>3, <1>6, <1>7, <1>8, <1>9 DEF ReadPullRequest

\* Anything that throws after the start is caught.
LEMMA FailStep ==
    ASSUME RepairInv, NEW r \in RunId, Posts(r), Plan(r, Failure),
           UNCHANGED <<pr, ci, reviews, comments, journal, ledger, wanted, models>>
    PROVE  RepairInv' /\ Grow
<1>1. RepairTypeOK /\ Failure \in Seq(Item)
  BY Scripts DEF RepairInv, Failure, Script
<1>2. Only(r)
  BY <1>1, PlanChange
<1>3. RepairTypeOK' /\ Grow
  BY <1>1, <1>2, Quiet DEF Only
<1>4. QED
  BY <1>3, Fails

\* From its start to its judgement a run may post.
LEMMA AtPosts ==
    ASSUME NEW r \in RunId, runs[r].at \in {"checkout", "claiming", "working",
                                            "committing", "judging"}
    PROVE  Posts(r) /\ Running(r)
BY DEF Posts, Starting, Running

\* A replayed claim and a failed preparation are caught.
LEMMA CaughtSteps ==
    ASSUME RepairInv, NEW r \in RunId, ReplayClaim(r) \/ PreparationFails(r)
    PROVE  RepairInv' /\ Grow
BY AtPosts, FailStep DEF ReplayClaim, PreparationFails, At

\* The clone is at the head of the request, or the run fails.
LEMMA CheckOutStep ==
    ASSUME RepairInv, NEW r \in RunId, CheckOut(r)
    PROVE  RepairInv' /\ Grow
<1>1. /\ RepairTypeOK /\ RunOk(r) /\ Posts(r) /\ Running(r) /\ runs[r].at = "checkout"
      /\ UNCHANGED <<pr, ci, reviews, comments, journal, ledger, wanted, models>>
  BY AtPosts DEF RepairInv, CheckOut, At
<1>2. CASE Plan(r, Failure)
  BY <1>1, <1>2, FailStep
<1>3. CASE Goto(r, "claiming")
  <2>1. Only(r) /\ Keeps(r) /\ runs'[r].at = "claiming"
    BY <1>1, <1>3, GotoChange DEF Place
  <2>2. RepairTypeOK' /\ Grow
    BY <1>1, <2>1, Quiet DEF Only
  <2>3. /\ runs'[r].outcome # "none" => Closed(RequestOf(r))'
        /\ RequestOf(r).kind = "ci" => runs'[r].charge # 0 \/ Started(HeadOf(r))'
    BY <1>1, <2>1, <2>2, Own DEF RunOk, Starting, Keeps
  <2>4. QED
    BY <1>1, <2>1, <2>2, <2>3, Moves
<1>4. QED
  BY <1>2, <1>3 DEF CheckOut

-----------------------------------------------------------------------------
(* The steps of a run: its Worker, and what follows                        *)

\* A result in the journal is never taken back.
LEMMA Settled ==
    ASSUME RepairTypeOK, NEW q \in Request,
           NEW outcome \in {"claimed", "completed", "blocked", "failed"},
           Settle(q, outcome), outcome = "claimed" => ~Closed(q)
    PROVE  /\ journal' \subseteq [execution : Request,
                                  outcome : {"claimed", "completed", "blocked", "failed"}]
           /\ \A p \in Request : Closed(p) => Closed(p)'
           /\ outcome # "claimed" => Closed(q)'
<1> DEFINE new == [execution |-> q, outcome |-> outcome]
<1>1. journal' = {e \in journal : e.execution # q} \union {new}
  BY DEF Settle
<1>2. /\ new \in [execution : Request,
                  outcome : {"claimed", "completed", "blocked", "failed"}]
      /\ new.execution = q /\ new.outcome = outcome
  OBVIOUS
<1> HIDE DEF new
<1>3. journal' \subseteq [execution : Request,
                          outcome : {"claimed", "completed", "blocked", "failed"}]
  BY <1>1, <1>2 DEF RepairTypeOK
<1>4. outcome # "claimed" => Closed(q)'
  BY <1>1, <1>2 DEF Closed
<1>5. ASSUME NEW p \in Request, Closed(p) PROVE Closed(p)'
  <2>1. CASE p = q
    BY <1>4, <1>5, <2>1
  <2>2. CASE p # q
    BY <1>1, <1>5, <2>2 DEF Closed
  <2>3. QED
    BY <2>1, <2>2
<1>6. QED
  BY <1>3, <1>4, <1>5

\* A step that settles an execution and changes its run.
LEMMA SettledGrow ==
    ASSUME RepairTypeOK, NEW q \in Request,
           NEW outcome \in {"claimed", "completed", "blocked", "failed"},
           Settle(q, outcome), outcome = "claimed" => ~Closed(q),
           runs' \in Seq(RunType),
           UNCHANGED <<pr, ci, reviews, comments, ledger, wanted>>
    PROVE  RepairTypeOK' /\ Grow /\ (outcome # "claimed" => Closed(q)')
<1>1. /\ journal' \subseteq [execution : Request,
                             outcome : {"claimed", "completed", "blocked", "failed"}]
      /\ \A p \in Request : Closed(p) => Closed(p)'
      /\ outcome # "claimed" => Closed(q)'
  BY Settled
<1>2. RepairTypeOK'
  BY <1>1 DEF RepairTypeOK
<1>3. Grow
  BY <1>1, HeadTyped, CiTyped DEF Grow
<1>4. QED
  BY <1>1, <1>2, <1>3

\* A Worker starts where the execution has no result.
LEMMA StartWorkerStep ==
    ASSUME RepairInv, NEW r \in RunId, StartWorker(r)
    PROVE  RepairInv' /\ Grow
<1>1. /\ RepairTypeOK /\ RunOk(r) /\ Posts(r) /\ Running(r) /\ runs[r].at = "claiming"
      /\ RequestOf(r) \in Request
      /\ UNCHANGED <<pr, ci, reviews, comments, ledger, wanted>>
      /\ models' = models \union {<<RequestOf(r), r>>}
  BY AtPosts, RunTyped DEF RepairInv, StartWorker, At
<1>2. Only(r) /\ Keeps(r) /\ runs'[r].at = "working"
  BY <1>1, GotoChange DEF StartWorker, Place
<1>3. ~Closed(RequestOf(r)) /\ Settle(RequestOf(r), "claimed")
  BY DEF StartWorker, ResultOf, ExecutionOf, Closed
<1>4. RepairTypeOK' /\ Grow
  BY <1>1, <1>2, <1>3, SettledGrow DEF Only
<1>5. /\ runs'[r].outcome # "none" => Closed(RequestOf(r))'
      /\ RequestOf(r).kind = "ci" => runs'[r].charge # 0 \/ Started(HeadOf(r))'
  BY <1>1, <1>2, <1>4, Own DEF RunOk, Starting, Keeps
<1>6. QED
  BY <1>1, <1>2, <1>4, <1>5, Moves

\* A result of the execution is taken up again.
LEMMA ReplayResultStep ==
    ASSUME RepairInv, NEW r \in RunId, ReplayResult(r)
    PROVE  RepairInv' /\ Grow
<1>1. /\ RepairTypeOK /\ RunOk(r) /\ Posts(r) /\ Running(r) /\ runs[r].at = "claiming"
      /\ UNCHANGED <<pr, ci, reviews, comments, journal, ledger, wanted, models>>
  BY AtPosts DEF RepairInv, ReplayResult, At
<1>2. PICK outcome \in ResultOf(RequestOf(r)) \ {"claimed"} :
         runs' = [runs EXCEPT ![r].at = "committing",
                     ![r].outcome = IF outcome = "completed" THEN outcome ELSE "failed"]
  BY DEF ReplayResult, ExecutionOf
<1>3. Closed(RequestOf(r))
  BY <1>2 DEF ResultOf, Closed
<1>4. PICK noted \in {"completed", "failed"} :
         runs' = [runs EXCEPT ![r].at = "committing", ![r].outcome = noted]
  BY <1>2
<1>5. Only(r) /\ runs'[r].at = "committing" /\ runs'[r].charge = runs[r].charge
  BY <1>1, <1>4, OutcomeChange DEF Outcome
<1>6. RepairTypeOK' /\ Grow
  BY <1>1, <1>5, Quiet DEF Only
<1>7. /\ Closed(RequestOf(r))'
      /\ RequestOf(r).kind = "ci" => runs'[r].charge # 0 \/ Started(HeadOf(r))'
  BY <1>1, <1>3, <1>5, <1>6, Own DEF RunOk, Starting
<1>8. QED
  BY <1>1, <1>5, <1>6, <1>7, Moves

\* The run waits for capacity, and succeeds after it said so.
LEMMA DeferStep ==
    ASSUME RepairInv, NEW r \in RunId, DeferWorker(r)
    PROVE  RepairInv' /\ Grow
<1> DEFINE todo == <<"capacity-waiting", "succeed">>
<1>1. /\ RepairTypeOK /\ Posts(r) /\ Running(r)
      /\ UNCHANGED <<pr, ci, reviews, comments, journal, ledger, wanted, models>>
  BY AtPosts DEF RepairInv, DeferWorker, At
<1>2. Script(todo) /\ todo \in Seq(Item)
  BY Scripts DEF Script
<1>3. /\ \E i \in 1 .. Len(todo) : todo[i] = "capacity-waiting"
      /\ \A i \in 1 .. Len(todo) : todo[i] \notin {"checkout", "complete", "blocked"}
  <2>1. todo[1] = "capacity-waiting" /\ 1 \in 1 .. Len(todo)
    OBVIOUS
  <2>2. QED
    BY <2>1
<1>4. Plan(r, todo)
  BY DEF DeferWorker
<1> HIDE DEF todo
<1>5. Only(r) /\ Keeps(r) /\ runs'[r].at = "writing" /\ runs'[r].todo = todo
  BY <1>1, <1>2, <1>4, PlanChange
<1>6. RepairTypeOK' /\ Grow
  BY <1>1, <1>5, Quiet DEF Only
<1>7. /\ Writes(r, "capacity-waiting")'
      /\ ~Writes(r, "checkout")' /\ ~Writes(r, "complete")' /\ ~Writes(r, "blocked")'
  BY <1>3, <1>5 DEF Writes
<1>8. Unmarked(r) /\ "capacity-waiting" \in Status \ {"running"}
  BY <1>1 DEF RepairInv, MarkedOk, Unmarked, Status
<1>9. QED
  BY <1>1, <1>2, <1>5, <1>6, <1>7, <1>8, Planned DEF Keeps

\* The Worker ends, and its result is in the journal.
LEMMA WorkerEndsStep ==
    ASSUME RepairInv, NEW r \in RunId, WorkerEnds(r)
    PROVE  RepairInv' /\ Grow
<1>1. /\ RepairTypeOK /\ RunOk(r) /\ Posts(r) /\ Running(r) /\ runs[r].at = "working"
      /\ RequestOf(r) \in Request
      /\ UNCHANGED <<pr, ci, reviews, comments, ledger, wanted, models>>
  BY AtPosts, RunTyped DEF RepairInv, WorkerEnds, At
<1>2. PICK outcome \in {"completed", "blocked", "failed"} :
         /\ Settle(RequestOf(r), outcome)
         /\ runs' = [runs EXCEPT ![r].at = "committing", ![r].outcome = outcome]
  BY DEF WorkerEnds, ExecutionOf
<1>3. Only(r) /\ runs'[r].at = "committing" /\ runs'[r].charge = runs[r].charge
  BY <1>1, <1>2, OutcomeChange DEF Outcome
<1>4. RepairTypeOK' /\ Grow /\ Closed(RequestOf(r))'
  <2>1. PICK q \in Request : q = RequestOf(r)
    BY <1>1
  <2>2. RepairTypeOK' /\ Grow /\ Closed(q)'
    BY <1>1, <1>2, <1>3, <2>1, SettledGrow DEF Only
  <2>3. RequestOf(r)' = q
    BY <1>3, <2>1, <2>2, Own
  <2>4. QED
    BY <2>2, <2>3
<1>5. RequestOf(r).kind = "ci" => runs'[r].charge # 0 \/ Started(HeadOf(r))'
  BY <1>1, <1>3, <1>4, Own DEF RunOk, Starting
<1>6. QED
  BY <1>1, <1>3, <1>4, <1>5, Moves

\* The charge of a CI repair is recorded.
LEMMA Charged ==
    ASSUME RepairInv, NEW r \in RunId, Charge(r) \/ UNCHANGED ledger,
           runs' \in Seq(RunType),
           UNCHANGED <<pr, ci, reviews, comments, journal, wanted>>
    PROVE  RepairTypeOK' /\ Grow
<1>1. /\ RepairTypeOK /\ ledger \in LedgerType /\ IsFiniteSet(ledger.started)
      /\ HeadOf(r) \in Revision /\ runs[r].charge \in Nat
  BY RunTyped DEF RepairInv, RepairTypeOK, RunType
<1>2. /\ ledger' \in LedgerType /\ IsFiniteSet(ledger'.started)
      /\ ledger.started \subseteq ledger'.started
  <2>1. CASE UNCHANGED ledger
    BY <1>1, <2>1
  <2>2. CASE ledger' = [ledger EXCEPT !.started = @ \union
                           {[head |-> HeadOf(r), attempt |-> runs[r].charge]}]
    <3>1. PICK s \in [head : Revision, attempt : Nat] :
             s = [head |-> HeadOf(r), attempt |-> runs[r].charge]
      BY <1>1
    <3>2. ledger' \in LedgerType /\ ledger'.started = ledger.started \union {s}
      BY <1>1, <2>2, <3>1, LedgerChanged
    <3>3. QED
      <4>1. IsFiniteSet(ledger.started \union {s})
        BY <1>1, FS_AddElement
      <4>2. QED
        BY <3>2, <4>1
  <2>3. QED
    BY <2>1, <2>2 DEF Charge
<1>3. RepairTypeOK'
  BY <1>1, <1>2 DEF RepairTypeOK
<1>4. Grow
  BY <1>1, <1>2, HeadTyped, CiTyped DEF Grow, Closed
<1>5. QED
  BY <1>3, <1>4

\* The result is committed: from here a CI repair is charged.
LEMMA CommitStep ==
    ASSUME RepairInv, NEW r \in RunId, Commit(r)
    PROVE  RepairInv' /\ Grow
<1>1. /\ RepairTypeOK /\ RunOk(r) /\ Posts(r) /\ Running(r) /\ runs[r].at = "committing"
      /\ UNCHANGED <<pr, ci, reviews, comments, journal, wanted, models>>
      /\ Charge(r) \/ UNCHANGED ledger
      /\ Failure \in Seq(Item)
  BY AtPosts, Scripts DEF RepairInv, Commit, At, Failure, Script
<1>2. CASE Plan(r, Failure)
  <2>1. Only(r)
    BY <1>1, <1>2, PlanChange
  <2>2. RepairTypeOK' /\ Grow
    BY <1>1, <2>1, Charged DEF Only
  <2>3. QED
    BY <1>1, <1>2, <2>2, Fails
<1>3. CASE Charge(r) /\ Goto(r, "judging")
  <2>1. Only(r) /\ Keeps(r) /\ runs'[r].at = "judging"
    BY <1>1, <1>3, GotoChange DEF Place
  <2>2. RepairTypeOK' /\ Grow
    BY <1>1, <2>1, Charged DEF Only
  <2>3. runs'[r].outcome # "none" => Closed(RequestOf(r))'
    BY <1>1, <2>1, <2>2, Own DEF RunOk, Keeps
  <2>4. ASSUME RequestOf(r).kind = "ci" PROVE Started(HeadOf(r))'
    <3>1. CASE runs[r].charge = 0
      <4>1. Started(HeadOf(r))
        BY <1>1, <2>4, <3>1 DEF RunOk, Starting
      <4>2. QED
        BY <2>1, <2>2, <4>1, Own
    <3>2. CASE runs[r].charge # 0
      <4>1. PICK h : h = HeadOf(r)
        OBVIOUS
      <4>2. PICK s : s = [head |-> h, attempt |-> runs[r].charge]
        OBVIOUS
      <4>3. ledger' = [ledger EXCEPT !.started = @ \union {s}]
        BY <1>3, <3>2, <4>1, <4>2 DEF Charge
      <4>4. s \in ledger'.started /\ s.head = h
        BY <1>1, <4>2, <4>3 DEF RepairTypeOK, LedgerType
      <4>5. HeadOf(r)' = h
        BY <2>1, <2>2, <4>1, Own
      <4>6. QED
        BY <4>4, <4>5 DEF Started
    <3>3. QED
      BY <3>1, <3>2
  <2>5. QED
    BY <1>1, <2>1, <2>2, <2>3, <2>4, Moves
<1>4. QED
  BY <1>2, <1>3 DEF Commit

\* The run judges what its Worker did: what it will post is proven.
LEMMA JudgeStep ==
    ASSUME RepairInv, NEW r \in RunId, Judge(r)
    PROVE  RepairInv' /\ Grow
<1> DEFINE handing == <<"ready", "advance", "clear", "complete", "succeed">>
           todo == Closing(r)
<1>1. /\ RepairTypeOK /\ RunOk(r) /\ Posts(r) /\ Running(r) /\ runs[r].at = "judging"
      /\ pr.head \in Revision /\ pr.head \in Nat /\ HeadOf(r) \in Nat /\ HeadOf(r) <= pr.head
      /\ HeadOf(r) = RequestOf(r).head
      /\ UNCHANGED <<pr, ci, reviews, comments, journal, ledger, wanted, models>>
  BY AtPosts, HeadTyped, RunTyped DEF RepairInv, RunOk, Judge, At, HeadOf, RequestOf
<1>2. /\ Script(todo) /\ todo \in Seq(Item)
      /\ \A i \in 1 .. Len(todo) : todo[i] # "checkout"
      /\ (\E i \in 1 .. Len(todo) : todo[i] = "succeed") =>
            \E i \in 1 .. Len(todo) : todo[i] \in {"blocked", "complete"}
      /\ (\E i \in 1 .. Len(todo) : todo[i] = "complete") =>
            \/ /\ \E i \in 1 .. Len(todo) : todo[i] = "advance"
               /\ pr.head # HeadOf(r) \/ RequestOf(r).kind = "review"
            \/ CiProven(r)
  <2>1. CASE todo = <<"blocked", "succeed">>
    BY <2>1, Scripts DEF Script
  <2>2. CASE todo = handing /\ (pr.head # HeadOf(r) \/ RereviewProven(r))
    <3>1. RequestOf(r).kind = "review" \/ pr.head # HeadOf(r)
      BY <2>2 DEF RereviewProven
    <3>2. Script(todo)
      BY <2>2, Scripts
    <3>3. todo[2] = "advance" /\ todo[4] = "complete" /\ Len(todo) = 5
      BY <2>2
    <3>4. \A i \in 1 .. Len(todo) : todo[i] # "checkout"
      BY <2>2
    <3> HIDE DEF todo, handing
    <3>5. QED
      BY <3>1, <3>2, <3>3, <3>4 DEF Script
  <2>3. CASE todo = <<"complete", "succeed">> /\ CiProven(r)
    BY <2>3, Scripts DEF Script
  <2>4. CASE todo = Failure
    BY <2>4, Scripts DEF Script, Failure
  <2>5. QED
    BY <2>1, <2>2, <2>3, <2>4 DEF Closing
<1>3. runs' = [runs EXCEPT ![r].at = "writing", ![r].head = pr.head, ![r].todo = todo]
  BY DEF Judge
<1> HIDE DEF todo, handing
<1>4. /\ Only(r) /\ runs'[r].at = "writing" /\ runs'[r].todo = todo
      /\ runs'[r].head = pr.head /\ runs'[r].outcome = runs[r].outcome
  BY <1>1, <1>2, <1>3, NotedChange
<1>5. RepairTypeOK' /\ Grow
  BY <1>1, <1>4, Quiet DEF Only
<1>6. \A item : Writes(r, item)' <=> \E i \in 1 .. Len(todo) : todo[i] = item
  BY <1>4 DEF Writes
<1>7. /\ ~Writes(r, "checkout")'
      /\ Writes(r, "succeed")' => Writes(r, "blocked")' \/ Writes(r, "complete")'
  BY <1>2, <1>6
<1>8. Writes(r, "complete")' => Proven(RequestOf(r))' \/ (Writes(r, "advance")' /\ HandsOn(r)')
  <2>1. CASE CiProven(r)
    <3>1. Proven(RequestOf(r))
      BY <1>1, <2>1, CiTyped, RunTyped DEF CiProven, Proven, Request
    <3>2. QED
      BY <1>4, <1>5, <3>1, Own
  <2>2. CASE pr.head # HeadOf(r) \/ RequestOf(r).kind = "review"
    <3>1. HandsOn(r)'
      <4>1. HeadOf(r)' = HeadOf(r) /\ RequestOf(r)' = RequestOf(r)
        BY <1>4, <1>5, Own
      <4>2. QED
        BY <1>1, <1>4, <2>2, <4>1 DEF HandsOn
    <3>2. CASE CiProven(r)
      BY <2>1, <3>2
    <3>3. QED
      BY <1>2, <1>6, <2>1, <3>1
  <2>3. QED
    BY <1>2, <1>6, <2>1, <2>2
<1>9. RequestOf(r).kind = "ci" => Started(HeadOf(r))'
  BY <1>1, <1>4, <1>5, Own DEF RunOk
<1>10. Unmarked(r) /\ {"blocked", "complete"} \subseteq Status \ {"running"}
  BY <1>1 DEF RepairInv, MarkedOk, Unmarked, Status
<1>11. QED
  BY <1>1, <1>2, <1>4, <1>5, <1>7, <1>8, <1>9, <1>10, Planned

-----------------------------------------------------------------------------
(* The steps of a run: one write                                           *)

\* The item that is written next, and those that are left.
LEMMA NextItem ==
    ASSUME RepairInv, NEW r \in RunId, runs[r].at = "writing"
    PROVE  /\ Script(runs[r].todo)
           /\ Head(runs[r].todo) \in Item
           /\ Writes(r, Head(runs[r].todo))
           /\ Head(runs[r].todo) \in Terminal =>
                 \A item : Writes(r, item) => item = Head(runs[r].todo)
           /\ Head(runs[r].todo) \in {"running", "failed"} => ~Writes(r, "succeed")
           /\ Head(runs[r].todo) = "complete" => ~Writes(r, "advance")
<1> DEFINE todo == runs[r].todo
<1>1. Script(todo)
  BY DEF RepairInv, RunOk
<1> HIDE DEF todo
<1>2. /\ todo \in Seq(Item) /\ Len(todo) \in Nat /\ 1 \in 1 .. Len(todo)
      /\ Head(todo) = todo[1] /\ todo[1] \in Item
  BY <1>1 DEF Script
<1>3. \A item : Writes(r, item) <=> \E i \in 1 .. Len(todo) : todo[i] = item
  BY DEF Writes, todo
<1>4. Head(todo) \in Terminal => \A item : Writes(r, item) => item = Head(todo)
  BY <1>1, <1>2, <1>3 DEF Script
<1>5. Head(todo) \in {"running", "failed"} => ~Writes(r, "succeed")
  <2>1. \A i \in 1 .. Len(todo) : todo[i] = "succeed" => i = Len(todo)
    BY <1>1 DEF Script, Terminal
  <2>2. Head(todo) \in {"running", "failed"} => todo[Len(todo)] # "succeed"
    BY <1>1, <1>2 DEF Script
  <2>3. QED
    BY <1>3, <2>1, <2>2
<1>6. Head(todo) = "complete" => ~Writes(r, "advance")
  BY <1>1, <1>2, <1>3 DEF Script
<1>7. QED
  BY <1>1, <1>2, <1>3, <1>4, <1>5, <1>6 DEF todo

\* What a write changes stays in its type, and takes nothing back.
LEMMA EffectGrow ==
    ASSUME RepairInv, NEW r \in RunId, NEW item \in Item \ Terminal,
           Effect(r, item) \/ NoEffect, runs' \in Seq(RunType),
           UNCHANGED <<reviews, journal>>
    PROVE  RepairTypeOK' /\ Grow
<1>1. /\ RepairTypeOK /\ pr \in PrType /\ ledger \in LedgerType
      /\ Marker(r) \in Request \X Nat /\ r \in Nat
      /\ HeadOf(r) \in Revision /\ runs[r].head \in Revision
      /\ ci \in CiType /\ \A h \in Revision : ci[h].attempt \in Nat
      /\ pr.head \in Nat
  BY HeadTyped, CiTyped, RunTyped DEF RepairInv, RepairTypeOK, RunType
<1>2. comments' \subseteq [marker : Request \X Nat, status : Status, run : Nat]
  <2>1. CASE item \in Status /\ Post(r, item)
    BY <1>1, <2>1 DEF Post, RepairTypeOK
  <2>2. CASE UNCHANGED comments
    BY <1>1, <2>2 DEF RepairTypeOK
  <2>3. QED
    BY <2>1, <2>2 DEF Effect, NoEffect
<1>3. pr' \in PrType /\ pr'.head = pr.head
  <2>1. CASE pr' = pr
    BY <1>1, <2>1
  <2>2. CASE item \in Labels /\ pr' = Relabelled(r, item)
    <3>1. CASE \E b \in BOOLEAN : \/ pr' = [pr EXCEPT !.ready = b]
                                  \/ pr' = [pr EXCEPT !.blocked = b]
                                  \/ pr' = [pr EXCEPT !.paused = b]
      <4>1. PICK b \in BOOLEAN : \/ pr' = [pr EXCEPT !.ready = b]
                                  \/ pr' = [pr EXCEPT !.blocked = b]
                                  \/ pr' = [pr EXCEPT !.paused = b]
        BY <3>1
      <4>2. CASE pr' = [pr EXCEPT !.ready = b]
        BY <1>1, <4>2, PrChanged
      <4>3. CASE pr' = [pr EXCEPT !.blocked = b]
        BY <1>1, <4>3, PrChanged
      <4>4. CASE pr' = [pr EXCEPT !.paused = b]
        BY <1>1, <4>4, PrChanged
      <4>5. QED
        BY <4>1, <4>2, <4>3, <4>4
    <3>2. PICK kind : kind = RequestOf(r).kind
      OBVIOUS
    <3>3. PICK b \in BOOLEAN : b = ((pr.blocked \/ kind = "review") /\ kind # "merge")
      OBVIOUS
    <3>4. PICK d \in BOOLEAN : d = (pr.blocked \/ kind # "ci")
      OBVIOUS
    <3>5. \/ pr' = [pr EXCEPT !.ready = TRUE]
          \/ pr' = [pr EXCEPT !.blocked = FALSE]
          \/ pr' = [pr EXCEPT !.paused = TRUE]
          \/ pr' = [pr EXCEPT !.blocked = b]
          \/ pr' = [pr EXCEPT !.blocked = d]
      <4>1. item \in {"labels", "ready", "clear", "block", "pause-label"}
        BY <2>2 DEF Labels
      <4>2. QED
        BY <2>2, <3>2, <3>3, <3>4, <4>1 DEF Relabelled
    <3>6. QED
      BY <3>1, <3>5
  <2>3. QED
    BY <2>1, <2>2 DEF Effect, NoEffect
<1>4. wanted' \subseteq Revision /\ wanted \subseteq wanted'
  BY <1>1 DEF Effect, NoEffect, RepairTypeOK
<1>5. ledger' \in LedgerType /\ ledger'.started = ledger.started
  <2>1. \/ ledger' = ledger
        \/ ledger' = [ledger EXCEPT !.candidates = @ \union {HeadOf(r)}]
        \/ ledger' = [ledger EXCEPT !.paused = TRUE]
    BY DEF Effect, NoEffect
  <2>2. QED
    BY <1>1, <2>1, LedgerChanged
<1>6. ci' \in CiType /\ \A g \in Revision : ci[g].attempt <= ci'[g].attempt
  <2>1. CASE Rerun(HeadOf(r))
    BY <1>1, <2>1, RerunTyped
  <2>2. CASE ci' = ci
    BY <1>1, <2>2
  <2>3. QED
    BY <2>1, <2>2 DEF Effect, NoEffect
<1>7. RepairTypeOK'
  BY <1>1, <1>2, <1>3, <1>4, <1>5, <1>6 DEF RepairTypeOK
<1>8. Grow
  BY <1>1, <1>3, <1>4, <1>5, <1>6 DEF Grow, Closed
<1>9. QED
  BY <1>7, <1>8

\* A run may post the item it is to write.
LEMMA MayPost ==
    ASSUME RepairInv, RepairTypeOK', Grow, NEW r \in RunId, Only(r),
           runs[r].at = "writing", Head(runs[r].todo) \in Status
    PROVE  /\ Posts(r) /\ Running(r)
           /\ Head(runs[r].todo) = "complete" => Proven(RequestOf(r))'
           /\ Head(runs[r].todo) \in {"complete", "blocked"} /\ RequestOf(r).kind = "ci"
                 => Started(HeadOf(r))'
<1>1. Writes(r, Head(runs[r].todo)) /\ RunOk(r)
  BY NextItem DEF RepairInv
<1>2. Posts(r) /\ Running(r)
  BY <1>1 DEF Posts, Running
<1>3. Head(runs[r].todo) = "complete" => Proven(RequestOf(r))
  BY <1>1, NextItem DEF RunOk
<1>4. Head(runs[r].todo) \in {"complete", "blocked"} /\ RequestOf(r).kind = "ci"
         => Started(HeadOf(r))
  BY <1>1 DEF RunOk
<1>5. QED
  BY <1>2, <1>3, <1>4, Own

\* What is still to be written after one item.
LEMMA Remaining ==
    ASSUME RepairInv, NEW r \in RunId, runs[r].at = "writing",
           Head(runs[r].todo) \notin Terminal, Written(r)
    PROVE  /\ Only(r) /\ Keeps(r) /\ runs'[r].at = "writing" /\ Script(runs'[r].todo)
           /\ \A item : Writes(r, item)' => Writes(r, item)
           /\ \A item : Writes(r, item) => item = Head(runs[r].todo) \/ Writes(r, item)'
<1>1. RepairTypeOK /\ Script(runs[r].todo)
  BY NextItem DEF RepairInv
<1>2. /\ Only(r) /\ Keeps(r) /\ runs'[r].at = "writing"
      /\ runs'[r].todo = Tail(runs[r].todo)
  BY <1>1, WrittenChange
<1>3. PICK todo : todo = runs[r].todo
  OBVIOUS
<1>4. /\ Script(Tail(todo)) /\ Len(todo) \in Nat /\ Len(todo) >= 2
      /\ Len(Tail(todo)) = Len(todo) - 1
      /\ \A i \in 1 .. Len(todo) - 1 : Tail(todo)[i] = todo[i + 1]
      /\ Head(todo) = todo[1]
  BY <1>1, <1>3, ScriptTail DEF Script
<1>5. ASSUME NEW item, Writes(r, item)' PROVE Writes(r, item)
  <2>1. PICK i \in 1 .. Len(Tail(todo)) : Tail(todo)[i] = item
    BY <1>2, <1>3, <1>5 DEF Writes
  <2>2. i + 1 \in 1 .. Len(todo) /\ todo[i + 1] = item
    BY <1>4, <2>1
  <2>3. QED
    BY <1>3, <2>2 DEF Writes
<1>6. ASSUME NEW item, Writes(r, item), item # Head(todo) PROVE Writes(r, item)'
  <2>1. PICK i \in 1 .. Len(todo) : todo[i] = item
    BY <1>3, <1>6 DEF Writes
  <2>2. i # 1
    BY <1>4, <1>6, <2>1
  <2>3. i - 1 \in 1 .. Len(Tail(todo)) /\ Tail(todo)[i - 1] = item
    BY <1>4, <2>1, <2>2
  <2>4. QED
    BY <1>2, <1>3, <2>3 DEF Writes
<1>7. QED
  BY <1>2, <1>3, <1>4, <1>5, <1>6

\* An item is written, or given up, and the run goes on with the next.
LEMMA WrittenStep ==
    ASSUME RepairInv, RepairTypeOK', Grow, NEW r \in RunId, runs[r].at = "writing",
           NEW item, item = Head(runs[r].todo), item \notin Terminal, Written(r),
           item = "advance" => runs[r].head \in wanted',
           UNCHANGED models,
           \/ item \in Status /\ Post(r, item)
           \/ (item \in Status => item = "failed") /\ UNCHANGED comments
    PROVE  RepairInv'
<1>1. /\ Only(r) /\ Keeps(r) /\ runs'[r].at = "writing" /\ Script(runs'[r].todo)
      /\ \A x : Writes(r, x)' => Writes(r, x)
      /\ \A x : Writes(r, x) => x = item \/ Writes(r, x)'
  BY Remaining
<1>2. /\ RunOk(r) /\ Running(r) /\ RequestOf(r) \in Request
      /\ HeadOf(r) = RequestOf(r).head
  BY RunTyped DEF RepairInv, Running, HeadOf, RequestOf
<1>3. /\ RequestOf(r)' = RequestOf(r) /\ HeadOf(r)' = HeadOf(r)
      /\ runs'[r].head = runs[r].head
  BY <1>1, Own DEF Keeps
<1>4. Writes(r, "complete")' =>
         Proven(RequestOf(r))' \/ (Writes(r, "advance")' /\ HandsOn(r)')
  <2>1. SUFFICES ASSUME Writes(r, "complete")' PROVE Proven(RequestOf(r))' \/
                    (Writes(r, "advance")' /\ HandsOn(r)')
    OBVIOUS
  <2>2. CASE Proven(RequestOf(r))
    BY <1>1, <2>2, Own
  <2>3. CASE Writes(r, "advance") /\ HandsOn(r)
    <3>1. CASE item = "advance"
      <4>1. PICK q : q = RequestOf(r)
        OBVIOUS
      <4>2. Proven(q)'
        BY <1>2, <2>3, <3>1, <4>1 DEF HandsOn, Proven
      <4>3. QED
        BY <1>3, <4>1, <4>2
    <3>2. CASE item # "advance"
      BY <1>1, <1>3, <2>3, <3>2 DEF HandsOn
    <3>3. QED
      BY <3>1, <3>2
  <2>4. QED
    BY <1>1, <1>2, <2>1, <2>2, <2>3 DEF RunOk
<1>5. RunOk(r)'
  <2>1. Starting(r)' => Starting(r)
    BY <1>1 DEF Starting
  <2>2. QED
    BY <1>1, <1>2, <1>4, <2>1, Own DEF RunOk, Keeps
<1>6. Alone(r)
  BY <1>1, <1>2, <1>5, StillAlone
<1>7. Posts(r)' => Unmarked(r)
  <2>1. Starting(r)' => Starting(r)
    BY <1>1 DEF Starting
  <2>2. Posts(r)' => Posts(r)
    BY <1>1, <2>1 DEF Posts, Keeps
  <2>3. QED
    BY <2>2 DEF RepairInv, MarkedOk, Unmarked
<1>8. item \in {"running", "failed"} => Interrupted(r)'
  BY <1>1, NextItem DEF Interrupted, Ended
<1>9. CASE item \in Status /\ Post(r, item)
  BY <1>1, <1>6, <1>8, <1>9, MayPost, Speaks
<1>10. CASE (item \in Status => item = "failed") /\ UNCHANGED comments
  <2>1. ASSUME NEW c \in comments, c.run = r, c.status = "running"
        PROVE  Interrupted(r)'
    <3>1. Interrupted(r)
      BY <2>1 DEF RepairInv, CommentOk
    <3>2. CASE item = "failed"
      BY <1>8, <3>2
    <3>3. CASE item \notin Status
      BY <1>1, <3>1, <3>3 DEF Interrupted, Ended
    <3>4. QED
      BY <1>10, <3>2, <3>3
  <2>2. QED
    BY <1>1, <1>6, <1>7, <1>10, <2>1, Silent
<1>11. QED
  BY <1>9, <1>10

\* A post after which the run stops, or turns to its catch.
LEMMA PostThen ==
    ASSUME RepairInv, RepairTypeOK', Grow, NEW r \in RunId, runs[r].at = "writing",
           Head(runs[r].todo) \in Status, Post(r, Head(runs[r].todo)),
           Plan(r, Failure) \/ Stop(r, "failure"), UNCHANGED models
    PROVE  RepairInv'
<1>1. RepairTypeOK /\ Script(Failure) /\ Failure \in Seq(Item)
  BY Scripts DEF RepairInv, Failure, Script
<1>2. /\ Only(r) /\ Keeps(r)
      /\ \/ runs'[r].at = "writing" /\ runs'[r].todo = Failure
         \/ runs'[r].at = "ended" /\ runs'[r].conclusion = "failure"
  BY <1>1, PlanChange, StopChange
<1>3. \A item : Writes(r, item)' => item \in {"failed", "block", "fail"}
  BY <1>2 DEF Writes, Failure
<1>4. RunOk(r) /\ ~Starting(r)'
  BY <1>2, <1>3 DEF RepairInv, Starting
<1>5. RunOk(r)'
  BY <1>1, <1>2, <1>3, <1>4, Own DEF RunOk, Keeps
<1>6. Running(r)
  BY DEF Running
<1>7. Alone(r)
  BY <1>2, <1>5, <1>6, StillAlone
<1>8. Interrupted(r)'
  BY <1>2, <1>3 DEF Interrupted, Ended
<1>9. QED
  BY <1>2, <1>7, <1>8, MayPost, Speaks

\* One write.
LEMMA WriteStep ==
    ASSUME RepairInv, NEW r \in RunId, Write(r)
    PROVE  RepairInv' /\ Grow
<1> DEFINE item == Head(runs[r].todo)
<1>1. /\ RepairTypeOK /\ runs[r].at = "writing" /\ item \in Item /\ Running(r)
      /\ UNCHANGED <<reviews, journal, models>>
  BY NextItem DEF RepairInv, Write, At, Running
<1>2. CASE item \in {"succeed", "fail"}
  <2>1. PICK conclusion \in {"success", "failure"} :
           Stop(r, conclusion) /\ (conclusion = "success" => item = "succeed")
    BY <1>2 DEF Write
  <2>2. NoEffect
    BY <1>2 DEF Write
  <2>3. Only(r) /\ Keeps(r) /\ runs'[r].at = "ended" /\ runs'[r].conclusion = conclusion
    BY <1>1, <2>1, StopChange
  <2>4. RepairTypeOK' /\ Grow
    BY <1>1, <2>2, <2>3, Quiet DEF Only, NoEffect
  <2>5. ASSUME conclusion = "success", NEW c \in comments, c.run = r
        PROVE  c.status # "running"
    <3>1. Writes(r, "succeed") /\ \A x : Writes(r, x) => x = "succeed"
      BY <1>1, <2>1, <2>5, NextItem DEF Terminal
    <3>2. ~Interrupted(r)
      BY <3>1 DEF Interrupted, Status
    <3>3. QED
      BY <2>5, <3>2 DEF RepairInv, CommentOk
  <2>6. QED
    BY <1>1, <2>2, <2>3, <2>4, <2>5, Ends DEF Keeps, NoEffect
<1>3. CASE item = "checkout"
  <2>1. Goto(r, "checkout") /\ NoEffect
    BY <1>3 DEF Write
  <2>2. Only(r) /\ Keeps(r) /\ runs'[r].at = "checkout"
    BY <1>1, <2>1, GotoChange DEF Place
  <2>3. RepairTypeOK' /\ Grow
    BY <1>1, <2>1, <2>2, Quiet DEF Only, NoEffect
  <2>4. RunOk(r) /\ Starting(r) /\ Posts(r)
    BY <1>1, <1>3, NextItem DEF RepairInv, Starting, Posts
  <2>5. /\ runs'[r].outcome # "none" => Closed(RequestOf(r))'
        /\ RequestOf(r).kind = "ci" => runs'[r].charge # 0 \/ Started(HeadOf(r))'
    BY <2>2, <2>3, <2>4, Own DEF RunOk, Keeps
  <2>6. QED
    BY <1>1, <2>1, <2>2, <2>3, <2>4, <2>5, Moves DEF NoEffect
<1>4. CASE item \notin Terminal
  <2>1. Effect(r, item) /\ Written(r)
    BY <1>4 DEF Write, Terminal
  <2>2. Only(r)
    BY <1>1, <1>4, <2>1, Remaining
  <2>3. RepairTypeOK' /\ Grow
    BY <1>1, <1>4, <2>1, <2>2, EffectGrow DEF Only
  <2>4. /\ item = "advance" => runs[r].head \in wanted'
        /\ \/ item \in Status /\ Post(r, item)
           \/ item \notin Status /\ UNCHANGED comments
    BY <2>1 DEF Effect
  <2>5. QED
    BY <1>1, <1>4, <2>1, <2>3, <2>4, WrittenStep
<1>5. QED
  BY <1>2, <1>3, <1>4 DEF Terminal

\* One write that fails, or loses its response.
LEMMA WriteFailsStep ==
    ASSUME RepairInv, NEW r \in RunId, WriteFails(r)
    PROVE  RepairInv' /\ Grow
<1> DEFINE item == Head(runs[r].todo)
<1>1. /\ RepairTypeOK /\ runs[r].at = "writing" /\ Running(r)
      /\ item \in Item \ Terminal /\ Writes(r, item)
      /\ UNCHANGED <<reviews, journal, models>>
      /\ Effect(r, item) \/ NoEffect
      /\ Failure \in Seq(Item)
  BY NextItem, Scripts DEF RepairInv, WriteFails, At, Terminal, Running, Failure, Script
<1>2. \/ item \in Status /\ Post(r, item)
      \/ UNCHANGED comments
  BY <1>1 DEF Effect, NoEffect
<1>3. CASE item \in Labels \union {"failed"} /\ Written(r)
  <2>1. Only(r)
    BY <1>1, <1>3, Remaining
  <2>2. RepairTypeOK' /\ Grow
    BY <1>1, <2>1, EffectGrow DEF Only
  <2>3. item # "advance" /\ (item \in Status => item = "failed")
    BY <1>3 DEF Labels, Status
  <2>4. QED
    BY <1>1, <1>2, <1>3, <2>2, <2>3, WrittenStep
<1>4. CASE /\ Plan(r, Failure)
           /\ runs[r].outcome # "none" \/ item = "capacity-waiting"
  <2>1. Only(r)
    BY <1>1, <1>4, PlanChange
  <2>2. RepairTypeOK' /\ Grow
    BY <1>1, <2>1, EffectGrow DEF Only
  <2>3. Posts(r)
    BY <1>1, <1>4 DEF Posts, Status
  <2>4. QED
    BY <1>1, <1>2, <1>4, <2>2, <2>3, PostThen, Fails
<1>5. CASE Stop(r, "failure")
  <2>1. Only(r) /\ Keeps(r) /\ runs'[r].at = "ended" /\ runs'[r].conclusion = "failure"
    BY <1>1, <1>5, StopChange
  <2>2. RepairTypeOK' /\ Grow
    BY <1>1, <2>1, EffectGrow DEF Only
  <2>3. QED
    BY <1>1, <1>2, <1>5, <2>1, <2>2, PostThen, Ends DEF Keeps
<1>6. QED
  BY <1>3, <1>4, <1>5 DEF WriteFails

-----------------------------------------------------------------------------
(* The theorems                                                            *)

\* Each step of a run, and each fault of one.
LEMMA RunSteps ==
    ASSUME RepairInv, NEW r \in RunId, RunStep(r) \/ FaultOf(r)
    PROVE  RepairInv' /\ Grow
BY BeginStep, ReadStep, CheckOutStep, StartWorkerStep, CaughtSteps, ReplayResultStep,
   WorkerEndsStep, CommitStep, JudgeStep, WriteStep, KillStep, DeferStep, WriteFailsStep
   DEF RunStep, FaultOf

\* Each step that is not of a run.
LEMMA OtherSteps ==
    ASSUME RepairInv, Outside \/ \E r \in RunId : WorkerStep(r) \/ RecoveryStep(r)
    PROVE  RepairInv' /\ Grow
BY PushStep, RunsCiStep, CompleteCiStep, SendStep, CommentStep, AdmitRecoveryStep,
   SendRecoveryStep, LoseRecoveryStep DEF Outside, WorkerStep, RecoveryStep

\* Each step preserves the invariant, and takes nothing back.
LEMMA RepairStep ==
    ASSUME RepairInv, [RepairNext]_vars
    PROVE  RepairInv' /\ Grow
<1>1. CASE RepairNext
  BY <1>1, RunSteps, OtherSteps DEF RepairNext
<1>2. CASE UNCHANGED vars
  <2>1. UNCHANGED <<pr, ci, reviews, runs, comments, journal, ledger, wanted, models>>
    BY <1>2 DEF vars
  <2>2. RepairTypeOK' /\ Grow
    BY <2>1, Quiet DEF RepairInv, RepairTypeOK
  <2>3. QED
    BY <2>1, <2>2, RunsStay
<1>3. QED
  BY <1>1, <1>2

\* The invariant holds at the start.
LEMMA RepairStart == RepairInit => RepairInv
<1> SUFFICES ASSUME RepairInit PROVE RepairInv
  OBVIOUS
<1>1. 1 \in Revision
  BY RepairAssumption DEF Revision
<1>2. pr \in PrType /\ ci \in CiType /\ ledger \in LedgerType
  BY <1>1 DEF RepairInit, PrType, CiType, LedgerType
<1>3. runs \in Seq(RunType) /\ RunId = {}
  BY DEF RepairInit, RunId
<1>4. ledger.started = {} /\ IsFiniteSet(ledger.started)
  BY FS_EmptySet DEF RepairInit
<1>5. RepairTypeOK
  BY <1>2, <1>3, <1>4 DEF RepairInit, RepairTypeOK
<1>6. QED
  BY <1>3, <1>5 DEF RepairInit, RepairInv, LanesOk, ModelsOk

\* The inductive invariant holds throughout.
THEOREM RepairInvariant == RepairSpec => []RepairInv
<1>1. RepairInv /\ [RepairNext]_vars => RepairInv'
  BY RepairStep
<1>2. QED
  BY RepairStart, <1>1, PTL DEF RepairSpec

\* Each variable keeps its type.
THEOREM RepairTypes == RepairSpec => []RepairTypeOK
<1>1. RepairInv => RepairTypeOK
  BY DEF RepairInv
<1>2. QED
  BY <1>1, RepairInvariant, PTL

\* A status that says a repair runs is not the last word of a run that
\* succeeded: the run has another status to post before it may succeed.
THEOREM RunningInterrupted == RepairSpec => []RunningIsInterrupted
<1>1. RepairInv => RunningIsInterrupted
  BY DEF RepairInv, RunningIsInterrupted, CommentOk, Interrupted
<1>2. QED
  BY <1>1, RepairInvariant, PTL

\* A CI repair that was ended in its run is charged to its branch, at any
\* faults and with any number of recoveries.
THEOREM EndedCharged == RepairSpec => []EndedIsCharged
<1>1. RepairInv => EndedIsCharged
  BY DEF RepairInv, EndedIsCharged, CommentOk
<1>2. QED
  BY <1>1, RepairInvariant, PTL

\* A repair is said to be complete only when it is proven.
THEOREM CompleteHandedOn == RepairSpec => []CompleteIsHandedOn
<1>1. RepairInv => CompleteIsHandedOn
  BY DEF RepairInv, CompleteIsHandedOn, CommentOk, Proven
<1>2. QED
  BY <1>1, RepairInvariant, PTL

\* A comment changes only by the run that posts.
LEMMA PostsOnly ==
    ASSUME RepairInv, RepairNext
    PROVE  \/ UNCHANGED comments
           \/ \E r \in RunId, status \in Status : Posts(r) /\ Post(r, status)
<1>1. ASSUME NEW r \in RunId, Write(r) \/ WriteFails(r)
      PROVE  UNCHANGED comments \/ \E status \in Status : Posts(r) /\ Post(r, status)
  <2>1. Writes(r, Head(runs[r].todo)) /\ runs[r].at = "writing"
    BY <1>1, NextItem DEF Write, WriteFails, At
  <2>2. \/ UNCHANGED comments
        \/ Head(runs[r].todo) \in Status /\ Post(r, Head(runs[r].todo))
    BY <1>1 DEF Write, WriteFails, Effect, NoEffect
  <2>3. QED
    BY <2>1, <2>2 DEF Posts
<1>2. ASSUME NEW r \in RunId, RunStep(r) \/ WorkerStep(r) \/ FaultOf(r) \/ RecoveryStep(r),
             ~(Write(r) \/ WriteFails(r))
      PROVE  UNCHANGED comments
  <2>1. CASE RunStep(r)
    BY <1>2, <2>1 DEF RunStep, Begin, ReadPullRequest, CheckOut, StartWorker, ReplayClaim,
                      ReplayResult, WorkerEnds, Commit, Judge
  <2>2. CASE FaultOf(r)
    BY <1>2, <2>2 DEF FaultOf, Kill, DeferWorker, PreparationFails
  <2>3. CASE WorkerStep(r) \/ RecoveryStep(r)
    BY <2>3 DEF WorkerStep, WorkerPushes, WorkerRunsCi, WorkerRebuts,
                RecoveryStep, AdmitRecovery, SendRecovery, LoseRecovery
  <2>4. QED
    BY <1>2, <2>1, <2>2, <2>3
<1>3. CASE Outside
  BY <1>3 DEF Outside, Push, CompleteCi, Review, SendRepair, Send, Comment
<1>4. QED
  BY <1>1, <1>2, <1>3 DEF RepairNext

\* A Worker is started only by StartWorker.
LEMMA StartsOnly ==
    ASSUME RepairNext
    PROVE  UNCHANGED models \/ \E r \in RunId : StartWorker(r)
<1>1. ASSUME NEW r \in RunId, RunStep(r) \/ WorkerStep(r) \/ FaultOf(r) \/ RecoveryStep(r)
      PROVE  UNCHANGED models \/ StartWorker(r)
  <2>1. CASE RunStep(r)
    BY <2>1 DEF RunStep, Begin, ReadPullRequest, CheckOut, ReplayClaim,
                ReplayResult, WorkerEnds, Commit, Judge, Write
  <2>2. CASE FaultOf(r)
    BY <2>2 DEF FaultOf, Kill, DeferWorker, WriteFails, PreparationFails
  <2>3. CASE WorkerStep(r) \/ RecoveryStep(r)
    BY <2>3 DEF WorkerStep, WorkerPushes, WorkerRunsCi, WorkerRebuts,
                RecoveryStep, AdmitRecovery, SendRecovery, LoseRecovery
  <2>4. QED
    BY <1>1, <2>1, <2>2, <2>3
<1>2. CASE Outside
  BY <1>2 DEF Outside, Push, CompleteCi, Review, SendRepair, Send, Comment
<1>3. QED
  BY <1>1, <1>2 DEF RepairNext

\* A repair that ended is done with: no later run of its request starts a
\* Worker, and no other run changes a status that ends it.
THEOREM RepairEndedStays == RepairSpec => EndedRepairStays
<1> DEFINE StartsNoneEnded ==
              \A model \in models' \ models, earlier \in models :
                 earlier[1] = model[1] => runs[earlier[2]].outcome = "none"
           KeepsEnding ==
              \A c \in comments :
                 c.status \in {"complete", "failed", "blocked"} =>
                    \E d \in comments' : d.marker = c.marker /\ d.run = c.run
<1>1. ASSUME RepairInv, RepairNext PROVE StartsNoneEnded
  <2>1. ASSUME NEW r \in RunId, StartWorker(r),
               NEW model \in models' \ models, NEW earlier \in models,
               earlier[1] = model[1]
        PROVE  runs[earlier[2]].outcome = "none"
    <3>1. model[1] = RequestOf(r)
      BY <2>1 DEF StartWorker
    <3>2. ~Closed(RequestOf(r))
      BY <2>1 DEF StartWorker, ResultOf, ExecutionOf, Closed
    <3>3. earlier[2] \in RunId /\ earlier[1] = RequestOf(earlier[2])
      BY <1>1 DEF RepairInv, ModelsOk
    <3>4. RunOk(earlier[2])
      BY <1>1, <3>3 DEF RepairInv
    <3>5. QED
      BY <2>1, <3>1, <3>2, <3>3, <3>4 DEF RunOk
  <2>2. QED
    BY <1>1, <2>1, StartsOnly
<1>2. ASSUME RepairInv, RepairNext PROVE KeepsEnding
  <2>1. ASSUME NEW r \in RunId, NEW status \in Status, Posts(r), Post(r, status),
               NEW c \in comments, c.status \in {"complete", "failed", "blocked"}
        PROVE  \E d \in comments' : d.marker = c.marker /\ d.run = c.run
    <3>1. CASE c.marker # Marker(r)
      BY <2>1, <3>1 DEF Post
    <3>2. CASE c.marker = Marker(r)
      <4>1. c.run = r
        BY <1>2, <2>1, <3>2 DEF RepairInv, MarkedOk
      <4>2. PICK d : d = [marker |-> Marker(r), status |-> status, run |-> r]
        OBVIOUS
      <4>3. d \in comments' /\ d.marker = Marker(r) /\ d.run = r
        BY <2>1, <4>2 DEF Post
      <4>4. QED
        BY <3>2, <4>1, <4>3
    <3>3. QED
      BY <3>1, <3>2
  <2>2. QED
    BY <1>2, <2>1, PostsOnly
<1>3. RepairInv /\ [RepairNext]_vars => [StartsNoneEnded /\ KeepsEnding]_vars
  BY <1>1, <1>2
<1>4. QED
  BY <1>3, RepairInvariant, PTL DEF RepairSpec, EndedRepairStays
=============================================================================

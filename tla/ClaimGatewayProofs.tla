------------------------- MODULE ClaimGatewayProofs -------------------------
(***************************************************************************)
(* What the claim gateway guarantees for any number of runs, claimants,    *)
(* dependencies, pull requests, versions of the Issue, changes and late    *)
(* writes.  A run is described by what it has read and what it is about to *)
(* write; what it shares with the others is the thread of comments, and    *)
(* the concurrency group lets one run at a time look at it.                *)
(***************************************************************************)
EXTENDS ClaimGateway, TLAPS

-----------------------------------------------------------------------------
(* Types                                                                   *)

RunType ==
    [pc : {"queued", "issue", "related", "write", "done"}, verifying : BOOLEAN, now : Nat,
     request : ClaimRequest \cup {None}, issue : IssueObservation,
     closed : SUBSET Dependency, pulls : SUBSET PullRequest, comments : Seq(ClaimComment),
     pending : SUBSET Part, target : Nat, claim : TaskClaim \cup {None}, status : Outcome,
     epoch : Nat, duplicated : BOOLEAN, wroteAt : Nat]

\* Each variable is in its type.
ClaimTypeOK ==
    /\ clock \in Nat
    /\ issue \in IssueObservation
    /\ closed \subseteq Dependency
    /\ pulls \subseteq PullRequest
    /\ comments \in Seq(ClaimComment)
    /\ delayed \subseteq [id : Nat, comment : ClaimComment]
    /\ run \in [Run -> RunType]
    /\ changes \in Nat /\ epoch \in Nat /\ strays \in Nat

-----------------------------------------------------------------------------
(* The inductive invariant                                                 *)

Told(r) == run[r].pc = "done" /\ run[r].claim # None

IssueRead(r) == run[r].pc \in {"related", "write"}

PartRead(r, part) == run[r].pc = "related" /\ part \notin run[r].pending

CommentsRead(r) == PartRead(r, "comments") \/ run[r].pc = "write"

Claims(r) == Active(r) /\ (run[r].pc = "write" \/ run[r].verifying)

\* The declaration a run read, or was told a claim of, is the present one
\* unless the declaration changed since the run began.
Declared(r) ==
    /\ run[r].epoch <= epoch
    /\ IssueRead(r) /\ run[r].epoch = epoch => run[r].issue.body = issue.body
    /\ Told(r) /\ run[r].epoch = epoch => run[r].claim.task = issue.body

\* What a run is about to write, or wrote, is a claim of the task it asked
\* for, which it saw ready.
Asked(r) ==
    /\ Active(r) => run[r].request \in ClaimRequest /\ run[r].now <= clock
    /\ Active(r) => run[r].status = "none" /\ run[r].claim \in TaskClaim \cup {None}
    /\ run[r].status \in {"acquired", "existing"} => Told(r)
    /\ Claims(r) => run[r].claim \in TaskClaim /\ run[r].claim.task = run[r].request.task
    /\ run[r].pc = "write" => run[r].issue.body = run[r].request.task

\* A run that began with two comments in the thread believes none.
Refused(r) ==
    run[r].duplicated =>
        /\ run[r].status \notin {"acquired", "existing", "busy"}
        /\ Active(r) => Len(comments) > 1 /\ ~ Claims(r)
        /\ PartRead(r, "comments") => Len(run[r].comments) > 1

\* What a run reads after its write stands as long as nothing has changed
\* since the write.
Fresh(r) ==
    /\ run[r].wroteAt <= changes
    /\ run[r].pc = "related" /\ run[r].verifying /\ run[r].wroteAt = changes =>
          /\ run[r].issue = issue
          /\ PartRead(r, "dependencies") =>
                run[r].closed = closed \cap run[r].issue.body.dependsOn
          /\ PartRead(r, "pulls") => run[r].pulls = pulls

RunOk(r) == Declared(r) /\ Asked(r) /\ Refused(r) /\ Fresh(r)

\* One run at a time looks at the Issue.
OneRun == \A r, s \in Run : Active(r) /\ Active(s) => r = s

\* The thread is as the active run read it and left it.
ThreadOk(r) ==
    /\ CommentsRead(r) => run[r].comments = comments
    /\ run[r].pc = "write" => run[r].target = Len(comments)
    /\ Active(r) /\ run[r].verifying =>
          run[r].target = 1 /\ Len(comments) = 1 /\ comments[1] = Intended(r)

Published(s) == Len(comments) = 1 /\ comments[1].claim = run[s].claim

HeldOk(s) == Holds(s) /\ run[s].epoch = epoch => Published(s)

\* A run began no earlier than one that was told before.  If it began in the same
\* epoch it still sees the claim that one holds, or claims another task.
Apart(r, s) ==
    Active(r) /\ Holds(s) =>
        /\ run[s].epoch <= run[r].epoch
        /\ run[s].epoch = run[r].epoch =>
              IF Claims(r) THEN run[r].claim.task # run[s].claim.task ELSE Published(s)

Exclusive(r, s) ==
    /\ Holds(r) /\ Holds(s)
    /\ run[r].claim.task = run[s].claim.task
    /\ run[r].epoch = run[s].epoch
    => run[r].claim.claimant = run[s].claim.claimant

Thread ==
    /\ Len(comments) <= 1
    /\ \A r \in Run : ThreadOk(r) /\ HeldOk(r)
    /\ \A r, s \in Run : Apart(r, s) /\ Exclusive(r, s)

ClaimInv ==
    /\ ClaimTypeOK
    /\ OneRun
    /\ \A r \in Run : RunOk(r)
    /\ Undisturbed => Thread

-----------------------------------------------------------------------------
(* Steps of the world                                                      *)

\* The bodies of the Issue are typed.
LEMMA Versions ==
    /\ FirstIssue \in IssueObservation
    /\ \A v \in IssueVersion : v \in IssueObservation
    /\ \A v \in IssueObservation : v.body \in Body /\ v.body.dependsOn \subseteq Dependency
BY ClaimGatewayAssumption, TaskClaimAssumption DEF IssueObservation

\* Time passes, or something changes and is counted.
LEMMA WorldStep ==
    ASSUME ClaimInv, UNCHANGED <<comments, delayed, run, strays>>,
           clock' \in Nat, clock <= clock', epoch' \in Nat, epoch <= epoch',
           changes' \in Nat, changes <= changes',
           issue' \in IssueObservation, closed' \subseteq Dependency,
           pulls' \subseteq PullRequest,
           epoch' = epoch => issue'.body = issue.body,
           changes' = changes => UNCHANGED <<issue, closed, pulls>>
    PROVE  ClaimInv'
<1>1. ClaimTypeOK' /\ OneRun'
  BY DEF ClaimInv, ClaimTypeOK, OneRun, Active
<1>2. ASSUME NEW r \in Run PROVE RunOk(r)'
  <2>0. RunOk(r) /\ ClaimTypeOK
    BY DEF ClaimInv
  <2>a. run[r].epoch \in Nat /\ run[r].wroteAt \in Nat /\ run[r].now \in Nat
    BY <2>0 DEF ClaimTypeOK, RunType
  <2>b. clock \in Nat /\ epoch \in Nat /\ changes \in Nat
    BY <2>0 DEF ClaimTypeOK
  <2>c. run[r].epoch <= epoch
    BY <2>0 DEF RunOk, Declared
  <2>1. Declared(r)'
    BY <2>0, <2>a, <2>b, <2>c DEF RunOk, Declared, IssueRead, Told
  <2>2. Asked(r)'
    BY <2>0, <2>a, <2>b DEF RunOk, Asked, Active, Claims, Told
  <2>3. Refused(r)'
    BY <2>0 DEF RunOk, Refused, Active, Claims, PartRead
  <2>4. Fresh(r)'
    BY <2>0, <2>a, <2>b DEF RunOk, Fresh, PartRead
  <2>5. QED
    BY <2>1, <2>2, <2>3, <2>4 DEF RunOk
<1>3. ASSUME Undisturbed' PROVE Thread'
  <2>0. Thread /\ ClaimTypeOK
    BY <1>3 DEF ClaimInv, Undisturbed
  <2>b. clock \in Nat /\ epoch \in Nat
    BY <2>0 DEF ClaimTypeOK
  <2>1. ASSUME NEW s \in Run, Holds(s)' PROVE Holds(s)
    <3>1. run[s].claim.expiresAt \in Nat
      <4>1. run[s].claim \in TaskClaim
        BY <2>1 DEF ClaimInv, RunOk, Asked, Told, Holds, ClaimTypeOK, RunType
      <4>2. QED
        BY <4>1 DEF TaskClaim
    <3>2. QED
      BY <2>1, <2>b, <3>1 DEF Holds
  <2>2. ASSUME NEW s \in Run PROVE ThreadOk(s)' /\ HeldOk(s)'
    <3>1. ThreadOk(s) /\ HeldOk(s) /\ run[s].epoch <= epoch /\ run[s].epoch \in Nat
      BY <2>0 DEF Thread, ClaimInv, RunOk, Declared, ClaimTypeOK, RunType
    <3>2. HeldOk(s)'
      BY <2>1, <2>b, <3>1 DEF HeldOk, Published
    <3>3. QED
      BY <3>1, <3>2 DEF ThreadOk, CommentsRead, PartRead, Active, Intended
  <2>3. ASSUME NEW r \in Run, NEW s \in Run PROVE Apart(r, s)' /\ Exclusive(r, s)'
    <3>1. Apart(r, s) /\ Exclusive(r, s)
      BY <2>0 DEF Thread
    <3>2. QED
      BY <2>1, <3>1 DEF Apart, Exclusive, Active, Claims, Published
  <2>4. QED
    BY <2>0, <2>2, <2>3 DEF Thread
<1>4. QED
  BY <1>1, <1>2, <1>3 DEF ClaimInv

\* The clock ticks.
LEMMA TickStep == ClaimInv /\ Tick => ClaimInv'
<1> SUFFICES ASSUME ClaimInv, Tick PROVE ClaimInv'
  OBVIOUS
<1>1. ClaimTypeOK
  BY DEF ClaimInv
<1>2. clock' = clock + 1 /\ UNCHANGED <<issue, closed, pulls, changes, epoch>>
      /\ UNCHANGED <<comments, delayed, run, strays>>
  BY DEF Tick, world
<1>3. QED
  BY <1>1, <1>2, WorldStep DEF ClaimTypeOK

\* The Issue, its dependencies or its pull requests change.
LEMMA ChangeStep ==
    ClaimInv /\ (EditIssue \/ ChangeDependency \/ ChangePullRequest) => ClaimInv'
<1> SUFFICES ASSUME ClaimInv, EditIssue \/ ChangeDependency \/ ChangePullRequest
             PROVE  ClaimInv'
  OBVIOUS
<1>1. ClaimTypeOK
  BY DEF ClaimInv
<1>2. changes' = changes + 1 /\ changes \in Nat /\ epoch \in Nat /\ clock' = clock
      /\ clock \in Nat
  BY <1>1 DEF EditIssue, ChangeDependency, ChangePullRequest, Change, ClaimTypeOK
<1>3. CASE EditIssue
  <2>1. PICK next \in IssueVersion \ {issue} :
            /\ issue' = next
            /\ epoch' = IF next.body = issue.body THEN epoch ELSE epoch + 1
    BY <1>3 DEF EditIssue
  <2>2. UNCHANGED <<clock, closed, pulls, comments, delayed, run, strays>>
    BY <1>3 DEF EditIssue
  <2>3. QED
    BY <1>1, <1>2, <2>1, <2>2, Versions, WorldStep DEF ClaimTypeOK
<1>4. CASE ChangeDependency
  <2>1. UNCHANGED <<clock, issue, pulls, comments, delayed, run, epoch, strays>>
        /\ closed' \subseteq Dependency
    BY <1>1, <1>4 DEF ChangeDependency, ClaimTypeOK
  <2>2. QED
    BY <1>1, <1>2, <2>1, WorldStep DEF ClaimTypeOK
<1>5. CASE ChangePullRequest
  <2>1. UNCHANGED <<clock, issue, closed, comments, delayed, run, epoch, strays>>
        /\ pulls' \subseteq PullRequest
    BY <1>1, <1>5 DEF ChangePullRequest, ClaimTypeOK
  <2>2. QED
    BY <1>1, <1>2, <2>1, WorldStep DEF ClaimTypeOK
<1>6. QED
  BY <1>3, <1>4, <1>5

\* A write adds a comment or replaces one: it never shortens the thread.
LEMMA WrittenThread ==
    ASSUME comments \in Seq(ClaimComment), NEW id \in Nat, NEW c \in ClaimComment
    PROVE  /\ Written(id, c) \in Seq(ClaimComment)
           /\ Len(Written(id, c)) = IF id = 0 THEN Len(comments) + 1 ELSE Len(comments)
           /\ id = 0 => Written(id, c)[Len(comments) + 1] = c
           /\ id \in 1 .. Len(comments) => Written(id, c)[id] = c
<1>1. CASE id = 0
  BY <1>1 DEF Written
<1>2. CASE id # 0
  <2>1. Written(id, c) = [comments EXCEPT ![id] = c]
    BY <1>2 DEF Written
  <2> DEFINE d == [comments EXCEPT ![id] = c]
  <2>2. CASE id \in 1 .. Len(comments)
    <3>1. d \in Seq(ClaimComment) /\ Len(d) = Len(comments) /\ d[id] = c
      BY <2>2
    <3>2. QED
      BY <1>2, <2>1, <3>1
  <2>3. CASE id \notin 1 .. Len(comments)
    <3>1. d = comments
      BY <2>3
    <3>2. QED
      BY <1>2, <2>1, <2>3, <3>1
  <2>4. QED
    BY <2>2, <2>3
<1>3. QED
  BY <1>1, <1>2

\* A write arrives after its run was given up.
LEMMA LateStep == ClaimInv /\ WriteArrivesLate => ClaimInv'
<1> SUFFICES ASSUME ClaimInv, WriteArrivesLate PROVE ClaimInv'
  OBVIOUS
<1>1. ClaimTypeOK
  BY DEF ClaimInv
<1>2. PICK w \in delayed :
          /\ comments' = Written(w.id, w.comment)
          /\ delayed' = delayed \ {w}
          /\ strays' = strays + 1
          /\ UNCHANGED <<clock, issue, closed, pulls, changes, epoch, run>>
  BY DEF WriteArrivesLate, world
<1>3. w.id \in Nat /\ w.comment \in ClaimComment
  BY <1>1 DEF ClaimTypeOK
<1>4. /\ comments' \in Seq(ClaimComment)
      /\ Len(comments') = Len(comments) \/ Len(comments') = Len(comments) + 1
  BY <1>1, <1>2, <1>3, WrittenThread DEF ClaimTypeOK
<1>5. ClaimTypeOK' /\ OneRun'
  BY <1>1, <1>2, <1>4 DEF ClaimInv, ClaimTypeOK, OneRun, Active
<1>6. ASSUME NEW r \in Run PROVE RunOk(r)'
  <2>1. RunOk(r) /\ Len(comments) \in Nat
    BY <1>1 DEF ClaimInv, ClaimTypeOK
  <2>2. Declared(r)' /\ Asked(r)' /\ Fresh(r)'
    BY <1>2, <2>1
    DEF RunOk, Declared, Asked, Fresh, IssueRead, Told, Active, Claims, PartRead
  <2>3. Refused(r)'
    BY <1>2, <1>4, <2>1 DEF RunOk, Refused, Active, Claims, PartRead
  <2>4. QED
    BY <2>2, <2>3 DEF RunOk
<1>7. ~ Undisturbed'
  BY <1>1, <1>2 DEF Undisturbed, ClaimTypeOK
<1>8. QED
  BY <1>5, <1>6, <1>7 DEF ClaimInv

-----------------------------------------------------------------------------
(* Steps of a run                                                          *)

\* While a run is at work no other is.
Alone(r) == \A s \in Run : s # r => ~ Active(s)

\* Only this run changes, and nothing of the Issue.
Only(r) ==
    /\ run' = [run EXCEPT ![r] = run'[r]]
    /\ run'[r] \in RunType
    /\ UNCHANGED <<clock, world, strays>>

\* The other runs are as they were.
LEMMA OthersStay ==
    ASSUME ClaimTypeOK, NEW r \in Run, Only(r)
    PROVE  \A s \in Run : s # r => run'[s] = run[s]
BY DEF ClaimTypeOK, Only

\* What a step of one run has to show: the run itself, its place in the thread
\* and, against each held claim, that it keeps apart.
LEMMA OwnStep ==
    ASSUME ClaimInv, NEW r \in Run, Alone(r), Only(r), RunOk(r)', comments' \in Seq(ClaimComment),
           delayed' \subseteq [id : Nat, comment : ClaimComment],
           Undisturbed =>
              /\ Len(comments') <= 1 /\ ThreadOk(r)' /\ HeldOk(r)'
              /\ \A s \in Run \ {r} : Holds(s) =>
                    /\ run[s].epoch = epoch => comments' = comments
                    /\ Apart(r, s)' /\ Exclusive(r, s)' /\ Exclusive(s, r)'
    PROVE  ClaimInv'
<1>0. ClaimTypeOK /\ UNCHANGED <<clock, issue, closed, pulls, changes, epoch, strays>>
  BY DEF ClaimInv, Only, world
<1>1. \A s \in Run : s # r => run'[s] = run[s]
  BY <1>0, OthersStay
<1>2. ClaimTypeOK'
  BY <1>0 DEF ClaimTypeOK, Only
<1>3. \A s \in Run : s # r => ~ Active(s)'
  BY <1>1 DEF Alone, Active
<1>4. OneRun'
  BY <1>3 DEF OneRun
<1>5. ASSUME NEW s \in Run, s # r PROVE RunOk(s)'
  <2>1. RunOk(s) /\ run'[s] = run[s] /\ ~ Active(s)
    BY <1>1, <1>5 DEF ClaimInv, Alone
  <2>2. QED
    BY <1>0, <2>1
    DEF RunOk, Declared, Asked, Refused, Fresh, IssueRead, Told, Active, Claims, PartRead
<1>6. ASSUME Undisturbed' PROVE Thread'
  <2>0. Undisturbed /\ Thread
    BY <1>0, <1>6 DEF Undisturbed, ClaimInv
  <2>1. \A s \in Run \ {r} : Holds(s)' <=> Holds(s)
    BY <1>0, <1>1 DEF Holds
  <2>2. ASSUME NEW s \in Run \ {r} PROVE ThreadOk(s)' /\ HeldOk(s)'
    <3>1. HeldOk(s) /\ run'[s] = run[s] /\ ~ Active(s)'
      BY <1>1, <1>3, <2>0, <2>2 DEF Thread
    <3>2. ThreadOk(s)'
      BY <3>1 DEF ThreadOk, CommentsRead, PartRead, Active
    <3>3. HeldOk(s)'
      BY <1>0, <2>0, <2>1, <2>2, <3>1 DEF HeldOk, Published
    <3>4. QED
      BY <3>2, <3>3
  <2>3. ASSUME NEW s \in Run, NEW o \in Run, o # r PROVE Apart(o, s)'
    BY <1>3, <2>3 DEF Apart
  <2>4. ASSUME NEW s \in Run \ {r}, ~ Holds(s)
        PROVE  Apart(r, s)' /\ Exclusive(r, s)' /\ Exclusive(s, r)'
    BY <1>1, <2>1, <2>4 DEF Apart, Exclusive
  <2>5. Apart(r, r)'
    BY DEF Apart, RunOk, Asked, Told, Active, Holds
  <2>6. ASSUME NEW s \in Run \ {r}, NEW o \in Run \ {r} PROVE Exclusive(o, s)'
    <3>1. Exclusive(o, s) /\ run'[s] = run[s] /\ run'[o] = run[o]
      BY <1>1, <2>0, <2>6 DEF Thread
    <3>2. QED
      BY <2>1, <3>1 DEF Exclusive
  <2>7. Exclusive(r, r)'
    BY DEF Exclusive
  <2>8. \A s, o \in Run : Apart(o, s)' /\ Exclusive(o, s)'
    BY <2>0, <2>3, <2>4, <2>5, <2>6, <2>7
  <2>9. QED
    BY <2>0, <2>2, <2>8 DEF Thread
<1>7. QED
  BY <1>2, <1>4, <1>5, <1>6 DEF ClaimInv

\* The concurrency group keeps the other runs out while one is at work.
LEMMA AtWork ==
    ASSUME ClaimInv, NEW r \in Run, Active(r)
    PROVE  Alone(r)
BY DEF ClaimInv, OneRun, Alone

IsAnswer(a, q, status, claim) ==
    /\ a.pc = "done" /\ a.status = status /\ a.claim = claim
    /\ claim = None => a.epoch = 0
    /\ claim # None => a.epoch = q.epoch
    /\ a.duplicated = q.duplicated /\ a.wroteAt = 0 /\ a.verifying = FALSE

\* What an answer leaves of a run.
LEMMA AnsweredRun ==
    ASSUME NEW q \in RunType, NEW status \in Outcome, NEW claim \in TaskClaim \cup {None}
    PROVE  /\ Answered(q, status, claim) \in RunType
           /\ IsAnswer(Answered(q, status, claim), q, status, claim)
<1>1. QueuedRun \in RunType
  BY Versions DEF QueuedRun, RunType, Part, Outcome
<1>2. q.epoch \in Nat /\ q.duplicated \in BOOLEAN
  BY DEF RunType
<1> DEFINE e == IF claim = None THEN 0 ELSE q.epoch
<1>3. e \in Nat
  BY <1>2
<1>4. Answered(q, status, claim) =
        [QueuedRun EXCEPT !.pc = "done", !.status = status, !.claim = claim, !.epoch = e,
                          !.duplicated = q.duplicated]
  BY DEF Answered
<1> HIDE DEF e
<1>5. Answered(q, status, claim) \in RunType
  BY <1>1, <1>2, <1>3, <1>4 DEF RunType
<1> DEFINE a == Answered(q, status, claim)
<1>6. /\ a.pc = "done" /\ a.status = status /\ a.claim = claim /\ a.epoch = e
      /\ a.duplicated = q.duplicated /\ a.wroteAt = 0 /\ a.verifying = FALSE
  BY <1>4 DEF QueuedRun
<1> HIDE DEF a
<1>7. IsAnswer(a, q, status, claim)
  BY <1>6 DEF IsAnswer, e
<1>8. QED
  BY <1>5, <1>7 DEF a

\* The thread stays one comment, and as it is while one in it is held.
ThreadKept(r) ==
    /\ comments' \in Seq(ClaimComment)
    /\ Undisturbed =>
          /\ Len(comments') <= 1
          /\ \A s \in Run \ {r} : Holds(s) /\ run[s].epoch = epoch => comments' = comments

\* A step that writes no comment keeps the thread.
LEMMA Unwritten ==
    ASSUME ClaimInv, comments' = comments, NEW r \in Run
    PROVE  ThreadKept(r)
BY DEF ClaimInv, ClaimTypeOK, Thread, ThreadKept

\* A run answers that it holds nothing.
LEMMA StopStep ==
    ASSUME ClaimInv, NEW r \in Run, Active(r),
           NEW status \in {"blocked", "ineligible", "busy"},
           run[r].duplicated => status # "busy",
           Answer(r, status, None),
           ThreadKept(r),
           delayed' \subseteq [id : Nat, comment : ClaimComment],
           UNCHANGED <<clock, world, strays>>
    PROVE  ClaimInv'
<1>0. ClaimTypeOK /\ run[r] \in RunType /\ epoch \in Nat /\ changes \in Nat /\ epoch' = epoch
      /\ changes' = changes
  BY DEF ClaimInv, ClaimTypeOK, world
<1>1. run' = [run EXCEPT ![r] = Answered(run[r], status, None)]
  BY DEF Answer
<1>2. run'[r] = Answered(run[r], status, None)
  BY <1>0, <1>1 DEF ClaimTypeOK
<1>3. /\ run'[r] \in RunType /\ run'[r].pc = "done" /\ run'[r].status = status
      /\ run'[r].claim = None /\ run'[r].epoch = 0 /\ run'[r].wroteAt = 0
      /\ run'[r].duplicated = run[r].duplicated
  <2>1. status \in Outcome /\ None \in TaskClaim \cup {None}
    BY DEF Outcome
  <2>2. run'[r] \in RunType /\ IsAnswer(run'[r], run[r], status, None)
    BY <1>0, <1>2, <2>1, AnsweredRun, Zenon
  <2>3. QED
    BY <2>2 DEF IsAnswer
<1>4. Only(r)
  BY <1>1, <1>2, <1>3 DEF Only
<1>5. RunOk(r)'
  BY <1>0, <1>3
  DEF RunOk, Declared, Asked, Refused, Fresh, IssueRead, Told, Active, Claims, PartRead
<1>6. ThreadOk(r)' /\ HeldOk(r)'
  BY <1>3 DEF ThreadOk, HeldOk, CommentsRead, PartRead, Active, Holds
<1>7. \A s \in Run \ {r} : Apart(r, s)' /\ Exclusive(r, s)' /\ Exclusive(s, r)'
  BY <1>3 DEF Apart, Exclusive, Active, Holds
<1>8. QED
  BY <1>4, <1>5, <1>6, <1>7, AtWork, OwnStep DEF ThreadKept

\* A request of a read fails, or the run is stopped from outside.
LEMMA StoppedStep ==
    ASSUME ClaimInv, NEW r \in Run, ReadFails(r) \/ Cancel(r)
    PROVE  ClaimInv'
<1>1. /\ Active(r) /\ Answer(r, "blocked", None)
      /\ UNCHANGED <<clock, world, comments, delayed, strays>>
  BY DEF ReadFails, Cancel, Active
<1>2. delayed' \subseteq [id : Nat, comment : ClaimComment]
  BY <1>1 DEF ClaimInv, ClaimTypeOK
<1>3. QED
  BY <1>1, <1>2, StopStep, Unwritten

\* What a run that writes intends is a comment.
LEMMA IntendedComment ==
    ASSUME ClaimInv, NEW r \in Run, run[r].pc = "write"
    PROVE  Intended(r) \in ClaimComment /\ run[r].target \in Nat
BY DEF ClaimInv, ClaimTypeOK, RunType, RunOk, Asked, Claims, Active, Intended, ClaimComment

\* The write fails, or stays with GitHub when its run is gone.
LEMMA WriteFailsStep ==
    ASSUME ClaimInv, NEW r \in Run, WriteFails(r)
    PROVE  ClaimInv'
<1>1. /\ Active(r) /\ Answer(r, "blocked", None) /\ run[r].pc = "write"
      /\ UNCHANGED <<clock, world, comments, strays>>
  BY DEF WriteFails, Active
<1>2. delayed' \subseteq [id : Nat, comment : ClaimComment]
  BY <1>1, IntendedComment DEF WriteFails, ClaimInv, ClaimTypeOK
<1>3. QED
  BY <1>1, <1>2, StopStep, Unwritten

\* A run begins; what it finds in the thread is what the others left.
LEMMA StartStep ==
    ASSUME ClaimInv, NEW r \in Run, Start(r)
    PROVE  ClaimInv'
<1>0. ClaimTypeOK /\ clock \in Nat /\ epoch \in Nat /\ changes \in Nat /\ Len(comments) \in Nat
  BY DEF ClaimInv, ClaimTypeOK
<1>1. PICK q \in ClaimRequest :
          run' = [run EXCEPT ![r] =
                    [QueuedRun EXCEPT !.pc = "issue", !.now = clock,
                                      !.request = q, !.epoch = epoch,
                                      !.duplicated = Len(comments) > 1]]
  BY DEF Start
<1> DEFINE x == [QueuedRun EXCEPT !.pc = "issue", !.now = clock, !.request = q, !.epoch = epoch,
                                  !.duplicated = Len(comments) > 1]
<1>2. run' = [run EXCEPT ![r] = x] /\ run'[r] = x
  BY <1>0, <1>1 DEF ClaimTypeOK
<1>3. /\ x.pc = "issue" /\ ~ x.verifying /\ x.now = clock /\ x.request = q /\ x.claim = None
      /\ x.status = "none" /\ x.epoch = epoch /\ x.duplicated = (Len(comments) > 1)
      /\ x.wroteAt = 0
  BY DEF QueuedRun
<1>4. x \in RunType
  <2>1. QueuedRun \in RunType
    BY Versions DEF QueuedRun, RunType, Part, Outcome
  <2>2. (Len(comments) > 1) \in BOOLEAN
    BY <1>0
  <2>3. QED
    BY <1>0, <2>1, <2>2 DEF RunType
<1> HIDE DEF x
<1>5. /\ Alone(r) /\ UNCHANGED <<clock, world, comments, delayed, strays>>
      /\ UNCHANGED <<epoch, changes>>
  BY DEF Start, Alone, world
<1>6. Only(r)
  BY <1>2, <1>4, <1>5 DEF Only
<1>7. RunOk(r)'
  <2>1. Declared(r)' /\ Fresh(r)'
    BY <1>0, <1>2, <1>3, <1>5 DEF Declared, Fresh, IssueRead, Told
  <2>2. Asked(r)'
    BY <1>0, <1>2, <1>3, <1>5 DEF Asked, Active, Claims, Told
  <2>3. Refused(r)'
    BY <1>0, <1>2, <1>3, <1>5 DEF Refused, Active, Claims, PartRead
  <2>4. QED
    BY <2>1, <2>2, <2>3 DEF RunOk
<1>8. ThreadOk(r)' /\ HeldOk(r)'
  BY <1>2, <1>3 DEF ThreadOk, HeldOk, CommentsRead, PartRead, Holds
<1>9. ASSUME Undisturbed, NEW s \in Run \ {r}, Holds(s)
      PROVE  Apart(r, s)' /\ Exclusive(r, s)' /\ Exclusive(s, r)'
  <2>1. run[s].epoch = epoch => Published(s)
    BY <1>9 DEF ClaimInv, Thread, HeldOk
  <2>2. run'[s] = run[s] /\ run[s].epoch <= epoch
    BY <1>0, <1>6, OthersStay DEF ClaimInv, RunOk, Declared
  <2>3. /\ run[s].epoch = epoch => Published(s)'
        /\ ~ Claims(r)' /\ ~ Holds(r)'
    BY <1>2, <1>3, <1>5, <2>1, <2>2 DEF Published, Claims, Holds
  <2>4. QED
    BY <1>2, <1>3, <2>2, <2>3 DEF Apart, Exclusive
<1>10. Undisturbed => Len(comments') <= 1
  BY <1>5 DEF ClaimInv, Thread
<1>11. /\ comments' \in Seq(ClaimComment) /\ comments' = comments
       /\ delayed' \subseteq [id : Nat, comment : ClaimComment]
  BY <1>0, <1>5 DEF ClaimTypeOK
<1>12. QED
  BY <1>5, <1>6, <1>7, <1>8, <1>9, <1>10, <1>11, OwnStep

\* A step that reads: the run stays at work, and what it asked for, saw before
\* it began and claims stays.
Reads(r) ==
    /\ Only(r) /\ UNCHANGED <<comments, delayed>>
    /\ Active(r) /\ run[r].pc # "write" /\ run'[r].pc = "related"
    /\ run'[r].verifying = run[r].verifying /\ run'[r].now = run[r].now
    /\ run'[r].request = run[r].request /\ run'[r].target = run[r].target
    /\ run'[r].claim = run[r].claim /\ run'[r].status = run[r].status
    /\ run'[r].epoch = run[r].epoch /\ run'[r].duplicated = run[r].duplicated
    /\ run'[r].wroteAt = run[r].wroteAt

\* What a reading step has to show: that it read the present.
LEMMA ReadsStep ==
    ASSUME ClaimInv, NEW r \in Run, Reads(r),
           run'[r].issue = issue \/ (run[r].pc = "related" /\ run'[r].issue = run[r].issue),
           Fresh(r)',
           PartRead(r, "comments")' =>
              \/ run'[r].comments = comments
              \/ PartRead(r, "comments") /\ run'[r].comments = run[r].comments
    PROVE  ClaimInv'
<1>0. ClaimTypeOK /\ RunOk(r) /\ epoch' = epoch /\ issue' = issue /\ clock' = clock
  BY DEF ClaimInv, Reads, Only, world
<1>1. Declared(r)'
  BY <1>0 DEF Reads, RunOk, Declared, IssueRead, Told
<1>2. Asked(r)'
  BY <1>0 DEF Reads, RunOk, Asked, Active, Claims, Told
<1>3. Refused(r)'
  BY <1>0 DEF Reads, RunOk, Refused, Active, Claims, PartRead
<1>4. RunOk(r)'
  BY <1>1, <1>2, <1>3 DEF RunOk
<1>5. Claims(r)' <=> Claims(r)
  BY DEF Reads, Claims, Active
<1>6. ASSUME Undisturbed
      PROVE  /\ Len(comments') <= 1 /\ ThreadOk(r)' /\ HeldOk(r)'
             /\ \A s \in Run \ {r} : Holds(s) =>
                   Apart(r, s)' /\ Exclusive(r, s)' /\ Exclusive(s, r)'
  <2>0. Thread
    BY <1>6 DEF ClaimInv
  <2>1. ThreadOk(r)'
    <3>1. ThreadOk(r)
      BY <2>0 DEF Thread
    <3>2. QED
      BY <3>1 DEF Reads, ThreadOk, CommentsRead, PartRead, Active, Intended
  <2>2. ~ Holds(r)'
    BY <1>0 DEF Reads, RunOk, Asked, Holds
  <2>3. ASSUME NEW s \in Run \ {r}, Holds(s)
        PROVE  Apart(r, s)' /\ Exclusive(r, s)' /\ Exclusive(s, r)'
    <3>1. Apart(r, s) /\ run'[s] = run[s]
      BY <1>0, <2>0, OthersStay DEF Thread, Reads
    <3>2. QED
      BY <1>0, <1>5, <2>2, <2>3, <3>1 DEF Apart, Exclusive, Published, Reads
  <2>4. QED
    BY <2>0, <2>1, <2>2, <2>3 DEF Thread, HeldOk, Reads
<1>7. /\ comments' \in Seq(ClaimComment) /\ comments' = comments
      /\ delayed' \subseteq [id : Nat, comment : ClaimComment]
  BY <1>0 DEF ClaimTypeOK, Reads
<1>8. Alone(r) /\ Only(r)
  BY AtWork DEF Reads
<1>9. QED
  BY <1>4, <1>6, <1>7, <1>8, OwnStep

\* The Issue is read, before the parts that depend on what it declares.
LEMMA ReadIssueStep ==
    ASSUME ClaimInv, NEW r \in Run, ReadIssue(r)
    PROVE  ClaimInv'
<1>0. ClaimTypeOK /\ run[r] \in RunType /\ issue \in IssueObservation /\ RunOk(r)
  BY DEF ClaimInv, ClaimTypeOK
<1> DEFINE x == [run[r] EXCEPT !.pc = "related", !.issue = issue, !.pending = Part]
<1>1. run' = [run EXCEPT ![r] = x] /\ run'[r] = x
  BY <1>0 DEF ReadIssue, ClaimTypeOK
<1>2. x \in RunType
  BY <1>0 DEF RunType
<1>3. /\ UNCHANGED <<clock, world, comments, delayed, strays>> /\ run[r].pc = "issue"
      /\ UNCHANGED <<issue, closed, pulls, changes>>
  BY DEF ReadIssue, world
<1>4. /\ x.pc = "related" /\ x.issue = issue /\ x.pending = Part
      /\ x.verifying = run[r].verifying /\ x.now = run[r].now
      /\ x.request = run[r].request /\ x.target = run[r].target
      /\ x.claim = run[r].claim /\ x.status = run[r].status
      /\ x.epoch = run[r].epoch /\ x.duplicated = run[r].duplicated
      /\ x.wroteAt = run[r].wroteAt
  BY <1>0 DEF RunType
<1> HIDE DEF x
<1>5. Reads(r)
  BY <1>1, <1>2, <1>3, <1>4 DEF Reads, Only, Active
<1>6. Fresh(r)'
  BY <1>0, <1>1, <1>3, <1>4 DEF Fresh, RunOk, PartRead, Part
<1>7. ~ PartRead(r, "comments")'
  BY <1>1, <1>4 DEF PartRead, Part
<1>8. QED
  BY <1>1, <1>4, <1>5, <1>6, <1>7, ReadsStep

\* Dependencies, pull requests and comments are read in any order, each as it is.
LEMMA RelatedRead ==
    ASSUME ClaimInv, NEW r \in Run, ReadRelated(r)
    PROVE  /\ Reads(r) /\ Fresh(r)' /\ run[r].pc = "related" /\ run'[r].issue = run[r].issue
           /\ PartRead(r, "comments")' =>
                 \/ run'[r].comments = comments
                 \/ PartRead(r, "comments") /\ run'[r].comments = run[r].comments
<1>0. /\ ClaimTypeOK /\ run[r] \in RunType /\ RunOk(r) /\ comments \in Seq(ClaimComment)
      /\ closed \subseteq Dependency /\ pulls \subseteq PullRequest
  BY DEF ClaimInv, ClaimTypeOK
<1>1. /\ run[r].pc = "related"
      /\ UNCHANGED <<clock, world, comments, delayed, strays>>
      /\ UNCHANGED <<issue, closed, pulls, changes>>
  BY DEF ReadRelated, world
<1> DEFINE Read(part) == [run[r] EXCEPT !.pending = @ \ {part}]
           Dependencies == [Read("dependencies") EXCEPT
                               !.closed = closed \cap Read("dependencies").issue.body.dependsOn]
           Pulls == [Read("pulls") EXCEPT !.pulls = pulls]
           Comments == [Read("comments") EXCEPT !.comments = comments]
<1>2. /\ run' = [run EXCEPT ![r] = run'[r]]
      /\ \/ "dependencies" \in run[r].pending /\ run'[r] = Dependencies
         \/ "pulls" \in run[r].pending /\ run'[r] = Pulls
         \/ "comments" \in run[r].pending /\ run'[r] = Comments
  <2>1. PICK part \in run[r].pending :
            LET read == [run[r] EXCEPT !.pending = @ \ {part}] IN
            run' = [run EXCEPT ![r] =
                CASE part = "dependencies" ->
                       [read EXCEPT !.closed = closed \cap read.issue.body.dependsOn]
                  [] part = "pulls"        -> [read EXCEPT !.pulls = pulls]
                  [] part = "comments"     -> [read EXCEPT !.comments = comments]]
    BY DEF ReadRelated
  <2>2. part \in {"dependencies", "pulls", "comments"}
    BY <1>0 DEF RunType, Part
  <2>3. CASE part = "dependencies"
    <3>1. run' = [run EXCEPT ![r] = Dependencies]
      BY <2>1, <2>3
    <3>2. QED
      BY <1>0, <2>3, <3>1 DEF ClaimTypeOK
  <2>4. CASE part = "pulls"
    <3>1. run' = [run EXCEPT ![r] = Pulls]
      BY <2>1, <2>4
    <3>2. QED
      BY <1>0, <2>4, <3>1 DEF ClaimTypeOK
  <2>5. CASE part = "comments"
    <3>1. run' = [run EXCEPT ![r] = Comments]
      BY <2>1, <2>5
    <3>2. QED
      BY <1>0, <2>5, <3>1 DEF ClaimTypeOK
  <2>6. QED
    BY <2>2, <2>3, <2>4, <2>5
\* What a part that was read leaves as it was.
<1> DEFINE Kept(q) ==
        /\ q \in RunType
        /\ q.pc = "related" /\ q.issue = run[r].issue
        /\ q.verifying = run[r].verifying /\ q.now = run[r].now
        /\ q.request = run[r].request /\ q.target = run[r].target
        /\ q.claim = run[r].claim /\ q.status = run[r].status
        /\ q.epoch = run[r].epoch /\ q.duplicated = run[r].duplicated
        /\ q.wroteAt = run[r].wroteAt
<1>a. ASSUME NEW part \in Part
      PROVE  /\ Kept(Read(part)) /\ Read(part).pending = run[r].pending \ {part}
             /\ Read(part).closed = run[r].closed /\ Read(part).pulls = run[r].pulls
             /\ Read(part).comments = run[r].comments
  BY <1>0, <1>1 DEF RunType
<1> HIDE DEF Read
<1>3. Kept(run'[r])
  <2>1. \A part \in Part : Kept(Read(part))
    BY <1>a
  <2>2. CASE run'[r] = Dependencies
    <3>1. Kept(Read("dependencies"))
      BY <2>1 DEF Part
    <3>2. Dependencies \in RunType
      BY <1>0, <3>1 DEF RunType
    <3>3. QED
      BY <2>2, <3>1, <3>2 DEF RunType
  <2>3. CASE run'[r] = Pulls
    <3>1. Kept(Read("pulls"))
      BY <2>1 DEF Part
    <3>2. Pulls \in RunType
      BY <1>0, <3>1 DEF RunType
    <3>3. QED
      BY <2>3, <3>1, <3>2 DEF RunType
  <2>4. CASE run'[r] = Comments
    <3>1. Kept(Read("comments"))
      BY <2>1 DEF Part
    <3>2. Comments \in RunType
      BY <1>0, <3>1 DEF RunType
    <3>3. QED
      BY <2>4, <3>1, <3>2 DEF RunType
  <2>5. QED
    BY <1>2, <2>2, <2>3, <2>4
<1>4. /\ \/ run'[r].closed = closed \cap run[r].issue.body.dependsOn
         \/ run'[r].closed = run[r].closed
               /\ ("dependencies" \in run'[r].pending <=> "dependencies" \in run[r].pending)
      /\ \/ run'[r].pulls = pulls
         \/ run'[r].pulls = run[r].pulls
               /\ ("pulls" \in run'[r].pending <=> "pulls" \in run[r].pending)
      /\ \/ run'[r].comments = comments
         \/ run'[r].comments = run[r].comments
               /\ ("comments" \in run'[r].pending <=> "comments" \in run[r].pending)
  <2>2. CASE run'[r] = Dependencies
    BY <1>0, <1>a, <2>2 DEF Part, RunType
  <2>3. CASE run'[r] = Pulls
    BY <1>0, <1>a, <2>3 DEF Part, RunType
  <2>4. CASE run'[r] = Comments
    BY <1>0, <1>a, <2>4 DEF Part, RunType
  <2>5. QED
    BY <1>2, <2>2, <2>3, <2>4
<1>5. Reads(r)
  BY <1>1, <1>2, <1>3 DEF Reads, Only, Active
<1>6. Fresh(r)'
  BY <1>0, <1>1, <1>3, <1>4 DEF Fresh, RunOk, PartRead
<1>7. QED
  BY <1>1, <1>3, <1>4, <1>5, <1>6 DEF PartRead

\* Reading a part keeps the invariant.
LEMMA ReadRelatedStep ==
    ASSUME ClaimInv, NEW r \in Run, ReadRelated(r)
    PROVE  ClaimInv'
BY RelatedRead, ReadsStep

-----------------------------------------------------------------------------
(* Decision, write and answer                                              *)

\* No comment, one, or a conflict.
LEMMA Selection ==
    ASSUME NEW thread \in Seq(ClaimComment)
    PROVE  /\ Len(thread) = 0 => SelectComment(thread) = "none"
           /\ Len(thread) = 1 => SelectComment(thread) = "authenticated"
           /\ Len(thread) > 1 => SelectComment(thread) = "invalid"
           /\ Len(thread) = 0 \/ Len(thread) = 1 \/ Len(thread) > 1
<1>1. Len(thread) \in Nat
  OBVIOUS
<1>2. \A n \in Nat : n = 0 \/ n = 1 \/ n > 1
  OBVIOUS
<1>3. Len(thread) = 0 => SelectComment(thread) = "none"
  BY <1>1 DEF SelectComment
<1>4. Len(thread) = 1 => SelectComment(thread) = "authenticated"
  BY <1>1 DEF SelectComment
<1>5. Len(thread) > 1 => SelectComment(thread) = "invalid"
  BY <1>1 DEF SelectComment
<1>6. QED
  BY <1>1, <1>2, <1>3, <1>4, <1>5

\* A claim is created over none that runs, and observed only if it runs.
LEMMA Decision ==
    ASSUME NEW thread \in Seq(ClaimComment), NEW task, NEW claimant, NEW now
    PROVE  /\ Acquisition(thread, task, claimant, now) = "create" =>
                 \A i \in 1 .. Len(thread) : ~ CurrentClaim(thread[i].claim, task, now)
           /\ Acquisition(thread, task, claimant, now) = "existing" =>
                 \E i \in 1 .. Len(thread) : CurrentClaim(thread[i].claim, task, now)
<1>1. DOMAIN thread = 1 .. Len(thread)
  OBVIOUS
<1>2. Acquisition(thread, task, claimant, now) = "create" =>
         CurrentClaims(thread, task, now) = {}
  BY DEF Acquisition
<1>3. Acquisition(thread, task, claimant, now) = "existing" =>
         CurrentClaims(thread, task, now) # {}
  BY DEF Acquisition
<1>4. QED
  BY <1>1, <1>2, <1>3 DEF CurrentClaims

\* A run decides to write a claim: none in the thread it read stands.
LEMMA DecideToWrite ==
    ASSUME ClaimInv, NEW r \in Run, Snapshot(r), ~ run[r].verifying,
           run[r].issue.body = run[r].request.task,
           SelectComment(run[r].comments) # "invalid",
           Acquisition(run[r].comments, run[r].request.task, run[r].request.claimant,
                       run[r].now) = "create",
           run' = [run EXCEPT
                     ![r].pc = "write",
                     ![r].target = WriteTarget(SelectComment(run[r].comments)),
                     ![r].claim = CreateTaskClaim(run[r].request.task, run[r].request.claimant,
                                                  run[r].now, run[r].request.lease)],
           UNCHANGED <<clock, world, comments, delayed, strays>>
    PROVE  ClaimInv'
<1> DEFINE q == run[r]
           target == WriteTarget(SelectComment(q.comments))
           claim == CreateTaskClaim(q.request.task, q.request.claimant, q.now, q.request.lease)
           x == [q EXCEPT !.pc = "write", !.target = target, !.claim = claim]
<1>0. /\ ClaimTypeOK /\ q \in RunType /\ RunOk(r) /\ q.pc = "related" /\ q.pending = {}
      /\ Active(r) /\ PartRead(r, "comments") /\ q.comments \in Seq(ClaimComment)
      /\ q.now \in Nat /\ q.request \in ClaimRequest
      /\ UNCHANGED <<epoch, issue, changes>>
  BY DEF ClaimInv, ClaimTypeOK, RunType, Snapshot, Active, PartRead, RunOk, Asked, world
<1>1. run' = [run EXCEPT ![r] = x] /\ run'[r] = x
  BY <1>0 DEF ClaimTypeOK
<1>2. claim \in TaskClaim /\ claim.task = q.request.task
  BY <1>0, TaskClaimAssumption DEF CreateTaskClaim, TaskClaim, ClaimRequest
<1>3. target \in Nat
  BY DEF WriteTarget
<1> HIDE DEF target, claim
<1>4. x \in RunType
  BY <1>0, <1>2, <1>3 DEF RunType
<1>5. /\ x.pc = "write" /\ x.target = target /\ x.claim = claim /\ x.verifying = q.verifying
      /\ x.now = q.now /\ x.request = q.request /\ x.issue = q.issue
      /\ x.comments = q.comments /\ x.status = q.status /\ x.epoch = q.epoch
      /\ x.duplicated = q.duplicated /\ x.wroteAt = q.wroteAt
  BY <1>0 DEF RunType
<1> HIDE DEF x
<1>6. Only(r) /\ Alone(r)
  BY <1>0, <1>1, <1>4, AtWork DEF Only
<1>7. ~ q.duplicated
  <2>1. Len(q.comments) \in Nat /\ ~ Len(q.comments) > 1
    BY <1>0, Selection
  <2>2. QED
    BY <1>0, <2>1 DEF RunOk, Refused
<1>8. RunOk(r)'
  <2>1. Declared(r)'
    BY <1>0, <1>1, <1>5 DEF RunOk, Declared, IssueRead, Told
  <2>2. Asked(r)'
    BY <1>0, <1>1, <1>2, <1>5 DEF RunOk, Asked, Active, Claims, Told
  <2>3. Refused(r)'
    BY <1>1, <1>5, <1>7 DEF Refused
  <2>4. Fresh(r)'
    BY <1>0, <1>1, <1>5 DEF RunOk, Fresh
  <2>5. QED
    BY <2>1, <2>2, <2>3, <2>4 DEF RunOk
<1>9. ASSUME Undisturbed
      PROVE  /\ Len(comments') <= 1 /\ ThreadOk(r)' /\ HeldOk(r)'
             /\ \A s \in Run \ {r} : Holds(s) =>
                   Apart(r, s)' /\ Exclusive(r, s)' /\ Exclusive(s, r)'
  <2>0. Thread /\ q.comments = comments /\ comments \in Seq(ClaimComment)
    BY <1>0, <1>9 DEF ClaimInv, Thread, ThreadOk, CommentsRead
  <2>1. target = Len(comments)
    BY <2>0, Selection DEF Thread, target, WriteTarget
  <2>2. ThreadOk(r)'
    BY <1>0, <1>1, <1>5, <2>0, <2>1 DEF ThreadOk
  <2>3. ~ Holds(r)'
    BY <1>0, <1>1, <1>5 DEF Holds, RunOk, Asked
  <2>4. ASSUME NEW s \in Run \ {r}, Holds(s)
        PROVE  Apart(r, s)'
    <3>0. Apart(r, s)
      BY <2>0 DEF Thread
    <3>1. run[s].epoch = q.epoch => Published(s)
      BY <1>0, <2>4, <3>0 DEF Apart, Claims
    <3>2. run[s].epoch = q.epoch => ~ CurrentClaim(run[s].claim, q.request.task, q.now)
      BY <1>0, <2>0, <3>1, Decision DEF Published
    <3>3. q.now <= clock /\ clock < run[s].claim.expiresAt /\ clock \in Nat
      BY <1>0, <2>4 DEF RunOk, Asked, Holds, ClaimTypeOK
    <3>4. run[s].claim.expiresAt \in Nat
      BY <2>4 DEF ClaimInv, RunOk, Asked, Told, Holds, ClaimTypeOK, RunType, TaskClaim
    <3>5. run[s].epoch = q.epoch => run[s].claim.task # q.request.task
      BY <1>0, <3>2, <3>3, <3>4 DEF CurrentClaim
    <3>6. run'[s] = run[s]
      BY <1>0, <1>6, OthersStay
    <3>7. QED
      BY <1>0, <1>1, <1>2, <1>5, <2>4, <3>0, <3>5, <3>6 DEF Apart, Claims, Active
  <2>5. QED
    BY <2>0, <2>2, <2>3, <2>4 DEF Thread, HeldOk, Exclusive
<1>10. /\ comments' \in Seq(ClaimComment) /\ comments' = comments
       /\ delayed' \subseteq [id : Nat, comment : ClaimComment]
  BY <1>0 DEF ClaimTypeOK
<1>11. QED
  BY <1>6, <1>8, <1>9, <1>10, OwnStep

\* A run is told of the claim in the thread: the one comment is its own.
LEMMA DecideToObserve ==
    ASSUME ClaimInv, NEW r \in Run, Snapshot(r), ~ run[r].verifying,
           run[r].issue.body = run[r].request.task,
           SelectComment(run[r].comments) # "invalid",
           Acquisition(run[r].comments, run[r].request.task, run[r].request.claimant,
                       run[r].now) = "existing",
           Answer(r, "existing", run[r].comments[1].claim),
           UNCHANGED <<clock, world, comments, delayed, strays>>
    PROVE  ClaimInv'
<1> DEFINE q == run[r]
           claim == q.comments[1].claim
<1>0. /\ ClaimTypeOK /\ q \in RunType /\ RunOk(r) /\ q.pc = "related" /\ q.pending = {}
      /\ Active(r) /\ PartRead(r, "comments") /\ q.comments \in Seq(ClaimComment)
      /\ UNCHANGED <<epoch, issue, changes>> /\ changes \in Nat
  BY DEF ClaimInv, ClaimTypeOK, RunType, Snapshot, Active, PartRead, world
<1>1. Len(q.comments) = 1 /\ CurrentClaim(claim, q.request.task, q.now)
  <2>1. PICK i \in 1 .. Len(q.comments) :
            CurrentClaim(q.comments[i].claim, q.request.task, q.now)
    BY <1>0, Decision
  <2>2. Len(q.comments) = 1
    BY <1>0, <2>1, Selection
  <2>3. QED
    BY <2>1, <2>2
<1>2. claim \in TaskClaim /\ claim # None /\ claim.task = q.request.task
  <2>1. q.comments[1] \in ClaimComment
    BY <1>0, <1>1
  <2>2. QED
    BY <1>1, <2>1, ClaimGatewayAssumption DEF ClaimComment, CurrentClaim
<1> HIDE DEF claim
<1>3. run' = [run EXCEPT ![r] = Answered(q, "existing", claim)]
  BY DEF Answer, claim
<1>4. run'[r] = Answered(q, "existing", claim)
  BY <1>0, <1>3 DEF ClaimTypeOK
<1>5. run'[r] \in RunType /\ IsAnswer(run'[r], q, "existing", claim)
  <2>1. "existing" \in Outcome /\ claim \in TaskClaim \cup {None}
    BY <1>2 DEF Outcome
  <2>2. QED
    BY <1>0, <1>4, <2>1, AnsweredRun, Zenon
<1>6. /\ run'[r].pc = "done" /\ run'[r].status = "existing" /\ run'[r].claim = claim
      /\ run'[r].epoch = q.epoch /\ run'[r].duplicated = q.duplicated
      /\ run'[r].wroteAt = 0
  BY <1>2, <1>5 DEF IsAnswer
<1>7. Only(r) /\ Alone(r)
  BY <1>0, <1>3, <1>4, <1>5, AtWork DEF Only
<1>8. ~ q.duplicated
  BY <1>0, <1>1 DEF RunOk, Refused
<1>9. RunOk(r)'
  <2>1. Declared(r)'
    BY <1>0, <1>2, <1>6 DEF RunOk, Declared, IssueRead, Told
  <2>2. Asked(r)'
    BY <1>2, <1>6 DEF Asked, Active, Claims, Told
  <2>3. Refused(r)'
    BY <1>6, <1>8 DEF Refused
  <2>4. Fresh(r)'
    BY <1>0, <1>6 DEF Fresh
  <2>5. QED
    BY <2>1, <2>2, <2>3, <2>4 DEF RunOk
<1>10. ASSUME Undisturbed
       PROVE  /\ Len(comments') <= 1 /\ ThreadOk(r)' /\ HeldOk(r)'
              /\ \A s \in Run \ {r} : Holds(s) =>
                    Apart(r, s)' /\ Exclusive(r, s)' /\ Exclusive(s, r)'
  <2>0. Thread /\ q.comments = comments
    BY <1>0, <1>10 DEF ClaimInv, Thread, ThreadOk, CommentsRead
  <2>1. ThreadOk(r)'
    BY <1>6 DEF ThreadOk, CommentsRead, PartRead, Active
  <2>2. HeldOk(r)'
    BY <1>1, <1>6, <2>0 DEF HeldOk, Published, claim
  <2>3. ASSUME NEW s \in Run \ {r}, Holds(s)
        PROVE  Apart(r, s)' /\ Exclusive(r, s)' /\ Exclusive(s, r)'
    <3>1. run[s].epoch = q.epoch => Published(s)
      BY <1>0, <2>0, <2>3 DEF Thread, Apart, Claims
    <3>2. run'[s] = run[s]
      BY <1>0, <1>7, OthersStay
    <3>3. run'[s].epoch = run'[r].epoch => run'[s].claim = run'[r].claim
      BY <1>6, <2>0, <3>1, <3>2 DEF Published, claim
    <3>4. QED
      BY <1>6, <3>3 DEF Apart, Exclusive, Active
  <2>4. QED
    BY <2>0, <2>1, <2>2, <2>3 DEF Thread
<1>11. /\ comments' \in Seq(ClaimComment) /\ comments' = comments
       /\ delayed' \subseteq [id : Nat, comment : ClaimComment]
  BY <1>0 DEF ClaimTypeOK
<1>12. QED
  BY <1>7, <1>9, <1>10, <1>11, OwnStep

\* A run decides on what it read.
LEMMA DecideStep ==
    ASSUME ClaimInv, NEW r \in Run, Decide(r)
    PROVE  ClaimInv'
<1> DEFINE q == run[r]
           action == Acquisition(q.comments, q.request.task, q.request.claimant, q.now)
<1>1. /\ Snapshot(r) /\ ~ q.verifying /\ Active(r)
      /\ UNCHANGED <<clock, world, comments, delayed, strays>>
  BY DEF Decide, Snapshot, Active
<1>2. delayed' \subseteq [id : Nat, comment : ClaimComment]
  BY <1>1 DEF ClaimInv, ClaimTypeOK
<1>3. \/ Answer(r, "blocked", None) \/ Answer(r, "ineligible", None)
      \/ SelectComment(q.comments) # "invalid" /\ Answer(r, "busy", None)
      \/ /\ q.issue.body = q.request.task /\ SelectComment(q.comments) # "invalid"
         /\ action = "existing" /\ Answer(r, "existing", q.comments[1].claim)
      \/ /\ q.issue.body = q.request.task /\ SelectComment(q.comments) # "invalid"
         /\ action = "create"
         /\ run' = [run EXCEPT
                     ![r].pc = "write",
                     ![r].target = WriteTarget(SelectComment(q.comments)),
                     ![r].claim = CreateTaskClaim(q.request.task, q.request.claimant,
                                                  q.now, q.request.lease)]
  BY DEF Decide
<1>4. CASE Answer(r, "blocked", None)
  BY <1>1, <1>2, <1>4, StopStep, Unwritten
<1>5. CASE Answer(r, "ineligible", None)
  BY <1>1, <1>2, <1>5, StopStep, Unwritten
<1>6. CASE SelectComment(q.comments) # "invalid" /\ Answer(r, "busy", None)
  <2>1. q.comments \in Seq(ClaimComment) /\ PartRead(r, "comments") /\ Refused(r)
    BY <1>1 DEF ClaimInv, ClaimTypeOK, RunType, RunOk, Snapshot, PartRead
  <2>2. ~ q.duplicated
    BY <1>6, <2>1, Selection DEF Refused
  <2>3. QED
    BY <1>1, <1>2, <1>6, <2>2, StopStep, Unwritten
<1>7. CASE /\ q.issue.body = q.request.task /\ SelectComment(q.comments) # "invalid"
           /\ action = "existing" /\ Answer(r, "existing", q.comments[1].claim)
  BY <1>1, <1>7, DecideToObserve
<1>8. CASE /\ q.issue.body = q.request.task /\ SelectComment(q.comments) # "invalid"
           /\ action = "create"
           /\ run' = [run EXCEPT
                       ![r].pc = "write",
                       ![r].target = WriteTarget(SelectComment(q.comments)),
                       ![r].claim = CreateTaskClaim(q.request.task, q.request.claimant,
                                                    q.now, q.request.lease)]
  BY <1>1, <1>8, DecideToWrite
<1>9. QED
  BY <1>3, <1>4, <1>5, <1>6, <1>7, <1>8

\* A run that writes leaves its comment as the only one, and nobody holds a
\* claim of the present declaration.
LEMMA WriteKeeps ==
    ASSUME ClaimInv, NEW r \in Run, run[r].pc = "write",
           comments' = Written(run[r].target, Intended(r))
    PROVE  /\ ThreadKept(r)
           /\ Undisturbed => /\ Len(comments') = 1 /\ comments'[1] = Intended(r)
                             /\ run[r].target = 0 \/ run[r].target = 1
<1> DEFINE q == run[r]
<1>0. /\ comments \in Seq(ClaimComment) /\ Intended(r) \in ClaimComment /\ q.target \in Nat
      /\ Active(r) /\ Claims(r) /\ RunOk(r)
  BY IntendedComment DEF ClaimInv, ClaimTypeOK, Active, Claims
<1>1. comments' \in Seq(ClaimComment)
  BY <1>0, WrittenThread
<1>2. ASSUME Undisturbed
      PROVE  /\ Len(comments') = 1 /\ comments'[1] = Intended(r)
             /\ q.target = 0 \/ q.target = 1
  <2>1. Len(comments) \in Nat /\ Len(comments) <= 1 /\ q.target = Len(comments)
    BY <1>0, <1>2 DEF ClaimInv, Thread, ThreadOk
  <2>2. CASE q.target = 0
    BY <1>0, <2>1, <2>2, WrittenThread
  <2>3. CASE q.target = 1
    BY <1>0, <2>1, <2>3, WrittenThread
  <2>4. QED
    BY <2>1, <2>2, <2>3
<1>3. ASSUME Undisturbed, NEW s \in Run \ {r}, Holds(s), run[s].epoch = epoch
      PROVE  FALSE
  <2>1. /\ Apart(r, s) /\ RunOk(s) /\ q.epoch \in Nat /\ epoch \in Nat /\ Told(s)
    BY <1>3 DEF ClaimInv, Thread, ClaimTypeOK, RunType, RunOk, Asked, Holds
  <2>2. q.epoch = epoch
    BY <1>0, <1>3, <2>1 DEF Apart, RunOk, Declared
  <2>3. q.claim.task # run[s].claim.task
    BY <1>0, <1>3, <2>1, <2>2 DEF Apart
  <2>4. q.claim.task = issue.body
    BY <1>0, <2>2 DEF RunOk, Declared, Asked, IssueRead
  <2>5. run[s].claim.task = issue.body
    BY <1>3, <2>1 DEF RunOk, Declared
  <2>6. QED
    BY <2>3, <2>4, <2>5
<1>4. ThreadKept(r)
  <2>1. ASSUME Undisturbed PROVE Len(comments') <= 1
    <3>1. Len(comments') = 1
      BY <1>2, <2>1
    <3>2. QED
      BY <3>1
  <2>2. QED
    BY <1>1, <1>3, <2>1 DEF ThreadKept
<1>5. QED
  BY <1>2, <1>4

\* The claim is stored; the run goes on to read everything again.
LEMMA WrittenStep ==
    ASSUME ClaimInv, NEW r \in Run, run[r].pc = "write",
           comments' = Written(run[r].target, Intended(r)),
           run' = [run EXCEPT ![r].pc = "issue", ![r].verifying = TRUE,
                              ![r].target = IF @ = 0 THEN Len(comments') ELSE @,
                              ![r].wroteAt = changes],
           UNCHANGED <<clock, world, delayed, strays>>
    PROVE  ClaimInv'
<1> DEFINE q == run[r]
           target == IF q.target = 0 THEN Len(comments') ELSE q.target
           x == [q EXCEPT !.pc = "issue", !.verifying = TRUE, !.target = target,
                          !.wroteAt = changes]
<1>0. /\ ClaimTypeOK /\ q \in RunType /\ RunOk(r) /\ Active(r) /\ Claims(r) /\ changes \in Nat
      /\ UNCHANGED <<epoch, issue, changes, clock>>
  BY DEF ClaimInv, ClaimTypeOK, Active, Claims, world
<1>1. /\ ThreadKept(r) /\ comments' \in Seq(ClaimComment)
      /\ Undisturbed => /\ Len(comments') = 1 /\ comments'[1] = Intended(r)
                        /\ q.target = 0 \/ q.target = 1
  BY WriteKeeps DEF ThreadKept
<1>2. run' = [run EXCEPT ![r] = x] /\ run'[r] = x
  BY <1>0 DEF ClaimTypeOK
<1>3. target \in Nat /\ (Undisturbed => target = 1)
  BY <1>0, <1>1 DEF RunType
<1> HIDE DEF target
<1>4. x \in RunType
  BY <1>0, <1>3 DEF RunType
<1>5. /\ x.pc = "issue" /\ x.verifying /\ x.target = target /\ x.claim = q.claim
      /\ x.now = q.now /\ x.request = q.request /\ x.status = q.status /\ x.epoch = q.epoch
      /\ x.duplicated = q.duplicated /\ x.wroteAt = changes
  BY <1>0 DEF RunType
<1> HIDE DEF x
<1>6. Only(r) /\ Alone(r)
  BY <1>0, <1>2, <1>4, AtWork DEF Only
<1>7. ~ q.duplicated
  BY <1>0 DEF RunOk, Refused
<1>8. RunOk(r)'
  <2>1. Declared(r)'
    BY <1>0, <1>2, <1>5 DEF RunOk, Declared, IssueRead, Told
  <2>2. Asked(r)'
    BY <1>0, <1>2, <1>5 DEF RunOk, Asked, Active, Claims, Told
  <2>3. Refused(r)'
    BY <1>2, <1>5, <1>7 DEF Refused
  <2>4. Fresh(r)'
    BY <1>0, <1>2, <1>5 DEF Fresh
  <2>5. QED
    BY <2>1, <2>2, <2>3, <2>4 DEF RunOk
<1>9. ASSUME Undisturbed
      PROVE  /\ ThreadOk(r)' /\ HeldOk(r)'
             /\ \A s \in Run \ {r} : Holds(s) =>
                   Apart(r, s)' /\ Exclusive(r, s)' /\ Exclusive(s, r)'
  <2>0. Thread
    BY <1>9 DEF ClaimInv
  <2>1. ThreadOk(r)'
    <3>1. Intended(r)' = Intended(r)
      BY <1>2, <1>5 DEF Intended
    <3>2. QED
      BY <1>1, <1>2, <1>3, <1>5, <1>9, <3>1 DEF ThreadOk, CommentsRead, PartRead
  <2>2. ~ Holds(r)'
    BY <1>0, <1>2, <1>5 DEF Holds, RunOk, Asked
  <2>3. ASSUME NEW s \in Run \ {r}, Holds(s) PROVE Apart(r, s)'
    <3>1. Apart(r, s) /\ run'[s] = run[s]
      BY <1>0, <1>6, <2>0, OthersStay DEF Thread
    <3>2. run'[r].epoch = q.epoch /\ run'[r].claim = q.claim /\ Claims(r)'
      BY <1>2, <1>5 DEF Claims, Active
    <3>3. Holds(s)' => Holds(s)
      BY <2>3
    <3>4. QED
      BY <1>0, <3>1, <3>2, <3>3 DEF Apart
  <2>4. QED
    BY <2>1, <2>2, <2>3 DEF HeldOk, Exclusive
<1>10. delayed' \subseteq [id : Nat, comment : ClaimComment]
  BY <1>0 DEF ClaimTypeOK
<1>11. QED
  BY <1>1, <1>6, <1>8, <1>9, <1>10, OwnStep DEF ThreadKept

\* GitHub stores the claim, and its answer arrives or is lost.
LEMMA WriteCommentStep ==
    ASSUME ClaimInv, NEW r \in Run, WriteComment(r)
    PROVE  ClaimInv'
<1>1. /\ run[r].pc = "write" /\ comments' = Written(run[r].target, Intended(r))
      /\ UNCHANGED <<clock, world, delayed, strays>>
  BY DEF WriteComment
<1>2. CASE Answer(r, "blocked", None)
  <2>1. Active(r) /\ delayed' \subseteq [id : Nat, comment : ClaimComment]
    BY <1>1 DEF Active, ClaimInv, ClaimTypeOK
  <2>2. QED
    BY <1>1, <1>2, <2>1, StopStep, WriteKeeps
<1>3. CASE ~ Answer(r, "blocked", None)
  <2>1. run' = [run EXCEPT ![r].pc = "issue", ![r].verifying = TRUE,
                           ![r].target = IF @ = 0 THEN Len(comments') ELSE @,
                           ![r].wroteAt = changes]
    BY <1>3 DEF WriteComment
  <2>2. QED
    BY <1>1, <2>1, WrittenStep
<1>4. QED
  BY <1>2, <1>3

\* The reread shows the claim as it was written, and the run is told.
LEMMA AcquiredStep ==
    ASSUME ClaimInv, NEW r \in Run, Snapshot(r), run[r].verifying,
           run[r].issue.body = run[r].request.task,
           Answer(r, "acquired", run[r].claim),
           UNCHANGED <<clock, world, comments, delayed, strays>>
    PROVE  ClaimInv'
<1> DEFINE q == run[r]
<1>0. /\ ClaimTypeOK /\ q \in RunType /\ RunOk(r) /\ q.pc = "related" /\ Active(r) /\ Claims(r)
      /\ UNCHANGED <<epoch, issue, changes>> /\ changes \in Nat
  BY DEF ClaimInv, ClaimTypeOK, Snapshot, Active, Claims, world
<1>1. q.claim \in TaskClaim /\ q.claim # None /\ q.claim.task = q.request.task
  BY <1>0, ClaimGatewayAssumption DEF RunOk, Asked
<1>2. run' = [run EXCEPT ![r] = Answered(q, "acquired", q.claim)]
  BY DEF Answer
<1>3. run'[r] = Answered(q, "acquired", q.claim)
  BY <1>0, <1>2 DEF ClaimTypeOK
<1>4. run'[r] \in RunType /\ IsAnswer(run'[r], q, "acquired", q.claim)
  <2>1. "acquired" \in Outcome /\ q.claim \in TaskClaim \cup {None}
    BY <1>1 DEF Outcome
  <2>2. QED
    BY <1>0, <1>3, <2>1, AnsweredRun, Zenon
<1>5. /\ run'[r].pc = "done" /\ run'[r].status = "acquired" /\ run'[r].claim = q.claim
      /\ run'[r].epoch = q.epoch /\ run'[r].duplicated = q.duplicated
      /\ run'[r].wroteAt = 0
  BY <1>1, <1>4 DEF IsAnswer
<1>6. Only(r) /\ Alone(r)
  BY <1>0, <1>2, <1>3, <1>4, AtWork DEF Only
<1>7. ~ q.duplicated
  BY <1>0 DEF RunOk, Refused
<1>8. RunOk(r)'
  <2>1. Declared(r)'
    BY <1>0, <1>1, <1>5 DEF RunOk, Declared, IssueRead, Told
  <2>2. Asked(r)'
    BY <1>1, <1>5 DEF Asked, Active, Claims, Told
  <2>3. Refused(r)'
    BY <1>5, <1>7 DEF Refused
  <2>4. Fresh(r)'
    BY <1>0, <1>5 DEF Fresh
  <2>5. QED
    BY <2>1, <2>2, <2>3, <2>4 DEF RunOk
<1>9. ASSUME Undisturbed
      PROVE  /\ ThreadOk(r)' /\ HeldOk(r)'
             /\ \A s \in Run \ {r} : Holds(s) =>
                   Apart(r, s)' /\ Exclusive(r, s)' /\ Exclusive(s, r)'
  <2>0. Thread
    BY <1>9 DEF ClaimInv
  <2>1. ThreadOk(r)'
    BY <1>5 DEF ThreadOk, CommentsRead, PartRead, Active
  <2>2. HeldOk(r)'
    <3>1. Len(comments) = 1 /\ comments[1] = Intended(r)
      BY <1>0, <2>0 DEF Thread, ThreadOk
    <3>2. QED
      BY <1>5, <3>1 DEF HeldOk, Published, Intended
  <2>3. ASSUME NEW s \in Run \ {r}, Holds(s)
        PROVE  Apart(r, s)' /\ Exclusive(r, s)' /\ Exclusive(s, r)'
    <3>1. run[s].epoch = q.epoch => run[s].claim.task # q.claim.task
      BY <1>0, <2>0, <2>3 DEF Thread, Apart
    <3>2. run'[s] = run[s]
      BY <1>0, <1>6, OthersStay
    <3>3. QED
      BY <1>5, <3>1, <3>2 DEF Apart, Exclusive, Active
  <2>4. QED
    BY <2>1, <2>2, <2>3
<1>10. delayed' \subseteq [id : Nat, comment : ClaimComment] /\ ThreadKept(r)
  BY <1>0, Unwritten DEF ClaimTypeOK
<1>11. QED
  BY <1>6, <1>8, <1>9, <1>10, OwnStep DEF ThreadKept

\* The second snapshot confirms the claim or does not.
LEMMA VerifyStep ==
    ASSUME ClaimInv, NEW r \in Run, Verify(r)
    PROVE  ClaimInv'
<1>1. /\ Snapshot(r) /\ run[r].verifying /\ Active(r)
      /\ UNCHANGED <<clock, world, comments, delayed, strays>>
      /\ \/ run[r].issue.body = run[r].request.task /\ Answer(r, "acquired", run[r].claim)
         \/ Answer(r, "blocked", None)
  BY DEF Verify, Snapshot, Active
<1>2. delayed' \subseteq [id : Nat, comment : ClaimComment]
  BY <1>1 DEF ClaimInv, ClaimTypeOK
<1>3. CASE Answer(r, "blocked", None)
  BY <1>1, <1>2, <1>3, StopStep, Unwritten
<1>4. CASE ~ Answer(r, "blocked", None)
  BY <1>1, <1>4, AcquiredStep
<1>5. QED
  BY <1>3, <1>4

-----------------------------------------------------------------------------
(* Who is told that it acquired the task                                   *)

\* Answering tells this run, and no other, just this status.
LEMMA AnswerTells ==
    ASSUME ClaimInv, NEW r \in Run, NEW status, NEW claim, Answer(r, status, claim)
    PROVE  run'[r].status = status /\ \A s \in Run : s # r => run'[s] = run[s]
<1>1. run \in [Run -> RunType]
  BY DEF ClaimInv, ClaimTypeOK
<1>2. run' = [run EXCEPT ![r] = Answered(run[r], status, claim)]
  BY DEF Answer
<1>3. Answered(run[r], status, claim).status = status
  BY DEF Answered, QueuedRun
<1>4. QED
  BY <1>1, <1>2, <1>3

\* No step of a run but its verification tells anyone that the task is acquired.
LEMMA OnlyVerifyAcquires ==
    ASSUME ClaimInv, NEW r \in Run, Step(r), ~ Verify(r), NEW s \in Run,
           run[s].status # "acquired"
    PROVE  run'[s].status # "acquired"
<1>0. run \in [Run -> RunType] /\ run[r] \in RunType /\ run[s] \in RunType
  BY DEF ClaimInv, ClaimTypeOK
<1>1. ASSUME NEW status, status # "acquired", NEW claim, Answer(r, status, claim)
      PROVE  run'[s].status # "acquired"
  BY <1>1, AnswerTells
<1>2. CASE Start(r)
  BY <1>0, <1>2 DEF Start, QueuedRun
<1>3. CASE ReadIssue(r)
  BY <1>0, <1>3 DEF ReadIssue, RunType
<1>4. CASE ReadRelated(r)
  <2>1. run' = [run EXCEPT ![r] = run'[r]] /\ run'[r].status = run[r].status
    BY <1>4, RelatedRead DEF Reads, Only
  <2>2. QED
    BY <1>0, <2>1
<1>5. CASE ReadFails(r) \/ Cancel(r) \/ WriteFails(r)
  BY <1>1, <1>5 DEF ReadFails, Cancel, WriteFails
<1>6. CASE WriteComment(r)
  <2>1. CASE Answer(r, "blocked", None)
    BY <1>1, <2>1
  <2>2. CASE run' = [run EXCEPT ![r].pc = "issue", ![r].verifying = TRUE,
                                ![r].target = IF @ = 0 THEN Len(comments') ELSE @,
                                ![r].wroteAt = changes]
    BY <1>0, <2>2 DEF RunType
  <2>3. QED
    BY <1>6, <2>1, <2>2 DEF WriteComment
<1>7. CASE Decide(r)
  <2>1. \/ Answer(r, "blocked", None) \/ Answer(r, "ineligible", None) \/ Answer(r, "busy", None)
        \/ Answer(r, "existing", run[r].comments[1].claim)
        \/ run' = [run EXCEPT
                     ![r].pc = "write",
                     ![r].target = WriteTarget(SelectComment(run[r].comments)),
                     ![r].claim = CreateTaskClaim(run[r].request.task, run[r].request.claimant,
                                                  run[r].now, run[r].request.lease)]
    BY <1>7 DEF Decide
  <2>2. CASE run' = [run EXCEPT
                       ![r].pc = "write",
                       ![r].target = WriteTarget(SelectComment(run[r].comments)),
                       ![r].claim = CreateTaskClaim(run[r].request.task, run[r].request.claimant,
                                                    run[r].now, run[r].request.lease)]
    BY <1>0, <2>2 DEF RunType
  <2>3. QED
    BY <1>1, <2>1, <2>2
<1>8. QED
  BY <1>2, <1>3, <1>4, <1>5, <1>6, <1>7 DEF Step

\* AcquiredReadyTask of one run.
ReadyWhenAcquired(r) ==
    /\ run[r].status # "acquired" /\ run'[r].status = "acquired"
    /\ run[r].wroteAt = changes
    => /\ issue.open /\ issue.trusted
       /\ issue.body = run'[r].claim.task
       /\ issue.body.dispatch = "ready"
       /\ issue.body.dependsOn \subseteq closed
       /\ pulls = {}

\* A snapshot that shows the task ready.
LEMMA ReadyTask ==
    ASSUME NEW i \in IssueObservation, NEW done, NEW open, TaskReady(i, done, open)
    PROVE  /\ i.open /\ i.trusted /\ i.body.dispatch = "ready"
           /\ i.body.dependsOn \subseteq done /\ open = {}
<1>1. i.body.dispatch \in {"ready", "hold"}
  BY TaskClaimAssumption DEF IssueObservation
<1>2. TaskEligibility(i, done, open) = "ready"
  BY DEF TaskReady
<1>3. QED
  BY <1>1, <1>2 DEF TaskEligibility

\* What the run verified is what is, if nothing changed since it wrote.
LEMMA AcquiringStep ==
    ASSUME ClaimInv, Next, NEW r \in Run
    PROVE  ReadyWhenAcquired(r)
<1> SUFFICES ASSUME run[r].status # "acquired", run'[r].status = "acquired",
                    run[r].wroteAt = changes
             PROVE  /\ issue.open /\ issue.trusted
                    /\ issue.body = run'[r].claim.task
                    /\ issue.body.dispatch = "ready"
                    /\ issue.body.dependsOn \subseteq closed
                    /\ pulls = {}
  BY DEF ReadyWhenAcquired
<1>0. run \in [Run -> RunType] /\ run[r] \in RunType /\ RunOk(r)
  BY DEF ClaimInv, ClaimTypeOK
<1>1. PICK s \in Run : Step(s)
  BY DEF Next, Tick, EditIssue, ChangeDependency, ChangePullRequest, WriteArrivesLate
<1>2. Verify(s)
  BY <1>1, OnlyVerifyAcquires
<1>3. s = r
  <2>1. PICK status, claim : Answer(s, status, claim)
    BY <1>2 DEF Verify
  <2>2. QED
    BY <2>1, AnswerTells
<1>4. ~ Answer(r, "blocked", None)
  BY AnswerTells
<1>5. /\ Snapshot(r) /\ run[r].verifying /\ Answer(r, "acquired", run[r].claim)
      /\ TaskReady(run[r].issue, run[r].closed, run[r].pulls)
      /\ run[r].issue.body = run[r].request.task
  BY <1>2, <1>3, <1>4 DEF Verify
<1>6. /\ run[r].issue = issue /\ run[r].pulls = pulls
      /\ run[r].closed = closed \cap run[r].issue.body.dependsOn
  BY <1>0, <1>5 DEF RunOk, Fresh, Snapshot, PartRead
<1>7. /\ issue \in IssueObservation
      /\ TaskReady(issue, closed \cap issue.body.dependsOn, pulls)
  BY <1>5, <1>6 DEF ClaimInv, ClaimTypeOK
<1>8. run'[r].claim.task = issue.body
  <2>1. run[r].claim.task = issue.body
    BY <1>0, <1>5, <1>6 DEF RunOk, Asked, Claims, Active, Snapshot
  <2>2. run'[r].claim = run[r].claim
    <3>1. Answered(run[r], "acquired", run[r].claim).claim = run[r].claim
      BY DEF Answered, QueuedRun
    <3>2. QED
      BY <1>0, <1>5, <3>1 DEF Answer
  <2>3. QED
    BY <2>1, <2>2
<1>9. QED
  BY <1>7, <1>8, ReadyTask

-----------------------------------------------------------------------------
(* Theorems                                                                *)

\* The invariant holds of a new Issue.
LEMMA ClaimStart == Init => ClaimInv
<1> SUFFICES ASSUME Init PROVE ClaimInv
  OBVIOUS
<1>1. QueuedRun \in RunType
  BY Versions DEF QueuedRun, RunType, Part, Outcome
<1>2. \A r \in Run : run[r] = QueuedRun
  BY DEF Init
<1>3. ClaimTypeOK
  BY <1>1, Versions DEF Init, ClaimTypeOK
<1>4. /\ QueuedRun.pc = "queued" /\ QueuedRun.status = "none" /\ QueuedRun.epoch = 0
      /\ QueuedRun.wroteAt = 0 /\ ~ QueuedRun.duplicated
  BY DEF QueuedRun
<1>5. epoch = 0 /\ changes = 0 /\ comments = <<>>
  BY DEF Init
<1>6. \A r \in Run : RunOk(r)
  BY <1>2, <1>4, <1>5
  DEF RunOk, Declared, Asked, Refused, Fresh, IssueRead, Told, Active, Claims, PartRead
<1>7. OneRun
  BY <1>2, <1>4 DEF OneRun, Active
<1>8. Thread
  <2>1. Len(comments) <= 1
    BY <1>5
  <2>2. \A r \in Run : ThreadOk(r) /\ HeldOk(r)
    BY <1>2, <1>4 DEF ThreadOk, HeldOk, CommentsRead, PartRead, Active, Holds
  <2>3. \A r, s \in Run : Apart(r, s) /\ Exclusive(r, s)
    BY <1>2, <1>4 DEF Apart, Exclusive, Active, Holds
  <2>4. QED
    BY <2>1, <2>2, <2>3 DEF Thread
<1>9. QED
  BY <1>3, <1>6, <1>7, <1>8 DEF ClaimInv

\* Every step keeps the invariant.
LEMMA ClaimStep == ClaimInv /\ [Next]_vars => ClaimInv'
<1> SUFFICES ASSUME ClaimInv, [Next]_vars PROVE ClaimInv'
  OBVIOUS
<1>1. CASE Tick
  BY <1>1, TickStep
<1>2. CASE EditIssue \/ ChangeDependency \/ ChangePullRequest
  BY <1>2, ChangeStep
<1>3. CASE WriteArrivesLate
  BY <1>3, LateStep
<1>4. ASSUME NEW r \in Run, Step(r) PROVE ClaimInv'
  <2>1. CASE Start(r)
    BY <2>1, StartStep
  <2>2. CASE ReadIssue(r)
    BY <2>2, ReadIssueStep
  <2>3. CASE ReadRelated(r)
    BY <2>3, ReadRelatedStep
  <2>4. CASE ReadFails(r) \/ Cancel(r)
    BY <2>4, StoppedStep
  <2>5. CASE Decide(r)
    BY <2>5, DecideStep
  <2>6. CASE WriteComment(r)
    BY <2>6, WriteCommentStep
  <2>7. CASE WriteFails(r)
    BY <2>7, WriteFailsStep
  <2>8. CASE Verify(r)
    BY <2>8, VerifyStep
  <2>9. QED
    BY <1>4, <2>1, <2>2, <2>3, <2>4, <2>5, <2>6, <2>7, <2>8 DEF Step
<1>5. CASE UNCHANGED vars
  <2>1. /\ UNCHANGED <<clock, issue, closed, pulls, comments, delayed, run>>
        /\ UNCHANGED <<changes, epoch, strays>>
    BY <1>5 DEF vars
  <2>2. ClaimTypeOK
    BY DEF ClaimInv
  <2>3. QED
    BY <2>1, <2>2, WorldStep DEF ClaimTypeOK
<1>6. QED
  BY <1>1, <1>2, <1>3, <1>4, <1>5 DEF Next

\* What a run has read, is about to write or was told fits the thread and the
\* Issue as they are, for any number of runs, changes and late writes.
THEOREM ClaimInvariant == Spec => []ClaimInv
BY ClaimStart, ClaimStep, PTL DEF Spec

\* Each variable stays in its type.
THEOREM ClaimTypes == Spec => []ClaimTypeOK
<1>1. ClaimInv => ClaimTypeOK
  BY DEF ClaimInv
<1>2. QED
  BY <1>1, ClaimInvariant, PTL

\* Lost answers, cancelled runs and repeated dispatches never make a second
\* claim comment (claim-gateway.mjs, acquireTaskClaimThroughGateway).
THEOREM SingleComment == Spec => []OneClaimComment
<1>1. ClaimInv => OneClaimComment
  BY DEF ClaimInv, Thread, OneClaimComment
<1>2. QED
  BY <1>1, ClaimInvariant, PTL

\* No two Agents hold a running claim of one task, although each run reads,
\* writes and reads again in separate requests.
THEOREM ExclusiveTask == Spec => []TaskExclusive
<1>1. ClaimInv => TaskExclusive
  BY DEF ClaimInv, Thread, Exclusive, TaskExclusive
<1>2. QED
  BY <1>1, ClaimInvariant, PTL

\* A claim an Agent was told it holds stays in the thread while it runs and the
\* declaration stands.
THEOREM ClaimStaysPublished == Spec => []HeldClaimPublished
<1>1. ClaimInv => HeldClaimPublished
  BY DEF ClaimInv, Thread, HeldOk, Published, HeldClaimPublished
<1>2. QED
  BY <1>1, ClaimInvariant, PTL

\* A run dispatched on two claim comments believes neither.
THEOREM DuplicatesRefused == Spec => []DuplicatesFailClosed
<1>1. ClaimInv => DuplicatesFailClosed
  BY DEF ClaimInv, RunOk, Refused, DuplicatesFailClosed
<1>2. QED
  BY <1>1, ClaimInvariant, PTL

\* A run acquires only a task that is ready at that moment, unless something
\* changed since it wrote its claim (the reread of acquireTaskClaimThroughGateway).
THEOREM AcquiredIsReady == Spec => AcquiredReadyTask
<1>1. ClaimInv /\ [Next]_vars => [\A r \in Run : ReadyWhenAcquired(r)]_vars
  BY AcquiringStep
<1>2. (\A r \in Run : ReadyWhenAcquired(r))
      <=> \A r \in Run :
             /\ run[r].status # "acquired" /\ run'[r].status = "acquired"
             /\ run[r].wroteAt = changes
             => /\ issue.open /\ issue.trusted
                /\ issue.body = run'[r].claim.task
                /\ issue.body.dispatch = "ready"
                /\ issue.body.dependsOn \subseteq closed
                /\ pulls = {}
  BY Zenon DEF ReadyWhenAcquired
<1>3. QED
  BY <1>1, <1>2, ClaimInvariant, PTL DEF Spec, AcquiredReadyTask

=============================================================================

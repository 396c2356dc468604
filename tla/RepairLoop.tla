----------------------------- MODULE RepairLoop -----------------------------
(***************************************************************************)
(* The repairs of one pull request: dsh-repair.mjs run by run, with each   *)
(* request to GitHub and each call of runRoleWorker a step, what its       *)
(* status comments let a later run do (repair-state.mjs), and the recovery *)
(* of runs that failed (recover-backlog.mjs, recovery-policy.mjs).         *)
(*                                                                         *)
(* A status comment is found by its marker: the request and, if the run    *)
(* recovers another one, that run.  A run is known by its number.  The     *)
(* base does not move: a state version is a head.  Labels that no program  *)
(* reads back are left out.  The durable execution of a request is the one *)
(* of RoleWorker, by what it promises.                                     *)
(***************************************************************************)
EXTENDS Naturals, Sequences, FiniteSets

CONSTANTS
    MaxHead,       \* bound on the heads that are pushed
    MaxAttempt,    \* bound on the attempts of the CI run of each head
    CiLimit,       \* CI repairs of one branch: 3
    RecoveryLimit, \* recoveries of one branch: 3
    Scenarios      \* what may happen besides, each bounded

ASSUME RepairAssumption ==
    /\ MaxHead \in Nat \ {0} /\ MaxAttempt \in Nat \ {0}
    /\ CiLimit \in Nat \ {0} /\ RecoveryLimit \in Nat \ {0}
    /\ Scenarios \subseteq [kinds : SUBSET {"ci", "review", "merge"}, runs : Nat, pushes : Nat,
                            reviews : Nat, copies : Nat, comments : Nat,
                            deferrals : Nat, kills : Nat, faults : Nat]

VARIABLES
    pr,       \* head and the labels that are read back
    ci,       \* attempt and result of the CI run of each head
    reviews,  \* how many reviews of each head have started
    runs,     \* repair runs, oldest first
    comments, \* status comments: marker, status and run
    journal,  \* durable executions: how each request's Worker ended
    ledger,   \* Governor records that repairs and recoveries read
    wanted,   \* heads an advancement was asked for
    models,   \* the Workers that were started: request and run
    left      \* what of the scenario may still happen

vars == <<pr, ci, reviews, runs, comments, journal, ledger, wanted, models, left>>

Revision == 1 .. MaxHead
Request == [kind : {"ci", "review", "merge"}, head : Revision, nth : Nat]
RunId == DOMAIN runs

RepairInit ==
    /\ pr = [head |-> 1, blocked |-> FALSE, ready |-> FALSE, paused |-> FALSE]
    /\ ci = [h \in Revision |-> [attempt |-> 1, result |-> "pending"]]
    /\ reviews = [h \in Revision |-> 0]
    /\ runs = << >>
    /\ comments = {}
    /\ journal = {}
    /\ ledger = [candidates |-> {}, started |-> {}, recovered |-> {}, paused |-> FALSE]
    /\ wanted = {}
    /\ models = {}
    /\ left \in Scenarios

Spend(what) == left[what] > 0 /\ left' = [left EXCEPT ![what] = @ - 1]

-----------------------------------------------------------------------------
(* The lanes                                                               *)

\* The concurrency group of dsh-repair.yml ends in the number the caller gives:
\* agent-pr-ci-repair.yml gives 0, agent-pr-rework.yml the pull request's.
Lane(request, source) == IF request.kind = "ci" /\ source = 0 THEN "ci" ELSE "pr"
LaneOf(r) == Lane(runs[r].request, runs[r].source)

Ended(r) == runs[r].at = "ended"
Running(r) == runs[r].at \notin {"pending", "ended"}

\* A group keeps one pending run: the newest.
Displaced(lane) ==
    [r \in RunId |->
        IF runs[r].at = "pending" /\ LaneOf(r) = lane
        THEN [runs[r] EXCEPT !.at = "ended", !.conclusion = "cancelled"]
        ELSE runs[r]]

Enqueue(request, source) ==
    /\ Len(runs) < left.runs
    /\ runs' = Append(Displaced(Lane(request, source)),
                      [request |-> request, source |-> source, at |-> "pending",
                       todo |-> << >>, outcome |-> "none", charge |-> 0, seen |-> 0,
                       head |-> request.head, recovery |-> "none", conclusion |-> "none"])

Begin(r) ==
    /\ runs[r].at = "pending"
    /\ \A other \in RunId : Running(other) => LaneOf(other) # LaneOf(r)
    /\ runs' = [runs EXCEPT ![r].at = "reading"]
    /\ UNCHANGED <<pr, ci, reviews, comments, journal, ledger, wanted, models, left>>

\* The job is killed, times out, or loses its host: nothing is caught.
Kill(r) ==
    /\ Running(r)
    /\ Spend("kills")
    /\ runs' = [runs EXCEPT ![r].at = "ended", ![r].conclusion = "failure",
                            ![r].todo = << >>]
    /\ UNCHANGED <<pr, ci, reviews, comments, journal, ledger, wanted, models>>

-----------------------------------------------------------------------------
(* Requests from outside                                                   *)

\* An author pushes a head.
Push ==
    /\ pr.head < MaxHead /\ Spend("pushes")
    /\ pr' = [pr EXCEPT !.head = @ + 1]
    /\ UNCHANGED <<ci, reviews, runs, comments, journal, ledger, wanted, models>>

\* An attempt of the CI run of a head ends, and a failed one asks for a repair.
CompleteCi ==
    \E h \in Revision, result \in {"passed", "failed"} :
        /\ "ci" \in left.kinds /\ h <= pr.head
        /\ ci[h].result = "pending"
        /\ ci' = [ci EXCEPT ![h].result = result]
        /\ IF result = "failed"
           THEN Enqueue([kind |-> "ci", head |-> h, nth |-> ci[h].attempt], 0)
           ELSE UNCHANGED runs
        /\ UNCHANGED <<pr, reviews, comments, journal, ledger, wanted, models, left>>

\* A review of the current head takes the ready label, and blocks it or not.
Review ==
    /\ Spend("reviews")
    /\ reviews' = [reviews EXCEPT ![pr.head] = @ + 1]
    /\ \E blocked \in BOOLEAN :
          pr' = [pr EXCEPT !.ready = FALSE, !.blocked = blocked]
    /\ UNCHANGED <<ci, runs, comments, journal, ledger, wanted, models>>

\* The repair of a conflict is sent by reconcile-reviews.mjs once its admission
\* is recorded (PullRequestGovernor), a second time if that run ends before it
\* recorded the dispatch.  The repair of a review comes as an event of somebody
\* else: the request of reconcile-reviews.mjs for it names no repository.
Send(request) ==
    /\ request.kind \in left.kinds
    /\ request.kind = "review" => pr.blocked
    /\ IF \E r \in RunId : runs[r].request = request
       THEN Spend("copies")
       ELSE UNCHANGED left
    /\ Enqueue(request, 0)
    /\ UNCHANGED <<pr, ci, reviews, comments, journal, ledger, wanted, models>>

SendRepair ==
    \/ Send([kind |-> "merge", head |-> pr.head, nth |-> 1])
    \/ Send([kind |-> "review", head |-> pr.head, nth |-> reviews[pr.head]])

\* wake-rework.yml is in the group of the pull request: the run of a comment
\* takes the place of a pending repair.
Comment ==
    /\ Spend("comments")
    /\ runs' = Displaced("pr")
    /\ UNCHANGED <<pr, ci, reviews, comments, journal, ledger, wanted, models>>

-----------------------------------------------------------------------------
(* dsh-repair.mjs until its Worker                                         *)

RequestOf(r) == runs[r].request
HeadOf(r) == runs[r].request.head
Marker(r) == <<runs[r].request, runs[r].source>>

At(r, place) == r \in RunId /\ runs[r].at = place
Goto(r, place) == runs' = [runs EXCEPT ![r].at = place]

\* What a run has still to write, in this order, and how it stops.
Plan(r, todo) == runs' = [runs EXCEPT ![r].at = "writing", ![r].todo = todo]
Stop(r, conclusion) ==
    runs' = [runs EXCEPT ![r].at = "ended", ![r].conclusion = conclusion,
                         ![r].todo = << >>]

\* Mutant: the catch does not throw the error on.
MutantSwallow == <<"failed", "block", "succeed">>

\* The catch of the run: a status and labels, both best effort.
Failure == <<"failed", "block", "fail">>

\* STATUS_PATTERN: a blocked status is no status to a later run.
Recorded(c) == c.status \in {"running", "capacity-waiting", "complete", "failed"}

\* recoverableRepairIdentity and trustedSourceRepairRun.  The comment of a CI
\* repair is found by the original request, any other by the run recovered.
SourceComment(r) ==
    {c \in comments :
        /\ Recorded(c) /\ c.marker[1].head = HeadOf(r)
        /\ IF RequestOf(r).kind = "ci"
           THEN c.marker = <<RequestOf(r), 0>>
           ELSE c.run = runs[r].source}

SourceTrusted(r) ==
    /\ Cardinality(SourceComment(r)) = 1
    /\ \A c \in SourceComment(r) :
          Ended(c.run) /\ runs[c.run].conclusion # "success"

\* What a run demands of the request and of the pull request before it reads
\* the Governor's records.
Evidence(r) ==
    LET q == RequestOf(r)
    IN  /\ runs[r].source # 0 => SourceTrusted(r)
        /\ q.kind = "ci" => ci[q.head] = [attempt |-> q.nth, result |-> "failed"]
        /\ q.kind = "review" => pr.blocked
        /\ ~pr.paused

Consumed == Cardinality({s.attempt : s \in ledger.started})
Started(h) == \E s \in ledger.started : s.head = h

\* Mutant: any run that failed may be repeated, whatever its status says.
MutantRetryFailed(c) == Ended(c.run) /\ runs[c.run].conclusion # "success"

\* interruptedRepairMayRetry
MayRetry(c) ==
    \/ c.status = "capacity-waiting" /\ runs[c.run].conclusion = "success"
    \/ /\ c.status = "running"
       /\ Ended(c.run) /\ runs[c.run].conclusion # "success"

\* Go on, unless the request was consumed.
Proceed(r, charge) ==
    IF \A c \in comments : c.marker = Marker(r) => MayRetry(c)
    THEN runs' = [runs EXCEPT ![r].at = "writing", ![r].charge = charge,
                              ![r].todo = <<"running", "labels", "checkout">>]
    ELSE Stop(r, "success")

\* The first failed attempt of a state is recorded and CI runs again; a later
\* one is charged to the budget, which ends in a pause.
AdmitCi(r) ==
    IF ledger.paused \/ Started(HeadOf(r)) THEN Stop(r, "success")
    ELSE IF HeadOf(r) \notin ledger.candidates
    THEN Plan(r, <<"candidate", "rerun", "succeed">>)
    ELSE IF Consumed >= CiLimit THEN Plan(r, <<"pause", "pause-label", "succeed">>)
    ELSE Proceed(r, Consumed + 1)

\* The recovery of a CI repair rebuilds the charge its source did not record.
AdmitCiRecovery(r) ==
    IF Started(HeadOf(r)) THEN Proceed(r, 0)
    ELSE IF HeadOf(r) \in ledger.candidates /\ ~ledger.paused /\ Consumed < CiLimit
    THEN Proceed(r, Consumed + 1)
    ELSE Stop(r, "failure")

\* A moved head: the next review is asked for; then a name is read before its
\* declaration, outside the try.  A CI event knows no pull request of such a
\* head.
ReadPullRequest(r) ==
    /\ At(r, "reading")
    /\ IF pr.head # HeadOf(r)
       THEN IF LaneOf(r) = "ci" THEN Stop(r, "failure")
            ELSE runs' = [runs EXCEPT ![r].at = "writing", ![r].head = pr.head,
                             ![r].todo = <<"ready", "advance", "clear", "fail">>]
       ELSE IF ~Evidence(r) THEN Stop(r, "failure")
       ELSE IF RequestOf(r).kind # "ci" THEN Proceed(r, 0)
       ELSE IF runs[r].source = 0 THEN AdmitCi(r)
       ELSE AdmitCiRecovery(r)
    /\ UNCHANGED <<pr, ci, reviews, comments, journal, ledger, wanted, models, left>>

\* The clone must be at the head of the request.
CheckOut(r) ==
    /\ At(r, "checkout")
    /\ IF pr.head = HeadOf(r) THEN Goto(r, "claiming") ELSE Plan(r, Failure)
    /\ UNCHANGED <<pr, ci, reviews, comments, journal, ledger, wanted, models, left>>

-----------------------------------------------------------------------------
(* runRoleWorker, by what RoleWorker shows of it                           *)

\* Mutant: a recovery is an execution of its own.
MutantExecutionOfRun(r) == Marker(r)

\* What a durable execution is known by: also a recovery has the original id.
ExecutionOf(r) == RequestOf(r)

ResultOf(execution) == {e.outcome : e \in {f \in journal : f.execution = execution}}
Settle(execution, outcome) ==
    journal' = {e \in journal : e.execution # execution}
                   \union {[execution |-> execution, outcome |-> outcome]}

StartWorker(r) ==
    /\ At(r, "claiming")
    /\ ResultOf(ExecutionOf(r)) \subseteq {"claimed"}
    /\ Settle(ExecutionOf(r), "claimed")
    /\ models' = models \union {<<RequestOf(r), r>>}
    /\ Goto(r, "working")
    /\ UNCHANGED <<pr, ci, reviews, comments, ledger, wanted, left>>

\* An attempt that was claimed and has no result, in the same capacity
\* generation, is replayed without one.
ReplayClaim(r) ==
    /\ At(r, "claiming")
    /\ ResultOf(ExecutionOf(r)) = {"claimed"}
    /\ Plan(r, Failure)
    /\ UNCHANGED <<pr, ci, reviews, comments, journal, ledger, wanted, models, left>>

\* Only a completed execution is taken up again.
ReplayResult(r) ==
    /\ At(r, "claiming")
    /\ \E outcome \in ResultOf(ExecutionOf(r)) \ {"claimed"} :
          runs' = [runs EXCEPT ![r].at = "committing",
                      ![r].outcome = IF outcome = "completed" THEN outcome ELSE "failed"]
    /\ UNCHANGED <<pr, ci, reviews, comments, journal, ledger, wanted, models, left>>

DeferWorker(r) ==
    /\ At(r, "claiming")
    /\ ResultOf(ExecutionOf(r)) \subseteq {"claimed"}
    /\ Spend("deferrals")
    /\ Plan(r, <<"capacity-waiting", "succeed">>)
    /\ UNCHANGED <<pr, ci, reviews, comments, journal, ledger, wanted, models>>

\* The Worker pushes, if nobody else has; runs CI again; or rebuts the review.
WorkerPushes(r) ==
    /\ At(r, "working")
    /\ pr.head = HeadOf(r) /\ pr.head < MaxHead
    /\ pr' = [pr EXCEPT !.head = @ + 1]
    /\ UNCHANGED <<ci, reviews, runs, comments, journal, ledger, wanted, models, left>>

Rerun(h) ==
    /\ ci[h].result # "pending" /\ ci[h].attempt < MaxAttempt
    /\ ci' = [ci EXCEPT ![h] = [attempt |-> @.attempt + 1, result |-> "pending"]]

WorkerRunsCi(r) ==
    /\ At(r, "working") /\ RequestOf(r).kind = "ci"
    /\ Rerun(HeadOf(r))
    /\ UNCHANGED <<pr, reviews, runs, comments, journal, ledger, wanted, models, left>>

WorkerRebuts(r) ==
    /\ At(r, "working") /\ RequestOf(r).kind = "review"
    /\ ~pr.ready
    /\ pr' = [pr EXCEPT !.ready = TRUE]
    /\ UNCHANGED <<ci, reviews, runs, comments, journal, ledger, wanted, models, left>>

WorkerEnds(r) ==
    /\ At(r, "working")
    /\ \E outcome \in {"completed", "blocked", "failed"} :
          /\ Settle(ExecutionOf(r), outcome)
          /\ runs' = [runs EXCEPT ![r].at = "committing", ![r].outcome = outcome]
    /\ UNCHANGED <<pr, ci, reviews, comments, ledger, wanted, models, left>>

\* Mutant: only a completed repair is charged.
MutantChargeCompleted(r) ==
    ledger' = IF runs[r].charge = 0 \/ runs[r].outcome # "completed" THEN ledger
              ELSE [ledger EXCEPT !.started = @ \union
                       {[head |-> HeadOf(r), attempt |-> runs[r].charge]}]

\* onExecutionCommitted: the charge is recorded once the result is durable.
Charge(r) ==
    ledger' = IF runs[r].charge = 0 THEN ledger
              ELSE [ledger EXCEPT !.started = @ \union
                       {[head |-> HeadOf(r), attempt |-> runs[r].charge]}]

\* The charge, or the release of the probe before it, may fail.
Commit(r) ==
    /\ At(r, "committing")
    /\ \/ /\ Charge(r)
          /\ IF runs[r].outcome = "failed" THEN Plan(r, Failure) ELSE Goto(r, "judging")
          /\ UNCHANGED left
       \/ /\ Spend("faults")
          /\ \/ Charge(r)
             \/ UNCHANGED ledger
          /\ Plan(r, Failure)
    /\ UNCHANGED <<pr, ci, reviews, comments, journal, wanted, models>>

-----------------------------------------------------------------------------
(* dsh-repair.mjs after its Worker                                         *)

\* The postcondition: a new head, the same CI run successful on a later
\* attempt, or a new review of this head.
CiProven(r) ==
    LET q == RequestOf(r)
    IN  q.kind = "ci" /\ ci[q.head].result = "passed" /\ ci[q.head].attempt > q.nth
RereviewProven(r) ==
    RequestOf(r).kind = "review" /\ (pr.ready \/ reviews[HeadOf(r)] > runs[r].seen)

\* Mutant: the Worker is believed that the head needed no change.
MutantTrustWorker(r) ==
    IF runs[r].outcome = "blocked" THEN <<"blocked", "succeed">>
    ELSE IF pr.head # HeadOf(r) \/ RereviewProven(r)
    THEN <<"ready", "advance", "clear", "complete", "succeed">>
    ELSE <<"complete", "succeed">>

Closing(r) ==
    IF runs[r].outcome = "blocked" THEN <<"blocked", "succeed">>
    ELSE IF pr.head # HeadOf(r) \/ RereviewProven(r)
    THEN <<"ready", "advance", "clear", "complete", "succeed">>
    ELSE IF CiProven(r) THEN <<"complete", "succeed">>
    ELSE Failure

Judge(r) ==
    /\ At(r, "judging")
    /\ runs' = [runs EXCEPT ![r].at = "writing", ![r].head = pr.head,
                            ![r].todo = Closing(r)]
    /\ UNCHANGED <<pr, ci, reviews, comments, journal, ledger, wanted, models, left>>

Status == {"running", "capacity-waiting", "blocked", "complete", "failed"}
Labels == {"labels", "ready", "clear", "block", "pause-label"}
Records == {"candidate", "pause"}

\* upsertStatus
Post(r, status) ==
    comments' = {c \in comments : c.marker # Marker(r)}
                   \union {[marker |-> Marker(r), status |-> status, run |-> r]}

\* The labels of the start and of the catch: a review repair blocks the pull
\* request, the start of a merge repair unblocks it.
Relabelled(r, item) ==
    LET kind == RequestOf(r).kind
    IN  CASE item = "ready" -> [pr EXCEPT !.ready = TRUE]
          [] item = "clear" -> [pr EXCEPT !.blocked = FALSE]
          [] item = "pause-label" -> [pr EXCEPT !.paused = TRUE]
          [] item = "labels" -> [pr EXCEPT !.blocked = (@ \/ kind = "review") /\ kind # "merge"]
          [] item = "block" -> [pr EXCEPT !.blocked = @ \/ kind # "ci"]

\* What one write changes besides the run.
Effect(r, item) ==
    /\ IF item \in Status THEN Post(r, item) ELSE UNCHANGED comments
    /\ pr' = IF item \in Labels THEN Relabelled(r, item) ELSE pr
    /\ wanted' = IF item = "advance" THEN wanted \union {runs[r].head} ELSE wanted
    /\ ledger' = CASE item = "candidate" ->
                        [ledger EXCEPT !.candidates = @ \union {HeadOf(r)}]
                   [] item = "pause" -> [ledger EXCEPT !.paused = TRUE]
                   [] OTHER -> ledger
    /\ IF item = "rerun" THEN Rerun(HeadOf(r)) ELSE UNCHANGED ci

NoEffect == UNCHANGED <<pr, ci, comments, ledger, wanted>>

\* The run after a write: the ids of the reviews are read after the labels.
Written(r) ==
    runs' = [runs EXCEPT ![r].todo = Tail(@),
                         ![r].seen = IF Head(runs[r].todo) = "labels"
                                     THEN reviews[HeadOf(r)] ELSE @]

Write(r) ==
    /\ At(r, "writing")
    /\ LET item == Head(runs[r].todo)
       IN  IF item \in {"succeed", "fail"}
           THEN Stop(r, IF item = "succeed" THEN "success" ELSE "failure") /\ NoEffect
           ELSE IF item = "checkout" THEN Goto(r, "checkout") /\ NoEffect
           ELSE Effect(r, item) /\ Written(r)
    /\ UNCHANGED <<reviews, journal, models, left>>

\* A write fails, or only its response is lost.  Labels are best effort; the
\* failed status too; anything else throws, and only after the start is there
\* a catch.
WriteFails(r) ==
    /\ At(r, "writing")
    /\ LET item == Head(runs[r].todo)
       IN  /\ item \notin {"succeed", "fail", "checkout"}
           /\ Spend("faults")
           /\ Effect(r, item) \/ NoEffect
           /\ IF item \in Labels \union {"failed"} THEN Written(r)
              ELSE IF runs[r].outcome # "none" \/ item = "capacity-waiting"
              THEN Plan(r, Failure)
              ELSE Stop(r, "failure")
    /\ UNCHANGED <<reviews, journal, models>>

\* Anything else between the start and the Worker that throws.
PreparationFails(r) ==
    /\ runs[r].at \in {"checkout", "claiming", "judging"}
    /\ Spend("faults")
    /\ Plan(r, Failure)
    /\ UNCHANGED <<pr, ci, reviews, comments, journal, ledger, wanted, models>>

-----------------------------------------------------------------------------
(* recover-backlog.mjs for a repair run that did not succeed               *)

\* The comment that names the run, for a head that is still current.
Recoverable(r) ==
    /\ Ended(r) /\ runs[r].conclusion # "success"
    /\ HeadOf(r) = pr.head
    /\ \E c \in comments : c.run = r /\ Recorded(c)

\* governRecovery, then markRecoveryApplied: one recovery of a state, as many of
\* a branch as the budget has; or the pause that ends it.
AdmitRecovery(r) ==
    /\ runs[r].recovery = "none"
    /\ Recoverable(r) /\ ~pr.paused /\ ~ledger.paused
    /\ pr.head \notin ledger.recovered
    /\ IF Cardinality(ledger.recovered) < RecoveryLimit
       THEN /\ ledger' = [ledger EXCEPT !.recovered = @ \union {pr.head}]
            /\ runs' = [runs EXCEPT ![r].recovery = "admitted"]
            /\ UNCHANGED pr
       ELSE /\ ledger' = [ledger EXCEPT !.paused = TRUE]
            /\ pr' = [pr EXCEPT !.paused = TRUE]
            /\ runs' = [runs EXCEPT ![r].recovery = "done"]
    /\ UNCHANGED <<ci, reviews, comments, journal, wanted, models, left>>

\* The original request is sent again in the name of the recovery, on the lane
\* of the pull request.
SendRecovery(r) ==
    /\ runs[r].recovery = "admitted"
    /\ Len(runs) < left.runs
    /\ runs' = [Append(Displaced("pr"),
                       [request |-> RequestOf(r), source |-> r, at |-> "pending",
                        todo |-> << >>, outcome |-> "none", charge |-> 0, seen |-> 0,
                        head |-> HeadOf(r), recovery |-> "none", conclusion |-> "none"])
                EXCEPT ![r].recovery = "done"]
    /\ UNCHANGED <<pr, ci, reviews, comments, journal, ledger, wanted, models, left>>

\* A failure that names the provider or the protocol is a dead letter; or the
\* recovery dies after it is recorded.
LoseRecovery(r) ==
    /\ runs[r].recovery = "admitted"
    /\ Spend("faults")
    /\ runs' = [runs EXCEPT ![r].recovery = "done"]
    /\ UNCHANGED <<pr, ci, reviews, comments, journal, ledger, wanted, models>>

-----------------------------------------------------------------------------

RunStep(r) ==
    \/ Begin(r) \/ ReadPullRequest(r) \/ CheckOut(r)
    \/ StartWorker(r) \/ ReplayClaim(r) \/ ReplayResult(r)
    \/ WorkerEnds(r) \/ Commit(r) \/ Judge(r) \/ Write(r)

WorkerStep(r) == WorkerPushes(r) \/ WorkerRunsCi(r) \/ WorkerRebuts(r)

FaultOf(r) == Kill(r) \/ DeferWorker(r) \/ WriteFails(r) \/ PreparationFails(r)

RecoveryStep(r) == AdmitRecovery(r) \/ SendRecovery(r) \/ LoseRecovery(r)

Outside == Push \/ CompleteCi \/ Review \/ SendRepair \/ Comment

RepairNext ==
    \/ Outside
    \/ \E r \in RunId : RunStep(r) \/ WorkerStep(r) \/ FaultOf(r) \/ RecoveryStep(r)

RepairSpec == RepairInit /\ [][RepairNext]_vars

-----------------------------------------------------------------------------
(* Properties                                                              *)

\* A repair is complete only if it is proven: its CI run passed on a later
\* attempt, or the review of a head was asked for, and not of an older one.
CompleteIsHandedOn ==
    \A c \in comments :
        LET q == c.marker[1]
        IN  c.status = "complete" =>
               \/ \E h \in wanted : h > q.head
               \/ q.kind = "review" /\ q.head \in wanted
               \/ q.kind = "ci" /\ ci[q.head].attempt > q.nth

\* A run that succeeds leaves no status behind that says it still runs: such a
\* status is what lets a later run take the request up again.
RunningIsInterrupted ==
    \A c \in comments :
        c.status = "running" /\ Ended(c.run) => runs[c.run].conclusion # "success"

\* A repair that ended is done with.  No later run of the request, neither a
\* second delivery nor a recovery in its own name, starts a Worker once one
\* ended, and no other run changes a status that ends it.
EndedRepairStays ==
    [][/\ \A model \in models' \ models, earlier \in models :
             earlier[1] = model[1] => runs[earlier[2]].outcome = "none"
       /\ \A c \in comments :
             c.status \in {"complete", "failed", "blocked"} =>
                \E d \in comments' : d.marker = c.marker /\ d.run = c.run]_vars

\* A CI repair that was ended in its run, well or badly, is charged to the
\* budget of its branch.
EndedIsCharged ==
    \A c \in comments :
        c.status \in {"complete", "blocked"} /\ c.marker[1].kind = "ci"
           => Started(c.marker[1].head)
=============================================================================

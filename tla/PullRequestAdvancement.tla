----------------------- MODULE PullRequestAdvancement -----------------------
(***************************************************************************)
(* One pull request from its first push to its landing: the advancement    *)
(* runs that read its exact state and take one action (advance-pr.mjs,     *)
(* advancement-*.mjs), the review runs they dispatch (agent-review.mjs,    *)
(* publish-work-request.mjs, review-failure.mjs), the landing that rereads *)
(* everything before it merges (land-pr.mjs, landing-policy.mjs), and the  *)
(* recovery of failed review runs (recover-backlog.mjs).                   *)
(*                                                                         *)
(* Revisions are numbered; a pair is <<base, head>> and stands for the     *)
(* state version, since labels of the controller are no part of it.  A     *)
(* CheckRun is on a head and names the base its review run was for; it     *)
(* counts once that run has ended, and not if it was cancelled.            *)
(***************************************************************************)
EXTENDS Naturals, Sequences, FiniteSetsExt, Functions

CONSTANTS
    MaxHead,    \* bound on the heads that are pushed
    MaxBase,    \* bound on the revisions of the default branch
    Scenarios   \* what may happen besides, each bounded: pushes, moves of the
                \* base, faults (a run dies, a response is lost, a review fails
                \* or is deferred), labels people set, and verdicts of reviews;
                \* copies bounds the runs of one dispatch yet to appear

ASSUME AdvancementAssumption ==
    /\ MaxHead \in Nat \ {0} /\ MaxBase \in Nat \ {0}
    /\ Scenarios \subseteq [pushes : Nat, moves : Nat, faults : Nat, labels : Nat,
                            copies : Nat \ {0}, verdicts : SUBSET {"pass", "block", "retry", "pause"}]

VARIABLES
    pr,        \* the pull request as GitHub shows it
    ci,        \* result of the required check on each head
    checks,    \* agent/review CheckRuns on each head, oldest first
    reviewer,  \* the one review run its concurrency group lets live
    coming,    \* dispatched reviews whose runs have not appeared, counted
    receipts,  \* dispatched reviews whose runs can be found by request id
    failed,    \* pairs with a failed review run that was not recovered yet
    ledger,    \* Governor records that advancement reads, for each kind
    journal,   \* advancement records: the transitions marked applied
    wake,      \* the pending run of the advancement lane: the pair it expects
    run,       \* the running one
    issue,     \* the Issue the pull request closes, and the wake of the backlog
    left,      \* what of the scenario may still happen
    deferred   \* whether a review was ever deferred

github == <<pr, ci, issue>>
reviews == <<checks, reviewer, coming, receipts, failed>>
spent == <<left, deferred>>
vars == <<github, reviews, ledger, journal, wake, run, spent>>

Head1 == 1 .. MaxHead
Pair == (1 .. MaxBase) \X Head1
PairOf(p) == <<p.base, p.head>>
Current == PairOf(pr)

\* What an advancement transition is identified by: action and exact pair.
Identity == [action : {"review", "rereview", "repair", "landing"}, pair : Pair]
\* What a review is dispatched for; a recovery dispatches it without a journal.
ReviewRequest == [action : {"review", "rereview", "recovery"}, pair : Pair]

NoReviewer == [at |-> "idle", pair |-> <<1, 1>>]
NoRun == [at |-> "idle", pair |-> <<1, 1>>, action |-> "review",
          seen |-> [state |-> "open", base |-> 1, head |-> 1, mergeable |-> "unknown",
                    ready |-> FALSE, review |-> "missing", ci |-> "pending"]]

AdvancementInit ==
    /\ pr = [state |-> "open", base |-> 1, head |-> 1, upToDate |-> TRUE,
             mergeable |-> "unknown", ready |-> FALSE, paused |-> FALSE]
    /\ ci = [h \in Head1 |-> "pending"]
    /\ checks = [h \in Head1 |-> << >>]
    /\ reviewer = NoReviewer
    /\ coming = [r \in ReviewRequest |-> 0]
    /\ receipts = {}
    /\ failed = {}
    /\ ledger = [requested |-> {}, admitted |-> {}, recovering |-> {},
                 paused |-> FALSE, pauses |-> {}]
    /\ journal = {}
    /\ wake = {<<1, 1>>}
    /\ run = NoRun
    /\ issue = [closed |-> FALSE, woken |-> FALSE]
    /\ left \in Scenarios
    /\ deferred = FALSE

Use(what) == left[what] > 0 /\ left' = [left EXCEPT ![what] = @ - 1]

Spend(what) == Use(what) /\ UNCHANGED deferred
Defer == Use("faults") /\ deferred' = TRUE

-----------------------------------------------------------------------------
(* GitHub and its users                                                    *)

\* A later wake takes the place of the one that is pending.
Wake(base, head) == wake' = {<<base, head>>}

\* An author, or the update of a branch from its base, pushes a head.
Push ==
    /\ pr.state = "open" /\ pr.head < MaxHead /\ Spend("pushes")
    /\ \E upToDate \in {pr.upToDate, TRUE} :
          pr' = [pr EXCEPT !.head = @ + 1, !.upToDate = upToDate,
                           !.mergeable = "unknown"]
    /\ Wake(pr.base, pr.head + 1)
    /\ UNCHANGED <<ci, issue, reviews, ledger, journal, run>>

\* Another pull request lands.
MoveBase ==
    /\ pr.state = "open" /\ pr.base < MaxBase /\ Spend("moves")
    /\ pr' = [pr EXCEPT !.base = @ + 1, !.upToDate = FALSE,
                        !.mergeable = "unknown"]
    /\ UNCHANGED <<ci, issue, reviews, ledger, journal, wake, run>>

ResolveMergeability ==
    /\ pr.mergeable = "unknown"
    /\ \E m \in {"mergeable", "conflicting"} : pr' = [pr EXCEPT !.mergeable = m]
    /\ UNCHANGED <<ci, issue, reviews, ledger, journal, wake, run, spent>>

\* CI completes and wakes advancement by the head alone.
CompleteCi ==
    /\ ci[pr.head] = "pending"
    /\ \E result \in {"passed", "failed"} : ci' = [ci EXCEPT ![pr.head] = result]
    /\ Wake(0, pr.head)
    /\ UNCHANGED <<pr, issue, reviews, ledger, journal, run, spent>>

\* A trusted person asks for a review of the blocked head, or answers a pause,
\* which starts a new epoch of the ledger and takes the label away.
MarkReady ==
    /\ pr.state = "open" /\ ~pr.ready /\ checks[pr.head] # << >>
    /\ pr' = [pr EXCEPT !.ready = TRUE]
    /\ Wake(pr.base, pr.head)
    /\ Spend("labels")
    /\ UNCHANGED <<ci, issue, reviews, ledger, journal, run>>

Resume ==
    /\ ledger.paused
    /\ pr' = [pr EXCEPT !.paused = FALSE]
    /\ ledger' = [requested |-> {}, admitted |-> {}, recovering |-> {},
                  paused |-> FALSE, pauses |-> ledger.pauses]
    /\ Wake(pr.base, pr.head)
    /\ Spend("labels")
    /\ UNCHANGED <<ci, issue, reviews, journal, run>>

Newest(sequence) == sequence[Len(sequence)]

\* Mutant: the installed protection does not require an up-to-date branch.
MutantNotStrict(head) ==
    /\ pr.state = "open" /\ pr.head = head
    /\ pr.mergeable # "conflicting"
    /\ ci[head] = "passed"
    /\ checks[head] # << >> /\ Newest(checks[head]).verdict \in {"pass", "neutral"}

\* The branch protection that the installer sets: up to date with the base,
\* and the newest required checks of the head succeeded.  GitHub takes a neutral
\* one for success, as landing-policy.mjs does.
Protection(head) ==
    /\ pr.state = "open" /\ pr.head = head
    /\ pr.upToDate /\ pr.mergeable # "conflicting"
    /\ ci[head] = "passed"
    /\ checks[head] # << >> /\ Newest(checks[head]).verdict \in {"pass", "neutral"}

\* A person merges, or closes, the pull request.
Leave ==
    /\ \/ Protection(pr.head) /\ pr' = [pr EXCEPT !.state = "merged"]
       \/ pr.state = "open" /\ pr' = [pr EXCEPT !.state = "closed"]
    /\ UNCHANGED <<ci, issue, reviews, ledger, journal, wake, run, spent>>

\* reconcile-landing.mjs, every 15 minutes: each open pull request by its head.
Schedule ==
    /\ pr.state = "open" /\ wake = {}
    /\ Wake(0, pr.head)
    /\ UNCHANGED <<github, reviews, ledger, journal, run, spent>>

\* reconcile-reviews.mjs admits a requested repair (PullRequestGovernor), or
\* takes up a recovery that a review asked for, by a wake of advancement.
Admit ==
    /\ ~pr.paused /\ ~ledger.paused /\ pr.state = "open"
    /\ Current \in ledger.requested
    /\ ledger' = [ledger EXCEPT !.requested = @ \ {Current},
                                !.admitted = @ \union {Current}]
    /\ UNCHANGED <<github, reviews, journal, wake, run, spent>>

-----------------------------------------------------------------------------
(* Review runs                                                             *)

RequestReview(request) == coming' = [coming EXCEPT ![request] = @ + 1]

\* A run that ends without a verdict may be recovered.
EndedWithoutVerdict(r) ==
    IF r.at \in {"idle", "finishing"} THEN failed ELSE failed \union {r.pair}

AddCheck(pair, verdict, ran) ==
    checks' = [checks EXCEPT ![pair[2]] =
                  Append(@, [base |-> pair[1], verdict |-> verdict, ran |-> ran])]

\* The check of the running review is the newest of its base on the head: a
\* newer run would have cancelled this one.
CheckOf(pair) == Max({i \in DOMAIN checks[pair[2]] : checks[pair[2]][i].base = pair[1]})
SetCheck(pair, verdict, ran) ==
    checks' = [checks EXCEPT ![pair[2]][CheckOf(pair)].verdict = verdict,
                             ![pair[2]][CheckOf(pair)].ran = ran]

\* The run of a dispatched review appears and cancels the one that is running.
\* A check the cancelled run has started stays in progress.
Deliver ==
    \E request \in ReviewRequest :
        /\ coming[request] > 0
        /\ coming' = [coming EXCEPT ![request] = @ - 1]
        /\ receipts' = receipts \union {request}
        /\ failed' = EndedWithoutVerdict(reviewer)
        /\ checks' = IF reviewer.at \in {"checking", "publishing", "waking", "finishing"}
                     THEN [checks EXCEPT ![reviewer.pair[2]][CheckOf(reviewer.pair)].ran = "cancelled"]
                     ELSE checks
        /\ reviewer' = [at |-> "starting", pair |-> request.pair]
        /\ UNCHANGED <<github, ledger, journal, wake, run, spent>>

ReviewIsCurrent == pr.state = "open" /\ Current = reviewer.pair

\* A stale pair, or no usable workspace, fails the run: review-failure.mjs adds
\* a failed CheckRun that names no run attempt.
ReviewCannotStart ==
    /\ reviewer.at = "starting"
    /\ \/ ~ReviewIsCurrent /\ UNCHANGED spent
       \/ /\ ReviewIsCurrent /\ Spend("faults")
    /\ AddCheck(reviewer.pair, "unnamed", "ended")
    /\ failed' = failed \union {reviewer.pair}
    /\ reviewer' = NoReviewer
    /\ UNCHANGED <<github, coming, receipts, ledger, journal, wake, run>>

\* The workspace of the replica is leased: the run succeeds with nothing done.
ReviewDeferred ==
    /\ reviewer.at = "starting" /\ ReviewIsCurrent
    /\ Defer
    /\ reviewer' = NoReviewer
    /\ UNCHANGED <<github, checks, coming, receipts, failed, ledger, journal, wake, run>>

StartReview ==
    /\ reviewer.at = "starting" /\ ReviewIsCurrent
    /\ pr' = [pr EXCEPT !.ready = FALSE]
    /\ reviewer' = [reviewer EXCEPT !.at = "working"]
    /\ UNCHANGED <<ci, issue, checks, coming, receipts, failed, ledger, journal,
                   wake, run, spent>>

\* The Worker answers and its check is started; or all Workers are deferred for
\* capacity, which a neutral check records, and the run succeeds.
WorkerEnds ==
    /\ reviewer.at = "working"
    /\ \/ /\ AddCheck(reviewer.pair, "running", "live")
          /\ reviewer' = [reviewer EXCEPT !.at = "checking"]
          /\ UNCHANGED spent
       \/ /\ Defer
          /\ AddCheck(reviewer.pair, "neutral", "ended")
          /\ reviewer' = NoReviewer
    /\ UNCHANGED <<github, coming, receipts, failed, ledger, journal, wake, run>>

\* The pair is read again and the verdict completes the check.
CompleteReview ==
    /\ reviewer.at = "checking" /\ ReviewIsCurrent
    /\ \E verdict \in left.verdicts :
          /\ SetCheck(reviewer.pair, verdict, "live")
          /\ reviewer' = [reviewer EXCEPT
                 !.at = IF verdict = "pass" THEN "waking" ELSE "publishing"]
          /\ pr' = [pr EXCEPT !.ready = @ /\ verdict # "pass"]
    /\ UNCHANGED <<ci, issue, coming, receipts, failed, ledger, journal, wake, run, spent>>

\* The pair changed meanwhile, or the answer is unusable: the check fails.
ReviewFails ==
    /\ reviewer.at = "checking"
    /\ \/ ~ReviewIsCurrent /\ UNCHANGED spent
       \/ /\ Spend("faults")
    /\ SetCheck(reviewer.pair, "failed", "ended")
    /\ failed' = failed \union {reviewer.pair}
    /\ reviewer' = NoReviewer
    /\ UNCHANGED <<github, coming, receipts, ledger, journal, wake, run>>

\* publish-work-request.mjs: a blocking verdict asks for a repair, for another
\* review (a recovery), or for a pause, which the ledger records once for each
\* state and the label shows each time.  It throws on a stale pair.
Requested(verdict, pair) ==
    CASE verdict = "pause" ->
           [ledger EXCEPT !.paused = @ \/ pair \notin ledger.pauses,
                          !.pauses = @ \union {pair}]
      [] verdict # "pause" /\ ledger.paused -> ledger
      [] verdict = "block" /\ ~ledger.paused ->
           [ledger EXCEPT !.requested = @ \union ({pair} \ ledger.admitted)]
      [] verdict = "retry" /\ ~ledger.paused ->
           [ledger EXCEPT !.recovering = @ \union {pair}]

PublishVerdict ==
    LET pair == reviewer.pair
        verdict == checks[pair[2]][CheckOf(pair)].verdict
    IN  /\ reviewer.at = "publishing"
        /\ IF ReviewIsCurrent
           THEN /\ ledger' = Requested(verdict, pair)
                /\ pr' = [pr EXCEPT !.paused = @ \/ verdict = "pause"]
                /\ reviewer' = [reviewer EXCEPT !.at = "waking"]
           ELSE /\ reviewer' = [reviewer EXCEPT !.at = "finishing"]
                /\ UNCHANGED <<ledger, pr>>
        /\ UNCHANGED <<ci, issue, checks, coming, receipts, failed, journal, wake,
                       run, spent>>

\* review-advancement.mjs wakes advancement; then the run ends.
WakeAdvancement ==
    /\ reviewer.at = "waking"
    /\ Wake(reviewer.pair[1], reviewer.pair[2])
    /\ reviewer' = [reviewer EXCEPT !.at = "finishing"]
    /\ UNCHANGED <<github, checks, coming, receipts, failed, ledger, journal, run, spent>>

FinishReview ==
    /\ reviewer.at = "finishing"
    /\ checks' = [checks EXCEPT ![reviewer.pair[2]][CheckOf(reviewer.pair)].ran = "ended"]
    /\ reviewer' = NoReviewer
    /\ UNCHANGED <<github, coming, receipts, failed, ledger, journal, wake, run, spent>>

\* recover-backlog.mjs for a failed or cancelled review of the current pair:
\* the recovery is recorded as applied, once for each state, and the review
\* is dispatched again.  (What dies in between, and what the budget refuses, is
\* in PullRequestGovernor.)
Recover ==
    /\ Current \in failed /\ pr.state = "open" /\ ~pr.paused /\ ~ledger.paused
    /\ Current \notin ledger.recovering
    /\ failed' = failed \ {Current}
    /\ ledger' = [ledger EXCEPT !.recovering = @ \union {Current}]
    /\ pr' = [pr EXCEPT !.ready = TRUE]
    /\ RequestReview([action |-> "recovery", pair |-> Current])
    /\ UNCHANGED <<ci, issue, checks, reviewer, receipts, journal, wake, run, spent>>

ReviewNext ==
    \/ ReviewCannotStart \/ ReviewDeferred \/ StartReview \/ WorkerEnds
    \/ CompleteReview \/ ReviewFails \/ PublishVerdict \/ WakeAdvancement
    \/ FinishReview

-----------------------------------------------------------------------------
(* Advancement runs: one at a time, the next one pending                   *)

Continue(at) == run' = [run EXCEPT !.at = at]
\* A run that throws, defers or only reports leaves nothing else behind.
EndRun == run' = NoRun

\* A wake by the head alone names no run unless one open pull request has it.
StartAdvancement ==
    /\ run.at = "idle"
    /\ \E expected \in wake :
          run' = IF expected[1] = 0 /\ ~(pr.state = "open" /\ pr.head = expected[2])
                 THEN NoRun
                 ELSE [NoRun EXCEPT !.at = "reading", !.pair = expected]
    /\ wake' = {}
    /\ UNCHANGED <<github, reviews, ledger, journal, spent>>

\* readPullRequest, by an advancement and by the landing it starts.
SeenOf(p) == [state |-> p.state, base |-> p.base, head |-> p.head,
              mergeable |-> p.mergeable, ready |-> p.ready,
              review |-> "missing", ci |-> "pending"]

ReadPullRequest ==
    /\ run.at = "reading"
    /\ run' = [run EXCEPT !.at = "checking", !.seen = SeenOf(pr)]
    /\ UNCHANGED <<github, reviews, ledger, journal, wake, spent>>

\* The newest review of the pair that names its run attempt decides alone.
NewestNamed(pair) ==
    {i \in DOMAIN checks[pair[2]] :
        /\ checks[pair[2]][i].base = pair[1]
        /\ checks[pair[2]][i].verdict # "unnamed"}

ReviewState(pair) ==
    IF NewestNamed(pair) = {} THEN "missing"
    ELSE LET check == checks[pair[2]][Max(NewestNamed(pair))]
         IN  IF check.verdict = "running" \/ check.ran = "live" THEN "pending"
             ELSE IF check.ran = "cancelled" THEN "untrusted"
             ELSE CASE check.verdict = "pass" -> "pass"
                    [] check.verdict \in {"block", "retry", "pause"} -> "block"
                    [] OTHER -> "untrusted"

ReadChecks ==
    /\ run.at = "checking"
    /\ run' = [run EXCEPT !.at = "deciding",
                          !.seen.review = ReviewState(PairOf(run.seen)),
                          !.seen.ci = ci[run.seen.head]]
    /\ UNCHANGED <<github, reviews, ledger, journal, wake, spent>>

Expected(seen) == run.pair \in {PairOf(seen), <<0, seen.head>>}

\* decidePullRequestAdvancement, in its order; "wait" is any action that
\* changes nothing.
Decision(seen) ==
    LET pair == PairOf(seen)
    IN  IF ~Expected(seen) \/ seen.state # "open" \/ ledger.paused THEN "wait"
        ELSE IF pair \in ledger.requested THEN "repair"
        ELSE IF pair \in ledger.admitted \union ledger.recovering THEN "wait"
        ELSE IF seen.review = "block" THEN IF seen.ready THEN "rereview" ELSE "repair"
        ELSE IF seen.review = "untrusted" THEN "wait"
        ELSE IF seen.mergeable = "conflicting" THEN "repair"
        ELSE IF seen.mergeable = "unknown" \/ seen.ci = "failed" THEN "wait"
        ELSE IF seen.review = "missing" THEN "review"
        ELSE IF seen.review = "pending" \/ seen.ci # "passed" THEN "wait"
        ELSE "landing"

\* Mutant: a transition is marked when it is claimed, before its effect.
MutantMarkFirst ==
    LET action == Decision(run.seen)
        transition == [action |-> action, pair |-> PairOf(run.seen)]
    IN  /\ run.at = "deciding"
        /\ IF action = "wait" \/ transition \in journal
           THEN EndRun /\ UNCHANGED <<journal>>
           ELSE /\ journal' = journal \union {transition}
                /\ run' = [NoRun EXCEPT !.pair = transition.pair, !.action = action,
                                        !.at = "effect"]
        /\ UNCHANGED <<github, reviews, ledger, wake, spent>>

\* The Governor records are read last.  A transition marked applied is not
\* executed again.  A repair gets its candidate before it is claimed.
Decide ==
    LET action == Decision(run.seen)
        pair == PairOf(run.seen)
    IN  /\ run.at = "deciding"
        /\ run' = IF action = "wait" \/ [action |-> action, pair |-> pair] \in journal
                  THEN NoRun
                  ELSE [NoRun EXCEPT !.pair = pair, !.action = action,
                            !.at = IF action = "repair" /\ pair \notin ledger.requested
                                   THEN "candidate" ELSE "effect"]
        /\ UNCHANGED <<github, reviews, ledger, journal, wake, spent>>

WriteCandidate ==
    /\ run.at = "candidate"
    /\ ledger' = [ledger EXCEPT !.requested = @ \union {run.pair}]
    /\ Continue("effect")
    /\ UNCHANGED <<github, reviews, journal, wake, spent>>

Transition == [action |-> run.action, pair |-> run.pair]

\* dispatchWithReceipt: a review whose run exists is not dispatched again.  A
\* repair only wakes reconcile-reviews.mjs, which reads the ledger by itself.
Dispatch ==
    /\ run.at = "effect" /\ run.action # "landing"
    /\ IF run.action = "repair" \/ Transition \in receipts
       THEN Continue("applying") /\ UNCHANGED coming
       ELSE /\ coming[Transition] < left.copies
            /\ RequestReview(Transition)
            /\ Continue("polling")
    /\ UNCHANGED <<github, checks, reviewer, receipts, failed, ledger, journal,
                   wake, spent>>

\* The receipt is seen, or does not appear in time and the run ends.
Poll ==
    /\ run.at = "polling"
    /\ IF Transition \in receipts THEN Continue("applying") ELSE EndRun
    /\ UNCHANGED <<github, reviews, ledger, journal, wake, spent>>

\* land-pr.mjs, first read.  A merged pull request is only closed off.
StartLanding ==
    /\ run.at = "effect" /\ run.action = "landing"
    /\ IF pr.state = "merged"
       THEN IF pr.head = run.pair[2] THEN Continue("closing") ELSE EndRun
       ELSE IF pr.paused THEN EndRun
       ELSE run' = [run EXCEPT !.at = "evidence", !.seen = SeenOf(pr)]
    /\ UNCHANGED <<github, reviews, ledger, journal, wake, spent>>

\* The newest ended review of the base on the head, named or not.
EndedReviews(base, head) ==
    {i \in DOMAIN checks[head] : /\ checks[head][i].base = base
                                 /\ checks[head][i].ran # "live"
                                 /\ checks[head][i].verdict # "running"}

\* evaluateLanding.
Landable(seen, head) ==
    LET ended == EndedReviews(seen.base, head)
    IN  /\ seen.state = "open" /\ seen.head = head
        /\ seen.mergeable = "mergeable"
        /\ ended # {}
        /\ LET check == checks[head][Max(ended)]
           IN check.verdict = "pass" /\ check.ran = "ended"
        /\ ci[head] = "passed"

\* Mutant: a deferred landing counts as done.
MutantDeferredIsDone ==
    /\ run.at = "evidence"
    /\ IF Landable(run.seen, run.pair[2]) THEN Continue("rereading")
       ELSE Continue("applying")
    /\ UNCHANGED <<github, reviews, ledger, journal, wake, spent>>

\* A landing that is not ready is deferred: no mark, a later wake tries again.
ReadEvidence ==
    /\ run.at = "evidence"
    /\ IF Landable(run.seen, run.pair[2]) THEN Continue("rereading") ELSE EndRun
    /\ UNCHANGED <<github, reviews, ledger, journal, wake, spent>>

Reread ==
    /\ run.at = "rereading"
    /\ IF pr.paused \/ pr.base # run.seen.base THEN EndRun
       ELSE run' = [run EXCEPT !.at = "revalidating", !.seen = SeenOf(pr)]
    /\ UNCHANGED <<github, reviews, ledger, journal, wake, spent>>

Revalidate ==
    /\ run.at = "revalidating"
    /\ IF Landable(run.seen, run.pair[2])
       THEN run' = [NoRun EXCEPT !.at = "merging", !.pair = run.pair, !.action = run.action]
       ELSE EndRun
    /\ UNCHANGED <<github, reviews, ledger, journal, wake, spent>>

\* The merge is pinned to the head alone; GitHub holds it to the protection.
\* The response may be lost.
Merge ==
    /\ run.at = "merging"
    /\ IF Protection(run.pair[2])
       THEN /\ pr' = [pr EXCEPT !.state = "merged"]
            /\ \/ Continue("closing") /\ UNCHANGED spent
               \/ /\ Spend("faults")
                  /\ Continue("settling")
       ELSE Continue("settling") /\ UNCHANGED <<pr, spent>>
    /\ UNCHANGED <<ci, issue, reviews, ledger, journal, wake>>

\* reconcileConcurrentMerge.
Settle ==
    /\ run.at = "settling"
    /\ IF pr.state = "merged" /\ pr.head = run.pair[2] THEN Continue("closing") ELSE EndRun
    /\ UNCHANGED <<github, reviews, ledger, journal, wake, spent>>

\* closeLinkedIssues: the Issue is closed, then the backlog is woken.
CloseIssue ==
    /\ run.at = "closing" /\ ~issue.closed
    /\ issue' = [issue EXCEPT !.closed = TRUE]
    /\ UNCHANGED <<pr, ci, reviews, ledger, journal, wake, run, spent>>

WakeBacklog ==
    /\ run.at = "closing" /\ issue.closed
    /\ issue' = [issue EXCEPT !.woken = TRUE]
    /\ Continue("applying")
    /\ UNCHANGED <<pr, ci, reviews, ledger, journal, wake, spent>>

MarkApplied ==
    /\ run.at = "applying"
    /\ journal' = journal \union {Transition}
    /\ EndRun
    /\ UNCHANGED <<github, reviews, ledger, wake, spent>>

Die ==
    /\ run.at # "idle" /\ Spend("faults")
    /\ EndRun
    /\ UNCHANGED <<github, reviews, ledger, journal, wake>>

AdvanceNext ==
    \/ StartAdvancement \/ ReadPullRequest \/ ReadChecks \/ Decide
    \/ WriteCandidate \/ Dispatch \/ Poll
    \/ StartLanding \/ ReadEvidence \/ Reread \/ Revalidate \/ Merge
    \/ Settle \/ CloseIssue \/ WakeBacklog \/ MarkApplied

Next ==
    \/ Push \/ MoveBase \/ ResolveMergeability \/ CompleteCi \/ MarkReady
    \/ Resume \/ Leave \/ Schedule \/ Admit
    \/ Deliver \/ ReviewNext \/ Recover
    \/ AdvanceNext \/ Die

\* GitHub runs what is queued, resolves mergeability, CI ends and the schedule
\* of reconcile-landing.mjs comes around; a review ends within its timeout.
Fairness ==
    /\ WF_vars(AdvanceNext) /\ WF_vars(ReviewNext) /\ WF_vars(Deliver)
    /\ WF_vars(Schedule) /\ WF_vars(Recover)
    /\ WF_vars(CompleteCi) /\ WF_vars(ResolveMergeability)

Spec == AdvancementInit /\ [][Next]_vars
FairSpec == Spec /\ Fairness

-----------------------------------------------------------------------------
(* Properties                                                              *)

\* What landing merges was reviewed as it is merged: a review of exactly the
\* current base and head passed, and CI of that head, although the merge request
\* names the head alone (land-pr.mjs:265-290) and base, checks and labels go on
\* changing after the evidence was read.
MergedIsReviewed ==
    [][(run.at = "merging" /\ pr.state = "open" /\ pr'.state = "merged") =>
          \/ run' = run  \* a person merges meanwhile
          \/ /\ ci[pr.head] = "passed"
             /\ \E c \in Range(checks[pr.head]) : c.base = pr.base /\ c.verdict = "pass"]_vars

\* What is recorded as applied has happened.  A landing: merged, its Issue closed
\* and the backlog woken, since the record of one that was deferred or cut short
\* would keep every later wake from landing (advancement-runtime.mjs:143).  A
\* review: its run exists, so that after a death or a lost dispatch a later wake
\* dispatches it (dispatch-receipt.mjs:10-17).
AppliedHappened ==
    \A t \in journal :
        /\ t.action = "landing" => pr.state = "merged" /\ issue.closed /\ issue.woken
        /\ t.action \in {"review", "rereview"} => t \in receipts

\* The pull request could be merged, and nothing of the Governor is open on it.
Idle(pair) == pair \notin ledger.requested \union ledger.admitted \union ledger.recovering
Mergeable == Protection(pr.head) /\ Landable(SeenOf(pr), pr.head)
                /\ ~pr.paused /\ ~ledger.paused
                /\ ReviewState(Current) = "pass"
Ready == Mergeable /\ Idle(Current)

\* Waiting for its review, none of its reviews deferred yet.
Unreviewed ==
    /\ pr.state = "open" /\ ~pr.paused /\ ~ledger.paused /\ Idle(Current)
    /\ pr.mergeable = "mergeable" /\ ci[pr.head] # "failed"
    /\ ReviewState(Current) = "missing" /\ ~deferred

\* A pull request does not wait for good: whatever run died and whichever wake
\* was lost, one that waits for its review gets it (the second run of a pair is
\* found by its receipt, a failed one is recovered), and one that passed it is
\* landed, unless something about it changes.
NothingWaits == (Unreviewed ~> ~Unreviewed) /\ (Ready ~> ~Ready)

\* As NothingWaits, also for a pull request whose failed review was recovered
\* (README.md:162: "closes deferred landing states and recovers bounded
\* infrastructure failures").
RecoveredIsLanded == Mergeable ~> ~Mergeable
=============================================================================

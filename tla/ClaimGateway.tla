---------------------------- MODULE ClaimGateway ----------------------------
(***************************************************************************)
(* acquireTaskClaimThroughGateway of src/coordinator-v2/claim-gateway.mjs, *)
(* as runClaimWorkflow drives it: a workflow run reads the Issue, then its *)
(* dependencies, open pull requests and comments in any order, decides,    *)
(* writes its claim comment, reads everything again and answers.  Nothing  *)
(* stands still meanwhile: the Issue is edited, closed or reopened, pull   *)
(* requests open and close, dependencies close, leases run out.            *)
(*                                                                         *)
(* The workflow's concurrency group runs one run per Issue at a time       *)
(* (.github/workflows/coordinator-v2-claim.yml:33-35) and its job limit    *)
(* ends a run (line 43).  Every request is aborted after 30 seconds by its *)
(* client, which says nothing of what GitHub did with it: a write may have *)
(* happened, may be lost, or may happen later, when another run is at work.*)
(***************************************************************************)
EXTENDS TaskClaim

CONSTANTS
    None,          \* no request, no claim
    Run,           \* dispatched workflow runs
    PullRequest,   \* pull requests that may reference the Issue
    IssueVersion,  \* what people make of the Issue
    FirstIssue,    \* the Issue as it is opened
    JobLimit,      \* timeout-minutes of the job, in clock units
    MaxChanges,    \* bound on what people do to the Issue
    MaxStrays      \* bound on writes that outlive their client

ClaimRequest == [task : Task, claimant : Claimant, lease : Lease]
ClaimComment == [claim : TaskClaim, source : Run]

ASSUME ClaimGatewayAssumption ==
    /\ FirstIssue \in IssueVersion
    /\ IssueVersion \subseteq IssueObservation
    /\ None \notin TaskClaim /\ None \notin ClaimRequest
    /\ JobLimit \in Nat /\ MaxChanges \in Nat /\ MaxStrays \in Nat

VARIABLES
    clock,      \* time
    issue,      \* the Issue
    closed,     \* the dependencies that are closed
    pulls,      \* open pull requests that close the Issue
    comments,   \* comments of the claim App on the Issue, oldest first
    delayed,    \* writes GitHub still holds although their client gave up
    run,        \* the workflow runs
    changes,    \* how often the Issue, its dependencies or PRs changed
    epoch,      \* how often the declaration changed
    strays      \* delayed writes that happened after all

world == <<issue, closed, pulls, changes, epoch>>
vars == <<clock, issue, closed, pulls, comments, delayed, run, changes, epoch,
          strays>>

-----------------------------------------------------------------------------
Part == {"dependencies", "pulls", "comments"}

Outcome == {"none", "blocked", "ineligible", "existing", "busy", "acquired"}

\* A run nobody dispatched: pc is the await it stands at, the fields up to
\* pending its snapshot, target the comment it writes (0: a new one), epoch,
\* duplicated and wroteAt what the properties remember of it.
QueuedRun ==
    [pc |-> "queued", verifying |-> FALSE, now |-> 0, request |-> None,
     issue |-> FirstIssue, closed |-> {}, pulls |-> {}, comments |-> <<>>,
     pending |-> {}, target |-> 0, claim |-> None, status |-> "none",
     epoch |-> 0, duplicated |-> FALSE, wroteAt |-> 0]

Active(r) == run[r].pc \notin {"queued", "done"}

Init ==
    /\ clock = 0
    /\ issue = FirstIssue
    /\ closed = {}
    /\ pulls = {}
    /\ comments = <<>>
    /\ delayed = {}
    /\ run = [r \in Run |-> QueuedRun]
    /\ changes = 0
    /\ epoch = 0
    /\ strays = 0

\* What is kept of a run that answered: the claim it holds, if any.
Answered(q, status, claim) ==
    [QueuedRun EXCEPT !.pc = "done", !.status = status, !.claim = claim,
                      !.epoch = IF claim = None THEN 0 ELSE q.epoch,
                      !.duplicated = q.duplicated]

Answer(r, status, claim) ==
    run' = [run EXCEPT ![r] = Answered(@, status, claim)]

-----------------------------------------------------------------------------
(* GitHub and the people working there.                                    *)

Tick ==
    /\ clock < MaxTime
    /\ \A r \in Run : Active(r) => clock - run[r].now < JobLimit
    /\ clock' = clock + 1
    /\ UNCHANGED <<world, comments, delayed, run, strays>>

Change == changes < MaxChanges /\ changes' = changes + 1

EditIssue ==
    /\ Change
    /\ \E next \in IssueVersion \ {issue} :
          /\ issue' = next
          /\ epoch' = IF next.body = issue.body THEN epoch ELSE epoch + 1
    /\ UNCHANGED <<clock, closed, pulls, comments, delayed, run, strays>>

ChangeDependency ==
    /\ Change
    /\ \E d \in Dependency :
          closed' = IF d \in closed THEN closed \ {d} ELSE closed \cup {d}
    /\ UNCHANGED <<clock, issue, pulls, comments, delayed, run, epoch, strays>>

ChangePullRequest ==
    /\ Change
    /\ \E p \in PullRequest :
          pulls' = IF p \in pulls THEN pulls \ {p} ELSE pulls \cup {p}
    /\ UNCHANGED <<clock, issue, closed, comments, delayed, run, epoch, strays>>

\* What a create (id 0) or an update request leaves in the thread.
Written(id, comment) ==
    IF id = 0 THEN Append(comments, comment)
              ELSE [comments EXCEPT ![id] = comment]

WriteArrivesLate ==
    \E w \in delayed :
        /\ comments' = Written(w.id, w.comment)
        /\ delayed' = delayed \ {w}
        /\ strays' = strays + 1
        /\ UNCHANGED <<clock, world, run>>

-----------------------------------------------------------------------------
(* The workflow run.                                                       *)

\* runClaimWorkflow takes the time once, before its first request.
Start(r) ==
    /\ run[r].pc = "queued"
    /\ \A s \in Run : ~Active(s)
    /\ \E q \in ClaimRequest :
          run' = [run EXCEPT ![r] =
                    [QueuedRun EXCEPT !.pc = "issue", !.now = clock,
                                      !.request = q, !.epoch = epoch,
                                      !.duplicated = Len(comments) > 1]]
    /\ UNCHANGED <<clock, world, comments, delayed, strays>>

ReadIssue(r) ==
    /\ run[r].pc = "issue"
    /\ run' = [run EXCEPT ![r].pc = "related", ![r].issue = issue,
                          ![r].pending = Part]
    /\ UNCHANGED <<clock, world, comments, delayed, strays>>

\* The requests of readTaskSnapshot's Promise.all, answered in any order.
ReadRelated(r) ==
    /\ run[r].pc = "related"
    /\ \E part \in run[r].pending :
          LET read == [run[r] EXCEPT !.pending = @ \ {part}] IN
          run' = [run EXCEPT ![r] =
              CASE part = "dependencies" ->
                     [read EXCEPT !.closed = closed \cap read.issue.body.dependsOn]
                [] part = "pulls"        -> [read EXCEPT !.pulls = pulls]
                [] part = "comments"     -> [read EXCEPT !.comments = comments]]
    /\ UNCHANGED <<clock, world, comments, delayed, strays>>

\* A request fails or times out, or the run a comment names as its source
\* cannot be loaded: the answer is blocked in either snapshot.
ReadFails(r) ==
    /\ run[r].pc \in {"issue", "related"}
    /\ Answer(r, "blocked", None)
    /\ UNCHANGED <<clock, world, comments, delayed, strays>>

Snapshot(r) == run[r].pc = "related" /\ run[r].pending = {}

\* A bug to catch: a claim is always written to a new comment.
MutantAlwaysCreate(selection) == 0

\* An authenticated comment is replaced, else one is created.
WriteTarget(selection) == IF selection = "authenticated" THEN 1 ELSE 0

Decide(r) ==
    LET q == run[r]
        eligibility == TaskEligibility(q.issue, q.closed, q.pulls)
        selection == SelectComment(q.comments)
        action == Acquisition(q.comments, q.request.task, q.request.claimant,
                              q.now)
        ready == /\ eligibility = "ready"
                 /\ q.issue.body = q.request.task
    IN  /\ Snapshot(r) /\ ~q.verifying
        /\ \/ /\ ~ReadableSnapshot(q.pulls) \/ eligibility = "invalid"
              /\ Answer(r, "blocked", None)
           \/ /\ ReadableSnapshot(q.pulls)
              /\ eligibility # "invalid" /\ ~ready
              /\ Answer(r, "ineligible", None)
           \/ /\ ReadableSnapshot(q.pulls) /\ ready
              /\ selection = "invalid" \/ action = "blocked"
              /\ Answer(r, "blocked", None)
           \/ /\ ReadableSnapshot(q.pulls) /\ ready
              /\ selection # "invalid" /\ action = "existing"
              /\ Answer(r, "existing", q.comments[1].claim)
           \/ /\ ReadableSnapshot(q.pulls) /\ ready
              /\ selection # "invalid" /\ action = "busy"
              /\ Answer(r, "busy", None)
           \/ /\ ReadableSnapshot(q.pulls) /\ ready
              /\ selection # "invalid" /\ action = "create"
              /\ run' = [run EXCEPT
                    ![r].pc = "write",
                    ![r].target = WriteTarget(selection),
                    ![r].claim = CreateTaskClaim(q.request.task,
                                     q.request.claimant, q.now, q.request.lease)]
        /\ UNCHANGED <<clock, world, comments, delayed, strays>>

Intended(r) == [claim |-> run[r].claim, source |-> r]

\* GitHub stores the comment; its id comes back, and the second snapshot
\* begins, or the response is lost and the run answers blocked.
WriteComment(r) ==
    /\ run[r].pc = "write"
    /\ comments' = Written(run[r].target, Intended(r))
    /\ \/ run' = [run EXCEPT ![r].pc = "issue", ![r].verifying = TRUE,
                             ![r].target = IF @ = 0 THEN Len(comments') ELSE @,
                             ![r].wroteAt = changes]
       \/ Answer(r, "blocked", None)
    /\ UNCHANGED <<clock, world, delayed, strays>>

\* The write fails, or its client gives up while GitHub still holds it.
WriteFails(r) ==
    /\ run[r].pc = "write"
    /\ \/ UNCHANGED delayed
       \/ /\ strays + Cardinality(delayed) < MaxStrays
          /\ delayed' = delayed \cup
                {[id |-> run[r].target, comment |-> Intended(r)]}
    /\ Answer(r, "blocked", None)
    /\ UNCHANGED <<clock, world, comments, strays>>

\* The reread must show the task ready and the one comment exactly as written.
Verify(r) ==
    LET q == run[r]
        verified == /\ TaskReady(q.issue, q.closed, q.pulls)
                    /\ q.issue.body = q.request.task
                    /\ SelectComment(q.comments) = "authenticated"
                    /\ q.target = 1
                    /\ q.comments[1] = Intended(r)
    IN  /\ Snapshot(r) /\ q.verifying
        /\ \/ verified /\ Answer(r, "acquired", q.claim)
           \/ ~verified /\ Answer(r, "blocked", None)
        /\ UNCHANGED <<clock, world, comments, delayed, strays>>

\* The job limit, an operator or the runner's end stops a run anywhere.  It
\* answers nothing, which leaves its claimant where a blocked answer does.
Cancel(r) ==
    /\ Active(r)
    /\ Answer(r, "blocked", None)
    /\ UNCHANGED <<clock, world, comments, delayed, strays>>

-----------------------------------------------------------------------------
Step(r) ==
    \/ Start(r) \/ ReadIssue(r) \/ ReadRelated(r) \/ ReadFails(r) \/ Decide(r)
    \/ WriteComment(r) \/ WriteFails(r) \/ Verify(r) \/ Cancel(r)

Next ==
    \/ Tick \/ EditIssue \/ ChangeDependency \/ ChangePullRequest
    \/ WriteArrivesLate
    \/ \E r \in Run : Step(r)

Spec == Init /\ [][Next]_vars
-----------------------------------------------------------------------------
\* No write happened after its run had ended.
Undisturbed == strays = 0

\* The run was told that its claimant holds a claim, and its lease runs.
Holds(r) ==
    /\ run[r].status \in {"acquired", "existing"}
    /\ clock < run[r].claim.expiresAt

\* Lost responses, cancelled runs and repeated dispatches never make a second
\* claim comment: a run finds the one a predecessor wrote without being told
\* (docs/coordinator-v2.md "Two distinct comments from the dedicated App
\* conflict" would otherwise block the Issue for good).
OneClaimComment == Undisturbed => Len(comments) <= 1

\* Among the runs dispatched while the declaration stood unchanged, all that
\* hold a running claim hold it for one claimant: reads and the write of a
\* run are separate requests, yet no two Agents are told the task is theirs.
TaskExclusive ==
    Undisturbed =>
        \A r, s \in Run :
            /\ Holds(r) /\ Holds(s)
            /\ run[r].claim.task = run[s].claim.task
            /\ run[r].epoch = run[s].epoch
            => run[r].claim.claimant = run[s].claim.claimant

\* While the declaration stands, a claim an Agent was told it holds stays in
\* the thread until it expires: no later run replaces, renews or duplicates it.
HeldClaimPublished ==
    Undisturbed =>
        \A r \in Run :
            Holds(r) /\ run[r].epoch = epoch
            => Len(comments) = 1 /\ comments[1].claim = run[r].claim

\* Once a write that outlived its run has left two claim comments, every run
\* dispatched from then on is refused: none believes either of them.
DuplicatesFailClosed ==
    \A r \in Run :
        run[r].duplicated => run[r].status \notin {"acquired", "existing", "busy"}

\* A run acquires only a task that is ready at that moment, unless something
\* changed since its comment was written: open, trusted, declared ready, no
\* open pull request, all dependencies closed.
AcquiredReadyTask ==
    [][\A r \in Run :
        /\ run[r].status # "acquired" /\ run'[r].status = "acquired"
        /\ run[r].wroteAt = changes
        => /\ issue.open /\ issue.trusted
           /\ issue.body = run'[r].claim.task
           /\ issue.body.dispatch = "ready"
           /\ issue.body.dependsOn \subseteq closed
           /\ pulls = {}]_vars
=============================================================================

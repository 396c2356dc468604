----------------------------- MODULE TaskClaim -----------------------------
(***************************************************************************)
(* The pure policies Coordinator V2 decides a claim with: task eligibility *)
(* (src/coordinator-v2/task-policy.mjs), the selection of the authenticated*)
(* claim comment (claim-comment.mjs) and the acquisition decision          *)
(* (claim-policy.mjs).                                                     *)
(*                                                                         *)
(* One target Issue is modelled, so a claim's repository and Issue number  *)
(* are left out.  A task identity is the digest of the normalized          *)
(* declaration: the declaration itself stands for it.  Only comments of    *)
(* the dedicated App appear; all others are filtered out unread.           *)
(***************************************************************************)
EXTENDS Naturals, Sequences, FiniteSets

CONSTANTS
    Dependency,   \* the Issues a declaration may depend on
    Body,         \* the Issue bodies considered
    Claimant,     \* Agent runtime identities
    Lease,        \* CLAIM_LEASE_SECONDS, in clock units
    MaxTime       \* bound on the clock

ASSUME TaskClaimAssumption ==
    /\ Body \subseteq [kind : {"missing", "malformed", "task"},
                       dispatch : {"ready", "hold"},
                       dependsOn : SUBSET Dependency]
    /\ Lease \subseteq Nat \ {0}
    /\ MaxTime \in Nat

\* The declarations parseTaskDeclaration accepts, each its own identity.
Task == {b \in Body : b.kind = "task"}

IssueObservation == [body : Body, open : BOOLEAN, trusted : BOOLEAN]

\* A ClaimProjection; its claimId is a digest of these fields.
TaskClaim ==
    [task : Task, claimant : Claimant,
     createdAt : Nat, expiresAt : Nat]

-----------------------------------------------------------------------------
\* decideTaskEligibility, in the order of its returns.
TaskEligibility(issue, closed, pulls) ==
    IF ~issue.open                              THEN "terminal"
    ELSE IF ~issue.trusted                      THEN "invalid"
    ELSE IF issue.body.kind = "malformed"       THEN "invalid"
    ELSE IF issue.body.kind = "missing"         THEN "ineligible"
    ELSE IF issue.body.dispatch = "hold"        THEN "hold"
    ELSE IF pulls # {}                          THEN "active"
    ELSE IF ~(issue.body.dependsOn \subseteq closed) THEN "waiting"
    ELSE "ready"

\* normalizeSnapshot refuses a task with several open pull requests.
ReadableSnapshot(pulls) == Cardinality(pulls) <= 1

\* A bug to catch: the open pull request of the snapshot is not looked at.
MutantIgnorePullRequest(issue, closed, pulls) ==
    /\ issue.open /\ issue.trusted
    /\ issue.body.kind = "task" /\ issue.body.dispatch = "ready"
    /\ issue.body.dependsOn \subseteq closed

\* The snapshot shows the expected task ready.
TaskReady(issue, closed, pulls) ==
    ReadableSnapshot(pulls) /\ TaskEligibility(issue, closed, pulls) = "ready"

-----------------------------------------------------------------------------
\* A bug to catch: of several comments of the App the first is trusted.
MutantFirstComment(comments) == IF comments = <<>> THEN "none" ELSE "authenticated"

\* selectClaimCommentObservation: two comments of the App never authenticate.
SelectComment(comments) ==
    CASE Len(comments) = 0 -> "none"
      [] Len(comments) = 1 -> "authenticated"
      [] Len(comments) > 1 -> "invalid"

\* A bug to catch: a claim does not count in the instant it was created.
MutantCreatedNow(claim, task, now) ==
    claim.task = task /\ claim.createdAt < now /\ now < claim.expiresAt

\* selectTaskClaim skips claims of other tasks and expired ones.
CurrentClaim(claim, task, now) == claim.task = task /\ now < claim.expiresAt

\* createTaskClaim
CreateTaskClaim(task, claimant, now, lease) ==
    [task |-> task, claimant |-> claimant,
     createdAt |-> now, expiresAt |-> now + lease]

\* A bug to catch: the same claimant renews instead of observing its claim.
MutantRenew(comments, task, claimant, now) ==
    IF \E i \in DOMAIN comments : /\ CurrentClaim(comments[i].claim, task, now)
                                  /\ comments[i].claim.claimant # claimant
    THEN "busy" ELSE "create"

\* The claims of the task that run.  Those made after the observation time are
\* a clock anomaly.
CurrentClaims(comments, task, now) ==
    {i \in DOMAIN comments : CurrentClaim(comments[i].claim, task, now)}
FutureClaims(comments, task, now) ==
    {i \in DOMAIN comments : comments[i].claim.task = task /\ now < comments[i].claim.createdAt}

\* decideClaimAcquisition on what selectTaskClaim found.
Acquisition(comments, task, claimant, now) ==
    LET current == CurrentClaims(comments, task, now)
    IN  IF FutureClaims(comments, task, now) # {} THEN "blocked"
        ELSE IF current = {} THEN "create"
        ELSE IF \A i \in current : comments[i].claim.claimant = claimant
             THEN "existing" ELSE "busy"
=============================================================================

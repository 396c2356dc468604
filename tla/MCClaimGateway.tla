--------------------------- MODULE MCClaimGateway ---------------------------
(***************************************************************************)
(* A small instance of ClaimGateway: an Issue whose declaration people may *)
(* make depend on another Issue, one pull request and two competing Agents.*)
(***************************************************************************)
EXTENDS ClaimGateway, TLC

CONSTANTS dep

FreeTask    == [kind |-> "task", dispatch |-> "ready", dependsOn |-> {}]
WaitingTask == [kind |-> "task", dispatch |-> "ready", dependsOn |-> {dep}]

DependencyValue == {dep}
Bodies == {FreeTask, WaitingTask}
OpenedIssue == [body |-> FreeTask, open |-> TRUE, trusted |-> TRUE]
Versions == {OpenedIssue,
             [OpenedIssue EXCEPT !.body = WaitingTask],
             [OpenedIssue EXCEPT !.open = FALSE],
             [OpenedIssue EXCEPT !.trusted = FALSE]}

Interchangeable == Permutations(Run) \cup Permutations(Claimant)
=============================================================================

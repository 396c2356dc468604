---------------------- MODULE MCPullRequestAdvancement ----------------------
(***************************************************************************)
(* Instances of PullRequestAdvancement for TLC.                            *)
(***************************************************************************)
EXTENDS PullRequestAdvancement

Scenario(pushes, moves, faults, labels, copies, verdicts) ==
    [pushes |-> pushes, moves |-> moves, faults |-> faults, labels |-> labels,
     copies |-> copies, verdicts |-> verdicts]

\* The base moves; people answer a block or a pause; reviews fail, are deferred
\* and runs die, twice; a review is dispatched twice; a head is pushed under a
\* review that never answers.
Lives == {
    Scenario(0, 1, 0, 0, 1, {"pass"}),
    Scenario(0, 0, 0, 2, 1, {"pass", "block", "retry", "pause"}),
    Scenario(0, 0, 2, 0, 1, {"pass", "block"}),
    Scenario(0, 0, 0, 0, 2, {"pass"}),
    Scenario(1, 0, 0, 0, 1, {})}

\* A review fails once.
Fails == {Scenario(0, 0, 1, 0, 1, {"pass"})}
=============================================================================

----------------------- MODULE MCPullRequestGovernor -----------------------
(* Instances: which runs meet on one pull request.                         *)
EXTENDS PullRequestGovernor

OneEach == [b \in Budget |-> 1]

Plan(kinds, triggers, versions) ==
    [kind |-> kinds, trigger |-> triggers, versions |-> versions]

\* Repairs requested for a conflict of each state, reconciled in turn; the
\* budget is exhausted, resumed and used again.
Repairs == Plan(<<"conflict", "conflict", "conflict", "resume",
                  "reconcile", "reconcile", "reconcile">>,
                <<1, 2, 3, 4, 5, 6, 7>>, 3)

\* The other programs beside them; the rework run is repeated for the same
\* comment, and one CI run failed twice.
Mixed == Plan(<<"rework", "rework", "reconcile", "recover", "ci", "ci">>,
              <<1, 1, 1, 4, 1, 1>>, 1)

\* A review asks for a repair beside a comment that asks for one.
Reviewed == Plan(<<"advance", "rework", "reconcile", "reconcile">>,
                 <<1, 2, 3, 4>>, 1)

\* A pause is answered by two comments.
Answers == Plan(<<"recover", "recover", "resume", "resume">>, <<1, 2, 3, 4>>, 1)

EveryPlan == {Repairs, Mixed, Reviewed, Answers}
=============================================================================

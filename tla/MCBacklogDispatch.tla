------------------------- MODULE MCBacklogDispatch -------------------------
(***************************************************************************)
(* Small instances of BacklogDispatch, and the search of the dependency    *)
(* graph against what it finds, over every snapshot of three Issues.       *)
(***************************************************************************)
EXTENDS BacklogDispatch

Search == INSTANCE IssueGraphSearch

Numbers == 1 .. 3
\* 4 is a number that is no Issue, or a pull request.
Entries == {e \in Entry(1 .. 4) : e.declares = "work" \/ e.dependsOn = {}}

\* The depth first search and its propagation reject what they should.
ASSUME SearchAgrees ==
    \A s \in [Numbers -> Entries] : Rejected(s) = Search!SearchRejected(s)

\* And no accepted open Issue waits for Issues that all wait themselves.
ASSUME NobodyWaitsForever ==
    \A s \in [Numbers -> Entries] : \A i \in Numbers \ Rejected(s) :
        s[i].state = "open" /\ OpenDependencies(s, i) # {} =>
            \E j \in Prerequisites(s, i) \ Rejected(s) : OpenDependencies(s, j) = {}

MCIssues == 1 .. 2
MCVersions == 1 .. 3
Ready == [declares |-> "work", ready |-> TRUE, dependsOn |-> {}]
\* The second version changes the prose only, the third waits for Issue 1.
MCDeclarationOf == << Ready, Ready, [Ready EXCEPT !.dependsOn = {1}] >>

None == [backlog |-> MCIssues, edits |-> 0, labels |-> 0, states |-> 0, moves |-> 0,
         faults |-> 0, deferrals |-> 0]

\* Something happens once to two Issues, and more to one of them.
MCScenarios ==
    {[None EXCEPT !.faults = 1], [None EXCEPT !.edits = 1], [None EXCEPT !.labels = 1],
     [None EXCEPT !.moves = 1, !.deferrals = 1],
     [None EXCEPT !.backlog = {1}, !.states = 2],
     [None EXCEPT !.backlog = {1}, !.edits = 1, !.labels = 2],
     [None EXCEPT !.backlog = {1}, !.moves = 1, !.faults = 2]}

\* One Issue, whose Worker may fail.
MCFailing == {[None EXCEPT !.backlog = {1}]}
=============================================================================

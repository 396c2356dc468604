-------------------------- MODULE IssueGraphSearch --------------------------
(***************************************************************************)
(* The search of issue-dependency-graph.mjs as the code makes it: a depth  *)
(* first visit of the open Issues in the order of their numbers, marking   *)
(* the part of the stack each back edge closes, and then a propagation     *)
(* from rejected Issues to those that wait for them.                       *)
(***************************************************************************)
EXTENDS IssueGraph, Sequences, SequencesExt, Folds

Ascending(S) == SetToSortSeq(S, LAMBDA a, b : a < b)

\* markCycles: what a back edge to number closes on the stack, unless it is
\* rejected already.
StackFrom(stack, number) ==
    LET start == CHOOSE p \in DOMAIN stack : stack[p] = number
    IN  {stack[p] : p \in start .. Len(stack)}

RECURSIVE Visit(_, _, _, _)
\* visit: the search state is the numbers visited and those rejected.
Visit(snapshot, search, stack, number) ==
    IF number \in {stack[p] : p \in DOMAIN stack}
    THEN [search EXCEPT !.rejected = @ \union StackFrom(stack, number)]
    ELSE IF number \in search.visited
    THEN search
    ELSE LET deeper == Append(stack, number)
             below == FoldLeft(LAMBDA s, d : Visit(snapshot, s, deeper, d),
                               search, Ascending(OpenEdges(snapshot, number)))
         IN  [below EXCEPT !.visited = @ \union {number}]

Searched(snapshot) ==
    LET searchable == {i \in DOMAIN snapshot :
            snapshot[i].state = "open" /\ ValidDeclaration(snapshot, i)}
        Start == [visited |-> {}, rejected |-> Malformed(snapshot)]
    IN  FoldLeft(LAMBDA s, i : Visit(snapshot, s, << >>, i),
                 Start, Ascending(searchable)).rejected

RECURSIVE Propagated(_, _)
\* One pass after another in the order of the numbers, until one adds nothing.
Propagated(snapshot, rejected) ==
    LET Mark(marked, i) ==
            IF OpenDependencies(snapshot, i) \cap marked # {}
            THEN marked \union {i}
            ELSE marked
        pass == FoldLeft(Mark, rejected, Ascending(DOMAIN snapshot))
    IN  IF pass = rejected THEN rejected ELSE Propagated(snapshot, pass)

SearchRejected(snapshot) == Propagated(snapshot, Searched(snapshot))
=============================================================================

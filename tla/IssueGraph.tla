----------------------------- MODULE IssueGraph -----------------------------
(***************************************************************************)
(* What the dependency graph of issue-dependency-graph.mjs says of one     *)
(* snapshot of the Issues of a repository, without saying how it is        *)
(* searched (IssueGraphSearch is the search).                              *)
(*                                                                         *)
(* A snapshot is a function from Issue numbers; an entry is the state of   *)
(* the Issue, what its body declares, and the numbers it depends on.       *)
(***************************************************************************)
EXTENDS Naturals

Entry(numbers) ==
    [state : {"open", "closed"},
     declares : {"nothing", "malformed", "work"},
     dependsOn : SUBSET numbers]

\* A dependency that cannot be waited for: the Issue itself, a pull request,
\* or a number that is no Issue.
ValidDeclaration(snapshot, i) ==
    /\ snapshot[i].declares = "work"
    /\ snapshot[i].dependsOn \subseteq DOMAIN snapshot \ {i}

\* Issues rejected for their own declaration.
Malformed(snapshot) ==
    {i \in DOMAIN snapshot :
        /\ snapshot[i].declares # "nothing"
        /\ ~ ValidDeclaration(snapshot, i)}

OpenDependencies(snapshot, i) ==
    IF ValidDeclaration(snapshot, i)
    THEN {d \in snapshot[i].dependsOn : snapshot[d].state = "open"}
    ELSE {}

\* The edges that are searched: those of open Issues.
OpenEdges(snapshot, i) ==
    IF snapshot[i].state = "open" THEN OpenDependencies(snapshot, i) ELSE {}

\* The numbers an open chain of dependencies leads to from i.
Prerequisites(snapshot, i) ==
    {j \in DOMAIN snapshot :
        \A S \in SUBSET DOMAIN snapshot :
            (/\ OpenEdges(snapshot, i) \subseteq S
             /\ \A k \in S : OpenEdges(snapshot, k) \subseteq S)
            => j \in S}

Cyclic(snapshot) ==
    {i \in DOMAIN snapshot : i \in Prerequisites(snapshot, i)}

\* Rejected for itself, or waiting for an Issue that can never be dispatched.
Rejected(snapshot) ==
    LET bad == Malformed(snapshot) \union Cyclic(snapshot)
    IN  bad \union
        {i \in DOMAIN snapshot :
            \E d \in OpenDependencies(snapshot, i) :
                d \in bad \/ Prerequisites(snapshot, d) \cap bad # {}}

\* issueDependencyState: no reason to reject it and nothing to wait for.
DependenciesMet(snapshot, i) ==
    /\ i \notin Rejected(snapshot)
    /\ OpenDependencies(snapshot, i) = {}
=============================================================================

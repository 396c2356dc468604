---------------------------- MODULE MCRepairLoop ----------------------------
(* Small instances of RepairLoop.                                          *)
EXTENDS RepairLoop

Quiet == [kinds |-> {"ci"}, runs |-> 4, pushes |-> 0, reviews |-> 0, copies |-> 0,
          comments |-> 0, deferrals |-> 0, kills |-> 0, faults |-> 0]

MCScenarios ==
    {[Quiet EXCEPT !.kills = 1, !.faults = 1],
     [Quiet EXCEPT !.kinds = {"merge"}, !.runs = 3, !.kills = 1, !.deferrals = 1, !.copies = 1, !.pushes = 1],
     [Quiet EXCEPT !.kinds = {"review"}, !.runs = 2, !.kills = 1, !.reviews = 2],
     [Quiet EXCEPT !.kinds = {"ci", "merge"}, !.runs = 3, !.comments = 1]}
=============================================================================

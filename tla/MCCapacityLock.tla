--------------------------- MODULE MCCapacityLock ---------------------------
(* Instances of CapacityLock: processes of one machine, one clock tick, one *)
(* attempt in the journal from the start.                                   *)
EXTENDS CapacityLock

CONSTANTS p1, p2, p3, earlier

OneProcess == {p1}
NoProcess == {}
TwoProcesses == {p1, p2}
ThreeProcesses == {p1, p2, p3}
ThirdProcess == {p3}
OneAttempt == {earlier}
==============================================================================

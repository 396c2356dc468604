----------------------- MODULE MCMaintenanceRecovery -----------------------
(* Instance of MaintenanceRecovery: one fault, one request, one Worker.     *)
EXTENDS MaintenanceRecovery

CONSTANTS q1, q2, f1, f2, w1, w2

OneRequest == {q1}
TwoRequests == {q1, q2}
OneFault == {f1}
SameFault == [q \in TwoRequests |-> f1]
OneWorker == <<w1>>
=============================================================================

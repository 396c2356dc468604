------------------------- MODULE MCCapacityRegistry -------------------------
(* One Worker that both sessions run: it can be blocked as a Worker and    *)
(* through its capacity group.                                             *)
EXTENDS CapacityRegistry, TLC

CONSTANTS w1, g, s1, s2, null, c1, c2

MCWorkerIdentity == w1 :> [group |-> g, provider |-> null, model |-> null]

MCCooldownLimit == [reason \in RecordReason |->
                       IF reason = "quota-exhausted" THEN 2 ELSE 1]

Failure(reason, scope, confidence, retryAt) ==
    [reason |-> reason, scope |-> scope, confidence |-> confidence,
     retryAt |-> retryAt]

\* A group quota with a far reset time, a limit of the Worker that is inferred,
\* and its revoked credential.
GroupQuota == Failure("quota-exhausted", "capacity-group", "authoritative", 9)
WorkerLimited == Failure("rate-limited", "worker", "inferred", NoTime)
WorkerRevoked ==
    Failure("authentication-invalid", "worker", "authoritative", NoTime)
MCFailures == {GroupQuota, WorkerLimited, WorkerRevoked}

Sessions == Permutations(Session)
=============================================================================

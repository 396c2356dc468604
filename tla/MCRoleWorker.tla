---------------------------- MODULE MCRoleWorker ----------------------------
(* Two candidates of two capacity groups, which both requests share.  A    *)
(* group failure met by one request moves it to the other candidate and    *)
(* makes the group a probe for everyone.                                   *)
EXTENDS RoleWorker, TLC

CONSTANTS w1, w2, g, h, null, s1, s2, r1, r2, c1

MCWorkerIdentity ==
    w1 :> [group |-> g, provider |-> null, model |-> null] @@
    w2 :> [group |-> h, provider |-> null, model |-> null]

MCCooldownLimit == [reason \in RecordReason |-> 1]
MCCandidates == <<w1, w2>>

Failure(reason, scope, retryAt) ==
    [reason |-> reason, scope |-> scope, confidence |-> "authoritative",
     retryAt |-> retryAt]

\* A rate limit whose reset time has passed, and a quota without one.
GroupLimited == Failure("rate-limited", "capacity-group", 0)
GroupQuota == Failure("quota-exhausted", "capacity-group", NoTime)
MCFailures == {GroupLimited, GroupQuota}

\* An outage of a provider these Workers do not name: nothing can record it.
ProviderDown == Failure("provider-unavailable", "provider", NoTime)
MCRejectedFailures == {GroupQuota, ProviderDown}

\* r1 is dispatched again, after a kill, a deferral or an error, while r2 uses
\* the same Workers.
MCDeliveries == r1 :> 2 @@ r2 :> 1
MCOneDelivery == r1 :> 1 @@ r2 :> 1

Sessions == Permutations(Session)
=============================================================================

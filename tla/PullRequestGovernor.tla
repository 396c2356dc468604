------------------------ MODULE PullRequestGovernor ------------------------
(***************************************************************************)
(* The Governor ledger of one pull request and the workflow runs that      *)
(* share it: repair requests of advance-pr.mjs, rework and resume comments *)
(* (wake-rework.mjs), the reconciliation that admits and dispatches        *)
(* repairs (reconcile-reviews.mjs), recovery of failed Agent runs          *)
(* (recover-backlog.mjs), resumes after a recovered fault                  *)
(* (resume-fault.mjs) and failed CI (dsh-repair.mjs).                      *)
(*                                                                         *)
(* Each run reads the pull request, then the ledger, and decides; what it  *)
(* decided is a script of requests to GitHub that it sends one by one      *)
(* while other runs read and write.  Any request may be its last.          *)
(***************************************************************************)
EXTENDS Governor

CONSTANTS
    Plans,      \* which runs meet, one record for each combination
    Limit,      \* attempts each budget allows in an epoch
    MaxDeaths   \* bound on the runs that die at work

Kind == {"advance", "conflict", "rework", "resume", "reconcile", "recover",
         "fault-resume", "ci"}
Repair == {"review-repair", "merge-repair"}
Budget == Repair \union {"workflow-recovery", "ci-repair"}

ASSUME GovernorAssumption ==
    /\ \A plan \in Plans :
          /\ plan.kind \in Seq(Kind)
          /\ plan.trigger \in [DOMAIN plan.kind -> Nat]
          /\ plan.versions \in Nat
    /\ Limit \in [Budget -> Nat \ {0}]
    /\ MaxDeaths \in Nat

VARIABLES
    plan,    \* the combination that is met, chosen at the start
    ledger,  \* the records in the comments, oldest first
    paused,  \* the pull request carries the label automation/paused
    version, \* its semantic state
    pc,      \* where each run stands
    seen,    \* what it read of the pull request, and the repair it picked
    script,  \* the requests it has decided on and not sent yet
    deaths   \* runs that died at work

world == <<ledger, paused, version>>
vars == <<plan, world, pc, seen, script, deaths>>

Run == DOMAIN plan.kind       \* workflow runs, in the order they start
KindOf == plan.kind           \* what each run is
Trigger == plan.trigger       \* the comment, source run or CI run it is about
MaxVersion == plan.versions   \* bound on the states the pull request goes through

Location == {"waiting", "picking", "deciding", "acting", "ended"}
Active(r) == pc[r] \in {"picking", "deciding", "acting"}

\* Mutant: comments on one pull request are handled at once.
MutantNoSubjectLane(r) ==
    IF KindOf[r] \in {"reconcile", "ci"} THEN <<KindOf[r], 0>>
    ELSE <<"none", r>>

\* Mutant: reconciliations overlap.
MutantNoReconcileLane(r) ==
    IF KindOf[r] \in {"rework", "resume"} THEN <<"subject", 0>>
    ELSE <<"none", r>>

\* The concurrency groups of the workflows.  The CI listener asks for pull
\* request 0, so its runs are not in the group of the pull request.
Lane(r) ==
    CASE KindOf[r] \in {"rework", "resume"} -> <<"subject", 0>>
      [] KindOf[r] \in {"advance", "conflict"} -> <<"advance", 0>>
      [] KindOf[r] \in {"reconcile", "ci"} -> <<KindOf[r], 0>>
      [] KindOf[r] = "recover" -> <<"recover", Trigger[r]>>
      [] OTHER -> <<"none", r>>

\* The observation a run writes under.
Observation(r) ==
    CASE KindOf[r] \in {"rework", "resume"} -> <<"comment", Trigger[r]>>
      [] KindOf[r] \in {"advance", "conflict"} -> <<KindOf[r], seen[r].version>>
      [] OTHER -> <<"run", r>>

NothingSeen == [version |-> 0, pending |-> << >>]

GovernorInit ==
    /\ plan \in Plans
    /\ ledger = << >>
    /\ paused = FALSE
    /\ version = 1
    /\ pc = [r \in Run |-> "waiting"]
    /\ seen = [r \in Run |-> NothingSeen]
    /\ script = [r \in Run |-> << >>]
    /\ deaths = 0

-----------------------------------------------------------------------------
(* Scripts.  A request writes a record, sets or removes the label, or has  *)
(* the effect the transition stands for.                                   *)

Write(records) == [i \in DOMAIN records |-> [op |-> "write", record |-> records[i]]]
Perform(budget, transition) ==
    << [op |-> "perform", budget |-> budget, transition |-> transition] >>
Request(op) == << [op |-> op] >>

Recovery == <<"workflow-recovery", 0>>

\* advance-pr.mjs for a blocking review or a merge conflict: unless a pause is
\* open or the epoch holds a repair or recovery of this exact state, a repair
\* is requested.  One left unapplied by an earlier epoch makes the request
\* throw.
AdvanceScript(r) ==
    LET v == seen[r].version
        t == <<IF KindOf[r] = "advance" THEN "review-repair"
               ELSE "merge-repair", v>>
        epoch == ActiveRecords(ledger)
        recorded == \E i \in DOMAIN epoch :
            /\ epoch[i].status \in {"candidate", "admitted", "applied"}
            /\ epoch[i].transition[1] \in Repair \union {"workflow-recovery"}
            /\ epoch[i].stateVersion = v
        existing == {i \in UnappliedCandidates(ledger, Repair, v) :
                        ledger[i].transition = t}
    IN  IF OpenPause(ledger) # {} \/ recorded \/ existing # {} THEN << >>
        ELSE Write(governorDecision(ledger, t, v, Observation(r), {}).record)

\* wake-rework.mjs: a rework comment records a repair, a resume comment
\* answers the open pause and removes the label.
WakeScript(r) ==
    LET commands == IF KindOf[r] = "resume" THEN {Observation(r)} ELSE {}
        decision == governorDecision(ledger, <<"review-repair", 0>>,
                        seen[r].version, Observation(r), commands)
    IN  Write(decision.record) \o
            IF decision.action = "record-resume" THEN Request("unpause")
            ELSE << >>

\* resume-fault.mjs throws unless there is a pause to answer.
FaultResumeScript(r) ==
    LET decision == governorDecision(ledger, Recovery, seen[r].version,
                        Observation(r), {<<"fault", Trigger[r]>>})
    IN  IF decision.action = "record-resume"
        THEN Write(decision.record) \o Request("unpause")
        ELSE << >>

\* Mutant: the work is dispatched before its attempt is recorded.
MutantChargeAfter(budget, decision, go, show) ==
    CASE decision.execute -> go \o Write(decision.record)
      [] decision.action = "pause" -> Write(decision.record) \o show
      [] OTHER -> << >>

\* The end of every budgeted script: go on, or record the pause and show it.
Budgeted(budget, decision, go, show) ==
    CASE decision.execute -> Write(decision.record) \o go
      [] decision.action = "pause" -> Write(decision.record) \o show
      [] OTHER -> << >>

\* The repair is dispatched and then recorded as applied.  The dispatch of a
\* repair of a review names no repository: its first request fails, and the
\* run ends there.
DispatchThenApplied(r, t) ==
    IF t[1] = "review-repair" THEN << >>
    ELSE Perform(t[1], t)
             \o Write(<<AppliedRecord(t, seen[r].version, Observation(r))>>)

\* governTransition of reconcile-reviews.mjs and what follows it: admit the
\* picked repair, or replay an admission whose effect is not recorded under
\* the observation that was charged for it; dispatch; record it as applied.
ReconcileScript(r) ==
    LET v == seen[r].version
        t == seen[r].pending
        admissions == Recorded(ledger, {"admitted"}, t, v)
        decision == governorDecision(ledger, t, v, Observation(r), {})
        replay == admissions # {}
        charged == IF decision.record # << >>
                   THEN decision.record[1].observationId
                   ELSE IF replay THEN ledger[Min(admissions)].observationId
                   ELSE Observation(r)
        budget == governorBudgetDecision(ledger, t[1], charged, Limit[t[1]])
    IN  Write(decision.record) \o
            IF decision.execute \/ (replay /\ decision.action = "wait")
            THEN IF replay /\ budget.action = "noop" THEN DispatchThenApplied(r, t)
                 ELSE Budgeted(t[1], budget, DispatchThenApplied(r, t),
                          Request("pause"))
            ELSE << >>

\* The recovery is recorded as applied before the work is woken or, at its
\* last attempt, declared dead.
AppliedThenWake(r) ==
    Write(<<AppliedRecord(Recovery, seen[r].version, Observation(r))>>)
        \o Perform("workflow-recovery", Recovery)

\* governRecovery of recover-backlog.mjs: the failed source run is the
\* candidate's observation, the recovery run the admission's.
RecoverScript(r) ==
    LET v == seen[r].version
        known == Recorded(ledger, {"candidate"}, Recovery, v) # {}
        first == IF known THEN << >>
                 ELSE governorDecision(ledger, Recovery, v,
                          <<"source-run", Trigger[r]>>, {}).record
        working == ledger \o first
        decision == governorDecision(working, Recovery, v, Observation(r), {})
        budget == governorBudgetDecision(working, "workflow-recovery",
                      Observation(r), Limit["workflow-recovery"])
    IN  Write(first \o decision.record) \o
            IF decision.execute
            THEN Budgeted("workflow-recovery", budget, AppliedThenWake(r),
                          Request("pause"))
            ELSE << >>

\* dsh-repair.mjs for a failed CI run: the first failure is a candidate and
\* reruns the workflow; a later one runs the Worker, and only when that has a
\* durable result writes the admission and its attempt as one record.
CiScript(r) ==
    LET v == seen[r].version
        t == <<"ci-repair", Trigger[r]>>
        decision == governorDecision(ledger, t, v, Observation(r), {})
        budget == governorBudgetDecision(ledger, "ci-repair", Observation(r),
                                         Limit["ci-repair"])
    IN  IF ~decision.execute
        THEN IF decision.action = "record-candidate" THEN Write(decision.record)
             ELSE << >>
        ELSE IF ~budget.execute
        THEN Budgeted("ci-repair", budget, << >>, Request("try-pause"))
        ELSE IF decision.record = << >> THEN << >>
        ELSE Perform("ci-repair", t)
                 \o Write(<< createStartedGovernorRecord(decision.record[1],
                                                         budget.record[1]) >>)

Script(r) ==
    CASE KindOf[r] \in {"advance", "conflict"} -> AdvanceScript(r)
      [] KindOf[r] \in {"rework", "resume"} -> WakeScript(r)
      [] KindOf[r] = "fault-resume" -> FaultResumeScript(r)
      [] KindOf[r] = "reconcile" -> ReconcileScript(r)
      [] KindOf[r] = "recover" -> RecoverScript(r)
      [] OTHER -> CiScript(r)

-----------------------------------------------------------------------------
(* Steps of a run                                                          *)

\* A run moves on with what it has seen and still has to send; once it has
\* ended nothing is left of either.
Move(r, location, observed, requests) ==
    /\ pc' = [pc EXCEPT ![r] = location]
    /\ seen' = [seen EXCEPT ![r] = observed]
    /\ script' = [script EXCEPT ![r] = requests]

End(r) == Move(r, "ended", NothingSeen, << >>)

Act(r, requests) ==
    IF requests = << >> THEN End(r) ELSE Move(r, "acting", seen[r], requests)

\* What each program requires of the label before it looks at the ledger.
LabelAdmits(r) ==
    CASE KindOf[r] \in {"reconcile", "recover", "ci"} -> ~paused
      [] KindOf[r] = "fault-resume" -> paused
      [] OTHER -> TRUE

ReadPullRequest(r) ==
    /\ pc[r] = "waiting"
    /\ \A s \in Run :
          /\ Active(s) => Lane(s) # Lane(r)
          /\ KindOf[s] = KindOf[r] /\ s < r => pc[s] # "waiting"
    /\ IF ~LabelAdmits(r) THEN End(r)
       ELSE Move(r, IF KindOf[r] = "reconcile" THEN "picking" ELSE "deciding",
                 [NothingSeen EXCEPT !.version = version], << >>)
    /\ UNCHANGED <<world, deaths>>

\* The repair a reconciliation takes up is the latest recorded and not
\* applied; it reads the ledger again to decide about it.
PickRepair(r) ==
    LET pending == UnappliedCandidates(ledger,
                       Repair \union {"workflow-recovery"}, seen[r].version)
    IN  /\ pc[r] = "picking"
        /\ IF pending = {} THEN End(r)
           ELSE Move(r, "deciding",
                     [seen[r] EXCEPT !.pending = ledger[Max(pending)].transition],
                     << >>)
        /\ UNCHANGED <<world, deaths>>

\* Reading an unreadable ledger throws.
Decide(r) ==
    /\ pc[r] = "deciding"
    /\ Act(r, IF EpochReadable(ledger) THEN Script(r) ELSE << >>)
    /\ UNCHANGED <<world, deaths>>

\* What a request does to GitHub.  setRepairLabels ignores its failure.
Happens(request) ==
    /\ ledger' = IF request.op = "write" THEN Append(ledger, request.record)
                 ELSE ledger
    /\ CASE request.op = "pause" -> paused' = TRUE
         [] request.op = "unpause" -> paused' = FALSE
         [] request.op = "try-pause" -> paused' \in {TRUE, paused}
         [] OTHER -> paused' = paused

Send(r) ==
    /\ pc[r] = "acting"
    /\ Happens(Head(script[r]))
    /\ Act(r, Tail(script[r]))
    /\ UNCHANGED <<version, deaths>>

\* A request fails, the job is cancelled or the machine is lost; a Worker
\* that could not start for lack of capacity ends its run the same way.
Die(r) ==
    /\ pc[r] = "acting"
    /\ deaths < MaxDeaths
    /\ deaths' = deaths + 1
    /\ End(r)
    /\ UNCHANGED world

\* A push, a new base or an edited label.
ChangePullRequest ==
    /\ version < MaxVersion
    /\ version' = version + 1
    /\ UNCHANGED <<ledger, paused, pc, seen, script, deaths>>

GovernorNext ==
    /\ \/ ChangePullRequest
       \/ \E r \in Run :
             ReadPullRequest(r) \/ PickRepair(r) \/ Decide(r) \/ Send(r) \/ Die(r)
    /\ UNCHANGED plan

GovernorSpec == GovernorInit /\ [][GovernorNext]_vars

-----------------------------------------------------------------------------
(* Properties                                                              *)

Performing(r) ==
    /\ pc[r] = "acting" /\ Head(script[r]).op = "perform"
    /\ script'[r] = Tail(script[r])
    /\ deaths' = deaths

\* Work is admitted on two observations: whoever admits or starts a
\* transition writes after a candidate for the same state that another
\* observation recorded, whatever was written in between and whichever runs
\* were repeated (governorDecision, createStartedGovernorRecord).
AdmissionIsIndependent ==
    \A i \in DOMAIN ledger :
        ledger[i].status \in {"admitted", "started"} =>
            /\ ledger[i].candidateObservationId # ledger[i].observationId
            /\ \E j \in Recorded(ledger, {"candidate"}, ledger[i].transition,
                                  ledger[i].stateVersion) :
                  /\ j < i
                  /\ ledger[j].observationId = ledger[i].candidateObservationId

\* Nothing is dispatched that was not paid for or that is paused: when a
\* reconciliation or a recovery has its effect, the ledger holds an attempt of
\* its budget made under its own observation or under that of an admission it
\* replays, and for a reconciliation no pause is open, also when the run that
\* paused died before it set the label (governTransition, governRecovery).
EffectIsCharged ==
    [][\A r \in Run :
          Performing(r) /\ KindOf[r] \in {"reconcile", "recover"} =>
           /\ KindOf[r] = "reconcile" => OpenPause(ledger) = {}
           /\ LET work == Head(script[r])
                  admissions == Recorded(ledger, {"admitted"}, work.transition,
                                         seen[r].version)
              IN  \E i \in Charges(ledger, work.budget) :
                      ledger[i].observationId \in
                          {Observation(r)} \union
                              {ledger[j].observationId : j \in admissions}]_vars

\* A repair that is applied in the epoch is not dispatched again by a
\* reconciliation, although runs die before they record it
\* (governorDecision, under the concurrency group of reconcile-reviews.yml).
\* A recovery may be: its own run records it outside that group.
AppliedIsFinal ==
    [][\A r \in Run :
          Performing(r) /\ KindOf[r] = "reconcile"
              /\ Head(script[r]).budget \in Repair =>
              Recorded(ActiveRecords(ledger), {"applied", "started"},
                       Head(script[r]).transition, seen[r].version) = {}]_vars

Charged(budget) ==
    LET epoch == ActiveRecords(ledger)
    IN  {epoch[i].observationId : i \in Charges(epoch, budget)}

\* The repairs of an epoch are bounded: reconciliations that die and are
\* repeated, while other programs write to the ledger, charge no more
\* observations than the limit (governorBudgetDecision, and the concurrency
\* group of reconcile-reviews.yml).
RepairsBounded ==
    \A budget \in Repair : Cardinality(Charged(budget)) <= Limit[budget]

\* A pause of repairs is earned: as many attempts as the budget allows
\* precede it in its own epoch, so that a resume gives a fresh budget.  A
\* recovery may write the pause it decided on before the resume of another.
PauseIsEarned ==
    \A i \in DOMAIN ledger :
        ledger[i].status = "paused" /\ ledger[i].transition \in Repair =>
            LET before == SubSeq(ledger, 1, i - 1)
                epoch == ActiveRecords(before)
            IN  Cardinality({epoch[j].observationId :
                                 j \in Charges(epoch, ledger[i].transition)})
                    >= Limit[ledger[i].transition]

\* The ledger can be read by every later run: each resume answers the pause
\* that is open where it stands (activeGovernorEpoch throws otherwise).
LedgerReadable == EpochReadable(ledger)
=============================================================================

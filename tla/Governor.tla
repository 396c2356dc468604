------------------------------ MODULE Governor ------------------------------
(***************************************************************************)
(* The Governor policy of src/governor-policy.mjs: what may be done next   *)
(* to one Issue or pull request, as a function of the ledger of records    *)
(* found in its comments.  A ledger is a sequence of records, oldest       *)
(* first, all of one subject; the code's filter by subject is the identity *)
(* on it.                                                                  *)
(*                                                                         *)
(* A transition is <<kind, generation>>; a budget is a kind, charged for   *)
(* one work identity (the subject's branch, or the Issue).  A state        *)
(* version stands for the digest of the subject's semantic state.          *)
(***************************************************************************)
EXTENDS Naturals, Sequences, FiniteSets, FiniteSetsExt

\* Records as governorRecordBody renders them, without version and subject.
CandidateRecord(transition, stateVersion, observationId) ==
    [status |-> "candidate", transition |-> transition,
     stateVersion |-> stateVersion, observationId |-> observationId]

AdmittedRecord(transition, stateVersion, observationId, candidate) ==
    [status |-> "admitted", transition |-> transition,
     stateVersion |-> stateVersion, observationId |-> observationId,
     candidateObservationId |-> candidate]

AppliedRecord(transition, stateVersion, observationId) ==
    [status |-> "applied", transition |-> transition,
     stateVersion |-> stateVersion, observationId |-> observationId]

ResumedRecord(transition, stateVersion, observationId, paused, command) ==
    [status |-> "resumed", transition |-> transition,
     stateVersion |-> stateVersion, observationId |-> observationId,
     pausedObservationId |-> paused, commandId |-> command]

AttemptRecord(budget, observationId, attempt) ==
    [status |-> "attempt", transition |-> budget,
     observationId |-> observationId, attempt |-> attempt]

PausedRecord(budget, observationId) ==
    [status |-> "paused", transition |-> budget,
     observationId |-> observationId]

-----------------------------------------------------------------------------
(* activeGovernorEpoch: a resume closes the pause before it and starts an  *)
(* epoch.                                                                  *)

\* The pauses open just before position i.
PausesBefore(records, i) ==
    {j \in 1 .. (i - 1) :
        /\ records[j].status = "paused"
        /\ \A k \in j .. (i - 1) : records[k].status # "resumed"}

\* Every reader throws on a ledger in which a resume does not answer the
\* latest open pause.
EpochReadable(records) ==
    \A i \in DOMAIN records :
        records[i].status = "resumed" =>
            /\ PausesBefore(records, i) # {}
            /\ records[i].pausedObservationId =
                   records[Max(PausesBefore(records, i))].observationId

EpochStart(records) ==
    1 + Max({0} \union {i \in DOMAIN records : records[i].status = "resumed"})

ActiveRecords(records) ==
    SubSeq(records, EpochStart(records), Len(records))

OpenPause(records) == PausesBefore(records, Len(records) + 1)

-----------------------------------------------------------------------------
Recorded(records, statuses, transition, stateVersion) ==
    {i \in DOMAIN records :
        /\ records[i].status \in statuses
        /\ records[i].transition = transition
        /\ records[i].stateVersion = stateVersion}

\* unappliedGovernorCandidate, over the whole ledger: the candidates and
\* admissions of these kinds whose transition and state are not applied.
UnappliedCandidates(records, kinds, stateVersion) ==
    {i \in DOMAIN records :
        /\ records[i].status \in {"candidate", "admitted"}
        /\ records[i].transition[1] \in kinds
        /\ records[i].stateVersion = stateVersion
        /\ Recorded(records, {"applied", "started"}, records[i].transition,
                    stateVersion) = {}}

\* What a decision returns; a record to write is a sequence of one.
Decision(action, execute, record) ==
    [action |-> action, execute |-> execute, record |-> record]

\* Mutant: the observation that recorded the candidate may admit it.
MutantAdmitAgain(epoch, transition, stateVersion, observationId) ==
    LET candidates == Recorded(epoch, {"candidate"}, transition, stateVersion)
    IN  IF candidates = {}
        THEN Decision("record-candidate", FALSE,
                << CandidateRecord(transition, stateVersion, observationId) >>)
        ELSE Decision("admit", TRUE,
                << AdmittedRecord(transition, stateVersion, observationId,
                       epoch[Min(candidates)].observationId) >>)

\* What an epoch without an open pause lets an observation do: record a
\* candidate, admit another's, or repeat an admission not yet applied.
EpochDecision(epoch, transition, stateVersion, observationId) ==
    LET Find(status) == Recorded(epoch, {status}, transition, stateVersion)
        admission == epoch[Min(Find("admitted"))]
        candidate == epoch[Min(Find("candidate"))]
    IN  IF Find("applied") \union Find("started") # {}
        THEN Decision("noop", FALSE, << >>)
        ELSE IF Find("admitted") # {}
        THEN IF admission.observationId = observationId
             THEN Decision("wait", FALSE, << >>)
             ELSE Decision("retry", TRUE, << >>)
        ELSE IF Find("candidate") = {}
        THEN Decision("record-candidate", FALSE,
                << CandidateRecord(transition, stateVersion, observationId) >>)
        ELSE IF candidate.observationId = observationId
        THEN Decision("wait", FALSE, << >>)
        ELSE Decision("admit", TRUE,
                << AdmittedRecord(transition, stateVersion, observationId,
                                  candidate.observationId) >>)

\* governorDecision.  commands holds the authorized resume command, if any.
governorDecision(records, transition, stateVersion, observationId, commands) ==
    LET pause == records[Max(OpenPause(records))]
    IN  CASE OpenPause(records) = {} ->
               EpochDecision(ActiveRecords(records), transition, stateVersion,
                             observationId)
          [] OpenPause(records) # {} /\ commands = {} ->
               Decision("paused", FALSE, << >>)
          [] OTHER ->
               Decision("record-resume", FALSE,
                        << ResumedRecord(transition, stateVersion, observationId,
                               pause.observationId,
                               CHOOSE c \in commands : TRUE) >>)

\* The attempts charged to a budget, by a record of their own or by a start.
Charges(records, budget) ==
    {i \in DOMAIN records :
        \/ records[i].status = "attempt" /\ records[i].transition = budget
        \/ records[i].status = "started" /\ records[i].budgetTransition = budget}

\* governorBudgetDecision on the records of one epoch: consumed counts
\* distinct attempt numbers, and the observation charged before is not again.
BudgetOver(records, budget, observationId, limit) ==
    LET charges == Charges(records, budget)
        consumed == Cardinality({records[i].attempt : i \in charges})
    IN  CASE \E i \in charges : records[i].observationId = observationId ->
               Decision("noop", FALSE, << >>)
          [] /\ \A i \in charges : records[i].observationId # observationId
             /\ consumed >= limit ->
               Decision("pause", FALSE, << PausedRecord(budget, observationId) >>)
          [] OTHER ->
               Decision("attempt", TRUE,
                        << AttemptRecord(budget, observationId, consumed + 1) >>)

\* Mutant: one attempt more than the limit.
MutantOneMore(records, budget, observationId, limit) ==
    BudgetOver(ActiveRecords(records), budget, observationId, limit + 1)

\* Mutant: a resume does not give a fresh budget.
MutantOneBudgetForever(records, budget, observationId, limit) ==
    BudgetOver(records, budget, observationId, limit)

governorBudgetDecision(records, budget, observationId, limit) ==
    BudgetOver(ActiveRecords(records), budget, observationId, limit)

\* createStartedGovernorRecord: admission and attempt in one record.
createStartedGovernorRecord(admitted, attempt) ==
    [status |-> "started", transition |-> admitted.transition,
     stateVersion |-> admitted.stateVersion,
     observationId |-> admitted.observationId,
     candidateObservationId |-> admitted.candidateObservationId,
     budgetTransition |-> attempt.transition, attempt |-> attempt.attempt]
=============================================================================

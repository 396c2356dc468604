-------------------------- MODULE BacklogDispatch --------------------------
(***************************************************************************)
(* From a ready Issue to its change Worker: the dispatcher that scans the  *)
(* backlog or answers one wake (dispatch-backlog.mjs, dispatch-policy.mjs, *)
(* issue-dependency-graph.mjs), the Issue Worker (dsh-issue.mjs), the      *)
(* recovery of its failed runs (recover-backlog.mjs), the resumption of    *)
(* capacity waits (resume-capacity.mjs) and of paused Issues               *)
(* (resume-subject.mjs), with the concurrency groups of their workflows.   *)
(*                                                                         *)
(* A version stands for what the Governor identifies an Issue's state by:  *)
(* title, body and the labels that are not the controller's own.           *)
(***************************************************************************)
EXTENDS IssueGraph, Sequences, FiniteSetsExt, SequencesExt

CONSTANTS
    Issues,         \* Issue numbers, all of one Profile workflow
    Versions,       \* bound: the versions an Issue is edited to
    DeclarationOf,  \* what each version's body declares
    Limit,          \* coordination limit of the Profile workflow
    MaxBatch,       \* MAXIMUM_BATCH_SIZE
    RecoveryLimit,  \* workflow-recovery budget of one Governor epoch
    MaxBase,        \* bound on the revisions of the default branch
    Scenarios       \* the Issues open at first, and what may happen besides,
                    \* each a bound: edits, labels people set or take, states
                    \* (an Issue or its pull request closed or reopened), moves
                    \* of the base, faults (a run dies, a request fails) and
                    \* deferrals for capacity

Declaration == [declares : {"nothing", "malformed", "work"}, ready : BOOLEAN,
                dependsOn : SUBSET Nat]

ASSUME BacklogAssumption ==
    /\ Issues \subseteq Nat \ {0} /\ IsFiniteSet(Issues)
    /\ Limit \in Nat \ {0} /\ MaxBatch \in Nat \ {0}
    /\ RecoveryLimit \in Nat \ {0} /\ MaxBase \in Nat \ {0}
    /\ Versions \subseteq Nat \ {0} /\ Versions # {}
    /\ DeclarationOf \in [Versions -> Declaration]
    /\ Scenarios \subseteq [backlog : SUBSET Issues, edits : Nat, labels : Nat,
                            states : Nat, moves : Nat, faults : Nat,
                            deferrals : Nat]

VARIABLES
    issue,       \* each Issue as GitHub shows it
    base,        \* head of the default branch
    governor,    \* each Issue's ledger: the dispatch and recovery of each version
                 \* in the current epoch, and what any epoch applied
    wake,        \* what the pending run of the group dsh-backlog is asked, at most one
    run,         \* the running one
    queue,       \* the pending request of each Issue's Worker group, at most one
    worker,      \* the Worker run of each Issue
    status,      \* its status comment
    recovery,    \* the recovery of a failed Worker run
    journal,     \* executions of each Issue: state and base, with the outcome
    left,        \* what of the scenario may still happen
    irregular    \* what happened to an Issue outside the dispatcher's order

vars == <<issue, base, governor, wake, run, queue, worker, status, recovery,
          journal, left, irregular>>
ofWorker == <<queue, worker, status, recovery, journal>>
ofDispatch == <<governor, wake, run>>

\* agent/dsh, agent/dsh-failed, agent/dsh-blocked and automation/paused.
Labels == {"dsh", "failed", "blocked", "paused"}

\* What a WorkRequest is bound to: the digest of the declaration, and the head
\* of the default branch.
RequestFor(version, revision) ==
    [declaration |-> DeclarationOf[version], base |-> revision]

\* A wake asks for one Issue, or for a scan of the backlog.
Scan == 0
Idle == [at |-> "idle", target |-> Scan, pulls |-> {}, todo |-> {}, base |-> 1]
Unemployed == [at |-> "idle", version |-> CHOOSE v \in Versions : TRUE,
               request |-> << >>]
NoStatus == [is |-> "none", version |-> 0, base |-> 0]
NoRecovery == [at |-> "none", version |-> 0]
NewEpoch == [dispatch |-> [v \in Versions |-> "none"],
             recovered |-> [v \in Versions |-> "none"],
             attempts |-> 0, paused |-> FALSE]

Init ==
    /\ left \in Scenarios
    /\ issue = [i \in Issues |-> [open |-> i \in left.backlog, pull |-> FALSE,
                                  labels |-> {},
                                  version |-> CHOOSE v \in Versions :
                                      \A w \in Versions : v <= w]]
    /\ base = 1
    /\ governor = [i \in Issues |-> [epoch |-> NewEpoch, attested |-> {}]]
    /\ wake = {Scan}
    /\ run = Idle
    /\ queue = [i \in Issues |-> {}]
    /\ worker = [i \in Issues |-> Unemployed]
    /\ status = [i \in Issues |-> NoStatus]
    /\ recovery = [i \in Issues |-> NoRecovery]
    /\ journal = [i \in Issues |-> {}]
    /\ irregular = [i \in Issues |-> {}]

Spend(what) ==
    /\ left[what] > 0
    /\ left' = [left EXCEPT ![what] = @ - 1]

-----------------------------------------------------------------------------
(* The dispatcher: one snapshot, then one Issue after another.             *)

DeclarationNow(i) == DeclarationOf[issue[i].version]

Snapshot ==
    [i \in Issues |->
        [state |-> IF issue[i].open THEN "open" ELSE "closed",
         declares |-> DeclarationNow(i).declares,
         dependsOn |-> DeclarationNow(i).dependsOn]]

\* selectBacklogWork for one Issue: pulls are the Issues that an open pull
\* request closed when the pull requests were read.
Selectable(i, pulls, requested) ==
    /\ issue[i].open
    /\ issue[i].labels \cap {"failed", "blocked", "paused"} = {}
    /\ "dsh" \in issue[i].labels => requested
    /\ i \notin pulls
    /\ DeclarationNow(i).declares = "work" /\ DeclarationNow(i).ready
    /\ DependenciesMet(Snapshot, i)

\* Mutant: an Issue with a pull request and no label is not counted.
MutantActive(pulls) == {i \in Issues : issue[i].open /\ "dsh" \in issue[i].labels}

\* activeWorkflowIssueNumbers
Active(pulls) ==
    {i \in Issues :
        /\ issue[i].open
        /\ DeclarationNow(i).declares = "work"
        /\ "dsh" \in issue[i].labels \/ i \in pulls}

\* selectBacklogBatch: the lowest numbers that the limit and the batch admit.
SelectBatch(pulls) ==
    LET room == Limit - Cardinality(Active(pulls))
        ready == {i \in Issues : Selectable(i, pulls, FALSE)}
    IN  {i \in ready : Cardinality({j \in ready : j < i}) < room
                       /\ Cardinality({j \in ready : j < i}) < MaxBatch}

\* The answer to a wake of one Issue, which does not count itself.
SelectRequested(i, pulls) ==
    IF Selectable(i, pulls, TRUE) /\ Cardinality(Active(pulls) \ {i}) < Limit
    THEN {i} ELSE {}

\* A run of the group starts: it takes the wake and reads the pull requests.
Start ==
    /\ run.at = "idle"
    /\ \E target \in wake :
        run' = [Idle EXCEPT !.at = "reading", !.target = target,
                            !.pulls = {i \in Issues : issue[i].pull}]
    /\ wake' = {}
    /\ UNCHANGED <<issue, base, governor, ofWorker, left, irregular>>

\* The Issues are read and the work selected from this snapshot; an Issue is
\* decided on in the version that was read.
Select ==
    /\ run.at = "reading"
    /\ LET chosen == IF run.target = Scan THEN SelectBatch(run.pulls)
                     ELSE SelectRequested(run.target, run.pulls)
       IN  run' = IF chosen = {}
                  THEN Idle
                  ELSE [run EXCEPT !.at = "base", !.pulls = {},
                        !.todo = {[number |-> i, version |-> issue[i].version] :
                                  i \in chosen}]
    /\ UNCHANGED <<issue, base, governor, wake, ofWorker, left, irregular>>

\* defaultBranchCommit
ReadBase ==
    /\ run.at = "base"
    /\ run' = [run EXCEPT !.at = "deciding", !.base = base]
    /\ UNCHANGED <<issue, base, governor, wake, ofWorker, left, irregular>>

\* The member at hand: they are taken by number.
Member == CHOOSE m \in run.todo : \A n \in run.todo : m.number <= n.number
This == Member.number
Seen == Member.version

\* runBacklogBatch: the next member, whatever became of this one.
NextMember ==
    IF run.todo = {Member}
    THEN Idle
    ELSE [run EXCEPT !.at = "deciding", !.todo = @ \ {Member}]

Epoch(i) == governor[i].epoch
Stage == Epoch(This).dispatch[Seen]
WithStage(stage) ==
    [governor EXCEPT ![This].epoch.dispatch[Seen] = stage]

\* Mutant: an admission is not repeated.
MutantExecutes == ~ Epoch(This).paused /\ Stage = "candidate"

\* governorDecision on the version that was read.  A run decides on an Issue
\* once, so what another record was observed by is always another run.
Executes == ~ Epoch(This).paused /\ Stage \in {"candidate", "admitted"}

\* admittedWork
Decide ==
    /\ run.at = "deciding"
    /\ \/ /\ ~ Epoch(This).paused /\ Stage = "none"
          /\ governor' = WithStage("candidate")
          /\ run' = [run EXCEPT !.at = "observing"]
       \/ /\ Executes
          /\ governor' = IF Stage = "candidate" THEN WithStage("admitted")
                         ELSE governor
          /\ run' = [run EXCEPT !.at = "labelling"]
       \/ /\ ~ Executes /\ (Epoch(This).paused \/ Stage # "none")
          /\ run' = NextMember
          /\ UNCHANGED governor
    /\ UNCHANGED <<issue, base, wake, ofWorker, left, irregular>>

\* requestIndependentIssueObservation: the new wake displaces a pending one.
Observe ==
    /\ run.at = "observing"
    /\ wake' = {This}
    /\ run' = NextMember
    /\ UNCHANGED <<issue, base, governor, ofWorker, left, irregular>>

AddLabel ==
    /\ run.at = "labelling"
    /\ issue' = [issue EXCEPT ![This].labels = @ \union {"dsh"}]
    /\ run' = [run EXCEPT !.at = "posting"]
    /\ UNCHANGED <<base, governor, wake, ofWorker, left, irregular>>

\* The request reaches the Issue's group and displaces a pending one there; or
\* it is refused; or it is accepted and the answer lost.
Post ==
    /\ run.at = "posting"
    /\ LET request == RequestFor(Seen, run.base)
       IN  \/ /\ queue' = [queue EXCEPT ![This] = {request}]
              /\ run' = [run EXCEPT !.at = "recording"]
              /\ UNCHANGED <<left, irregular>>
           \/ /\ Spend("faults")
              /\ run' = [run EXCEPT !.at = "cleaning"]
              /\ \/ UNCHANGED <<queue, irregular>>
                 \/ /\ queue' = [queue EXCEPT ![This] = {request}]
                    /\ irregular' = [irregular EXCEPT ![This] = @ \union {"unrecorded"}]
    /\ UNCHANGED <<issue, base, governor, wake, worker, status, recovery, journal>>

Clean ==
    /\ run.at = "cleaning"
    /\ issue' = [issue EXCEPT ![This].labels = @ \ {"dsh"}]
    /\ run' = NextMember
    /\ UNCHANGED <<base, governor, wake, ofWorker, left, irregular>>

\* recordApplied
Record ==
    /\ run.at = "recording"
    /\ governor' = [WithStage("applied") EXCEPT ![This].attested = @ \union {Seen}]
    /\ run' = NextMember
    /\ UNCHANGED <<issue, base, wake, ofWorker, left, irregular>>

\* A request of the run fails and it goes on with the next Issue, or it dies.
Fault ==
    /\ run.at # "idle"
    /\ Spend("faults")
    /\ \/ run' = Idle
       \/ /\ run.at \in {"deciding", "observing", "labelling", "recording"}
          /\ run' = NextMember
    /\ irregular' = IF run.at = "recording"
                    THEN [irregular EXCEPT ![This] = @ \union {"unrecorded"}]
                    ELSE irregular
    /\ UNCHANGED <<issue, base, governor, wake, ofWorker>>

Dispatcher ==
    \/ Start \/ Select \/ ReadBase \/ Decide \/ Observe \/ AddLabel
    \/ Post \/ Clean \/ Record

-----------------------------------------------------------------------------
(* The Worker of one Issue, one run at a time.                             *)

Employ(i, changes) == worker' = [worker EXCEPT ![i] = changes]
Dismiss(i) == Employ(i, Unemployed)
Report(i, is) == status' = [status EXCEPT ![i] = [NoStatus EXCEPT !.is = is]]

\* The run takes the pending request and reads the Issue.  Until it reports
\* that it runs it may end in an error that leaves no trace on the Issue.
Take(i) ==
    /\ worker[i].at = "idle"
    /\ \E request \in queue[i] :
        IF issue[i].open /\ "dsh" \in issue[i].labels /\ "paused" \notin issue[i].labels
        THEN Employ(i, [at |-> "verifying", version |-> issue[i].version,
                        request |-> request])
        ELSE UNCHANGED worker
    /\ queue' = [queue EXCEPT ![i] = {}]
    /\ UNCHANGED <<issue, base, ofDispatch, status, recovery, journal, left, irregular>>

\* The dispatcher has recorded the work of this state as applied, in whatever
\* epoch.
Admitted(i) == worker[i].version \in governor[i].attested

\* The declaration is still the one the request was made for.
StillDeclared(i) ==
    worker[i].request.declaration = DeclarationOf[worker[i].version]

\* The request must also be for the head of the default branch.
Verify(i) ==
    /\ worker[i].at = "verifying"
    /\ IF worker[i].request.base = base /\ Admitted(i) /\ StillDeclared(i)
       THEN Employ(i, [worker[i] EXCEPT !.at = "surveying"])
       ELSE Dismiss(i)
    /\ UNCHANGED <<issue, base, ofDispatch, queue, status, recovery, journal,
                   left, irregular>>

OpenNow(i) ==
    {d \in DeclarationOf[worker[i].version].dependsOn \cap Issues : issue[d].open}

\* An Issue with a pull request is done, one with open dependencies waits, and
\* otherwise the run reports itself: an earlier failure is no longer found.
Survey(i) ==
    /\ worker[i].at = "surveying"
    /\ IF issue[i].pull
       THEN /\ IF status[i].is = "none" THEN Report(i, "complete") ELSE UNCHANGED status
            /\ Dismiss(i) /\ UNCHANGED <<issue, recovery>>
       ELSE /\ recovery' = [recovery EXCEPT ![i] =
                                IF @.at = "failed" THEN NoRecovery ELSE @]
            /\ IF OpenNow(i) # {}
               THEN Report(i, "waiting") /\ Dismiss(i) /\ UNCHANGED issue
               ELSE /\ Report(i, "running")
                    /\ Employ(i, [worker[i] EXCEPT !.at = "ready"])
                    /\ issue' = [issue EXCEPT ![i].labels = @ \ {"failed", "blocked"}]
    /\ UNCHANGED <<base, ofDispatch, queue, journal, left, irregular>>

\* What createWorkerExecutionClaim identifies an execution by.
Execution(i) == <<worker[i].version, worker[i].request.base>>
Executed(i) == {e \in journal[i] : e.execution = Execution(i)}
Entered(i, is) ==
    journal' = [journal EXCEPT ![i] =
        (@ \ Executed(i)) \union {[execution |-> Execution(i), is |-> is]}]

\* The run ends in an error: labels, status and a failed run to recover.  The
\* label is set with the host's own credentials, which wakes the backlog.
EndInError(i) ==
    /\ issue' = [issue EXCEPT ![i].labels = (@ \ {"dsh", "blocked"}) \union {"failed"}]
    /\ Report(i, "failed")
    /\ recovery' = [recovery EXCEPT ![i] = [at |-> "failed", version |-> 0]]
    /\ wake' = {Scan}
    /\ Dismiss(i)

\* createIssueCapacityWaitProjection: the state and revision that wait.
WaitOf(i) == [is |-> "capacity-waiting", version |-> worker[i].version,
              base |-> worker[i].request.base]

\* No candidate Worker has capacity: the Issue waits with its label.
Defer(i) ==
    /\ worker[i].at = "ready" /\ Executed(i) = {}
    /\ Spend("deferrals")
    /\ status' = [status EXCEPT ![i] = WaitOf(i)]
    /\ Dismiss(i)
    /\ UNCHANGED <<issue, base, ofDispatch, queue, recovery, journal, irregular>>

\* Mutant: an execution that ended is started again.
MutantReplayable(i) == {}

\* runRoleWorker does not start an execution again.
Replayable(i) == Executed(i)

StartModel(i) ==
    /\ worker[i].at = "ready" /\ Replayable(i) = {}
    /\ Entered(i, "started")
    /\ Employ(i, [worker[i] EXCEPT !.at = "running"])
    /\ UNCHANGED <<issue, base, ofDispatch, queue, status, recovery, left, irregular>>

\* A completed execution is replayed up to the check of its result; any other
\* is an error.
Replay(i) ==
    /\ worker[i].at = "ready" /\ Replayable(i) # {}
    /\ IF \E e \in Executed(i) : e.is = "completed"
       THEN /\ Employ(i, [worker[i] EXCEPT !.at = "checking"])
            /\ UNCHANGED <<issue, status, recovery, wake>>
       ELSE EndInError(i)
    /\ UNCHANGED <<base, governor, run, queue, journal, left, irregular>>

\* The Agent opens the pull request that closes the Issue.
OpenPull(i) ==
    /\ worker[i].at = "running" /\ ~ issue[i].pull
    /\ issue' = [issue EXCEPT ![i].pull = TRUE]
    /\ UNCHANGED <<base, ofDispatch, ofWorker, left, irregular>>

Complete(i) ==
    /\ worker[i].at = "running"
    /\ Entered(i, "completed")
    /\ Employ(i, [worker[i] EXCEPT !.at = "checking"])
    /\ UNCHANGED <<issue, base, ofDispatch, queue, status, recovery, left, irregular>>

\* The Worker gives its label up after it opened a pull request, while a run of
\* the dispatcher that read the pull requests before has yet to read the Issues.
Overlooked(i) ==
    irregular' = [irregular EXCEPT ![i] =
        IF run.at = "reading" /\ issue[i].pull /\ i \notin run.pulls
        THEN @ \union {"overlooked"} ELSE @]

Block(i) ==
    /\ worker[i].at = "running"
    /\ Entered(i, "blocked")
    /\ issue' = [issue EXCEPT ![i].labels = (@ \ {"dsh"}) \union {"blocked"}]
    /\ Report(i, "blocked")
    /\ Dismiss(i)
    /\ Overlooked(i)
    /\ UNCHANGED <<base, ofDispatch, queue, recovery, left>>

FailModel(i) ==
    /\ worker[i].at = "running"
    /\ Entered(i, "failed")
    /\ EndInError(i)
    /\ Overlooked(i)
    /\ UNCHANGED <<base, governor, run, queue, left>>

\* A completed execution counts only with its pull request.
Check(i) ==
    /\ worker[i].at = "checking"
    /\ IF issue[i].pull
       THEN Report(i, "complete") /\ Dismiss(i) /\ UNCHANGED <<issue, recovery, wake>>
       ELSE EndInError(i)
    /\ UNCHANGED <<base, governor, run, queue, journal, left, irregular>>

\* The checkout fails before a model call.
FailSetup(i) ==
    /\ worker[i].at = "ready"
    /\ Spend("faults")
    /\ EndInError(i)
    /\ UNCHANGED <<base, governor, run, queue, journal, irregular>>

\* The runner is lost: the run fails with its last status and its label.
Kill(i) ==
    /\ worker[i].at # "idle"
    /\ Spend("faults")
    /\ recovery' = [recovery EXCEPT ![i] =
            IF worker[i].at \in {"verifying", "surveying"} THEN @
            ELSE [at |-> "failed", version |-> 0]]
    /\ Dismiss(i)
    /\ UNCHANGED <<issue, base, ofDispatch, queue, status, journal, irregular>>

WorkerStep(i) ==
    \/ Take(i) \/ Verify(i) \/ Survey(i) \/ StartModel(i) \/ Replay(i)
    \/ Complete(i) \/ Check(i)

-----------------------------------------------------------------------------
(* What brings an Issue back.                                              *)

\* governRecovery: candidate, admission and attempt are written by one run.
AdmitRecovery(i) ==
    /\ recovery[i].at = "failed"
    /\ IF /\ issue[i].open /\ "paused" \notin issue[i].labels /\ ~ Epoch(i).paused
          /\ Epoch(i).recovered[issue[i].version] # "applied"
       THEN IF Epoch(i).attempts < RecoveryLimit
            THEN /\ governor' = [governor EXCEPT
                        ![i].epoch.attempts = @ + 1,
                        ![i].epoch.recovered[issue[i].version] = "admitted"]
                 /\ recovery' = [recovery EXCEPT ![i] =
                        [at |-> "admitted", version |-> issue[i].version]]
                 /\ UNCHANGED issue
            ELSE /\ governor' = [governor EXCEPT ![i].epoch.paused = TRUE]
                 /\ issue' = [issue EXCEPT ![i].labels = @ \union {"paused"}]
                 /\ recovery' = [recovery EXCEPT ![i] = NoRecovery]
       ELSE /\ recovery' = [recovery EXCEPT ![i] = NoRecovery]
            /\ UNCHANGED <<issue, governor>>
    /\ UNCHANGED <<base, wake, run, queue, worker, status, journal, left, irregular>>

ApplyRecovery(i) ==
    /\ recovery[i].at = "admitted"
    /\ governor' = [governor EXCEPT
            ![i].epoch.recovered[recovery[i].version] = "applied"]
    /\ recovery' = [recovery EXCEPT ![i].at = "applied"]
    /\ UNCHANGED <<issue, base, wake, run, queue, worker, status, journal, left, irregular>>

\* A retry labels the Issue with the workflow's own token, which wakes nobody,
\* and posts a dsh-issue event without a WorkRequest, which no target workflow
\* listens to; a failure of authentication or protocol gets the label failed.
Relabel(i) ==
    /\ recovery[i].at = "applied"
    /\ \/ issue' = [issue EXCEPT ![i].labels = (@ \ {"failed"}) \union {"dsh"}]
       \/ issue' = [issue EXCEPT ![i].labels = @ \union {"failed"}]
    /\ recovery' = [recovery EXCEPT ![i] = NoRecovery]
    /\ irregular' = [irregular EXCEPT ![i] = @ \union {"relabelled"}]
    /\ UNCHANGED <<base, ofDispatch, queue, worker, status, journal, left>>

\* The recovery dies between two requests.
LoseRecovery(i) ==
    /\ recovery[i].at # "none"
    /\ Spend("faults")
    /\ recovery' = [recovery EXCEPT ![i] = NoRecovery]
    /\ UNCHANGED <<issue, base, ofDispatch, queue, worker, status, journal, irregular>>

\* The schedule of agent-landing-reconcile scans the backlog.
Scheduled ==
    /\ wake' = {Scan}
    /\ UNCHANGED <<issue, base, governor, run, ofWorker, left, irregular>>

\* evaluateCapacityWaitResume: the wait is of the state and revision that the
\* Issue still has.
WaitIsCurrent(i) ==
    /\ status[i].version = issue[i].version
    /\ status[i].base = base

\* The Issue shows one capacity wait and nothing that ended its work.
Resumable(i) ==
    /\ issue[i].open /\ "dsh" \in issue[i].labels
    /\ issue[i].labels \cap {"paused", "failed", "blocked"} = {}
    /\ status[i].is = "capacity-waiting"
    /\ DeclarationNow(i).declares = "work" /\ DeclarationNow(i).ready
    /\ WaitIsCurrent(i)

\* The other job of a scheduled run, beside the dispatcher: it dispatches the
\* first wait for which a Worker has capacity.  The request carries what was
\* read, however long it is pending.
ResumeCapacity(i) ==
    /\ Resumable(i)
    /\ queue' = [queue EXCEPT ![i] = {RequestFor(issue[i].version, base)}]
    /\ UNCHANGED <<issue, base, ofDispatch, worker, status, recovery, journal,
                   left, irregular>>

-----------------------------------------------------------------------------
(* People, GitHub and the rest of the automation.                          *)

\* The issue and perhaps a pending wake; nothing else.
Outside(i, now, woken) ==
    /\ issue' = [issue EXCEPT ![i] = now]
    /\ wake' = IF woken = {} THEN wake ELSE woken
    /\ UNCHANGED <<base, governor, run, ofWorker>>

\* The new text does not declare work, or is one that was dispatched before.
EditMarks(i, version) ==
    (IF DeclarationOf[version].declares = "work" THEN {} ELSE {"undeclared"})
    \union (IF version \in governor[i].attested THEN {"restored"} ELSE {})

Edit(i) ==
    /\ Spend("edits")
    /\ \E v \in Versions \ {issue[i].version} :
        /\ Outside(i, [issue[i] EXCEPT !.version = v], {Scan})
        /\ irregular' = [irregular EXCEPT ![i] = @ \union EditMarks(i, v)]

\* A trusted person sets agent/dsh, which asks for this Issue, or takes a label.
AskFor(i) ==
    /\ Spend("labels")
    /\ "dsh" \notin issue[i].labels
    /\ Outside(i, [issue[i] EXCEPT !.labels = @ \union {"dsh"}],
               {i})
    /\ irregular' = [irregular EXCEPT ![i] = @ \union {"relabelled"}]

TakeLabel(i) ==
    /\ Spend("labels")
    /\ \E label \in issue[i].labels :
        Outside(i, [issue[i] EXCEPT !.labels = @ \ {label}], {})
    /\ irregular' = [irregular EXCEPT ![i] = @ \union {"relabelled"}]

\* A person answers the Governor's pause; a pause without its record stays.
Resume(i) ==
    /\ Spend("labels")
    /\ issue[i].open /\ "paused" \in issue[i].labels /\ Epoch(i).paused
    /\ governor' = [governor EXCEPT ![i].epoch = NewEpoch]
    /\ issue' = [issue EXCEPT ![i].labels = @ \ {"paused"}]
    /\ irregular' = [irregular EXCEPT ![i] = @ \union {"resumed"}]
    /\ UNCHANGED <<base, wake, run, ofWorker>>

\* The pull request is merged, which closes the Issue and moves the base.
Land(i) ==
    /\ issue[i].pull /\ base < MaxBase
    /\ issue' = [issue EXCEPT ![i].pull = FALSE, ![i].open = FALSE]
    /\ base' = base + 1
    /\ wake' = {Scan}
    /\ UNCHANGED <<governor, run, ofWorker, left, irregular>>

\* It is closed without a merge, which wakes nobody.
Abandon(i) ==
    /\ Spend("states")
    /\ issue[i].pull
    /\ Outside(i, [issue[i] EXCEPT !.pull = FALSE], {})
    /\ UNCHANGED irregular

CloseOrReopen(i) ==
    /\ Spend("states")
    /\ Outside(i, [issue[i] EXCEPT !.open = ~ @], {Scan})
    /\ irregular' = IF issue[i].open THEN irregular
                    ELSE [irregular EXCEPT ![i] = @ \union {"reopened"}]

MoveBase ==
    /\ Spend("moves")
    /\ base < MaxBase
    /\ base' = base + 1
    /\ wake' = {Scan}
    /\ UNCHANGED <<issue, governor, run, ofWorker, irregular>>

Next ==
    \/ Dispatcher \/ Fault \/ Scheduled \/ MoveBase
    \/ \E i \in Issues :
        \/ WorkerStep(i) \/ Defer(i) \/ OpenPull(i) \/ Block(i) \/ FailModel(i)
        \/ FailSetup(i) \/ Kill(i)
        \/ AdmitRecovery(i) \/ ApplyRecovery(i) \/ Relabel(i) \/ LoseRecovery(i)
        \/ ResumeCapacity(i)
        \/ Edit(i) \/ AskFor(i) \/ TakeLabel(i) \/ Resume(i)
        \/ Land(i) \/ Abandon(i) \/ CloseOrReopen(i)

Spec == Init /\ [][Next]_vars

(***************************************************************************)
(* GitHub starts pending runs and the schedule, and a run that lives makes *)
(* its next request.                                                       *)
(***************************************************************************)
Fairness == WF_vars(Dispatcher) /\ WF_vars(Scheduled)

\* Besides, a Worker ends within its finite timeout and a failed run is
\* recovered.
WorkerFairness ==
    \A i \in Issues :
        /\ WF_vars(WorkerStep(i) \/ FailModel(i))
        /\ WF_vars(AdmitRecovery(i) \/ ApplyRecovery(i) \/ Relabel(i))

FairSpec == Spec /\ Fairness
FairWorkerSpec == FairSpec /\ WorkerFairness

-----------------------------------------------------------------------------
(* Safety.                                                                 *)

\* What takes an Issue out of the count of the limit: a person or a recovery set
\* or took labels, it was reopened, its text stopped declaring work, or its pull
\* request fell between the two reads of a dispatcher.
Uncounted == {"relabelled", "reopened", "undeclared", "overlooked"}

\* The coordination limit holds for Workers and pull requests, whatever the
\* order in which the snapshot, the labels, the Workers and their failures
\* fall, unless an Issue is out of the count (activeWorkflowIssueNumbers).
WithinLimit ==
    Cardinality({i \in Issues :
        /\ issue[i].open /\ irregular[i] \cap Uncounted = {}
        /\ worker[i].at = "running" \/ issue[i].pull}) <= Limit

\* What lets a state be executed again: a person resumed the Issue, the
\* dispatcher was cut off between the request and its record, or the Issue was
\* edited back to a text that was dispatched before.
Repeatable == {"resumed", "unrecorded", "restored"}

\* A model is started at most once for one state of an Issue, over dispatches,
\* resumed waits, lost runs, edits and moves of the base, unless the state may be
\* executed again.
OneStartPerState ==
    [][\A i \in Issues :
        StartModel(i) =>
            \/ irregular[i] \cap Repeatable # {}
            \/ \A e \in journal[i] : e.execution[1] # worker[i].version]_vars

\* The batch admits the Issue and the Governor has not settled its state.
Due(i) ==
    /\ ~ Epoch(i).paused /\ Epoch(i).dispatch[issue[i].version] # "applied"
    /\ i \in SelectBatch({j \in Issues : issue[j].pull})

\* An Issue that is due is dispatched in the end, or stops being due: displaced
\* wakes, refused requests and runs that die only delay it.
DueIsDispatched == \A i \in Issues : Due(i) ~> ~ Due(i)

\* An Issue that a recovery dispatched again is worked on, unless something
\* else happens to it.
RecoveredIsRun ==
    \A i \in Issues :
        (recovery[i].at = "applied" /\ issue[i].open)
            ~> (\/ worker[i].at # "idle" \/ issue[i].pull \/ ~ issue[i].open
                \/ issue[i].labels # {"dsh"} /\ recovery[i].at = "none")
=============================================================================

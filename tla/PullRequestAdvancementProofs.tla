-------------------- MODULE PullRequestAdvancementProofs --------------------
(***************************************************************************)
(* What holds of the advancement of a pull request whichever heads are     *)
(* pushed, however often the base moves, people label, reviews are         *)
(* delivered twice and runs die: what is recorded as applied has happened, *)
(* and what landing merges was reviewed on that base and head.             *)
(***************************************************************************)
EXTENDS PullRequestAdvancement, WellFoundedInduction, TLAPS

-----------------------------------------------------------------------------
(* The inductive invariant                                                 *)

Verdict == {"running", "pass", "block", "retry", "pause", "neutral", "failed", "unnamed"}
Check == [base : 1 .. MaxBase, verdict : Verdict, ran : {"live", "ended", "cancelled"}]

\* Where a review run is, and when it has a check of its own on the head.
Reviewing == {"idle", "starting", "working", "checking", "publishing", "waking", "finishing"}
Reporting == {"checking", "publishing", "waking", "finishing"}

\* Where an advancement run is: before its action is chosen, and after.
Observing == {"idle", "reading", "checking", "deciding"}
Landing == {"evidence", "rereading", "revalidating", "merging", "settling", "closing"}
Acting == {"candidate", "effect", "polling", "applying"} \union Landing

PullRequestOk(p) ==
    p \in [state : {"open", "merged", "closed"}, base : 1 .. MaxBase, head : Head1,
           upToDate : BOOLEAN, mergeable : {"unknown", "mergeable", "conflicting"},
           ready : BOOLEAN, paused : BOOLEAN]

SeenOk(seen) ==
    seen \in [state : {"open", "merged", "closed"}, base : 1 .. MaxBase, head : Head1,
              mergeable : {"unknown", "mergeable", "conflicting"}, ready : BOOLEAN,
              review : {"missing", "pending", "untrusted", "pass", "block"},
              ci : {"pending", "passed", "failed"}]

RunOk(r) ==
    /\ r = [at |-> r.at, pair |-> r.pair, action |-> r.action, seen |-> r.seen]
    /\ r.at \in Observing \union Acting
    /\ r.pair \in (0 .. MaxBase) \X Head1
    /\ r.at \in Acting => r.pair \in Pair
    /\ r.action \in {"review", "rereview", "repair", "landing"}
    /\ r.at \in Landing => r.action = "landing"
    /\ SeenOk(r.seen)

AdvancementTypeOK ==
    /\ PullRequestOk(pr)
    /\ ci \in [Head1 -> {"pending", "passed", "failed"}]
    /\ checks \in [Head1 -> Seq(Check)]
    /\ reviewer \in [at : Reviewing, pair : Pair]
    /\ coming \in [ReviewRequest -> Nat]
    /\ receipts \subseteq ReviewRequest
    /\ failed \subseteq Pair
    /\ ledger \in [requested : SUBSET Pair, admitted : SUBSET Pair,
                   recovering : SUBSET Pair, paused : BOOLEAN, pauses : SUBSET Pair]
    /\ journal \subseteq Identity
    /\ wake \subseteq (0 .. MaxBase) \X Head1
    /\ RunOk(run)
    /\ issue \in [closed : BOOLEAN, woken : BOOLEAN]
    /\ left \in [pushes : Nat, moves : Nat, faults : Nat, labels : Nat, copies : Nat \ {0},
                 verdicts : SUBSET {"pass", "block", "retry", "pause"}]
    /\ deferred \in BOOLEAN

\* The check of the run that reports is the last one on its head, and is live:
\* nobody else may complete it, and it completes no other.
ReporterOwnsCheck ==
    reviewer.at \in Reporting =>
        LET there == checks[reviewer.pair[2]]
        IN  /\ there # << >>
            /\ Newest(there).base = reviewer.pair[1]
            /\ Newest(there).ran = "live"
            /\ reviewer.at = "publishing" => Newest(there).verdict \in {"block", "retry", "pause"}

\* What the record of a transition says has happened.
Happened(t) ==
    /\ t.action = "landing" => pr.state = "merged" /\ issue.closed /\ issue.woken
    /\ t.action \in {"review", "rereview"} => t \in receipts

EffectsFirst ==
    /\ run.at = "closing" => pr.state = "merged"
    /\ run.at = "applying" => Happened(Transition)

\* A review of exactly this pair passed and has ended.
Passed(base, head) ==
    \E i \in DOMAIN checks[head] :
        /\ checks[head][i].base = base
        /\ checks[head][i].verdict = "pass" /\ checks[head][i].ran = "ended"

\* What landing has read of the base and of the reviews is out of date only when
\* the head or its being up to date is.
EvidenceHolds ==
    /\ run.at = "revalidating" =>
         /\ run.seen.head <= pr.head
         /\ run.seen.head = pr.head => run.seen.base = pr.base \/ ~ pr.upToDate
    /\ run.at = "merging" =>
         /\ run.pair[2] <= pr.head
         /\ run.pair[2] = pr.head => Passed(pr.base, pr.head) \/ ~ pr.upToDate

AdvancementInv ==
    /\ AdvancementTypeOK /\ ReporterOwnsCheck
    /\ EffectsFirst /\ EvidenceHolds /\ AppliedHappened

-----------------------------------------------------------------------------
(* The newest check                                                        *)

\* A nonempty set of naturals has a least element.
LEMMA LeastNatural ==
    ASSUME NEW S, S \subseteq Nat, S # {}
    PROVE  \E m \in S : \A n \in S : m <= n
<1> DEFINE R == OpToRel(<, Nat)
<1>1. IsWellFoundedOn(R, Nat)
  BY NatLessThanWellFounded
<1>2. \A y, x \in Nat : <<y, x>> \in R <=> y < x
  BY DEF OpToRel
<1> HIDE DEF R
<1>3. \E m \in S : \A y \in S : <<y, m>> \notin R
  BY <1>1, WFMin
<1>4. PICK m \in S : \A y \in S : <<y, m>> \notin R
  BY <1>3
<1>5. ASSUME NEW y \in S PROVE m <= y
  <2>1. m \in Nat /\ y \in Nat /\ ~ (y < m)
    BY <1>2, <1>4
  <2>2. QED
    BY <2>1
<1>6. QED
  BY <1>4, <1>5

\* Max of the community modules chooses the greatest of numbers up to a bound.
LEMMA MaxMember ==
    ASSUME NEW n \in Nat, NEW S, S \subseteq 0 .. n, S # {}
    PROVE  Max(S) \in S /\ \A k \in S : Max(S) >= k
<1> DEFINE T == {n - k : k \in S}
<1>1. T \subseteq Nat /\ T # {}
  <2>1. \A k \in S : n - k \in Nat
    OBVIOUS
  <2>2. QED
    BY <2>1
<1>2. PICK m \in T : \A k \in T : m <= k
  BY <1>1, LeastNatural
<1>3. PICK k \in S : m = n - k
  OBVIOUS
<1>4. \A j \in S : n - k <= n - j
  BY <1>2, <1>3
<1>5. \E x \in S : \A j \in S : x >= j
  BY <1>4
<1>6. QED
  BY <1>5 DEF Max

\* A review that ended and counts as the newest one is there.
LEMMA LandablePassed ==
    ASSUME checks \in [Head1 -> Seq(Check)], NEW seen, NEW head \in Head1, Landable(seen, head)
    PROVE  seen.head = head /\ Passed(seen.base, head)
<1> DEFINE ended == EndedReviews(seen.base, head)
<1>1. /\ seen.head = head /\ ended # {}
      /\ checks[head][Max(ended)].verdict = "pass" /\ checks[head][Max(ended)].ran = "ended"
  BY DEF Landable
<1>2. checks[head] \in Seq(Check) /\ Len(checks[head]) \in Nat
      /\ DOMAIN checks[head] = 1 .. Len(checks[head])
  OBVIOUS
<1>3. ended \subseteq DOMAIN checks[head] /\ \A i \in ended : checks[head][i].base = seen.base
  BY DEF EndedReviews
<1>4. ended \subseteq 0 .. Len(checks[head])
  BY <1>2, <1>3
<1> HIDE DEF ended
<1>5. Max(ended) \in ended
  BY <1>1, <1>2, <1>4, MaxMember
<1>6. QED
  BY <1>1, <1>3, <1>5 DEF Passed

\* The check of the run that reports is the last on its head.
LEMMA OwnCheck ==
    ASSUME AdvancementTypeOK, ReporterOwnsCheck, reviewer.at \in Reporting
    PROVE  /\ reviewer.pair \in Pair /\ reviewer.pair[2] \in Head1
           /\ reviewer.pair[1] \in 1 .. MaxBase
           /\ checks[reviewer.pair[2]] \in Seq(Check)
           /\ CheckOf(reviewer.pair) = Len(checks[reviewer.pair[2]])
           /\ CheckOf(reviewer.pair) \in DOMAIN checks[reviewer.pair[2]]
           /\ checks[reviewer.pair[2]][CheckOf(reviewer.pair)].base = reviewer.pair[1]
           /\ checks[reviewer.pair[2]][CheckOf(reviewer.pair)].ran = "live"
           /\ reviewer.at = "publishing" =>
                checks[reviewer.pair[2]][CheckOf(reviewer.pair)].verdict
                    \in {"block", "retry", "pause"}
<1> DEFINE there == checks[reviewer.pair[2]]
           mine == {i \in DOMAIN there : there[i].base = reviewer.pair[1]}
<1>1. /\ reviewer.pair \in Pair /\ reviewer.pair[2] \in Head1
      /\ reviewer.pair[1] \in 1 .. MaxBase
  BY DEF AdvancementTypeOK, Pair
<1>2. there \in Seq(Check)
  BY <1>1 DEF AdvancementTypeOK
<1>3. /\ there # << >> /\ there[Len(there)].base = reviewer.pair[1]
      /\ there[Len(there)].ran = "live"
      /\ reviewer.at = "publishing" => there[Len(there)].verdict \in {"block", "retry", "pause"}
  BY DEF ReporterOwnsCheck, Newest
<1> HIDE DEF there
<1>4. Len(there) \in DOMAIN there /\ DOMAIN there = 1 .. Len(there) /\ Len(there) \in Nat
  BY <1>2, <1>3
<1>5. Len(there) \in mine /\ mine \subseteq 0 .. Len(there)
  BY <1>3, <1>4
<1>6. CheckOf(reviewer.pair) = Max(mine)
  BY DEF CheckOf, there
<1> HIDE DEF mine
<1>7. Max(mine) \in mine /\ Max(mine) >= Len(there)
  BY <1>4, <1>5, MaxMember
<1>8. Max(mine) = Len(there)
  <2>1. Max(mine) \in 0 .. Len(there)
    BY <1>5, <1>7
  <2>2. QED
    BY <1>4, <1>7, <2>1
<1>9. QED
  BY <1>1, <1>2, <1>3, <1>4, <1>6, <1>8 DEF there

-----------------------------------------------------------------------------
(* What the steps share                                                    *)

\* Nobody advances, reports or works yet.
LEMMA NothingYet == RunOk(NoRun) /\ NoReviewer \in [at : Reviewing, pair : Pair]
<1>1. <<1, 1>> \in (0 .. MaxBase) \X Head1 /\ <<1, 1>> \in Pair /\ 1 \in 1 .. MaxBase /\ 1 \in Head1
  BY AdvancementAssumption DEF Head1, Pair
<1>2. SeenOk(NoRun.seen)
  BY <1>1 DEF SeenOk, NoRun
<1>3. QED
  BY <1>1, <1>2 DEF RunOk, NoRun, NoReviewer, Reviewing, Observing, Acting, Landing

\* The pair of a pull request, and what a read of it keeps.
LEMMA PairTyped ==
    ASSUME NEW p, PullRequestOk(p)
    PROVE  /\ PairOf(p) \in Pair /\ PairOf(p) \in (0 .. MaxBase) \X Head1
           /\ p.head \in Head1 /\ p.base \in 1 .. MaxBase
           /\ SeenOf(p) \in [state : {"open", "merged", "closed"}, base : 1 .. MaxBase,
                             head : Head1, mergeable : {"unknown", "mergeable", "conflicting"},
                             ready : BOOLEAN, review : {"missing"}, ci : {"pending"}]
           /\ SeenOk(SeenOf(p))
BY AdvancementAssumption DEF PullRequestOk, PairOf, Pair, Head1, SeenOf, SeenOk

\* One of what may still happen is spent.
LEMMA SpentTyped ==
    ASSUME NEW what \in {"pushes", "moves", "faults", "labels"}, AdvancementTypeOK,
           Spend(what) \/ (what = "faults" /\ Defer) \/ UNCHANGED spent
    PROVE  /\ left' \in [pushes : Nat, moves : Nat, faults : Nat, labels : Nat,
                         copies : Nat \ {0},
                         verdicts : SUBSET {"pass", "block", "retry", "pause"}]
           /\ deferred' \in BOOLEAN
<1>1. CASE UNCHANGED spent
  BY <1>1 DEF AdvancementTypeOK, spent
<1>2. CASE Use(what) /\ deferred' \in BOOLEAN
  <2>1. /\ left \in [pushes : Nat, moves : Nat, faults : Nat, labels : Nat,
                     copies : Nat \ {0},
                     verdicts : SUBSET {"pass", "block", "retry", "pause"}]
        /\ left[what] > 0 /\ left' = [left EXCEPT ![what] = left[what] - 1]
    BY <1>2 DEF Use, AdvancementTypeOK
  <2>2. left[what] \in Nat
    BY <2>1
  <2>3. left[what] - 1 \in Nat
    BY <2>1, <2>2
  <2>4. QED
    BY <1>2, <2>1, <2>3
<1>3. QED
  BY <1>1, <1>2 DEF Spend, Defer, AdvancementTypeOK

\* While an advancement run stands still, nothing that others do to the pull
\* request, to the reviews and their receipts spoils its evidence or what is
\* recorded, as long as a merged pull request stays merged, a base moves under a
\* head only by taking its being up to date, and a review that passed stays.
LEMMA Bystander ==
    ASSUME AdvancementInv, PullRequestOk(pr'),
           run' = run, journal' = journal, issue' = issue, receipts \subseteq receipts',
           pr.state = "merged" => pr'.state = "merged",
           \/ /\ pr'.head = pr.head
              /\ ~ pr'.upToDate \/ (pr'.upToDate = pr.upToDate /\ pr'.base = pr.base)
           \/ pr'.head = pr.head + 1,
           \A b \in 1 .. MaxBase, h \in Head1 : Passed(b, h) => Passed(b, h)'
    PROVE  EffectsFirst' /\ EvidenceHolds' /\ AppliedHappened'
<1>1. EffectsFirst'
  BY DEF AdvancementInv, EffectsFirst, Happened, Transition
<1>2. AppliedHappened'
  BY DEF AdvancementInv, AppliedHappened
<1>3. /\ pr.head \in Head1 /\ pr'.head \in Head1 /\ pr.base \in 1 .. MaxBase
      /\ run.seen.head \in Head1 /\ run.pair[2] \in Head1
      /\ pr.head \in Nat /\ pr'.head \in Nat /\ run.seen.head \in Nat /\ run.pair[2] \in Nat
  <2>1. PullRequestOk(pr) /\ RunOk(run)
    BY DEF AdvancementInv, AdvancementTypeOK
  <2>2. run.pair[2] \in Head1 /\ run.seen.head \in Head1
    BY <2>1 DEF RunOk, SeenOk
  <2>3. pr.head \in Head1 /\ pr'.head \in Head1 /\ pr.base \in 1 .. MaxBase
    BY <2>1 DEF PullRequestOk
  <2>4. QED
    BY <2>2, <2>3, AdvancementAssumption DEF Head1
<1>4. ASSUME run.at = "revalidating"
      PROVE  /\ run.seen.head <= pr'.head
             /\ run.seen.head = pr'.head => run.seen.base = pr'.base \/ ~ pr'.upToDate
  BY <1>3, <1>4 DEF AdvancementInv, EvidenceHolds
<1>5. ASSUME run.at = "merging"
      PROVE  /\ run.pair[2] <= pr'.head
             /\ run.pair[2] = pr'.head => Passed(pr.base, pr.head)' \/ ~ pr'.upToDate
  <2>1. /\ run.pair[2] <= pr.head
        /\ run.pair[2] = pr.head => Passed(pr.base, pr.head) \/ ~ pr.upToDate
    BY <1>5 DEF AdvancementInv, EvidenceHolds
  <2>2. run.pair[2] <= pr'.head
    BY <1>3, <2>1
  <2>3. ASSUME run.pair[2] = pr'.head, pr'.upToDate PROVE Passed(pr.base, pr.head)'
    <3>1. pr'.head = pr.head /\ pr.upToDate /\ pr'.base = pr.base
      <4>1. pr'.head # pr.head + 1
        BY <1>3, <2>1, <2>3
      <4>2. QED
        BY <2>3, <4>1
    <3>2. Passed(pr.base, pr.head)
      BY <2>1, <2>3, <3>1
    <3>3. PICK i \in DOMAIN checks'[pr.head] :
              /\ checks'[pr.head][i].base = pr.base
              /\ checks'[pr.head][i].verdict = "pass" /\ checks'[pr.head][i].ran = "ended"
      BY <1>3, <3>2 DEF Passed
    <3>4. QED
      BY <3>1, <3>3 DEF Passed
  <2>4. QED
    BY <2>2, <2>3
<1>6. EvidenceHolds'
  BY <1>4, <1>5 DEF EvidenceHolds
<1>7. QED
  BY <1>1, <1>2, <1>6

\* A review that passed is found again in checks that are the same.
LEMMA SameChecks ==
    ASSUME UNCHANGED checks, NEW b, NEW h, Passed(b, h)
    PROVE  Passed(b, h)'
BY DEF Passed

-----------------------------------------------------------------------------
(* Init, and the steps of GitHub and its users                             *)

\* A pull request that was opened and is woken for has nothing done on it.
LEMMA InitInv ==
    ASSUME AdvancementInit
    PROVE  AdvancementInv
<1>1. 1 \in 1 .. MaxBase /\ 1 \in Head1 /\ <<1, 1>> \in (0 .. MaxBase) \X Head1
  BY AdvancementAssumption DEF Head1
<1>2. PullRequestOk(pr)
  BY <1>1 DEF AdvancementInit, PullRequestOk
<1>3. AdvancementTypeOK
  <2>1. /\ ci \in [Head1 -> {"pending", "passed", "failed"}]
        /\ coming \in [ReviewRequest -> Nat]
        /\ receipts \subseteq ReviewRequest /\ failed \subseteq Pair /\ journal \subseteq Identity
        /\ issue \in [closed : BOOLEAN, woken : BOOLEAN] /\ deferred \in BOOLEAN
    BY DEF AdvancementInit
  <2>2. checks \in [Head1 -> Seq(Check)]
    BY DEF AdvancementInit
  <2>3. ledger \in [requested : SUBSET Pair, admitted : SUBSET Pair,
                    recovering : SUBSET Pair, paused : BOOLEAN, pauses : SUBSET Pair]
    BY DEF AdvancementInit
  <2>4. left \in [pushes : Nat, moves : Nat, faults : Nat, labels : Nat, copies : Nat \ {0},
                  verdicts : SUBSET {"pass", "block", "retry", "pause"}]
    BY AdvancementAssumption DEF AdvancementInit
  <2>5. wake \subseteq (0 .. MaxBase) \X Head1
    BY <1>1 DEF AdvancementInit
  <2>6. RunOk(run) /\ reviewer \in [at : Reviewing, pair : Pair]
    BY NothingYet DEF AdvancementInit
  <2>7. QED
    BY <1>2, <2>1, <2>2, <2>3, <2>4, <2>5, <2>6 DEF AdvancementTypeOK
<1>4. ReporterOwnsCheck
  BY DEF AdvancementInit, NoReviewer, ReporterOwnsCheck, Reporting
<1>5. EffectsFirst /\ EvidenceHolds /\ AppliedHappened
  BY DEF AdvancementInit, NoRun, EffectsFirst, EvidenceHolds, AppliedHappened
<1>6. QED
  BY <1>3, <1>4, <1>5 DEF AdvancementInv

\* The steps that run no automation of the controller.
GitHubNext ==
    \/ Push \/ MoveBase \/ ResolveMergeability \/ CompleteCi \/ MarkReady
    \/ Resume \/ Leave \/ Schedule \/ Admit

\* What they may do to the pull request.
LEMMA PullRequestSteps ==
    ASSUME AdvancementInv, GitHubNext
    PROVE  /\ PullRequestOk(pr')
           /\ pr.state = "merged" => pr'.state = "merged"
           /\ \/ /\ pr'.head = pr.head
                 /\ ~ pr'.upToDate \/ (pr'.upToDate = pr.upToDate /\ pr'.base = pr.base)
              \/ pr'.head = pr.head + 1
<1> USE DEF PullRequestOk
<1>1. PullRequestOk(pr)
  BY DEF AdvancementInv, AdvancementTypeOK
<1>2. CASE Push
  <2>1. PICK upToDate \in {pr.upToDate, TRUE} :
            pr' = [pr EXCEPT !.head = pr.head + 1, !.upToDate = upToDate, !.mergeable = "unknown"]
    BY <1>2 DEF Push
  <2>2. pr.head + 1 \in Head1
    BY <1>1, <1>2, AdvancementAssumption DEF Push, Head1
  <2>3. QED
    BY <1>1, <1>2, <2>1, <2>2 DEF Push
<1>3. CASE MoveBase
  <2>1. pr.base + 1 \in 1 .. MaxBase
    BY <1>1, <1>3, AdvancementAssumption DEF MoveBase
  <2>2. QED
    BY <1>1, <1>3, <2>1 DEF MoveBase
<1>4. CASE ResolveMergeability
  BY <1>1, <1>4 DEF ResolveMergeability
<1>5. CASE MarkReady \/ Resume
  BY <1>1, <1>5 DEF MarkReady, Resume
<1>6. CASE Leave
  BY <1>1, <1>6 DEF Leave, Protection
<1>7. CASE UNCHANGED pr
  BY <1>1, <1>7
<1>8. QED
  BY <1>2, <1>3, <1>4, <1>5, <1>6, <1>7 DEF GitHubNext, CompleteCi, Schedule, Admit, github

\* CI, the wakes, the ledger and what may still happen.
LEMMA GitHubTypes ==
    ASSUME AdvancementInv, GitHubNext
    PROVE  /\ ci' \in [Head1 -> {"pending", "passed", "failed"}]
           /\ wake' \subseteq (0 .. MaxBase) \X Head1
           /\ ledger' \in [requested : SUBSET Pair, admitted : SUBSET Pair,
                           recovering : SUBSET Pair, paused : BOOLEAN, pauses : SUBSET Pair]
           /\ left' \in [pushes : Nat, moves : Nat, faults : Nat, labels : Nat,
                         copies : Nat \ {0},
                         verdicts : SUBSET {"pass", "block", "retry", "pause"}]
           /\ deferred' \in BOOLEAN
<1>1. AdvancementTypeOK /\ PullRequestOk(pr)
  BY DEF AdvancementInv, AdvancementTypeOK
<1>2. ci' \in [Head1 -> {"pending", "passed", "failed"}]
  BY <1>1 DEF AdvancementTypeOK, GitHubNext, Push, MoveBase, ResolveMergeability, CompleteCi,
              MarkReady, Resume, Leave, Schedule, Admit, github
<1>3. wake' \subseteq (0 .. MaxBase) \X Head1
  <2>1. /\ pr.head \in Head1 /\ pr.base \in 1 .. MaxBase
        /\ pr.base \in 0 .. MaxBase /\ 0 \in 0 .. MaxBase
        /\ pr.head < MaxHead => pr.head + 1 \in Head1
    BY <1>1, AdvancementAssumption DEF PullRequestOk, Head1
  <2>2. \/ wake' = wake \/ wake' = {<<0, pr.head>>} \/ wake' = {<<pr.base, pr.head>>}
        \/ pr.head < MaxHead /\ wake' = {<<pr.base, pr.head + 1>>}
    BY DEF GitHubNext, Push, MoveBase, ResolveMergeability, CompleteCi,
           MarkReady, Resume, Leave, Schedule, Admit, Wake
  <2>3. QED
    BY <1>1, <2>1, <2>2 DEF AdvancementTypeOK
<1>4. ledger' \in [requested : SUBSET Pair, admitted : SUBSET Pair,
                   recovering : SUBSET Pair, paused : BOOLEAN, pauses : SUBSET Pair]
  <2>1. Current \in Pair
    BY <1>1, PairTyped DEF Current
  <2>2. CASE UNCHANGED ledger
    BY <1>1, <2>2 DEF AdvancementTypeOK
  <2>3. CASE Resume
    BY <1>1, <2>3 DEF AdvancementTypeOK, Resume
  <2>4. CASE Admit
    BY <1>1, <2>1, <2>4 DEF AdvancementTypeOK, Admit
  <2>5. QED
    BY <2>2, <2>3, <2>4 DEF GitHubNext, Push, MoveBase, ResolveMergeability, CompleteCi,
                            MarkReady, Leave, Schedule
<1>5. \E what \in {"pushes", "moves", "labels"} : Spend(what) \/ UNCHANGED spent
  BY DEF GitHubNext, Push, MoveBase, ResolveMergeability, CompleteCi,
         MarkReady, Resume, Leave, Schedule, Admit
<1>6. QED
  BY <1>1, <1>2, <1>3, <1>4, <1>5, SpentTyped

\* Nothing of this touches a review, a run or a record.
LEMMA GitHubStep ==
    ASSUME AdvancementInv, GitHubNext
    PROVE  AdvancementInv'
<1>1. UNCHANGED <<checks, reviewer, coming, receipts, failed, journal, run, issue>>
  BY DEF GitHubNext, Push, MoveBase, ResolveMergeability, CompleteCi,
         MarkReady, Resume, Leave, Schedule, Admit, github, reviews
<1>2. AdvancementTypeOK'
  BY <1>1, PullRequestSteps, GitHubTypes DEF AdvancementInv, AdvancementTypeOK
<1>3. ReporterOwnsCheck'
  BY <1>1 DEF AdvancementInv, ReporterOwnsCheck
<1>4. \A b \in 1 .. MaxBase, h \in Head1 : Passed(b, h) => Passed(b, h)'
  BY <1>1, SameChecks
<1>5. EffectsFirst' /\ EvidenceHolds' /\ AppliedHappened'
  BY <1>1, <1>4, PullRequestSteps, Bystander
<1>6. QED
  BY <1>2, <1>3, <1>5 DEF AdvancementInv

-----------------------------------------------------------------------------
(* Review runs                                                             *)

\* A check that is added on a head is the newest there.
LEMMA CheckAdded ==
    ASSUME checks \in [Head1 -> Seq(Check)], NEW h \in Head1, NEW c \in Check,
           checks' = [checks EXCEPT ![h] = Append(checks[h], c)]
    PROVE  /\ checks' \in [Head1 -> Seq(Check)]
           /\ checks'[h] # << >> /\ Newest(checks'[h]) = c
           /\ \A b \in 1 .. MaxBase, g \in Head1 : Passed(b, g) => Passed(b, g)'
<1> DEFINE there == checks[h]
           next == Append(there, c)
<1>1. there \in Seq(Check)
  OBVIOUS
<1>2. /\ next \in Seq(Check) /\ Len(next) = Len(there) + 1 /\ next[Len(next)] = c
      /\ next # << >> /\ \A i \in DOMAIN there : i \in DOMAIN next /\ next[i] = there[i]
  BY <1>1
<1>3. checks'[h] = next /\ \A g \in Head1 \ {h} : checks'[g] = checks[g]
  OBVIOUS
<1> HIDE DEF next
<1>4. checks' \in [Head1 -> Seq(Check)]
  BY <1>2, <1>3
<1>5. ASSUME NEW b \in 1 .. MaxBase, NEW g \in Head1, Passed(b, g)
      PROVE  Passed(b, g)'
  BY <1>2, <1>3, <1>5 DEF Passed
<1>6. QED
  BY <1>2, <1>3, <1>4, <1>5 DEF Newest

\* A review that passed is none that is live, so it stays.
LEMMA CheckChanged ==
    ASSUME checks \in [Head1 -> Seq(Check)], NEW h \in Head1, NEW n \in DOMAIN checks[h],
           NEW c \in Check, checks[h][n].ran = "live",
           checks' = [checks EXCEPT ![h] = [checks[h] EXCEPT ![n] = c]]
    PROVE  /\ checks' \in [Head1 -> Seq(Check)]
           /\ Len(checks'[h]) = Len(checks[h])
           /\ checks'[h][n] = c
           /\ \A b \in 1 .. MaxBase, g \in Head1 : Passed(b, g) => Passed(b, g)'
<1> DEFINE there == checks[h]
           next == [there EXCEPT ![n] = c]
<1>1. there \in Seq(Check) /\ n \in DOMAIN there
  OBVIOUS
<1>4. checks'[h] = next /\ \A g \in Head1 \ {h} : checks'[g] = checks[g]
  OBVIOUS
<1>5. there[n].ran = "live"
  OBVIOUS
<1>6. /\ next \in Seq(Check) /\ Len(next) = Len(there) /\ next[n] = c
      /\ DOMAIN next = DOMAIN there /\ \A i \in DOMAIN there \ {n} : next[i] = there[i]
  BY <1>1
<1>7. checks' = [checks EXCEPT ![h] = next]
  OBVIOUS
<1> HIDE DEF next
<1>8. checks' \in [Head1 -> Seq(Check)]
  BY <1>6, <1>7
<1>9. ASSUME NEW b \in 1 .. MaxBase, NEW g \in Head1, Passed(b, g)
      PROVE  Passed(b, g)'
  <2>1. PICK i \in DOMAIN checks[g] : /\ checks[g][i].base = b
                                      /\ checks[g][i].verdict = "pass" /\ checks[g][i].ran = "ended"
    BY <1>9 DEF Passed
  <2>2. CASE g = h
    <3>1. i \in DOMAIN there \ {n} /\ i \in DOMAIN checks'[g]
      BY <1>4, <1>5, <1>6, <2>1, <2>2
    <3>2. checks'[g][i] = checks[g][i]
      BY <1>4, <1>6, <2>2, <3>1
    <3>3. QED
      BY <2>1, <3>1, <3>2 DEF Passed
  <2>3. CASE g # h
    BY <1>4, <2>1, <2>3 DEF Passed
  <2>4. QED
    BY <2>2, <2>3
<1>10. QED
  BY <1>4, <1>6, <1>8, <1>9

\* The run that reports completes or cancels its own check.
LEMMA OwnCheckChanged ==
    ASSUME AdvancementTypeOK, ReporterOwnsCheck, reviewer.at \in Reporting,
           NEW v \in Verdict, NEW r \in {"live", "ended", "cancelled"},
           \/ SetCheck(reviewer.pair, v, r)
           \/ /\ v = checks[reviewer.pair[2]][CheckOf(reviewer.pair)].verdict
              /\ checks' = [checks EXCEPT ![reviewer.pair[2]][CheckOf(reviewer.pair)].ran = r]
    PROVE  /\ checks' \in [Head1 -> Seq(Check)]
           /\ checks'[reviewer.pair[2]] # << >>
           /\ Newest(checks'[reviewer.pair[2]]).base = reviewer.pair[1]
           /\ Newest(checks'[reviewer.pair[2]]).ran = r
           /\ Newest(checks'[reviewer.pair[2]]).verdict = v
           /\ \A b \in 1 .. MaxBase, g \in Head1 : Passed(b, g) => Passed(b, g)'
<1> DEFINE h == reviewer.pair[2]
           n == CheckOf(reviewer.pair)
<1>1. /\ h \in Head1 /\ checks[h] \in Seq(Check) /\ n = Len(checks[h]) /\ n \in DOMAIN checks[h]
      /\ checks[h][n].base = reviewer.pair[1] /\ checks[h][n].ran = "live"
  BY OwnCheck
<1>2. checks \in [Head1 -> Seq(Check)]
  BY DEF AdvancementTypeOK
<1>3. checks[h][n] \in Check
  BY <1>1
<1>4. \/ checks' = [checks EXCEPT ![h][n].verdict = v, ![h][n].ran = r]
      \/ v = checks[h][n].verdict /\ checks' = [checks EXCEPT ![h][n].ran = r]
  BY DEF SetCheck
<1> HIDE DEF h, n
<1> DEFINE old == checks[h][n]
           c == [base |-> old.base, verdict |-> v, ran |-> r]
<1>5. ASSUME NEW d \in Check
      PROVE  /\ [d EXCEPT !.ran = r] = [base |-> d.base, verdict |-> d.verdict, ran |-> r]
             /\ [d EXCEPT !.verdict = v] = [base |-> d.base, verdict |-> v, ran |-> d.ran]
             /\ [d EXCEPT !.verdict = v] \in Check
             /\ [base |-> d.base, verdict |-> v, ran |-> r] \in Check
  BY DEF Check
<1>6. \/ checks' = [checks EXCEPT ![h] = [checks[h] EXCEPT ![n] =
                      [[old EXCEPT !.verdict = v] EXCEPT !.ran = r]]]
      \/ /\ v = old.verdict
         /\ checks' = [checks EXCEPT ![h] = [checks[h] EXCEPT ![n] = [old EXCEPT !.ran = r]]]
  BY <1>1, <1>2, <1>4
<1>7. c \in Check /\ checks' = [checks EXCEPT ![h] = [checks[h] EXCEPT ![n] = c]]
  <2>1. old \in Check
    BY <1>3
  <2> HIDE DEF old
  <2>2. c \in Check
    BY <1>5, <2>1
  <2>3. [[old EXCEPT !.verdict = v] EXCEPT !.ran = r] = c
    <3> DEFINE d == [old EXCEPT !.verdict = v]
    <3>1. d \in Check /\ d = [base |-> old.base, verdict |-> v, ran |-> old.ran]
      BY <1>5, <2>1
    <3> HIDE DEF d
    <3>2. [d EXCEPT !.ran = r] = [base |-> d.base, verdict |-> d.verdict, ran |-> r]
      BY <1>5, <3>1
    <3>3. QED
      BY <3>1, <3>2 DEF d
  <2>4. v = old.verdict => [old EXCEPT !.ran = r] = c
    BY <1>5, <2>1
  <2>5. QED
    BY <1>6, <2>2, <2>3, <2>4
<1>8. c.base = reviewer.pair[1] /\ c.ran = r /\ c.verdict = v
  BY <1>1
<1> HIDE DEF c, old
<1>9. /\ checks' \in [Head1 -> Seq(Check)] /\ Len(checks'[h]) = Len(checks[h])
      /\ checks'[h][n] = c
      /\ \A b \in 1 .. MaxBase, g \in Head1 : Passed(b, g) => Passed(b, g)'
  <2>1. checks[h][n].ran = "live" /\ n \in DOMAIN checks[h] /\ h \in Head1
    BY <1>1
  <2>2. QED
    BY <1>2, <1>7, <2>1, CheckChanged
<1>10. checks'[h] \in Seq(Check) /\ Len(checks'[h]) = n /\ n # 0
  BY <1>1, <1>9
<1>11. QED
  BY <1>8, <1>9, <1>10 DEF Newest, h

\* What a step of the reviews may change of the pull request.
SamePull ==
    /\ PullRequestOk(pr') /\ pr'.state = pr.state
    /\ pr'.head = pr.head /\ pr'.base = pr.base /\ pr'.upToDate = pr.upToDate

\* The types of what the reviews work on.
ReviewTypes ==
    /\ checks \in [Head1 -> Seq(Check)]
    /\ reviewer \in [at : Reviewing, pair : Pair]
    /\ coming \in [ReviewRequest -> Nat]
    /\ receipts \subseteq ReviewRequest
    /\ failed \subseteq Pair
    /\ ledger \in [requested : SUBSET Pair, admitted : SUBSET Pair,
                   recovering : SUBSET Pair, paused : BOOLEAN, pauses : SUBSET Pair]
    /\ wake \subseteq (0 .. MaxBase) \X Head1

\* A review run touches nothing that landing has read, but checks of its own.
LEMMA ReviewKeeps ==
    ASSUME AdvancementInv, SamePull, ReviewTypes', ReporterOwnsCheck',
           UNCHANGED <<run, journal, issue, ci>>, receipts \subseteq receipts',
           Spend("faults") \/ Defer \/ UNCHANGED spent,
           \A b \in 1 .. MaxBase, h \in Head1 : Passed(b, h) => Passed(b, h)'
    PROVE  AdvancementInv'
<1>1. EffectsFirst' /\ EvidenceHolds' /\ AppliedHappened'
  BY Bystander DEF SamePull
<1>2. /\ left' \in [pushes : Nat, moves : Nat, faults : Nat, labels : Nat,
                    copies : Nat \ {0},
                    verdicts : SUBSET {"pass", "block", "retry", "pause"}]
      /\ deferred' \in BOOLEAN
  BY SpentTyped DEF AdvancementInv
<1>3. AdvancementTypeOK'
  BY <1>2 DEF AdvancementInv, AdvancementTypeOK, ReviewTypes, SamePull
<1>4. QED
  BY <1>1, <1>3 DEF AdvancementInv

\* A run of a dispatched review takes the place of the one that is running.
LEMMA DeliverStep ==
    ASSUME AdvancementInv, Deliver
    PROVE  AdvancementInv'
<1>1. PICK request \in ReviewRequest :
        /\ coming[request] > 0
        /\ coming' = [coming EXCEPT ![request] = @ - 1]
        /\ receipts' = receipts \union {request}
        /\ failed' = EndedWithoutVerdict(reviewer)
        /\ checks' = IF reviewer.at \in {"checking", "publishing", "waking", "finishing"}
                     THEN [checks EXCEPT
                              ![reviewer.pair[2]][CheckOf(reviewer.pair)].ran = "cancelled"]
                     ELSE checks
        /\ reviewer' = [at |-> "starting", pair |-> request.pair]
        /\ UNCHANGED <<github, ledger, journal, wake, run, spent>>
  BY DEF Deliver
<1>2. AdvancementTypeOK /\ ReporterOwnsCheck
  BY DEF AdvancementInv
<1>3. request.pair \in Pair
  BY DEF ReviewRequest
<1>4. coming' \in [ReviewRequest -> Nat]
  BY <1>1, <1>2 DEF AdvancementTypeOK
<1>5. receipts' \subseteq ReviewRequest /\ receipts \subseteq receipts'
  BY <1>1, <1>2 DEF AdvancementTypeOK
<1>6. failed' \subseteq Pair
  BY <1>1, <1>2 DEF AdvancementTypeOK, EndedWithoutVerdict
<1>7. reviewer' \in [at : Reviewing, pair : Pair] /\ ReporterOwnsCheck'
  BY <1>1, <1>3 DEF Reviewing, ReporterOwnsCheck, Reporting
<1>8. /\ checks' \in [Head1 -> Seq(Check)]
      /\ \A b \in 1 .. MaxBase, h \in Head1 : Passed(b, h) => Passed(b, h)'
  <2>1. CASE reviewer.at \in Reporting
    <3>1. checks' = [checks EXCEPT ![reviewer.pair[2]][CheckOf(reviewer.pair)].ran = "cancelled"]
      BY <1>1, <2>1 DEF Reporting
    <3>2. checks[reviewer.pair[2]][CheckOf(reviewer.pair)] \in Check
      BY <1>2, <2>1, OwnCheck
    <3>3. checks[reviewer.pair[2]][CheckOf(reviewer.pair)].verdict \in Verdict
      BY <3>2 DEF Check
    <3>4. QED
      BY <1>2, <2>1, <3>1, <3>3, OwnCheckChanged
  <2>2. CASE reviewer.at \notin Reporting
    <3>1. UNCHANGED checks
      BY <1>1, <2>2 DEF Reporting
    <3>2. QED
      BY <1>2, <3>1, SameChecks DEF AdvancementTypeOK
  <2>3. QED
    BY <2>1, <2>2
<1>9. ReviewTypes' /\ SamePull
  BY <1>1, <1>2, <1>4, <1>5, <1>6, <1>7, <1>8 DEF ReviewTypes, SamePull, AdvancementTypeOK, github
<1>10. QED
  BY <1>1, <1>5, <1>7, <1>8, <1>9, ReviewKeeps DEF github

\* The reviewer at a later place, with the pair it has.
LEMMA ReviewerMoves ==
    ASSUME AdvancementTypeOK, NEW at \in Reviewing, reviewer' = [reviewer EXCEPT !.at = at]
    PROVE  /\ reviewer' \in [at : Reviewing, pair : Pair]
           /\ reviewer'.at = at /\ reviewer'.pair = reviewer.pair
BY DEF AdvancementTypeOK

\* A check of the pair under review is appended.
LEMMA AddedCheck ==
    ASSUME AdvancementTypeOK, NEW verdict \in Verdict, NEW ran \in {"live", "ended", "cancelled"},
           AddCheck(reviewer.pair, verdict, ran)
    PROVE  /\ checks' \in [Head1 -> Seq(Check)]
           /\ checks'[reviewer.pair[2]] # << >>
           /\ Newest(checks'[reviewer.pair[2]]).base = reviewer.pair[1]
           /\ Newest(checks'[reviewer.pair[2]]).ran = ran
           /\ \A b \in 1 .. MaxBase, g \in Head1 : Passed(b, g) => Passed(b, g)'
<1> DEFINE c == [base |-> reviewer.pair[1], verdict |-> verdict, ran |-> ran]
           h == reviewer.pair[2]
<1>1. reviewer.pair \in Pair /\ h \in Head1 /\ reviewer.pair[1] \in 1 .. MaxBase
  BY DEF AdvancementTypeOK, Pair
<1>2. c \in Check /\ c.base = reviewer.pair[1] /\ c.ran = ran
  BY <1>1 DEF Check
<1>3. checks \in [Head1 -> Seq(Check)]
  BY DEF AdvancementTypeOK
<1>4. checks' = [checks EXCEPT ![h] = Append(checks[h], c)]
  BY DEF AddCheck
<1> HIDE DEF c, h
<1>5. /\ checks' \in [Head1 -> Seq(Check)]
      /\ checks'[h] # << >> /\ Newest(checks'[h]) = c
      /\ \A b \in 1 .. MaxBase, g \in Head1 : Passed(b, g) => Passed(b, g)'
  BY <1>1, <1>2, <1>3, <1>4, CheckAdded
<1>6. QED
  BY <1>2, <1>5 DEF h

\* What a verdict asks for is of its pair.
LEMMA PublishTypes ==
    ASSUME AdvancementTypeOK, ReporterOwnsCheck, PublishVerdict
    PROVE  ledger' \in [requested : SUBSET Pair, admitted : SUBSET Pair,
                        recovering : SUBSET Pair, paused : BOOLEAN, pauses : SUBSET Pair]
<1> DEFINE verdict == checks[reviewer.pair[2]][CheckOf(reviewer.pair)].verdict
<1>1. verdict \in {"block", "retry", "pause"} /\ reviewer.pair \in Pair
  BY OwnCheck DEF PublishVerdict, Reporting
<1>2. ledger' = ledger \/ ledger' = Requested(verdict, reviewer.pair)
  BY DEF PublishVerdict
<1> HIDE DEF verdict
<1>3. ledger \in [requested : SUBSET Pair, admitted : SUBSET Pair,
                  recovering : SUBSET Pair, paused : BOOLEAN, pauses : SUBSET Pair]
  BY DEF AdvancementTypeOK
<1>4. CASE ledger' = Requested(verdict, reviewer.pair) /\ verdict = "pause"
  BY <1>1, <1>3, <1>4 DEF Requested
<1>5. CASE ledger' = Requested(verdict, reviewer.pair) /\ verdict # "pause" /\ ledger.paused
  BY <1>1, <1>3, <1>5 DEF Requested
<1>6. CASE ledger' = Requested(verdict, reviewer.pair) /\ verdict = "block" /\ ~ ledger.paused
  BY <1>1, <1>3, <1>6 DEF Requested
<1>7. CASE ledger' = Requested(verdict, reviewer.pair) /\ verdict = "retry" /\ ~ ledger.paused
  BY <1>1, <1>3, <1>7 DEF Requested
<1>8. QED
  BY <1>1, <1>2, <1>3, <1>4, <1>5, <1>6, <1>7
\* A review run moves on: it adds or completes a check of its own, or none.
LEMMA ReviewStep ==
    ASSUME AdvancementInv, ReviewNext
    PROVE  AdvancementInv'
<1>1. AdvancementTypeOK /\ ReporterOwnsCheck /\ ReviewTypes
  BY DEF AdvancementInv, AdvancementTypeOK, ReviewTypes
<1>2. /\ reviewer.pair \in Pair /\ reviewer.pair[2] \in Head1 /\ reviewer.at \in Reviewing
      /\ reviewer.pair \in (0 .. MaxBase) \X Head1
  BY <1>1 DEF AdvancementTypeOK, Pair
<1>3. PullRequestOk(pr)
  BY <1>1 DEF AdvancementTypeOK
<1>4. NoReviewer \in [at : Reviewing, pair : Pair] /\ NoReviewer.at \notin Reporting
  BY NothingYet DEF NoReviewer, Reporting
<1>5. failed \union {reviewer.pair} \subseteq Pair
  BY <1>1, <1>2 DEF AdvancementTypeOK
<1>6. ASSUME UNCHANGED pr PROVE SamePull
  BY <1>3, <1>6 DEF SamePull
<1>7. ASSUME UNCHANGED checks
      PROVE  \A b \in 1 .. MaxBase, h \in Head1 : Passed(b, h) => Passed(b, h)'
  BY <1>7, SameChecks
<1>8. ASSUME reviewer' = NoReviewer PROVE ReporterOwnsCheck'
  BY <1>4, <1>8 DEF ReporterOwnsCheck
<1>9. CASE ReviewCannotStart
  <2>1. /\ UNCHANGED <<github, coming, receipts, ledger, journal, wake, run>>
        /\ reviewer' = NoReviewer /\ failed' = failed \union {reviewer.pair}
        /\ AddCheck(reviewer.pair, "unnamed", "ended") /\ (UNCHANGED spent \/ Spend("faults"))
    BY <1>9 DEF ReviewCannotStart
  <2>2. /\ checks' \in [Head1 -> Seq(Check)]
        /\ \A b \in 1 .. MaxBase, g \in Head1 : Passed(b, g) => Passed(b, g)'
    BY <1>1, <2>1, AddedCheck DEF Verdict
  <2>3. ReviewTypes'
    BY <1>1, <1>4, <1>5, <2>1, <2>2 DEF ReviewTypes
  <2>4. QED
    BY <1>6, <1>8, <2>1, <2>2, <2>3, ReviewKeeps DEF github
<1>10. CASE ReviewDeferred
  <2>1. /\ UNCHANGED <<github, checks, coming, receipts, failed, ledger, journal, wake, run>>
        /\ reviewer' = NoReviewer /\ Defer
    BY <1>10 DEF ReviewDeferred
  <2>2. ReviewTypes'
    BY <1>1, <1>4, <2>1 DEF ReviewTypes
  <2>3. QED
    BY <1>6, <1>7, <1>8, <2>1, <2>2, ReviewKeeps DEF github
<1>11. CASE StartReview
  <2>1. /\ UNCHANGED <<ci, issue, checks, coming, receipts, failed, ledger, journal,
                       wake, run, spent>>
        /\ pr' = [pr EXCEPT !.ready = FALSE]
        /\ reviewer' = [reviewer EXCEPT !.at = "working"]
    BY <1>11 DEF StartReview
  <2>2. SamePull
    BY <1>3, <2>1 DEF SamePull, PullRequestOk
  <2>3. reviewer' \in [at : Reviewing, pair : Pair] /\ reviewer'.at \notin Reporting
    BY <1>1, <2>1, ReviewerMoves DEF Reviewing, Reporting
  <2>4. ReviewTypes' /\ ReporterOwnsCheck'
    BY <1>1, <2>1, <2>3 DEF ReviewTypes, ReporterOwnsCheck
  <2>5. QED
    BY <1>7, <2>1, <2>2, <2>4, ReviewKeeps
<1>12. CASE WorkerEnds
  <2>1. /\ UNCHANGED <<github, coming, receipts, failed, ledger, journal, wake, run>>
        /\ \/ /\ AddCheck(reviewer.pair, "running", "live")
              /\ reviewer' = [reviewer EXCEPT !.at = "checking"] /\ UNCHANGED spent
           \/ Defer /\ AddCheck(reviewer.pair, "neutral", "ended") /\ reviewer' = NoReviewer
    BY <1>12 DEF WorkerEnds
  <2>2. CASE AddCheck(reviewer.pair, "running", "live") /\ UNCHANGED spent
             /\ reviewer' = [reviewer EXCEPT !.at = "checking"]
    <3>1. /\ checks' \in [Head1 -> Seq(Check)]
          /\ checks'[reviewer.pair[2]] # << >>
          /\ Newest(checks'[reviewer.pair[2]]).base = reviewer.pair[1]
          /\ Newest(checks'[reviewer.pair[2]]).ran = "live"
          /\ \A b \in 1 .. MaxBase, g \in Head1 : Passed(b, g) => Passed(b, g)'
      BY <1>1, <2>2, AddedCheck DEF Verdict
    <3>2. /\ reviewer' \in [at : Reviewing, pair : Pair] /\ reviewer'.pair = reviewer.pair
          /\ reviewer'.at = "checking"
      BY <1>1, <2>2, ReviewerMoves DEF Reviewing
    <3>3. ReporterOwnsCheck' /\ ReviewTypes'
      BY <1>1, <2>1, <3>1, <3>2 DEF ReporterOwnsCheck, ReviewTypes, Newest
    <3>4. QED
      BY <1>6, <2>1, <2>2, <3>1, <3>3, ReviewKeeps DEF github
  <2>3. CASE Defer /\ AddCheck(reviewer.pair, "neutral", "ended") /\ reviewer' = NoReviewer
    <3>1. /\ checks' \in [Head1 -> Seq(Check)]
          /\ \A b \in 1 .. MaxBase, g \in Head1 : Passed(b, g) => Passed(b, g)'
      BY <1>1, <2>3, AddedCheck DEF Verdict
    <3>2. ReviewTypes'
      BY <1>1, <1>4, <2>1, <2>3, <3>1 DEF ReviewTypes
    <3>3. QED
      BY <1>6, <1>8, <2>1, <2>3, <3>1, <3>2, ReviewKeeps DEF github
  <2>4. QED
    BY <2>1, <2>2, <2>3
<1>13. CASE CompleteReview
  <2>1. PICK verdict \in left.verdicts :
          /\ reviewer.at = "checking"
          /\ SetCheck(reviewer.pair, verdict, "live")
          /\ reviewer' = [reviewer EXCEPT
                 !.at = IF verdict = "pass" THEN "waking" ELSE "publishing"]
          /\ pr' = [pr EXCEPT !.ready = pr.ready /\ verdict # "pass"]
          /\ UNCHANGED <<ci, issue, coming, receipts, failed, ledger, journal, wake, run, spent>>
    BY <1>13 DEF CompleteReview
  <2>2. verdict \in Verdict /\ (verdict # "pass" => verdict \in {"block", "retry", "pause"})
    BY <1>1 DEF AdvancementTypeOK, Verdict
  <2>3. reviewer.at \in Reporting
    BY <2>1 DEF Reporting
  <2>4. /\ checks' \in [Head1 -> Seq(Check)]
        /\ checks'[reviewer.pair[2]] # << >>
        /\ Newest(checks'[reviewer.pair[2]]).base = reviewer.pair[1]
        /\ Newest(checks'[reviewer.pair[2]]).ran = "live"
        /\ Newest(checks'[reviewer.pair[2]]).verdict = verdict
        /\ \A b \in 1 .. MaxBase, g \in Head1 : Passed(b, g) => Passed(b, g)'
    BY <1>1, <2>1, <2>2, <2>3, OwnCheckChanged
  <2>5. SamePull
    BY <1>3, <2>1 DEF SamePull, PullRequestOk
  <2>6. /\ reviewer' \in [at : Reviewing, pair : Pair] /\ reviewer'.pair = reviewer.pair
        /\ reviewer'.at = IF verdict = "pass" THEN "waking" ELSE "publishing"
    BY <1>1, <2>1, ReviewerMoves DEF Reviewing
  <2>7. ReporterOwnsCheck' /\ ReviewTypes'
    BY <1>1, <2>1, <2>2, <2>4, <2>6 DEF ReporterOwnsCheck, ReviewTypes, Newest
  <2>8. QED
    BY <2>1, <2>4, <2>5, <2>7, ReviewKeeps
<1>14. CASE ReviewFails
  <2>1. /\ UNCHANGED <<github, coming, receipts, ledger, journal, wake, run>>
        /\ reviewer' = NoReviewer /\ failed' = failed \union {reviewer.pair}
        /\ SetCheck(reviewer.pair, "failed", "ended") /\ (UNCHANGED spent \/ Spend("faults"))
        /\ reviewer.at \in Reporting
    BY <1>14 DEF ReviewFails, Reporting
  <2>2. /\ checks' \in [Head1 -> Seq(Check)]
        /\ \A b \in 1 .. MaxBase, g \in Head1 : Passed(b, g) => Passed(b, g)'
    BY <1>1, <2>1, OwnCheckChanged DEF Verdict
  <2>3. ReviewTypes'
    BY <1>1, <1>4, <1>5, <2>1, <2>2 DEF ReviewTypes
  <2>4. QED
    BY <1>6, <1>8, <2>1, <2>2, <2>3, ReviewKeeps DEF github
<1>15. CASE PublishVerdict
  <2>1. /\ UNCHANGED <<ci, issue, checks, coming, receipts, failed, journal, wake, run, spent>>
        /\ reviewer.at = "publishing"
        /\ \/ /\ ledger' = Requested(checks[reviewer.pair[2]][CheckOf(reviewer.pair)].verdict,
                                     reviewer.pair)
              /\ pr' = [pr EXCEPT !.paused = pr.paused \/
                            checks[reviewer.pair[2]][CheckOf(reviewer.pair)].verdict = "pause"]
              /\ reviewer' = [reviewer EXCEPT !.at = "waking"]
           \/ reviewer' = [reviewer EXCEPT !.at = "finishing"] /\ UNCHANGED <<ledger, pr>>
    BY <1>15 DEF PublishVerdict
  <2>2. SamePull
    BY <1>3, <1>6, <2>1 DEF SamePull, PullRequestOk
  <2>3. /\ reviewer' \in [at : Reviewing, pair : Pair] /\ reviewer'.pair = reviewer.pair
        /\ reviewer'.at \in {"waking", "finishing"}
    BY <1>1, <2>1, ReviewerMoves DEF Reviewing
  <2>4. ReporterOwnsCheck'
    BY <1>1, <2>1, <2>3 DEF ReporterOwnsCheck, Reporting
  <2>5. ledger' \in [requested : SUBSET Pair, admitted : SUBSET Pair,
                     recovering : SUBSET Pair, paused : BOOLEAN, pauses : SUBSET Pair]
    BY <1>15, <1>1, <2>1, PublishTypes
  <2>6. ReviewTypes'
    BY <1>1, <2>1, <2>3, <2>5 DEF ReviewTypes
  <2>7. QED
    BY <1>7, <2>1, <2>2, <2>4, <2>6, ReviewKeeps
<1>16. CASE WakeAdvancement
  <2>1. /\ UNCHANGED <<github, checks, coming, receipts, failed, ledger, journal, run, spent>>
        /\ wake' = {<<reviewer.pair[1], reviewer.pair[2]>>} /\ reviewer.at = "waking"
        /\ reviewer' = [reviewer EXCEPT !.at = "finishing"]
    BY <1>16 DEF WakeAdvancement, Wake
  <2>2. /\ reviewer' \in [at : Reviewing, pair : Pair] /\ reviewer'.pair = reviewer.pair
        /\ reviewer'.at = "finishing"
    BY <1>1, <2>1, ReviewerMoves DEF Reviewing
  <2>3. wake' \subseteq (0 .. MaxBase) \X Head1
    BY <1>2, <2>1
  <2>4. ReporterOwnsCheck' /\ ReviewTypes'
    BY <1>1, <2>1, <2>2, <2>3 DEF ReporterOwnsCheck, Reporting, ReviewTypes
  <2>5. QED
    BY <1>6, <1>7, <2>1, <2>4, ReviewKeeps DEF github
<1>17. CASE FinishReview
  <2>1. /\ UNCHANGED <<github, coming, receipts, failed, ledger, journal, wake, run, spent>>
        /\ checks' = [checks EXCEPT ![reviewer.pair[2]][CheckOf(reviewer.pair)].ran = "ended"]
        /\ reviewer' = NoReviewer /\ reviewer.at \in Reporting
    BY <1>17 DEF FinishReview, Reporting
  <2>2. checks[reviewer.pair[2]][CheckOf(reviewer.pair)].verdict \in Verdict
    <3>1. checks[reviewer.pair[2]][CheckOf(reviewer.pair)] \in Check
      BY <1>1, <2>1, OwnCheck
    <3>2. QED
      BY <3>1 DEF Check
  <2>3. /\ checks' \in [Head1 -> Seq(Check)]
        /\ \A b \in 1 .. MaxBase, g \in Head1 : Passed(b, g) => Passed(b, g)'
    BY <1>1, <2>1, <2>2, OwnCheckChanged
  <2>4. ReviewTypes'
    BY <1>1, <1>4, <2>1, <2>3 DEF ReviewTypes
  <2>5. QED
    BY <1>6, <1>8, <2>1, <2>3, <2>4, ReviewKeeps DEF github
<1>18. QED
  BY <1>9, <1>10, <1>11, <1>12, <1>13, <1>14, <1>15, <1>16, <1>17 DEF ReviewNext

\* A failed review of the current pair is dispatched again.
LEMMA RecoverStep ==
    ASSUME AdvancementInv, Recover
    PROVE  AdvancementInv'
<1>1. /\ failed' = failed \ {Current}
      /\ ledger' = [ledger EXCEPT !.recovering = ledger.recovering \union {Current}]
      /\ pr' = [pr EXCEPT !.ready = TRUE]
      /\ RequestReview([action |-> "recovery", pair |-> Current])
      /\ UNCHANGED <<ci, issue, checks, reviewer, receipts, journal, wake, run, spent>>
  BY DEF Recover
<1>2. ReviewTypes /\ ReporterOwnsCheck /\ PullRequestOk(pr)
  BY DEF AdvancementInv, AdvancementTypeOK, ReviewTypes
<1>3. Current \in Pair
  BY <1>2, PairTyped DEF Current
<1>4. SamePull
  BY <1>1, <1>2 DEF SamePull, PullRequestOk
<1>5. coming' \in [ReviewRequest -> Nat]
  <2>1. [action |-> "recovery", pair |-> Current] \in ReviewRequest
    BY <1>3 DEF ReviewRequest
  <2>2. QED
    BY <1>1, <1>2, <2>1 DEF RequestReview, ReviewTypes
<1>6. ReviewTypes' /\ ReporterOwnsCheck'
  BY <1>1, <1>2, <1>3, <1>5 DEF ReviewTypes, ReporterOwnsCheck
<1>7. QED
  BY <1>1, <1>4, <1>6, SameChecks, ReviewKeeps

-----------------------------------------------------------------------------
(* Advancement runs                                                        *)

\* The run at a later place, and with what it reads.
LEMMA RunMoves ==
    ASSUME RunOk(run), NEW at \in Observing \union Acting, run' = [run EXCEPT !.at = at],
           at \in Acting => run.pair \in Pair, at \in Landing => run.action = "landing"
    PROVE  /\ RunOk(run') /\ run'.at = at
           /\ run'.pair = run.pair /\ run'.action = run.action /\ run'.seen = run.seen
<1>1. run' = [at |-> at, pair |-> run.pair, action |-> run.action, seen |-> run.seen]
  BY DEF RunOk
<1>2. QED
  BY <1>1 DEF RunOk

LEMMA RunReads ==
    ASSUME RunOk(run), NEW at \in Observing \union Acting, NEW seen, SeenOk(seen),
           run' = [run EXCEPT !.at = at, !.seen = seen],
           at \in Acting => run.pair \in Pair, at \in Landing => run.action = "landing"
    PROVE  /\ RunOk(run') /\ run'.at = at
           /\ run'.pair = run.pair /\ run'.action = run.action /\ run'.seen = seen
<1>1. run' = [at |-> at, pair |-> run.pair, action |-> run.action, seen |-> seen]
  BY DEF RunOk
<1>2. QED
  BY <1>1 DEF RunOk

\* A new run, or one whose action is chosen.
LEMMA RunBegins ==
    ASSUME NEW at \in Observing \union Acting, NEW pair \in (0 .. MaxBase) \X Head1,
           NEW action \in {"review", "rereview", "repair", "landing"},
           at \in Acting => pair \in Pair, at \in Landing => action = "landing",
           run' = [at |-> at, pair |-> pair, action |-> action, seen |-> NoRun.seen]
    PROVE  RunOk(run') /\ run'.at = at /\ run'.pair = pair /\ run'.action = action
BY NothingYet DEF RunOk

\* Nothing of the reviews and of CI is changed by an advancement run.
Frame == UNCHANGED <<ci, checks, reviewer, receipts, failed>>

\* A step that changes the run alone, and for which what it says is so.
LEMMA RunKeeps ==
    ASSUME AdvancementInv, Frame, UNCHANGED <<pr, coming, ledger, journal, wake, issue>>,
           Spend("faults") \/ UNCHANGED spent, RunOk(run'), EffectsFirst', EvidenceHolds'
    PROVE  AdvancementInv'
<1>1. /\ left' \in [pushes : Nat, moves : Nat, faults : Nat, labels : Nat,
                    copies : Nat \ {0},
                    verdicts : SUBSET {"pass", "block", "retry", "pause"}]
      /\ deferred' \in BOOLEAN
  BY SpentTyped DEF AdvancementInv
<1>2. AdvancementTypeOK'
  BY <1>1 DEF AdvancementInv, AdvancementTypeOK, Frame
<1>3. ReporterOwnsCheck' /\ AppliedHappened'
  BY DEF AdvancementInv, ReporterOwnsCheck, AppliedHappened, Frame
<1>4. QED
  BY <1>2, <1>3 DEF AdvancementInv

\* Most places say nothing.
Careful == {"closing", "applying", "revalidating", "merging"}

LEMMA QuietRun ==
    ASSUME run'.at \notin Careful
    PROVE  EffectsFirst' /\ EvidenceHolds'
BY DEF Careful, EffectsFirst, EvidenceHolds

\* A run that ends.
LEMMA RunEnds ==
    ASSUME run' = NoRun
    PROVE  RunOk(run') /\ EffectsFirst' /\ EvidenceHolds'
BY NothingYet, QuietRun DEF NoRun, Careful

\* The decision is one of the actions, or to wait.
LEMMA Decided ==
    ASSUME NEW seen
    PROVE  Decision(seen) \in {"wait", "review", "rereview", "repair", "landing"}
BY DEF Decision

\* What the newest review of a pair says.
LEMMA ReviewStates ==
    ASSUME NEW pair
    PROVE  ReviewState(pair) \in {"missing", "pending", "untrusted", "pass", "block"}
<1> DEFINE check == checks[pair[2]][Max(NewestNamed(pair))]
<1>1. \/ ReviewState(pair) \in {"missing", "pending", "untrusted"}
      \/ ReviewState(pair) = CASE check.verdict = "pass" -> "pass"
                               [] check.verdict \in {"block", "retry", "pause"} -> "block"
                               [] OTHER -> "untrusted"
  BY DEF ReviewState
<1> HIDE DEF check
<1>2. QED
  BY <1>1

\* A wake starts a run, which reads the pull request and its checks.
LEMMA ReadingStep ==
    ASSUME AdvancementInv, ReadPullRequest \/ ReadChecks
    PROVE  AdvancementInv'
<1>1. AdvancementTypeOK /\ RunOk(run) /\ PullRequestOk(pr)
  BY DEF AdvancementInv, AdvancementTypeOK
<1>2. /\ Frame /\ UNCHANGED <<pr, coming, ledger, journal, wake, issue>> /\ UNCHANGED spent
  BY DEF ReadPullRequest, ReadChecks, github, reviews, Frame
<1>3. PICK seen : /\ SeenOk(seen)
                  /\ \E at \in {"checking", "deciding"} :
                        run' = [run EXCEPT !.at = at, !.seen = seen]
  <2>1. CASE ReadPullRequest
    BY <1>1, <2>1, PairTyped DEF ReadPullRequest
  <2>2. CASE ReadChecks
    <3> DEFINE review == ReviewState(PairOf(run.seen))
               result == ci[run.seen.head]
               seen == [run.seen EXCEPT !.review = review, !.ci = result]
    <3>1. review \in {"missing", "pending", "untrusted", "pass", "block"}
      BY ReviewStates
    <3>2. SeenOk(run.seen) /\ run.seen.head \in Head1
      BY <1>1 DEF RunOk, SeenOk
    <3>3. result \in {"pending", "passed", "failed"}
      BY <1>1, <3>2 DEF AdvancementTypeOK
    <3>4. run' = [run EXCEPT !.at = "deciding", !.seen = [run.seen EXCEPT !.review = review,
                                                                         !.ci = result]]
      <4>1. run' = [run EXCEPT !.at = "deciding", !.seen.review = review, !.seen.ci = result]
        BY <2>2 DEF ReadChecks
      <4> HIDE DEF review, result
      <4>2. QED
        BY <4>1, <1>1 DEF RunOk
    <3> HIDE DEF review, result
    <3>5. SeenOk(seen)
      BY <3>1, <3>2, <3>3 DEF SeenOk
    <3>6. QED
      BY <3>4, <3>5
  <2>3. QED
    BY <2>1, <2>2
<1>4. RunOk(run') /\ run'.at \in {"checking", "deciding"}
  BY <1>1, <1>3, RunReads DEF Observing, Acting, Landing
<1>5. QED
  BY <1>2, <1>4, QuietRun, RunKeeps DEF Careful

\* A run starts, and chooses its action.
LEMMA StartStep ==
    ASSUME AdvancementInv, StartAdvancement
    PROVE  AdvancementInv'
<1>1. AdvancementTypeOK
  BY DEF AdvancementInv
<1>2. /\ Frame /\ UNCHANGED <<pr, coming, ledger, journal, issue, spent>> /\ wake' = {}
  BY DEF StartAdvancement, github, reviews, Frame
<1>3. RunOk(run') /\ run'.at \in {"idle", "reading"}
  <2>1. PICK expected \in wake :
            run' = NoRun \/ run' = [NoRun EXCEPT !.at = "reading", !.pair = expected]
    BY DEF StartAdvancement
  <2>2. expected \in (0 .. MaxBase) \X Head1
    BY <1>1 DEF AdvancementTypeOK
  <2>3. CASE run' = [NoRun EXCEPT !.at = "reading", !.pair = expected]
    <3>1. run' = [at |-> "reading", pair |-> expected, action |-> "review", seen |-> NoRun.seen]
      BY <2>3 DEF NoRun
    <3>2. QED
      BY <2>2, <3>1, RunBegins DEF Observing, Acting, Landing
  <2>4. CASE run' = NoRun
    <3>1. NoRun.at = "idle"
      BY DEF NoRun
    <3>2. QED
      BY <2>4, <3>1, NothingYet
  <2>5. QED
    BY <2>1, <2>3, <2>4
<1>4. EffectsFirst' /\ EvidenceHolds'
  BY <1>3, QuietRun DEF Careful
<1>5. AdvancementTypeOK'
  BY <1>1, <1>2, <1>3 DEF AdvancementTypeOK, Frame, spent
<1>6. ReporterOwnsCheck' /\ AppliedHappened'
  BY <1>2 DEF AdvancementInv, ReporterOwnsCheck, AppliedHappened, Frame
<1>7. QED
  BY <1>4, <1>5, <1>6 DEF AdvancementInv

LEMMA DecideStep ==
    ASSUME AdvancementInv, Decide
    PROVE  AdvancementInv'
<1> DEFINE action == Decision(run.seen)
           pair == PairOf(run.seen)
<1>1. AdvancementTypeOK /\ RunOk(run)
  BY DEF AdvancementInv, AdvancementTypeOK
<1>2. /\ Frame /\ UNCHANGED <<pr, coming, ledger, journal, wake, issue>> /\ UNCHANGED spent
  BY DEF Decide, github, reviews, Frame
<1>3. action \in {"wait", "review", "rereview", "repair", "landing"}
  BY Decided
<1>4. pair \in Pair /\ pair \in (0 .. MaxBase) \X Head1
  BY <1>1 DEF RunOk, SeenOk, PairOf, Pair, Head1
<1>5. \/ run' = NoRun
      \/ /\ action # "wait"
         /\ \E at \in {"candidate", "effect"} :
                run' = [NoRun EXCEPT !.pair = pair, !.action = action, !.at = at]
  BY DEF Decide
<1> HIDE DEF action, pair
<1>6. CASE run' = NoRun
  BY <1>2, <1>6, RunEnds, RunKeeps
<1>7. ASSUME NEW at \in {"candidate", "effect"}, action # "wait",
             run' = [NoRun EXCEPT !.pair = pair, !.action = action, !.at = at]
      PROVE  AdvancementInv'
  <2>1. run' = [at |-> at, pair |-> pair, action |-> action, seen |-> NoRun.seen]
    BY <1>7 DEF NoRun
  <2>2. RunOk(run') /\ run'.at = at
    BY <1>3, <1>4, <1>7, <2>1, RunBegins DEF Observing, Acting, Landing
  <2>3. QED
    BY <1>2, <1>7, <2>2, QuietRun, RunKeeps DEF Careful
<1>8. QED
  BY <1>5, <1>6, <1>7

\* A step to a later place that says nothing, or the end.
LEMMA OnwardStep ==
    ASSUME AdvancementInv, Frame, UNCHANGED <<pr, coming, ledger, journal, wake, issue>>,
           UNCHANGED spent, run.at \in Acting,
           \/ run' = NoRun
           \/ \E at \in Acting \ Careful : /\ run' = [run EXCEPT !.at = at]
                                           /\ at \in Landing => run.action = "landing"
    PROVE  AdvancementInv'
<1>1. RunOk(run) /\ run.pair \in Pair
  BY DEF AdvancementInv, AdvancementTypeOK, RunOk
<1>2. CASE run' = NoRun
  BY <1>2, RunEnds, RunKeeps
<1>3. ASSUME NEW at \in Acting \ Careful, run' = [run EXCEPT !.at = at],
             at \in Landing => run.action = "landing"
      PROVE  AdvancementInv'
  <2>1. RunOk(run') /\ run'.at = at
    BY <1>1, <1>3, RunMoves
  <2>2. QED
    BY <1>3, <2>1, QuietRun, RunKeeps
<1>4. QED
  BY <1>2, <1>3

\* A review or a repair goes to be recorded once it is there.
LEMMA DispatchStep ==
    ASSUME AdvancementInv, WriteCandidate \/ Dispatch \/ Poll
    PROVE  AdvancementInv'
<1>1. AdvancementTypeOK /\ RunOk(run) /\ run.at \in Acting /\ run.pair \in Pair
  BY DEF AdvancementInv, AdvancementTypeOK, RunOk, WriteCandidate, Dispatch, Poll, Acting
<1>2. Frame /\ UNCHANGED <<pr, journal, wake, issue>> /\ UNCHANGED spent
  BY DEF WriteCandidate, Dispatch, Poll, github, reviews, Frame
<1>3. CASE WriteCandidate
  <2>1. /\ ledger' = [ledger EXCEPT !.requested = ledger.requested \union {run.pair}]
        /\ run' = [run EXCEPT !.at = "effect"] /\ UNCHANGED coming
    BY <1>3 DEF WriteCandidate, Continue, reviews
  <2>2. ledger' \in [requested : SUBSET Pair, admitted : SUBSET Pair,
                     recovering : SUBSET Pair, paused : BOOLEAN, pauses : SUBSET Pair]
    BY <1>1, <2>1 DEF AdvancementTypeOK
  <2>3. RunOk(run') /\ run'.at = "effect"
    BY <1>1, <2>1, RunMoves DEF Acting, Landing
  <2>4. EffectsFirst' /\ EvidenceHolds'
    BY <2>3, QuietRun DEF Careful
  <2>5. AdvancementTypeOK'
    BY <1>1, <1>2, <2>1, <2>2, <2>3 DEF AdvancementTypeOK, Frame, spent
  <2>6. ReporterOwnsCheck' /\ AppliedHappened'
    BY <1>2 DEF AdvancementInv, ReporterOwnsCheck, AppliedHappened, Frame
  <2>7. QED
    BY <2>4, <2>5, <2>6 DEF AdvancementInv
<1>4. ASSUME run' = [run EXCEPT !.at = "applying"], UNCHANGED <<ledger, coming>>,
             run.action = "repair" \/ (run.action # "landing" /\ Transition \in receipts)
      PROVE  AdvancementInv'
  <2>1. RunOk(run') /\ run'.at = "applying" /\ run'.pair = run.pair /\ run'.action = run.action
    BY <1>1, <1>4, RunMoves DEF Acting, Landing
  <2>2. EffectsFirst'
    BY <1>2, <1>4, <2>1 DEF EffectsFirst, Happened, Transition, Frame
  <2>3. EvidenceHolds'
    BY <2>1 DEF EvidenceHolds
  <2>4. QED
    BY <1>2, <1>4, <2>1, <2>2, <2>3, RunKeeps
<1>5. CASE Dispatch
  <2>1. CASE run' = [run EXCEPT !.at = "applying"] /\ UNCHANGED coming
             /\ (run.action = "repair" \/ (run.action # "landing" /\ Transition \in receipts))
    BY <1>4, <1>5, <2>1 DEF Dispatch
  <2>2. CASE run' = [run EXCEPT !.at = "polling"] /\ RequestReview(Transition)
             /\ Transition \notin receipts /\ run.action \notin {"repair", "landing"}
    <3>1. Transition \in ReviewRequest
      BY <1>1, <2>2 DEF Transition, ReviewRequest, RunOk
    <3>2. coming' \in [ReviewRequest -> Nat]
      BY <1>1, <2>2, <3>1 DEF RequestReview, AdvancementTypeOK
    <3>3. RunOk(run') /\ run'.at = "polling"
      BY <1>1, <2>2, RunMoves DEF Acting, Landing
    <3>4. EffectsFirst' /\ EvidenceHolds'
      BY <3>3, QuietRun DEF Careful
    <3>5. AdvancementTypeOK'
      BY <1>1, <1>2, <1>5, <3>2, <3>3 DEF AdvancementTypeOK, Frame, spent, Dispatch
    <3>6. ReporterOwnsCheck' /\ AppliedHappened'
      BY <1>2 DEF AdvancementInv, ReporterOwnsCheck, AppliedHappened, Frame
    <3>7. QED
      BY <3>4, <3>5, <3>6 DEF AdvancementInv
  <2>3. QED
    BY <1>5, <2>1, <2>2 DEF Dispatch, Continue
<1>6. CASE Poll
  <2>1. UNCHANGED <<ledger, coming>> /\ run.at = "polling"
        /\ (run' = NoRun \/ (run' = [run EXCEPT !.at = "applying"] /\ Transition \in receipts))
    BY <1>6 DEF Poll, reviews, Continue, EndRun
  <2>2. CASE run' = NoRun
    BY <1>2, <2>1, <2>2, RunEnds, RunKeeps
  <2>3. CASE run' = [run EXCEPT !.at = "applying"] /\ Transition \in receipts
    <3>1. Transition \in ReviewRequest
      BY <1>1, <2>3 DEF AdvancementTypeOK
    <3>2. run.action # "landing"
      BY <3>1 DEF Transition, ReviewRequest
    <3>3. QED
      BY <1>4, <2>1, <2>3, <3>2
  <2>4. QED
    BY <2>1, <2>2, <2>3
<1>7. QED
  BY <1>3, <1>5, <1>6

\* Landing reads the pull request and the evidence, twice.
LEMMA EvidenceStep ==
    ASSUME AdvancementInv, StartLanding \/ ReadEvidence \/ Reread \/ Revalidate
    PROVE  AdvancementInv'
<1>1. AdvancementTypeOK /\ RunOk(run) /\ run.at \in Acting /\ run.pair \in Pair
  BY DEF AdvancementInv, AdvancementTypeOK, RunOk, StartLanding, ReadEvidence, Reread,
         Revalidate, Acting, Landing
<1>2. /\ Frame /\ UNCHANGED <<pr, coming, ledger, journal, wake, issue>> /\ UNCHANGED spent
  BY DEF StartLanding, ReadEvidence, Reread, Revalidate, github, reviews, Frame
<1>3. SeenOk(SeenOf(pr)) /\ SeenOf(pr).head = pr.head /\ SeenOf(pr).base = pr.base
  BY <1>1, PairTyped DEF AdvancementTypeOK, SeenOf
<1>4. CASE StartLanding
  <2>1. CASE run' = NoRun
    BY <1>1, <1>2, <2>1, OnwardStep
  <2>2. CASE pr.state = "merged" /\ run' = [run EXCEPT !.at = "closing"]
    <3>1. RunOk(run') /\ run'.at = "closing"
      BY <1>1, <1>4, <2>2, RunMoves DEF StartLanding, Acting, Landing
    <3>2. EffectsFirst' /\ EvidenceHolds'
      BY <1>2, <2>2, <3>1 DEF EffectsFirst, EvidenceHolds
    <3>3. QED
      BY <1>2, <3>1, <3>2, RunKeeps
  <2>3. CASE run' = [run EXCEPT !.at = "evidence", !.seen = SeenOf(pr)]
    <3>1. RunOk(run') /\ run'.at = "evidence"
      BY <1>1, <1>3, <1>4, <2>3, RunReads DEF StartLanding, Acting, Landing
    <3>2. QED
      BY <1>2, <3>1, QuietRun, RunKeeps DEF Careful
  <2>4. QED
    BY <1>4, <2>1, <2>2, <2>3 DEF StartLanding, Continue, EndRun
<1>5. CASE ReadEvidence
  <2>1. run.action = "landing" /\ "rereading" \in Acting \ Careful
    BY <1>1, <1>5 DEF ReadEvidence, RunOk, Landing, Acting, Careful
  <2>2. QED
    BY <1>1, <1>2, <1>5, <2>1, OnwardStep DEF ReadEvidence, Continue, EndRun
<1>6. CASE Reread
  <2>1. run.action = "landing"
    BY <1>1, <1>6 DEF Reread, RunOk, Landing
  <2>2. CASE run' = NoRun
    BY <1>1, <1>2, <2>2, OnwardStep
  <2>3. CASE run' = [run EXCEPT !.at = "revalidating", !.seen = SeenOf(pr)]
    <3>1. RunOk(run') /\ run'.at = "revalidating" /\ run'.seen = SeenOf(pr)
      BY <1>1, <1>3, <2>1, <2>3, RunReads DEF Acting, Landing
    <3>2. pr.head \in Nat
      BY <1>1, AdvancementAssumption DEF AdvancementTypeOK, PullRequestOk, Head1
    <3>3. EffectsFirst' /\ EvidenceHolds'
      BY <1>2, <1>3, <3>1, <3>2 DEF EffectsFirst, EvidenceHolds
    <3>4. QED
      BY <1>2, <3>1, <3>3, RunKeeps
  <2>4. QED
    BY <1>6, <2>2, <2>3 DEF Reread, EndRun
<1>7. CASE Revalidate
  <2>1. run.action = "landing" /\ run.at = "revalidating"
    BY <1>1, <1>7 DEF Revalidate, RunOk, Landing
  <2>2. CASE run' = NoRun
    BY <1>1, <1>2, <2>2, OnwardStep
  <2>3. CASE Landable(run.seen, run.pair[2])
             /\ run' = [NoRun EXCEPT !.at = "merging", !.pair = run.pair, !.action = run.action]
    <3>1. run' = [at |-> "merging", pair |-> run.pair, action |-> "landing", seen |-> NoRun.seen]
      BY <2>1, <2>3 DEF NoRun
    <3>2. run.pair \in (0 .. MaxBase) \X Head1 /\ run.pair[2] \in Head1
      BY <1>1 DEF RunOk
    <3>3. RunOk(run') /\ run'.at = "merging" /\ run'.pair = run.pair
      BY <1>1, <3>1, <3>2, RunBegins DEF Acting, Landing
    <3>4. run.seen.head = run.pair[2] /\ Passed(run.seen.base, run.pair[2])
      BY <1>1, <2>3, <3>2, LandablePassed DEF AdvancementTypeOK
    <3>5. /\ run.pair[2] <= pr.head
          /\ run.pair[2] = pr.head => Passed(pr.base, pr.head) \/ ~ pr.upToDate
      BY <2>1, <3>4 DEF AdvancementInv, EvidenceHolds
    <3>6. EffectsFirst' /\ EvidenceHolds'
      BY <1>2, <3>3, <3>5 DEF EffectsFirst, EvidenceHolds, Passed, Frame
    <3>7. QED
      BY <1>2, <3>3, <3>6, RunKeeps
  <2>4. QED
    BY <1>7, <2>2, <2>3 DEF Revalidate, EndRun
<1>8. QED
  BY <1>4, <1>5, <1>6, <1>7

\* The merge, and what follows it.
LEMMA MergeStep ==
    ASSUME AdvancementInv, Merge
    PROVE  AdvancementInv'
<1>1. /\ AdvancementTypeOK /\ RunOk(run) /\ PullRequestOk(pr)
      /\ run.at = "merging" /\ run.pair \in Pair /\ run.action = "landing"
  BY DEF AdvancementInv, AdvancementTypeOK, RunOk, Merge, Acting, Landing
<1>2. Frame /\ UNCHANGED <<coming, ledger, journal, wake, issue>>
  BY DEF Merge, reviews, Frame
<1>3. /\ \/ UNCHANGED pr
         \/ pr' = [pr EXCEPT !.state = "merged"]
      /\ Spend("faults") \/ UNCHANGED spent
      /\ \/ run' = [run EXCEPT !.at = "settling"]
         \/ run' = [run EXCEPT !.at = "closing"] /\ pr' = [pr EXCEPT !.state = "merged"]
  BY DEF Merge, Continue
<1>4. /\ PullRequestOk(pr') /\ (pr.state = "merged" => pr'.state = "merged")
      /\ (pr' = [pr EXCEPT !.state = "merged"] => pr'.state = "merged")
  BY <1>1, <1>3 DEF PullRequestOk
<1>5. RunOk(run') /\ run'.at \in {"settling", "closing"}
      /\ (run'.at = "closing" => pr'.state = "merged")
  <2>1. CASE run' = [run EXCEPT !.at = "settling"]
    BY <1>1, <2>1, RunMoves DEF Acting, Landing
  <2>2. CASE run' = [run EXCEPT !.at = "closing"] /\ pr' = [pr EXCEPT !.state = "merged"]
    BY <1>1, <1>4, <2>2, RunMoves DEF Acting, Landing
  <2>3. QED
    BY <1>3, <2>1, <2>2
<1>6. /\ left' \in [pushes : Nat, moves : Nat, faults : Nat, labels : Nat,
                    copies : Nat \ {0},
                    verdicts : SUBSET {"pass", "block", "retry", "pause"}]
      /\ deferred' \in BOOLEAN
  BY <1>1, <1>3, SpentTyped
<1>7. AdvancementTypeOK'
  BY <1>1, <1>2, <1>4, <1>5, <1>6 DEF AdvancementTypeOK, Frame
<1>8. EffectsFirst' /\ EvidenceHolds'
  BY <1>5 DEF EffectsFirst, EvidenceHolds
<1>9. ReporterOwnsCheck' /\ AppliedHappened'
  BY <1>2, <1>4 DEF AdvancementInv, ReporterOwnsCheck, AppliedHappened, Frame
<1>10. QED
  BY <1>7, <1>8, <1>9 DEF AdvancementInv

LEMMA SettleStep ==
    ASSUME AdvancementInv, Settle
    PROVE  AdvancementInv'
<1>1. /\ RunOk(run) /\ run.at = "settling" /\ run.pair \in Pair /\ run.action = "landing"
  BY DEF AdvancementInv, AdvancementTypeOK, RunOk, Settle, Acting, Landing
<1>2. /\ Frame /\ UNCHANGED <<pr, coming, ledger, journal, wake, issue>> /\ UNCHANGED spent
  BY DEF Settle, github, reviews, Frame
<1>3. CASE run' = NoRun
  BY <1>2, <1>3, RunEnds, RunKeeps
<1>4. CASE run' = [run EXCEPT !.at = "closing"] /\ pr.state = "merged"
  <2>1. RunOk(run') /\ run'.at = "closing"
    BY <1>1, <1>4, RunMoves DEF Acting, Landing
  <2>2. EffectsFirst' /\ EvidenceHolds'
    BY <1>2, <1>4, <2>1 DEF EffectsFirst, EvidenceHolds
  <2>3. QED
    BY <1>2, <2>1, <2>2, RunKeeps
<1>5. QED
  BY <1>3, <1>4 DEF Settle, Continue, EndRun

\* The Issue is closed and the backlog woken before the landing is recorded.
LEMMA ClosingStep ==
    ASSUME AdvancementInv, CloseIssue \/ WakeBacklog
    PROVE  AdvancementInv'
<1>1. /\ AdvancementTypeOK /\ RunOk(run) /\ run.at = "closing" /\ run.pair \in Pair
      /\ run.action = "landing" /\ pr.state = "merged"
      /\ issue \in [closed : BOOLEAN, woken : BOOLEAN]
  BY DEF AdvancementInv, AdvancementTypeOK, RunOk, CloseIssue, WakeBacklog, Acting, Landing,
         EffectsFirst
<1>2. Frame /\ UNCHANGED <<pr, coming, ledger, journal, wake>> /\ UNCHANGED spent
  BY DEF CloseIssue, WakeBacklog, reviews, Frame
<1>3. /\ issue' \in [closed : BOOLEAN, woken : BOOLEAN]
      /\ issue.closed => issue'.closed
      /\ issue.woken => issue'.woken
      /\ WakeBacklog => issue'.closed /\ issue'.woken
  BY <1>1 DEF CloseIssue, WakeBacklog
<1>4. AppliedHappened'
  BY <1>2, <1>3 DEF AdvancementInv, AppliedHappened, Frame
<1>5. ReporterOwnsCheck'
  BY <1>2 DEF AdvancementInv, ReporterOwnsCheck, Frame
<1>6. CASE CloseIssue
  <2>1. UNCHANGED run
    BY <1>6 DEF CloseIssue
  <2>2. EffectsFirst' /\ EvidenceHolds'
    BY <1>1, <1>2, <2>1 DEF EffectsFirst, EvidenceHolds
  <2>3. AdvancementTypeOK'
    BY <1>1, <1>2, <1>3, <2>1 DEF AdvancementTypeOK, Frame, spent
  <2>4. QED
    BY <1>4, <1>5, <2>2, <2>3 DEF AdvancementInv
<1>7. CASE WakeBacklog
  <2>1. run' = [run EXCEPT !.at = "applying"]
    BY <1>7 DEF WakeBacklog, Continue
  <2>2. RunOk(run') /\ run'.at = "applying" /\ run'.action = "landing"
    BY <1>1, <2>1, RunMoves DEF Acting, Landing
  <2>3. EffectsFirst' /\ EvidenceHolds'
    BY <1>1, <1>2, <1>3, <1>7, <2>2 DEF EffectsFirst, EvidenceHolds, Happened, Transition
  <2>4. AdvancementTypeOK'
    BY <1>1, <1>2, <1>3, <2>2 DEF AdvancementTypeOK, Frame, spent
  <2>5. QED
    BY <1>4, <1>5, <2>3, <2>4 DEF AdvancementInv
<1>8. QED
  BY <1>6, <1>7

LEMMA MarkStep ==
    ASSUME AdvancementInv, MarkApplied
    PROVE  AdvancementInv'
<1>1. /\ AdvancementTypeOK /\ RunOk(run) /\ run.at = "applying" /\ run.pair \in Pair
      /\ Happened(Transition)
  BY DEF AdvancementInv, AdvancementTypeOK, RunOk, MarkApplied, Acting, EffectsFirst
<1>2. /\ Frame /\ UNCHANGED <<pr, coming, ledger, wake, issue>> /\ UNCHANGED spent
      /\ journal' = journal \union {Transition} /\ run' = NoRun
  BY DEF MarkApplied, github, reviews, Frame, EndRun
<1>3. Transition \in Identity
  BY <1>1 DEF Transition, Identity, RunOk
<1>4. AdvancementTypeOK'
  BY <1>1, <1>2, <1>3, NothingYet DEF AdvancementTypeOK, Frame, spent
<1>5. AppliedHappened'
  BY <1>1, <1>2 DEF AdvancementInv, AppliedHappened, Happened, Frame
<1>6. ReporterOwnsCheck'
  BY <1>2 DEF AdvancementInv, ReporterOwnsCheck, Frame
<1>7. QED
  BY <1>2, <1>4, <1>5, <1>6, RunEnds DEF AdvancementInv

\* A run that dies has done what it has done.
LEMMA DieStep ==
    ASSUME AdvancementInv, Die
    PROVE  AdvancementInv'
<1>1. /\ Frame /\ UNCHANGED <<pr, coming, ledger, journal, wake, issue>>
      /\ run' = NoRun /\ Spend("faults")
  BY DEF Die, github, reviews, Frame, EndRun
<1>2. QED
  BY <1>1, RunEnds, RunKeeps

-----------------------------------------------------------------------------
(* Theorems                                                                *)

\* The invariant, however pushes, reviews, advancements and deaths fall.
THEOREM AdvancementInvariant == FairSpec => []AdvancementInv
<1>1. AdvancementInit => AdvancementInv
  BY InitInv
<1>2. AdvancementInv /\ [Next]_vars => AdvancementInv'
  <2>1. ASSUME AdvancementInv, Next PROVE AdvancementInv'
    <3>1. CASE GitHubNext
      BY <2>1, <3>1, GitHubStep
    <3>2. CASE Deliver \/ ReviewNext \/ Recover
      BY <2>1, <3>2, DeliverStep, ReviewStep, RecoverStep
    <3>3. CASE AdvanceNext
      BY <2>1, <3>3, StartStep, ReadingStep, DecideStep, DispatchStep, EvidenceStep,
         MergeStep, SettleStep, ClosingStep, MarkStep
      DEF AdvanceNext
    <3>4. CASE Die
      BY <2>1, <3>4, DieStep
    <3>5. QED
      BY <2>1, <3>1, <3>2, <3>3, <3>4 DEF Next, GitHubNext
  <2>2. ASSUME AdvancementInv, UNCHANGED vars PROVE AdvancementInv'
    BY <2>2 DEF vars, github, reviews, spent, AdvancementInv, AdvancementTypeOK,
                ReporterOwnsCheck, EffectsFirst, Happened, Transition, EvidenceHolds, Passed,
                AppliedHappened
  <2>3. QED
    BY <2>1, <2>2
<1>3. QED
  BY <1>1, <1>2, PTL DEF FairSpec, Spec

\* A landing that is recorded as applied merged the pull request, closed its
\* Issue and woke the backlog, and a review that is recorded has a run, wherever
\* runs die, wakes displace each other and dispatches are lost
\* (advancement-runtime.mjs, dispatch-receipt.mjs, land-pr.mjs).
THEOREM AppliedDone == FairSpec => []AppliedHappened
<1>1. AdvancementInv => AppliedHappened
  BY DEF AdvancementInv
<1>2. QED
  BY <1>1, AdvancementInvariant, PTL

\* Landing merges only what a review of exactly this base and head passed and
\* CI passed, however the base, the checks and the labels change after it read
\* them: the base moves under a head only by taking its being up to date, which
\* GitHub checks (evaluateLanding, land-pr.mjs).
THEOREM MergedReviewed == FairSpec => MergedIsReviewed
<1>1. ASSUME AdvancementInv, [Next]_vars,
             run.at = "merging", pr.state = "open", pr'.state = "merged"
      PROVE  \/ run' = run
             \/ /\ ci[pr.head] = "passed"
                /\ \E c \in Range(checks[pr.head]) : c.base = pr.base /\ c.verdict = "pass"
  <2>1. PullRequestOk(pr)
    BY <1>1 DEF AdvancementInv, AdvancementTypeOK
  <2>2. CASE Merge
    <3>1. Protection(run.pair[2])
      BY <1>1, <2>2 DEF Merge
    <3>2. pr.head = run.pair[2] /\ pr.upToDate /\ ci[pr.head] = "passed"
      BY <3>1 DEF Protection
    <3>3. Passed(pr.base, pr.head)
      BY <1>1, <3>2 DEF AdvancementInv, EvidenceHolds
    <3>4. QED
      BY <3>2, <3>3 DEF Passed, Range
  <2>3. CASE UNCHANGED run
    BY <2>3
  <2>4. CASE UNCHANGED pr
    BY <1>1, <2>4
  <2>5. QED
    BY <1>1, <2>2, <2>3, <2>4
    DEF Next, Push, MoveBase, ResolveMergeability, CompleteCi, MarkReady, Resume, Leave,
        Schedule, Admit, Deliver, ReviewNext, ReviewCannotStart, ReviewDeferred, StartReview,
        WorkerEnds, CompleteReview, ReviewFails, PublishVerdict, WakeAdvancement, FinishReview,
        Recover, AdvanceNext, StartAdvancement, ReadPullRequest, ReadChecks, Decide,
        WriteCandidate, Dispatch, Poll, StartLanding, ReadEvidence, Reread, Revalidate,
        Settle, CloseIssue, WakeBacklog, MarkApplied, Die, github, vars
<1>2. AdvancementInv /\ [Next]_vars =>
        [(run.at = "merging" /\ pr.state = "open" /\ pr'.state = "merged") =>
            \/ run' = run
            \/ /\ ci[pr.head] = "passed"
               /\ \E c \in Range(checks[pr.head]) : c.base = pr.base /\ c.verdict = "pass"]_vars
  BY <1>1
<1>3. QED
  BY <1>2, AdvancementInvariant, PTL DEF MergedIsReviewed, FairSpec, Spec
=============================================================================

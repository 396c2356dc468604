--------------------- MODULE PullRequestGovernorProofs ---------------------
(***************************************************************************)
(* What holds of the Governor ledger whichever workflow runs meet on a     *)
(* pull request, however many, under any limits and with any number of     *)
(* deaths: nothing is admitted on one observation, a repair that is        *)
(* recorded as applied is not dispatched again, and what is dispatched was *)
(* charged.  While programs take turns also: the ledger stays readable,    *)
(* repairs stay within their budgets, and pauses are earned.               *)
(*                                                                         *)
(* All rest on what a run has still to send, since it decides once, on the *)
(* ledger as it was, and then sends its requests one by one.               *)
(***************************************************************************)
EXTENDS PullRequestGovernor, FiniteSetTheorems, WellFoundedInduction, TLAPS

-----------------------------------------------------------------------------
(* The inductive invariant                                                 *)

\* A sequence, whatever its elements.
IsList(s) == s \in Seq({s[i] : i \in DOMAIN s})

\* Records that admit work, and records that say it was done.
Admits(x) == x.status \in {"admitted", "started"}
Done(x) == x.status \in {"applied", "started"}
OfRepair(x) == x.transition[1] \in Repair

\* The candidate an admission names.
CandidateOf(c, x) ==
    /\ c.status = "candidate"
    /\ c.transition = x.transition
    /\ c.stateVersion = x.stateVersion
    /\ c.observationId = x.candidateObservationId

Writes(requests, k) == requests[k].op = "write"

\* Every admission still to be written names another observation's candidate,
\* which is in the ledger or will be before it.
Sound(records, requests) ==
    \A k \in DOMAIN requests :
        Writes(requests, k) /\ Admits(requests[k].record) =>
            LET x == requests[k].record
            IN  /\ x.candidateObservationId # x.observationId
                /\ \/ \E j \in DOMAIN records : CandidateOf(records[j], x)
                   \/ \E l \in 1 .. (k - 1) :
                         Writes(requests, l) /\ CandidateOf(requests[l].record, x)

\* No record of the epoch says that this repair was done.
Unapplied(records, transition, stateVersion) ==
    Recorded(ActiveRecords(records), {"applied", "started"}, transition, stateVersion) = {}

\* A repair is recorded as done by reconciliations only, and by them after it
\* was dispatched.
DoneLater(requests, k) ==
    \A l \in 1 .. k :
        Writes(requests, l) /\ Done(requests[l].record) => ~ OfRepair(requests[l].record)

Dispatches(requests, k) == requests[k].op = "perform" /\ requests[k].budget \in Repair

\* A list of requests that records no repair as done.
NoneDone(requests) ==
    IsList(requests) /\
        \A k \in DOMAIN requests :
            Writes(requests, k) /\ Done(requests[k].record) => ~ OfRepair(requests[k].record)

\* Dispatches of repairs that the ledger does not call done, each before its
\* completion is recorded.
ReconcileOk(records, requests, stateVersion) ==
    \A k \in DOMAIN requests :
        Dispatches(requests, k) =>
            /\ requests[k].transition[1] \in Repair
            /\ DoneLater(requests, k)
            /\ Unapplied(records, requests[k].transition, stateVersion)

ScriptOk(r) ==
    /\ KindOf[r] # "reconcile" => NoneDone(script[r])
    /\ KindOf[r] = "reconcile" => ReconcileOk(ledger, script[r], seen[r].version)

GovernorTypeOK ==
    /\ plan \in Plans
    /\ IsList(ledger)
    /\ pc \in [Run -> Location]
    /\ seen = [r \in Run |-> seen[r]]
    /\ script = [r \in Run |-> script[r]]
    /\ \A r \in Run : IsList(script[r])
    /\ \A r \in Run : pc[r] = "acting" <=> script[r] # << >>

\* The concurrency group of the reconciliations.
OneReconciliation ==
    \A r, s \in Run :
        /\ KindOf[r] = "reconcile" /\ KindOf[s] = "reconcile"
        /\ Active(r) /\ Active(s)
        => r = s

GovernorInv ==
    /\ GovernorTypeOK
    /\ OneReconciliation
    /\ AdmissionIsIndependent
    /\ \A r \in Run : Sound(ledger, script[r]) /\ ScriptOk(r)

-----------------------------------------------------------------------------
(* Least and greatest elements                                             *)

\* A nonempty set of naturals has a least element.
LEMMA LeastNatural ==
    ASSUME NEW S, S \subseteq Nat, S # {}
    PROVE  \E m \in S : \A n \in S : m <= n
<1> DEFINE R == OpToRel(<, Nat)
<1>1. IsWellFoundedOn(R, Nat)
  BY NatLessThanWellFounded
<1>2. \A y, x \in Nat : <<y, x>> \in R <=> y < x
  BY DEF OpToRel
<1> HIDE DEF R
<1>3. \E m \in S : \A y \in S : <<y, m>> \notin R
  BY <1>1, WFMin
<1>4. PICK m \in S : \A y \in S : <<y, m>> \notin R
  BY <1>3
<1>5. ASSUME NEW y \in S PROVE m <= y
  <2>1. m \in Nat /\ y \in Nat /\ ~ (y < m)
    BY <1>2, <1>4
  <2>2. QED
    BY <2>1
<1>6. QED
  BY <1>4, <1>5

\* A bounded one has a greatest.
LEMMA GreatestNatural ==
    ASSUME NEW n \in Nat, NEW S, S \subseteq 0 .. n, S # {}
    PROVE  \E m \in S : \A k \in S : m >= k
<1> DEFINE T == {n - k : k \in S}
<1>1. T \subseteq Nat /\ T # {}
  <2>1. \A k \in S : n - k \in Nat
    OBVIOUS
  <2>2. QED
    BY <2>1
<1>2. PICK m \in T : \A k \in T : m <= k
  BY <1>1, LeastNatural
<1>3. PICK k \in S : m = n - k
  OBVIOUS
<1>4. \A j \in S : n - k <= n - j
  BY <1>2, <1>3
<1>5. QED
  BY <1>4

\* Min of the community modules chooses the one.
LEMMA MinMember ==
    ASSUME NEW S, S \subseteq Nat, S # {}
    PROVE  Min(S) \in S /\ \A n \in S : Min(S) <= n
BY LeastNatural DEF Min

\* Max chooses the other.
LEMMA MaxMember ==
    ASSUME NEW n \in Nat, NEW S, S \subseteq 0 .. n, S # {}
    PROVE  Max(S) \in S /\ \A k \in S : Max(S) >= k
BY GreatestNatural DEF Max

-----------------------------------------------------------------------------
(* Lists                                                                   *)

\* A list has a length and is what its elements are.
LEMMA ListShape ==
    ASSUME NEW s, IsList(s)
    PROVE  Len(s) \in Nat /\ DOMAIN s = 1 .. Len(s) /\ (Len(s) = 0 <=> s = << >>)
BY DEF IsList

\* A sequence over any set is a list, and so is an explicit one.
LEMMA SequenceIsList ==
    ASSUME NEW S, NEW s \in Seq(S)
    PROVE  IsList(s)
BY DEF IsList

\* The shortest lists.
LEMMA ShortLists == IsList(<< >>) /\ \A x : IsList(<<x>>)
BY DEF IsList

\* Elements of two lists in a row.
LEMMA ListConcat ==
    ASSUME NEW a, NEW b, IsList(a), IsList(b)
    PROVE  /\ IsList(a \o b)
           /\ Len(a \o b) = Len(a) + Len(b)
           /\ \A i \in 1 .. Len(a) : (a \o b)[i] = a[i]
           /\ \A i \in 1 .. Len(b) : (a \o b)[Len(a) + i] = b[i]
<1> DEFINE S == {a[i] : i \in DOMAIN a} \union {b[i] : i \in DOMAIN b}
<1>1. a \in Seq(S) /\ b \in Seq(S)
  BY DEF IsList
<1> HIDE DEF S
<1>2. a \o b \in Seq(S)
  BY <1>1
<1>3. IsList(a \o b)
  BY <1>2, SequenceIsList
<1>4. QED
  BY <1>1, <1>3

\* What is left of a list after its first element.
LEMMA ListTail ==
    ASSUME NEW s, IsList(s), s # << >>
    PROVE  /\ IsList(Tail(s)) /\ Head(s) = s[1] /\ 1 \in DOMAIN s
           /\ Len(Tail(s)) = Len(s) - 1
           /\ \A i \in 1 .. Len(Tail(s)) : Tail(s)[i] = s[i + 1]
<1> DEFINE S == {s[i] : i \in DOMAIN s}
<1>1. s \in Seq(S)
  BY DEF IsList
<1> HIDE DEF S
<1>2. Tail(s) \in Seq(S)
  BY <1>1
<1>3. IsList(Tail(s))
  BY <1>2, SequenceIsList
<1>4. QED
  BY <1>1, <1>3

\* A list with one more element.
LEMMA ListAppend ==
    ASSUME NEW s, NEW x, IsList(s)
    PROVE  /\ IsList(Append(s, x))
           /\ Len(Append(s, x)) = Len(s) + 1
           /\ \A i \in 1 .. Len(s) : Append(s, x)[i] = s[i]
           /\ Append(s, x)[Len(s) + 1] = x
<1> DEFINE S == {s[i] : i \in DOMAIN s} \union {x}
<1>1. s \in Seq(S) /\ x \in S
  BY DEF IsList
<1> HIDE DEF S
<1>2. Append(s, x) \in Seq(S)
  BY <1>1
<1>3. IsList(Append(s, x))
  BY <1>2, SequenceIsList
<1>4. QED
  BY <1>1, <1>3

\* The requests that write a list of records.
LEMMA WriteList ==
    ASSUME NEW records, IsList(records)
    PROVE  /\ IsList(Write(records)) /\ Len(Write(records)) = Len(records)
           /\ \A i \in 1 .. Len(records) :
                 Write(records)[i].op = "write" /\ Write(records)[i].record = records[i]
<1> DEFINE S == {[op |-> "write", record |-> records[i]] : i \in DOMAIN records}
<1>1. DOMAIN records = 1 .. Len(records) /\ Len(records) \in Nat
  BY ListShape
<1>2. Write(records) \in Seq(S) /\ Len(Write(records)) = Len(records)
  BY <1>1 DEF Write
<1>3. QED
  BY <1>1, <1>2, SequenceIsList DEF Write

-----------------------------------------------------------------------------
(* The policy                                                              *)

\* The epoch starts after the last resume and not behind the end.
LEMMA EpochBounds ==
    ASSUME NEW records, IsList(records)
    PROVE  /\ EpochStart(records) \in 1 .. (Len(records) + 1)
           /\ \A i \in DOMAIN records : records[i].status = "resumed" => i < EpochStart(records)
<1> DEFINE S == {0} \union {i \in DOMAIN records : records[i].status = "resumed"}
<1>1. DOMAIN records = 1 .. Len(records) /\ Len(records) \in Nat
  BY ListShape
<1>2. S \subseteq 0 .. Len(records) /\ S # {}
  BY <1>1
<1>3. Max(S) \in S /\ \A k \in S : Max(S) >= k
  BY <1>1, <1>2, MaxMember
<1>4. EpochStart(records) = 1 + Max(S)
  BY DEF EpochStart
<1>5. \A i \in DOMAIN records : records[i].status = "resumed" => i \in S
  OBVIOUS
<1> HIDE DEF S
<1>6. PICK m \in 0 .. Len(records) : m = Max(S)
  BY <1>2, <1>3
<1>7. \A i \in DOMAIN records : records[i].status = "resumed" => m >= i
  BY <1>3, <1>5, <1>6
<1>8. QED
  BY <1>1, <1>4, <1>6, <1>7

\* The active records are those from there on.
LEMMA ActiveList ==
    ASSUME NEW records, IsList(records)
    PROVE  /\ IsList(ActiveRecords(records))
           /\ Len(ActiveRecords(records)) = Len(records) + 1 - EpochStart(records)
           /\ \A i \in 1 .. Len(ActiveRecords(records)) :
                 /\ EpochStart(records) + i - 1 \in DOMAIN records
                 /\ ActiveRecords(records)[i] = records[EpochStart(records) + i - 1]
<1> DEFINE S == {records[i] : i \in DOMAIN records}
<1>1. /\ DOMAIN records = 1 .. Len(records) /\ Len(records) \in Nat /\ records \in Seq(S)
      /\ EpochStart(records) \in 1 .. (Len(records) + 1)
  BY ListShape, EpochBounds DEF IsList
<1>2. PICK m \in 1 .. (Len(records) + 1) : m = EpochStart(records)
  BY <1>1
<1>3. ActiveRecords(records) = SubSeq(records, m, Len(records))
  BY <1>2 DEF ActiveRecords
<1> HIDE DEF S
<1>4. /\ SubSeq(records, m, Len(records)) \in Seq(S)
      /\ Len(SubSeq(records, m, Len(records))) = Len(records) + 1 - m
      /\ \A i \in 1 .. (Len(records) + 1 - m) :
            SubSeq(records, m, Len(records))[i] = records[m + i - 1]
  BY <1>1
<1>5. IsList(ActiveRecords(records))
  BY <1>3, <1>4, SequenceIsList
<1>6. QED
  BY <1>1, <1>2, <1>3, <1>4, <1>5

\* Unapplied, said of the ledger.
LEMMA UnappliedMeaning ==
    ASSUME NEW records, IsList(records), NEW transition, NEW stateVersion
    PROVE  Unapplied(records, transition, stateVersion) <=>
               \A i \in DOMAIN records :
                   i >= EpochStart(records) /\ Done(records[i])
                       /\ records[i].transition = transition
                   => records[i].stateVersion # stateVersion
<1>1. PICK m \in 1 .. (Len(records) + 1) : m = EpochStart(records)
  BY EpochBounds
<1>2. /\ DOMAIN records = 1 .. Len(records) /\ Len(records) \in Nat
      /\ DOMAIN ActiveRecords(records) = 1 .. (Len(records) + 1 - m)
      /\ \A i \in 1 .. (Len(records) + 1 - m) :
            m + i - 1 \in DOMAIN records /\ ActiveRecords(records)[i] = records[m + i - 1]
  BY <1>1, ActiveList, ListShape
<1>3. \A i \in DOMAIN records : i >= m => /\ i - m + 1 \in 1 .. (Len(records) + 1 - m)
                                          /\ ActiveRecords(records)[i - m + 1] = records[i]
  BY <1>1, <1>2
<1>4. Unapplied(records, transition, stateVersion) <=>
          \A i \in 1 .. (Len(records) + 1 - m) :
              ~ /\ ActiveRecords(records)[i].status \in {"applied", "started"}
                /\ ActiveRecords(records)[i].transition = transition
                /\ ActiveRecords(records)[i].stateVersion = stateVersion
  BY <1>2 DEF Unapplied, Recorded
<1>5. QED
  BY <1>1, <1>2, <1>3, <1>4 DEF Done

\* A record that is not its completion leaves a transition unapplied.
LEMMA UnappliedAppend ==
    ASSUME NEW records, IsList(records), NEW transition, NEW stateVersion, NEW x,
           Unapplied(records, transition, stateVersion),
           ~ (Done(x) /\ x.transition = transition)
    PROVE  Unapplied(Append(records, x), transition, stateVersion)
<1> DEFINE n == Len(records)
           longer == Append(records, x)
           S == {0} \union {i \in DOMAIN records : records[i].status = "resumed"}
           T == {0} \union {i \in DOMAIN longer : longer[i].status = "resumed"}
<1>1. /\ IsList(longer) /\ n \in Nat /\ DOMAIN records = 1 .. n /\ DOMAIN longer = 1 .. (n + 1)
      /\ \A i \in 1 .. n : longer[i] = records[i]
      /\ longer[n + 1] = x
  BY ListAppend, ListShape
<1>2. S \subseteq 0 .. (n + 1) /\ T \subseteq 0 .. (n + 1) /\ S \subseteq T /\ S # {} /\ T # {}
  BY <1>1
<1>3. EpochStart(records) = 1 + Max(S) /\ EpochStart(longer) = 1 + Max(T)
  BY DEF EpochStart
<1> HIDE DEF S, T, longer, n
<1>4. Max(S) \in S /\ Max(T) \in T /\ \A k \in T : Max(T) >= k
  <2>1. n + 1 \in Nat
    BY <1>1
  <2>2. QED
    BY <1>2, <2>1, MaxMember
<1>5. EpochStart(records) \in Nat /\ EpochStart(longer) \in Nat
      /\ EpochStart(longer) >= EpochStart(records)
  <2>1. PICK a \in 0 .. (n + 1), b \in 0 .. (n + 1) : a = Max(S) /\ b = Max(T) /\ b >= a
    BY <1>1, <1>2, <1>4
  <2>2. QED
    BY <1>1, <1>3, <2>1
<1>6. ASSUME NEW i \in DOMAIN longer, i >= EpochStart(longer), Done(longer[i]),
             longer[i].transition = transition
      PROVE  longer[i].stateVersion # stateVersion
  <2>1. i \in 1 .. n
    BY <1>1, <1>6
  <2>2. i >= EpochStart(records)
    BY <1>5, <1>6, <2>1
  <2>3. QED
    BY <1>1, <1>6, <2>1, <2>2, UnappliedMeaning
<1>7. QED
  BY <1>1, <1>6, UnappliedMeaning DEF longer, n

\* What a decision writes: nothing, a candidate, a resume, or the admission of
\* another observation's candidate.
Fitting(records, transition, decision) ==
    \/ decision.record = << >>
    \/ \E x : decision.record = <<x>> /\ x.status \in {"candidate", "resumed"}
    \/ \E x : /\ decision.record = <<x>> /\ x.status = "admitted"
              /\ x.transition = transition
              /\ x.candidateObservationId # x.observationId
              /\ \E j \in DOMAIN records : CandidateOf(records[j], x)

\* EpochDecision.
LEMMA EpochDecisionFits ==
    ASSUME NEW epoch, IsList(epoch), NEW t, NEW v, NEW o, NEW d, d = EpochDecision(epoch, t, v, o)
    PROVE  /\ Fitting(epoch, t, d)
           /\ d.execute => d.record = << >> \/ d.record[1].status = "admitted"
           /\ d.execute \/ d.action = "wait"
                 => Recorded(epoch, {"applied", "started"}, t, v) = {}
<1> DEFINE Find(status) == Recorded(epoch, {status}, t, v)
           candidate == epoch[Min(Find("candidate"))]
           admission == epoch[Min(Find("admitted"))]
<1>1. Find("applied") \union Find("started") = Recorded(epoch, {"applied", "started"}, t, v)
  BY DEF Recorded
<1>2. Find("candidate") \subseteq Nat
  BY ListShape DEF Recorded
<1> DEFINE x == AdmittedRecord(t, v, o, candidate.observationId)
           c == CandidateRecord(t, v, o)
<1>3. CASE Find("applied") \union Find("started") # {}
  <2>1. d = Decision("noop", FALSE, << >>)
    BY <1>3 DEF EpochDecision
  <2>2. QED
    BY <2>1 DEF Decision, Fitting
<1>4. CASE Find("applied") \union Find("started") = {} /\ Find("admitted") # {}
  <2>1. d = Decision("wait", FALSE, << >>) \/ d = Decision("retry", TRUE, << >>)
    BY <1>4 DEF EpochDecision
  <2>2. QED
    BY <1>1, <1>4, <2>1 DEF Decision, Fitting
<1>5. CASE /\ Find("applied") \union Find("started") = {} /\ Find("admitted") = {}
           /\ Find("candidate") = {}
  <2>1. d = Decision("record-candidate", FALSE, <<c>>)
    BY <1>5 DEF EpochDecision
  <2>2. c.status = "candidate"
    BY DEF CandidateRecord
  <2>3. QED
    BY <2>1, <2>2 DEF Decision, Fitting
<1>6. CASE /\ Find("applied") \union Find("started") = {} /\ Find("admitted") = {}
           /\ Find("candidate") # {} /\ candidate.observationId = o
  <2>1. d = Decision("wait", FALSE, << >>)
    BY <1>6 DEF EpochDecision
  <2>2. QED
    BY <1>1, <1>6, <2>1 DEF Decision, Fitting
<1>7. CASE /\ Find("applied") \union Find("started") = {} /\ Find("admitted") = {}
           /\ Find("candidate") # {} /\ candidate.observationId # o
  <2>1. d = Decision("admit", TRUE, <<x>>)
    BY <1>7 DEF EpochDecision
  <2>2. /\ x.status = "admitted" /\ x.transition = t /\ x.stateVersion = v
        /\ x.observationId = o /\ x.candidateObservationId = candidate.observationId
    BY DEF AdmittedRecord
  <2>3. Min(Find("candidate")) \in Find("candidate")
    BY <1>2, <1>7, MinMember
  <2>4. \E j \in DOMAIN epoch : CandidateOf(epoch[j], x)
    BY <2>2, <2>3 DEF Recorded, CandidateOf
  <2>5. Fitting(epoch, t, d)
    BY <1>7, <2>1, <2>2, <2>4 DEF Decision, Fitting
  <2>6. QED
    BY <1>1, <1>7, <2>1, <2>2, <2>5 DEF Decision
<1>8. QED
  BY <1>3, <1>4, <1>5, <1>6, <1>7

\* governorDecision, on the whole ledger.
LEMMA DecisionFits ==
    ASSUME NEW records, IsList(records), NEW t, NEW v, NEW o, NEW commands,
           NEW d, d = governorDecision(records, t, v, o, commands)
    PROVE  /\ Fitting(records, t, d)
           /\ d.execute => d.record = << >> \/ d.record[1].status = "admitted"
           /\ d.execute \/ d.action = "wait" => Unapplied(records, t, v)
<1> DEFINE epoch == ActiveRecords(records)
<1>1. CASE OpenPause(records) = {}
  <2>1. d = EpochDecision(epoch, t, v, o)
    BY <1>1 DEF governorDecision
  <2>2. IsList(epoch) /\ \A j \in DOMAIN epoch : \E i \in DOMAIN records : records[i] = epoch[j]
    BY ActiveList, ListShape
  <2>3. /\ Fitting(epoch, t, d)
        /\ d.execute => d.record = << >> \/ d.record[1].status = "admitted"
        /\ d.execute \/ d.action = "wait"
              => Recorded(epoch, {"applied", "started"}, t, v) = {}
    BY <2>1, <2>2, EpochDecisionFits
  <2>4. Fitting(records, t, d)
    BY <2>2, <2>3 DEF Fitting
  <2>5. QED
    BY <2>3, <2>4 DEF Unapplied
<1>2. CASE OpenPause(records) # {} /\ commands = {}
  <2>1. d = Decision("paused", FALSE, << >>)
    BY <1>2 DEF governorDecision
  <2>2. QED
    BY <2>1 DEF Decision, Fitting
<1>3. CASE OpenPause(records) # {} /\ commands # {}
  <2> DEFINE x == ResumedRecord(t, v, o, records[Max(OpenPause(records))].observationId,
                                CHOOSE c \in commands : TRUE)
  <2>1. d = Decision("record-resume", FALSE, <<x>>)
    BY <1>3 DEF governorDecision
  <2>2. x.status = "resumed"
    BY DEF ResumedRecord
  <2> HIDE DEF x
  <2>3. QED
    BY <2>1, <2>2 DEF Decision, Fitting
<1>4. QED
  BY <1>1, <1>2, <1>3

\* governorBudgetDecision writes an attempt, a pause or nothing.
LEMMA BudgetFits ==
    ASSUME NEW records, NEW budget, NEW o, NEW limit,
           NEW d, d = governorBudgetDecision(records, budget, o, limit)
    PROVE  \/ d.record = << >>
           \/ \E x : d.record = <<x>> /\ x.status \in {"attempt", "paused"}
<1> DEFINE epoch == ActiveRecords(records)
           charges == Charges(epoch, budget)
           consumed == Cardinality({epoch[i].attempt : i \in charges})
<1>1. \/ d = Decision("noop", FALSE, << >>)
      \/ d = Decision("pause", FALSE, << PausedRecord(budget, o) >>)
      \/ d = Decision("attempt", TRUE, << AttemptRecord(budget, o, consumed + 1) >>)
  BY DEF governorBudgetDecision, BudgetOver
<1>2. PausedRecord(budget, o).status = "paused"
      /\ AttemptRecord(budget, o, consumed + 1).status = "attempt"
  BY DEF PausedRecord, AttemptRecord
<1> HIDE DEF consumed
<1>3. QED
  BY <1>1, <1>2 DEF Decision

-----------------------------------------------------------------------------
(* Scripts                                                                 *)

\* A list of requests that admits nothing.
Plain(requests) ==
    IsList(requests) /\
        \A k \in DOMAIN requests : Writes(requests, k) => ~ Admits(requests[k].record)

\* A list of requests that comes before a dispatch.
Before(requests) ==
    NoneDone(requests) /\ \A k \in DOMAIN requests : ~ Dispatches(requests, k)

\* What is said of the requests one by one holds of two lists in a row.
LEMMA ScriptConcat ==
    ASSUME NEW a, NEW b, IsList(a), IsList(b)
    PROVE  /\ Plain(a) /\ Plain(b) => Plain(a \o b)
           /\ NoneDone(a) /\ NoneDone(b) => NoneDone(a \o b)
           /\ Before(a) /\ Before(b) => Before(a \o b)
<1>1. /\ IsList(a \o b) /\ Len(a) \in Nat /\ Len(b) \in Nat
      /\ DOMAIN a = 1 .. Len(a) /\ DOMAIN b = 1 .. Len(b)
      /\ DOMAIN (a \o b) = 1 .. (Len(a) + Len(b))
      /\ \A i \in 1 .. Len(a) : (a \o b)[i] = a[i]
      /\ \A i \in 1 .. Len(b) : (a \o b)[Len(a) + i] = b[i]
  BY ListConcat, ListShape
<1>2. ASSUME NEW k \in DOMAIN (a \o b)
      PROVE  \/ k \in DOMAIN a /\ (a \o b)[k] = a[k]
             \/ \E i \in DOMAIN b : (a \o b)[k] = b[i]
  <2>1. CASE k <= Len(a)
    BY <1>1, <2>1
  <2>2. CASE k > Len(a)
    <3>1. k - Len(a) \in 1 .. Len(b) /\ Len(a) + (k - Len(a)) = k
      BY <1>1, <2>2
    <3>2. QED
      BY <1>1, <3>1
  <2>3. QED
    BY <1>1, <2>1, <2>2
<1>3. QED
  BY <1>1, <1>2 DEF Plain, NoneDone, Before, Writes, Dispatches

\* What follows sound requests may be anything that admits nothing.
LEMMA SoundConcat ==
    ASSUME NEW records, NEW a, NEW b, IsList(a), Sound(records, a), Plain(b)
    PROVE  Sound(records, a \o b)
<1> DEFINE s == a \o b
<1>1. /\ IsList(b) /\ Len(a) \in Nat /\ Len(b) \in Nat
      /\ DOMAIN a = 1 .. Len(a) /\ DOMAIN b = 1 .. Len(b)
      /\ DOMAIN s = 1 .. (Len(a) + Len(b))
      /\ \A i \in 1 .. Len(a) : s[i] = a[i]
      /\ \A i \in 1 .. Len(b) : s[Len(a) + i] = b[i]
  BY ListConcat, ListShape DEF Plain
<1> HIDE DEF s
<1> SUFFICES ASSUME NEW k \in DOMAIN s, Writes(s, k), Admits(s[k].record)
             PROVE  /\ s[k].record.candidateObservationId # s[k].record.observationId
                    /\ \/ \E j \in DOMAIN records : CandidateOf(records[j], s[k].record)
                       \/ \E l \in 1 .. (k - 1) :
                             Writes(s, l) /\ CandidateOf(s[l].record, s[k].record)
  BY DEF Sound, s
<1>2. k <= Len(a)
  <2>1. SUFFICES ASSUME k > Len(a) PROVE FALSE
    BY <1>1
  <2>2. k - Len(a) \in 1 .. Len(b) /\ Len(a) + (k - Len(a)) = k
    BY <1>1, <2>1
  <2>3. s[k] = b[k - Len(a)]
    BY <1>1, <2>2
  <2>4. QED
    BY <1>1, <2>2, <2>3 DEF Plain, Writes
<1>3. k \in DOMAIN a /\ s[k] = a[k] /\ \A l \in 1 .. (k - 1) : s[l] = a[l]
  BY <1>1, <1>2
<1>4. Writes(a, k) /\ Admits(a[k].record)
  BY <1>3 DEF Writes
<1>5. /\ a[k].record.candidateObservationId # a[k].record.observationId
      /\ \/ \E j \in DOMAIN records : CandidateOf(records[j], a[k].record)
         \/ \E l \in 1 .. (k - 1) : Writes(a, l) /\ CandidateOf(a[l].record, a[k].record)
  BY <1>3, <1>4 DEF Sound
<1>6. QED
  BY <1>3, <1>5 DEF Writes

\* A list that admits nothing is sound.
LEMMA PlainSound ==
    ASSUME NEW records, NEW requests, Plain(requests)
    PROVE  Sound(records, requests)
BY DEF Plain, Sound

\* The empty script and the requests the programs make.
LEMMA SmallScripts ==
    /\ Plain(<< >>) /\ Before(<< >>)
    /\ \A op : op \notin {"write", "perform"} => Plain(Request(op)) /\ Before(Request(op))
    /\ \A budget, transition : Plain(Perform(budget, transition))
    /\ \A budget, transition : NoneDone(Perform(budget, transition))
    /\ \A x : ~ Admits(x) => Plain(Write(<<x>>))
    /\ \A x : ~ Done(x) \/ ~ OfRepair(x) => Before(Write(<<x>>))
<1>1. Plain(<< >>) /\ Before(<< >>)
  BY ShortLists DEF Plain, Before, NoneDone
<1>2. ASSUME NEW op, op \notin {"write", "perform"} PROVE Plain(Request(op)) /\ Before(Request(op))
  <2>1. IsList(Request(op)) /\ DOMAIN Request(op) = {1} /\ Request(op)[1].op = op
    BY ShortLists DEF Request
  <2>2. QED
    BY <1>2, <2>1 DEF Plain, Before, NoneDone, Writes, Dispatches
<1>3. ASSUME NEW budget, NEW transition
      PROVE  Plain(Perform(budget, transition)) /\ NoneDone(Perform(budget, transition))
  <2>1. /\ IsList(Perform(budget, transition)) /\ DOMAIN Perform(budget, transition) = {1}
        /\ Perform(budget, transition)[1].op = "perform"
    BY ShortLists DEF Perform
  <2>2. QED
    BY <2>1 DEF Plain, NoneDone, Writes
<1>4. ASSUME NEW x
      PROVE  /\ ~ Admits(x) => Plain(Write(<<x>>))
             /\ ~ Done(x) \/ ~ OfRepair(x) => Before(Write(<<x>>))
  <2> DEFINE s == Write(<<x>>)
  <2>1. IsList(<<x>>) /\ Len(<<x>>) = 1 /\ <<x>>[1] = x
    BY ShortLists
  <2>2. IsList(s) /\ Len(s) = 1 /\ s[1].op = "write" /\ s[1].record = x
    BY <2>1, WriteList
  <2>3. DOMAIN s = {1}
    BY <2>2, ListShape
  <2> HIDE DEF s
  <2>4. ~ Admits(x) => Plain(s)
    BY <2>2, <2>3 DEF Plain
  <2>5. ~ Done(x) \/ ~ OfRepair(x) => Before(s)
    BY <2>2, <2>3 DEF Before, NoneDone, Dispatches
  <2>6. QED
    BY <2>4, <2>5 DEF s
<1>5. QED
  BY <1>1, <1>2, <1>3, <1>4

\* Writing nothing is nothing.
LEMMA WriteNothing == Write(<< >>) = << >>
BY DEF Write

\* Records decided on this ledger: no completions, and admissions that name
\* another observation's candidate in it.
Written(records, list) ==
    /\ IsList(list)
    /\ \A i \in DOMAIN list : list[i].status \in {"candidate", "resumed", "admitted"}
    /\ \A i \in DOMAIN list :
          Admits(list[i]) =>
              /\ list[i].candidateObservationId # list[i].observationId
              /\ \E j \in DOMAIN records : CandidateOf(records[j], list[i])

\* What a decision writes is decided on its ledger.
LEMMA FittingWritten ==
    ASSUME NEW records, NEW t, NEW d, Fitting(records, t, d)
    PROVE  Written(records, d.record)
<1>1. CASE d.record = << >>
  BY <1>1, ShortLists DEF Written
<1>2. ASSUME NEW x, d.record = <<x>>,
             \/ x.status \in {"candidate", "resumed"}
             \/ /\ x.status = "admitted" /\ x.candidateObservationId # x.observationId
                /\ \E j \in DOMAIN records : CandidateOf(records[j], x)
      PROVE  Written(records, d.record)
  <2>1. IsList(d.record) /\ DOMAIN d.record = {1} /\ d.record[1] = x
    BY <1>2, ShortLists
  <2>2. QED
    BY <1>2, <2>1 DEF Written, Admits
<1>3. QED
  BY <1>1, <1>2 DEF Fitting

\* Writing such records is sound and comes before a dispatch; so is writing
\* those of two decisions, the second made on the ledger with the first.
LEMMA WrittenTwice ==
    ASSUME NEW records, IsList(records), NEW a, NEW b,
           Written(records, a), Written(records \o a, b)
    PROVE  /\ Sound(records, Write(a \o b)) /\ IsList(Write(a \o b)) /\ Before(Write(a \o b))
<1> DEFINE both == a \o b
           longer == records \o a
           s == Write(both)
<1>1. /\ IsList(a) /\ IsList(b) /\ Len(a) \in Nat /\ Len(b) \in Nat
      /\ DOMAIN a = 1 .. Len(a) /\ DOMAIN b = 1 .. Len(b)
  BY ListShape DEF Written
<1>2. /\ IsList(both) /\ DOMAIN both = 1 .. (Len(a) + Len(b))
      /\ \A i \in 1 .. Len(a) : both[i] = a[i]
      /\ \A i \in 1 .. Len(b) : both[Len(a) + i] = b[i]
  BY <1>1, ListConcat, ListShape
<1>3. /\ DOMAIN records = 1 .. Len(records) /\ Len(records) \in Nat
      /\ DOMAIN longer = 1 .. (Len(records) + Len(a))
      /\ \A n \in 1 .. Len(records) : longer[n] = records[n]
      /\ \A n \in 1 .. Len(a) : longer[Len(records) + n] = a[n]
  BY <1>1, ListConcat, ListShape
<1> HIDE DEF both, longer
<1>4. /\ IsList(s) /\ DOMAIN s = DOMAIN both
      /\ \A k \in DOMAIN both : s[k].op = "write" /\ s[k].record = both[k]
  <2>1. /\ IsList(s) /\ Len(s) = Len(both)
        /\ \A i \in 1 .. Len(both) : s[i].op = "write" /\ s[i].record = both[i]
    BY <1>2, WriteList
  <2>2. QED
    BY <1>2, <2>1, ListShape
<1> HIDE DEF s
<1>5. ASSUME NEW k \in DOMAIN both, k > Len(a)
      PROVE  \E i \in DOMAIN b : both[k] = b[i]
  <2>1. k - Len(a) \in 1 .. Len(b) /\ Len(a) + (k - Len(a)) = k
    BY <1>1, <1>2, <1>5
  <2>2. QED
    BY <1>1, <1>2, <2>1
<1>6. ASSUME NEW k \in DOMAIN both, k <= Len(a)
      PROVE  k \in DOMAIN a /\ both[k] = a[k]
  BY <1>1, <1>2, <1>6
<1>7. \A k \in DOMAIN both : k > Len(a) \/ k <= Len(a)
  BY <1>1, <1>2
<1>8. \A k \in DOMAIN both : ~ Done(both[k])
  BY <1>5, <1>6, <1>7 DEF Written, Done
<1>9. Before(s)
  BY <1>4, <1>8 DEF Before, NoneDone, Dispatches
<1>10. ASSUME NEW k \in DOMAIN both, Admits(both[k])
       PROVE  /\ both[k].candidateObservationId # both[k].observationId
              /\ \/ \E j \in DOMAIN records : CandidateOf(records[j], both[k])
                 \/ \E l \in 1 .. (k - 1) : l \in DOMAIN both /\ CandidateOf(both[l], both[k])
  <2>1. CASE k <= Len(a)
    BY <1>6, <1>10, <2>1 DEF Written
  <2>2. CASE k > Len(a)
    <3>1. PICK i \in DOMAIN b : both[k] = b[i]
      BY <1>5, <2>2
    <3>2. both[k].candidateObservationId # both[k].observationId
      BY <1>10, <3>1 DEF Written
    <3>3. PICK j \in DOMAIN longer : CandidateOf(longer[j], both[k])
      BY <1>10, <3>1 DEF Written, longer
    <3>4. CASE j <= Len(records)
      <4>1. j \in DOMAIN records /\ longer[j] = records[j]
        BY <1>1, <1>3, <3>4
      <4>2. QED
        BY <3>2, <3>3, <4>1
    <3>5. CASE j > Len(records)
      <4> DEFINE l == j - Len(records)
      <4>1. l \in 1 .. Len(a) /\ Len(records) + l = j
        BY <1>1, <1>3, <3>5
      <4>2. longer[j] = both[l] /\ l \in DOMAIN both
        BY <1>1, <1>2, <1>3, <4>1
      <4>3. l \in 1 .. (k - 1)
        BY <1>1, <1>2, <2>2, <4>1
      <4> HIDE DEF l
      <4>4. QED
        BY <3>2, <3>3, <4>2, <4>3
    <3>6. QED
      BY <1>1, <1>3, <3>4, <3>5
  <2>3. QED
    BY <1>7, <2>1, <2>2
<1>11. Sound(records, s)
  BY <1>4, <1>10 DEF Sound, Writes
<1>12. QED
  BY <1>4, <1>9, <1>11 DEF s, both

\* One decision.
LEMMA WrittenOnce ==
    ASSUME NEW records, IsList(records), NEW a, Written(records, a)
    PROVE  Sound(records, Write(a)) /\ IsList(Write(a)) /\ Before(Write(a))
<1>1. Written(records \o << >>, a) /\ Written(records, << >>)
  <2>1. records \o << >> = records
    BY DEF IsList
  <2>2. QED
    BY <2>1, ShortLists DEF Written
<1>2. << >> \o a = a
  BY DEF Written, IsList
<1>3. QED
  BY <1>1, <1>2, WrittenTwice

\* What comes before a dispatch does not matter for it.
LEMMA ReconcilePrefix ==
    ASSUME NEW records, NEW v, NEW a, NEW b, Before(a), IsList(b), ReconcileOk(records, b, v)
    PROVE  ReconcileOk(records, a \o b, v)
<1> DEFINE s == a \o b
<1>1. /\ Len(a) \in Nat /\ Len(b) \in Nat
      /\ DOMAIN a = 1 .. Len(a) /\ DOMAIN b = 1 .. Len(b)
      /\ DOMAIN s = 1 .. (Len(a) + Len(b))
      /\ \A i \in 1 .. Len(a) : s[i] = a[i]
      /\ \A i \in 1 .. Len(b) : s[Len(a) + i] = b[i]
  BY ListConcat, ListShape DEF Before, NoneDone
<1> HIDE DEF s
<1> SUFFICES ASSUME NEW k \in DOMAIN s, Dispatches(s, k)
             PROVE  /\ s[k].transition[1] \in Repair
                    /\ DoneLater(s, k) /\ Unapplied(records, s[k].transition, v)
  BY DEF ReconcileOk, s
<1>2. ASSUME NEW l \in DOMAIN s, l > Len(a)
      PROVE  l - Len(a) \in DOMAIN b /\ s[l] = b[l - Len(a)]
  <2>1. l - Len(a) \in 1 .. Len(b) /\ Len(a) + (l - Len(a)) = l
    BY <1>1, <1>2
  <2>2. QED
    BY <1>1, <2>1
<1>3. k > Len(a)
  <2>1. k <= Len(a) => k \in DOMAIN a /\ s[k] = a[k]
    BY <1>1
  <2>2. QED
    BY <1>1, <2>1 DEF Before, Dispatches
<1>4. /\ k - Len(a) \in DOMAIN b /\ s[k] = b[k - Len(a)]
      /\ s[k].transition[1] \in Repair
      /\ DoneLater(b, k - Len(a)) /\ Unapplied(records, s[k].transition, v)
  BY <1>2, <1>3 DEF ReconcileOk, Dispatches
<1>5. ASSUME NEW l \in 1 .. k, Writes(s, l), Done(s[l].record) PROVE ~ OfRepair(s[l].record)
  <2>1. CASE l <= Len(a)
    <3>1. l \in DOMAIN a /\ s[l] = a[l]
      BY <1>1, <2>1
    <3>2. QED
      BY <1>5, <3>1 DEF Before, NoneDone, Writes
  <2>2. CASE l > Len(a)
    <3>1. l \in DOMAIN s /\ l - Len(a) \in 1 .. (k - Len(a))
      BY <1>1, <1>3, <2>2
    <3>2. s[l] = b[l - Len(a)]
      BY <1>2, <2>2, <3>1
    <3>3. QED
      BY <1>4, <1>5, <3>1, <3>2 DEF DoneLater, Writes
  <2>3. QED
    BY <1>1, <2>1, <2>2
<1>6. QED
  BY <1>4, <1>5 DEF DoneLater

\* Two lists of one element.
LEMMA PairConcat ==
    ASSUME NEW a, NEW b, IsList(a), IsList(b)
    PROVE  Len(a) = 1 /\ Len(b) = 1
             => /\ IsList(a \o b) /\ Len(a \o b) = 2
                /\ (a \o b)[1] = a[1] /\ (a \o b)[2] = b[1]
<1> DEFINE c == a \o b
<1>1. /\ IsList(c) /\ Len(c) = Len(a) + Len(b)
      /\ \A i \in 1 .. Len(a) : c[i] = a[i]
      /\ \A i \in 1 .. Len(b) : c[Len(a) + i] = b[i]
  BY ListConcat
<1> HIDE DEF c
<1>2. Len(a) = 1 /\ Len(b) = 1 => c[1] = a[1] /\ c[1 + 1] = b[1] /\ Len(c) = 1 + 1
  BY <1>1
<1>3. QED
  BY <1>1, <1>2 DEF c

\* A dispatch and its completion.
LEMMA ReconcileDispatch ==
    ASSUME NEW records, NEW v, NEW t, NEW budget, NEW x, Unapplied(records, t, v), budget = t[1]
    PROVE  ReconcileOk(records, Perform(budget, t) \o Write(<<x>>), v)
<1> DEFINE s == Perform(budget, t) \o Write(<<x>>)
<1>1. /\ IsList(Perform(budget, t)) /\ Len(Perform(budget, t)) = 1
      /\ Perform(budget, t)[1].op = "perform" /\ Perform(budget, t)[1].transition = t
      /\ Perform(budget, t)[1].budget = budget
  BY ShortLists DEF Perform
<1>2. IsList(Write(<<x>>)) /\ Len(Write(<<x>>)) = 1 /\ Write(<<x>>)[1].op = "write"
  <2>1. IsList(<<x>>) /\ Len(<<x>>) = 1
    BY ShortLists
  <2>2. QED
    BY <2>1, WriteList
<1>3. /\ Len(s) = 2 /\ IsList(s)
      /\ s[1] = Perform(budget, t)[1] /\ s[2] = Write(<<x>>)[1]
  BY <1>1, <1>2, PairConcat
<1>4. DOMAIN s = 1 .. 2
  BY <1>3, ListShape
<1>5. /\ s[1].op = "perform" /\ s[1].transition = t /\ s[1].budget = budget
      /\ s[2].op = "write"
  BY <1>1, <1>2, <1>3
<1> HIDE DEF s
<1>6. \A k \in 1 .. 2 : k = 1 \/ k = 2
  OBVIOUS
<1>7. \A k \in DOMAIN s :
          Dispatches(s, k) => k = 1 /\ s[k].transition = t /\ t[1] \in Repair
  BY <1>4, <1>5, <1>6 DEF Dispatches
<1>8. DoneLater(s, 1)
  BY <1>5 DEF DoneLater, Writes
<1>9. ReconcileOk(records, s, v)
  BY <1>7, <1>8 DEF ReconcileOk
<1>10. QED
  BY <1>9 DEF s

\* A list without a dispatch.
LEMMA BeforeReconciles ==
    ASSUME NEW records, NEW v, NEW a, Before(a)
    PROVE  ReconcileOk(records, a, v)
BY DEF Before, ReconcileOk

\* The end of a budgeted script: what holds of going on and of pausing holds
\* with the record of the budget before it.
LEMMA BudgetedFits ==
    ASSUME NEW records, NEW budget, NEW o, NEW limit, NEW v, NEW go, NEW show,
           NEW d, d = governorBudgetDecision(records, budget, o, limit),
           Plain(go), Plain(show), Before(show)
    PROVE  /\ Plain(Budgeted(budget, d, go, show))
           /\ NoneDone(go) => NoneDone(Budgeted(budget, d, go, show))
           /\ ReconcileOk(records, go, v)
                 => ReconcileOk(records, Budgeted(budget, d, go, show), v)
<1> DEFINE w == Write(d.record)
<1>1. Plain(w) /\ Before(w)
  <2>1. CASE d.record = << >>
    BY <2>1, WriteNothing, SmallScripts
  <2>2. ASSUME NEW x, d.record = <<x>>, x.status \in {"attempt", "paused"}
        PROVE  Plain(w) /\ Before(w)
    BY <2>2, SmallScripts DEF Admits, Done
  <2>3. QED
    BY <2>1, <2>2, BudgetFits
<1> HIDE DEF w
<1>2. Budgeted(budget, d, go, show) \in {w \o go, w \o show, << >>}
  BY DEF Budgeted, w
<1>3. IsList(w) /\ IsList(go) /\ IsList(show) /\ NoneDone(w) /\ NoneDone(show)
  BY <1>1 DEF Plain, Before
<1>4. Plain(w \o go) /\ Plain(w \o show) /\ Before(w \o show)
  BY <1>1, <1>3, ScriptConcat
<1>5. NoneDone(go) => NoneDone(w \o go)
  BY <1>3, ScriptConcat
<1>6. NoneDone(w \o show)
  BY <1>3, ScriptConcat
<1>7. ReconcileOk(records, go, v) => ReconcileOk(records, w \o go, v)
  BY <1>1, <1>3, ReconcilePrefix
<1>8. ReconcileOk(records, w \o show, v)
  BY <1>4, BeforeReconciles
<1>9. Plain(<< >>) /\ NoneDone(<< >>) /\ ReconcileOk(records, << >>, v)
  BY SmallScripts, BeforeReconciles DEF Before
<1>10. QED
  BY <1>2, <1>4, <1>5, <1>6, <1>7, <1>8, <1>9

\* What the programs decide, read by read.
DecidedOk(r, requests) ==
    /\ IsList(requests)
    /\ Sound(ledger, requests)
    /\ KindOf[r] # "reconcile" => NoneDone(requests)
    /\ KindOf[r] = "reconcile" => ReconcileOk(ledger, requests, seen[r].version)

\* A list that comes before a dispatch and admits nothing is fine for all.
LEMMA BeforeDecided ==
    ASSUME NEW r, NEW a, Sound(ledger, a), Before(a)
    PROVE  DecidedOk(r, a)
BY BeforeReconciles DEF DecidedOk, Before, NoneDone

\* Decided records and then requests that admit nothing.
LEMMA ThenPlain ==
    ASSUME NEW r, NEW a, NEW b, Sound(ledger, a), Before(a), Plain(b),
           KindOf[r] # "reconcile" => NoneDone(b),
           KindOf[r] = "reconcile" => ReconcileOk(ledger, b, seen[r].version)
    PROVE  DecidedOk(r, a \o b)
<1>1. IsList(a) /\ IsList(b) /\ NoneDone(a)
  BY DEF Before, NoneDone, Plain
<1>2. IsList(a \o b)
  BY <1>1, ListConcat
<1>3. Sound(ledger, a \o b)
  BY <1>1, SoundConcat
<1>4. KindOf[r] # "reconcile" => NoneDone(a \o b)
  BY <1>1, ScriptConcat
<1>5. KindOf[r] = "reconcile" => ReconcileOk(ledger, a \o b, seen[r].version)
  BY <1>1, ReconcilePrefix
<1>6. QED
  BY <1>2, <1>3, <1>4, <1>5 DEF DecidedOk

\* Nothing to send.
LEMMA NothingDecided == \A r : DecidedOk(r, << >>)
BY SmallScripts, PlainSound, BeforeDecided

\* A decision on the ledger is fine to send.
LEMMA DecisionWrites ==
    ASSUME IsList(ledger), NEW t, NEW v, NEW o, NEW commands,
           NEW d, d = governorDecision(ledger, t, v, o, commands)
    PROVE  Sound(ledger, Write(d.record)) /\ IsList(Write(d.record)) /\ Before(Write(d.record))
<1>1. Written(ledger, d.record)
  BY DecisionFits, FittingWritten
<1>2. QED
  BY <1>1, WrittenOnce

\* advance-pr.mjs.
LEMMA AdvanceFits ==
    ASSUME IsList(ledger), NEW r
    PROVE  DecidedOk(r, AdvanceScript(r))
<1> DEFINE v == seen[r].version
           t == <<IF KindOf[r] = "advance" THEN "review-repair" ELSE "merge-repair", v>>
           d == governorDecision(ledger, t, v, Observation(r), {})
<1>1. AdvanceScript(r) = << >> \/ AdvanceScript(r) = Write(d.record)
  BY DEF AdvanceScript
<1> HIDE DEF t, v
<1>2. Sound(ledger, Write(d.record)) /\ Before(Write(d.record))
  BY DecisionWrites
<1>3. QED
  BY <1>1, <1>2, BeforeDecided, NothingDecided

\* wake-rework.mjs and resume-fault.mjs.
LEMMA WakeFits ==
    ASSUME IsList(ledger), NEW r
    PROVE  DecidedOk(r, WakeScript(r)) /\ DecidedOk(r, FaultResumeScript(r))
<1>1. ASSUME NEW t, NEW v, NEW o, NEW c
      PROVE  /\ DecidedOk(r, Write(governorDecision(ledger, t, v, o, c).record))
             /\ DecidedOk(r, Write(governorDecision(ledger, t, v, o, c).record)
                                 \o Request("unpause"))
             /\ DecidedOk(r, Write(governorDecision(ledger, t, v, o, c).record) \o << >>)
  <2> DEFINE w == Write(governorDecision(ledger, t, v, o, c).record)
  <2>1. Sound(ledger, w) /\ Before(w)
    BY DecisionWrites
  <2> HIDE DEF w
  <2>2. ASSUME NEW b, Plain(b), Before(b) PROVE DecidedOk(r, w \o b)
    BY <2>1, <2>2, BeforeReconciles, ThenPlain DEF Before
  <2>3. Plain(Request("unpause")) /\ Before(Request("unpause")) /\ Plain(<< >>) /\ Before(<< >>)
    BY SmallScripts
  <2>4. DecidedOk(r, w)
    BY <2>1, BeforeDecided
  <2>5. QED
    BY <2>2, <2>3, <2>4 DEF w
<1> DEFINE v == seen[r].version
           commands == IF KindOf[r] = "resume" THEN {Observation(r)} ELSE {}
           woken == governorDecision(ledger, <<"review-repair", 0>>, v, Observation(r), commands)
           resumed == governorDecision(ledger, Recovery, v, Observation(r),
                                       {<<"fault", Trigger[r]>>})
<1>2. WakeScript(r) \in {Write(woken.record) \o Request("unpause"), Write(woken.record) \o << >>}
  BY DEF WakeScript
<1>3. FaultResumeScript(r) \in {Write(resumed.record) \o Request("unpause"), << >>}
  BY DEF FaultResumeScript
<1> HIDE DEF commands, v
<1>4. /\ DecidedOk(r, Write(woken.record) \o Request("unpause"))
      /\ DecidedOk(r, Write(woken.record) \o << >>)
  BY <1>1, Zenon
<1>5. DecidedOk(r, Write(resumed.record) \o Request("unpause"))
  BY <1>1, Zenon
<1> HIDE DEF woken, resumed
<1>6. QED
  BY <1>2, <1>3, <1>4, <1>5, NothingDecided

\* reconcile-reviews.mjs.
LEMMA ReconcileFits ==
    ASSUME IsList(ledger), NEW r, KindOf[r] = "reconcile"
    PROVE  DecidedOk(r, ReconcileScript(r))
<1> DEFINE v == seen[r].version
           t == seen[r].pending
           admissions == Recorded(ledger, {"admitted"}, t, v)
           decision == governorDecision(ledger, t, v, Observation(r), {})
           replay == admissions # {}
           charged == IF decision.record # << >>
                      THEN decision.record[1].observationId
                      ELSE IF replay THEN ledger[Min(admissions)].observationId
                      ELSE Observation(r)
           budget == governorBudgetDecision(ledger, t[1], charged, Limit[t[1]])
           go == DispatchThenApplied(r, t)
           rest == IF decision.execute \/ (replay /\ decision.action = "wait")
                   THEN IF replay /\ budget.action = "noop" THEN go
                        ELSE Budgeted(t[1], budget, go, Request("pause"))
                   ELSE << >>
<1>1. ReconcileScript(r) = Write(decision.record) \o rest
  BY DEF ReconcileScript
<1>2. Sound(ledger, Write(decision.record)) /\ Before(Write(decision.record))
  BY DecisionWrites
<1>3. decision.execute \/ decision.action = "wait" => Unapplied(ledger, t, v)
  BY DecisionFits
<1>4. Plain(go) /\ (Unapplied(ledger, t, v) => ReconcileOk(ledger, go, v))
  <2>1. CASE go = << >>
    BY <2>1, SmallScripts, BeforeReconciles
  <2>2. CASE go # << >>
    <3> DEFINE x == AppliedRecord(t, v, Observation(r))
    <3>1. go = Perform(t[1], t) \o Write(<<x>>)
      BY <2>2 DEF DispatchThenApplied
    <3>2. ~ Admits(x)
      BY DEF AppliedRecord, Admits
    <3> HIDE DEF x
    <3>3. Plain(Perform(t[1], t)) /\ Plain(Write(<<x>>))
      BY <3>2, SmallScripts
    <3>4. Plain(Perform(t[1], t) \o Write(<<x>>))
      BY <3>3, ScriptConcat DEF Plain
    <3>5. Unapplied(ledger, t, v) => ReconcileOk(ledger, Perform(t[1], t) \o Write(<<x>>), v)
      BY ReconcileDispatch
    <3>6. QED
      BY <3>1, <3>4, <3>5
  <2>3. QED
    BY <2>1, <2>2
<1>5. Plain(Request("pause")) /\ Before(Request("pause"))
  BY SmallScripts
<1>6. /\ Plain(Budgeted(t[1], budget, go, Request("pause")))
      /\ ReconcileOk(ledger, go, v)
            => ReconcileOk(ledger, Budgeted(t[1], budget, go, Request("pause")), v)
  <2> HIDE DEF go, t, v, charged
  <2>1. QED
    BY <1>4, <1>5, BudgetedFits
<1> HIDE DEF decision, go, budget, replay, t, v
<1>7. Plain(rest) /\ ReconcileOk(ledger, rest, v)
  <2>1. Plain(<< >>) /\ ReconcileOk(ledger, << >>, v)
    BY SmallScripts, BeforeReconciles
  <2>2. QED
    BY <1>3, <1>4, <1>6, <2>1
<1>8. QED
  BY <1>1, <1>2, <1>7, ThenPlain DEF v

\* recover-backlog.mjs: a recovery is applied before it wakes the work, which
\* is no repair.
LEMMA RecoverFits ==
    ASSUME IsList(ledger), NEW r, KindOf[r] = "recover"
    PROVE  DecidedOk(r, RecoverScript(r))
<1> DEFINE v == seen[r].version
           asked == governorDecision(ledger, Recovery, v, <<"source-run", Trigger[r]>>, {})
           known == Recorded(ledger, {"candidate"}, Recovery, v) # {}
           first == IF known THEN << >> ELSE asked.record
           working == ledger \o first
           decision == governorDecision(working, Recovery, v, Observation(r), {})
           budget == governorBudgetDecision(working, "workflow-recovery", Observation(r),
                                            Limit["workflow-recovery"])
           go == AppliedThenWake(r)
           rest == IF decision.execute
                   THEN Budgeted("workflow-recovery", budget, go, Request("pause"))
                   ELSE << >>
           w == Write(first \o decision.record)
<1>1. RecoverScript(r) = w \o rest
  BY DEF RecoverScript
<1>2. Written(ledger, first)
  <2>1. Written(ledger, asked.record)
    BY DecisionFits, FittingWritten
  <2>2. Written(ledger, << >>)
    BY ShortLists DEF Written
  <2>3. QED
    BY <2>1, <2>2
<1> HIDE DEF first
<1>3. IsList(working)
  BY <1>2, ListConcat DEF Written
<1>4. Written(working, decision.record)
  <2> HIDE DEF working
  <2>1. QED
    BY <1>3, DecisionFits, FittingWritten
<1> HIDE DEF decision
<1>5. Sound(ledger, w) /\ Before(w)
  BY <1>2, <1>4, WrittenTwice
<1>6. Plain(go) /\ NoneDone(go)
  <2> DEFINE x == AppliedRecord(Recovery, v, Observation(r))
  <2>1. ~ Admits(x) /\ ~ OfRepair(x)
    BY DEF AppliedRecord, Admits, OfRepair, Recovery, Repair
  <2> HIDE DEF x
  <2>2. go = Write(<<x>>) \o Perform("workflow-recovery", Recovery)
    BY DEF AppliedThenWake, x
  <2>3. Plain(Write(<<x>>)) /\ NoneDone(Write(<<x>>))
    BY <2>1, SmallScripts DEF Before
  <2>4. /\ Plain(Perform("workflow-recovery", Recovery))
        /\ NoneDone(Perform("workflow-recovery", Recovery))
    BY SmallScripts
  <2>5. QED
    BY <2>2, <2>3, <2>4, ScriptConcat DEF Plain
<1>7. Plain(Request("pause")) /\ Before(Request("pause"))
  BY SmallScripts
<1> HIDE DEF go, working
<1>8. /\ Plain(Budgeted("workflow-recovery", budget, go, Request("pause")))
      /\ NoneDone(Budgeted("workflow-recovery", budget, go, Request("pause")))
  BY <1>6, <1>7, BudgetedFits
<1> HIDE DEF budget, w
<1>9. Plain(rest) /\ NoneDone(rest)
  BY <1>8, SmallScripts DEF Before
<1> HIDE DEF rest
<1>10. DecidedOk(r, w \o rest)
  BY <1>5, <1>9, ThenPlain
<1>11. QED
  BY <1>1, <1>10

\* dsh-repair.mjs for failed CI: the record that starts it stands for an
\* admission of this ledger.
LEMMA CiFits ==
    ASSUME IsList(ledger), NEW r, KindOf[r] # "reconcile"
    PROVE  DecidedOk(r, CiScript(r))
<1> DEFINE v == seen[r].version
           t == <<"ci-repair", Trigger[r]>>
           decision == governorDecision(ledger, t, v, Observation(r), {})
           budget == governorBudgetDecision(ledger, "ci-repair", Observation(r),
                                            Limit["ci-repair"])
           x == createStartedGovernorRecord(decision.record[1], budget.record[1])
           started == Perform("ci-repair", t) \o Write(<<x>>)
           pausing == Budgeted("ci-repair", budget, << >>, Request("try-pause"))
<1>1. \/ CiScript(r) = << >>
      \/ CiScript(r) = Write(decision.record)
      \/ CiScript(r) = pausing
      \/ decision.execute /\ decision.record # << >> /\ CiScript(r) = started
  BY DEF CiScript
<1>2. DecidedOk(r, << >>)
  BY NothingDecided
<1>3. DecidedOk(r, Write(decision.record))
  BY DecisionWrites, BeforeDecided
<1>4. DecidedOk(r, pausing)
  <2>1. Plain(Request("try-pause")) /\ Before(Request("try-pause"))
        /\ Plain(<< >>) /\ NoneDone(<< >>)
    BY SmallScripts DEF Before
  <2>2. Plain(pausing) /\ NoneDone(pausing)
    BY <2>1, BudgetedFits
  <2> HIDE DEF pausing
  <2>3. QED
    BY <2>2, PlainSound DEF DecidedOk, Plain
<1>5. ASSUME decision.execute, decision.record # << >> PROVE DecidedOk(r, started)
  <2>1. /\ Fitting(ledger, t, decision)
        /\ decision.record = << >> \/ decision.record[1].status = "admitted"
    BY <1>5, DecisionFits
  <2> HIDE DEF decision, budget
  <2>2. PICK y : /\ decision.record = <<y>> /\ y.transition = t
                 /\ y.candidateObservationId # y.observationId
                 /\ \E j \in DOMAIN ledger : CandidateOf(ledger[j], y)
    BY <1>5, <2>1 DEF Fitting
  <2>3. /\ x.status = "started" /\ x.transition = y.transition
        /\ x.stateVersion = y.stateVersion /\ x.observationId = y.observationId
        /\ x.candidateObservationId = y.candidateObservationId
    BY <2>2 DEF createStartedGovernorRecord
  <2> HIDE DEF x
  <2>4. ~ OfRepair(x)
    BY <2>2, <2>3 DEF OfRepair, Repair
  <2>5. /\ x.candidateObservationId # x.observationId
        /\ \E j \in DOMAIN ledger : CandidateOf(ledger[j], x)
    BY <2>2, <2>3 DEF CandidateOf
  <2>6. /\ Plain(Perform("ci-repair", t)) /\ NoneDone(Perform("ci-repair", t))
        /\ NoneDone(Write(<<x>>))
    BY <2>4, SmallScripts DEF Before
  <2>7. IsList(started) /\ NoneDone(started)
    BY <2>6, ScriptConcat DEF NoneDone
  <2>8. /\ Len(started) = 2 /\ started[1] = Perform("ci-repair", t)[1]
        /\ started[2] = Write(<<x>>)[1]
    <3>1. IsList(Perform("ci-repair", t)) /\ Len(Perform("ci-repair", t)) = 1
      BY ShortLists DEF Perform
    <3>2. IsList(Write(<<x>>)) /\ Len(Write(<<x>>)) = 1
      BY ShortLists, WriteList
    <3>3. QED
      BY <3>1, <3>2, PairConcat
  <2>9. started[1].op = "perform" /\ started[2].record = x
    BY <2>8 DEF Perform, Write
  <2>10. DOMAIN started = 1 .. 2
    BY <2>7, <2>8, ListShape
  <2> HIDE DEF started
  <2>11. \A k \in 1 .. 2 : k = 1 \/ k = 2
    OBVIOUS
  <2>12. Sound(ledger, started)
    BY <2>5, <2>9, <2>10, <2>11 DEF Sound, Writes
  <2>13. QED
    BY <2>7, <2>12 DEF DecidedOk
<1> HIDE DEF decision, pausing, started
<1>6. QED
  BY <1>1, <1>2, <1>3, <1>4, <1>5

\* Every script.
LEMMA ScriptFits ==
    ASSUME IsList(ledger), NEW r
    PROVE  DecidedOk(r, Script(r))
<1>1. CASE KindOf[r] \in {"advance", "conflict"}
  BY <1>1, AdvanceFits DEF Script
<1>2. CASE KindOf[r] \in {"rework", "resume"}
  BY <1>2, WakeFits DEF Script
<1>3. CASE KindOf[r] = "fault-resume"
  BY <1>3, WakeFits DEF Script
<1>4. CASE KindOf[r] = "reconcile"
  BY <1>4, ReconcileFits DEF Script
<1>5. CASE KindOf[r] = "recover"
  BY <1>5, RecoverFits DEF Script
<1>6. CASE KindOf[r] \notin {"advance", "conflict", "rework", "resume", "fault-resume",
                             "reconcile", "recover"}
  BY <1>6, CiFits DEF Script
<1>7. QED
  BY <1>1, <1>2, <1>3, <1>4, <1>5, <1>6

-----------------------------------------------------------------------------
(* Steps                                                                   *)

\* More records keep a script sound.
LEMMA SoundGrows ==
    ASSUME NEW records, IsList(records), NEW requests, NEW x, Sound(records, requests)
    PROVE  Sound(Append(records, x), requests)
<1>1. \A j \in DOMAIN records : /\ j \in DOMAIN Append(records, x)
                                /\ Append(records, x)[j] = records[j]
  BY ListAppend, ListShape
<1>2. QED
  BY <1>1 DEF Sound

\* What is left of a sound script is sound where its first request went.
LEMMA SoundRest ==
    ASSUME NEW records, NEW longer, NEW requests, IsList(requests), requests # << >>,
           Sound(records, requests),
           \A j \in DOMAIN records : j \in DOMAIN longer /\ longer[j] = records[j],
           Writes(requests, 1) =>
               \E j \in DOMAIN longer : longer[j] = requests[1].record
    PROVE  Sound(longer, Tail(requests))
<1> DEFINE rest == Tail(requests)
<1>1. /\ Len(requests) \in Nat /\ DOMAIN requests = 1 .. Len(requests)
      /\ DOMAIN rest = 1 .. (Len(requests) - 1)
      /\ \A i \in 1 .. (Len(requests) - 1) : rest[i] = requests[i + 1]
  BY ListTail, ListShape
<1> HIDE DEF rest
<1> SUFFICES ASSUME NEW k \in DOMAIN rest, Writes(rest, k), Admits(rest[k].record)
             PROVE  /\ rest[k].record.candidateObservationId # rest[k].record.observationId
                    /\ \/ \E j \in DOMAIN longer : CandidateOf(longer[j], rest[k].record)
                       \/ \E l \in 1 .. (k - 1) :
                             Writes(rest, l) /\ CandidateOf(rest[l].record, rest[k].record)
  BY DEF Sound, rest
<1> DEFINE x == rest[k].record
<1>2. k + 1 \in DOMAIN requests /\ rest[k] = requests[k + 1]
  BY <1>1
<1>3. /\ x.candidateObservationId # x.observationId
      /\ \/ \E j \in DOMAIN records : CandidateOf(records[j], x)
         \/ \E l \in 1 .. ((k + 1) - 1) : Writes(requests, l) /\ CandidateOf(requests[l].record, x)
  BY <1>2 DEF Sound, Writes
<1>4. CASE \E j \in DOMAIN records : CandidateOf(records[j], x)
  BY <1>3, <1>4
<1>5. ASSUME NEW l \in 1 .. ((k + 1) - 1), Writes(requests, l), CandidateOf(requests[l].record, x)
      PROVE  \/ \E j \in DOMAIN longer : CandidateOf(longer[j], x)
             \/ \E m \in 1 .. (k - 1) : Writes(rest, m) /\ CandidateOf(rest[m].record, x)
  <2>1. CASE l = 1
    BY <1>5, <2>1
  <2>2. CASE l # 1
    <3>1. l - 1 \in 1 .. (k - 1) /\ l - 1 \in DOMAIN rest /\ rest[l - 1] = requests[(l - 1) + 1]
      BY <1>1, <2>2
    <3>2. (l - 1) + 1 = l
      BY <1>1
    <3>3. rest[l - 1] = requests[l]
      BY <3>1, <3>2
    <3>4. QED
      BY <1>5, <3>1, <3>3 DEF Writes
  <2>3. QED
    BY <2>1, <2>2
<1>6. QED
  BY <1>3, <1>4, <1>5

\* The rest of a script that records no repair as done, or that dispatches one
\* before it does.
LEMMA RestOk ==
    ASSUME NEW records, NEW v, NEW requests, IsList(requests), requests # << >>
    PROVE  /\ NoneDone(requests) => NoneDone(Tail(requests))
           /\ ReconcileOk(records, requests, v) => ReconcileOk(records, Tail(requests), v)
           /\ ReconcileOk(records, requests, v) =>
                 \A k \in DOMAIN Tail(requests) : Dispatches(Tail(requests), k) =>
                     DoneLater(requests, 1)
<1> DEFINE rest == Tail(requests)
<1>1. /\ Len(requests) \in Nat /\ DOMAIN requests = 1 .. Len(requests) /\ IsList(rest)
      /\ DOMAIN rest = 1 .. (Len(requests) - 1)
      /\ \A i \in 1 .. (Len(requests) - 1) : rest[i] = requests[i + 1]
  BY ListTail, ListShape
<1> HIDE DEF rest
<1>2. \A i \in DOMAIN rest : i + 1 \in DOMAIN requests /\ rest[i] = requests[i + 1]
  BY <1>1
<1>3. NoneDone(requests) => NoneDone(rest)
  BY <1>1, <1>2 DEF NoneDone, Writes
<1>4. ASSUME NEW k \in DOMAIN rest, Dispatches(rest, k), ReconcileOk(records, requests, v)
      PROVE  /\ rest[k].transition[1] \in Repair
             /\ DoneLater(rest, k) /\ Unapplied(records, rest[k].transition, v)
             /\ DoneLater(requests, 1)
  <2>1. /\ rest[k].transition[1] \in Repair
        /\ DoneLater(requests, k + 1) /\ Unapplied(records, rest[k].transition, v)
    BY <1>2, <1>4 DEF ReconcileOk, Dispatches
  <2>2. ASSUME NEW l \in 1 .. k, Writes(rest, l), Done(rest[l].record)
        PROVE  ~ OfRepair(rest[l].record)
    <3>1. l \in DOMAIN rest /\ l + 1 \in 1 .. (k + 1)
      BY <1>1
    <3>2. QED
      BY <1>2, <2>1, <2>2, <3>1 DEF DoneLater, Writes
  <2>3. \A l \in 1 .. 1 : l \in 1 .. (k + 1)
    BY <1>1
  <2>4. QED
    BY <2>1, <2>2, <2>3 DEF DoneLater
<1>5. QED
  BY <1>3, <1>4 DEF ReconcileOk, rest

\* A step that leaves the ledger alone and gives the run a script it may send.
LEMMA MoveStep ==
    ASSUME GovernorInv, UNCHANGED <<plan, ledger>>, NEW r \in Run, NEW location \in Location,
           NEW observed, NEW requests, Move(r, location, observed, requests),
           location = "acting" <=> requests # << >>,
           IsList(requests), Sound(ledger, requests),
           KindOf[r] # "reconcile" => NoneDone(requests),
           KindOf[r] = "reconcile" => ReconcileOk(ledger, requests, observed.version),
           \/ location = "ended" \/ Active(r)
           \/ \A s \in Run : Active(s) => KindOf[s] # "reconcile" \/ KindOf[r] # "reconcile"
    PROVE  GovernorInv'
<1>1. GovernorTypeOK /\ OneReconciliation
  BY DEF GovernorInv
<1>2. Run' = Run /\ KindOf' = KindOf
  BY DEF Run, KindOf
<1>3. /\ pc' = [pc EXCEPT ![r] = location] /\ seen' = [seen EXCEPT ![r] = observed]
      /\ script' = [script EXCEPT ![r] = requests]
  BY DEF Move
<1>4. /\ pc'[r] = location /\ seen'[r] = observed /\ script'[r] = requests
      /\ \A s \in Run \ {r} : pc'[s] = pc[s] /\ seen'[s] = seen[s] /\ script'[s] = script[s]
      /\ pc' \in [Run -> Location] /\ seen' = [s \in Run |-> seen'[s]]
      /\ script' = [s \in Run |-> script'[s]]
  BY <1>1, <1>3 DEF GovernorTypeOK
<1>5. GovernorTypeOK'
  BY <1>1, <1>2, <1>4 DEF GovernorTypeOK
<1>6. OneReconciliation'
  BY <1>1, <1>2, <1>4 DEF OneReconciliation, Active
<1>7. AdmissionIsIndependent'
  BY DEF GovernorInv, AdmissionIsIndependent
<1>8. ASSUME NEW s \in Run PROVE Sound(ledger, script[s])' /\ ScriptOk(s)'
  BY <1>2, <1>4 DEF GovernorInv, ScriptOk
<1>9. QED
  BY <1>2, <1>5, <1>6, <1>7, <1>8 DEF GovernorInv

\* A run that ends.
LEMMA EndStep ==
    ASSUME GovernorInv, UNCHANGED <<plan, ledger>>, NEW r \in Run, End(r)
    PROVE  GovernorInv'
<1>1. Move(r, "ended", NothingSeen, << >>) /\ "ended" \in Location
  BY DEF End, Location
<1>2. DecidedOk(r, << >>) /\ IsList(<< >>) /\ Sound(ledger, << >>) /\ Before(<< >>)
  BY NothingDecided, ShortLists, SmallScripts DEF DecidedOk
<1>3. NoneDone(<< >>) /\ \A v : ReconcileOk(ledger, << >>, v)
  BY <1>2, BeforeReconciles DEF Before
<1>4. QED
  BY <1>1, <1>2, <1>3, MoveStep

\* A request of another kind than a write leaves the ledger alone.
LEMMA QuietSend ==
    ASSUME GovernorInv, plan' = plan, NEW r \in Run, Send(r), Head(script[r]).op # "write"
    PROVE  GovernorInv'
<1> DEFINE s == script[r]
<1>1. /\ IsList(s) /\ s # << >> /\ Active(r) /\ pc[r] = "acting"
      /\ Sound(ledger, s) /\ ScriptOk(r)
  BY DEF GovernorInv, GovernorTypeOK, Send, Active
<1>2. ledger' = ledger /\ ~ Writes(s, 1)
  BY <1>1, ListTail DEF Send, Happens, Writes
<1>3. IsList(Tail(s))
  BY <1>1, ListTail
<1>4. Sound(ledger, Tail(s))
  BY <1>1, <1>2, SoundRest
<1>5. /\ KindOf[r] # "reconcile" => NoneDone(Tail(s))
      /\ KindOf[r] = "reconcile" => ReconcileOk(ledger, Tail(s), seen[r].version)
  BY <1>1, RestOk DEF ScriptOk
<1>6. CASE Tail(s) = << >>
  BY <1>2, <1>6, EndStep DEF Send, Act
<1>7. CASE Tail(s) # << >>
  <2>1. Move(r, "acting", seen[r], Tail(s)) /\ "acting" \in Location
    BY <1>7 DEF Send, Act, Location
  <2> HIDE DEF s
  <2>2. QED
    BY <1>1, <1>2, <1>3, <1>4, <1>5, <1>7, <2>1, MoveStep
<1>8. QED
  BY <1>6, <1>7

\* A record is written.
LEMMA WriteStep ==
    ASSUME GovernorInv, plan' = plan, NEW r \in Run, Send(r), Head(script[r]).op = "write"
    PROVE  GovernorInv'
<1> DEFINE s == script[r]
           rest == Tail(s)
           x == Head(s).record
<1>1. /\ IsList(s) /\ s # << >> /\ Active(r) /\ pc[r] = "acting" /\ IsList(ledger)
      /\ Sound(ledger, s) /\ ScriptOk(r) /\ GovernorTypeOK /\ OneReconciliation
      /\ AdmissionIsIndependent /\ \A q \in Run : Sound(ledger, script[q]) /\ ScriptOk(q)
  BY DEF GovernorInv, GovernorTypeOK, Send, Active
<1>2. ledger' = Append(ledger, x)
  BY DEF Send, Happens
<1>3. /\ IsList(rest) /\ 1 \in DOMAIN s /\ Writes(s, 1) /\ s[1].record = x
  BY <1>1, ListTail DEF Writes
<1>4. /\ IsList(ledger') /\ Len(ledger) \in Nat /\ DOMAIN ledger = 1 .. Len(ledger)
      /\ DOMAIN ledger' = 1 .. (Len(ledger) + 1)
      /\ \A j \in 1 .. Len(ledger) : ledger'[j] = ledger[j]
      /\ ledger'[Len(ledger) + 1] = x
  BY <1>1, <1>2, ListAppend, ListShape
<1>5. /\ Run' = Run /\ KindOf' = KindOf
      /\ script' = [script EXCEPT ![r] = rest]
      /\ \/ rest = << >> /\ pc' = [pc EXCEPT ![r] = "ended"]
            /\ seen' = [seen EXCEPT ![r] = NothingSeen]
         \/ rest # << >> /\ pc' = [pc EXCEPT ![r] = "acting"]
            /\ seen' = [seen EXCEPT ![r] = seen[r]]
  BY DEF Run, KindOf, Send, Act, End, Move
<1> HIDE DEF x, rest
<1>6. /\ script'[r] = rest /\ (rest # << >> => seen'[r] = seen[r])
      /\ pc'[r] \in {"ended", "acting"} /\ (pc'[r] = "acting" <=> rest # << >>)
      /\ \A q \in Run \ {r} : pc'[q] = pc[q] /\ seen'[q] = seen[q] /\ script'[q] = script[q]
      /\ pc' \in [Run -> Location] /\ seen' = [q \in Run |-> seen'[q]]
      /\ script' = [q \in Run |-> script'[q]]
  BY <1>1, <1>5 DEF GovernorTypeOK, Location
<1>7. GovernorTypeOK'
  BY <1>1, <1>3, <1>4, <1>5, <1>6 DEF GovernorTypeOK
<1>8. OneReconciliation'
  BY <1>1, <1>5, <1>6 DEF OneReconciliation, Active
<1>9. AdmissionIsIndependent'
  <2> SUFFICES ASSUME NEW i \in DOMAIN ledger', ledger'[i].status \in {"admitted", "started"}
               PROVE  /\ ledger'[i].candidateObservationId # ledger'[i].observationId
                      /\ \E j \in DOMAIN ledger' :
                            j < i /\ CandidateOf(ledger'[j], ledger'[i])
    BY DEF AdmissionIsIndependent, Recorded, CandidateOf
  <2>1. CASE i \in 1 .. Len(ledger)
    <3>1. /\ ledger[i].candidateObservationId # ledger[i].observationId
          /\ \E j \in DOMAIN ledger : j < i /\ CandidateOf(ledger[j], ledger[i])
      BY <1>1, <1>4, <2>1 DEF AdmissionIsIndependent, Recorded, CandidateOf
    <3>2. PICK j \in DOMAIN ledger : j < i /\ CandidateOf(ledger[j], ledger[i])
      BY <3>1
    <3>3. j \in DOMAIN ledger' /\ ledger'[j] = ledger[j] /\ ledger'[i] = ledger[i]
      BY <1>4, <2>1, <3>2
    <3>4. QED
      BY <3>1, <3>2, <3>3
  <2>2. CASE i = Len(ledger) + 1
    <3>1. ledger'[i] = x /\ Admits(s[1].record)
      BY <1>3, <1>4, <2>2 DEF Admits
    <3>2. /\ x.candidateObservationId # x.observationId
          /\ \/ \E j \in DOMAIN ledger : CandidateOf(ledger[j], x)
             \/ \E l \in 1 .. (1 - 1) : Writes(s, l) /\ CandidateOf(s[l].record, x)
      BY <1>1, <1>3, <3>1 DEF Sound
    <3>3. PICK j \in DOMAIN ledger : CandidateOf(ledger[j], x)
      BY <3>2
    <3>4. j \in DOMAIN ledger' /\ j < i /\ ledger'[j] = ledger[j]
      BY <1>4, <2>2, <3>3
    <3>5. QED
      BY <3>1, <3>2, <3>3, <3>4
  <2>3. QED
    BY <1>4, <2>1, <2>2
<1>10. \A j \in DOMAIN ledger : j \in DOMAIN ledger' /\ ledger'[j] = ledger[j]
  BY <1>4
<1>11. \E j \in DOMAIN ledger' : ledger'[j] = s[1].record
  BY <1>3, <1>4
<1>12. Sound(ledger', rest)
  BY <1>1, <1>10, <1>11, SoundRest DEF rest
<1>13. ScriptOk(r)'
  <2>1. KindOf[r] # "reconcile" => NoneDone(rest)
    BY <1>1, RestOk DEF ScriptOk, rest
  <2>2. ASSUME KindOf[r] = "reconcile", rest # << >>
        PROVE  ReconcileOk(ledger', rest, seen[r].version)
    <3> DEFINE v == seen[r].version
    <3>1. ReconcileOk(ledger, rest, v)
          /\ \A k \in DOMAIN rest : Dispatches(rest, k) => DoneLater(s, 1)
      BY <1>1, <2>2, RestOk DEF ScriptOk, rest
    <3>2. ASSUME NEW k \in DOMAIN rest, Dispatches(rest, k)
          PROVE  /\ rest[k].transition[1] \in Repair /\ DoneLater(rest, k)
                 /\ Unapplied(ledger', rest[k].transition, v)
      <4>1. /\ rest[k].transition[1] \in Repair /\ DoneLater(rest, k)
            /\ Unapplied(ledger, rest[k].transition, v) /\ DoneLater(s, 1)
        BY <3>1, <3>2 DEF ReconcileOk
      <4>2. Done(x) => ~ OfRepair(x)
        BY <1>3, <4>1 DEF DoneLater
      <4>3. ~ (Done(x) /\ x.transition = rest[k].transition)
        BY <4>1, <4>2 DEF OfRepair
      <4>4. QED
        BY <1>1, <1>2, <4>1, <4>3, UnappliedAppend
    <3>3. QED
      BY <3>2 DEF ReconcileOk
  <2>3. rest = << >> => \A v : ReconcileOk(ledger', rest, v)
    BY SmallScripts, BeforeReconciles
  <2>4. QED
    BY <1>5, <1>6, <2>1, <2>2, <2>3 DEF ScriptOk
<1>14. ASSUME NEW q \in Run \ {r} PROVE Sound(ledger, script[q])' /\ ScriptOk(q)'
  <2>1. Sound(ledger', script[q])
    BY <1>1, <1>2, SoundGrows
  <2>2. KindOf[q] # "reconcile" => NoneDone(script[q])
    BY <1>1 DEF ScriptOk
  <2>3. ASSUME KindOf[q] = "reconcile"
        PROVE  ReconcileOk(ledger', script[q], seen[q].version)
    <3>1. CASE KindOf[r] = "reconcile"
      <4>1. pc[q] # "acting"
        BY <1>1, <2>3, <3>1 DEF OneReconciliation, Active
      <4>2. script[q] = << >>
        BY <1>1, <4>1 DEF GovernorTypeOK
      <4>3. QED
        BY <4>2, SmallScripts, BeforeReconciles
    <3>2. CASE KindOf[r] # "reconcile"
      <4>1. Done(x) => ~ OfRepair(x)
        BY <1>1, <1>3, <3>2 DEF ScriptOk, NoneDone
      <4>2. ASSUME NEW k \in DOMAIN script[q], Dispatches(script[q], k)
            PROVE  /\ script[q][k].transition[1] \in Repair /\ DoneLater(script[q], k)
                   /\ Unapplied(ledger', script[q][k].transition, seen[q].version)
        <5>1. /\ script[q][k].transition[1] \in Repair /\ DoneLater(script[q], k)
              /\ Unapplied(ledger, script[q][k].transition, seen[q].version)
          BY <1>1, <2>3, <4>2 DEF ScriptOk, ReconcileOk
        <5>2. ~ (Done(x) /\ x.transition = script[q][k].transition)
          BY <4>1, <5>1 DEF OfRepair
        <5>3. QED
          BY <1>1, <1>2, <5>1, <5>2, UnappliedAppend
      <4>3. QED
        BY <4>2 DEF ReconcileOk
    <3>3. QED
      BY <3>1, <3>2
  <2>4. QED
    BY <1>5, <1>6, <2>1, <2>2, <2>3 DEF ScriptOk
<1>15. \A q \in Run : Sound(ledger, script[q])' /\ ScriptOk(q)'
  BY <1>6, <1>12, <1>13, <1>14
<1>16. QED
  BY <1>5, <1>7, <1>8, <1>9, <1>15 DEF GovernorInv

\* Every step keeps the invariant.
LEMMA GovernorStep == GovernorInv /\ [GovernorNext]_vars => GovernorInv'
<1> SUFFICES ASSUME GovernorInv, [GovernorNext]_vars PROVE GovernorInv'
  OBVIOUS
<1>0. IsList(ledger) /\ plan' = plan
  BY DEF GovernorInv, GovernorTypeOK, GovernorNext, vars
<1>1. CASE ChangePullRequest \/ UNCHANGED vars
  <2>1. UNCHANGED <<plan, ledger, pc, seen, script>>
    BY <1>0, <1>1 DEF ChangePullRequest, vars, world
  <2>2. Run' = Run /\ KindOf' = KindOf
    BY <2>1 DEF Run, KindOf
  <2>3. GovernorTypeOK' /\ OneReconciliation' /\ AdmissionIsIndependent'
    BY <2>1, <2>2
    DEF GovernorInv, GovernorTypeOK, OneReconciliation, Active, AdmissionIsIndependent
  <2>4. ASSUME NEW r \in Run PROVE Sound(ledger, script[r])' /\ ScriptOk(r)'
    BY <2>1, <2>2 DEF GovernorInv, ScriptOk
  <2>5. QED
    BY <2>2, <2>3, <2>4 DEF GovernorInv
<1>2. ASSUME NEW r \in Run, ReadPullRequest(r) PROVE GovernorInv'
  <2>1. ledger' = ledger
    BY <1>2 DEF ReadPullRequest, world
  <2>2. CASE End(r)
    BY <1>0, <2>1, <2>2, EndStep
  <2>3. ASSUME NEW location \in {"picking", "deciding"}, NEW observed,
               Move(r, location, observed, << >>)
        PROVE  GovernorInv'
    <3>1. \A s \in Run : Active(s) => KindOf[s] # "reconcile" \/ KindOf[r] # "reconcile"
      BY <1>2 DEF ReadPullRequest, Lane
    <3>2. DecidedOk(r, << >>) /\ Before(<< >>)
      BY NothingDecided, SmallScripts
    <3>3. NoneDone(<< >>) /\ ReconcileOk(ledger, << >>, observed.version)
      BY <3>2, BeforeReconciles DEF Before
    <3>4. location \in Location /\ location # "acting"
      BY DEF Location
    <3>5. QED
      BY <1>0, <2>1, <2>3, <3>1, <3>2, <3>3, <3>4, MoveStep DEF DecidedOk
  <2>4. QED
    BY <1>2, <2>2, <2>3 DEF ReadPullRequest
<1>3. ASSUME NEW r \in Run, PickRepair(r) PROVE GovernorInv'
  <2>1. ledger' = ledger /\ Active(r)
    BY <1>3 DEF PickRepair, world, Active
  <2>2. CASE End(r)
    BY <1>0, <2>1, <2>2, EndStep
  <2>3. ASSUME NEW observed, Move(r, "deciding", observed, << >>) PROVE GovernorInv'
    <3>1. DecidedOk(r, << >>) /\ Before(<< >>) /\ "deciding" \in Location
      BY NothingDecided, SmallScripts DEF Location
    <3>2. NoneDone(<< >>) /\ ReconcileOk(ledger, << >>, observed.version)
      BY <3>1, BeforeReconciles DEF Before
    <3>3. QED
      BY <1>0, <2>1, <2>3, <3>1, <3>2, MoveStep DEF DecidedOk
  <2>4. QED
    BY <1>3, <2>2, <2>3 DEF PickRepair
<1>4. ASSUME NEW r \in Run, Decide(r) PROVE GovernorInv'
  <2> DEFINE requests == IF EpochReadable(ledger) THEN Script(r) ELSE << >>
  <2>1. ledger' = ledger /\ Active(r) /\ Act(r, requests)
    BY <1>4 DEF Decide, world, Active
  <2>2. DecidedOk(r, requests)
    BY <1>0, ScriptFits, NothingDecided
  <2> HIDE DEF requests
  <2>3. CASE requests = << >>
    BY <1>0, <2>1, <2>3, EndStep DEF Act
  <2>4. CASE requests # << >>
    <3>1. Move(r, "acting", seen[r], requests) /\ "acting" \in Location
      BY <2>1, <2>4 DEF Act, Location
    <3>2. QED
      BY <1>0, <2>1, <2>2, <2>4, <3>1, MoveStep DEF DecidedOk
  <2>5. QED
    BY <2>3, <2>4
<1>5. ASSUME NEW r \in Run, Send(r) PROVE GovernorInv'
  BY <1>0, <1>5, QuietSend, WriteStep
<1>6. ASSUME NEW r \in Run, Die(r) PROVE GovernorInv'
  BY <1>0, <1>6, EndStep DEF Die, world
<1>7. QED
  BY <1>1, <1>2, <1>3, <1>4, <1>5, <1>6 DEF GovernorNext

-----------------------------------------------------------------------------
(* The theorems                                                            *)

\* At the start nothing is in the ledger and no run has started.
LEMMA GovernorStart == GovernorInit => GovernorInv
<1> SUFFICES ASSUME GovernorInit PROVE GovernorInv
  OBVIOUS
<1>1. /\ plan \in Plans /\ ledger = << >>
      /\ pc = [r \in Run |-> "waiting"] /\ seen = [r \in Run |-> NothingSeen]
      /\ script = [r \in Run |-> << >>]
  BY DEF GovernorInit
<1>2. IsList(<< >>) /\ Plain(<< >>) /\ Before(<< >>)
  BY ShortLists, SmallScripts
<1>3. GovernorTypeOK
  BY <1>1, <1>2 DEF GovernorTypeOK, Location
<1>4. OneReconciliation
  BY <1>1 DEF OneReconciliation, Active
<1>5. AdmissionIsIndependent
  BY <1>1 DEF AdmissionIsIndependent
<1>6. ASSUME NEW r \in Run PROVE Sound(ledger, script[r]) /\ ScriptOk(r)
  BY <1>1, <1>2, PlainSound, BeforeReconciles DEF ScriptOk, Before
<1>7. QED
  BY <1>3, <1>4, <1>5, <1>6 DEF GovernorInv

\* What each run has still to send fits the ledger, whatever other runs write
\* meanwhile and wherever runs die.
THEOREM GovernorInvariant == GovernorSpec => []GovernorInv
BY GovernorStart, GovernorStep, PTL DEF GovernorSpec

\* Whoever admits or starts a transition writes after a candidate of another
\* observation (governorDecision, createStartedGovernorRecord), for any
\* programs that meet on a pull request.
THEOREM IndependentAdmission == GovernorSpec => []AdmissionIsIndependent
<1>1. GovernorInv => AdmissionIsIndependent
  BY DEF GovernorInv
<1>2. QED
  BY <1>1, GovernorInvariant, PTL

\* A reconciliation dispatches no repair that the epoch says was done
\* (governTransition of reconcile-reviews.mjs, and its concurrency group).
THEOREM AppliedStays == GovernorSpec => AppliedIsFinal
<1>1. ASSUME GovernorInv, NEW r \in Run, Performing(r), KindOf[r] = "reconcile",
             Head(script[r]).budget \in Repair
      PROVE  Recorded(ActiveRecords(ledger), {"applied", "started"},
                      Head(script[r]).transition, seen[r].version) = {}
  <2>1. IsList(script[r]) /\ script[r] # << >> /\ ScriptOk(r)
    BY <1>1 DEF GovernorInv, GovernorTypeOK, Performing
  <2>2. 1 \in DOMAIN script[r] /\ Head(script[r]) = script[r][1]
    BY <2>1, ListTail
  <2>3. Dispatches(script[r], 1)
    BY <1>1, <2>2 DEF Performing, Dispatches
  <2>4. QED
    BY <1>1, <2>1, <2>2, <2>3 DEF ScriptOk, ReconcileOk, Unapplied
<1>2. GovernorInv => \A r \in Run :
          Performing(r) /\ KindOf[r] = "reconcile" /\ Head(script[r]).budget \in Repair =>
              Recorded(ActiveRecords(ledger), {"applied", "started"},
                       Head(script[r]).transition, seen[r].version) = {}
  BY <1>1
<1>3. QED
  BY <1>2, GovernorInvariant, PTL DEF AppliedIsFinal

-----------------------------------------------------------------------------
(* Programs that take turns.  The budgets, the pauses and the resumes hold  *)
(* as long as no two programs that may pause, and no two that may answer a *)
(* pause, have requests to send at once, or nobody answers.                *)

Pausing == {"reconcile", "recover", "ci"}
Answering == {"resume", "fault-resume"}

NobodyAnswers == \A r \in Run : KindOf[r] \notin Answering

OneAtWork(kinds) ==
    \A r, s \in Run :
        /\ KindOf[r] \in kinds /\ KindOf[s] \in kinds
        /\ pc[r] = "acting" /\ pc[s] = "acting"
        => r = s

Apart == NobodyAnswers \/ (OneAtWork(Pausing) /\ OneAtWork(Answering))

\* The concurrency groups keep programs of these kinds apart.
InTurn(kinds) ==
    \A r, s \in Run : KindOf[r] \in kinds /\ KindOf[s] \in kinds => Lane(r) = Lane(s)

Serialized == NobodyAnswers \/ (InTurn(Pausing) /\ InTurn(Answering))

OnePerLane ==
    \A r, s \in Run : Active(r) /\ Active(s) /\ Lane(r) = Lane(s) => r = s

\* What was charged to a budget in the epoch.
ChargeOf(x, budget) ==
    \/ x.status = "attempt" /\ x.transition = budget
    \/ x.status = "started" /\ x.budgetTransition = budget

Spent(records, budget) ==
    {i \in DOMAIN records : i >= EpochStart(records) /\ ChargeOf(records[i], budget)}
Attempts(records, budget) == {records[i].attempt : i \in Spent(records, budget)}
Charging(records, budget) == {records[i].observationId : i \in Spent(records, budget)}

\* The attempts of an epoch are numbered from one, one for each observation,
\* and no more than the limit.
Numbered(records, budget) ==
    \E n \in 0 .. Limit[budget] :
        /\ Attempts(records, budget) = 1 .. n
        /\ IsFiniteSet(Charging(records, budget))
        /\ Cardinality(Charging(records, budget)) = n

\* Records that change what others may decide.
Spends(x) == x.status \in {"attempt", "paused"}
Turning(x) == x.status \in {"attempt", "paused", "started", "resumed"}
Turns(requests, k) == Writes(requests, k) /\ Turning(requests[k].record)

OneTurn(requests) ==
    IsList(requests) /\
        \A k, l \in DOMAIN requests : Turns(requests, k) /\ Turns(requests, l) => k = l

\* Which programs write which of them.
OfProgram(r, x) ==
    /\ Spends(x) => KindOf[r] \in Pausing
    /\ x.status = "resumed" => KindOf[r] \in Answering
    /\ x.status = "started" => x.budgetTransition = "ci-repair"
    /\ Spends(x) /\ x.transition \in Repair => KindOf[r] = "reconcile"

\* A record that still fits the ledger: a resume answers the pause that is
\* open, an attempt is the next of its budget, a pause is earned.
Timely(records, x) ==
    /\ x.status = "resumed" =>
          /\ OpenPause(records) # {}
          /\ x.pausedObservationId = records[Max(OpenPause(records))].observationId
    /\ x.status = "attempt" /\ x.transition \in Repair =>
          /\ ~ (Cardinality(Attempts(records, x.transition)) >= Limit[x.transition])
          /\ x.attempt = Cardinality(Attempts(records, x.transition)) + 1
          /\ x.observationId \notin Charging(records, x.transition)
    /\ x.status = "paused" /\ x.transition \in Repair =>
          Cardinality(Attempts(records, x.transition)) >= Limit[x.transition]

TurnOk(r) ==
    OneTurn(script[r]) /\
        \A k \in DOMAIN script[r] : Turns(script[r], k) => OfProgram(r, script[r][k].record)

TurnInv == GovernorInv /\ \A r \in Run : TurnOk(r)

Pending(r, x) ==
    \E k \in DOMAIN script[r] : Turns(script[r], k) /\ script[r][k].record = x

\* While programs take turns, what they have decided stands until it is sent.
ApartInv ==
    /\ LedgerReadable /\ PauseIsEarned
    /\ \A budget \in Repair : Numbered(ledger, budget)
    /\ \A r \in Run : \A x :
          Pending(r, x) =>
              /\ Timely(ledger, x)
              /\ Spends(x) /\ ~ NobodyAnswers => OpenPause(ledger) = {}

\* The observations that may have paid for the work of a run.
Payer(r, records, stateVersion, transition, o) ==
    \/ o = Observation(r)
    \/ \E j \in Recorded(records, {"admitted"}, transition, stateVersion) :
          records[j].observationId = o

Performs(requests, k) == requests[k].op = "perform"

\* What is dispatched was charged, or will be before it.
Paid(r, records, stateVersion, requests, k) ==
    \/ \E i \in DOMAIN records :
          /\ ChargeOf(records[i], requests[k].budget)
          /\ Payer(r, records, stateVersion, requests[k].transition, records[i].observationId)
    \/ \E l \in 1 .. (k - 1) :
          /\ Writes(requests, l) /\ ChargeOf(requests[l].record, requests[k].budget)
          /\ Payer(r, records, stateVersion, requests[k].transition,
                   requests[l].record.observationId)

AllPaid(r, records, stateVersion, requests) ==
    \A k \in DOMAIN requests :
        Performs(requests, k) => Paid(r, records, stateVersion, requests, k)

PaidInv ==
    TurnInv /\ \A r \in Run :
        KindOf[r] \in {"reconcile", "recover"} =>
            AllPaid(r, ledger, seen[r].version, script[r])

\* A reconciliation that dispatches does not pause, and nothing is paused.
PauseFree(records, requests) ==
    (\E k \in DOMAIN requests : Performs(requests, k)) =>
        /\ OpenPause(records) = {}
        /\ \A k \in DOMAIN requests :
              Writes(requests, k) => requests[k].record.status # "paused"

UnpausedInv ==
    \A r \in Run : KindOf[r] = "reconcile" => PauseFree(ledger, script[r])

-----------------------------------------------------------------------------
(* The ledger grows                                                        *)

\* Only a resume starts an epoch.
LEMMA EpochGrows ==
    ASSUME NEW records, IsList(records), NEW x
    PROVE  /\ x.status # "resumed" =>
                  EpochStart(Append(records, x)) = EpochStart(records)
           /\ x.status = "resumed" => EpochStart(Append(records, x)) = Len(records) + 2
<1> DEFINE longer == Append(records, x)
           S == {i \in DOMAIN records : records[i].status = "resumed"}
           T == {i \in DOMAIN longer : longer[i].status = "resumed"}
<1>1. /\ IsList(longer) /\ Len(records) \in Nat /\ Len(longer) = Len(records) + 1
      /\ DOMAIN records = 1 .. Len(records) /\ DOMAIN longer = 1 .. (Len(records) + 1)
      /\ \A i \in 1 .. Len(records) : longer[i] = records[i]
      /\ longer[Len(records) + 1] = x
  BY ListAppend, ListShape
<1> HIDE DEF longer
<1>2. x.status # "resumed" => S = T
  BY <1>1
<1>3. EpochStart(records) = 1 + Max({0} \union S) /\ EpochStart(longer) = 1 + Max({0} \union T)
  BY DEF EpochStart
<1>4. ASSUME x.status = "resumed" PROVE EpochStart(longer) = Len(records) + 2
  <2>1. EpochStart(longer) \in 1 .. (Len(longer) + 1)
        /\ \A i \in DOMAIN longer : longer[i].status = "resumed" => i < EpochStart(longer)
    BY <1>1, EpochBounds
  <2>2. Len(records) + 1 < EpochStart(longer)
    BY <1>1, <1>4, <2>1
  <2>3. QED
    BY <1>1, <2>1, <2>2
<1>5. QED
  BY <1>2, <1>3, <1>4 DEF longer

\* The pauses before a record stay what they were.
LEMMA PausesGrow ==
    ASSUME NEW records, IsList(records), NEW x
    PROVE  /\ \A i \in 1 .. (Len(records) + 1) :
                 PausesBefore(Append(records, x), i) = PausesBefore(records, i)
           /\ x.status = "resumed" => OpenPause(Append(records, x)) = {}
           /\ x.status \notin {"resumed", "paused"} =>
                  OpenPause(Append(records, x)) = OpenPause(records)
           /\ OpenPause(records) \subseteq 1 .. Len(records)
<1> DEFINE longer == Append(records, x)
           n == Len(records)
<1>1. /\ IsList(longer) /\ n \in Nat /\ Len(longer) = n + 1
      /\ DOMAIN records = 1 .. n /\ DOMAIN longer = 1 .. (n + 1)
      /\ \A i \in 1 .. n : longer[i] = records[i]
      /\ longer[n + 1] = x
  BY ListAppend, ListShape
<1> HIDE DEF longer, n
<1>2. ASSUME NEW i \in 1 .. (n + 1)
      PROVE  PausesBefore(longer, i) = PausesBefore(records, i)
  <2>1. \A j \in 1 .. (i - 1) : j \in 1 .. n /\ \A k \in j .. (i - 1) : k \in 1 .. n
    BY <1>1
  <2>2. \A j \in 1 .. (i - 1) : longer[j] = records[j]
                                /\ \A k \in j .. (i - 1) : longer[k] = records[k]
    BY <1>1, <2>1
  <2>3. QED
    BY <2>2 DEF PausesBefore
<1>3. OpenPause(longer) = {j \in 1 .. (n + 1) :
          longer[j].status = "paused" /\ \A k \in j .. (n + 1) : longer[k].status # "resumed"}
  <2>1. (n + 1) + 1 - 1 = n + 1
    BY <1>1
  <2>2. QED
    BY <1>1, <2>1 DEF OpenPause, PausesBefore
<1>4. OpenPause(records) = {j \in 1 .. n :
          records[j].status = "paused" /\ \A k \in j .. n : records[k].status # "resumed"}
  <2>1. n + 1 - 1 = n
    BY <1>1
  <2>2. QED
    BY <1>1, <2>1 DEF OpenPause, PausesBefore, n
<1>5. x.status = "resumed" => OpenPause(longer) = {}
  <2>1. \A j \in 1 .. (n + 1) : n + 1 \in j .. (n + 1)
    BY <1>1
  <2>2. QED
    BY <1>1, <1>3, <2>1
<1>6. ASSUME x.status \notin {"resumed", "paused"} PROVE OpenPause(longer) = OpenPause(records)
  <2>1. ASSUME NEW j \in OpenPause(longer) PROVE j \in OpenPause(records)
    <3>1. j \in 1 .. n
      BY <1>1, <1>3, <1>6, <2>1
    <3>2. \A k \in j .. n : k \in j .. (n + 1) /\ k \in 1 .. n
      BY <1>1, <3>1
    <3>3. QED
      BY <1>1, <1>3, <1>4, <2>1, <3>1, <3>2
  <2>2. ASSUME NEW j \in OpenPause(records) PROVE j \in OpenPause(longer)
    <3>1. j \in 1 .. n /\ j \in 1 .. (n + 1)
      BY <1>1, <1>4
    <3>2. \A k \in j .. (n + 1) : (k \in j .. n /\ k \in 1 .. n) \/ k = n + 1
      BY <1>1, <3>1
    <3>3. QED
      BY <1>1, <1>3, <1>4, <1>6, <2>2, <3>1, <3>2
  <2>3. QED
    BY <2>1, <2>2
<1>7. QED
  BY <1>2, <1>4, <1>5, <1>6 DEF longer, n

\* A ledger stays readable when a resume answers the open pause.
LEMMA ReadableGrows ==
    ASSUME NEW records, IsList(records), NEW x, EpochReadable(records),
           x.status = "resumed" =>
               /\ OpenPause(records) # {}
               /\ x.pausedObservationId = records[Max(OpenPause(records))].observationId
    PROVE  EpochReadable(Append(records, x))
<1> DEFINE longer == Append(records, x)
           n == Len(records)
<1>1. /\ IsList(longer) /\ n \in Nat
      /\ DOMAIN records = 1 .. n /\ DOMAIN longer = 1 .. (n + 1)
      /\ \A i \in 1 .. n : longer[i] = records[i]
      /\ longer[n + 1] = x
  BY ListAppend, ListShape
<1>2. \A i \in 1 .. (n + 1) : PausesBefore(longer, i) = PausesBefore(records, i)
  BY PausesGrow
<1>3. OpenPause(records) = PausesBefore(records, n + 1)
  BY DEF OpenPause
<1> HIDE DEF longer, n
<1>4. ASSUME NEW i \in 1 .. (n + 1), PausesBefore(records, i) # {}
      PROVE  longer[Max(PausesBefore(records, i))] = records[Max(PausesBefore(records, i))]
  <2>1. PausesBefore(records, i) \subseteq 0 .. n /\ PausesBefore(records, i) \subseteq 1 .. n
    BY <1>1 DEF PausesBefore
  <2>2. Max(PausesBefore(records, i)) \in 1 .. n
    BY <1>1, <1>4, <2>1, MaxMember
  <2>3. QED
    BY <1>1, <2>2
<1>5. ASSUME NEW i \in DOMAIN longer, longer[i].status = "resumed"
      PROVE  /\ PausesBefore(longer, i) # {}
             /\ longer[i].pausedObservationId =
                    longer[Max(PausesBefore(longer, i))].observationId
  <2>1. CASE i \in 1 .. n
    <3>1. PausesBefore(records, i) # {}
          /\ records[i].pausedObservationId =
                 records[Max(PausesBefore(records, i))].observationId
      BY <1>1, <1>5, <2>1 DEF EpochReadable
    <3>2. QED
      BY <1>1, <1>2, <1>4, <2>1, <3>1
  <2>2. CASE i = n + 1
    BY <1>1, <1>2, <1>3, <1>4, <1>5, <2>2
  <2>3. QED
    BY <1>1, <2>1, <2>2
<1>6. QED
  BY <1>5 DEF EpochReadable, longer

\* What is charged after one more record.
LEMMA SpentGrows ==
    ASSUME NEW records, IsList(records), NEW x, NEW budget
    PROVE  /\ x.status = "resumed" =>
                  Attempts(Append(records, x), budget) = {}
                  /\ Charging(Append(records, x), budget) = {}
           /\ x.status # "resumed" /\ ~ ChargeOf(x, budget) =>
                  /\ Attempts(Append(records, x), budget) = Attempts(records, budget)
                  /\ Charging(Append(records, x), budget) = Charging(records, budget)
           /\ x.status # "resumed" /\ ChargeOf(x, budget) =>
                  /\ Attempts(Append(records, x), budget)
                         = Attempts(records, budget) \union {x.attempt}
                  /\ Charging(Append(records, x), budget)
                         = Charging(records, budget) \union {x.observationId}
<1> DEFINE longer == Append(records, x)
           n == Len(records)
<1>1. /\ IsList(longer) /\ n \in Nat
      /\ DOMAIN records = 1 .. n /\ DOMAIN longer = 1 .. (n + 1)
      /\ \A i \in 1 .. n : longer[i] = records[i]
      /\ longer[n + 1] = x
  BY ListAppend, ListShape
<1>2. /\ EpochStart(records) \in 1 .. (n + 1)
      /\ x.status # "resumed" => EpochStart(longer) = EpochStart(records)
      /\ x.status = "resumed" => EpochStart(longer) = n + 2
  BY EpochBounds, EpochGrows
<1> HIDE DEF longer, n
<1>3. x.status = "resumed" => Spent(longer, budget) = {}
  BY <1>1, <1>2 DEF Spent
<1>4. x.status # "resumed" /\ ~ ChargeOf(x, budget)
          => Spent(longer, budget) = Spent(records, budget)
  BY <1>1, <1>2 DEF Spent
<1>5. x.status # "resumed" /\ ChargeOf(x, budget)
          => Spent(longer, budget) = Spent(records, budget) \union {n + 1}
  BY <1>1, <1>2 DEF Spent
<1>6. \A i \in Spent(records, budget) : longer[i] = records[i]
  BY <1>1 DEF Spent
<1>7. /\ Attempts(longer, budget) = {longer[i].attempt : i \in Spent(longer, budget)}
      /\ Charging(longer, budget) = {longer[i].observationId : i \in Spent(longer, budget)}
      /\ Attempts(records, budget) = {records[i].attempt : i \in Spent(records, budget)}
      /\ Charging(records, budget) = {records[i].observationId : i \in Spent(records, budget)}
  BY DEF Attempts, Charging
<1>8. CASE x.status = "resumed"
  BY <1>3, <1>7, <1>8 DEF longer
<1>9. CASE x.status # "resumed" /\ ~ ChargeOf(x, budget)
  <2>1. /\ Attempts(longer, budget) = Attempts(records, budget)
        /\ Charging(longer, budget) = Charging(records, budget)
    BY <1>4, <1>6, <1>7, <1>9
  <2>2. QED
    BY <1>9, <2>1 DEF longer
<1>10. CASE x.status # "resumed" /\ ChargeOf(x, budget)
  <2>1. /\ Attempts(longer, budget) = Attempts(records, budget) \union {x.attempt}
        /\ Charging(longer, budget) = Charging(records, budget) \union {x.observationId}
    BY <1>1, <1>5, <1>6, <1>7, <1>10
  <2>2. QED
    BY <1>10, <2>1 DEF longer
<1>11. QED
  BY <1>8, <1>9, <1>10

\* The charges among the active records are those of the epoch.
LEMMA ChargesMeaning ==
    ASSUME NEW records, IsList(records), NEW budget
    PROVE  LET epoch == ActiveRecords(records)
           IN  /\ {epoch[i].attempt : i \in Charges(epoch, budget)} = Attempts(records, budget)
               /\ {epoch[i].observationId : i \in Charges(epoch, budget)}
                      = Charging(records, budget)
<1> DEFINE epoch == ActiveRecords(records)
<1>1. PICK m \in 1 .. (Len(records) + 1) : m = EpochStart(records)
  BY EpochBounds
<1>2. /\ DOMAIN records = 1 .. Len(records) /\ Len(records) \in Nat
      /\ DOMAIN epoch = 1 .. (Len(records) + 1 - m)
      /\ \A i \in 1 .. (Len(records) + 1 - m) :
            m + i - 1 \in DOMAIN records /\ epoch[i] = records[m + i - 1]
  BY <1>1, ActiveList, ListShape
<1> HIDE DEF epoch
<1>3. \A i \in DOMAIN records : i >= m => /\ i - m + 1 \in DOMAIN epoch
                                          /\ epoch[i - m + 1] = records[i]
  BY <1>1, <1>2
<1>4. \A i \in Charges(epoch, budget) :
          \E j \in Spent(records, budget) : epoch[i] = records[j]
  <2> SUFFICES ASSUME NEW i \in Charges(epoch, budget)
               PROVE  \E j \in Spent(records, budget) : epoch[i] = records[j]
    OBVIOUS
  <2>1. i \in DOMAIN epoch /\ ChargeOf(epoch[i], budget)
    BY DEF Charges, ChargeOf
  <2>2. m + i - 1 \in DOMAIN records /\ epoch[i] = records[m + i - 1] /\ m + i - 1 >= m
    BY <1>1, <1>2, <2>1
  <2>3. QED
    BY <1>1, <2>1, <2>2 DEF Spent
<1>5. \A j \in Spent(records, budget) :
          \E i \in Charges(epoch, budget) : epoch[i] = records[j]
  <2> SUFFICES ASSUME NEW j \in Spent(records, budget)
               PROVE  \E i \in Charges(epoch, budget) : epoch[i] = records[j]
    OBVIOUS
  <2>1. j \in DOMAIN records /\ j >= m /\ ChargeOf(records[j], budget)
    BY <1>1 DEF Spent
  <2>2. j - m + 1 \in DOMAIN epoch /\ epoch[j - m + 1] = records[j]
    BY <1>3, <2>1
  <2>3. QED
    BY <2>1, <2>2 DEF Charges, ChargeOf
<1>6. QED
  BY <1>4, <1>5 DEF Attempts, Charging, epoch

-----------------------------------------------------------------------------
(* What a decision says of the pauses and the budgets                      *)

\* EpochDecision writes a candidate or an admission of this observation.
LEMMA EpochDecisionWrites ==
    ASSUME NEW epoch, NEW t, NEW v, NEW o, NEW d, d = EpochDecision(epoch, t, v, o)
    PROVE  /\ d.record # << >> =>
                 \E x : d.record = <<x>> /\ x.status \in {"candidate", "admitted"}
                        /\ x.observationId = o
           /\ d.action # "record-resume"
           /\ d.execute \/ d.action # "wait" \/ d.record = << >>
<1> DEFINE c == CandidateRecord(t, v, o)
           x == AdmittedRecord(t, v, o,
                    epoch[Min(Recorded(epoch, {"candidate"}, t, v))].observationId)
<1>1. d \in {Decision("noop", FALSE, << >>), Decision("wait", FALSE, << >>),
             Decision("retry", TRUE, << >>), Decision("record-candidate", FALSE, <<c>>),
             Decision("admit", TRUE, <<x>>)}
  BY DEF EpochDecision
<1>2. /\ c.status = "candidate" /\ c.observationId = o
      /\ x.status = "admitted" /\ x.observationId = o
  BY DEF CandidateRecord, AdmittedRecord
<1> HIDE DEF c, x
<1>3. QED
  BY <1>1, <1>2 DEF Decision

\* governorDecision answers the pause that is open, and only when asked to;
\* it goes on only when none is open.
LEMMA DecisionWritesTurn ==
    ASSUME NEW records, NEW t, NEW v, NEW o, NEW commands,
           NEW d, d = governorDecision(records, t, v, o, commands)
    PROVE  /\ d.record # << >> =>
                 \E x : /\ d.record = <<x>>
                        /\ \/ x.status \in {"candidate", "admitted"} /\ x.observationId = o
                              /\ d.action # "record-resume"
                           \/ /\ commands # {} /\ x.status = "resumed"
                              /\ OpenPause(records) # {}
                              /\ x.pausedObservationId =
                                     records[Max(OpenPause(records))].observationId
           /\ d.execute \/ d.action = "wait" => OpenPause(records) = {}
           /\ d.action = "wait" => d.record = << >> \/ d.execute
<1>1. CASE OpenPause(records) = {}
  <2>1. d = EpochDecision(ActiveRecords(records), t, v, o)
    BY <1>1 DEF governorDecision
  <2>2. QED
    BY <1>1, <2>1, EpochDecisionWrites
<1>2. CASE OpenPause(records) # {} /\ commands = {}
  <2>1. d = Decision("paused", FALSE, << >>)
    BY <1>2 DEF governorDecision
  <2>2. QED
    BY <2>1 DEF Decision
<1>3. CASE OpenPause(records) # {} /\ commands # {}
  <2> DEFINE x == ResumedRecord(t, v, o, records[Max(OpenPause(records))].observationId,
                                CHOOSE c \in commands : TRUE)
  <2>1. d = Decision("record-resume", FALSE, <<x>>)
    BY <1>3 DEF governorDecision
  <2>2. x.status = "resumed"
        /\ x.pausedObservationId = records[Max(OpenPause(records))].observationId
    BY DEF ResumedRecord
  <2> HIDE DEF x
  <2>3. QED
    BY <1>3, <2>1, <2>2 DEF Decision
<1>4. QED
  BY <1>1, <1>2, <1>3

\* governorBudgetDecision, said of the whole ledger.
LEMMA BudgetWrites ==
    ASSUME NEW records, IsList(records), NEW budget, NEW o, NEW limit,
           NEW d, d = governorBudgetDecision(records, budget, o, limit)
    PROVE  \/ /\ d.action = "noop" /\ ~ d.execute /\ d.record = << >>
              /\ o \in Charging(records, budget)
           \/ /\ d.action = "pause" /\ ~ d.execute
              /\ d.record = <<PausedRecord(budget, o)>>
              /\ Cardinality(Attempts(records, budget)) >= limit
           \/ /\ d.action = "attempt" /\ d.execute
              /\ d.record = <<AttemptRecord(budget, o,
                                  Cardinality(Attempts(records, budget)) + 1)>>
              /\ ~ (Cardinality(Attempts(records, budget)) >= limit)
              /\ o \notin Charging(records, budget)
<1> DEFINE epoch == ActiveRecords(records)
           charges == Charges(epoch, budget)
           consumed == Cardinality(Attempts(records, budget))
<1>1. /\ {epoch[i].attempt : i \in charges} = Attempts(records, budget)
      /\ {epoch[i].observationId : i \in charges} = Charging(records, budget)
  BY ChargesMeaning
<1>2. /\ o \in Charging(records, budget) <=> \E i \in charges : epoch[i].observationId = o
      /\ consumed = Cardinality({epoch[i].attempt : i \in charges})
  BY <1>1
<1>3. d = CASE \E i \in charges : epoch[i].observationId = o ->
                 Decision("noop", FALSE, << >>)
            [] /\ \A i \in charges : epoch[i].observationId # o
               /\ consumed >= limit ->
                 Decision("pause", FALSE, << PausedRecord(budget, o) >>)
            [] OTHER ->
                 Decision("attempt", TRUE, << AttemptRecord(budget, o, consumed + 1) >>)
  BY <1>2 DEF governorBudgetDecision, BudgetOver
<1> HIDE DEF consumed
<1>4. CASE o \in Charging(records, budget)
  <2>1. d = Decision("noop", FALSE, << >>)
    BY <1>2, <1>3, <1>4
  <2>2. QED
    BY <1>4, <2>1 DEF Decision
<1>5. CASE o \notin Charging(records, budget) /\ consumed >= limit
  <2>1. d = Decision("pause", FALSE, << PausedRecord(budget, o) >>)
    BY <1>2, <1>3, <1>5
  <2>2. QED
    BY <1>5, <2>1 DEF Decision, consumed
<1>6. CASE o \notin Charging(records, budget) /\ ~ (consumed >= limit)
  <2>1. d = Decision("attempt", TRUE, << AttemptRecord(budget, o, consumed + 1) >>)
    BY <1>2, <1>3, <1>6
  <2>2. QED
    BY <1>6, <2>1 DEF Decision, consumed
<1>7. QED
  BY <1>4, <1>5, <1>6

-----------------------------------------------------------------------------
(* Turns in scripts                                                        *)

\* A list of requests that changes nothing others decide on.
Quiet(requests) == IsList(requests) /\ \A k \in DOMAIN requests : ~ Turns(requests, k)

\* A list of requests with at most one record that does, which fits program
\* and ledger.
TurnFits(r, requests) ==
    /\ OneTurn(requests)
    /\ \A k \in DOMAIN requests :
          Turns(requests, k) =>
              /\ OfProgram(r, requests[k].record)
              /\ Timely(ledger, requests[k].record)
              /\ Spends(requests[k].record) => OpenPause(ledger) = {}

\* The elements of two lists in a row.
LEMMA ConcatElements ==
    ASSUME NEW a, NEW b, IsList(a), IsList(b)
    PROVE  /\ IsList(a \o b)
           /\ \A k \in DOMAIN (a \o b) :
                 \/ k \in DOMAIN a /\ (a \o b)[k] = a[k]
                 \/ /\ k > Len(a) /\ k - Len(a) \in DOMAIN b
                    /\ (a \o b)[k] = b[k - Len(a)]
<1>1. /\ IsList(a \o b) /\ Len(a) \in Nat /\ Len(b) \in Nat
      /\ DOMAIN a = 1 .. Len(a) /\ DOMAIN b = 1 .. Len(b)
      /\ DOMAIN (a \o b) = 1 .. (Len(a) + Len(b))
      /\ \A i \in 1 .. Len(a) : (a \o b)[i] = a[i]
      /\ \A i \in 1 .. Len(b) : (a \o b)[Len(a) + i] = b[i]
  BY ListConcat, ListShape
<1>2. ASSUME NEW k \in DOMAIN (a \o b)
      PROVE  \/ k \in DOMAIN a /\ (a \o b)[k] = a[k]
             \/ k > Len(a) /\ k - Len(a) \in DOMAIN b /\ (a \o b)[k] = b[k - Len(a)]
  <2>1. CASE k <= Len(a)
    BY <1>1, <2>1
  <2>2. CASE k > Len(a)
    <3>1. k - Len(a) \in 1 .. Len(b) /\ Len(a) + (k - Len(a)) = k
      BY <1>1, <2>2
    <3>2. QED
      BY <1>1, <2>2, <3>1
  <2>3. QED
    BY <1>1, <2>1, <2>2
<1>3. QED
  BY <1>1, <1>2

\* Quiet requests around others do not matter.
LEMMA QuietConcat ==
    ASSUME NEW r, NEW a, NEW b
    PROVE  /\ Quiet(a) /\ Quiet(b) => Quiet(a \o b)
           /\ Quiet(a) /\ TurnFits(r, b) => TurnFits(r, a \o b)
           /\ TurnFits(r, a) /\ Quiet(b) => TurnFits(r, a \o b)
<1>1. ASSUME Quiet(a), Quiet(b) PROVE Quiet(a \o b)
  <2>1. IsList(a) /\ IsList(b)
    BY <1>1 DEF Quiet
  <2>2. QED
    BY <1>1, <2>1, ConcatElements DEF Quiet, Turns, Writes
<1>2. ASSUME Quiet(a), TurnFits(r, b) PROVE TurnFits(r, a \o b)
  <2> DEFINE s == a \o b
  <2>1. IsList(a) /\ IsList(b) /\ Len(a) \in Nat /\ DOMAIN b = 1 .. Len(b) /\ Len(b) \in Nat
    BY <1>2, ListShape DEF Quiet, TurnFits, OneTurn
  <2>2. IsList(s) /\ DOMAIN s \subseteq Nat
    BY <2>1, ConcatElements, ListShape
  <2>3. \A k \in DOMAIN s : Turns(s, k) =>
            /\ k - Len(a) \in DOMAIN b /\ s[k] = b[k - Len(a)] /\ Turns(b, k - Len(a))
    BY <1>2, <2>1, ConcatElements DEF Quiet, Turns, Writes
  <2> HIDE DEF s
  <2>4. \A k, l \in DOMAIN s : Turns(s, k) /\ Turns(s, l) => k = l
    <3> SUFFICES ASSUME NEW k \in DOMAIN s, NEW l \in DOMAIN s, Turns(s, k), Turns(s, l)
                 PROVE  k = l
      OBVIOUS
    <3>1. k - Len(a) = l - Len(a)
      BY <1>2, <2>3 DEF TurnFits, OneTurn
    <3>2. k \in Nat /\ l \in Nat
      BY <2>2
    <3>3. QED
      BY <2>1, <3>1, <3>2
  <2>5. TurnFits(r, s)
    BY <1>2, <2>2, <2>3, <2>4 DEF TurnFits, OneTurn
  <2>6. QED
    BY <2>5 DEF s
<1>3. ASSUME TurnFits(r, a), Quiet(b) PROVE TurnFits(r, a \o b)
  <2> DEFINE s == a \o b
  <2>1. IsList(a) /\ IsList(b)
    BY <1>3 DEF Quiet, TurnFits, OneTurn
  <2>2. IsList(s)
    BY <2>1, ConcatElements
  <2>3. \A k \in DOMAIN s : Turns(s, k) => k \in DOMAIN a /\ s[k] = a[k] /\ Turns(a, k)
    <3> SUFFICES ASSUME NEW k \in DOMAIN s, Turns(s, k)
                 PROVE  k \in DOMAIN a /\ s[k] = a[k] /\ Turns(a, k)
      OBVIOUS
    <3>1. \/ k \in DOMAIN a /\ s[k] = a[k]
          \/ k - Len(a) \in DOMAIN b /\ s[k] = b[k - Len(a)]
      BY <2>1, ConcatElements
    <3> HIDE DEF s
    <3>2. QED
      BY <1>3, <3>1 DEF Quiet, Turns, Writes
  <2> HIDE DEF s
  <2>4. TurnFits(r, s)
    BY <1>3, <2>2, <2>3 DEF TurnFits, OneTurn
  <2>5. QED
    BY <2>4 DEF s
<1>4. QED
  BY <1>1, <1>2, <1>3

\* The lists the scripts are made of.
LEMMA SmallTurns ==
    /\ Quiet(<< >>)
    /\ \A op : op # "write" => Quiet(Request(op))
    /\ \A budget, transition : Quiet(Perform(budget, transition))
    /\ \A x : ~ Turning(x) => Quiet(Write(<<x>>))
    /\ \A r, s : Quiet(s) => TurnFits(r, s)
<1>1. Quiet(<< >>)
  BY ShortLists DEF Quiet
<1>2. ASSUME NEW op, op # "write" PROVE Quiet(Request(op))
  <2>1. IsList(Request(op)) /\ DOMAIN Request(op) = {1} /\ Request(op)[1].op = op
    BY ShortLists DEF Request
  <2>2. QED
    BY <1>2, <2>1 DEF Quiet, Turns, Writes
<1>3. ASSUME NEW budget, NEW transition PROVE Quiet(Perform(budget, transition))
  <2>1. /\ IsList(Perform(budget, transition)) /\ DOMAIN Perform(budget, transition) = {1}
        /\ Perform(budget, transition)[1].op = "perform"
    BY ShortLists DEF Perform
  <2>2. QED
    BY <2>1 DEF Quiet, Turns, Writes
<1>4. ASSUME NEW x, ~ Turning(x) PROVE Quiet(Write(<<x>>))
  <2> DEFINE s == Write(<<x>>)
  <2>1. IsList(<<x>>) /\ Len(<<x>>) = 1 /\ <<x>>[1] = x
    BY ShortLists
  <2>2. IsList(s) /\ Len(s) = 1 /\ s[1].op = "write" /\ s[1].record = x
    BY <2>1, WriteList
  <2>3. DOMAIN s = {1}
    BY <2>2, ListShape
  <2> HIDE DEF s
  <2>4. Quiet(s)
    BY <1>4, <2>2, <2>3 DEF Quiet, Turns
  <2>5. QED
    BY <2>4 DEF s
<1>5. ASSUME NEW r, NEW s, Quiet(s) PROVE TurnFits(r, s)
  BY <1>5 DEF Quiet, TurnFits, OneTurn
<1>6. QED
  BY <1>1, <1>2, <1>3, <1>4, <1>5

\* One record that fits.
LEMMA OneTurnFits ==
    ASSUME NEW r, NEW x, OfProgram(r, x), Timely(ledger, x), Spends(x) => OpenPause(ledger) = {}
    PROVE  TurnFits(r, Write(<<x>>))
<1> DEFINE s == Write(<<x>>)
<1>1. IsList(<<x>>) /\ Len(<<x>>) = 1 /\ <<x>>[1] = x
  BY ShortLists
<1>2. IsList(s) /\ Len(s) = 1 /\ s[1].op = "write" /\ s[1].record = x
  BY <1>1, WriteList
<1>3. DOMAIN s = {1}
  BY <1>2, ListShape
<1> HIDE DEF s
<1>4. TurnFits(r, s)
  BY <1>2, <1>3 DEF TurnFits, OneTurn
<1>5. QED
  BY <1>4 DEF s

\* A decision without a command is quiet; with one it may answer the pause.
LEMMA DecisionTurns ==
    ASSUME NEW records, NEW t, NEW v, NEW o, NEW commands,
           NEW d, d = governorDecision(records, t, v, o, commands)
    PROVE  /\ commands = {} => Quiet(Write(d.record))
           /\ \A r : records = ledger /\ (commands # {} => KindOf[r] \in Answering) =>
                  TurnFits(r, Write(d.record))
<1>1. CASE d.record = << >>
  BY <1>1, WriteNothing, SmallTurns
<1>2. CASE d.record # << >>
  <2>1. PICK x : /\ d.record = <<x>>
                 /\ \/ x.status \in {"candidate", "admitted"}
                    \/ /\ commands # {} /\ x.status = "resumed"
                       /\ OpenPause(records) # {}
                       /\ x.pausedObservationId =
                              records[Max(OpenPause(records))].observationId
    BY <1>2, DecisionWritesTurn
  <2>2. CASE x.status \in {"candidate", "admitted"}
    <3>1. Quiet(Write(<<x>>))
      BY <2>2, SmallTurns DEF Turning
    <3>2. QED
      BY <2>1, <3>1, SmallTurns
  <2>3. CASE x.status \notin {"candidate", "admitted"}
    <3>1. ASSUME NEW r, records = ledger, KindOf[r] \in Answering
          PROVE  TurnFits(r, Write(<<x>>))
      <4>1. OfProgram(r, x) /\ Timely(ledger, x) /\ ~ Spends(x)
        BY <2>1, <2>3, <3>1 DEF OfProgram, Timely, Spends
      <4>2. QED
        BY <4>1, OneTurnFits
    <3>2. QED
      BY <2>1, <2>3, <3>1
  <2>4. QED
    BY <2>2, <2>3
<1>3. QED
  BY <1>1, <1>2

\* The end of a budgeted script on this ledger.
LEMMA BudgetedTurns ==
    ASSUME IsList(ledger), NEW r, KindOf[r] \in Pausing, NEW records, IsList(records),
           NEW budget, budget \in Repair => records = ledger /\ KindOf[r] = "reconcile",
           NEW o, OpenPause(ledger) = {}, NEW go, NEW show, Quiet(go), Quiet(show),
           NEW d, d = governorBudgetDecision(records, budget, o, Limit[budget])
    PROVE  TurnFits(r, Budgeted(budget, d, go, show))
<1> DEFINE w == Write(d.record)
<1>1. TurnFits(r, w)
  <2>1. CASE d.record = << >>
    BY <2>1, WriteNothing, SmallTurns
  <2>2. CASE d.record # << >>
    <3> DEFINE p == PausedRecord(budget, o)
               a == AttemptRecord(budget, o, Cardinality(Attempts(records, budget)) + 1)
    <3>1. /\ p.status = "paused" /\ p.transition = budget
          /\ a.status = "attempt" /\ a.transition = budget /\ a.observationId = o
          /\ a.attempt = Cardinality(Attempts(records, budget)) + 1
      BY DEF PausedRecord, AttemptRecord
    <3>2. \/ d.record = <<p>> /\ Cardinality(Attempts(records, budget)) >= Limit[budget]
          \/ /\ d.record = <<a>> /\ ~ (Cardinality(Attempts(records, budget)) >= Limit[budget])
             /\ o \notin Charging(records, budget)
      BY <2>2, BudgetWrites
    <3> HIDE DEF p, a
    <3>3. CASE d.record = <<p>> /\ Cardinality(Attempts(records, budget)) >= Limit[budget]
      <4>1. OfProgram(r, p) /\ Timely(ledger, p)
        BY <3>1, <3>3 DEF OfProgram, Timely, Spends
      <4>2. QED
        BY <3>3, <4>1, OneTurnFits
    <3>4. CASE /\ d.record = <<a>> /\ ~ (Cardinality(Attempts(records, budget)) >= Limit[budget])
               /\ o \notin Charging(records, budget)
      <4>1. OfProgram(r, a) /\ Timely(ledger, a)
        BY <3>1, <3>4 DEF OfProgram, Timely, Spends
      <4>2. QED
        BY <3>4, <4>1, OneTurnFits
    <3>5. QED
      BY <3>2, <3>3, <3>4
  <2>3. QED
    BY <2>1, <2>2
<1> HIDE DEF w
<1>2. Budgeted(budget, d, go, show) \in {w \o go, w \o show, << >>}
  BY DEF Budgeted, w
<1>3. TurnFits(r, w \o go) /\ TurnFits(r, w \o show) /\ TurnFits(r, << >>)
  BY <1>1, QuietConcat, SmallTurns
<1>4. QED
  BY <1>2, <1>3

-----------------------------------------------------------------------------
(* Work in scripts                                                         *)

\* Requests without work, without pauses, and with work of one kind.
Workless(requests) == IsList(requests) /\ \A k \in DOMAIN requests : ~ Performs(requests, k)
Unpausing(requests) ==
    IsList(requests) /\
        \A k \in DOMAIN requests :
            Writes(requests, k) => requests[k].record.status # "paused"
OfWork(requests, budget, transition) ==
    IsList(requests) /\
        \A k \in DOMAIN requests :
            Performs(requests, k) =>
                requests[k].budget = budget /\ requests[k].transition = transition

\* What is said of the requests one by one holds of two lists in a row.
LEMMA WorkConcat ==
    ASSUME NEW a, NEW b
    PROVE  /\ Workless(a) /\ Workless(b) => Workless(a \o b)
           /\ Unpausing(a) /\ Unpausing(b) => Unpausing(a \o b)
<1>1. ASSUME Workless(a), Workless(b) PROVE Workless(a \o b)
  <2>1. IsList(a) /\ IsList(b)
    BY <1>1 DEF Workless
  <2>2. QED
    BY <1>1, <2>1, ConcatElements DEF Workless, Performs
<1>2. ASSUME Unpausing(a), Unpausing(b) PROVE Unpausing(a \o b)
  <2>1. IsList(a) /\ IsList(b)
    BY <1>2 DEF Unpausing
  <2>2. QED
    <3> DEFINE s == a \o b
    <3> SUFFICES ASSUME NEW k \in DOMAIN s, Writes(s, k)
                 PROVE  s[k].record.status # "paused"
      BY <2>1, ConcatElements DEF Unpausing
    <3>1. \/ k \in DOMAIN a /\ s[k] = a[k]
          \/ k - Len(a) \in DOMAIN b /\ s[k] = b[k - Len(a)]
      BY <2>1, ConcatElements
    <3> HIDE DEF s
    <3>2. QED
      BY <1>2, <3>1 DEF Unpausing, Writes
<1>3. QED
  BY <1>1, <1>2

\* Requests before paid work do not matter.
LEMMA PaidConcat ==
    ASSUME NEW r, NEW records, NEW v, NEW a, NEW b, Workless(a), IsList(b),
           AllPaid(r, records, v, b)
    PROVE  AllPaid(r, records, v, a \o b)
<1> DEFINE s == a \o b
           n == Len(a)
<1>1. /\ IsList(a) /\ n \in Nat /\ Len(b) \in Nat /\ DOMAIN b = 1 .. Len(b)
      /\ DOMAIN s = 1 .. (n + Len(b))
      /\ \A i \in 1 .. Len(b) : s[n + i] = b[i]
  BY ListConcat, ListShape DEF Workless
<1>2. ASSUME NEW k \in DOMAIN s, Performs(s, k) PROVE Paid(r, records, v, s, k)
  <2>1. k > n /\ k - n \in DOMAIN b /\ s[k] = b[k - n]
    BY <1>1, <1>2, ConcatElements DEF Workless, Performs
  <2> HIDE DEF s, n
  <2>2. Paid(r, records, v, b, k - n)
    BY <1>2, <2>1 DEF AllPaid, Performs
  <2>3. ASSUME NEW l \in 1 .. (k - n - 1) PROVE n + l \in 1 .. (k - 1) /\ s[n + l] = b[l]
    <3>1. k \in Nat /\ l \in 1 .. Len(b)
      BY <1>1, <2>1
    <3>2. QED
      BY <1>1, <3>1
  <2>4. CASE \E i \in DOMAIN records :
                /\ ChargeOf(records[i], b[k - n].budget)
                /\ Payer(r, records, v, b[k - n].transition, records[i].observationId)
    BY <2>1, <2>4 DEF Paid
  <2>5. ASSUME NEW l \in 1 .. (k - n - 1), Writes(b, l), ChargeOf(b[l].record, b[k - n].budget),
               Payer(r, records, v, b[k - n].transition, b[l].record.observationId)
        PROVE  Paid(r, records, v, s, k)
    BY <2>1, <2>3, <2>5 DEF Paid, Writes
  <2>6. QED
    BY <2>2, <2>4, <2>5 DEF Paid
<1> HIDE DEF s
<1>3. AllPaid(r, records, v, s)
  BY <1>2 DEF AllPaid
<1>4. QED
  BY <1>3 DEF s

\* Work is paid by a charge in the ledger, or by one written right before it.
LEMMA PaidWork ==
    ASSUME NEW r, NEW records, NEW v, NEW budget, NEW t, NEW x, ChargeOf(x, budget),
           Payer(r, records, v, t, x.observationId), NEW go, OfWork(go, budget, t)
    PROVE  /\ (\E i \in DOMAIN records : records[i] = x) => AllPaid(r, records, v, go)
           /\ IsList(Write(<<x>>) \o go) /\ AllPaid(r, records, v, Write(<<x>>) \o go)
<1>1. (\E i \in DOMAIN records : records[i] = x) => AllPaid(r, records, v, go)
  BY DEF OfWork, AllPaid, Paid
<1> DEFINE w == Write(<<x>>)
           s == w \o go
<1>2. IsList(<<x>>) /\ Len(<<x>>) = 1 /\ <<x>>[1] = x
  BY ShortLists
<1>3. IsList(w) /\ Len(w) = 1 /\ w[1].op = "write" /\ w[1].record = x
  BY <1>2, WriteList
<1> HIDE DEF w
<1>4. /\ IsList(s) /\ Len(go) \in Nat /\ DOMAIN go = 1 .. Len(go) /\ DOMAIN w = 1 .. 1
      /\ DOMAIN s = 1 .. (1 + Len(go)) /\ s[1] = w[1]
  <2>1. 1 \in 1 .. Len(w)
    BY <1>3
  <2>2. /\ IsList(s) /\ Len(s) = Len(w) + Len(go)
        /\ \A i \in 1 .. Len(w) : s[i] = w[i]
    BY <1>3, ListConcat DEF OfWork
  <2> HIDE DEF s
  <2>3. QED
    BY <1>3, <2>1, <2>2, ListShape DEF OfWork
<1>5. ASSUME NEW k \in DOMAIN s, Performs(s, k) PROVE Paid(r, records, v, s, k)
  <2>1. k # 1
    BY <1>3, <1>4, <1>5 DEF Performs
  <2>2. \/ k \in DOMAIN w
        \/ k - 1 \in DOMAIN go /\ s[k] = go[k - 1]
    BY <1>3, ConcatElements DEF OfWork
  <2>3. k - 1 \in DOMAIN go /\ s[k] = go[k - 1] /\ 1 \in 1 .. (k - 1)
    BY <1>4, <2>1, <2>2
  <2> HIDE DEF s
  <2>4. s[k].budget = budget /\ s[k].transition = t
    BY <1>5, <2>3 DEF OfWork, Performs
  <2>5. QED
    BY <1>3, <1>4, <2>3, <2>4 DEF Paid, Writes
<1> HIDE DEF s
<1>6. AllPaid(r, records, v, s)
  BY <1>5 DEF AllPaid
<1>7. QED
  BY <1>1, <1>4, <1>6 DEF s, w

\* The lists the scripts are made of.
LEMMA SmallWork ==
    /\ Workless(<< >>) /\ Unpausing(<< >>)
    /\ \A op : op \notin {"write", "perform"} => Workless(Request(op)) /\ Unpausing(Request(op))
    /\ \A budget, transition :
          Unpausing(Perform(budget, transition))
          /\ OfWork(Perform(budget, transition), budget, transition)
    /\ \A list : IsList(list) => Workless(Write(list))
    /\ \A x : x.status # "paused" => Unpausing(Write(<<x>>))
<1>1. Workless(<< >>) /\ Unpausing(<< >>)
  BY ShortLists DEF Workless, Unpausing
<1>2. ASSUME NEW op, op \notin {"write", "perform"}
      PROVE  Workless(Request(op)) /\ Unpausing(Request(op))
  <2>1. IsList(Request(op)) /\ DOMAIN Request(op) = {1} /\ Request(op)[1].op = op
    BY ShortLists DEF Request
  <2>2. QED
    BY <1>2, <2>1 DEF Workless, Unpausing, Writes, Performs
<1>3. ASSUME NEW budget, NEW transition
      PROVE  /\ Unpausing(Perform(budget, transition))
             /\ OfWork(Perform(budget, transition), budget, transition)
  <2>1. /\ IsList(Perform(budget, transition)) /\ DOMAIN Perform(budget, transition) = {1}
        /\ Perform(budget, transition)[1].op = "perform"
        /\ Perform(budget, transition)[1].budget = budget
        /\ Perform(budget, transition)[1].transition = transition
    BY ShortLists DEF Perform
  <2>2. QED
    BY <2>1 DEF Unpausing, OfWork, Writes
<1>4. ASSUME NEW list, IsList(list) PROVE Workless(Write(list))
  <2> DEFINE s == Write(list)
  <2>1. /\ IsList(s) /\ Len(s) = Len(list)
        /\ \A i \in 1 .. Len(list) : s[i].op = "write"
    BY <1>4, WriteList
  <2>2. DOMAIN s = 1 .. Len(list)
    BY <2>1, ListShape
  <2> HIDE DEF s
  <2>3. Workless(s)
    BY <2>1, <2>2 DEF Workless, Performs
  <2>4. QED
    BY <2>3 DEF s
<1>5. ASSUME NEW x, x.status # "paused" PROVE Unpausing(Write(<<x>>))
  <2> DEFINE s == Write(<<x>>)
  <2>1. IsList(<<x>>) /\ Len(<<x>>) = 1 /\ <<x>>[1] = x
    BY ShortLists
  <2>2. IsList(s) /\ Len(s) = 1 /\ s[1].op = "write" /\ s[1].record = x
    BY <2>1, WriteList
  <2>3. DOMAIN s = {1}
    BY <2>2, ListShape
  <2> HIDE DEF s
  <2>4. Unpausing(s)
    BY <1>5, <2>2, <2>3 DEF Unpausing
  <2>5. QED
    BY <2>4 DEF s
<1>6. QED
  BY <1>1, <1>2, <1>3, <1>4, <1>5

\* Writing what a decision says is no work and no pause.
LEMMA DecisionWork ==
    ASSUME NEW records, NEW t, NEW v, NEW o, NEW commands,
           NEW d, d = governorDecision(records, t, v, o, commands)
    PROVE  IsList(d.record) /\ Workless(Write(d.record)) /\ Unpausing(Write(d.record))
<1>1. CASE d.record = << >>
  BY <1>1, ShortLists, WriteNothing, SmallWork
<1>2. CASE d.record # << >>
  <2>1. PICK x : d.record = <<x>> /\ x.status # "paused"
    BY <1>2, DecisionWritesTurn
  <2>2. IsList(<<x>>)
    BY ShortLists
  <2>3. Workless(Write(<<x>>)) /\ Unpausing(Write(<<x>>))
    BY <2>1, <2>2, SmallWork
  <2>4. QED
    BY <2>1, <2>2, <2>3
<1>3. QED
  BY <1>1, <1>2

-----------------------------------------------------------------------------
(* Each program, once it has decided                                       *)

\* advance-pr.mjs.
LEMMA AdvanceTurns ==
    ASSUME NEW r
    PROVE  TurnFits(r, AdvanceScript(r))
<1> DEFINE v == seen[r].version
           t == <<IF KindOf[r] = "advance" THEN "review-repair" ELSE "merge-repair", v>>
           d == governorDecision(ledger, t, v, Observation(r), {})
<1>1. AdvanceScript(r) = << >> \/ AdvanceScript(r) = Write(d.record)
  BY DEF AdvanceScript
<1> HIDE DEF t, v
<1>2. Quiet(Write(d.record))
  BY DecisionTurns
<1>3. QED
  BY <1>1, <1>2, SmallTurns

\* wake-rework.mjs and resume-fault.mjs.
LEMMA WakeTurns ==
    ASSUME NEW r
    PROVE  /\ KindOf[r] \in {"rework", "resume"} => TurnFits(r, WakeScript(r))
           /\ KindOf[r] = "fault-resume" => TurnFits(r, FaultResumeScript(r))
<1>1. ASSUME NEW t, NEW v, NEW o, NEW c, c # {} => KindOf[r] \in Answering
      PROVE  /\ TurnFits(r, Write(governorDecision(ledger, t, v, o, c).record)
                                \o Request("unpause"))
             /\ TurnFits(r, Write(governorDecision(ledger, t, v, o, c).record) \o << >>)
  <2> DEFINE w == Write(governorDecision(ledger, t, v, o, c).record)
  <2>1. TurnFits(r, w)
    BY <1>1, DecisionTurns
  <2> HIDE DEF w
  <2>2. Quiet(Request("unpause")) /\ Quiet(<< >>)
    BY SmallTurns
  <2>3. TurnFits(r, w \o Request("unpause")) /\ TurnFits(r, w \o << >>)
    BY <2>1, <2>2, QuietConcat
  <2>4. QED
    BY <2>3 DEF w
<1> DEFINE v == seen[r].version
           commands == IF KindOf[r] = "resume" THEN {Observation(r)} ELSE {}
           woken == governorDecision(ledger, <<"review-repair", 0>>, v, Observation(r), commands)
           resumed == governorDecision(ledger, Recovery, v, Observation(r),
                                       {<<"fault", Trigger[r]>>})
<1>2. WakeScript(r) \in {Write(woken.record) \o Request("unpause"), Write(woken.record) \o << >>}
  BY DEF WakeScript
<1>3. FaultResumeScript(r) \in {Write(resumed.record) \o Request("unpause"), << >>}
  BY DEF FaultResumeScript
<1>4. commands # {} => KindOf[r] \in Answering
  BY DEF Answering
<1> HIDE DEF commands, v
<1>5. /\ TurnFits(r, Write(woken.record) \o Request("unpause"))
      /\ TurnFits(r, Write(woken.record) \o << >>)
  BY <1>1, <1>4, Zenon
<1>6. KindOf[r] = "fault-resume" => TurnFits(r, Write(resumed.record) \o Request("unpause"))
  <2>1. KindOf[r] = "fault-resume" => KindOf[r] \in Answering
    BY DEF Answering
  <2>2. QED
    BY <1>1, <2>1, Zenon
<1> HIDE DEF woken, resumed
<1>7. QED
  BY <1>2, <1>3, <1>5, <1>6, SmallTurns

\* reconcile-reviews.mjs: a repair is dispatched on the charge of its
\* admission, old or new, and on no open pause.
LEMMA ReconcileTurns ==
    ASSUME IsList(ledger), NEW r, KindOf[r] = "reconcile"
    PROVE  /\ TurnFits(r, ReconcileScript(r))
           /\ AllPaid(r, ledger, seen[r].version, ReconcileScript(r))
           /\ PauseFree(ledger, ReconcileScript(r))
<1> DEFINE v == seen[r].version
           t == seen[r].pending
           admissions == Recorded(ledger, {"admitted"}, t, v)
           decision == governorDecision(ledger, t, v, Observation(r), {})
           replay == admissions # {}
           charged == IF decision.record # << >>
                      THEN decision.record[1].observationId
                      ELSE IF replay THEN ledger[Min(admissions)].observationId
                      ELSE Observation(r)
           budget == governorBudgetDecision(ledger, t[1], charged, Limit[t[1]])
           go == DispatchThenApplied(r, t)
           show == Request("pause")
           goes == decision.execute \/ (replay /\ decision.action = "wait")
           again == replay /\ budget.action = "noop"
           rest == IF goes
                   THEN IF again THEN go ELSE Budgeted(t[1], budget, go, show)
                   ELSE << >>
           w == Write(decision.record)
<1>1. ReconcileScript(r) = w \o rest
  BY DEF ReconcileScript
<1>2. IsList(w) /\ Quiet(w) /\ Workless(w) /\ Unpausing(w)
  BY DecisionTurns, DecisionWork DEF Quiet
<1>3. goes => OpenPause(ledger) = {}
  BY DecisionWritesTurn
<1>4. Quiet(go) /\ OfWork(go, t[1], t) /\ Unpausing(go)
  <2>1. CASE go = << >>
    BY <2>1, SmallTurns, SmallWork DEF Workless, OfWork
  <2>2. CASE go # << >>
    <3> DEFINE x == AppliedRecord(t, v, Observation(r))
               p == Perform(t[1], t)
    <3>1. go = p \o Write(<<x>>)
      BY <2>2 DEF DispatchThenApplied
    <3>2. x.status = "applied"
      BY DEF AppliedRecord
    <3> HIDE DEF x
    <3>3. /\ Quiet(p) /\ Quiet(Write(<<x>>)) /\ Unpausing(p) /\ Unpausing(Write(<<x>>))
          /\ OfWork(p, t[1], t) /\ Workless(Write(<<x>>))
      <4>1. ~ Turning(x) /\ IsList(<<x>>)
        BY <3>2, ShortLists DEF Turning
      <4>2. QED
        BY <3>2, <4>1, SmallTurns, SmallWork
    <3> HIDE DEF p, t
    <3>4. Quiet(p \o Write(<<x>>)) /\ Unpausing(p \o Write(<<x>>))
      BY <3>3, QuietConcat, WorkConcat
    <3>5. OfWork(p \o Write(<<x>>), t[1], t)
      <4> DEFINE b == Write(<<x>>)
                 s == p \o b
      <4>1. IsList(p) /\ IsList(b)
        BY <3>3 DEF Quiet
      <4> HIDE DEF b
      <4>2. IsList(s) /\ \A k \in DOMAIN s :
                \/ k \in DOMAIN p /\ s[k] = p[k]
                \/ k - Len(p) \in DOMAIN b /\ s[k] = b[k - Len(p)]
        BY <4>1, ConcatElements
      <4>3. Workless(b) /\ OfWork(p, t[1], t)
        BY <3>3 DEF b
      <4> HIDE DEF s
      <4>4. OfWork(s, t[1], t)
        BY <4>2, <4>3 DEF OfWork, Workless, Performs
      <4>5. QED
        BY <4>4 DEF s, b
    <3>6. QED
      BY <3>1, <3>4, <3>5
  <2>3. QED
    BY <2>1, <2>2
<1>5. Quiet(show) /\ Workless(show)
  BY SmallTurns, SmallWork
<1>6. goes => Payer(r, ledger, v, t, charged)
  <2>1. CASE decision.record # << >> /\ goes
    <3>1. PICK x : decision.record = <<x>> /\ x.observationId = Observation(r)
      <4> HIDE DEF v, t
      <4>1. QED
        BY <2>1, DecisionWritesTurn
    <3>2. charged = Observation(r)
      BY <3>1
    <3>3. QED
      BY <3>2 DEF Payer
  <2>2. CASE decision.record = << >> /\ replay
    <3>1. admissions \subseteq Nat
      BY ListShape DEF Recorded
    <3>2. Min(admissions) \in admissions
      BY <2>2, <3>1, MinMember
    <3>3. charged = ledger[Min(admissions)].observationId
      BY <2>2
    <3>4. QED
      BY <3>2, <3>3 DEF Payer
  <2>3. CASE decision.record = << >> /\ ~ replay
    BY <2>3 DEF Payer
  <2>4. QED
    BY <2>1, <2>2, <2>3
<1> HIDE DEF w, decision, go, show, charged, t, v, admissions
<1>7. goes => TurnFits(r, Budgeted(t[1], budget, go, show))
  <2>1. KindOf[r] \in Pausing
    BY DEF Pausing
  <2>2. QED
    BY <1>3, <1>4, <1>5, <2>1, BudgetedTurns
<1>8. TurnFits(r, rest)
  BY <1>4, <1>7, SmallTurns
<1>9. TurnFits(r, w \o rest)
  BY <1>2, <1>8, QuietConcat
<1>10. budget.action = "noop" => charged \in Charging(ledger, t[1]) /\ budget.record = << >>
  BY BudgetWrites
<1>11. \/ budget.execute /\ budget.action # "pause"
          /\ \E x : /\ budget.record = <<x>> /\ x.status # "paused"
                    /\ ChargeOf(x, t[1]) /\ x.observationId = charged
       \/ ~ budget.execute /\ IsList(budget.record)
  <2> DEFINE a == AttemptRecord(t[1], charged, Cardinality(Attempts(ledger, t[1])) + 1)
  <2>1. a.status = "attempt" /\ a.transition = t[1] /\ a.observationId = charged
    BY DEF AttemptRecord
  <2>2. budget.execute => budget.record = <<a>> /\ budget.action # "pause"
    BY BudgetWrites
  <2>3. ~ budget.execute => budget.record \in {<< >>, <<PausedRecord(t[1], charged)>>}
    BY BudgetWrites
  <2>4. IsList(<< >>) /\ IsList(<<PausedRecord(t[1], charged)>>)
    BY ShortLists
  <2> HIDE DEF a
  <2>5. QED
    BY <2>1, <2>2, <2>3, <2>4 DEF ChargeOf
<1> HIDE DEF budget
<1>12. /\ IsList(rest) /\ AllPaid(r, ledger, v, rest)
       /\ (Unpausing(rest) /\ goes) \/ Workless(rest)
  <2>1. CASE rest = << >>
    BY <2>1, SmallWork DEF Workless, AllPaid
  <2>2. CASE goes /\ again
    <3>1. PICK i \in DOMAIN ledger : ChargeOf(ledger[i], t[1]) /\ ledger[i].observationId = charged
      BY <1>10, <2>2 DEF Charging, Spent
    <3>2. AllPaid(r, ledger, v, go)
      BY <1>4, <1>6, <2>2, <3>1, PaidWork
    <3>3. QED
      BY <1>4, <2>2, <3>2 DEF OfWork
  <2>3. CASE goes /\ ~ again /\ budget.execute
    <3>1. PICK x : /\ budget.record = <<x>> /\ x.status # "paused"
                   /\ ChargeOf(x, t[1]) /\ x.observationId = charged
      BY <1>11, <2>3
    <3>2. rest = Budgeted(t[1], budget, go, show) /\ budget.action # "pause"
      BY <1>11, <2>3
    <3>3. rest = Write(budget.record) \o go
      BY <2>3, <3>2 DEF Budgeted
    <3>4. IsList(Write(<<x>>) \o go) /\ AllPaid(r, ledger, v, Write(<<x>>) \o go)
      BY <1>4, <1>6, <2>3, <3>1, PaidWork
    <3>5. Unpausing(Write(<<x>>) \o go)
      BY <1>4, <3>1, SmallWork, WorkConcat
    <3>6. QED
      BY <2>3, <3>1, <3>3, <3>4, <3>5
  <2>4. CASE goes /\ ~ again /\ ~ budget.execute /\ rest # << >>
    <3>1. rest = Write(budget.record) \o show
      BY <2>4 DEF Budgeted
    <3>2. Workless(Write(budget.record))
      BY <1>11, <2>4, SmallWork
    <3>3. Workless(rest)
      BY <1>5, <3>1, <3>2, WorkConcat
    <3>4. QED
      BY <3>3 DEF Workless, AllPaid
  <2>5. QED
    BY <2>1, <2>2, <2>3, <2>4
<1> HIDE DEF rest, goes
<1>13. AllPaid(r, ledger, v, w \o rest)
  BY <1>2, <1>12, PaidConcat
<1>14. PauseFree(ledger, w \o rest)
  <2>1. CASE Unpausing(rest) /\ goes
    BY <1>2, <1>3, <2>1, WorkConcat DEF Unpausing, PauseFree
  <2>2. CASE Workless(rest)
    BY <1>2, <2>2, WorkConcat DEF Workless, PauseFree
  <2>3. QED
    BY <1>12, <2>1, <2>2
<1>15. QED
  BY <1>1, <1>9, <1>13, <1>14 DEF v

\* Records that change nothing others decide on are quiet to write.
LEMMA QuietWrites ==
    ASSUME NEW list, IsList(list), \A i \in DOMAIN list : ~ Turning(list[i])
    PROVE  Quiet(Write(list))
<1> DEFINE s == Write(list)
<1>1. /\ IsList(s) /\ Len(s) = Len(list) /\ DOMAIN list = 1 .. Len(list)
      /\ \A i \in 1 .. Len(list) : s[i].op = "write" /\ s[i].record = list[i]
  BY WriteList, ListShape
<1>2. DOMAIN s = DOMAIN list
  BY <1>1, ListShape
<1> HIDE DEF s
<1>3. Quiet(s)
  BY <1>1, <1>2 DEF Quiet, Turns
<1>4. QED
  BY <1>3 DEF s

\* What a decision without a command writes.
LEMMA PlainDecision ==
    ASSUME NEW records, NEW t, NEW v, NEW o, NEW d, d = governorDecision(records, t, v, o, {})
    PROVE  IsList(d.record) /\ \A i \in DOMAIN d.record : ~ Turning(d.record[i])
                                                      /\ d.record[i].status # "paused"
<1>1. CASE d.record = << >>
  BY <1>1, ShortLists
<1>2. CASE d.record # << >>
  <2>1. PICK x : d.record = <<x>> /\ x.status \in {"candidate", "admitted"}
    BY <1>2, DecisionWritesTurn
  <2>2. IsList(<<x>>) /\ DOMAIN <<x>> = {1} /\ <<x>>[1] = x
    BY ShortLists
  <2>3. QED
    BY <2>1, <2>2 DEF Turning
<1>3. QED
  BY <1>1, <1>2

\* recover-backlog.mjs: a recovery wakes the work on the charge it has just
\* written.
LEMMA RecoverTurns ==
    ASSUME IsList(ledger), NEW r, KindOf[r] = "recover"
    PROVE  TurnFits(r, RecoverScript(r)) /\ AllPaid(r, ledger, seen[r].version, RecoverScript(r))
<1> DEFINE v == seen[r].version
           asked == governorDecision(ledger, Recovery, v, <<"source-run", Trigger[r]>>, {})
           known == Recorded(ledger, {"candidate"}, Recovery, v) # {}
           first == IF known THEN << >> ELSE asked.record
           working == ledger \o first
           decision == governorDecision(working, Recovery, v, Observation(r), {})
           b == "workflow-recovery"
           budget == governorBudgetDecision(working, b, Observation(r), Limit[b])
           go == AppliedThenWake(r)
           show == Request("pause")
           rest == IF decision.execute THEN Budgeted(b, budget, go, show) ELSE << >>
           w == Write(first \o decision.record)
<1>1. RecoverScript(r) = w \o rest
  BY DEF RecoverScript
<1>2. IsList(first) /\ \A i \in DOMAIN first : ~ Turning(first[i])
                                               /\ first[i].status # "paused"
  BY ShortLists, PlainDecision
<1>3. first = << >> \/ \E x : first = <<x>> /\ x.status \in {"candidate", "admitted"}
  <2>1. \/ asked.record = << >>
        \/ \E x : asked.record = <<x>> /\ x.status \in {"candidate", "admitted"}
    BY DecisionWritesTurn
  <2>2. QED
    BY <2>1
<1> HIDE DEF first
<1>4. IsList(working)
  BY <1>2, ListConcat
<1>5. OpenPause(working) = {} => OpenPause(ledger) = {}
  <2>1. CASE first = << >>
    <3>1. ledger \o << >> = ledger
      BY DEF IsList
    <3>2. QED
      BY <2>1, <3>1
  <2>2. ASSUME NEW x, first = <<x>>, x.status \in {"candidate", "admitted"}
        PROVE  OpenPause(working) = {} => OpenPause(ledger) = {}
    <3>1. ledger \o <<x>> = Append(ledger, x)
      BY DEF IsList
    <3>2. QED
      BY <2>2, <3>1, PausesGrow
  <2>3. QED
    BY <1>3, <2>1, <2>2
<1> HIDE DEF working
<1>6. decision.execute => OpenPause(ledger) = {}
  BY <1>5, DecisionWritesTurn
<1>7. IsList(decision.record) /\ \A i \in DOMAIN decision.record : ~ Turning(decision.record[i])
  BY PlainDecision
<1> HIDE DEF decision
<1>8. Quiet(w) /\ Workless(w)
  <2> DEFINE both == first \o decision.record
  <2>1. IsList(both) /\ \A i \in DOMAIN both : ~ Turning(both[i])
    <3>1. IsList(both) /\ \A i \in DOMAIN both :
              \/ i \in DOMAIN first /\ both[i] = first[i]
              \/ i - Len(first) \in DOMAIN decision.record
                 /\ both[i] = decision.record[i - Len(first)]
      BY <1>2, <1>7, ConcatElements
    <3> HIDE DEF both
    <3>2. QED
      BY <1>2, <1>7, <3>1
  <2> HIDE DEF both
  <2>2. Quiet(Write(both)) /\ Workless(Write(both))
    BY <2>1, QuietWrites, SmallWork
  <2>3. QED
    BY <2>2 DEF both
<1>9. Quiet(go) /\ OfWork(go, b, Recovery)
  <2> DEFINE x == AppliedRecord(Recovery, v, Observation(r))
             p == Perform(b, Recovery)
             a == Write(<<x>>)
             s == a \o p
  <2>1. ~ Turning(x)
    BY DEF AppliedRecord, Turning
  <2>2. go = s
    BY DEF AppliedThenWake
  <2> HIDE DEF x
  <2>3. Quiet(a) /\ Workless(a) /\ Quiet(p) /\ OfWork(p, b, Recovery)
    BY <2>1, ShortLists, SmallTurns, SmallWork
  <2> HIDE DEF a, p
  <2>4. IsList(a) /\ IsList(p)
    BY <2>3 DEF Quiet
  <2>5. IsList(s) /\ \A k \in DOMAIN s :
            \/ k \in DOMAIN a /\ s[k] = a[k]
            \/ k - Len(a) \in DOMAIN p /\ s[k] = p[k - Len(a)]
    BY <2>4, ConcatElements
  <2>6. Quiet(s)
    BY <2>3, QuietConcat
  <2> HIDE DEF s
  <2>7. OfWork(s, b, Recovery)
    BY <2>3, <2>5 DEF OfWork, Workless, Performs
  <2>8. QED
    BY <2>2, <2>6, <2>7
<1>10. Quiet(show) /\ Workless(show)
  BY SmallTurns, SmallWork
<1> HIDE DEF go, show, w
<1>11. decision.execute => TurnFits(r, Budgeted(b, budget, go, show))
  <2>1. KindOf[r] \in Pausing /\ b \notin Repair
    BY DEF Pausing, Repair
  <2> HIDE DEF b
  <2>2. QED
    BY <1>4, <1>6, <1>9, <1>10, <2>1, BudgetedTurns
<1>12. TurnFits(r, rest)
  BY <1>11, SmallTurns
<1>13. TurnFits(r, w \o rest)
  BY <1>8, <1>12, QuietConcat
<1>14. \/ budget.execute /\ budget.action # "pause"
          /\ \E x : /\ budget.record = <<x>>
                    /\ ChargeOf(x, b) /\ x.observationId = Observation(r)
       \/ ~ budget.execute /\ IsList(budget.record)
  <2> DEFINE a == AttemptRecord(b, Observation(r), Cardinality(Attempts(working, b)) + 1)
             p == PausedRecord(b, Observation(r))
  <2>1. a.status = "attempt" /\ a.transition = b /\ a.observationId = Observation(r)
    BY DEF AttemptRecord
  <2>2. /\ budget.execute => budget.record = <<a>> /\ budget.action # "pause"
        /\ ~ budget.execute => budget.record \in {<< >>, <<p>>}
    BY <1>4, BudgetWrites
  <2>3. IsList(<< >>) /\ IsList(<<p>>)
    BY ShortLists
  <2> HIDE DEF a, p
  <2>4. QED
    BY <2>1, <2>2, <2>3 DEF ChargeOf
<1> HIDE DEF budget
<1>15. IsList(rest) /\ AllPaid(r, ledger, v, rest)
  <2>1. CASE rest = << >>
    BY <2>1, SmallWork DEF Workless, AllPaid
  <2>2. CASE decision.execute /\ budget.execute
    <3>1. PICK x : budget.record = <<x>> /\ ChargeOf(x, b) /\ x.observationId = Observation(r)
      BY <1>14, <2>2
    <3>2. rest = Budgeted(b, budget, go, show) /\ budget.action # "pause"
      BY <1>14, <2>2
    <3>3. rest = Write(budget.record) \o go
      BY <2>2, <3>2 DEF Budgeted
    <3>4. Payer(r, ledger, v, Recovery, x.observationId)
      BY <3>1 DEF Payer
    <3>5. IsList(Write(<<x>>) \o go) /\ AllPaid(r, ledger, v, Write(<<x>>) \o go)
      BY <1>9, <3>1, <3>4, PaidWork
    <3>6. QED
      BY <3>1, <3>3, <3>5
  <2>3. CASE decision.execute /\ ~ budget.execute /\ rest # << >>
    <3>1. rest = Write(budget.record) \o show
      BY <2>3 DEF Budgeted
    <3>2. Workless(Write(budget.record))
      BY <1>14, <2>3, SmallWork
    <3>3. Workless(rest)
      BY <1>10, <3>1, <3>2, WorkConcat
    <3>4. QED
      BY <3>3 DEF Workless, AllPaid
  <2>4. QED
    BY <2>1, <2>2, <2>3
<1> HIDE DEF rest, v
<1>16. AllPaid(r, ledger, v, w \o rest)
  BY <1>8, <1>15, PaidConcat
<1>17. QED
  BY <1>1, <1>13, <1>16 DEF v

\* dsh-repair.mjs for failed CI charges its own budget.
LEMMA CiTurns ==
    ASSUME IsList(ledger), NEW r, KindOf[r] \in Pausing
    PROVE  TurnFits(r, CiScript(r))
<1> DEFINE v == seen[r].version
           b == "ci-repair"
           t == <<b, Trigger[r]>>
           decision == governorDecision(ledger, t, v, Observation(r), {})
           budget == governorBudgetDecision(ledger, b, Observation(r), Limit[b])
           x == createStartedGovernorRecord(decision.record[1], budget.record[1])
           started == Perform(b, t) \o Write(<<x>>)
           pausing == Budgeted(b, budget, << >>, Request("try-pause"))
<1>1. \/ CiScript(r) = << >>
      \/ CiScript(r) = Write(decision.record)
      \/ decision.execute /\ CiScript(r) = pausing
      \/ budget.execute /\ CiScript(r) = started
  BY DEF CiScript
<1>2. TurnFits(r, << >>) /\ TurnFits(r, Write(decision.record))
  BY SmallTurns, DecisionTurns
<1>3. ASSUME decision.execute PROVE TurnFits(r, pausing)
  <2>1. OpenPause(ledger) = {}
    BY <1>3, DecisionWritesTurn
  <2>2. Quiet(<< >>) /\ Quiet(Request("try-pause")) /\ b \notin Repair
    BY SmallTurns DEF Repair
  <2> HIDE DEF b
  <2>3. QED
    BY <2>1, <2>2, BudgetedTurns
<1>4. ASSUME budget.execute PROVE TurnFits(r, started)
  <2> DEFINE a == AttemptRecord(b, Observation(r), Cardinality(Attempts(ledger, b)) + 1)
  <2>1. budget.record = <<a>>
    BY <1>4, BudgetWrites
  <2>2. a.transition = b
    BY DEF AttemptRecord
  <2> HIDE DEF a, decision, budget
  <2>3. x.status = "started" /\ x.budgetTransition = b
    BY <2>1, <2>2 DEF createStartedGovernorRecord
  <2> HIDE DEF x
  <2>4. OfProgram(r, x) /\ Timely(ledger, x) /\ ~ Spends(x)
    BY <2>3 DEF OfProgram, Timely, Spends
  <2>5. TurnFits(r, Write(<<x>>))
    BY <2>4, OneTurnFits
  <2>6. Quiet(Perform(b, t))
    BY SmallTurns
  <2>7. QED
    BY <2>5, <2>6, QuietConcat
<1> HIDE DEF decision, budget, pausing, started
<1>5. QED
  BY <1>1, <1>2, <1>3, <1>4

\* Every script.
LEMMA ScriptTurns ==
    ASSUME IsList(ledger), NEW r \in Run, KindOf[r] \in Kind
    PROVE  /\ TurnFits(r, Script(r))
           /\ KindOf[r] \in {"reconcile", "recover"} =>
                  AllPaid(r, ledger, seen[r].version, Script(r))
           /\ KindOf[r] = "reconcile" => PauseFree(ledger, Script(r))
<1>1. CASE KindOf[r] \in {"advance", "conflict"}
  BY <1>1, AdvanceTurns DEF Script
<1>2. CASE KindOf[r] \in {"rework", "resume"}
  BY <1>2, WakeTurns DEF Script
<1>3. CASE KindOf[r] = "fault-resume"
  BY <1>3, WakeTurns DEF Script
<1>4. CASE KindOf[r] = "reconcile"
  BY <1>4, ReconcileTurns DEF Script
<1>5. CASE KindOf[r] = "recover"
  BY <1>5, RecoverTurns DEF Script
<1>6. CASE KindOf[r] = "ci"
  BY <1>6, CiTurns DEF Script, Pausing
<1>7. QED
  BY <1>1, <1>2, <1>3, <1>4, <1>5, <1>6 DEF Kind

-----------------------------------------------------------------------------
(* Steps of programs that take turns                                       *)

\* A run is left alone with what it has still to send.
Kept(r) == script'[r] = script[r] /\ (script[r] # << >> => seen'[r] = seen[r])

\* What one run may do: drop its script, decide on one, or send a request.
Drops(r) == ledger' = ledger /\ script'[r] = << >>
Decides(r) ==
    ledger' = ledger /\ script'[r] = Script(r) /\ seen'[r] = seen[r] /\ EpochReadable(ledger)
Sends(r) ==
    /\ script[r] # << >> /\ pc[r] = "acting"
    /\ script'[r] = Tail(script[r])
    /\ Tail(script[r]) # << >> => seen'[r] = seen[r]
    /\ IF Writes(script[r], 1) THEN ledger' = Append(ledger, script[r][1].record)
       ELSE ledger' = ledger

\* A script moves to another place with a run that keeps the others' scripts.
LEMMA MoveKeeps ==
    ASSUME GovernorTypeOK, NEW r \in Run, NEW location, NEW observed, NEW requests,
           Move(r, location, observed, requests)
    PROVE  /\ script'[r] = requests /\ seen'[r] = observed
           /\ \A s \in Run \ {r} : Kept(s)
<1>1. /\ script = [s \in Run |-> script[s]] /\ seen = [s \in Run |-> seen[s]]
      /\ script' = [script EXCEPT ![r] = requests]
      /\ seen' = [seen EXCEPT ![r] = observed]
  BY DEF GovernorTypeOK, Move
<1>2. QED
  BY <1>1 DEF Kept

\* Every step is one of these, of one run at most.
LEMMA StepFacts ==
    ASSUME GovernorInv, [GovernorNext]_vars
    PROVE  /\ plan' = plan /\ Run' = Run /\ KindOf' = KindOf
           /\ \/ ledger' = ledger /\ \A s \in Run : Kept(s)
              \/ \E r \in Run : /\ \A s \in Run \ {r} : Kept(s)
                                /\ Drops(r) \/ Decides(r) \/ Sends(r)
<1>1. GovernorTypeOK
  BY DEF GovernorInv
<1>2. plan' = plan
  BY DEF GovernorNext, vars
<1>3. Run' = Run /\ KindOf' = KindOf
  BY <1>2 DEF Run, KindOf
<1>4. CASE UNCHANGED vars \/ ChangePullRequest
  BY <1>2, <1>3, <1>4 DEF vars, world, ChangePullRequest, Kept
<1>5. ASSUME NEW r \in Run, ledger' = ledger, End(r)
      PROVE  /\ \A s \in Run \ {r} : Kept(s)
             /\ Drops(r)
  BY <1>1, <1>5, MoveKeeps DEF End, Drops
<1>6. ASSUME NEW r \in Run, ReadPullRequest(r) \/ PickRepair(r)
      PROVE  /\ \A s \in Run \ {r} : Kept(s)
             /\ Drops(r)
  <2>1. ledger' = ledger
    BY <1>6 DEF ReadPullRequest, PickRepair, world
  <2>2. \/ End(r)
        \/ \E location, observed : Move(r, location, observed, << >>)
    BY <1>6 DEF ReadPullRequest, PickRepair
  <2>3. QED
    BY <1>1, <1>5, <2>1, <2>2, MoveKeeps DEF Drops
<1>7. ASSUME NEW r \in Run, Decide(r)
      PROVE  /\ \A s \in Run \ {r} : Kept(s)
             /\ Drops(r) \/ Decides(r)
  <2> DEFINE requests == IF EpochReadable(ledger) THEN Script(r) ELSE << >>
  <2>1. ledger' = ledger /\ Act(r, requests)
    BY <1>7 DEF Decide, world
  <2>2. requests # << >> => requests = Script(r) /\ EpochReadable(ledger)
    OBVIOUS
  <2> HIDE DEF requests
  <2>3. CASE requests = << >>
    BY <1>5, <2>1, <2>3 DEF Act
  <2>4. CASE requests # << >>
    <3>1. Move(r, "acting", seen[r], requests)
      BY <2>1, <2>4 DEF Act
    <3>2. QED
      BY <1>1, <2>1, <2>2, <2>4, <3>1, MoveKeeps DEF Decides
  <2>5. QED
    BY <2>3, <2>4
<1>8. ASSUME NEW r \in Run, Send(r)
      PROVE  /\ \A s \in Run \ {r} : Kept(s)
             /\ Sends(r)
  <2>1. /\ IsList(script[r]) /\ script[r] # << >> /\ pc[r] = "acting"
    BY <1>1, <1>8 DEF GovernorTypeOK, Send
  <2>2. Head(script[r]) = script[r][1]
    BY <2>1, ListTail
  <2>3. IF Writes(script[r], 1) THEN ledger' = Append(ledger, script[r][1].record)
        ELSE ledger' = ledger
    BY <1>8, <2>2 DEF Send, Happens, Writes
  <2>4. \/ Move(r, "ended", NothingSeen, << >>) /\ Tail(script[r]) = << >>
        \/ Move(r, "acting", seen[r], Tail(script[r]))
    BY <1>8 DEF Send, Act, End
  <2>5. QED
    BY <1>1, <2>1, <2>3, <2>4, MoveKeeps DEF Sends
<1>9. ASSUME NEW r \in Run, Die(r)
      PROVE  /\ \A s \in Run \ {r} : Kept(s)
             /\ Drops(r)
  BY <1>5, <1>9 DEF Die, world
<1>10. QED
  BY <1>2, <1>3, <1>4, <1>6, <1>7, <1>8, <1>9 DEF GovernorNext

\* The kinds of the runs are those of the programs.
LEMMA RunKinds ==
    ASSUME GovernorTypeOK
    PROVE  \A r \in Run : KindOf[r] \in Kind
<1>1. plan.kind \in Seq(Kind)
  BY GovernorAssumption DEF GovernorTypeOK
<1>2. QED
  BY <1>1 DEF Run, KindOf

\* What is left of a list was in it one place later.
LEMMA RestElements ==
    ASSUME NEW s, IsList(s), s # << >>
    PROVE  /\ IsList(Tail(s)) /\ 1 \in DOMAIN s
           /\ \A k \in DOMAIN Tail(s) :
                 k \in Nat /\ k >= 1 /\ k + 1 \in DOMAIN s /\ Tail(s)[k] = s[k + 1]
<1> DEFINE rest == Tail(s)
<1>1. /\ Len(s) \in Nat /\ DOMAIN s = 1 .. Len(s) /\ IsList(rest) /\ 1 \in DOMAIN s
      /\ DOMAIN rest = 1 .. (Len(s) - 1)
      /\ \A i \in 1 .. (Len(s) - 1) : rest[i] = s[i + 1]
  BY ListTail, ListShape
<1> HIDE DEF rest
<1>2. QED
  BY <1>1 DEF rest

\* A script with one turn at most keeps that and its program, sent or kept.
LEMMA TurnRest ==
    ASSUME NEW r, NEW s, OneTurn(s), s # << >>,
           \A k \in DOMAIN s : Turns(s, k) => OfProgram(r, s[k].record)
    PROVE  /\ OneTurn(Tail(s))
           /\ \A k \in DOMAIN Tail(s) : Turns(Tail(s), k) => OfProgram(r, Tail(s)[k].record)
           /\ Turns(s, 1) => \A k \in DOMAIN Tail(s) : ~ Turns(Tail(s), k)
<1> DEFINE rest == Tail(s)
<1>1. IsList(s)
  BY DEF OneTurn
<1>2. /\ IsList(rest) /\ 1 \in DOMAIN s
      /\ \A k \in DOMAIN rest :
            k \in Nat /\ k >= 1 /\ k + 1 \in DOMAIN s /\ rest[k] = s[k + 1]
  BY <1>1, RestElements
<1> HIDE DEF rest
<1>3. \A k \in DOMAIN rest : Turns(rest, k) => Turns(s, k + 1)
  BY <1>2 DEF Turns, Writes
<1>4. ASSUME NEW k \in DOMAIN rest, NEW l \in DOMAIN rest, Turns(rest, k), Turns(rest, l)
      PROVE  k = l
  <2>1. k + 1 = l + 1
    BY <1>2, <1>3, <1>4 DEF OneTurn
  <2>2. QED
    BY <1>2, <2>1
<1>5. OneTurn(rest)
  BY <1>2, <1>4 DEF OneTurn
<1>6. ASSUME NEW k \in DOMAIN rest, Turns(rest, k) PROVE OfProgram(r, rest[k].record)
  BY <1>2, <1>3, <1>6
<1>7. ASSUME Turns(s, 1), NEW k \in DOMAIN rest, Turns(rest, k) PROVE FALSE
  <2>1. k + 1 = 1
    BY <1>2, <1>3, <1>7 DEF OneTurn
  <2>2. QED
    BY <1>2, <2>1
<1>8. QED
  BY <1>5, <1>6, <1>7 DEF rest

\* Every step keeps that a script has one turn, and that of its program.
LEMMA TurnStep ==
    ASSUME TurnInv, [GovernorNext]_vars
    PROVE  TurnInv'
<1>1. GovernorInv /\ GovernorTypeOK /\ \A s \in Run : TurnOk(s)
  BY DEF TurnInv, GovernorInv
<1>2. GovernorInv'
  BY <1>1, GovernorStep
<1>3. Run' = Run /\ KindOf' = KindOf
  BY <1>1, StepFacts
<1> SUFFICES ASSUME NEW s \in Run PROVE TurnOk(s)'
  BY <1>2, <1>3 DEF TurnInv
<1>4. ASSUME OneTurn(script'[s]),
             \A k \in DOMAIN script'[s] :
                 Turns(script'[s], k) => OfProgram(s, script'[s][k].record)
      PROVE  TurnOk(s)'
  BY <1>3, <1>4 DEF TurnOk, OfProgram
<1>5. CASE Kept(s)
  BY <1>1, <1>4, <1>5 DEF Kept, TurnOk
<1>6. CASE Drops(s)
  <2>1. TurnFits(s, << >>)
    BY SmallTurns
  <2>2. QED
    BY <1>4, <1>6, <2>1 DEF Drops, TurnFits
<1>7. CASE Decides(s)
  <2>1. TurnFits(s, Script(s))
    BY <1>1, RunKinds, ScriptTurns DEF GovernorTypeOK
  <2>2. QED
    BY <1>4, <1>7, <2>1 DEF Decides, TurnFits
<1>8. CASE Sends(s)
  <2>1. /\ OneTurn(Tail(script[s]))
        /\ \A k \in DOMAIN Tail(script[s]) :
              Turns(Tail(script[s]), k) => OfProgram(s, Tail(script[s])[k].record)
    BY <1>1, <1>8, TurnRest DEF TurnOk, Sends
  <2>2. QED
    BY <1>4, <1>8, <2>1 DEF Sends
<1>9. QED
  BY <1>1, <1>5, <1>6, <1>7, <1>8, StepFacts

\* At the start nobody has decided anything.
LEMMA TurnStart == GovernorInit => TurnInv
<1> SUFFICES ASSUME GovernorInit PROVE TurnInv
  OBVIOUS
<1>1. GovernorInv
  BY GovernorStart
<1>2. \A r : TurnFits(r, << >>)
  BY SmallTurns
<1>3. \A r \in Run : script[r] = << >>
  BY DEF GovernorInit
<1>4. QED
  BY <1>1, <1>2, <1>3 DEF TurnInv, TurnOk, TurnFits

\* A script changes what others may decide at most once, and each program
\* writes only its own kinds of records.
THEOREM OneTurnEach == GovernorSpec => []TurnInv
BY TurnStart, TurnStep, PTL DEF GovernorSpec

-----------------------------------------------------------------------------
(* Work that is charged                                                    *)

\* A run that is no program of a pull request state writes under its own name.
LEMMA ObservationStays ==
    ASSUME NEW r, KindOf[r] \in {"reconcile", "recover"}, KindOf' = KindOf
    PROVE  Observation(r)' = Observation(r)
<1>1. Observation(r) = <<"run", r>>
  BY DEF Observation
<1>2. KindOf[r]' \in {"reconcile", "recover"}
  OBVIOUS
<1>3. Observation(r)' = <<"run", r>>
  BY <1>2 DEF Observation
<1>4. QED
  BY <1>1, <1>3

\* More records pay for as much.
LEMMA PaidGrows ==
    ASSUME NEW r, NEW records, IsList(records), NEW x, NEW v, NEW requests,
           AllPaid(r, records, v, requests)
    PROVE  AllPaid(r, Append(records, x), v, requests)
<1> DEFINE longer == Append(records, x)
<1>1. \A i \in DOMAIN records : i \in DOMAIN longer /\ longer[i] = records[i]
  BY ListAppend, ListShape
<1> HIDE DEF longer
<1>2. \A t : Recorded(records, {"admitted"}, t, v) \subseteq Recorded(longer, {"admitted"}, t, v)
  BY <1>1 DEF Recorded
<1>3. \A t, o : Payer(r, records, v, t, o) => Payer(r, longer, v, t, o)
  <2> SUFFICES ASSUME NEW t, NEW o, Payer(r, records, v, t, o) PROVE Payer(r, longer, v, t, o)
    OBVIOUS
  <2>1. CASE o = Observation(r)
    BY <2>1 DEF Payer
  <2>2. ASSUME NEW j \in Recorded(records, {"admitted"}, t, v), records[j].observationId = o
        PROVE  Payer(r, longer, v, t, o)
    <3>1. j \in DOMAIN records
      BY <2>2 DEF Recorded
    <3>2. QED
      BY <1>1, <1>2, <2>2, <3>1 DEF Payer
  <2>3. QED
    BY <2>1, <2>2 DEF Payer
<1>4. ASSUME NEW k \in DOMAIN requests, Performs(requests, k)
      PROVE  Paid(r, longer, v, requests, k)
  <2>1. Paid(r, records, v, requests, k)
    BY <1>4 DEF AllPaid
  <2>2. ASSUME NEW i \in DOMAIN records, ChargeOf(records[i], requests[k].budget),
               Payer(r, records, v, requests[k].transition, records[i].observationId)
        PROVE  Paid(r, longer, v, requests, k)
    <3>1. i \in DOMAIN longer /\ longer[i] = records[i]
      BY <1>1
    <3>2. Payer(r, longer, v, requests[k].transition, longer[i].observationId)
      BY <1>3, <2>2, <3>1
    <3>3. ChargeOf(longer[i], requests[k].budget)
      BY <2>2, <3>1
    <3>4. QED
      BY <3>1, <3>2, <3>3 DEF Paid
  <2>3. ASSUME NEW l \in 1 .. (k - 1), Writes(requests, l),
               ChargeOf(requests[l].record, requests[k].budget),
               Payer(r, records, v, requests[k].transition, requests[l].record.observationId)
        PROVE  Paid(r, longer, v, requests, k)
    BY <1>3, <2>3 DEF Paid
  <2>4. QED
    BY <2>1, <2>2, <2>3 DEF Paid
<1>5. QED
  BY <1>4 DEF AllPaid, longer

\* What is left of a script is paid where its first request went.
LEMMA PaidRest ==
    ASSUME NEW r, NEW records, NEW v, NEW s, IsList(s), s # << >>, AllPaid(r, records, v, s),
           Writes(s, 1) => \E i \in DOMAIN records : records[i] = s[1].record
    PROVE  AllPaid(r, records, v, Tail(s))
<1> DEFINE rest == Tail(s)
<1>1. \A k \in DOMAIN rest :
          k \in Nat /\ k >= 1 /\ k + 1 \in DOMAIN s /\ rest[k] = s[k + 1]
  BY RestElements
<1>2. /\ Len(s) \in Nat /\ DOMAIN s = 1 .. Len(s)
      /\ DOMAIN rest = 1 .. (Len(s) - 1)
  BY ListTail, ListShape
<1> HIDE DEF rest
<1> SUFFICES ASSUME NEW k \in DOMAIN rest, Performs(rest, k)
             PROVE  Paid(r, records, v, rest, k)
  BY DEF AllPaid, rest
<1>3. k + 1 \in DOMAIN s /\ rest[k] = s[k + 1] /\ Performs(s, k + 1) /\ k \in Nat
  BY <1>1 DEF Performs
<1>4. Paid(r, records, v, s, k + 1)
  BY <1>3 DEF AllPaid
<1>5. CASE \E i \in DOMAIN records :
              /\ ChargeOf(records[i], rest[k].budget)
              /\ Payer(r, records, v, rest[k].transition, records[i].observationId)
  BY <1>5 DEF Paid
<1>6. ASSUME NEW l \in 1 .. ((k + 1) - 1), Writes(s, l),
             ChargeOf(s[l].record, rest[k].budget),
             Payer(r, records, v, rest[k].transition, s[l].record.observationId)
      PROVE  Paid(r, records, v, rest, k)
  <2>1. CASE l = 1
    <3>1. PICK i \in DOMAIN records : records[i] = s[1].record
      BY <1>6, <2>1
    <3>2. ChargeOf(records[i], rest[k].budget)
          /\ Payer(r, records, v, rest[k].transition, records[i].observationId)
      BY <1>6, <2>1, <3>1
    <3>3. QED
      BY <3>2 DEF Paid
  <2>2. CASE l # 1
    <3>1. l - 1 \in 1 .. (k - 1) /\ l - 1 \in DOMAIN rest /\ (l - 1) + 1 = l
      BY <1>2, <1>3, <2>2
    <3>2. rest[l - 1] = s[l]
      BY <1>1, <3>1
    <3>3. /\ Writes(rest, l - 1)
          /\ ChargeOf(rest[l - 1].record, rest[k].budget)
          /\ Payer(r, records, v, rest[k].transition, rest[l - 1].record.observationId)
      BY <1>6, <3>2 DEF Writes
    <3>4. QED
      BY <3>1, <3>3 DEF Paid
  <2>3. QED
    BY <2>1, <2>2
<1>7. QED
  BY <1>3, <1>4, <1>5, <1>6 DEF Paid

\* Every step keeps work paid.
LEMMA PaidStep ==
    ASSUME PaidInv, [GovernorNext]_vars
    PROVE  PaidInv'
<1>1. TurnInv /\ GovernorInv /\ GovernorTypeOK /\ IsList(ledger)
  BY DEF PaidInv, TurnInv, GovernorInv, GovernorTypeOK
<1>2. TurnInv'
  BY <1>1, TurnStep
<1>3. Run' = Run /\ KindOf' = KindOf
  BY <1>1, StepFacts
<1> SUFFICES ASSUME NEW s \in Run, KindOf[s] \in {"reconcile", "recover"}
             PROVE  AllPaid(s, ledger, seen[s].version, script[s])'
  BY <1>2, <1>3 DEF PaidInv
<1> DEFINE v == seen[s].version
<1>4. AllPaid(s, ledger, v, script[s]) /\ IsList(script[s])
  BY <1>1 DEF PaidInv, GovernorTypeOK
<1>5. Observation(s)' = Observation(s)
  BY <1>3, ObservationStays
<1>6. ASSUME AllPaid(s, ledger', seen'[s].version, script'[s])
      PROVE  AllPaid(s, ledger, seen[s].version, script[s])'
  BY <1>5, <1>6 DEF AllPaid, Paid, Payer
<1>7. ASSUME script'[s] = << >> PROVE AllPaid(s, ledger, seen[s].version, script[s])'
  <2>1. DOMAIN script'[s] = {}
    BY <1>7
  <2>2. QED
    BY <1>6, <2>1 DEF AllPaid
<1>8. CASE Kept(s) /\ (ledger' = ledger \/ \E x : ledger' = Append(ledger, x))
  <2>1. AllPaid(s, ledger', v, script[s])
    BY <1>1, <1>4, <1>8, PaidGrows
  <2>2. CASE script[s] = << >>
    BY <1>7, <1>8, <2>2 DEF Kept
  <2>3. CASE script[s] # << >>
    BY <1>6, <1>8, <2>1, <2>3 DEF Kept
  <2>4. QED
    BY <2>2, <2>3
<1>9. CASE Drops(s)
  BY <1>7, <1>9 DEF Drops
<1>10. CASE Decides(s)
  <2>1. AllPaid(s, ledger, v, Script(s))
    BY <1>1, RunKinds, ScriptTurns
  <2>2. QED
    BY <1>6, <1>10, <2>1 DEF Decides
<1>11. CASE Sends(s)
  <2>1. /\ AllPaid(s, ledger', v, script[s])
        /\ Writes(script[s], 1) => \E i \in DOMAIN ledger' : ledger'[i] = script[s][1].record
    <3>1. CASE ~ Writes(script[s], 1)
      BY <1>4, <1>11, <3>1 DEF Sends
    <3>2. CASE Writes(script[s], 1)
      <4>1. ledger' = Append(ledger, script[s][1].record)
        BY <1>11, <3>2 DEF Sends
      <4>2. /\ Len(ledger) \in Nat /\ DOMAIN ledger' = 1 .. (Len(ledger) + 1)
            /\ ledger'[Len(ledger) + 1] = script[s][1].record
        BY <1>1, <4>1, ListAppend, ListShape
      <4>3. AllPaid(s, ledger', v, script[s])
        BY <1>1, <1>4, <4>1, PaidGrows
      <4>4. QED
        BY <4>2, <4>3
    <3>3. QED
      BY <3>1, <3>2
  <2>2. AllPaid(s, ledger', v, Tail(script[s]))
    BY <1>4, <1>11, <2>1, PaidRest DEF Sends
  <2>3. QED
    BY <1>6, <1>7, <1>11, <2>2 DEF Sends
<1>12. \/ Kept(s) /\ (ledger' = ledger \/ \E x : ledger' = Append(ledger, x))
       \/ Drops(s) \/ Decides(s) \/ Sends(s)
  BY <1>1, StepFacts DEF Drops, Decides, Sends
<1>13. QED
  BY <1>8, <1>9, <1>10, <1>11, <1>12

\* At the start there is nothing to pay for.
LEMMA PaidStart == GovernorInit => PaidInv
<1> SUFFICES ASSUME GovernorInit PROVE PaidInv
  OBVIOUS
<1>1. TurnInv /\ \A r \in Run : script[r] = << >>
  BY TurnStart DEF GovernorInit
<1>2. DOMAIN << >> = {}
  OBVIOUS
<1>3. QED
  BY <1>1, <1>2 DEF PaidInv, AllPaid

\* A run at work is one that still has something to send.
LEMMA AtWork ==
    ASSUME GovernorTypeOK, NEW r \in Run, script[r] # << >>
    PROVE  pc[r] = "acting"
BY DEF GovernorTypeOK

\* What a reconciliation or a recovery has still to dispatch is paid for,
\* whatever other runs write meanwhile and wherever runs die.
THEOREM WorkIsPaid == GovernorSpec => []PaidInv
BY PaidStart, PaidStep, PTL DEF GovernorSpec

\* While programs that pause take turns, every step keeps dispatches free of
\* pauses.
LEMMA UnpausedStep ==
    ASSUME TurnInv, UnpausedInv, OneAtWork(Pausing), [GovernorNext]_vars
    PROVE  UnpausedInv'
<1>1. GovernorInv /\ GovernorTypeOK /\ IsList(ledger)
      /\ \A s \in Run : TurnOk(s) /\ IsList(script[s])
  BY DEF TurnInv, GovernorInv, GovernorTypeOK
<1>2. Run' = Run /\ KindOf' = KindOf
  BY <1>1, StepFacts
<1> SUFFICES ASSUME NEW s \in Run, KindOf[s] = "reconcile"
             PROVE  PauseFree(ledger', script'[s])
  BY <1>2 DEF UnpausedInv
<1>3. PauseFree(ledger, script[s]) /\ KindOf[s] \in Pausing
  BY DEF UnpausedInv, Pausing
<1>4. ASSUME script'[s] = << >> PROVE PauseFree(ledger', script'[s])
  <2>1. DOMAIN script'[s] = {}
    BY <1>4
  <2>2. QED
    BY <2>1 DEF PauseFree
<1>5. CASE Kept(s) /\ ledger' = ledger
  BY <1>3, <1>5 DEF Kept
<1>6. CASE Drops(s)
  BY <1>4, <1>6 DEF Drops
<1>7. CASE Decides(s)
  <2>1. PauseFree(ledger, Script(s))
    BY <1>1, RunKinds, ScriptTurns
  <2>2. QED
    BY <1>7, <2>1 DEF Decides
<1>8. ASSUME NEW x, ledger' = Append(ledger, x), x.status # "paused", OpenPause(ledger) = {}
      PROVE  OpenPause(ledger') = {}
  BY <1>1, <1>8, PausesGrow
<1>9. ASSUME NEW r \in Run, Sends(r), Kept(s), r # s, Writes(script[r], 1)
      PROVE  PauseFree(ledger', script'[s])
  <2> DEFINE x == script[r][1].record
  <2>1. ledger' = Append(ledger, x) /\ 1 \in DOMAIN script[r] /\ pc[r] = "acting"
    BY <1>1, <1>9, RestElements DEF Sends
  <2>2. x.status = "paused" => KindOf[r] \in Pausing
    BY <1>1, <1>9, <2>1 DEF TurnOk, Turns, Turning, OfProgram, Spends
  <2> HIDE DEF x
  <2>3. CASE script[s] = << >>
    BY <1>4, <1>9, <2>3 DEF Kept
  <2>4. CASE script[s] # << >>
    <3>1. x.status # "paused"
      BY <1>1, <1>3, <1>9, <2>1, <2>2, <2>4, AtWork DEF OneAtWork
    <3>2. OpenPause(ledger) = {} => OpenPause(ledger') = {}
      BY <1>8, <2>1, <3>1
    <3>3. QED
      BY <1>3, <1>9, <3>2 DEF PauseFree, Kept
  <2>5. QED
    BY <2>3, <2>4
<1>10. CASE Sends(s)
  <2> DEFINE a == script[s]
             rest == Tail(a)
             x == a[1].record
  <2>1. /\ script'[s] = rest /\ 1 \in DOMAIN a
        /\ \A k \in DOMAIN rest : k + 1 \in DOMAIN a /\ rest[k] = a[k + 1]
        /\ IF Writes(a, 1) THEN ledger' = Append(ledger, x) ELSE ledger' = ledger
    BY <1>1, <1>10, RestElements DEF Sends
  <2> HIDE DEF rest, x
  <2>2. ASSUME NEW l \in DOMAIN rest, Performs(rest, l)
        PROVE  /\ OpenPause(ledger') = {}
               /\ \A k \in DOMAIN rest : Writes(rest, k) => rest[k].record.status # "paused"
    <3>1. Performs(a, l + 1) /\ l + 1 \in DOMAIN a
      BY <2>1, <2>2 DEF Performs
    <3>2. /\ OpenPause(ledger) = {}
          /\ \A k \in DOMAIN a : Writes(a, k) => a[k].record.status # "paused"
      BY <1>3, <3>1 DEF PauseFree
    <3>3. OpenPause(ledger') = {}
      BY <1>8, <2>1, <3>2 DEF x
    <3>4. \A k \in DOMAIN rest : Writes(rest, k) => rest[k].record.status # "paused"
      BY <2>1, <3>2 DEF Writes
    <3>5. QED
      BY <3>3, <3>4
  <2>3. QED
    BY <2>1, <2>2 DEF PauseFree
<1>11. \/ Kept(s) /\ ledger' = ledger
       \/ Drops(s) \/ Decides(s) \/ Sends(s)
       \/ \E r \in Run : Sends(r) /\ Kept(s) /\ r # s /\ Writes(script[r], 1)
  BY <1>1, StepFacts DEF Drops, Decides, Sends
<1>12. QED
  BY <1>5, <1>6, <1>7, <1>9, <1>10, <1>11

\* At the start there is nothing to dispatch.
LEMMA UnpausedStart == GovernorInit => UnpausedInv
<1>1. DOMAIN << >> = {}
  OBVIOUS
<1>2. QED
  BY <1>1 DEF GovernorInit, UnpausedInv, PauseFree

\* When a reconciliation or a recovery has its effect, an attempt of its
\* budget was charged to its own observation or to that of an admission it
\* replays, and a reconciliation has its effect only while no pause is open
\* (governTransition, governRecovery): as long as no two programs that may
\* pause are at work at once.
THEOREM EffectsCharged == GovernorSpec /\ []OneAtWork(Pausing) => EffectIsCharged
<1> DEFINE Fine(r) ==
        /\ KindOf[r] = "reconcile" => OpenPause(ledger) = {}
        /\ LET work == Head(script[r])
               admissions == Recorded(ledger, {"admitted"}, work.transition,
                                      seen[r].version)
           IN  \E i \in Charges(ledger, work.budget) :
                   ledger[i].observationId \in
                       {Observation(r)} \union
                           {ledger[j].observationId : j \in admissions}
<1>1. ASSUME PaidInv, UnpausedInv, NEW r \in Run, Performing(r),
             KindOf[r] \in {"reconcile", "recover"}
      PROVE  Fine(r)
  <2> DEFINE s == script[r]
             v == seen[r].version
  <2>1. IsList(s) /\ s # << >> /\ s[1].op = "perform" /\ Head(s) = s[1] /\ 1 \in DOMAIN s
    <3>1. IsList(s) /\ s # << >>
      BY <1>1 DEF PaidInv, TurnInv, GovernorInv, GovernorTypeOK, Performing
    <3>2. QED
      BY <1>1, <3>1, ListTail DEF Performing
  <2>2. Performs(s, 1)
    BY <2>1 DEF Performs
  <2>3. Paid(r, ledger, v, s, 1)
    BY <1>1, <2>1, <2>2 DEF PaidInv, AllPaid
  <2>4. PICK i \in DOMAIN ledger :
            /\ ChargeOf(ledger[i], s[1].budget)
            /\ Payer(r, ledger, v, s[1].transition, ledger[i].observationId)
    BY <2>3 DEF Paid
  <2>5. i \in Charges(ledger, s[1].budget)
    BY <2>4 DEF Charges, ChargeOf
  <2>6. KindOf[r] = "reconcile" => OpenPause(ledger) = {}
    BY <1>1, <2>1, <2>2 DEF UnpausedInv, PauseFree
  <2>7. ledger[i].observationId \in
            {Observation(r)} \union
                {ledger[j].observationId :
                     j \in Recorded(ledger, {"admitted"}, s[1].transition, v)}
    BY <2>4 DEF Payer
  <2>8. QED
    BY <2>1, <2>5, <2>6, <2>7
<1>2. PaidInv /\ UnpausedInv =>
          \A r \in Run : Performing(r) /\ KindOf[r] \in {"reconcile", "recover"} => Fine(r)
  BY <1>1
<1>3. PaidInv => TurnInv
  BY DEF PaidInv
<1>4. GovernorSpec /\ []OneAtWork(Pausing) => []UnpausedInv
  BY <1>3, WorkIsPaid, UnpausedStart, UnpausedStep, PTL DEF GovernorSpec
<1>5. QED
  BY <1>2, <1>4, WorkIsPaid, PTL DEF EffectIsCharged

-----------------------------------------------------------------------------
(* Pauses, budgets and resumes                                             *)

\* How many attempts are numbered, and how many observations they charged.
LEMMA NumberedMeaning ==
    ASSUME NEW records, NEW budget \in Repair, NEW n \in Nat,
           Attempts(records, budget) = 1 .. n
    PROVE  Cardinality(Attempts(records, budget)) = n /\ Limit[budget] \in Nat
<1>1. Cardinality(1 .. n) = n
  <2>1. 1 \in Int /\ n \in Int
    OBVIOUS
  <2>2. Cardinality(1 .. n) = IF 1 > n THEN 0 ELSE n - 1 + 1
    BY <2>1, FS_Interval
  <2>3. QED
    BY <2>2
<1>2. Limit[budget] \in Nat
  BY GovernorAssumption DEF Repair, Budget
<1>3. QED
  BY <1>1, <1>2

\* The attempts of a budget stay numbered: its next attempt is the next
\* number, a resume starts again, and other records do not matter.
LEMMA NumberedGrows ==
    ASSUME NEW records, IsList(records), NEW y, NEW budget \in Repair,
           Numbered(records, budget), Timely(records, y),
           y.status = "started" => y.budgetTransition = "ci-repair"
    PROVE  Numbered(Append(records, y), budget)
<1> DEFINE longer == Append(records, y)
<1>1. PICK n \in 0 .. Limit[budget] :
          /\ Attempts(records, budget) = 1 .. n
          /\ IsFiniteSet(Charging(records, budget))
          /\ Cardinality(Charging(records, budget)) = n
  BY DEF Numbered
<1>2. n \in Nat /\ Limit[budget] \in Nat /\ Cardinality(Attempts(records, budget)) = n
  <2>1. Limit[budget] \in Nat
    BY GovernorAssumption DEF Repair, Budget
  <2>2. n \in Nat
    BY <2>1
  <2>3. QED
    BY <1>1, <2>1, <2>2, NumberedMeaning
<1>3. CASE y.status = "resumed"
  <2>1. Attempts(longer, budget) = {} /\ Charging(longer, budget) = {}
    BY <1>3, SpentGrows
  <2>2. {} = 1 .. 0 /\ IsFiniteSet({}) /\ Cardinality({}) = 0 /\ 0 \in 0 .. Limit[budget]
    BY <1>2, FS_EmptySet
  <2>3. QED
    BY <2>1, <2>2 DEF Numbered
<1>4. CASE y.status # "resumed" /\ ~ ChargeOf(y, budget)
  <2>1. Attempts(longer, budget) = Attempts(records, budget)
        /\ Charging(longer, budget) = Charging(records, budget)
    BY <1>4, SpentGrows
  <2>2. QED
    BY <1>1, <2>1 DEF Numbered
<1>5. CASE y.status # "resumed" /\ ChargeOf(y, budget)
  <2>1. /\ Attempts(longer, budget) = Attempts(records, budget) \union {y.attempt}
        /\ Charging(longer, budget) = Charging(records, budget) \union {y.observationId}
    BY <1>5, SpentGrows
  <2>2. y.status = "attempt" /\ y.transition = budget
    BY <1>5 DEF ChargeOf, Repair
  <2>3. /\ ~ (n >= Limit[budget]) /\ y.attempt = n + 1
        /\ y.observationId \notin Charging(records, budget)
    BY <1>2, <2>2 DEF Timely
  <2>4. n + 1 \in 0 .. Limit[budget] /\ (1 .. n) \union {n + 1} = 1 .. (n + 1)
    BY <1>2, <2>3
  <2>5. /\ IsFiniteSet(Charging(longer, budget))
        /\ Cardinality(Charging(longer, budget)) = n + 1
    BY <1>1, <2>1, <2>3, FS_AddElement
  <2>6. Attempts(longer, budget) = 1 .. (n + 1)
    BY <1>1, <2>1, <2>3, <2>4
  <2>7. QED
    BY <2>4, <2>5, <2>6 DEF Numbered
<1>6. QED
  BY <1>3, <1>4, <1>5

\* A record that others have decided on still fits after one that does not
\* concern it.
LEMMA TimelyGrows ==
    ASSUME NEW records, IsList(records), NEW y, NEW x, Timely(records, x),
           x.status = "resumed" => y.status \notin {"resumed", "paused"},
           Spends(x) /\ x.transition \in Repair =>
               y.status # "resumed" /\ ~ ChargeOf(y, x.transition)
    PROVE  Timely(Append(records, y), x)
<1> DEFINE longer == Append(records, y)
<1>1. ASSUME x.status = "resumed"
      PROVE  /\ OpenPause(longer) # {}
             /\ x.pausedObservationId = longer[Max(OpenPause(longer))].observationId
  <2>1. OpenPause(longer) = OpenPause(records) /\ OpenPause(records) \subseteq 1 .. Len(records)
    BY <1>1, PausesGrow
  <2>2. OpenPause(records) # {}
        /\ x.pausedObservationId = records[Max(OpenPause(records))].observationId
    BY <1>1 DEF Timely
  <2>3. Len(records) \in Nat
    BY ListShape
  <2>4. OpenPause(records) \subseteq 0 .. Len(records)
    BY <2>1, <2>3
  <2>5. Max(OpenPause(records)) \in 1 .. Len(records)
    BY <2>1, <2>2, <2>3, <2>4, MaxMember
  <2>6. longer[Max(OpenPause(records))] = records[Max(OpenPause(records))]
    BY <2>5, ListAppend
  <2>7. QED
    BY <2>1, <2>2, <2>6
<1>2. ASSUME Spends(x), x.transition \in Repair
      PROVE  /\ Attempts(longer, x.transition) = Attempts(records, x.transition)
             /\ Charging(longer, x.transition) = Charging(records, x.transition)
  BY <1>2, SpentGrows
<1> HIDE DEF longer
<1>3. Timely(longer, x)
  BY <1>1, <1>2 DEF Timely, Spends
<1>4. QED
  BY <1>3 DEF longer

\* A pause that stands at its place in the ledger is earned.
EarnedAt(records, i) ==
    LET before == SubSeq(records, 1, i - 1)
        epoch == ActiveRecords(before)
    IN  Cardinality({epoch[j].observationId : j \in Charges(epoch, records[i].transition)})
            >= Limit[records[i].transition]

\* What comes before a record stays before it.
LEMMA BeforeStays ==
    ASSUME NEW records, IsList(records), NEW y, NEW i \in 1 .. (Len(records) + 1)
    PROVE  SubSeq(Append(records, y), 1, i - 1) = SubSeq(records, 1, i - 1)
<1> DEFINE longer == Append(records, y)
           n == i - 1
           S == {records[k] : k \in DOMAIN records}
           T == {longer[k] : k \in DOMAIN longer}
<1>1. /\ IsList(longer) /\ Len(records) \in Nat /\ Len(longer) = Len(records) + 1
      /\ DOMAIN records = 1 .. Len(records) /\ DOMAIN longer = 1 .. (Len(records) + 1)
      /\ \A k \in 1 .. Len(records) : longer[k] = records[k]
  BY ListAppend, ListShape
<1>2. n \in Nat /\ n <= Len(records) /\ n <= Len(longer)
      /\ \A k \in 1 .. n : k \in 1 .. Len(records)
  BY <1>1
<1>3. longer \in Seq(T) /\ records \in Seq(S)
  BY <1>1 DEF IsList
<1> HIDE DEF longer, n, S, T
<1>4. SubSeq(longer, 1, n) = [k \in 1 .. n |-> longer[k]]
  BY <1>2, <1>3
<1>5. SubSeq(records, 1, n) = [k \in 1 .. n |-> records[k]]
  BY <1>2, <1>3
<1>6. SubSeq(longer, 1, n) = SubSeq(records, 1, n)
  BY <1>1, <1>2, <1>4, <1>5
<1>7. QED
  BY <1>6 DEF longer, n

\* The pauses stay earned when a pause is written that is.
LEMMA EarnedGrows ==
    ASSUME NEW records, IsList(records), NEW y, Timely(records, y),
           \A budget \in Repair : Numbered(records, budget),
           \A i \in DOMAIN records :
               records[i].status = "paused" /\ records[i].transition \in Repair
               => EarnedAt(records, i),
           NEW i \in DOMAIN Append(records, y), Append(records, y)[i].status = "paused",
           Append(records, y)[i].transition \in Repair
    PROVE  EarnedAt(Append(records, y), i)
<1> DEFINE longer == Append(records, y)
<1>1. /\ Len(records) \in Nat /\ DOMAIN records = 1 .. Len(records)
      /\ DOMAIN longer = 1 .. (Len(records) + 1)
      /\ \A k \in 1 .. Len(records) : longer[k] = records[k]
      /\ longer[Len(records) + 1] = y
  BY ListAppend, ListShape
<1>2. SubSeq(longer, 1, i - 1) = SubSeq(records, 1, i - 1)
  BY <1>1, BeforeStays
<1> HIDE DEF longer
<1>3. longer[i].status = "paused" /\ longer[i].transition \in Repair /\ i \in DOMAIN longer
  BY DEF longer
<1>4. CASE i \in 1 .. Len(records)
  <2>1. EarnedAt(records, i) /\ longer[i] = records[i]
    BY <1>1, <1>3, <1>4
  <2>2. EarnedAt(longer, i)
    BY <1>2, <2>1 DEF EarnedAt
  <2>3. QED
    BY <2>2 DEF longer
<1>5. CASE i = Len(records) + 1
  <2> DEFINE budget == y.transition
  <2>1. y.status = "paused" /\ budget \in Repair /\ longer[i] = y
    BY <1>1, <1>3, <1>5
  <2>2. SubSeq(records, 1, i - 1) = records
    <3>1. i - 1 = Len(records)
      BY <1>1, <1>5
    <3>2. records \in Seq({records[k] : k \in DOMAIN records})
      BY DEF IsList
    <3>3. SubSeq(records, 1, Len(records)) = records
      BY <3>2
    <3>4. QED
      BY <3>1, <3>3
  <2>3. PICK n \in 0 .. Limit[budget] :
            /\ Attempts(records, budget) = 1 .. n
            /\ Cardinality(Charging(records, budget)) = n
    BY <2>1 DEF Numbered
  <2>4. Limit[budget] \in Nat
    BY <2>1, GovernorAssumption DEF Repair, Budget
  <2>5. Cardinality(Attempts(records, budget)) = n /\ n \in Nat
    BY <2>1, <2>3, <2>4, NumberedMeaning
  <2>6. Cardinality(Attempts(records, budget)) >= Limit[budget]
    BY <2>1 DEF Timely
  <2>7. Cardinality(Charging(records, budget)) >= Limit[budget]
    BY <2>3, <2>5, <2>6
  <2>8. LET epoch == ActiveRecords(records)
        IN  {epoch[j].observationId : j \in Charges(epoch, budget)} = Charging(records, budget)
    BY ChargesMeaning
  <2> HIDE DEF budget
  <2>9. EarnedAt(longer, i)
    BY <1>2, <2>1, <2>2, <2>7, <2>8 DEF EarnedAt, budget
  <2>10. QED
    BY <2>9 DEF longer
<1>6. QED
  BY <1>1, <1>3, <1>4, <1>5

\* What the invariant says of the ledger alone.
LedgerInv(records) ==
    /\ EpochReadable(records)
    /\ \A budget \in Repair : Numbered(records, budget)
    /\ \A i \in DOMAIN records :
          records[i].status = "paused" /\ records[i].transition \in Repair
          => EarnedAt(records, i)

\* A record that fits keeps it.
LEMMA LedgerGrows ==
    ASSUME NEW records, IsList(records), NEW y, LedgerInv(records), Timely(records, y),
           y.status = "started" => y.budgetTransition = "ci-repair"
    PROVE  LedgerInv(Append(records, y))
<1>1. EpochReadable(Append(records, y))
  BY ReadableGrows DEF LedgerInv, Timely
<1>2. \A budget \in Repair : Numbered(Append(records, y), budget)
  BY NumberedGrows DEF LedgerInv
<1>3. \A i \in DOMAIN Append(records, y) :
          Append(records, y)[i].status = "paused" /\ Append(records, y)[i].transition \in Repair
          => EarnedAt(Append(records, y), i)
  BY EarnedGrows DEF LedgerInv
<1>4. QED
  BY <1>1, <1>2, <1>3 DEF LedgerInv

\* A record another run has still to write fits the ledger.
Ready(x) ==
    /\ Timely(ledger, x)
    /\ Spends(x) /\ ~ NobodyAnswers => OpenPause(ledger) = {}

\* The invariant, in these words.
LEMMA ApartMeaning ==
    ApartInv <=> LedgerInv(ledger) /\ \A r \in Run : \A x : Pending(r, x) => Ready(x)
BY DEF ApartInv, LedgerInv, LedgerReadable, PauseIsEarned, EarnedAt, Ready

\* A record that changes nothing others decide on fits any ledger.
LEMMA QuietFits ==
    ASSUME NEW y, ~ Turning(y), NEW records
    PROVE  Timely(records, y) /\ (y.status = "started" => y.budgetTransition = "ci-repair")
BY DEF Turning, Timely

\* A pending record of another run still fits when this one is written, as
\* long as the two programs take turns.
LEMMA OthersReady ==
    ASSUME TurnInv, ApartInv, Apart, NEW r \in Run, NEW s \in Run, r # s,
           script[r] # << >>, NEW y, OfProgram(r, y), Ready(y),
           NEW x, Pending(s, x)
    PROVE  /\ Timely(Append(ledger, y), x)
           /\ Spends(x) /\ ~ NobodyAnswers => OpenPause(Append(ledger, y)) = {}
<1>1. /\ IsList(ledger) /\ GovernorTypeOK /\ OneReconciliation
      /\ TurnOk(s) /\ Timely(ledger, x)
      /\ Spends(x) /\ ~ NobodyAnswers => OpenPause(ledger) = {}
  BY ApartMeaning DEF TurnInv, GovernorInv, GovernorTypeOK, Ready
<1>2. OfProgram(s, x) /\ script[s] # << >>
  BY <1>1 DEF TurnOk, Pending
<1>3. pc[r] = "acting" /\ pc[s] = "acting"
  BY <1>1, <1>2, AtWork
<1>4. ~ (KindOf[r] = "reconcile" /\ KindOf[s] = "reconcile")
  BY <1>1, <1>3 DEF OneReconciliation, Active
<1>5. KindOf[r] \in Answering => ~ NobodyAnswers
  BY DEF NobodyAnswers
<1>6. KindOf[s] \in Answering => ~ NobodyAnswers
  BY DEF NobodyAnswers
<1>7. ~ NobodyAnswers => /\ ~ (KindOf[r] \in Pausing /\ KindOf[s] \in Pausing)
                         /\ ~ (KindOf[r] \in Answering /\ KindOf[s] \in Answering)
  BY <1>3 DEF Apart, OneAtWork
<1>8. y.status = "paused" => Spends(y) /\ KindOf[r] \in Pausing
  BY DEF Spends, OfProgram
<1>9. y.status = "resumed" => KindOf[r] \in Answering /\ OpenPause(ledger) # {}
  BY DEF OfProgram, Ready, Timely
<1>10. ASSUME x.status = "resumed" PROVE y.status \notin {"resumed", "paused"}
  <2>1. KindOf[s] \in Answering /\ OpenPause(ledger) # {} /\ ~ NobodyAnswers
    BY <1>1, <1>2, <1>6, <1>10 DEF OfProgram, Timely
  <2>2. y.status # "resumed"
    BY <1>7, <1>9, <2>1
  <2>3. y.status # "paused"
    BY <1>8, <2>1 DEF Ready
  <2>4. QED
    BY <2>2, <2>3
<1>11. ASSUME Spends(x) PROVE y.status # "resumed"
  BY <1>1, <1>5, <1>9, <1>11
<1>12. ASSUME Spends(x), x.transition \in Repair PROVE ~ ChargeOf(y, x.transition)
  <2>1. KindOf[s] = "reconcile"
    BY <1>2, <1>12 DEF OfProgram
  <2>2. KindOf[r] # "reconcile"
    BY <1>4, <2>1
  <2>3. ~ (Spends(y) /\ y.transition = x.transition)
    BY <1>12, <2>2 DEF OfProgram
  <2>4. y.status = "started" => y.budgetTransition \notin Repair
    BY DEF OfProgram, Repair
  <2>5. QED
    BY <1>12, <2>3, <2>4 DEF ChargeOf, Spends
<1>13. Timely(Append(ledger, y), x)
  BY <1>1, <1>10, <1>11, <1>12, TimelyGrows
<1>14. ASSUME Spends(x), ~ NobodyAnswers PROVE OpenPause(Append(ledger, y)) = {}
  <2>1. OpenPause(ledger) = {} /\ KindOf[s] \in Pausing
    BY <1>1, <1>2, <1>14 DEF OfProgram
  <2>2. y.status # "paused"
    BY <1>7, <1>8, <1>14, <2>1
  <2>3. QED
    BY <1>1, <1>11, <1>14, <2>1, <2>2, PausesGrow
<1>15. QED
  BY <1>13, <1>14

\* Its own later records still fit when a run writes this one.
LEMMA RestReady ==
    ASSUME TurnInv, ApartInv, NEW r \in Run, script[r] # << >>, Writes(script[r], 1),
           NEW k \in DOMAIN Tail(script[r]), Turns(Tail(script[r]), k)
    PROVE  LET y == script[r][1].record
               x == Tail(script[r])[k].record
           IN  /\ Timely(Append(ledger, y), x)
               /\ Spends(x) /\ ~ NobodyAnswers => OpenPause(Append(ledger, y)) = {}
<1> DEFINE s == script[r]
           rest == Tail(s)
           y == s[1].record
           x == rest[k].record
<1>1. IsList(ledger) /\ TurnOk(r) /\ IsList(s)
  BY DEF TurnInv, GovernorInv, GovernorTypeOK
<1>2. /\ 1 \in DOMAIN s /\ k + 1 \in DOMAIN s /\ rest[k] = s[k + 1]
  BY <1>1, RestElements
<1>3. Turns(s, 1) => ~ Turns(rest, k)
  BY <1>1, TurnRest DEF TurnOk
<1>4. ~ Turning(y)
  BY <1>3 DEF Turns
<1>5. Turns(s, k + 1) /\ s[k + 1].record = x
  BY <1>2 DEF Turns, Writes
<1>6. Ready(x)
  BY <1>2, <1>5, ApartMeaning DEF Pending
<1> HIDE DEF x, y
<1>7. Timely(ledger, x)
      /\ (Spends(x) /\ ~ NobodyAnswers => OpenPause(ledger) = {})
  BY <1>6 DEF Ready
<1>8. y.status \notin {"attempt", "paused", "started", "resumed"}
  BY <1>4 DEF Turning
<1>9. Timely(Append(ledger, y), x)
  BY <1>1, <1>7, <1>8, TimelyGrows DEF ChargeOf
<1>10. OpenPause(Append(ledger, y)) = OpenPause(ledger)
  BY <1>1, <1>8, PausesGrow
<1>11. QED
  BY <1>7, <1>9, <1>10 DEF x, y

\* While programs take turns every step keeps what they have decided standing.
LEMMA ApartStep ==
    ASSUME TurnInv, ApartInv, Apart, [GovernorNext]_vars
    PROVE  ApartInv'
<1>1. /\ GovernorInv /\ IsList(ledger) /\ GovernorTypeOK /\ \A s \in Run : TurnOk(s)
      /\ LedgerInv(ledger) /\ \A s \in Run : \A x : Pending(s, x) => Ready(x)
  BY ApartMeaning DEF TurnInv, GovernorInv, GovernorTypeOK
<1>2. Run' = Run /\ KindOf' = KindOf /\ NobodyAnswers' = NobodyAnswers
  BY <1>1, StepFacts DEF NobodyAnswers
<1> DEFINE Still(x) ==
        /\ Timely(ledger', x)
        /\ Spends(x) /\ ~ NobodyAnswers => OpenPause(ledger') = {}
<1>3. ASSUME LedgerInv(ledger'),
             \A s \in Run : \A k \in DOMAIN script'[s] :
                 Turns(script'[s], k) => Still(script'[s][k].record)
      PROVE  ApartInv'
  <2>1. \A s \in Run : \A x : Pending(s, x)' => Ready(x)'
    BY <1>2, <1>3 DEF Pending, Ready
  <2>2. LedgerInv(ledger)'
    BY <1>3 DEF LedgerInv, EarnedAt, Numbered
  <2>3. LedgerReadable' /\ (\A budget \in Repair : Numbered(ledger, budget))'
    BY <2>2 DEF LedgerInv, LedgerReadable
  <2>4. PauseIsEarned'
    BY <2>2 DEF LedgerInv, PauseIsEarned, EarnedAt
  <2>5. QED
    BY <1>2, <2>1, <2>3, <2>4 DEF ApartInv, Ready
<1>4. ASSUME NEW s \in Run, NEW k \in DOMAIN script[s], Turns(script[s], k), ledger' = ledger
      PROVE  Still(script[s][k].record)
  BY <1>1, <1>4 DEF Pending, Ready
<1>5. CASE ledger' = ledger /\ \A s \in Run : Kept(s)
  <2>1. LedgerInv(ledger')
    BY <1>1, <1>5
  <2>2. \A s \in Run : \A k \in DOMAIN script'[s] :
            Turns(script'[s], k) => Still(script'[s][k].record)
    BY <1>4, <1>5 DEF Kept
  <2>3. QED
    BY <1>3, <2>1, <2>2
<1>6. ASSUME NEW r \in Run, ledger' = ledger, \A s \in Run \ {r} : Kept(s),
             \A k \in DOMAIN script'[r] :
                 Turns(script'[r], k) => Still(script'[r][k].record)
      PROVE  ApartInv'
  <2>1. LedgerInv(ledger')
    BY <1>1, <1>6
  <2>2. \A s \in Run : \A k \in DOMAIN script'[s] :
            Turns(script'[s], k) => Still(script'[s][k].record)
    BY <1>4, <1>6 DEF Kept
  <2>3. QED
    BY <1>3, <2>1, <2>2
<1>7. ASSUME NEW r \in Run, Drops(r), \A s \in Run \ {r} : Kept(s) PROVE ApartInv'
  <2>1. DOMAIN script'[r] = {}
    BY <1>7 DEF Drops
  <2>2. QED
    BY <1>6, <1>7, <2>1 DEF Drops
<1>8. ASSUME NEW r \in Run, Decides(r), \A s \in Run \ {r} : Kept(s) PROVE ApartInv'
  <2>1. TurnFits(r, Script(r))
    BY <1>1, RunKinds, ScriptTurns
  <2>2. script'[r] = Script(r) /\ ledger' = ledger
    BY <1>8 DEF Decides
  <2>3. \A k \in DOMAIN script'[r] :
            Turns(script'[r], k) => Still(script'[r][k].record)
    BY <2>1, <2>2 DEF TurnFits
  <2>4. QED
    BY <1>6, <1>8, <2>2, <2>3
<1>9. ASSUME NEW r \in Run, Sends(r), \A s \in Run \ {r} : Kept(s) PROVE ApartInv'
  <2> DEFINE a == script[r]
             rest == Tail(a)
             y == a[1].record
  <2>1. /\ a # << >> /\ IsList(a) /\ script'[r] = rest /\ 1 \in DOMAIN a
        /\ \A k \in DOMAIN rest : k + 1 \in DOMAIN a /\ rest[k] = a[k + 1]
    BY <1>1, <1>9, RestElements DEF Sends, GovernorTypeOK
  <2>2. CASE ~ Writes(a, 1)
    <3>1. ledger' = ledger
      BY <1>9, <2>2 DEF Sends
    <3> HIDE DEF rest
    <3>2. ASSUME NEW k \in DOMAIN rest, Turns(rest, k) PROVE Still(rest[k].record)
      <4>1. Turns(a, k + 1) /\ k + 1 \in DOMAIN a /\ rest[k] = a[k + 1]
        BY <2>1, <3>2 DEF Turns, Writes
      <4>2. Still(a[k + 1].record)
        BY <1>4, <3>1, <4>1
      <4>3. QED
        BY <4>1, <4>2
    <3>3. QED
      BY <1>6, <1>9, <2>1, <3>1, <3>2
  <2>3. CASE Writes(a, 1)
    <3>1. ledger' = Append(ledger, y)
      BY <1>9, <2>3 DEF Sends
    <3>2. OfProgram(r, y) /\ Ready(y)
      <4>1. CASE Turning(y)
        <5>1. Turns(a, 1)
          BY <2>3, <4>1 DEF Turns
        <5>2. QED
          BY <1>1, <2>1, <5>1 DEF TurnOk, Pending
      <4>2. CASE ~ Turning(y)
        BY <4>2 DEF Turning, OfProgram, Ready, Timely, Spends
      <4>3. QED
        BY <4>1, <4>2
    <3>3. LedgerInv(ledger')
      BY <1>1, <3>1, <3>2, LedgerGrows DEF OfProgram, Ready
    <3>4. \A k \in DOMAIN rest : Turns(rest, k) => Still(rest[k].record)
      BY <2>1, <2>3, <3>1, RestReady
    <3>5. ASSUME NEW s \in Run, s # r, NEW k \in DOMAIN script[s], Turns(script[s], k)
          PROVE  Still(script[s][k].record)
      <4>1. Pending(s, script[s][k].record)
        BY <3>5 DEF Pending
      <4> HIDE DEF y
      <4>2. QED
        BY <2>1, <3>1, <3>2, <3>5, <4>1, OthersReady
    <3>6. \A s \in Run \ {r} : script'[s] = script[s]
      BY <1>9 DEF Kept
    <3> HIDE DEF rest, y
    <3>7. \A s \in Run : \A k \in DOMAIN script'[s] :
              Turns(script'[s], k) => Still(script'[s][k].record)
      BY <2>1, <3>4, <3>5, <3>6
    <3>8. QED
      BY <1>3, <3>3, <3>7
  <2>4. QED
    BY <2>2, <2>3
<1>10. QED
  BY <1>1, <1>5, <1>7, <1>8, <1>9, StepFacts

\* At the start the ledger is empty and nobody has decided anything.
LEMMA ApartStart == GovernorInit => ApartInv
<1> SUFFICES ASSUME GovernorInit PROVE ApartInv
  OBVIOUS
<1>1. ledger = << >> /\ DOMAIN ledger = {} /\ \A r \in Run : DOMAIN script[r] = {}
  BY DEF GovernorInit
<1>2. EpochReadable(ledger)
  BY <1>1 DEF EpochReadable
<1>3. ASSUME NEW budget \in Repair PROVE Numbered(ledger, budget)
  <2>1. Attempts(ledger, budget) = {} /\ Charging(ledger, budget) = {}
    BY <1>1 DEF Attempts, Charging, Spent
  <2>2. {} = 1 .. 0 /\ IsFiniteSet({}) /\ Cardinality({}) = 0
    BY FS_EmptySet
  <2>3. 0 \in 0 .. Limit[budget]
    BY GovernorAssumption DEF Repair, Budget
  <2>4. QED
    BY <2>1, <2>2, <2>3 DEF Numbered
<1>4. LedgerInv(ledger)
  BY <1>1, <1>2, <1>3 DEF LedgerInv
<1>5. \A r \in Run : \A x : ~ Pending(r, x)
  BY <1>1 DEF Pending
<1>6. QED
  BY <1>4, <1>5, ApartMeaning

\* While programs take turns, what they have decided stands until it is sent.
THEOREM DecisionsStand == GovernorSpec /\ []Apart => []ApartInv
BY OneTurnEach, ApartStart, ApartStep, PTL DEF GovernorSpec

\* Every later run can read the ledger: each resume answers the pause that is
\* open where it stands (activeGovernorEpoch), as long as programs that may
\* pause, and those that may answer a pause, take turns or nobody answers.
THEOREM LedgerStaysReadable == GovernorSpec /\ []Apart => []LedgerReadable
<1>1. ApartInv => LedgerReadable
  BY DEF ApartInv
<1>2. QED
  BY <1>1, DecisionsStand, PTL

\* The repairs of an epoch charge no more observations than the limit
\* (governorBudgetDecision), under the same condition.
THEOREM RepairsStayBounded == GovernorSpec /\ []Apart => []RepairsBounded
<1>1. ASSUME ApartInv, IsList(ledger), NEW budget \in Repair
      PROVE  Cardinality(Charged(budget)) <= Limit[budget]
  <2>1. PICK n \in 0 .. Limit[budget] : Cardinality(Charging(ledger, budget)) = n
    BY <1>1 DEF ApartInv, Numbered
  <2>2. Charged(budget) = Charging(ledger, budget)
    BY <1>1, ChargesMeaning DEF Charged
  <2>3. Limit[budget] \in Nat
    BY GovernorAssumption DEF Repair, Budget
  <2>4. QED
    BY <2>1, <2>2, <2>3
<1>2. ApartInv /\ GovernorInv => RepairsBounded
  BY <1>1 DEF RepairsBounded, GovernorInv, GovernorTypeOK
<1>3. QED
  BY <1>2, DecisionsStand, GovernorInvariant, PTL

\* As many attempts as the budget allows precede a pause of repairs in its own
\* epoch (governorBudgetDecision), under the same condition.
THEOREM PausesEarned == GovernorSpec /\ []Apart => []PauseIsEarned
<1>1. ApartInv => PauseIsEarned
  BY DEF ApartInv
<1>2. QED
  BY <1>1, DecisionsStand, PTL

-----------------------------------------------------------------------------
(* Who keeps programs apart                                                *)

\* A run that moves is active afterwards only if it was before.
LEMMA MoveLane ==
    ASSUME GovernorTypeOK, OnePerLane, plan' = plan, NEW r \in Run, NEW location \in Location,
           NEW observed, NEW requests, Move(r, location, observed, requests),
           \/ location = "ended" \/ Active(r)
           \/ \A s \in Run : Active(s) => Lane(s) # Lane(r)
    PROVE  OnePerLane'
<1>1. /\ pc \in [Run -> Location] /\ pc' = [pc EXCEPT ![r] = location]
  BY DEF GovernorTypeOK, Move
<1>2. Run' = Run
  BY DEF Run
<1>3. \A s \in Run : Lane(s)' = Lane(s)
  BY DEF Lane, KindOf, Trigger
<1>4. \A s \in Run \ {r} : Active(s)' <=> Active(s)
  BY <1>1 DEF Active
<1>5. Active(r)' => location # "ended"
  BY <1>1 DEF Active
<1>6. ASSUME NEW s \in Run, NEW q \in Run, Active(s)', Active(q)', Lane(s) = Lane(q)
      PROVE  s = q
  <2>1. CASE s # r /\ q # r
    BY <1>4, <1>6, <2>1 DEF OnePerLane
  <2>2. CASE s = r /\ q # r
    BY <1>4, <1>5, <1>6, <2>2 DEF OnePerLane
  <2>3. CASE s # r /\ q = r
    BY <1>4, <1>5, <1>6, <2>3 DEF OnePerLane
  <2>4. QED
    BY <2>1, <2>2, <2>3
<1>7. QED
  BY <1>2, <1>3, <1>6 DEF OnePerLane

\* A run starts only in a group where no other is active.
LEMMA LaneStep ==
    ASSUME GovernorInv, OnePerLane, [GovernorNext]_vars
    PROVE  OnePerLane' /\ plan' = plan
<1>1. GovernorTypeOK
  BY DEF GovernorInv
<1>2. plan' = plan
  BY DEF GovernorNext, vars
<1>3. CASE pc' = pc
  <2>1. Run' = Run /\ \A s \in Run : Lane(s)' = Lane(s)
    BY <1>2 DEF Run, Lane, KindOf, Trigger
  <2>2. QED
    BY <1>2, <1>3, <2>1 DEF OnePerLane, Active
<1>4. ASSUME NEW r \in Run, ReadPullRequest(r) PROVE OnePerLane'
  <2>1. \E location \in {"ended", "picking", "deciding"} : \E observed, requests :
            Move(r, location, observed, requests)
    BY <1>4 DEF ReadPullRequest, End
  <2>2. \A s \in Run : Active(s) => Lane(s) # Lane(r)
    BY <1>4 DEF ReadPullRequest
  <2>3. QED
    BY <1>1, <1>2, <2>1, <2>2, MoveLane DEF Location
<1>5. ASSUME NEW r \in Run, PickRepair(r) \/ Decide(r) \/ Send(r) \/ Die(r)
      PROVE  OnePerLane'
  <2>1. Active(r)
    BY <1>5 DEF PickRepair, Decide, Send, Die, Active
  <2>2. \E location \in {"ended", "deciding", "acting"} : \E observed, requests :
            Move(r, location, observed, requests)
    BY <1>5 DEF PickRepair, Decide, Send, Die, Act, End
  <2>3. QED
    BY <1>1, <1>2, <2>1, <2>2, MoveLane DEF Location
<1>6. QED
  BY <1>2, <1>3, <1>4, <1>5 DEF GovernorNext, ChangePullRequest, vars

\* At most one run of a concurrency group is active.
THEOREM OneOfAGroup == GovernorSpec => []OnePerLane
<1>1. GovernorInit => OnePerLane
  BY DEF GovernorInit, OnePerLane, Active
<1>2. GovernorInv /\ OnePerLane /\ [GovernorNext]_vars => OnePerLane'
  BY LaneStep
<1>3. QED
  BY <1>1, <1>2, GovernorInvariant, PTL DEF GovernorSpec

\* Who meets on a pull request and in which groups does not change.
LEMMA GroupsStay ==
    ASSUME [GovernorNext]_vars
    PROVE  /\ Serialized => Serialized'
           /\ InTurn(Pausing) => InTurn(Pausing)'
<1>1. plan' = plan
  BY DEF GovernorNext, vars
<1>2. Run' = Run /\ KindOf' = KindOf /\ \A s \in Run : Lane(s)' = Lane(s)
  BY <1>1 DEF Run, KindOf, Lane, Trigger
<1>3. QED
  BY <1>2 DEF Serialized, NobodyAnswers, InTurn

\* When one group holds all programs that may pause and one all that may
\* answer a pause, or nobody answers, programs take turns.
THEOREM GroupsKeepApart ==
    /\ GovernorSpec /\ Serialized => []Apart
    /\ GovernorSpec /\ InTurn(Pausing) => []OneAtWork(Pausing)
<1>1. OnePerLane /\ Serialized => Apart
  BY DEF OnePerLane, Serialized, Apart, InTurn, OneAtWork, Active
<1>2. OnePerLane /\ InTurn(Pausing) => OneAtWork(Pausing)
  BY DEF OnePerLane, InTurn, OneAtWork, Active
<1>3. GovernorSpec /\ Serialized => []Serialized
  BY GroupsStay, PTL DEF GovernorSpec
<1>4. GovernorSpec /\ InTurn(Pausing) => []InTurn(Pausing)
  BY GroupsStay, PTL DEF GovernorSpec
<1>5. QED
  BY <1>1, <1>2, <1>3, <1>4, OneOfAGroup, PTL

\* For such programs the ledger stays readable, repairs stay within their
\* budgets and pauses are earned, and what is dispatched is charged, whatever
\* else meets on the pull request.
THEOREM InGroups ==
    /\ GovernorSpec /\ Serialized => [](LedgerReadable /\ RepairsBounded /\ PauseIsEarned)
    /\ GovernorSpec /\ InTurn(Pausing) => EffectIsCharged
BY GroupsKeepApart, LedgerStaysReadable, RepairsStayBounded, PausesEarned, EffectsCharged, PTL

=============================================================================

-------------------------- MODULE GovernanceProofs --------------------------
(***************************************************************************)
(* What the history of a contribution proves about it, for every set of     *)
(* requests, actors and times and histories of any length.  The inductive   *)
(* invariant remembers of each transition the rules that let it pass, and   *)
(* that whatever is implemented was reviewed or routed before.              *)
(***************************************************************************)
EXTENDS Governance, TLAPS

\* What was true of a transition when it was applied.
Legal(rec, i) ==
  LET t == rec.history[i] IN
  /\ t.to \in Allowed[t.from]
  /\ t.to = "published" /\ rec.request.highImpact => t.actor # rec.request.requestedBy
  /\ t.to = "product_specific_exception" => rec.request.expiresAt > t.at

LegalSteps == \A i \in Steps : Legal(record, i)

Vets(rec, i) ==
  \/ rec.history[i].to = "design_review"
  \/ /\ rec.history[i].to = "product_specific_exception"
     /\ rec.request.expiresAt > rec.history[i].at

UnderWay == {"implementation", "verification", "published", "deprecated"}

VettedBefore ==
  \A i \in Steps : Step(i).to \in UnderWay => \E j \in 1..i : Vets(record, j)

IInv == TypeOK /\ HistoryExplainsState /\ LegalSteps /\ VettedBefore

----------------------------------------------------------------------------
(* The rules behind a transition that is applied.                           *)
LEMMA OutcomeFacts ==
  ASSUME TypeOK, NEW t \in Transition, Outcome(record, t) = "ok"
  PROVE  /\ t.from = record.state
         /\ t.to \in Allowed[record.state]
         /\ t.to = "published" /\ record.request.highImpact
              => t.actor # record.request.requestedBy
         /\ t.to = "product_specific_exception" => record.request.expiresAt > t.at
  <1>1. /\ t.from = record.state
        /\ t.to \in Allowed[record.state]
        /\ ~SelfPublish(record, t)
        /\ t.to = "product_specific_exception" =>
             record.request.expiresAt # Absent /\ ~Dead(record, t)
    BY DEF Outcome
  <1>2. t.at \in Nat /\ record.request.expiresAt \in Nat \union {Absent}
    BY GovernanceAssumption DEF TypeOK, Transition
  <1> QED BY <1>1, <1>2 DEF SelfPublish, Dead, Absent

(* The states an allowed transition can lead from.                          *)
LEMMA AllowedFacts ==
  ASSUME NEW from \in State, NEW to \in Allowed[from]
  PROVE  /\ to # "proposed" /\ to \in State
         /\ from \notin {"rejected", "deprecated"}
         /\ from = "published" => to = "deprecated"
         /\ to = "published" => from = "verification"
         /\ to \in UnderWay =>
              from \in UnderWay \union {"design_review", "product_specific_exception"}
  BY DEF State, Allowed, UnderWay

(* A proposed contribution satisfies the invariant.                         *)
THEOREM InitIInv == ASSUME Init PROVE IInv
  <1>1. PICK r \in Requests :
          record = [request |-> r, state |-> "proposed", history |-> <<>>]
    BY DEF Init
  <1>2. Steps = {}
    BY <1>1 DEF Steps
  <1>3. TypeOK
    BY <1>1, GovernanceAssumption DEF TypeOK, State
  <1> QED BY <1>1, <1>2, <1>3 DEF IInv, HistoryExplainsState, LegalSteps, VettedBefore

(* Every transition, applied or refused, keeps the invariant.               *)
THEOREM StepIInv == ASSUME IInv, [Next]_record PROVE IInv'
  <1> USE DEF IInv
  <1>1. ASSUME NEW t \in Transition, Apply(t) PROVE IInv'
    <2> DEFINE n == Len(record.history)
               k == n + 1
    <2>1. /\ record \in [request : Requests, state : State, history : Seq(Transition)]
          /\ n \in Nat /\ n < MaxHistory
      BY <1>1 DEF TypeOK, Apply
    <2>2. /\ record'.request = record.request
          /\ record'.state = t.to
          /\ record'.history = Append(record.history, t)
          /\ record' = [request |-> record.request, state |-> t.to,
                        history |-> Append(record.history, t)]
      BY <1>1, <2>1 DEF Apply
    <2>3. /\ Len(record'.history) = k
          /\ \A i \in 1..n : record'.history[i] = record.history[i]
          /\ record'.history[k] = t
          /\ DOMAIN record'.history = 1..k /\ DOMAIN record.history = 1..n
          /\ record'.history # <<>>
      BY <2>1, <2>2
    <2>4. /\ t.from = record.state
          /\ t.to \in Allowed[record.state]
          /\ t.to = "published" /\ record.request.highImpact
               => t.actor # record.request.requestedBy
          /\ t.to = "product_specific_exception" => record.request.expiresAt > t.at
      BY <1>1, OutcomeFacts DEF Apply
    <2>5. record.state \in State /\ t.from \in State
      BY <2>1 DEF Transition
    <2>6. t.to # "proposed" /\ t.to \in State
      BY <2>4, <2>5, AllowedFacts
    <2>7. TypeOK'
      <3>1. record' \in [request : Requests, state : State, history : Seq(Transition)]
        BY <2>1, <2>2, <2>6
      <3>2. Len(record'.history) <= MaxHistory
        BY <2>1, <2>3, GovernanceAssumption
      <3> QED BY <2>2, <2>3, <2>6, <3>1, <3>2 DEF TypeOK
    <2>8. t.from = IF k = 1 THEN "proposed" ELSE record.history[n].to
      BY <2>1, <2>3, <2>4 DEF HistoryExplainsState, Last, Steps
    <2>9. HistoryExplainsState'
      <3>1. ASSUME NEW i \in 1..k
            PROVE  record'.history[i].from =
                     IF i = 1 THEN "proposed" ELSE record'.history[i - 1].to
        <4>1. CASE i = k
          BY <2>1, <2>3, <2>8, <4>1
        <4>2. CASE i \in 1..n
          <5>1. record.history[i].from =
                  IF i = 1 THEN "proposed" ELSE record.history[i - 1].to
            BY <2>3, <4>2 DEF HistoryExplainsState, Steps, Step
          <5> QED BY <2>1, <2>3, <4>2, <5>1
        <4> QED BY <2>1, <4>1, <4>2
      <3>2. record'.state = Last(record'.history).to /\ Steps' # {}
        BY <2>1, <2>2, <2>3 DEF Last, Steps
      <3> QED BY <2>3, <3>1, <3>2 DEF HistoryExplainsState, Steps, Step
    <2>10. LegalSteps'
      <3>1. ASSUME NEW i \in 1..k PROVE Legal(record', i)
        <4>1. CASE i = k
          BY <2>2, <2>3, <2>4, <4>1 DEF Legal
        <4>2. CASE i \in 1..n
          <5>1. Legal(record, i)
            BY <2>3, <4>2 DEF LegalSteps, Steps
          <5> QED BY <2>2, <2>3, <4>2, <5>1 DEF Legal
        <4> QED BY <2>1, <4>1, <4>2
      <3> QED BY <2>3, <3>1 DEF LegalSteps, Steps
    <2>11. VettedBefore'
      <3>1. ASSUME NEW i \in 1..k, record'.history[i].to \in UnderWay
            PROVE  \E j \in 1..i : Vets(record', j)
        <4>1. ASSUME NEW l \in 1..n, record.history[l].to \in UnderWay, l <= i
              PROVE  \E j \in 1..i : Vets(record', j)
          <5>1. PICK j \in 1..l : Vets(record, j)
            BY <2>3, <4>1 DEF VettedBefore, Steps, Step
          <5>2. Vets(record', j) /\ j \in 1..i
            BY <2>1, <2>2, <2>3, <4>1, <5>1 DEF Vets
          <5> QED BY <5>2
        <4>2. CASE i \in 1..n
          BY <2>1, <2>3, <3>1, <4>1, <4>2
        <4>3. CASE i = k
          <5>1. t.from \in UnderWay \union {"design_review", "product_specific_exception"}
            BY <2>3, <2>4, <2>5, <3>1, <4>3, AllowedFacts
          <5>2. n >= 1 /\ t.from = record.history[n].to
            BY <2>1, <2>8, <5>1 DEF UnderWay
          <5>3. CASE t.from \in UnderWay
            BY <2>1, <4>1, <4>3, <5>2, <5>3
          <5>4. CASE t.from \in {"design_review", "product_specific_exception"}
            <6>1. Legal(record, n)
              BY <2>1, <2>3, <5>2 DEF LegalSteps, Steps
            <6>2. Vets(record, n)
              BY <5>2, <5>4, <6>1 DEF Vets, Legal
            <6>3. Vets(record', n)
              BY <2>1, <2>2, <2>3, <5>2, <6>2 DEF Vets
            <6> QED BY <2>1, <4>3, <5>2, <6>3
          <5> QED BY <5>1, <5>3, <5>4
        <4> QED BY <2>1, <4>2, <4>3
      <3> QED BY <2>3, <3>1 DEF VettedBefore, Steps, Step
    <2> QED BY <2>7, <2>9, <2>10, <2>11
  <1>2. CASE UNCHANGED record
    BY <1>2 DEF TypeOK, HistoryExplainsState, LegalSteps, VettedBefore, Steps, Step
  <1> QED BY <1>1, <1>2 DEF Next, Refuse

----------------------------------------------------------------------------
(* A publication was prepared by the steps before it.                       *)
LEMMA PublicationFacts == ASSUME IInv PROVE PublishedProperly
  <1> DEFINE n == Len(record.history)
  <1>1. n \in Nat /\ Steps = 1..n /\ record.history \in Seq(Transition)
    BY DEF IInv, TypeOK, Steps
  <1>2. SUFFICES ASSUME NEW i \in Steps, Step(i).to = "published"
        PROVE  /\ record.request.highImpact => Step(i).actor # record.request.requestedBy
               /\ i > 1 /\ Step(i - 1).to = "verification"
               /\ \E j \in 1..(i - 1) : Vets(record, j)
    BY DEF PublishedProperly, Vets, Step
  <1>3. Legal(record, i) /\ Step(i) \in Transition
    BY <1>1, <1>2 DEF IInv, LegalSteps, Step
  <1>4. Step(i).from = "verification"
    BY <1>2, <1>3, AllowedFacts DEF Legal, Step, Transition
  <1>5. i > 1 /\ Step(i - 1).to = "verification"
    BY <1>1, <1>2, <1>4 DEF IInv, HistoryExplainsState
  <1>6. PICK j \in 1..i : Vets(record, j)
    BY <1>2 DEF IInv, VettedBefore, UnderWay
  <1>7. j # i
    BY <1>2, <1>6 DEF Vets, Step
  <1> QED BY <1>1, <1>2, <1>3, <1>5, <1>6, <1>7 DEF Legal, Step

(* Nothing follows a transition to a terminal state.                        *)
LEMMA FinalityFacts == ASSUME IInv PROVE FinalMeansFinal
  <1> DEFINE n == Len(record.history)
  <1>1. n \in Nat /\ Steps = 1..n /\ record.history \in Seq(Transition)
    BY DEF IInv, TypeOK, Steps
  <1>2. ASSUME NEW i \in 1..n, i + 1 <= n
        PROVE  /\ Step(i).to \notin {"rejected", "deprecated"}
               /\ Step(i).to = "published" => Step(i + 1).to = "deprecated"
    <2>1. i + 1 \in 1..n
      BY <1>1, <1>2
    <2>2. Legal(record, i + 1) /\ Step(i + 1) \in Transition
      BY <1>1, <2>1 DEF IInv, LegalSteps, Step
    <2>3. Step(i + 1).from = Step(i).to
      <3>1. i + 1 # 1 /\ (i + 1) - 1 = i
        BY <1>1, <1>2
      <3>2. Step(i + 1).from =
              IF i + 1 = 1 THEN "proposed" ELSE Step((i + 1) - 1).to
        BY <1>1, <2>1 DEF IInv, HistoryExplainsState
      <3> QED BY <3>1, <3>2
    <2> QED BY <2>2, <2>3, AllowedFacts DEF Legal, Step, Transition
  <1>3. ASSUME NEW i \in 1..n, Step(i).to = "published", NEW j \in 1..n, j > i
        PROVE  Step(j).to = "deprecated"
    <2>1. i + 1 <= n /\ i + 1 \in 1..n
      BY <1>1, <1>3
    <2>2. Step(i + 1).to = "deprecated"
      BY <1>2, <1>3, <2>1
    <2>3. ~(i + 2 <= n)
      <3>1. (i + 1) + 1 = i + 2
        BY <1>1
      <3> QED BY <1>2, <2>1, <2>2, <3>1
    <2>4. j = i + 1
      BY <1>1, <1>3, <2>3
    <2> QED BY <2>2, <2>4
  <1>4. \A i \in 1..n : Step(i).to \in {"rejected", "deprecated"} => i = n
    BY <1>1, <1>2
  <1> QED BY <1>1, <1>3, <1>4 DEF FinalMeansFinal

----------------------------------------------------------------------------
(* Every version of a record satisfies the inductive invariant.             *)
THEOREM Invariance == Spec => []IInv
  BY InitIInv, StepIInv, PTL DEF Spec

(* Type correctness; a record is as proposed exactly until its first        *)
(* transition.                                                              *)
THEOREM TypeCorrect == Spec => []TypeOK
  <1>1. IInv => TypeOK
    BY DEF IInv
  <1> QED BY Invariance, <1>1, PTL

(* Histories of any length explain the state they lead to: governance.ts:134. *)
THEOREM HistoryIsTrue == Spec => []HistoryExplainsState
  <1>1. IInv => HistoryExplainsState
    BY DEF IInv
  <1> QED BY Invariance, <1>1, PTL

(* Whatever path a contribution took, and however often it went back from   *)
(* verification, its publication was reviewed, verified and not by a        *)
(* high-impact requester: governance.ts:156, :175.                          *)
THEOREM PublicationIsProper == Spec => []PublishedProperly
  BY Invariance, PublicationFacts, PTL

(* Terminal states are terminal: governance.ts:86-92.                       *)
THEOREM FinalIsFinal == Spec => []FinalMeansFinal
  BY Invariance, FinalityFacts, PTL
=============================================================================

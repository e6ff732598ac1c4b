------------------------------ MODULE AntiSlop ------------------------------
(***************************************************************************)
(* A review that is written one grade and one exception at a time, and     *)
(* `nas antislop' run on it at any moment.                                 *)
(***************************************************************************)
EXTENDS AntiSlopGate

CONSTANTS Expiries,      \* instants at which exceptions expire
          NoResult,      \* the command gave no gate result
          CreatedAt,     \* when the review was created
          MaxGrades,     \* bound on the grades of a review
          MaxExceptions  \* bound on its exceptions

ASSUME AntiSlopAssumption ==
  /\ Expiries \subseteq Nat /\ CreatedAt \in Nat
  /\ {MaxGrades, MaxExceptions} \subseteq Nat
  /\ NoResult \notin GateResult

VARIABLES review,  \* the review as written so far
          result   \* what `nas antislop' says of it, when it is run on it

gateVars == <<review, result>>

----------------------------------------------------------------------------
GateInit ==
  /\ \E t \in DOMAIN Required :
       review = [changeType |-> t, createdAt |-> CreatedAt,
                 grades |-> <<>>, exceptions |-> <<>>]
  /\ result = [exit |-> 1, gate |-> NoResult, of |-> review]

AddGrade(d, g) ==
  /\ Len(review.grades) < MaxGrades
  /\ review' = [review EXCEPT !.grades = Append(@, [dimension |-> d, grade |-> g])]
  /\ UNCHANGED result

AddException(d, e) ==
  /\ Len(review.exceptions) < MaxExceptions
  /\ review' = [review EXCEPT !.exceptions =
                   Append(@, [dimension |-> d, expiresAt |-> e])]
  /\ UNCHANGED result

\* Bug: the command reports that it ran, not what it found.
RunExitsZero ==
  /\ review.grades # <<>>
  /\ result' =
       IF Consistent(review)
       THEN [exit |-> 0, gate |-> EvaluateReview(review), of |-> review]
       ELSE [exit |-> 1, gate |-> NoResult, of |-> review]
  /\ UNCHANGED review

(* `nas antislop' on a review with the shape of one: at least one grade.    *)
Run ==
  /\ review.grades # <<>>
  /\ LET gate == EvaluateReview(review) IN
     result' =
       IF Consistent(review)
       THEN [exit |-> IF gate.accepted THEN 0 ELSE 1, gate |-> gate, of |-> review]
       ELSE [exit |-> 1, gate |-> NoResult, of |-> review]
  /\ UNCHANGED review

GateNext ==
  \/ \E d \in Dimensions, g \in Grade : AddGrade(d, g)
  \/ \E d \in Dimensions, e \in Expiries : AddException(d, e)
  \/ Run

GateSpec == GateInit /\ [][GateNext]_gateVars

----------------------------------------------------------------------------
ReviewType ==
  [changeType : DOMAIN Required, createdAt : {CreatedAt},
   grades : Seq([dimension : Dimensions, grade : Grade]),
   exceptions : Seq([dimension : Dimensions, expiresAt : Expiries])]

GateTypeOK ==
  /\ review \in ReviewType /\ result.of \in ReviewType
  /\ result.exit \in {0, 1} /\ result.gate \in GateResult \union {NoResult}
  /\ result.exit = 0 => result.gate # NoResult /\ result.gate.accepted
  /\ result.gate # NoResult => result.gate.exceptionsApplied \subseteq result.gate.concerns

(* What the policy and the review say of one dimension, told from the rules *)
(* in the comment of evaluateReview, without its passes over the grades.    *)
Says(r, d, grade) ==
  \E i \in DOMAIN r.grades : r.grades[i] = [dimension |-> d, grade |-> grade]

Live(r, d) ==
  \E i \in DOMAIN r.exceptions :
    r.exceptions[i].dimension = d /\ r.exceptions[i].expiresAt > r.createdAt

Acceptable(r, d) ==
  \/ \E i \in DOMAIN r.grades :
       /\ r.grades[i].dimension = d
       /\ \/ r.grades[i].grade \in {"pass", "pass_with_concern"}
          \/ r.grades[i].grade = "fail" /\ Live(r, d)
  \/ d \notin Required[r.changeType] /\ ~Says(r, d, "fail")

(* The command exits 0 for exactly the reviews in which no dimension is     *)
(* graded twice and every one of them is acceptable: no grade of another    *)
(* dimension makes up for it, and of several exceptions a live one counts   *)
(* whatever their order (engine.ts:26-86, antislop.ts:28, :44).             *)
AcceptedIffEveryDimensionIs ==
  result.of.grades # <<>> /\ (result.exit = 0 \/ result.gate # NoResult) =>
    /\ \A d \in Dimensions : ~(\E i, j \in DOMAIN result.of.grades :
          i # j /\ result.of.grades[i].dimension = d
               /\ result.of.grades[j].dimension = d)
    /\ result.exit = 0 <=> \A d \in Dimensions : Acceptable(result.of, d)

(* Nothing is hidden: whatever failed or raised a concern is named, either  *)
(* as blocking or as a concern and not as both (engine.ts:58-77).           *)
NothingHidden ==
  result.gate # NoResult =>
    \A d \in Dimensions :
      Says(result.of, d, "fail") \/ Says(result.of, d, "pass_with_concern") =>
        (d \in DOMAIN result.gate.blocking) # (d \in result.gate.concerns)

(* Dimensions do not mix: a grade given to a new dimension changes what is  *)
(* said of that one alone (anti-slop.ts:8: no aggregate score).             *)
GradesDoNotMix ==
  [][\A d \in Dimensions, g \in Grade :
       AddGrade(d, g) /\ d \notin Graded(review) =>
         \A o \in Dimensions \ {d} :
           LET was == EvaluateReview(review)  is == EvaluateReview(review') IN
           /\ o \in DOMAIN was.blocking <=> o \in DOMAIN is.blocking
           /\ o \in was.concerns <=> o \in is.concerns]_gateVars
============================================================================

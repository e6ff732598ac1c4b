---------------------------- MODULE AntiSlopGate ----------------------------
(***************************************************************************)
(* evaluateReview of @nas/anti-slop: the gate result of a review.  The     *)
(* rationale of a concern and the reason of a blocking dimension are left  *)
(* out.                                                                    *)
(***************************************************************************)
EXTENDS Integers, Sequences

CONSTANTS Dimensions,  \* the anti-slop dimensions
          Required     \* the dimensions required for a type of change

Grade == {"pass", "pass_with_concern", "fail", "not_tested"}

\* The AntiSlopGateResults that there are.
GateResult ==
  [accepted : BOOLEAN,
   blocking : UNION {[S -> {"fail", "not_tested"}] : S \in SUBSET Dimensions},
   concerns : SUBSET Dimensions, exceptionsApplied : SUBSET Dimensions]

ASSUME RequiredAssumption == \A t \in DOMAIN Required : Required[t] \subseteq Dimensions

----------------------------------------------------------------------------
(* indexGradesUnique throws when a dimension is graded twice.               *)
Consistent(r) ==
  \A i, j \in DOMAIN r.grades :
    r.grades[i].dimension = r.grades[j].dimension => i = j

Graded(r) == {r.grades[i].dimension : i \in DOMAIN r.grades}

GradedAs(r, grade) ==
  {r.grades[i].dimension : i \in {j \in DOMAIN r.grades : r.grades[j].grade = grade}}

\* Bug: the first exception for the dimension decides.
FirstExceptionValid(r, d) ==
  \E i \in DOMAIN r.exceptions :
    /\ r.exceptions[i].dimension = d
    /\ r.exceptions[i].expiresAt > r.createdAt
    /\ \A j \in 1..(i - 1) : r.exceptions[j].dimension # d

\* findValidException finds one.
Excepted(r, d) ==
  \E i \in DOMAIN r.exceptions :
    r.exceptions[i].dimension = d /\ r.exceptions[i].expiresAt > r.createdAt

\* Bug: once some dimension passes, the ones that nobody graded do not block.
UntestedUnlessOnePasses(r) ==
  IF GradedAs(r, "pass") # {} THEN {}
  ELSE Required[r.changeType]
         \intersect ((Dimensions \ Graded(r)) \union GradedAs(r, "not_tested"))

Untested(r) ==
  Required[r.changeType]
    \intersect ((Dimensions \ Graded(r)) \union GradedAs(r, "not_tested"))

\* Bug: an excepted failure is accepted without a word.
EvaluateReviewSilently(r) ==
  LET failed  == GradedAs(r, "fail")
      excused == {d \in failed : Excepted(r, d)}
      blocking == [d \in Untested(r) \union (failed \ excused) |->
                     IF d \in failed THEN "fail" ELSE "not_tested"]
  IN [accepted |-> DOMAIN blocking = {}, blocking |-> blocking,
      concerns |-> GradedAs(r, "pass_with_concern"), exceptionsApplied |-> excused]

(* The gate result: `blocking' maps each dimension that blocks to the grade *)
(* it is listed with.                                                       *)
EvaluateReview(r) ==
  LET failed  == GradedAs(r, "fail")
      excused == {d \in failed : Excepted(r, d)}
      blocking == [d \in Untested(r) \union (failed \ excused) |->
                     IF d \in failed THEN "fail" ELSE "not_tested"]
  IN [accepted |-> DOMAIN blocking = {}, blocking |-> blocking,
      concerns |-> GradedAs(r, "pass_with_concern") \union excused,
      exceptionsApplied |-> excused]
=============================================================================

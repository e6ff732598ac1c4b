---------------------------- MODULE ReleaseGate ----------------------------
(***************************************************************************)
(* TC-10: how evaluateRelease decides over a ReleaseInputs document and     *)
(* signs its decision, and how a decision is verified.  A reason is a       *)
(* record that says what is wrong with what; its wording, the id and the    *)
(* evaluation time of a decision are left out.  An evidence input is its    *)
(* kind and its summary, and a record is cited by its id.                   *)
(***************************************************************************)
EXTENDS EvidenceChain, FiniteSets, FiniteSetsExt

CONSTANTS NoEvidence,  \* a check report cites no evidence
          NoReview     \* the document holds no independent review

Reason(what, subject) == [what |-> what, subject |-> subject]

Ids(evidence) == {evidence[i].id : i \in DOMAIN evidence}

Kinds(evidence) == {evidence[i].input.kind : i \in DOMAIN evidence}

----------------------------------------------------------------------------
(* Checks.                                                                  *)

Reports(checks, name) == {i \in DOMAIN checks : checks[i].name = name}

\* Bug: a name reported again is taken to replace what was reported before.
NoDuplicates(checks) == {}

Duplicated(checks) ==
  {checks[i].name : i \in {j \in DOMAIN checks :
                             \E k \in 1..(j - 1) : checks[k].name = checks[j].name}}

\* new Map(...) keeps the last report of a name.
CheckByName(checks, name) == checks[Max(Reports(checks, name))]

Reported(in) == {n \in in.policy.requiredChecks : Reports(in.checks, n) # {}}

RequiredWith(in, status) ==
  {n \in Reported(in) : CheckByName(in.checks, n).status = status}

\* A required check passed with no evidence, or with evidence not in the chain.
Unbacked(in) ==
  {n \in RequiredWith(in, "pass") :
     CheckByName(in.checks, n).evidenceId \notin Ids(in.evidence)}

----------------------------------------------------------------------------
(* The three lists of reasons.                                              *)

SelfReview(in) ==
  in.review.reviewer \in {in.review.authorId, in.manifest.createdBy}

ReviewBlocks(in) ==
  in.policy.requireIndependentReview /\ (in.review = NoReview \/ SelfReview(in))

Blocked(in, ring) ==
  LET incompletes == IF in.policy.allowIncompleteAsWarning THEN {}
                     ELSE RequiredWith(in, "incomplete")
  IN UNION {
    IF VerifyChain(in.evidence, ring) THEN {} ELSE {Reason("chain", "evidence")},
    {Reason("kind", k) : k \in in.policy.requiredEvidenceKinds \ Kinds(in.evidence)},
    {Reason("duplicate", n) : n \in Duplicated(in.checks)},
    {Reason("missing", n) : n \in in.policy.requiredChecks \ Reported(in)},
    {Reason("unbacked", n) : n \in Unbacked(in)},
    {Reason("incomplete", n) : n \in incompletes},
    {Reason("skipped", n) : n \in RequiredWith(in, "skipped")},
    IF ReviewBlocks(in) THEN {Reason("review", "self or none")} ELSE {},
    {Reason("hard", b) : b \in in.hardBlockers}}

AntiSlopFails(in) ==
  /\ in.policy.requireAntiSlopAccepted
  /\ ~in.antiSlop.accepted \/ in.antiSlop.blocking # {}

Failed(in) == UNION {
  {Reason("failed", n) : n \in RequiredWith(in, "fail")},
  IF AntiSlopFails(in) THEN {Reason("anti-slop", in.antiSlop.blocking)} ELSE {},
  IF /\ in.policy.requireIndependentReview
     /\ ~ReviewBlocks(in)
     /\ ~in.review.approved
  THEN {Reason("review", "rejected")} ELSE {}}

Warnings(in) ==
  LET incompletes == IF in.policy.allowIncompleteAsWarning
                     THEN RequiredWith(in, "incomplete") ELSE {}
      expired == {r \in in.riskAcceptances : r.expiresAt <= in.manifest.createdAt}
  IN {Reason("incomplete", n) : n \in incompletes}
       \union {Reason("expired", r) : r \in expired}

----------------------------------------------------------------------------
(* The decision and its signature.                                          *)

Verdict(in, ring) ==
  IF Blocked(in, ring) # {} THEN "blocked"
  ELSE IF Failed(in) # {} THEN "fail"
  ELSE IF Warnings(in) # {} THEN "warning"
  ELSE "pass"

\* Bug: the signature does not cover the manifest.
DecisionBodyNoManifest(d) ==
  [id |-> d.id, verdict |-> d.verdict, blocking |-> d.blocking,
   warnings |-> d.warnings, inputsDigest |-> d.inputsDigest]

\* ReleaseDecisionBody: all of a decision but `signedBy' and the signature.
DecisionBody(d) ==
  [id |-> d.id, verdict |-> d.verdict, manifest |-> d.manifest,
   blocking |-> d.blocking, warnings |-> d.warnings,
   inputsDigest |-> d.inputsDigest]

EvaluateRelease(in, id, authority, ring) ==
  LET body == [id |-> id, verdict |-> Verdict(in, ring), manifest |-> in.manifest,
               blocking |-> Blocked(in, ring) \union Failed(in),
               warnings |-> Warnings(in), inputsDigest |-> Sha256(in)]
  IN [id |-> id, verdict |-> body.verdict, manifest |-> in.manifest,
      blocking |-> body.blocking, warnings |-> body.warnings,
      inputsDigest |-> body.inputsDigest, signedBy |-> authority,
      signature |-> Sign(ring, Sha256(DecisionBody(body)))]

VerifyDecisionSignature(d, ring) ==
  VerifySignature(ring, Sha256(DecisionBody(d)), d.signature)

DecisionAuthorizesDeploy(d) == d.verdict \in {"pass", "warning"}
============================================================================

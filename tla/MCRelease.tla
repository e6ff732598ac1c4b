----------------------------- MODULE MCRelease -----------------------------
(* Release for one required check, one required kind of evidence and drafts *)
(* that differ in one field at a time.                                      *)
EXTENDS Release

CONSTANTS authority, other, author, reviewer, key1, secret1, secret2

MCRing == SingleKeyRing(key1, secret1)
MCForeignRing == SingleKeyRing(key1, secret2)

Strict ==
  [requiredChecks |-> {"unit"}, requiredEvidenceKinds |-> {"test"},
   requireAntiSlopAccepted |-> TRUE, requireIndependentReview |-> TRUE,
   allowIncompleteAsWarning |-> FALSE]

Lenient ==
  [Strict EXCEPT !.requireIndependentReview = FALSE,
                 !.requireAntiSlopAccepted = FALSE,
                 !.allowIncompleteAsWarning = TRUE]

Build(n) == [artifactDigest |-> n, createdAt |-> 5, createdBy |-> author]

MCManifests == {Build(1), Build(2)}

Approval ==
  [reviewer |-> reviewer, authorId |-> author, approved |-> TRUE]

Draft ==
  [policy |-> Strict, manifest |-> Build(1), checks |-> <<>>, evidence |-> <<>>,
   antiSlop |-> [accepted |-> TRUE, blocking |-> {}], review |-> Approval,
   hardBlockers |-> {}, riskAcceptances |-> {}]

MCDrafts ==
  { Draft,
    [Draft EXCEPT !.policy = Lenient, !.review = NoReview],
    [Draft EXCEPT !.review = NoReview],
    [Draft EXCEPT !.review.approved = FALSE],
    [Draft EXCEPT !.review.reviewer = author, !.review.authorId = other],
    [Draft EXCEPT !.review.authorId = reviewer],
    [Draft EXCEPT !.antiSlop = [accepted |-> FALSE, blocking |-> {"security_impact"}]],
    [Draft EXCEPT !.antiSlop.blocking = {"security_impact"}],
    [Draft EXCEPT !.hardBlockers = {"incident"}],
    [Draft EXCEPT !.riskAcceptances = {[expiresAt |-> 5]}],
    [Draft EXCEPT !.riskAcceptances = {[expiresAt |-> 6]}] }

Check(name, status, id) == [name |-> name, status |-> status, evidenceId |-> id]

\* Records are numbered from 0: the first is 0, and 7 is the id of no record.
MCCheckReports ==
  { Check("unit", "pass", 0), Check("unit", "pass", 7),
    Check("unit", "pass", NoEvidence), Check("unit", "fail", NoEvidence),
    Check("unit", "incomplete", NoEvidence), Check("unit", "skipped", NoEvidence),
    Check("lint", "incomplete", NoEvidence) }

MCEvidenceInputs == [kind : {"build", "test"}, summary : {"ok"}]

MCLines ==
  { <<"--json", "gate", "inputs.json">>,
    <<"--json", "gate", "version">>,
    <<"evidence", "verify", "--out", "gate">>,
    <<"evidence", "add", "--kind", "test", "--summary", "ok", "--content", "">>,
    <<"gate", "--json", "inputs.json">>,
    <<"gate", "inputs.json", "--out", "--json">>,
    <<"gate", "--out", "decision.json", "inputs.json", "--json">>,
    <<"gate", "inputs.json", "--out", "decision.json", "--out", "">> }

Plain == <<"gate", "inputs.json">>
ToFile == <<"gate", "inputs.json", "--out", "decision.json">>

MCScopes ==
  { [evidence |-> 2, reports |-> 2, decisions |-> 1, lines |-> {ToFile}],
    [evidence |-> 1, reports |-> 1, decisions |-> 2, lines |-> {Plain, ToFile}],
    [evidence |-> 1, reports |-> 1, decisions |-> 1, lines |-> MCLines] }
============================================================================

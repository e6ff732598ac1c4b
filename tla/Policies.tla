------------------------------ MODULE Policies ------------------------------
(***************************************************************************)
(* The policies the kernels come with: what a release to an environment     *)
(* needs and which anti-slop dimensions a type of change must pass.         *)
(***************************************************************************)

STAGING_POLICY ==
  [requiredChecks |-> {"typecheck", "lint", "unit"},
   requiredEvidenceKinds |-> {"build", "test"},
   requireAntiSlopAccepted |-> TRUE,
   requireIndependentReview |-> FALSE,
   allowIncompleteAsWarning |-> TRUE]

PRODUCTION_POLICY ==
  [requiredChecks |-> {"typecheck", "lint", "unit", "integration",
                       "accessibility", "security"},
   requiredEvidenceKinds |-> {"build", "test", "accessibility_result",
                              "anti_slop_review"},
   requireAntiSlopAccepted |-> TRUE,
   requireIndependentReview |-> TRUE,
   allowIncompleteAsWarning |-> FALSE]

AntiSlopDimension ==
  {"product_correctness", "design_originality", "design_consistency",
   "interaction_quality", "responsive_quality", "accessibility", "code_clarity",
   "architecture_depth", "test_depth", "evidence_completeness",
   "security_impact", "operational_impact", "maintainability"}

REQUIRED_DIMENSIONS ==
  [product_feature |->
     <<"product_correctness", "design_consistency", "interaction_quality",
       "responsive_quality", "accessibility", "code_clarity", "test_depth",
       "evidence_completeness", "security_impact", "maintainability">>,
   bug_fix |-> <<"product_correctness", "code_clarity", "test_depth",
                 "evidence_completeness", "maintainability">>,
   refactor |-> <<"code_clarity", "architecture_depth", "test_depth",
                  "evidence_completeness", "maintainability">>,
   design_change |->
     <<"design_originality", "design_consistency", "interaction_quality",
       "responsive_quality", "accessibility", "evidence_completeness">>,
   performance |-> <<"product_correctness", "code_clarity", "test_depth",
                     "evidence_completeness", "operational_impact">>,
   accessibility |-> <<"accessibility", "responsive_quality",
                       "interaction_quality", "evidence_completeness">>,
   security |-> <<"security_impact", "code_clarity", "test_depth",
                  "evidence_completeness">>,
   test |-> <<"test_depth", "evidence_completeness">>,
   docs |-> <<"evidence_completeness", "maintainability">>,
   infra |-> <<"operational_impact", "security_impact", "code_clarity",
               "evidence_completeness">>]

requiredDimensionsFor(changeType) == REQUIRED_DIMENSIONS[changeType]
=============================================================================

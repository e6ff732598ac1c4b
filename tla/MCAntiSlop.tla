---------------------------- MODULE MCAntiSlop ----------------------------
(* AntiSlop with two required dimensions and one that is not, for two types *)
(* of change; exceptions expire at the instant of the review or after it.   *)
EXTENDS AntiSlop

MCRequired ==
  [test |-> {"test_depth", "evidence_completeness"}, docs |-> {"evidence_completeness"}]
============================================================================

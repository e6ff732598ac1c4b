--------------------------- MODULE MCGovernance ---------------------------
(* Governance for a high-impact and an ordinary contribution, with no       *)
(* expiry or with one at the second of two instants.                        *)
EXTENDS Governance

CONSTANTS requester, maintainer

MCRequests ==
  [highImpact : BOOLEAN, requestedBy : {requester}, expiresAt : {Absent, 2}]
============================================================================

-------------------------- MODULE MCEvidenceStore --------------------------
(* EvidenceStore with commands run under two keys of the same key id.      *)
EXTENDS EvidenceStore

CONSTANTS key1, secret1, secret2

MCRings == {SingleKeyRing(key1, s) : s \in {secret1, secret2}}
============================================================================

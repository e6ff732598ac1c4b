--------------------------- MODULE MCEvidenceLog ---------------------------
(* EvidenceLog on a log of at most three records.                          *)
EXTENDS EvidenceLog

CONSTANTS authority, other, key1, secret1, secret2

MCActors == {authority, other}

\* The same key id over different secrets, as log.test.ts forges signatures.
MCRing == SingleKeyRing(key1, secret1)

MCForeignRing == SingleKeyRing(key1, secret2)
============================================================================

--------------------------- MODULE EvidenceChain ---------------------------
(***************************************************************************)
(* The sealed records of @nas/kernel-evidence: how one is sealed after a    *)
(* chain and how a chain is verified.  A record's createdAt and the parts   *)
(* of its input that no property tells apart are abstracted into `input'.   *)
(***************************************************************************)
EXTENDS Signing, Integers, Sequences

CONSTANT Null  \* the JSON null that a genesis record carries as prevDigest

----------------------------------------------------------------------------
(* A definition whose comment starts with "Bug" is the definition after it   *)
(* with a plausible mistake; no specification uses it.                      *)

\* Bug: the digest does not cover who sealed the record.
RecordBodyWithoutSignedBy(r) ==
  [id |-> r.id, sequence |-> r.sequence, input |-> r.input,
   prevDigest |-> r.prevDigest]

\* What recordDigest covers: everything but the digest and the signature.
RecordBody(r) ==
  [id |-> r.id, sequence |-> r.sequence, input |-> r.input,
   prevDigest |-> r.prevDigest, signedBy |-> r.signedBy]

HeadDigest(chain) ==
  IF chain = <<>> THEN Null ELSE chain[Len(chain)].recordDigest

\* The record that EvidenceLog.append seals after the records of chain.
Seal(chain, id, input, authority, ring) ==
  LET body == [id |-> id, sequence |-> Len(chain), input |-> input,
               prevDigest |-> HeadDigest(chain), signedBy |-> authority]
      digest == Sha256(RecordBody(body))
  IN  [id |-> id, sequence |-> Len(chain), input |-> input,
       prevDigest |-> HeadDigest(chain), signedBy |-> authority,
       recordDigest |-> digest, signature |-> Sign(ring, digest)]

----------------------------------------------------------------------------
\* Bug: the digest of a record is not computed again.
IntactBySignature(r, ring) == VerifySignature(ring, r.recordDigest, r.signature)

Intact(r, ring) ==
  /\ r.recordDigest = Sha256(RecordBody(r))
  /\ VerifySignature(ring, r.recordDigest, r.signature)

Linked(chain, i) ==
  /\ chain[i].sequence = i - 1
  /\ chain[i].prevDigest = IF i = 1 THEN Null ELSE chain[i-1].recordDigest

\* EvidenceLog.verifyChain(chain, ring).valid
VerifyChain(chain, ring) ==
  \A i \in 1..Len(chain) : Intact(chain[i], ring) /\ Linked(chain, i)
============================================================================

---------------------------- MODULE EvidenceLog ----------------------------
(***************************************************************************)
(* One EvidenceLog object and a serialized copy of its chain that lives     *)
(* outside it.  The copy may be altered in the ways the tests of the log    *)
(* alter it, before a new log is constructed from it.                       *)
(***************************************************************************)
EXTENDS EvidenceChain, SequencesExt

CONSTANTS Inputs,       \* evidence inputs
          Actors,       \* identities a record can be attributed to
          Authority,    \* the log's sealing authority
          Ring,         \* the log's signer
          ForeignRing,  \* a signer whose secrets are not Ring's
          MaxLen,       \* bound on a chain's length
          MaxSeals,     \* bound on the seals, so on the ids drawn
          MaxEdits      \* bound on the alterations of one copy

ASSUME EvidenceLogAssumption ==
  /\ Authority \in Actors
  /\ {MaxLen, MaxSeals, MaxEdits} \subseteq Nat
  /\ HasKey(Ring, Ring.defaultKeyId) /\ HasKey(ForeignRing, ForeignRing.defaultKeyId)
  /\ \A k \in DOMAIN Ring.keys, f \in DOMAIN ForeignRing.keys :
        Ring.keys[k] # ForeignRing.keys[f]

VARIABLES records,  \* #records, the log's sealed chain
          copy,     \* a serialized chain outside the log
          edits,    \* alterations made to the copy since it was exported
          nextId,   \* the injected id generator
          sealed    \* history: every chain a log has held

vars == <<records, copy, edits, nextId, sealed>>

----------------------------------------------------------------------------
Init ==
  /\ records = <<>>
  /\ copy = <<>>
  /\ edits = 0
  /\ nextId = 0
  /\ sealed = {<<>>}

AppendRecord(x) ==
  /\ nextId < MaxSeals
  /\ Len(records) < MaxLen
  /\ records' = Append(records, Seal(records, nextId, x, Authority, Ring))
  /\ sealed' = sealed \union {records'}
  /\ nextId' = nextId + 1
  /\ UNCHANGED <<copy, edits>>

Export ==
  /\ copy' = records
  /\ edits' = 0
  /\ UNCHANGED <<records, nextId, sealed>>

\* Bug: the constructor takes the chain it is given without verifying it.
LoadUnverified ==
  /\ records' = copy
  /\ UNCHANGED <<copy, edits, nextId, sealed>>

\* new EvidenceLog({initial: copy}); the constructor throws on any other copy.
Load ==
  /\ VerifyChain(copy, Ring)
  /\ records' = copy
  /\ UNCHANGED <<copy, edits, nextId, sealed>>

----------------------------------------------------------------------------
(* Alterations of a copy.                                                   *)

Altered(r) ==
  UNION { {[r EXCEPT !.input = x] : x \in Inputs},
          {[r EXCEPT !.signedBy = a] : a \in Actors},
          {[r EXCEPT !.sequence = i - 1] : i \in 1..MaxLen},
          {[r EXCEPT !.prevDigest = HeadDigest(SubSeq(copy, 1, i))]
              : i \in 0..Len(copy)},
          {[r EXCEPT !.recordDigest = Sha256(RecordBody(r))]},
          {[r EXCEPT !.signature = Sign(ForeignRing, r.recordDigest)]} }

Edit(chain) ==
  /\ edits < MaxEdits
  /\ chain # copy
  /\ copy' = chain
  /\ edits' = edits + 1
  /\ UNCHANGED <<records, nextId, sealed>>

AlterRecord ==
  \E i \in 1..Len(copy) : \E r \in Altered(copy[i]) :
    Edit([copy EXCEPT ![i] = r])

DeleteRecord == \E i \in 1..Len(copy) : Edit(RemoveAt(copy, i))

SwapRecords ==
  \E i \in 1..Len(copy) : \E j \in 1..(i - 1) :
    Edit([copy EXCEPT ![i] = copy[j], ![j] = copy[i]])

InsertForeign ==
  \E x \in Inputs :
    /\ Len(copy) < MaxLen
    /\ Edit(Append(copy, Seal(copy, nextId, x, Authority, ForeignRing)))

Next ==
  \/ \E x \in Inputs : AppendRecord(x)
  \/ Export
  \/ Load
  \/ AlterRecord
  \/ DeleteRecord
  \/ SwapRecords
  \/ InsertForeign

Spec == Init /\ [][Next]_vars

----------------------------------------------------------------------------
(* The log's chain and every chain it has held verify: sealing keeps a      *)
(* chain valid and construction never adopts one that is not (log.ts:61,    *)
(* log.ts:88).                                                              *)
TypeOK ==
  /\ nextId \in 0..MaxSeals
  /\ edits \in 0..MaxEdits
  /\ records \in sealed
  /\ \A c \in sealed : Len(c) <= MaxLen /\ VerifyChain(c, Ring)

(* Whatever was done to a copy, if it verifies then it is, record for       *)
(* record, a chain that the authority sealed: no combination of altered     *)
(* inputs, attributions, digests, links, positions, foreign signatures,     *)
(* deletions and reorderings yields another valid chain (log.ts:51).  What  *)
(* remains possible is an older chain: nothing binds the end of a chain.    *)
ValidCopyWasSealed == VerifyChain(copy, Ring) => copy \in sealed
============================================================================

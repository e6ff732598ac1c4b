------------------------- MODULE EvidenceLogProofs -------------------------
(***************************************************************************)
(* Tamper evidence, for every length, every number of alterations and every *)
(* ring: a copy that verifies is a chain that the log has held.  A record   *)
(* of the copy that verifies carries a signature that the log made, so it   *)
(* is a record that the log sealed; and a sealed record fixes the digest of *)
(* its predecessor, so the last record of the copy fixes all of it.         *)
(***************************************************************************)
EXTENDS EvidenceLog, ChainProofs, WellFoundedInduction

(* A record is a function on its seven fields.                              *)
IsRecord(r) ==
  r = [id |-> r.id, sequence |-> r.sequence, input |-> r.input,
       prevDigest |-> r.prevDigest, signedBy |-> r.signedBy,
       recordDigest |-> r.recordDigest, signature |-> r.signature]

(* A chain that a log has held.                                             *)
Held(c) ==
  /\ IsSeq(c) /\ Len(c) <= MaxLen /\ VerifyChain(c, Ring)
  /\ \A i \in 1..Len(c) :
       IsRecord(c[i]) /\ c[i].signature = Sign(Ring, c[i].recordDigest)

SealedHere(r) == \E c \in sealed : \E i \in 1..Len(c) : r.signature = c[i].signature

SealedElsewhere(r) == \E m : r.signature = Sign(ForeignRing, m)

Known(r) == IsRecord(r) /\ (SealedHere(r) \/ SealedElsewhere(r))

(* Alterations make records whose signatures come from the log or from the  *)
(* foreign signer: nothing else signs.                                      *)
IInv ==
  /\ nextId \in 0..MaxSeals /\ edits \in 0..MaxEdits
  /\ records \in sealed
  /\ \A c \in sealed : Held(c) /\ \A n \in 0..Len(c) : SubSeq(c, 1, n) \in sealed
  /\ IsSeq(copy)
  /\ \A i \in 1..Len(copy) : Known(copy[i])

----------------------------------------------------------------------------
(* A record of a copy that verifies is one that the log sealed.             *)
LEMMA IntactWasSealed ==
  ASSUME IInv, NEW i \in 1..Len(copy), Intact(copy[i], Ring)
  PROVE  \E c \in sealed : \E j \in 1..Len(c) : copy[i] = c[j]
  <1>1. SealedHere(copy[i])
    <2>1. ASSUME NEW m, copy[i].signature = Sign(ForeignRing, m) PROVE FALSE
      <3>1. VerifySignature(Ring, copy[i].recordDigest, Sign(ForeignRing, m))
        BY <2>1 DEF Intact
      <3>2. /\ HasKey(ForeignRing, ForeignRing.defaultKeyId)
            /\ \A k \in DOMAIN Ring.keys, f \in DOMAIN ForeignRing.keys :
                 Ring.keys[k] # ForeignRing.keys[f]
        BY EvidenceLogAssumption
      <3> QED BY <3>1, <3>2, ForeignRefused
    <2> QED BY <2>1 DEF IInv, Known, SealedElsewhere
  <1>2. PICK c \in sealed : \E j \in 1..Len(c) : copy[i].signature = c[j].signature
    BY <1>1 DEF SealedHere
  <1>3. PICK j \in 1..Len(c) : copy[i].signature = c[j].signature
    BY <1>2
  <1>4. Intact(c[j], Ring) /\ IsRecord(c[j]) /\ IsRecord(copy[i])
    BY <1>3 DEF IInv, Known, Held, VerifyChain
  <1> DEFINE r == copy[i]
             s == c[j]
  <1>5. Intact(r, Ring) /\ Intact(s, Ring) /\ r.signature = s.signature
    BY <1>3, <1>4
  <1>6. IsRecord(r) /\ IsRecord(s)
    BY <1>4
  <1> HIDE DEF r, s
  <1>7. RecordBody(r) = RecordBody(s) /\ r.recordDigest = s.recordDigest
    BY <1>5, SameSignatureSameBody
  <1>8. /\ r.id = s.id /\ r.sequence = s.sequence /\ r.input = s.input
        /\ r.prevDigest = s.prevDigest /\ r.signedBy = s.signedBy
    BY <1>7, BodyFields
  <1>9. r = s
    BY <1>5, <1>6, <1>7, <1>8 DEF IsRecord
  <1> QED BY <1>9 DEF r, s

(* Two sealed records with one digest are one record.                       *)
LEMMA DigestDetermines ==
  ASSUME NEW c, Held(c), NEW d, Held(d), NEW i \in 1..Len(c), NEW j \in 1..Len(d),
         c[i].recordDigest = d[j].recordDigest
  PROVE  c[i] = d[j]
  <1> DEFINE r == c[i]
             s == d[j]
  <1>1. /\ IsRecord(r) /\ r.signature = Sign(Ring, r.recordDigest) /\ Intact(r, Ring)
        /\ IsRecord(s) /\ s.signature = Sign(Ring, s.recordDigest) /\ Intact(s, Ring)
        /\ r.recordDigest = s.recordDigest
    BY DEF Held, VerifyChain
  <1> HIDE DEF r, s
  <1>2. r.signature = s.signature
    BY <1>1
  <1>3. RecordBody(r) = RecordBody(s)
    BY <1>1, <1>2, SameSignatureSameBody
  <1>4. /\ r.id = s.id /\ r.sequence = s.sequence /\ r.input = s.input
        /\ r.prevDigest = s.prevDigest /\ r.signedBy = s.signedBy
    BY <1>3, BodyFields
  <1>5. r = s
    BY <1>1, <1>2, <1>4 DEF IsRecord
  <1> QED BY <1>5 DEF r, s

(* If the copy verifies and its last record is in a sealed chain, then so   *)
(* is, at its place, every record before it.                                *)
LEMMA LastFixesAll ==
  ASSUME IInv, VerifyChain(copy, Ring), NEW c \in sealed,
         Len(copy) \in 1..Len(c), copy[Len(copy)] = c[Len(copy)]
  PROVE  \A i \in 1..Len(copy) : copy[i] = c[i]
  <1>1. IsSeq(copy) /\ Len(copy) \in Nat /\ Held(c) /\ Len(c) \in Nat
    BY DEF IInv, Held, IsSeq
  <1> DEFINE n == Len(copy)
             Wrong == {i \in 1..n : copy[i] # c[i]}
             Dist == {n - i : i \in Wrong}
  <1> SUFFICES ASSUME Wrong # {} PROVE FALSE
    OBVIOUS
  <1>2. Dist \subseteq Nat /\ Dist # {}
    BY <1>1
  <1>3. PICK k \in Dist : \A m \in Dist : ~(<<m, k>> \in OpToRel(<, Nat))
    <2> HIDE DEF Dist
    <2> QED BY <1>2, WFMin, NatLessThanWellFounded
  <1>4. \A m \in Dist : ~(m < k)
    BY <1>2, <1>3 DEF OpToRel
  <1>5. PICK i \in Wrong : k = n - i
    OBVIOUS
  <1>6. i # n /\ i + 1 \in 1..n /\ i \in 1..n /\ n \in 1..Len(c)
    BY <1>1, <1>5
  <1>7. copy[i + 1] = c[i + 1]
    <2>1. SUFFICES ASSUME i + 1 \in Wrong PROVE FALSE
      BY <1>6
    <2>2. n - (i + 1) \in Dist /\ n - (i + 1) < k
      BY <1>1, <1>5, <1>6, <2>1
    <2> QED BY <1>4, <2>2
  <1>8. Linked(copy, i + 1) /\ Linked(c, i + 1) /\ i + 1 # 1 /\ (i + 1) - 1 = i
    BY <1>1, <1>6 DEF Held, VerifyChain
  <1>9. copy[i].recordDigest = c[i].recordDigest
    BY <1>7, <1>8 DEF Linked
  <1>10. PICK d \in sealed : \E j \in 1..Len(d) : copy[i] = d[j]
    BY <1>6, IntactWasSealed DEF VerifyChain
  <1>11. PICK j \in 1..Len(d) : copy[i] = d[j]
    BY <1>10
  <1>12. d[j].recordDigest = c[i].recordDigest /\ Held(d) /\ i \in 1..Len(c)
    BY <1>1, <1>6, <1>9, <1>11 DEF IInv
  <1>13. d[j] = c[i]
    BY <1>1, <1>12, DigestDetermines
  <1> QED BY <1>5, <1>11, <1>13

(* A copy that verifies is a chain that the log has held.                   *)
LEMMA ValidIsSealed ==
  ASSUME IInv, VerifyChain(copy, Ring)
  PROVE  copy \in sealed
  <1>1. IsSeq(copy) /\ Len(copy) \in Nat
    BY DEF IInv, IsSeq
  <1>2. CASE Len(copy) = 0
    <2>1. 0 \in 0..Len(records) /\ SubSeq(records, 1, 0) \in sealed /\ IsSeq(records)
      BY DEF IInv, Held, IsSeq
    <2>2. SubSeq(records, 1, 0) = copy
      BY <1>1, <1>2, <2>1 DEF IsSeq
    <2> QED BY <2>1, <2>2
  <1>3. CASE Len(copy) # 0
    <2> DEFINE n == Len(copy)
    <2>1. n \in 1..n /\ Intact(copy[n], Ring) /\ Linked(copy, n)
      BY <1>1, <1>3 DEF VerifyChain
    <2>2. PICK c \in sealed : \E j \in 1..Len(c) : copy[n] = c[j]
      BY <2>1, IntactWasSealed
    <2>3. PICK j \in 1..Len(c) : copy[n] = c[j]
      BY <2>2
    <2>4. Held(c) /\ \A m \in 0..Len(c) : SubSeq(c, 1, m) \in sealed
      BY DEF IInv
    <2>5. Linked(c, j)
      BY <2>3, <2>4 DEF Held, VerifyChain
    <2>6. j = n
      BY <1>1, <2>1, <2>3, <2>4, <2>5 DEF Linked, Held, IsSeq
    <2>7. n \in 1..Len(c) /\ n \in 0..Len(c) /\ IsSeq(c) /\ Len(c) \in Nat
      BY <2>3, <2>4, <2>6 DEF Held, IsSeq
    <2>8. \A i \in 1..n : copy[i] = c[i]
      BY <2>3, <2>6, <2>7, LastFixesAll
    <2>9. /\ IsSeq(SubSeq(c, 1, n)) /\ Len(SubSeq(c, 1, n)) = n
          /\ \A i \in 1..n : SubSeq(c, 1, n)[i] = c[i]
      BY <2>7, CutIsSeq
    <2>10. copy = SubSeq(c, 1, n)
      BY <1>1, <2>8, <2>9, SeqEqual DEF IsSeq
    <2> QED BY <2>4, <2>7, <2>10
  <1> QED BY <1>2, <1>3

----------------------------------------------------------------------------
(* The log starts in the invariant.                                         *)
LEMMA InitIInv ==
  ASSUME Init
  PROVE  IInv
  <1>1. <<>> \in Seq({}) /\ Len(<<>>) = 0
    OBVIOUS
  <1>2. IsSeq(<<>>)
    BY <1>1, SeqIsSeq
  <1>3. Held(<<>>)
    BY <1>1, <1>2, EvidenceLogAssumption DEF Held, VerifyChain
  <1>4. SubSeq(<<>>, 1, 0) = <<>>
    OBVIOUS
  <1>5. \A n \in 0..Len(<<>>) : SubSeq(<<>>, 1, n) \in {<<>>}
    BY <1>1, <1>4
  <1>6. 0 \in 0..MaxSeals /\ 0 \in 0..MaxEdits
    BY EvidenceLogAssumption
  <1> QED BY <1>1, <1>2, <1>3, <1>5, <1>6 DEF Init, IInv

(* Sealing a record adds a chain that the log has held.                     *)
LEMMA AppendStep ==
  ASSUME IInv, NEW x \in Inputs, AppendRecord(x)
  PROVE  IInv'
  <1> DEFINE r == Seal(records, nextId, x, Authority, Ring)
             d == Append(records, r)
  <1>1. /\ Held(records) /\ IsSeq(records) /\ Len(records) \in Nat
        /\ \A n \in 0..Len(records) : SubSeq(records, 1, n) \in sealed
    BY DEF IInv, Held, IsSeq
  <1>2. /\ IsSeq(d) /\ Len(d) = Len(records) + 1 /\ d[Len(records) + 1] = r
        /\ \A i \in 1..Len(records) : d[i] = records[i]
    BY <1>1, AppendIsSeq
  <1>3. VerifyChain(d, Ring)
    <2>1. HasKey(Ring, Ring.defaultKeyId)
      BY EvidenceLogAssumption
    <2> QED BY <1>1, <2>1, SealExtends DEF Held
  <1>4. IsRecord(r) /\ r.signature = Sign(Ring, r.recordDigest)
    BY DEF IsRecord, Seal
  <1>5. records' = d /\ sealed' = sealed \union {d} /\ UNCHANGED <<copy, edits>>
        /\ nextId' = nextId + 1 /\ nextId < MaxSeals /\ Len(records) < MaxLen
    BY DEF AppendRecord
  <1> HIDE DEF d, r
  <1>6. Held(d)
    <2>1. Len(d) <= MaxLen
      BY <1>1, <1>2, <1>5, EvidenceLogAssumption
    <2>2. ASSUME NEW i \in 1..Len(d)
          PROVE  IsRecord(d[i]) /\ d[i].signature = Sign(Ring, d[i].recordDigest)
      <3>1. CASE i \in 1..Len(records)
        BY <1>1, <1>2, <3>1 DEF Held
      <3>2. CASE i = Len(records) + 1
        BY <1>2, <1>4, <3>2
      <3> QED BY <1>1, <1>2, <3>1, <3>2
    <2> QED BY <1>2, <1>3, <2>1, <2>2 DEF Held
  <1>7. ASSUME NEW n \in 0..Len(d) PROVE SubSeq(d, 1, n) \in sealed'
    <2>1. /\ IsSeq(SubSeq(d, 1, n)) /\ Len(SubSeq(d, 1, n)) = n
          /\ \A i \in 1..n : SubSeq(d, 1, n)[i] = d[i]
      BY <1>2, CutIsSeq
    <2>2. CASE n = Len(d)
      <3>1. SubSeq(d, 1, n) = d
        BY <1>2, <2>1, <2>2, SeqEqual DEF IsSeq
      <3> QED BY <1>5, <3>1
    <2>3. CASE n \in 0..Len(records)
      <3>1. /\ IsSeq(SubSeq(records, 1, n)) /\ Len(SubSeq(records, 1, n)) = n
            /\ \A i \in 1..n : SubSeq(records, 1, n)[i] = records[i]
        BY <1>1, <2>3, CutIsSeq
      <3>2. SubSeq(d, 1, n) = SubSeq(records, 1, n)
        BY <1>1, <1>2, <2>1, <2>3, <3>1, SeqEqual DEF IsSeq
      <3> QED BY <1>1, <1>5, <2>3, <3>2
    <2> QED BY <1>1, <1>2, <2>2, <2>3
  <1>8. ASSUME NEW i \in 1..Len(copy') PROVE Known(copy[i])'
    <2>1. Known(copy[i])
      BY <1>5, <1>8 DEF IInv
    <2> QED BY <1>5, <2>1 DEF Known, SealedHere, SealedElsewhere
  <1>9. nextId' \in 0..MaxSeals
    BY <1>5, EvidenceLogAssumption DEF IInv
  <1>10. \A c \in sealed' : Held(c) /\ \A n \in 0..Len(c) : SubSeq(c, 1, n) \in sealed'
    BY <1>5, <1>6, <1>7 DEF IInv
  <1>11. edits' \in 0..MaxEdits /\ records' \in sealed' /\ IsSeq(copy')
    BY <1>5 DEF IInv
  <1> QED BY <1>8, <1>9, <1>10, <1>11 DEF IInv

(* An exported copy is such a chain.                                        *)
LEMMA ExportStep ==
  ASSUME IInv, Export
  PROVE  IInv'
  <1>1. Held(records) /\ IsSeq(records) /\ 0 \in 0..MaxEdits
    BY EvidenceLogAssumption DEF IInv, Held
  <1>2. ASSUME NEW i \in 1..Len(records) PROVE Known(records[i])
    BY <1>1 DEF IInv, Held, Known, SealedHere
  <1>3. ASSUME NEW i \in 1..Len(copy') PROVE Known(copy[i])'
    <2>1. Known(records[i]) /\ copy' = records /\ sealed' = sealed
      BY <1>2, <1>3 DEF Export
    <2> QED BY <2>1 DEF Known, SealedHere, SealedElsewhere
  <1> QED BY <1>1, <1>3 DEF Export, IInv

(* A copy that can be loaded is such a chain.                               *)
LEMMA LoadStep ==
  ASSUME IInv, Load
  PROVE  IInv'
  <1>1. copy \in sealed
    BY ValidIsSealed DEF Load
  <1>2. \A i \in 1..Len(copy') : Known(copy[i])'
    BY DEF Load, IInv, Known, SealedHere, SealedElsewhere
  <1> QED BY <1>1, <1>2 DEF Load, IInv

(* Alterations only move records and signatures that are known.             *)
LEMMA EditStep ==
  ASSUME IInv, NEW S, \A r \in S : Known(r), NEW d \in Seq(S), Edit(d)
  PROVE  IInv'
  <1>1. /\ copy' = d /\ edits < MaxEdits /\ edits' = edits + 1
        /\ UNCHANGED <<records, nextId, sealed>>
    BY DEF Edit
  <1>2. IsSeq(copy')
    BY <1>1, SeqIsSeq
  <1>3. ASSUME NEW i \in 1..Len(copy') PROVE Known(copy[i])'
    <2>1. d[i] \in S
      BY <1>1, <1>3
    <2>2. Known(d[i])
      BY <2>1
    <2> QED BY <1>1, <2>2 DEF Known, SealedHere, SealedElsewhere
  <1>4. edits' \in 0..MaxEdits
    BY <1>1, EvidenceLogAssumption DEF IInv
  <1> QED BY <1>1, <1>2, <1>3, <1>4 DEF IInv

(* Whatever is altered of a record, its signature is still the log's or the *)
(* foreign signer's.                                                        *)
LEMMA AlteredIsKnown ==
  ASSUME NEW r, Known(r), NEW s \in Altered(r)
  PROVE  Known(s)
  <1>1. IsRecord(s) /\ (s.signature = r.signature \/ \E m : s.signature = Sign(ForeignRing, m))
    <2>1. CASE \E x \in Inputs : s = [r EXCEPT !.input = x]
      BY <2>1 DEF Known, IsRecord
    <2>2. CASE \E a \in Actors : s = [r EXCEPT !.signedBy = a]
      BY <2>2 DEF Known, IsRecord
    <2>3. CASE \E i \in 1..MaxLen : s = [r EXCEPT !.sequence = i - 1]
      BY <2>3 DEF Known, IsRecord
    <2>4. CASE \E i \in 0..Len(copy) : s = [r EXCEPT !.prevDigest = HeadDigest(SubSeq(copy, 1, i))]
      BY <2>4 DEF Known, IsRecord
    <2>5. CASE s = [r EXCEPT !.recordDigest = Sha256(RecordBody(r))]
      BY <2>5 DEF Known, IsRecord
    <2>6. CASE s = [r EXCEPT !.signature = Sign(ForeignRing, r.recordDigest)]
      BY <2>6 DEF Known, IsRecord
    <2> QED BY <2>1, <2>2, <2>3, <2>4, <2>5, <2>6 DEF Altered
  <1> QED BY <1>1 DEF Known, SealedHere, SealedElsewhere

(* Every step keeps the invariant.                                          *)
LEMMA StepIInv ==
  ASSUME IInv, [Next]_vars
  PROVE  IInv'
  <1>1. CASE UNCHANGED vars
    BY <1>1 DEF IInv, Known, SealedHere, SealedElsewhere, vars
  <1> DEFINE S == Range(copy)
  <1>2. /\ copy \in Seq(S) /\ Len(copy) \in Nat /\ DOMAIN copy = 1..Len(copy)
        /\ \A r \in S : Known(r)
    BY DEF IInv, IsSeq, Range
  <1> HIDE DEF S
  <1>3. CASE AlterRecord
    <2>1. PICK i \in 1..Len(copy) : \E r \in Altered(copy[i]) : Edit([copy EXCEPT ![i] = r])
      BY <1>3 DEF AlterRecord
    <2>2. PICK r \in Altered(copy[i]) : Edit([copy EXCEPT ![i] = r])
      BY <2>1
    <2>3. Known(r)
      BY AlteredIsKnown DEF IInv
    <2>4. copy \in Seq(S \union {r})
      BY <1>2, SeqMonotonic
    <2>5. [copy EXCEPT ![i] = r] \in Seq(S \union {r})
      BY <1>2, <2>4
    <2>6. \A q \in S \union {r} : Known(q)
      BY <1>2, <2>3
    <2> QED BY <2>2, <2>5, <2>6, EditStep
  <1>4. CASE DeleteRecord
    <2>1. PICK i \in 1..Len(copy) : Edit(RemoveAt(copy, i))
      BY <1>4 DEF DeleteRecord
    <2>2. SubSeq(copy, 1, i - 1) \in Seq(S) /\ SubSeq(copy, i + 1, Len(copy)) \in Seq(S)
      BY <1>2
    <2>3. RemoveAt(copy, i) \in Seq(S)
      BY <2>2 DEF RemoveAt
    <2> QED BY <1>2, <2>1, <2>3, EditStep
  <1>5. CASE SwapRecords
    <2>1. PICK i \in 1..Len(copy) : \E j \in 1..(i - 1) :
             Edit([copy EXCEPT ![i] = copy[j], ![j] = copy[i]])
      BY <1>5 DEF SwapRecords
    <2>2. PICK j \in 1..(i - 1) : Edit([copy EXCEPT ![i] = copy[j], ![j] = copy[i]])
      BY <2>1
    <2>3. j \in 1..Len(copy) /\ copy[i] \in S /\ copy[j] \in S
      BY <1>2
    <2>4. [copy EXCEPT ![i] = copy[j], ![j] = copy[i]] \in Seq(S)
      BY <1>2, <2>3
    <2> QED BY <1>2, <2>2, <2>4, EditStep
  <1>6. CASE InsertForeign
    <2>1. PICK x \in Inputs : Edit(Append(copy, Seal(copy, nextId, x, Authority, ForeignRing)))
      BY <1>6 DEF InsertForeign
    <2> DEFINE r == Seal(copy, nextId, x, Authority, ForeignRing)
    <2>2. Known(r)
      <3>1. IsRecord(r) /\ r.signature = Sign(ForeignRing, r.recordDigest)
        BY DEF IsRecord, Seal
      <3> QED BY <3>1 DEF Known, SealedElsewhere
    <2> HIDE DEF r
    <2>3. copy \in Seq(S \union {r})
      BY <1>2, SeqMonotonic
    <2>4. Append(copy, r) \in Seq(S \union {r})
      BY <2>3
    <2>5. \A q \in S \union {r} : Known(q)
      BY <1>2, <2>2
    <2>6. Edit(Append(copy, r))
      BY <2>1 DEF r
    <2> QED BY <2>4, <2>5, <2>6, EditStep
  <1>7. CASE \E x \in Inputs : AppendRecord(x)
    BY <1>7, AppendStep
  <1>8. CASE Export \/ Load
    BY <1>8, ExportStep, LoadStep
  <1> QED BY <1>1, <1>3, <1>4, <1>5, <1>6, <1>7, <1>8 DEF Next

(* The invariant holds throughout.                                          *)
LEMMA Invariance == Spec => []IInv
  BY InitIInv, StepIInv, PTL DEF Spec

----------------------------------------------------------------------------
(* The log's chain and every chain it has held verify, whatever copies it   *)
(* was constructed from (log.ts:61, :88).                                   *)
THEOREM TypeCorrect == Spec => []TypeOK
  <1>1. IInv => TypeOK
    BY DEF IInv, Held, TypeOK
  <1> QED BY <1>1, Invariance, PTL

(* A copy that verifies is a chain that the authority sealed, of any length *)
(* and after any number of alterations (log.ts:51).                         *)
THEOREM OnlySealedChainsVerify == Spec => []ValidCopyWasSealed
  <1>1. IInv => ValidCopyWasSealed
    BY ValidIsSealed DEF ValidCopyWasSealed
  <1> QED BY <1>1, Invariance, PTL
============================================================================

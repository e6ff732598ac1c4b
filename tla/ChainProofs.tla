----------------------------- MODULE ChainProofs -----------------------------
(***************************************************************************)
(* Facts about signatures and sealed chains, for every ring and content:    *)
(* what is sealed verifies, also cut short, and nothing else does that      *)
(* differs from it in an input or in who signed it.  And what the proofs    *)
(* about recursive functions rest on: a recursion that gets smaller has a   *)
(* solution.                                                                *)
(***************************************************************************)
EXTENDS EvidenceChain, SequencesExt, SequenceTheorems, WellFoundedInduction,
        TLAPS

(* Two different contents never share a digest.                             *)
LEMMA Sha256Injective ==
  ASSUME NEW a, NEW b, Sha256(a) = Sha256(b)
  PROVE  a = b
  <1>1. Sha256(a).sha256 = a /\ Sha256(b).sha256 = b
    BY DEF Sha256
  <1> QED BY <1>1

(* A signature value determines the secret and the message it was made from. *)
LEMMA HmacInjective ==
  ASSUME NEW k1, NEW m1, NEW k2, NEW m2,
         HmacSha256(k1, m1) = HmacSha256(k2, m2)
  PROVE  k1 = k2 /\ m1 = m2
  <1>1. /\ HmacSha256(k1, m1).key = k1 /\ HmacSha256(k1, m1).hmac = m1
        /\ HmacSha256(k2, m2).key = k2 /\ HmacSha256(k2, m2).hmac = m2
    BY DEF HmacSha256
  <1> QED BY <1>1

(* What a signer signs under a key it holds, it verifies.                   *)
LEMMA SignedVerifies ==
  ASSUME NEW ring, NEW m, HasKey(ring, ring.defaultKeyId)
  PROVE  VerifySignature(ring, m, Sign(ring, m))
  BY DEF VerifySignature, Sign, SignWith

(* A signature made with a secret that a ring does not hold, that ring      *)
(* refuses.                                                                 *)
LEMMA ForeignRefused ==
  ASSUME NEW ring, NEW foreign, NEW m, NEW n,
         HasKey(foreign, foreign.defaultKeyId),
         \A k \in DOMAIN ring.keys, f \in DOMAIN foreign.keys :
           ring.keys[k] # foreign.keys[f]
  PROVE  ~VerifySignature(ring, n, Sign(foreign, m))
  <1> SUFFICES ASSUME VerifySignature(ring, n, Sign(foreign, m)) PROVE FALSE
    OBVIOUS
  <1>1. /\ Sign(foreign, m).keyId \in DOMAIN ring.keys
        /\ Sign(foreign, m).value = HmacSha256(ring.keys[Sign(foreign, m).keyId], n)
    BY DEF VerifySignature, HasKey
  <1>2. /\ foreign.defaultKeyId \in DOMAIN foreign.keys
        /\ Sign(foreign, m).value = HmacSha256(foreign.keys[foreign.defaultKeyId], m)
    BY DEF Sign, SignWith, HasKey
  <1> DEFINE mine == ring.keys[Sign(foreign, m).keyId]
             theirs == foreign.keys[foreign.defaultKeyId]
  <1>3. HmacSha256(mine, n) = HmacSha256(theirs, m)
    BY <1>1, <1>2
  <1> HIDE DEF mine, theirs
  <1>4. mine = theirs
    BY ONLY <1>3, HmacInjective, Zenon
  <1> QED BY <1>1, <1>2, <1>4 DEF mine, theirs

(* One signature does not serve two messages.                               *)
LEMMA SignedOnce ==
  ASSUME NEW ring, NEW m, NEW n, NEW s, VerifySignature(ring, m, s),
         VerifySignature(ring, n, s)
  PROVE  m = n
  <1>1. s.value = HmacSha256(ring.keys[s.keyId], m)
    BY DEF VerifySignature
  <1>2. s.value = HmacSha256(ring.keys[s.keyId], n)
    BY DEF VerifySignature
  <1> DEFINE secret == ring.keys[s.keyId]
  <1>3. HmacSha256(secret, m) = HmacSha256(secret, n)
    BY <1>1, <1>2
  <1> HIDE DEF secret
  <1> QED BY ONLY <1>3, HmacInjective, Zenon

----------------------------------------------------------------------------
(* A sequence is one over the set of its own elements.                      *)
IsSeq(c) == c \in Seq(Range(c))

(* A sequence over a set is one.                                            *)
LEMMA SeqIsSeq ==
  ASSUME NEW S, NEW c \in Seq(S)
  PROVE  IsSeq(c)
  <1>1. Len(c) \in Nat /\ DOMAIN c = 1..Len(c) /\ c \in [1..Len(c) -> S]
    OBVIOUS
  <1>2. c \in [1..Len(c) -> Range(c)]
    BY <1>1 DEF Range
  <1> QED BY <1>1, <1>2, SeqDef DEF IsSeq

(* What appending does to a sequence.                                       *)
LEMMA AppendIsSeq ==
  ASSUME NEW c, IsSeq(c), NEW r
  PROVE  /\ IsSeq(Append(c, r))
         /\ Len(c) \in Nat
         /\ Len(Append(c, r)) = Len(c) + 1
         /\ \A i \in 1..Len(c) : Append(c, r)[i] = c[i]
         /\ Append(c, r)[Len(c) + 1] = r
         /\ Range(Append(c, r)) = Range(c) \union {r}
  <1> DEFINE S == Range(c) \union {r}
  <1>1. c \in Seq(S)
    BY SeqMonotonic DEF IsSeq
  <1>2. Append(c, r) \in Seq(S)
    BY <1>1
  <1>3. /\ Len(c) \in Nat /\ Len(Append(c, r)) = Len(c) + 1
        /\ \A i \in 1..Len(c) : Append(c, r)[i] = c[i]
        /\ Append(c, r)[Len(c) + 1] = r
        /\ DOMAIN c = 1..Len(c) /\ DOMAIN Append(c, r) = 1..(Len(c) + 1)
    BY <1>1
  <1>4. Range(Append(c, r)) = Range(c) \union {r}
    <2>1. 1..(Len(c) + 1) = (1..Len(c)) \union {Len(c) + 1}
      BY <1>3
    <2> QED BY <1>3, <2>1 DEF Range
  <1> QED BY <1>2, <1>3, <1>4, SeqIsSeq

(* What cutting a sequence at its tail does to it.                          *)
LEMMA CutIsSeq ==
  ASSUME NEW c, IsSeq(c), NEW n \in 0..Len(c)
  PROVE  /\ IsSeq(SubSeq(c, 1, n))
         /\ Len(SubSeq(c, 1, n)) = n
         /\ \A i \in 1..n : SubSeq(c, 1, n)[i] = c[i]
  <1>1. c \in Seq(Range(c)) /\ Len(c) \in Nat
    BY DEF IsSeq
  <1>2. SubSeq(c, 1, n) \in Seq(Range(c)) /\ Len(SubSeq(c, 1, n)) = n
    BY <1>1
  <1>3. \A i \in 1..n : SubSeq(c, 1, n)[i] = c[i]
    BY <1>1
  <1> QED BY <1>2, <1>3, SeqIsSeq

(* One sequence starts with another if it agrees with it place by place.    *)
LEMMA PrefixPointwise ==
  ASSUME NEW c, IsSeq(c), NEW d, IsSeq(d)
  PROVE  IsPrefix(c, d) <=> /\ Len(c) <= Len(d)
                            /\ \A i \in 1..Len(c) : c[i] = d[i]
  <1>1. Len(c) \in Nat /\ Len(d) \in Nat
    BY DEF IsSeq
  <1>2. /\ IsSeq(SubSeq(c, 1, Len(c))) /\ Len(SubSeq(c, 1, Len(c))) = Len(c)
        /\ \A i \in 1..Len(c) : SubSeq(c, 1, Len(c))[i] = c[i]
    BY <1>1, CutIsSeq
  <1>3. ASSUME Len(c) <= Len(d)
        PROVE  /\ IsSeq(SubSeq(d, 1, Len(c))) /\ Len(SubSeq(d, 1, Len(c))) = Len(c)
               /\ \A i \in 1..Len(c) : SubSeq(d, 1, Len(c))[i] = d[i]
    BY <1>1, <1>3, CutIsSeq
  <1>4. ASSUME Len(c) <= Len(d), \A i \in 1..Len(c) : c[i] = d[i]
        PROVE  SubSeq(c, 1, Len(c)) = SubSeq(d, 1, Len(c))
    BY <1>2, <1>3, <1>4, SeqEqual DEF IsSeq
  <1>5. ASSUME Len(c) <= Len(d), SubSeq(c, 1, Len(c)) = SubSeq(d, 1, Len(c))
        PROVE  \A i \in 1..Len(c) : c[i] = d[i]
    BY <1>2, <1>3, <1>5
  <1> QED BY <1>4, <1>5 DEF IsPrefix

----------------------------------------------------------------------------
(* Induction over the naturals, for a set of them; a definition to be        *)
(* proved by induction is written as the set of numbers it holds for.       *)
LEMMA SetInduction ==
  ASSUME NEW T, 0 \in T, \A n \in Nat : n \in T => n + 1 \in T
  PROVE  Nat \subseteq T
  <1> DEFINE Missed == Nat \ T
  <1> SUFFICES ASSUME Missed # {} PROVE FALSE
    OBVIOUS
  <1>1. PICK k \in Missed : \A n \in Missed : ~(<<n, k>> \in OpToRel(<, Nat))
    <2>1. Missed \subseteq Nat
      OBVIOUS
    <2> HIDE DEF Missed
    <2> QED BY <2>1, WFMin, NatLessThanWellFounded
  <1>2. \A n \in Missed : ~(n < k)
    BY <1>1 DEF OpToRel
  <1>3. k # 0 /\ k - 1 \in Nat /\ k - 1 \notin Missed
    BY <1>2
  <1>4. k - 1 + 1 \in T /\ k - 1 + 1 = k
    BY <1>3
  <1> QED BY <1>4

(* G gives the value at a place of S from a function on all of S, of which  *)
(* it uses the values at places of lesser rank only.                        *)
IsRecursion(G, S, V, rank, N) ==
  /\ V # {} /\ N \in Nat /\ rank \in [S -> 0..N]
  /\ G \in [S -> [[S -> V] -> V]]
  /\ \A s \in S : \A f, g \in [S -> V] :
       (\A t \in S : rank[t] < rank[s] => f[t] = g[t]) => G[s][f] = G[s][g]

(* A recursion has a solution.                                              *)
LEMMA RecursionDefines ==
  ASSUME NEW S, NEW V, NEW N, NEW rank, NEW G, IsRecursion(G, S, V, rank, N)
  PROVE  \E f \in [S -> V] : \A s \in S : f[s] = G[s][f]
  <1> USE DEF IsRecursion
  <1> DEFINE Below(f, n) == \A s \in S : rank[s] < n => f[s] = G[s][f]
             T == {n \in Nat : \E f \in [S -> V] : Below(f, n)}
  <1>1. 0 \in T
    <2>1. PICK v \in V : TRUE
      OBVIOUS
    <2>2. [s \in S |-> v] \in [S -> V]
      OBVIOUS
    <2>3. Below([s \in S |-> v], 0)
      OBVIOUS
    <2> QED BY <2>2, <2>3
  <1>2. ASSUME NEW n \in Nat, n \in T PROVE n + 1 \in T
    <2>1. PICK f \in [S -> V] : Below(f, n)
      BY <1>2
    <2> DEFINE g == [s \in S |-> IF rank[s] = n THEN G[s][f] ELSE f[s]]
    <2>2. g \in [S -> V]
      OBVIOUS
    <2>3. ASSUME NEW s \in S, rank[s] < n + 1 PROVE g[s] = G[s][g]
      <3>1. \A t \in S : rank[t] < rank[s] => f[t] = g[t]
        BY <2>3
      <3> HIDE DEF g
      <3>2. G[s][f] = G[s][g]
        BY <3>1, <2>2 DEF IsRecursion
      <3>3. g[s] = G[s][f]
        <4>1. CASE rank[s] = n
          BY <4>1 DEF g
        <4>2. CASE rank[s] < n
          BY <2>1, <4>2 DEF g
        <4> DEFINE k == rank[s]
        <4>3. k \in Int /\ k < n + 1
          BY <2>3
        <4>4. k = n \/ k < n
          <5> HIDE DEF k
          <5> QED BY <4>3
        <4> QED BY <4>1, <4>2, <4>4
      <3> QED BY <3>2, <3>3
    <2> HIDE DEF g
    <2>4. Below(g, n + 1)
      BY <2>3
    <2> QED BY <2>2, <2>4
  <1>3. N + 1 \in T
    <2> HIDE DEF T
    <2> QED BY <1>1, <1>2, SetInduction
  <1>4. PICK f \in [S -> V] : Below(f, N + 1)
    BY <1>3
  <1> QED BY <1>4

----------------------------------------------------------------------------
(* Whoever seals a record after a chain that verifies gets one that does.   *)
LEMMA SealExtends ==
  ASSUME NEW c, IsSeq(c), NEW ring, HasKey(ring, ring.defaultKeyId),
         VerifyChain(c, ring), NEW id, NEW x, NEW a
  PROVE  VerifyChain(Append(c, Seal(c, id, x, a, ring)), ring)
  <1> DEFINE r == Seal(c, id, x, a, ring)
             d == Append(c, r)
  <1>1. /\ Len(c) \in Nat /\ Len(d) = Len(c) + 1
        /\ \A i \in 1..Len(c) : d[i] = c[i]
        /\ d[Len(c) + 1] = r
    BY AppendIsSeq
  <1>2. /\ r.sequence = Len(c)
        /\ r.prevDigest = HeadDigest(c)
        /\ r.recordDigest = Sha256(RecordBody(r))
        /\ r.signature = Sign(ring, r.recordDigest)
    BY DEF Seal, RecordBody
  <1>3. Intact(r, ring)
    BY <1>2, SignedVerifies DEF Intact
  <1>4. ASSUME NEW i \in 1..Len(d) PROVE Intact(d[i], ring) /\ Linked(d, i)
    <2>1. CASE i \in 1..Len(c)
      <3>1. Intact(c[i], ring) /\ Linked(c, i)
        BY <2>1 DEF VerifyChain
      <3>2. i # 1 => i - 1 \in 1..Len(c)
        BY <1>1, <2>1
      <3> QED BY <1>1, <2>1, <3>1, <3>2 DEF Linked
    <2>2. CASE i = Len(c) + 1
      <3>1. i = 1 => HeadDigest(c) = Null
        <4>1. i = 1 => c = <<>>
          BY <1>1, <2>2 DEF IsSeq
        <4> QED BY <4>1 DEF HeadDigest
      <3>2. i # 1 => c # <<>> /\ i - 1 \in 1..Len(c) /\ i - 1 = Len(c)
        BY <1>1, <2>2
      <3>3. i # 1 => HeadDigest(c) = c[Len(c)].recordDigest
        BY <3>2 DEF HeadDigest
      <3>4. i # 1 => HeadDigest(c) = d[i - 1].recordDigest
        BY <1>1, <3>2, <3>3
      <3>5. d[i] = r /\ i - 1 = Len(c)
        BY <1>1, <2>2
      <3>6. Linked(d, i)
        BY <1>2, <3>1, <3>4, <3>5 DEF Linked
      <3> QED BY <1>3, <3>5, <3>6
    <2> QED BY <1>1, <2>1, <2>2
  <1> QED BY <1>4 DEF VerifyChain

(* Nothing binds the end of a chain: cut short, it verifies all the same.   *)
LEMMA CutVerifies ==
  ASSUME NEW c, IsSeq(c), NEW ring, VerifyChain(c, ring), NEW n \in 0..Len(c)
  PROVE  VerifyChain(SubSeq(c, 1, n), ring)
  <1> DEFINE d == SubSeq(c, 1, n)
  <1>1. Len(d) = n /\ (\A i \in 1..n : d[i] = c[i]) /\ Len(c) \in Nat
    BY CutIsSeq DEF IsSeq
  <1>2. ASSUME NEW i \in 1..n PROVE Intact(d[i], ring) /\ Linked(d, i)
    <2>1. Intact(c[i], ring) /\ Linked(c, i)
      BY <1>1 DEF VerifyChain
    <2>2. i # 1 => i - 1 \in 1..n
      OBVIOUS
    <2> QED BY <1>1, <2>1, <2>2 DEF Linked
  <1> QED BY <1>1, <1>2 DEF VerifyChain

(* Two intact records with one signature say the same.                      *)
LEMMA SameSignatureSameBody ==
  ASSUME NEW r, NEW s, NEW ring, Intact(r, ring), Intact(s, ring),
         r.signature = s.signature
  PROVE  RecordBody(r) = RecordBody(s) /\ r.recordDigest = s.recordDigest
  <1>1. r.recordDigest = s.recordDigest
    BY SignedOnce DEF Intact
  <1>2. Sha256(RecordBody(r)) = Sha256(RecordBody(s))
    BY <1>1 DEF Intact
  <1> QED BY <1>1, <1>2, Sha256Injective

(* A body fixes the fields of its record.                                   *)
LEMMA BodyFields ==
  ASSUME NEW r, NEW s, RecordBody(r) = RecordBody(s)
  PROVE  /\ r.id = s.id /\ r.sequence = s.sequence /\ r.input = s.input
         /\ r.prevDigest = s.prevDigest /\ r.signedBy = s.signedBy
  <1>1. /\ RecordBody(r).id = r.id /\ RecordBody(r).sequence = r.sequence
        /\ RecordBody(r).input = r.input /\ RecordBody(r).prevDigest = r.prevDigest
        /\ RecordBody(r).signedBy = r.signedBy
        /\ RecordBody(s).id = s.id /\ RecordBody(s).sequence = s.sequence
        /\ RecordBody(s).input = s.input /\ RecordBody(s).prevDigest = s.prevDigest
        /\ RecordBody(s).signedBy = s.signedBy
    BY DEF RecordBody
  <1> QED BY <1>1
=============================================================================

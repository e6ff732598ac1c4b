---------------------------- MODULE AuthzProofs ----------------------------
(***************************************************************************)
(* Safety of the broker and the engine for every value of the constants.    *)
(* The inductive invariant adds to the properties of Authz that a minted    *)
(* grant carries the signature of its own body and that the engine's use    *)
(* counter is the number of requests it allowed.  A compiled pattern        *)
(* matches what the pattern means.  The demo and the web application take   *)
(* only steps of the broker and the engine; what they show in the end       *)
(* follows from the answers to the demo's two requests (DemoAsks) and from  *)
(* the order in which records are sealed and documents decided on           *)
(* (InOrder), which together with the types are inductive.                  *)
(***************************************************************************)
EXTENDS Lifecycle, ChainProofs, FiniteSetTheorems

MintedSigned ==
  \A m \in minted :
    /\ HasKey(Ring, m.body.keyId)
    /\ m.signature = HmacSha256(Ring.keys[m.body.keyId], m.body)

UsesCounted ==
  \A id \in GrantIds : uses[id] = Cardinality(AllowsUpTo(id, Len(allows)))

IInv == TypeOK /\ MintedSigned /\ UsesCounted /\ AllowedByMintedGrant /\ UseBudget

----------------------------------------------------------------------------
(* Parsing only fills in a default.                                         *)
LEMMA NormalizeFacts ==
  ASSUME NEW b \in Bodies
  PROVE  /\ Normalize(b).id = b.id /\ b.id \in GrantIds
         /\ Normalize(b).keyId = b.keyId
         /\ Normalize(b).maxUses \in Nat \ {0}
         /\ Normalize(b) \in NormalBodies
         /\ Normalize(Normalize(b)) = Normalize(b)
  <1>1. /\ DOMAIN b = {"id", "subjectId", "capabilities", "audience", "issuedAt",
                       "notBefore", "expiresAt", "nonce", "maxUses", "keyId"}
        /\ b.id \in GrantIds
        /\ b.maxUses \in (Nat \ {0}) \union {Absent}
    BY AuthzAssumption
  <1>2. Normalize(b).id = b.id /\ Normalize(b).keyId = b.keyId
    BY <1>1 DEF Normalize
  <1>3. Normalize(b).maxUses \in Nat \ {0}
    BY <1>1 DEF Normalize
  <1>4. Normalize(b) \in NormalBodies
    BY DEF NormalBodies
  <1>5. Normalize(Normalize(b)) = Normalize(b)
    <2>1. Normalize(b).maxUses # Absent
      BY <1>3 DEF Absent
    <2>2. /\ DOMAIN Normalize(b) = DOMAIN b
          /\ Normalize(b) = [f \in DOMAIN b |-> Normalize(b)[f]]
      BY DEF Normalize
    <2> DEFINE n == Normalize(b)
    <2> HIDE DEF n
    <2>3. Normalize(n) = [n EXCEPT !.maxUses = n.maxUses]
      BY <2>1 DEF Normalize, n
    <2>4. n = [f \in DOMAIN n |-> n[f]]
      BY <2>2 DEF n
    <2>5. Normalize(n) = n
      BY <2>3, <2>4
    <2> QED BY <2>5 DEF n
  <1> QED BY <1>1, <1>2, <1>3, <1>4, <1>5

(* The set of allowed requests is a finite set of positions.                *)
LEMMA AllowsFinite ==
  ASSUME TypeOK, NEW id, NEW n \in Nat
  PROVE  IsFiniteSet(AllowsUpTo(id, n)) /\ Cardinality(AllowsUpTo(id, n)) \in Nat
  <1>1. since \in Int /\ since + 1 \in Int
    BY DEF TypeOK
  <1>2. IsFiniteSet((since + 1)..n)
    BY <1>1, FS_Interval
  <1>3. AllowsUpTo(id, n) \in SUBSET ((since + 1)..n)
    BY DEF AllowsUpTo
  <1> QED BY <1>2, <1>3, FS_Subset, FS_CardinalityType

(* Unforgeability: the engine accepts the signature of no grant but those   *)
(* that the broker issued.                                                  *)
LEMMA VerifiedIsMinted ==
  ASSUME TypeOK, MintedSigned, NEW g \in GrantLike, g # NoGrant, VerifyGrant(g)
  PROVE  g \in minted
  <1>1. g \in [body : NormalBodies, signature : KnownSignatures]
    BY DEF GrantLike
  <1>2. /\ g.body.keyId \in DOMAIN Ring.keys
        /\ g.signature = HmacSha256(Ring.keys[g.body.keyId], g.body)
    BY DEF VerifyGrant, VerifySignature, HasKey
  <1>3. g.signature \notin ForeignSignatures
    BY <1>2, AuthzAssumption DEF HmacSha256
  <1>4. PICK m \in minted : m.signature = g.signature
    BY <1>1, <1>3 DEF KnownSignatures
  <1>5. m.body = g.body
    BY <1>2, <1>4, HmacInjective DEF MintedSigned
  <1>6. m \in [body : NormalBodies, signature : KnownSignatures]
    BY DEF TypeOK
  <1> QED BY <1>1, <1>4, <1>5, <1>6

(* What an allowed request has passed.                                      *)
LEMMA AllowedFacts ==
  ASSUME TypeOK, MintedSigned, NEW req \in Requests, Outcome(req) = "allowed"
  PROVE  /\ grants[req.grantId] \in minted
         /\ Covers(grants[req.grantId].body, req)
         /\ uses[req.grantId] < grants[req.grantId].body.maxUses
  <1> DEFINE g == grants[req.grantId]
  <1>1. req.grantId \in GrantIds /\ req.at \in Nat
    BY AuthzAssumption
  <1>2. g \in GrantLike /\ uses[req.grantId] \in Nat
    BY <1>1 DEF TypeOK
  <1>3. /\ g # NoGrant /\ VerifyGrant(g)
        /\ g.body.subjectId = req.subjectId
        /\ g.body.audience = req.audience
        /\ ~(req.at < NotBefore(g.body))
        /\ ~Expired(g.body, req.at)
        /\ g.body.nonce = req.nonce
        /\ ~(uses[req.grantId] >= g.body.maxUses)
        /\ Capable(g.body, req)
    BY DEF Outcome
  <1>4. g \in minted
    BY <1>2, <1>3, VerifiedIsMinted
  <1>5. g.body.id = req.grantId
    BY <1>1, <1>3 DEF TypeOK
  <1>6. PICK b \in Bodies : g.body = Normalize(b)
    BY <1>2, <1>3 DEF GrantLike, NormalBodies
  <1>7. /\ g.body.maxUses \in Nat
        /\ g.body.issuedAt \in Nat /\ g.body.expiresAt \in Nat
        /\ g.body.notBefore \in Int
    BY <1>6, AuthzAssumption DEF Normalize, Absent
  <1>8. Covers(g.body, req)
    BY <1>1, <1>3, <1>5, <1>7 DEF Covers, NotBefore, Expired
  <1> QED BY <1>2, <1>3, <1>4, <1>7, <1>8

----------------------------------------------------------------------------
(* Only the receipt of allowed requests moves the counters, and later       *)
(* requests leave the positions of earlier ones as they were.               *)
LEMMA AllowsUpToStable ==
  ASSUME TypeOK, NEW req, NEW g \in GrantLike, req \in Requests,
         allows' = Append(allows, [request |-> req, grant |-> g]), since' = since,
         NEW id
  PROVE  /\ \A n \in 0..Len(allows) : AllowsUpTo(id, n)' = AllowsUpTo(id, n)
         /\ AllowsUpTo(id, Len(allows))' =
              IF id = req.grantId
              THEN AllowsUpTo(id, Len(allows)) \union {Len(allows) + 1}
              ELSE AllowsUpTo(id, Len(allows))
         /\ Len(allows) + 1 \notin AllowsUpTo(id, Len(allows))
  <1>1. /\ Len(allows') = Len(allows) + 1 /\ Len(allows) \in Nat
        /\ \A i \in 1..Len(allows) : allows'[i] = allows[i]
        /\ allows'[Len(allows) + 1] = [request |-> req, grant |-> g]
    BY DEF TypeOK
  <1>2. since \in Nat /\ since <= Len(allows)
    BY <1>1 DEF TypeOK
  <1>3. \A n \in 0..Len(allows) : AllowsUpTo(id, n)' = AllowsUpTo(id, n)
    BY <1>1, <1>2 DEF AllowsUpTo
  <1>4. Len(allows) + 1 \notin AllowsUpTo(id, Len(allows))
    BY <1>1, <1>2 DEF AllowsUpTo
  <1>5. (since + 1)..(Len(allows) + 1) = ((since + 1)..Len(allows)) \union {Len(allows) + 1}
    BY <1>1, <1>2
  <1>6. AllowsUpTo(id, Len(allows))' =
          {j \in ((since + 1)..Len(allows)) \union {Len(allows) + 1} :
             allows'[j].request.grantId = id}
    BY <1>1, <1>5 DEF AllowsUpTo
  <1>7. /\ \A j \in (since + 1)..Len(allows) :
             allows'[j].request.grantId = allows[j].request.grantId
        /\ allows'[Len(allows) + 1].request.grantId = req.grantId
    BY <1>1, <1>2
  <1>8. AllowsUpTo(id, Len(allows))' =
          IF id = req.grantId
          THEN AllowsUpTo(id, Len(allows)) \union {Len(allows) + 1}
          ELSE AllowsUpTo(id, Len(allows))
    <2> DEFINE I == (since + 1)..Len(allows)
               last == Len(allows) + 1
               new(j) == allows'[j].request.grantId
               old(j) == allows[j].request.grantId
    <2>1. AllowsUpTo(id, Len(allows)) = {j \in I : old(j) = id}
      BY DEF AllowsUpTo
    <2>2. AllowsUpTo(id, Len(allows))' = {j \in I \union {last} : new(j) = id}
      BY <1>6
    <2>3. (\A j \in I : new(j) = old(j)) /\ new(last) = req.grantId
      BY <1>7
    <2> HIDE DEF I, last, new, old
    <2>4. {j \in I \union {last} : new(j) = id} =
            IF id = req.grantId THEN {j \in I : old(j) = id} \union {last}
            ELSE {j \in I : old(j) = id}
      BY <2>3
    <2> QED BY <2>1, <2>2, <2>4 DEF last
  <1> QED BY <1>3, <1>4, <1>8

(* The inductive invariant holds before anything is issued.                 *)
THEOREM InitIInv == ASSUME Init PROVE IInv
  <1>1. TypeOK
    BY DEF Init, TypeOK, GrantLike
  <1>2. MintedSigned
    BY DEF Init, MintedSigned
  <1>3. UsesCounted
    <2>1. since = 0 /\ Len(allows) = 0
      BY DEF Init
    <2>2. (since + 1)..Len(allows) = {}
      BY <2>1
    <2>3. \A id \in GrantIds : AllowsUpTo(id, Len(allows)) = {}
      BY <2>2 DEF AllowsUpTo
    <2> QED BY <2>3, FS_EmptySet DEF Init, UsesCounted
  <1>4. AllowedByMintedGrant /\ UseBudget
    BY DEF Init, AllowedByMintedGrant, UseBudget
  <1> QED BY <1>1, <1>2, <1>3, <1>4 DEF IInv

(* Each operation of the broker and of the engine preserves it.             *)
THEOREM StepIInv == ASSUME IInv, [Next]_vars PROVE IInv'
  <1> USE DEF IInv
  <1>1. ASSUME NEW b \in Bodies, Issue(b) PROVE IInv'
    <2> DEFINE m == GrantOf(Normalize(b), SignWith(Ring, b.keyId, Normalize(b)).value)
    <2>1. /\ minted' = minted \union {m}
          /\ UNCHANGED <<grants, uses, receipt, allows, since>>
          /\ HasKey(Ring, b.keyId)
      BY <1>1 DEF Issue
    <2>2. /\ m.body = Normalize(b) /\ m.body.keyId = b.keyId
          /\ m.signature = HmacSha256(Ring.keys[b.keyId], Normalize(b))
      BY NormalizeFacts DEF GrantOf, SignWith
    <2>3. m = [body |-> Normalize(b), signature |-> m.signature]
      BY DEF GrantOf
    <2>4. KnownSignatures \subseteq KnownSignatures' /\ m.signature \in KnownSignatures'
      BY <2>1 DEF KnownSignatures
    <2>5. GrantLike \subseteq GrantLike' /\ m \in [body : NormalBodies, signature : KnownSignatures']
      BY <2>2, <2>3, <2>4, NormalizeFacts DEF GrantLike
    <2>6. TypeOK'
      <3>1. minted' \subseteq [body : NormalBodies, signature : KnownSignatures']
        BY <2>1, <2>4, <2>5 DEF TypeOK
      <3>2. grants' \in [GrantIds -> GrantLike']
        BY <2>1, <2>5 DEF TypeOK
      <3>3. allows' \in Seq([request : Requests, grant : GrantLike'])
        <4>1. [request : Requests, grant : GrantLike]
                \subseteq [request : Requests, grant : GrantLike']
          BY <2>5
        <4>2. allows \in Seq([request : Requests, grant : GrantLike])
          BY DEF TypeOK
        <4>3. allows \in Seq([request : Requests, grant : GrantLike'])
          BY <4>1, <4>2, SeqMonotonic
        <4> QED BY <2>1, <4>3
      <3> QED BY <2>1, <3>1, <3>2, <3>3 DEF TypeOK
    <2>7. MintedSigned'
      BY <2>1, <2>2 DEF MintedSigned
    <2>8. UsesCounted' /\ UseBudget'
      BY <2>1 DEF UsesCounted, UseBudget, AllowsUpTo
    <2>9. AllowedByMintedGrant'
      BY <2>1 DEF AllowedByMintedGrant, Covers, Capable
    <2> QED BY <2>6, <2>7, <2>8, <2>9
  <1>2. ASSUME NEW b \in Bodies, NEW s \in KnownSignatures, Register(b, s)
        PROVE IInv'
    <2>1. /\ grants' = [grants EXCEPT ![b.id] = GrantOf(Normalize(b), s)]
          /\ UNCHANGED <<minted, uses, receipt, allows, since>>
      BY <1>2 DEF Register
    <2>2. GrantOf(Normalize(b), s) \in GrantLike /\ GrantOf(Normalize(b), s).body.id = b.id
      BY NormalizeFacts DEF GrantLike, GrantOf
    <2>3. KnownSignatures' = KnownSignatures /\ GrantLike' = GrantLike
      BY <2>1 DEF KnownSignatures, GrantLike
    <2>4. TypeOK'
      BY <2>1, <2>2, <2>3, NormalizeFacts DEF TypeOK
    <2>5. MintedSigned' /\ UsesCounted' /\ AllowedByMintedGrant' /\ UseBudget'
      BY <2>1 DEF MintedSigned, UsesCounted, AllowedByMintedGrant, UseBudget,
                  AllowsUpTo, Covers, Capable
    <2> QED BY <2>4, <2>5
  <1>3. ASSUME NEW req \in Requests, Authorize(req) PROVE IInv'
    <2> DEFINE id == req.grantId
               g == grants[req.grantId]
    <2>1. /\ UNCHANGED <<minted, grants, since>>
          /\ receipt' = [request |-> req, outcome |-> Outcome(req)]
      BY <1>3 DEF Authorize
    <2>2. KnownSignatures' = KnownSignatures /\ GrantLike' = GrantLike
      BY <2>1 DEF KnownSignatures, GrantLike
    <2>3. id \in GrantIds /\ g \in GrantLike /\ uses[id] \in Nat
      BY AuthzAssumption DEF TypeOK
    <2>4. MintedSigned'
      BY <2>1 DEF MintedSigned
    <2>5. CASE Outcome(req) # "allowed"
      <3>1. UNCHANGED <<uses, allows>>
        BY <1>3, <2>5 DEF Authorize
      <3>2. TypeOK'
        BY <2>1, <2>2, <3>1 DEF TypeOK
      <3>3. UsesCounted' /\ AllowedByMintedGrant' /\ UseBudget'
        BY <2>1, <3>1 DEF UsesCounted, AllowedByMintedGrant, UseBudget,
                          AllowsUpTo, Covers, Capable
      <3> QED BY <2>4, <3>2, <3>3
    <2>6. CASE Outcome(req) = "allowed"
      <3>1. /\ uses' = [uses EXCEPT ![id] = @ + 1]
            /\ allows' = Append(allows, [request |-> req, grant |-> g])
        BY <1>3, <2>6 DEF Authorize, Allow
      <3>2. g \in minted /\ Covers(g.body, req) /\ uses[id] < g.body.maxUses
        BY <2>6, AllowedFacts
      <3>3. /\ Len(allows') = Len(allows) + 1 /\ Len(allows) \in Nat
            /\ \A i \in 1..Len(allows) : allows'[i] = allows[i]
            /\ allows'[Len(allows) + 1] = [request |-> req, grant |-> g]
        BY <3>1 DEF TypeOK
      <3>4. TypeOK'
        BY <2>1, <2>2, <2>3, <3>1 DEF TypeOK
      <3>5. AllowedByMintedGrant'
        <4>1. ASSUME NEW i \in 1..Len(allows')
              PROVE  /\ allows'[i].grant \in minted
                     /\ Covers(allows'[i].grant.body, allows'[i].request)
          <5>1. CASE i \in 1..Len(allows)
            BY <3>3, <5>1 DEF AllowedByMintedGrant
          <5>2. CASE i = Len(allows) + 1
            BY <3>2, <3>3, <5>2
          <5> QED BY <3>3, <5>1, <5>2
        <4> QED BY <2>1, <4>1 DEF AllowedByMintedGrant, Covers, Capable
      <3>6. \A d : /\ \A n \in 0..Len(allows) : AllowsUpTo(d, n)' = AllowsUpTo(d, n)
                   /\ AllowsUpTo(d, Len(allows))' =
                        IF d = id THEN AllowsUpTo(d, Len(allows)) \union {Len(allows) + 1}
                        ELSE AllowsUpTo(d, Len(allows))
                   /\ Len(allows) + 1 \notin AllowsUpTo(d, Len(allows))
        BY <2>1, <2>3, <3>1, AllowsUpToStable
      <3>7. Cardinality(AllowsUpTo(id, Len(allows))') = uses[id] + 1
        <4>1. IsFiniteSet(AllowsUpTo(id, Len(allows)))
          BY <3>3, AllowsFinite
        <4>2. Cardinality(AllowsUpTo(id, Len(allows)) \union {Len(allows) + 1})
                = Cardinality(AllowsUpTo(id, Len(allows))) + 1
          BY <3>6, <4>1, FS_AddElement
        <4> QED BY <2>3, <3>6, <4>2 DEF UsesCounted
      <3>8. UsesCounted'
        BY <2>3, <3>1, <3>6, <3>7 DEF UsesCounted, TypeOK
      <3>9. UseBudget'
        <4>1. g.body.maxUses \in Nat
          BY <2>3, <3>2, NormalizeFacts DEF TypeOK, NormalBodies
        <4>2. since' = since /\ since \in Nat
          BY <2>1 DEF TypeOK
        <4>3. ASSUME NEW i \in (since + 1)..Len(allows), NEW d,
                     d = allows'[i].request.grantId
              PROVE  Cardinality(AllowsUpTo(d, i)') <= allows'[i].grant.body.maxUses
          <5>1. i \in 0..Len(allows) /\ i \in 1..Len(allows)
            BY <3>3, <4>2
          <5>2. allows'[i] = allows[i]
            BY <3>3, <5>1
          <5>3. AllowsUpTo(d, i)' = AllowsUpTo(d, i)
            BY <3>6, <5>1
          <5> QED BY <4>3, <5>2, <5>3 DEF UseBudget
        <4>4. Cardinality(AllowsUpTo(id, Len(allows))') <= g.body.maxUses
          <5>1. Cardinality(AllowsUpTo(id, Len(allows))') = uses[id] + 1
            BY <3>7
          <5> QED BY <5>1, <2>3, <3>2, <4>1
        <4>5. ASSUME NEW i \in (since' + 1)..Len(allows'), NEW d,
                     d = allows'[i].request.grantId
              PROVE  Cardinality(AllowsUpTo(d, i)') <= allows'[i].grant.body.maxUses
          <5>1. CASE i \in (since + 1)..Len(allows)
            BY <4>3, <4>5, <5>1
          <5>2. CASE i = Len(allows')
            <6>1. d = id /\ allows'[i].grant = g
              BY <3>3, <4>5, <5>2
            <6>2. AllowsUpTo(d, i)' = AllowsUpTo(id, Len(allows))'
              BY <5>2, <6>1 DEF AllowsUpTo
            <6> QED BY <4>4, <6>1, <6>2
          <5> QED BY <3>3, <4>2, <5>1, <5>2
        <4> QED BY <4>5 DEF UseBudget, AllowsUpTo
      <3> QED BY <2>4, <3>4, <3>5, <3>8, <3>9
    <2> QED BY <2>5, <2>6
  <1>4. CASE Restart
    <2>1. /\ grants' = [i \in GrantIds |-> NoGrant]
          /\ uses' = [i \in GrantIds |-> 0]
          /\ since' = Len(allows)
          /\ UNCHANGED <<minted, receipt, allows>>
      BY <1>4 DEF Restart
    <2>2. KnownSignatures' = KnownSignatures /\ GrantLike' = GrantLike
      BY <2>1 DEF KnownSignatures, GrantLike
    <2>3. Len(allows) \in Nat
      BY DEF TypeOK
    <2>4. TypeOK'
      BY <2>1, <2>2, <2>3 DEF TypeOK, GrantLike
    <2>5. MintedSigned' /\ AllowedByMintedGrant'
      BY <2>1 DEF MintedSigned, AllowedByMintedGrant, Covers, Capable
    <2>6. UsesCounted'
      <3>1. \A id \in GrantIds : AllowsUpTo(id, Len(allows))' = {}
        BY <2>1, <2>3 DEF AllowsUpTo
      <3> QED BY <2>1, <3>1, FS_EmptySet DEF UsesCounted
    <2>7. UseBudget'
      BY <2>1, <2>3 DEF UseBudget
    <2> QED BY <2>4, <2>5, <2>6, <2>7
  <1>5. CASE UNCHANGED vars
    BY <1>5 DEF vars, TypeOK, GrantLike, KnownSignatures, MintedSigned, UsesCounted,
                AllowedByMintedGrant, UseBudget, AllowsUpTo, Covers, Capable
  <1> QED BY <1>1, <1>2, <1>3, <1>4, <1>5 DEF Next

----------------------------------------------------------------------------
(* The conjunction of everything below: broker and engine never leave the   *)
(* inductive invariant.                                                     *)
THEOREM Invariance == Spec => []IInv
  BY InitIInv, StepIInv, PTL DEF Spec

(* Type correctness of the broker and the engine.                           *)
THEOREM TypeCorrect == Spec => []TypeOK
  <1>1. IInv => TypeOK
    BY DEF IInv
  <1> QED BY Invariance, <1>1, PTL

(* Every allowed request was covered by a grant the broker issued, whoever  *)
(* registered what: engine.ts:26, engine.ts:54-128.                         *)
THEOREM OnlyMintedGrantsAllow == Spec => []AllowedByMintedGrant
  <1>1. IInv => AllowedByMintedGrant
    BY DEF IInv
  <1> QED BY Invariance, <1>1, PTL

(* No engine allows more requests under a grant id than the grant's budget, *)
(* however often grants are registered under that id: engine.ts:105-111.    *)
THEOREM BudgetKept == Spec => []UseBudget
  <1>1. IInv => UseBudget
    BY DEF IInv
  <1> QED BY Invariance, <1>1, PTL

----------------------------------------------------------------------------
(* A request that a minted grant with budget left covers passes every check. *)
LEMMA CoveredIsAllowed ==
  ASSUME IInv, NEW req \in Requests, req.wellFormed,
         grants[req.grantId] # NoGrant, grants[req.grantId] \in minted,
         Covers(grants[req.grantId].body, req),
         uses[req.grantId] < grants[req.grantId].body.maxUses
  PROVE  Outcome(req) = "allowed"
  <1> DEFINE g == grants[req.grantId]
             n == uses[req.grantId]
  <1>1. req.grantId \in GrantIds /\ req.at \in Nat
    BY AuthzAssumption
  <1>2. g \in GrantLike /\ n \in Nat
    BY <1>1 DEF IInv, TypeOK
  <1>3. PICK b \in Bodies : g.body = Normalize(b)
    BY <1>2 DEF GrantLike, NormalBodies
  <1>4. /\ g.body.maxUses \in Nat
        /\ g.body.issuedAt \in Nat /\ g.body.expiresAt \in Nat
        /\ g.body.notBefore \in Int
    BY <1>3, AuthzAssumption DEF Normalize, Absent
  <1>5. VerifyGrant(g)
    BY DEF IInv, MintedSigned, VerifyGrant, VerifySignature
  <1>6. /\ g.body.subjectId = req.subjectId
        /\ g.body.audience = req.audience
        /\ g.body.nonce = req.nonce
        /\ ~(req.at < NotBefore(g.body))
        /\ ~Expired(g.body, req.at)
        /\ Capable(g.body, req)
    BY <1>1, <1>4 DEF Covers, NotBefore, Expired
  <1>7. ~(n >= g.body.maxUses) /\ ~(g.body.maxUses = 1 /\ n >= 1)
    BY <1>2, <1>4
  <1> QED BY <1>5, <1>6, <1>7 DEF Outcome

(* A request is allowed exactly when a minted grant covers it and has       *)
(* budget left: no denial and no registration spends any of it              *)
(* (engine.ts:117).                                                         *)
THEOREM DenialsBurnNothing == Spec => AllowedWhileBudgetLasts
  <1> DEFINE req == receipt'.request
             g == grants[req.grantId]
             Deserved ==
               /\ req.wellFormed
               /\ g # NoGrant
               /\ g \in minted
               /\ Covers(g.body, req)
               /\ Cardinality(AllowsUpTo(req.grantId, Len(allows))) < g.body.maxUses
  <1>1. ASSUME IInv, IInv', receipt' # NoReceipt, Authorize(req)
        PROVE  receipt'.outcome = "allowed" <=> Deserved
    <2>1. req \in Requests /\ req.grantId \in GrantIds
      BY <1>1, AuthzAssumption DEF IInv, TypeOK
    <2>2. receipt'.outcome = Outcome(req)
      <3>1. receipt' = [request |-> req, outcome |-> Outcome(req)]
        BY <1>1 DEF Authorize
      <3> QED BY <3>1
    <2>3. uses[req.grantId] = Cardinality(AllowsUpTo(req.grantId, Len(allows)))
      BY <1>1, <2>1 DEF IInv, UsesCounted
    <2>4. ASSUME Outcome(req) = "allowed" PROVE Deserved
      <3>1. req.wellFormed /\ g # NoGrant
        BY <2>4 DEF Outcome
      <3>2. g \in minted /\ Covers(g.body, req) /\ uses[req.grantId] < g.body.maxUses
        BY <1>1, <2>1, <2>4, AllowedFacts DEF IInv
      <3> QED BY <2>3, <3>1, <3>2
    <2>5. ASSUME Deserved PROVE Outcome(req) = "allowed"
      BY <1>1, <2>1, <2>3, <2>5, CoveredIsAllowed
    <2> QED BY <2>2, <2>4, <2>5
  <1>2. IInv /\ IInv' /\ [Next]_vars =>
          [receipt' # NoReceipt =>
             (Authorize(req) => (receipt'.outcome = "allowed" <=> Deserved))]_vars
    BY <1>1
  <1>3. Spec => [][receipt' # NoReceipt =>
             (Authorize(req) => (receipt'.outcome = "allowed" <=> Deserved))]_vars
    BY <1>2, Invariance, PTL DEF Spec
  <1> QED BY <1>3 DEF AllowedWhileBudgetLasts

----------------------------------------------------------------------------
(* Resource patterns: by induction over a pattern, from its end, its pieces *)
(* match what it means.                                                     *)

\* What the pieces of a compiled pattern can be.
Piece(p) == Range(p) \union {SegmentRun, AnyRun}

\* What Compile makes of the places of p from i on, given the pieces of later ones.
CompileStep(p, f, i) ==
  IF i > Len(p) THEN <<>>
  ELSE IF p[i] # Star THEN <<p[i]>> \o f[i + 1]
  ELSE IF i < Len(p) /\ p[i + 1] = Star THEN <<AnyRun>> \o f[i + 2]
  ELSE <<SegmentRun>> \o f[i + 1]

(* Compile is defined by recursion, and that recursion has a solution.      *)
LEMMA CompileUnfolds ==
  ASSUME NEW p, IsSeq(p)
  PROVE  /\ CompileFrom(p) \in [1..(Len(p) + 1) -> Seq(Piece(p))]
         /\ \A i \in 1..(Len(p) + 1) :
              CompileFrom(p)[i] = CompileStep(p, CompileFrom(p), i)
  <1> DEFINE n == Len(p)
             S == 1..(n + 1)
             V == Seq(Piece(p))
             Solves(f) == f = [i \in S |-> CompileStep(p, f, i)]
             h == CompileFrom(p)
  <1>1. /\ n \in Nat
        /\ \A i \in 1..n : p[i] \in Piece(p)
        /\ <<>> \in V
        /\ \A x \in Piece(p), s \in V : <<x>> \o s \in V
    BY DEF IsSeq, Piece, Range
  <1>2. ASSUME NEW f, NEW i \in S,
               i <= n => f[i + 1] \in V,
               i < n => f[i + 2] \in V
        PROVE  CompileStep(p, f, i) \in V
    <2>1. SegmentRun \in Piece(p) /\ AnyRun \in Piece(p)
      BY DEF Piece
    <2>2. CASE i > n
      BY <1>1, <2>2 DEF CompileStep
    <2>3. CASE i <= n
      <3>1. p[i] \in Piece(p) /\ f[i + 1] \in V /\ ~(i > n)
        BY <1>1, <1>2, <2>3
      <3> HIDE DEF V, n
      <3> QED BY <1>1, <1>2, <2>1, <3>1 DEF CompileStep, n
    <2> QED BY <1>1, <2>2, <2>3
  <1>3. \E f : Solves(f)
    <2> DEFINE rank == [i \in S |-> n + 1 - i]
               G == [i \in S |-> [f \in [S -> V] |-> CompileStep(p, f, i)]]
    <2>1. rank \in [S -> 0..n]
      BY <1>1
    <2>2. G \in [S -> [[S -> V] -> V]]
      <3>1. ASSUME NEW i \in S, NEW f \in [S -> V] PROVE CompileStep(p, f, i) \in V
        <4>1. (i <= n => i + 1 \in S) /\ (i < n => i + 2 \in S)
          BY <1>1
        <4> HIDE DEF V, S
        <4> QED BY <1>2, <4>1
      <3> HIDE DEF V, S
      <3> QED BY <3>1
    <2>3. ASSUME NEW i \in S, NEW f \in [S -> V], NEW g \in [S -> V],
                 \A j \in S : rank[j] < rank[i] => f[j] = g[j]
          PROVE  G[i][f] = G[i][g]
      <3>1. \A j \in S : j > i => f[j] = g[j]
        BY <1>1, <2>3
      <3>2. (i <= n => i + 1 \in S) /\ (i < n => i + 2 \in S)
        BY <1>1
      <3>3. (i <= n => f[i + 1] = g[i + 1]) /\ (i < n => f[i + 2] = g[i + 2])
        BY <1>1, <3>1, <3>2
      <3>4. CompileStep(p, f, i) = CompileStep(p, g, i)
        BY <1>1, <3>3 DEF CompileStep
      <3> HIDE DEF V, S
      <3> QED BY <3>4
    <2> HIDE DEF V, S, rank, G, n
    <2>4. V # {} /\ n \in Nat
      BY <1>1
    <2>5. IsRecursion(G, S, V, rank, n)
      BY <2>1, <2>2, <2>3, <2>4 DEF IsRecursion
    <2>6. PICK f \in [S -> V] : \A i \in S : f[i] = G[i][f]
      BY <2>5, RecursionDefines
    <2>7. \A i \in S : f[i] = CompileStep(p, f, i)
      BY <2>6 DEF G
    <2>8. Solves(f)
      BY <2>7
    <2> QED BY <2>8
  <1>4. Solves(h)
    <2>1. h = CHOOSE f : Solves(f)
      BY DEF CompileFrom, CompileStep
    <2> HIDE DEF h, Solves
    <2> QED BY <1>3, <2>1, Zenon
  <1>5. \A i \in S : h[i] = CompileStep(p, h, i)
    <2> HIDE DEF h
    <2> QED BY <1>4
  <1> DEFINE T == {k \in Nat : \A i \in S : n + 1 - i <= k => h[i] \in V}
  <1> HIDE DEF h, V
  <1>6. 0 \in T
    <2>1. n + 1 \in S /\ n + 1 > n
      BY <1>1
    <2>2. h[n + 1] = <<>>
      BY <1>5, <2>1 DEF CompileStep
    <2> QED BY <1>1, <2>2
  <1>7. ASSUME NEW k \in Nat, k \in T PROVE k + 1 \in T
    <2>1. ASSUME NEW i \in S, n + 1 - i <= k + 1 PROVE h[i] \in V
      <3>1. (i <= n => h[i + 1] \in V) /\ (i < n => h[i + 2] \in V)
        BY <1>1, <1>7, <2>1
      <3> QED BY <1>2, <1>5, <3>1
    <2> QED BY <2>1
  <1>8. n + 1 \in T
    <2> HIDE DEF T
    <2> QED BY <1>1, <1>6, <1>7, SetInduction
  <1>9. \A i \in S : h[i] \in V
    BY <1>1, <1>8
  <1>10. h \in [S -> V]
    BY <1>4, <1>9
  <1> QED BY <1>5, <1>10 DEF h, V

\* The places from which the pieces from the i-th on match, given those of later ones.
MatchStep(pieces, r, f, i) ==
  LET end == Len(r) + 1
      runs(j, k) == \A l \in j..(k - 1) : r[l] \notin Stops(pieces[i])
  IN IF i > Len(pieces) THEN {end}
     ELSE IF pieces[i] \in {SegmentRun, AnyRun}
          THEN {j \in 1..end : \E k \in f[i + 1] : j <= k /\ runs(j, k)}
     ELSE {j \in 1..Len(r) : r[j] = pieces[i] /\ j + 1 \in f[i + 1]}

(* So is the matcher.                                                       *)
LEMMA MatchUnfolds ==
  ASSUME NEW ps, NEW r, Len(ps) \in Nat, Len(r) \in Nat
  PROVE  \A i \in 1..(Len(ps) + 1) :
           /\ MatchFrom(ps, r)[i] \subseteq 1..(Len(r) + 1)
           /\ MatchFrom(ps, r)[i] = MatchStep(ps, r, MatchFrom(ps, r), i)
  <1> DEFINE n == Len(ps)
             S == 1..(n + 1)
             V == SUBSET (1..(Len(r) + 1))
             Solves(f) == f = [i \in S |-> MatchStep(ps, r, f, i)]
             h == MatchFrom(ps, r)
             rank == [i \in S |-> n + 1 - i]
             G == [i \in S |-> [f \in [S -> V] |-> MatchStep(ps, r, f, i)]]
  <1>1. ASSUME NEW f, NEW i \in S PROVE MatchStep(ps, r, f, i) \in V
    BY DEF MatchStep
  <1>2. rank \in [S -> 0..n]
    OBVIOUS
  <1>3. G \in [S -> [[S -> V] -> V]]
    <2> HIDE DEF V, S
    <2> QED BY <1>1
  <1>4. ASSUME NEW i \in S, NEW f \in [S -> V], NEW g \in [S -> V],
               \A j \in S : rank[j] < rank[i] => f[j] = g[j]
        PROVE  G[i][f] = G[i][g]
    <2>1. \A j \in S : j > i => f[j] = g[j]
      BY <1>4
    <2>2. i <= n => f[i + 1] = g[i + 1]
      BY <2>1
    <2>3. MatchStep(ps, r, f, i) = MatchStep(ps, r, g, i)
      <3>1. CASE i > n
        BY <3>1 DEF MatchStep
      <3>2. CASE f[i + 1] = g[i + 1]
        BY <3>2, Zenon DEF MatchStep
      <3> QED BY <2>2, <3>1, <3>2
    <2> HIDE DEF V, S
    <2> QED BY <2>3
  <1> HIDE DEF V, S, rank, G, n
  <1>5. V # {} /\ n \in Nat
    BY DEF V, n
  <1>6. IsRecursion(G, S, V, rank, n)
    BY <1>2, <1>3, <1>4, <1>5 DEF IsRecursion
  <1>7. PICK f \in [S -> V] : \A i \in S : f[i] = G[i][f]
    BY <1>6, RecursionDefines
  <1>8. \A i \in S : f[i] = MatchStep(ps, r, f, i)
    BY <1>7 DEF G
  <1>9. Solves(f)
    BY <1>8
  <1>10. Solves(h)
    <2>1. h = CHOOSE g : Solves(g)
      BY DEF MatchFrom, MatchStep, S, n
    <2> HIDE DEF h, Solves
    <2> QED BY <1>9, <2>1, Zenon
  <1> HIDE DEF h
  <1>11. \A i \in S : h[i] = MatchStep(ps, r, h, i)
    BY <1>10
  <1>12. \A i \in S : h[i] \in V
    BY <1>1, <1>11
  <1> QED BY <1>11, <1>12 DEF h, S, n, V

----------------------------------------------------------------------------
(* How many stars end at a place.                                           *)
LEMMA StarsCount ==
  ASSUME NEW p, NEW k \in Nat \ {0}
  PROVE  /\ StarsUpTo(p, 0) = 0
         /\ StarsUpTo(p, k - 1) \in Nat
         /\ StarsUpTo(p, k) =
              IF p[k] = Star THEN StarsUpTo(p, k - 1) + 1 ELSE 0
  <1> DEFINE Run(m) == {j \in 1..m : \A i \in j..m : p[i] = Star}
  <1>1. StarsUpTo(p, 0) = 0
    <2>1. Run(0) = {}
      OBVIOUS
    <2> QED BY <2>1, FS_EmptySet DEF StarsUpTo
  <1>2. IsFiniteSet(Run(k - 1))
    <2>1. IsFiniteSet(1..(k - 1))
      BY FS_Interval
    <2>2. Run(k - 1) \subseteq 1..(k - 1)
      OBVIOUS
    <2> QED BY <2>1, <2>2, FS_Subset
  <1>3. StarsUpTo(p, k - 1) \in Nat
    BY <1>2, FS_CardinalityType DEF StarsUpTo
  <1>4. CASE p[k] = Star
    <2>1. Run(k) = Run(k - 1) \union {k}
      BY <1>4
    <2>2. k \notin Run(k - 1)
      OBVIOUS
    <2> HIDE DEF Run
    <2>3. Cardinality(Run(k)) = Cardinality(Run(k - 1)) + 1
      BY <1>2, <2>1, <2>2, FS_AddElement
    <2> QED BY <1>1, <1>3, <1>4, <2>3 DEF StarsUpTo, Run
  <1>5. CASE p[k] # Star
    <2>1. Run(k) = {}
      BY <1>5
    <2> QED BY <1>1, <1>3, <1>5, <2>1, FS_EmptySet DEF StarsUpTo
  <1> QED BY <1>4, <1>5

(* The symbols of p from the k-th on can have the places of r from j on.    *)
CutsFrom(p, r, k, j) ==
  \E cut \in [0..Len(p) -> 0..Len(r)] :
    /\ cut[k - 1] = j - 1 /\ cut[Len(p)] = Len(r)
    /\ \A q \in k..Len(p) :
         /\ cut[q - 1] <= cut[q]
         /\ PartOf(p, q, SubSeq(r, cut[q - 1] + 1, cut[q]))

(* The first of the symbols has some part of r, the others the rest of it.  *)
LEMMA CutsStep ==
  ASSUME NEW p, NEW r, Len(p) \in Nat, Len(r) \in Nat,
         NEW k \in 1..Len(p), NEW j \in 1..(Len(r) + 1)
  PROVE  CutsFrom(p, r, k, j) <=>
           \E e \in (j - 1)..Len(r) :
             PartOf(p, k, SubSeq(r, j, e)) /\ CutsFrom(p, r, k + 1, e + 1)
  <1>1. ASSUME CutsFrom(p, r, k, j)
        PROVE  \E e \in (j - 1)..Len(r) :
                 PartOf(p, k, SubSeq(r, j, e)) /\ CutsFrom(p, r, k + 1, e + 1)
    <2>1. PICK cut \in [0..Len(p) -> 0..Len(r)] :
            /\ cut[k - 1] = j - 1 /\ cut[Len(p)] = Len(r)
            /\ \A q \in k..Len(p) :
                 /\ cut[q - 1] <= cut[q]
                 /\ PartOf(p, q, SubSeq(r, cut[q - 1] + 1, cut[q]))
      BY <1>1 DEF CutsFrom
    <2>2. k \in 0..Len(p) /\ cut[k] \in (j - 1)..Len(r)
      BY <2>1
    <2>3. PartOf(p, k, SubSeq(r, j, cut[k]))
      <3>1. cut[k - 1] + 1 = j
        BY <2>1
      <3> QED BY <2>1, <3>1
    <2>4. CutsFrom(p, r, k + 1, cut[k] + 1)
      <3>1. cut[k + 1 - 1] = cut[k] + 1 - 1
        BY <2>2
      <3>2. \A q \in (k + 1)..Len(p) : q \in k..Len(p)
        OBVIOUS
      <3> QED BY <2>1, <3>1, <3>2 DEF CutsFrom
    <2> QED BY <2>2, <2>3, <2>4
  <1>2. ASSUME NEW e \in (j - 1)..Len(r), PartOf(p, k, SubSeq(r, j, e)),
               CutsFrom(p, r, k + 1, e + 1)
        PROVE  CutsFrom(p, r, k, j)
    <2>1. PICK cut \in [0..Len(p) -> 0..Len(r)] :
            /\ cut[k + 1 - 1] = e + 1 - 1 /\ cut[Len(p)] = Len(r)
            /\ \A q \in (k + 1)..Len(p) :
                 /\ cut[q - 1] <= cut[q]
                 /\ PartOf(p, q, SubSeq(r, cut[q - 1] + 1, cut[q]))
      BY <1>2 DEF CutsFrom
    <2> DEFINE d == [cut EXCEPT ![k - 1] = j - 1]
    <2>2. k - 1 \in 0..Len(p) /\ j - 1 \in 0..Len(r) /\ k + 1 - 1 = k /\ e + 1 - 1 = e
      OBVIOUS
    <2>3. /\ d \in [0..Len(p) -> 0..Len(r)]
          /\ d[k - 1] = j - 1
          /\ \A q \in k..Len(p) : q \in 0..Len(p) /\ d[q] = cut[q]
      BY <2>2
    <2> HIDE DEF d
    <2>4. d[Len(p)] = Len(r) /\ d[k] = e
      BY <2>1, <2>2, <2>3
    <2>5. ASSUME NEW q \in k..Len(p)
          PROVE  d[q - 1] <= d[q] /\ PartOf(p, q, SubSeq(r, d[q - 1] + 1, d[q]))
      <3>1. CASE q = k
        <4>1. d[q - 1] + 1 = j /\ d[q - 1] = j - 1 /\ d[q] = e
          BY <2>3, <2>4, <3>1
        <4> QED BY <1>2, <3>1, <4>1
      <3>2. CASE q # k
        <4>1. q \in (k + 1)..Len(p) /\ q - 1 \in k..Len(p)
          BY <3>2
        <4> QED BY <2>1, <2>3, <4>1
      <3> QED BY <3>1, <3>2
    <2> QED BY <2>3, <2>4, <2>5 DEF CutsFrom
  <1> QED BY <1>1, <1>2

\* A place of p at which a symbol is not the second of a pair of stars.
Starts(p, k) ==
  k = Len(p) + 1 \/ p[k] # Star \/ StarsUpTo(p, k - 1) % 2 = 0

\* The pieces from the i-th on are what p was compiled to from its k-th symbol on.
Aligned(p, ps, k, i) ==
  LET rest == CompileFrom(p)[k]
  IN Len(rest) = Len(ps) + 1 - i /\ \A q \in 1..Len(rest) : rest[q] = ps[i + q - 1]

(* A pattern and its pieces stay aligned, piece by piece.                    *)
LEMMA NextAligned ==
  ASSUME NEW p, NEW ps, IsSeq(ps), NEW k, NEW m, NEW i \in 1..(Len(ps) + 1), NEW x,
         NEW X, CompileFrom(p)[m] \in Seq(X), x \in X,
         CompileFrom(p)[k] = <<x>> \o CompileFrom(p)[m], Aligned(p, ps, k, i)
  PROVE  i \in 1..Len(ps) /\ ps[i] = x /\ Aligned(p, ps, m, i + 1)
  <1> DEFINE a == CompileFrom(p)[k]
             b == CompileFrom(p)[m]
  <1>1. Len(ps) \in Nat
    BY DEF IsSeq
  <1>2. /\ Len(b) \in Nat /\ Len(a) = Len(b) + 1 /\ a[1] = x
        /\ \A q \in 1..Len(b) : a[q + 1] = b[q]
    <2> HIDE DEF a, b
    <2>1. b \in Seq(X) /\ a = <<x>> \o b
      BY DEF a, b
    <2> QED BY <2>1
  <1>3. Len(a) = Len(ps) + 1 - i /\ \A q \in 1..Len(a) : a[q] = ps[i + q - 1]
    BY DEF Aligned
  <1> HIDE DEF a, b
  <1>4. i \in 1..Len(ps) /\ ps[i] = x
    <2>1. 1 \in 1..Len(a) /\ i + 1 - 1 = i
      BY <1>1, <1>2
    <2> QED BY <1>1, <1>2, <1>3, <2>1
  <1>5. ASSUME NEW q \in 1..Len(b) PROVE b[q] = ps[i + 1 + q - 1]
    <2>1. q + 1 \in 1..Len(a) /\ i + (q + 1) - 1 = i + 1 + q - 1
      BY <1>2
    <2> QED BY <1>2, <1>3, <2>1
  <1>6. Len(b) = Len(ps) + 1 - (i + 1)
    BY <1>1, <1>2, <1>3
  <1> QED BY <1>4, <1>5, <1>6 DEF Aligned, b

\* What p means from its k-th symbol on is what its pieces match from the i-th on.
Agree(p, r, ps, k, i) ==
  Aligned(p, ps, k, i) =>
    \A j \in 1..(Len(r) + 1) : j \in MatchFrom(ps, r)[i] <=> CutsFrom(p, r, k, j)

\* A symbol is the star or has no star, so it is never the name of a piece.
NoPiece(p) == SegmentRun \notin Range(p) /\ AnyRun \notin Range(p)

(* The part of a sequence between two of its places.                        *)
LEMMA PartFacts ==
  ASSUME NEW r, IsSeq(r), NEW j \in 1..(Len(r) + 1), NEW e \in (j - 1)..Len(r)
  PROVE  /\ SubSeq(r, j, e) \in Seq(Range(r))
         /\ Len(SubSeq(r, j, e)) = e + 1 - j
         /\ DOMAIN SubSeq(r, j, e) = 1..(e + 1 - j)
         /\ \A l \in 1..(e + 1 - j) : /\ SubSeq(r, j, e)[l] = r[j + l - 1]
                                      /\ j + l - 1 \in j..e
  <1>1. Len(r) \in Nat /\ r \in Seq(Range(r))
    BY DEF IsSeq
  <1>2. /\ SubSeq(r, j, e) \in Seq(Range(r))
        /\ Len(SubSeq(r, j, e)) = e + 1 - j
        /\ \A l \in 1..(e + 1 - j) : SubSeq(r, j, e)[l] = r[j + l - 1]
    BY <1>1
  <1>3. DOMAIN SubSeq(r, j, e) = 1..(e + 1 - j)
    BY <1>2
  <1> QED BY <1>2, <1>3

(* A symbol that is not a star: piece and symbol take the one same symbol.   *)
LEMMA LiteralAgrees ==
  ASSUME NEW p, IsSeq(p), NoPiece(p), NEW r, IsSeq(r), NEW ps, IsSeq(ps),
         NEW k \in 1..Len(p), p[k] # Star,
         NEW i \in 1..(Len(ps) + 1), i <= Len(ps) => Agree(p, r, ps, k + 1, i + 1)
  PROVE  Agree(p, r, ps, k, i)
  <1> SUFFICES ASSUME Aligned(p, ps, k, i), NEW j \in 1..(Len(r) + 1)
               PROVE  j \in MatchFrom(ps, r)[i] <=> CutsFrom(p, r, k, j)
    BY DEF Agree
  <1>1. Len(p) \in Nat /\ Len(r) \in Nat /\ Len(ps) \in Nat
    BY DEF IsSeq
  <1>2. CompileFrom(p)[k] = <<p[k]>> \o CompileFrom(p)[k + 1]
    <2>1. k \in 1..(Len(p) + 1) /\ ~(k > Len(p))
      BY <1>1
    <2>2. CompileFrom(p)[k] = CompileStep(p, CompileFrom(p), k)
      BY <2>1, CompileUnfolds
    <2> QED BY <2>1, <2>2 DEF CompileStep
  <1>3. CompileFrom(p)[k + 1] \in Seq(Piece(p))
    <2>1. k + 1 \in 1..(Len(p) + 1)
      BY <1>1
    <2> QED BY <2>1, CompileUnfolds
  <1>4. p[k] \in Range(p) /\ p[k] \in Piece(p)
    BY DEF IsSeq, Range, Piece
  <1>5. i \in 1..Len(ps) /\ ps[i] = p[k] /\ Aligned(p, ps, k + 1, i + 1)
    BY <1>2, <1>3, <1>4, NextAligned
  <1>6. MatchFrom(ps, r)[i] =
          {l \in 1..Len(r) : r[l] = p[k] /\ l + 1 \in MatchFrom(ps, r)[i + 1]}
    <2>1. p[k] \notin {SegmentRun, AnyRun} /\ ~(i > Len(ps))
      BY <1>1, <1>4, <1>5 DEF NoPiece
    <2>2. MatchFrom(ps, r)[i] = MatchStep(ps, r, MatchFrom(ps, r), i)
      BY <1>1, MatchUnfolds
    <2> QED BY <1>5, <2>1, <2>2, Zenon DEF MatchStep
  <1>7. ASSUME NEW e \in (j - 1)..Len(r)
        PROVE  PartOf(p, k, SubSeq(r, j, e)) <=> e = j /\ r[j] = p[k]
    <2>1. StarsUpTo(p, k) = 0
      BY <1>1, StarsCount
    <2>2. PartOf(p, k, SubSeq(r, j, e)) <=> SubSeq(r, j, e) = <<p[k]>>
      BY <2>1 DEF PartOf
    <2>3. /\ Len(SubSeq(r, j, e)) = e + 1 - j
          /\ \A l \in 1..(e + 1 - j) : SubSeq(r, j, e)[l] = r[j + l - 1]
          /\ SubSeq(r, j, e) \in Seq(Range(r))
      BY PartFacts
    <2>4. ASSUME SubSeq(r, j, e) = <<p[k]>> PROVE e = j /\ r[j] = p[k]
      <3>1. Len(<<p[k]>>) = 1 /\ <<p[k]>>[1] = p[k]
        OBVIOUS
      <3>2. e + 1 - j = 1 /\ SubSeq(r, j, e)[1] = p[k]
        BY <2>3, <2>4, <3>1
      <3>3. e = j /\ 1 \in 1..(e + 1 - j) /\ j + 1 - 1 = j
        BY <3>2
      <3> QED BY <2>3, <3>2, <3>3
    <2>5. ASSUME e = j, r[j] = p[k] PROVE SubSeq(r, j, e) = <<p[k]>>
      <3>1. r[j] \in Range(r) /\ Len(SubSeq(r, j, e)) = 1 /\ SubSeq(r, j, e)[1] = r[j]
        BY <1>1, <2>3, <2>5 DEF Range, IsSeq
      <3>2. /\ <<r[j]>> \in Seq(Range(r)) /\ Len(<<r[j]>>) = 1 /\ <<r[j]>>[1] = r[j]
        BY <3>1
      <3> DEFINE a == SubSeq(r, j, e)
                 b == <<r[j]>>
      <3>3. a = b
        <4>1. /\ a \in Seq(Range(r)) /\ b \in Seq(Range(r)) /\ Len(a) = 1 /\ Len(b) = 1
              /\ a[1] = b[1]
          BY <2>3, <3>1, <3>2
        <4> HIDE DEF a, b
        <4>2. \A l \in 1..Len(a) : a[l] = b[l]
          BY <4>1
        <4> QED BY <4>1, <4>2, SeqEqual
      <3> QED BY <2>5, <3>3
    <2> QED BY <2>2, <2>4, <2>5
  <1>8. CutsFrom(p, r, k, j) <=>
          j <= Len(r) /\ r[j] = p[k] /\ CutsFrom(p, r, k + 1, j + 1)
    BY <1>1, <1>7, CutsStep
  <1>9. j <= Len(r) => (j + 1 \in MatchFrom(ps, r)[i + 1] <=> CutsFrom(p, r, k + 1, j + 1))
    BY <1>1, <1>5 DEF Agree
  <1> QED BY <1>1, <1>6, <1>8, <1>9

(* A piece that runs, whatever symbols it was compiled from: their parts of  *)
(* r are what it may run over.                                              *)
LEMMA RunAgrees ==
  ASSUME NEW p, IsSeq(p), NEW r, IsSeq(r), NEW ps, IsSeq(ps),
         NEW k \in 1..Len(p), NEW m \in (k + 1)..(Len(p) + 1),
         NEW x \in {SegmentRun, AnyRun},
         CompileFrom(p)[k] = <<x>> \o CompileFrom(p)[m],
         \A j \in 1..(Len(r) + 1) : \A e \in (j - 1)..Len(r) :
           PartOf(p, k, SubSeq(r, j, e)) /\ CutsFrom(p, r, k + 1, e + 1)
             <=> (\A l \in j..e : r[l] \notin Stops(x)) /\ CutsFrom(p, r, m, e + 1),
         NEW i \in 1..(Len(ps) + 1), i <= Len(ps) => Agree(p, r, ps, m, i + 1)
  PROVE  Agree(p, r, ps, k, i)
  <1> SUFFICES ASSUME Aligned(p, ps, k, i), NEW j \in 1..(Len(r) + 1)
               PROVE  j \in MatchFrom(ps, r)[i] <=> CutsFrom(p, r, k, j)
    BY DEF Agree
  <1>1. Len(p) \in Nat /\ Len(r) \in Nat /\ Len(ps) \in Nat
    BY DEF IsSeq
  <1>2. CompileFrom(p)[m] \in Seq(Piece(p)) /\ x \in Piece(p)
    <2>1. m \in 1..(Len(p) + 1)
      BY <1>1
    <2> QED BY <2>1, CompileUnfolds DEF Piece
  <1>3. i \in 1..Len(ps) /\ ps[i] = x /\ Aligned(p, ps, m, i + 1)
    BY <1>2, NextAligned
  <1>4. MatchFrom(ps, r)[i + 1] \subseteq 1..(Len(r) + 1)
    <2>1. i + 1 \in 1..(Len(ps) + 1)
      BY <1>1, <1>3
    <2> QED BY <1>1, <2>1, MatchUnfolds
  <1>5. j \in MatchFrom(ps, r)[i] <=>
          \E e \in MatchFrom(ps, r)[i + 1] :
            j <= e /\ \A l \in j..(e - 1) : r[l] \notin Stops(x)
    <2>1. x \in {SegmentRun, AnyRun} /\ ~(i > Len(ps))
      BY <1>1, <1>3
    <2>2. MatchFrom(ps, r)[i] = MatchStep(ps, r, MatchFrom(ps, r), i)
      BY <1>1, MatchUnfolds
    <2>3. MatchFrom(ps, r)[i] =
            {q \in 1..(Len(r) + 1) : \E e \in MatchFrom(ps, r)[i + 1] :
               q <= e /\ \A l \in q..(e - 1) : r[l] \notin Stops(x)}
      BY <1>3, <2>1, <2>2, Zenon DEF MatchStep
    <2> QED BY <2>3
  <1>6. CutsFrom(p, r, k, j) <=>
          \E e \in (j - 1)..Len(r) :
            (\A l \in j..e : r[l] \notin Stops(x)) /\ CutsFrom(p, r, m, e + 1)
    BY <1>1, CutsStep
  <1>7. \A e \in 0..Len(r) : e + 1 \in MatchFrom(ps, r)[i + 1] <=> CutsFrom(p, r, m, e + 1)
    BY <1>1, <1>3 DEF Agree
  <1>8. ASSUME j \in MatchFrom(ps, r)[i] PROVE CutsFrom(p, r, k, j)
    <2>1. PICK e \in MatchFrom(ps, r)[i + 1] :
            j <= e /\ \A l \in j..(e - 1) : r[l] \notin Stops(x)
      BY <1>5, <1>8
    <2>2. e \in 1..(Len(r) + 1)
      BY <1>4
    <2>3. e - 1 \in 0..Len(r) /\ e - 1 \in (j - 1)..Len(r) /\ (e - 1) + 1 = e
      BY <1>1, <2>1, <2>2
    <2>4. CutsFrom(p, r, m, (e - 1) + 1)
      BY <1>7, <2>3
    <2> QED BY <1>6, <2>1, <2>3, <2>4
  <1>9. ASSUME CutsFrom(p, r, k, j) PROVE j \in MatchFrom(ps, r)[i]
    <2>1. PICK e \in (j - 1)..Len(r) :
            (\A l \in j..e : r[l] \notin Stops(x)) /\ CutsFrom(p, r, m, e + 1)
      BY <1>6, <1>9
    <2>2. e + 1 \in MatchFrom(ps, r)[i + 1] /\ j <= e + 1 /\ (e + 1) - 1 = e
      BY <1>1, <1>7, <2>1
    <2>3. \A l \in j..((e + 1) - 1) : r[l] \notin Stops(x)
      BY <2>1, <2>2
    <2> QED BY <1>5, <2>2, <2>3
  <1> QED BY <1>8, <1>9

(* A star, alone or the first of a pair.                                     *)
LEMMA StarAgrees ==
  ASSUME NEW p, IsSeq(p), NEW r, IsSeq(r), NEW ps, IsSeq(ps),
         NEW k \in 1..Len(p), p[k] = Star, StarsUpTo(p, k - 1) % 2 = 0,
         NEW i \in 1..(Len(ps) + 1),
         i <= Len(ps) =>
           IF k < Len(p) /\ p[k + 1] = Star THEN Agree(p, r, ps, k + 2, i + 1)
           ELSE Agree(p, r, ps, k + 1, i + 1)
  PROVE  Agree(p, r, ps, k, i)
  <1> DEFINE paired == k < Len(p) /\ p[k + 1] = Star
             avoids(set, j, e) == \A l \in j..e : r[l] \notin set
  <1>1. Len(p) \in Nat /\ Len(r) \in Nat
    BY DEF IsSeq
  <1>2. CompileFrom(p)[k] = CompileStep(p, CompileFrom(p), k)
    <2>1. k \in 1..(Len(p) + 1)
      BY <1>1
    <2> QED BY <2>1, CompileUnfolds
  <1>3. /\ StarsUpTo(p, k) \in Nat /\ StarsUpTo(p, k) % 2 = 1
        /\ paired => /\ StarsUpTo(p, k + 1) \in Nat
                     /\ StarsUpTo(p, k + 1) > 0 /\ StarsUpTo(p, k + 1) % 2 = 0
    <2>1. StarsUpTo(p, k) = StarsUpTo(p, k - 1) + 1 /\ StarsUpTo(p, k - 1) \in Nat
      BY StarsCount
    <2>2. paired => StarsUpTo(p, k + 1) = StarsUpTo(p, k) + 1
      <3>1. k + 1 \in Nat \ {0} /\ (k + 1) - 1 = k
        OBVIOUS
      <3> QED BY <3>1, StarsCount
    <2> QED BY <2>1, <2>2
  <1>4. ASSUME NEW j \in 1..(Len(r) + 1), NEW e \in (j - 1)..Len(r)
        PROVE  /\ \A set : (\A l \in DOMAIN SubSeq(r, j, e) : SubSeq(r, j, e)[l] \notin set)
                             <=> avoids(set, j, e)
               /\ SubSeq(r, j, e) = <<>> <=> e = j - 1
    <2> DEFINE s == SubSeq(r, j, e)
    <2>1. /\ Len(s) = e + 1 - j /\ DOMAIN s = 1..(e + 1 - j) /\ s \in Seq(Range(r))
          /\ \A l \in 1..(e + 1 - j) : s[l] = r[j + l - 1] /\ j + l - 1 \in j..e
      BY PartFacts
    <2> HIDE DEF s
    <2>2. \A set : (\A l \in DOMAIN s : s[l] \notin set) => avoids(set, j, e)
      <3>1. ASSUME NEW set, \A l \in DOMAIN s : s[l] \notin set, NEW l \in j..e
            PROVE  r[l] \notin set
        <4>1. l - j + 1 \in 1..(e + 1 - j) /\ j + (l - j + 1) - 1 = l
          OBVIOUS
        <4> QED BY <2>1, <3>1, <4>1
      <3> QED BY <3>1
    <2>3. \A set : avoids(set, j, e) => \A l \in DOMAIN s : s[l] \notin set
      <3>1. ASSUME NEW l \in DOMAIN s PROVE s[l] = r[j + l - 1] /\ j + l - 1 \in j..e
        BY <2>1
      <3> QED BY <3>1
    <2>4. s = <<>> <=> e = j - 1
      BY <2>1
    <2> QED BY <2>2, <2>3, <2>4 DEF s
  <1>5. CASE ~paired
    <2>1. CompileFrom(p)[k] = <<SegmentRun>> \o CompileFrom(p)[k + 1]
      BY <1>1, <1>2, <1>5 DEF CompileStep
    <2>2. ASSUME NEW j \in 1..(Len(r) + 1), NEW e \in (j - 1)..Len(r)
          PROVE  PartOf(p, k, SubSeq(r, j, e)) <=> avoids(Stops(SegmentRun), j, e)
      <3>1. Stops(SegmentRun) = {Slash}
        BY DEF Stops
      <3>2. PartOf(p, k, SubSeq(r, j, e)) <=>
              \A l \in DOMAIN SubSeq(r, j, e) : SubSeq(r, j, e)[l] \notin {Slash}
        <4>1. ~(StarsUpTo(p, k) = 0) /\ ~(StarsUpTo(p, k) % 2 = 0)
          BY <1>3
        <4> QED BY <1>3, <1>5, <4>1, Zenon DEF PartOf
      <3> QED BY <1>4, <3>1, <3>2
    <2>3. k + 1 \in (k + 1)..(Len(p) + 1)
      BY <1>1
    <2> QED BY <1>5, <2>1, <2>2, <2>3, RunAgrees
  <1>6. CASE paired
    <2>1. CompileFrom(p)[k] = <<AnyRun>> \o CompileFrom(p)[k + 2]
      BY <1>1, <1>2, <1>6 DEF CompileStep
    <2>2. ASSUME NEW j \in 1..(Len(r) + 1), NEW e \in (j - 1)..Len(r)
          PROVE  PartOf(p, k, SubSeq(r, j, e)) <=> avoids(Stops(AnyRun), j, e)
      <3>1. Stops(AnyRun) = LineSeparators
        BY DEF Stops, AnyRun, SegmentRun
      <3>2. PartOf(p, k, SubSeq(r, j, e)) <=>
              \A l \in DOMAIN SubSeq(r, j, e) : SubSeq(r, j, e)[l] \notin LineSeparators
        <4>1. ~(StarsUpTo(p, k) = 0) /\ ~(StarsUpTo(p, k) % 2 = 0)
          BY <1>3
        <4> QED BY <1>3, <1>6, <4>1, Zenon DEF PartOf
      <3> QED BY <1>4, <3>1, <3>2
    <2>3. ASSUME NEW j \in 1..(Len(r) + 1), NEW e \in (j - 1)..Len(r)
          PROVE  CutsFrom(p, r, k + 1, e + 1) <=> CutsFrom(p, r, k + 2, e + 1)
      <3>1. k + 1 \in 1..Len(p) /\ e + 1 \in 1..(Len(r) + 1) /\ (k + 1) + 1 = k + 2
            /\ (e + 1) - 1 = e
        BY <1>1, <1>6
      <3>2. \A d \in e..Len(r) : PartOf(p, k + 1, SubSeq(r, e + 1, d)) <=> d = e
        <4>1. \A part : PartOf(p, k + 1, part) <=> part = <<>>
          BY <1>3, <1>6 DEF PartOf
        <4> QED BY <1>4, <3>1, <4>1
      <3>3. CutsFrom(p, r, k + 1, e + 1) <=>
              \E d \in e..Len(r) : /\ PartOf(p, k + 1, SubSeq(r, e + 1, d))
                                   /\ CutsFrom(p, r, k + 2, d + 1)
        BY <1>1, <3>1, CutsStep
      <3> QED BY <1>1, <3>2, <3>3
    <2>4. k + 2 \in (k + 1)..(Len(p) + 1)
      BY <1>1, <1>6
    <2> QED BY <1>6, <2>1, <2>2, <2>3, <2>4, RunAgrees
  <1> QED BY <1>5, <1>6

(* The compiled pattern matches exactly what the pattern means.             *)
LEMMA MatcherIsRight ==
  ASSUME NEW p, IsSeq(p), NoPiece(p), NEW r, IsSeq(r)
  PROVE  ResourceMatches(p, r) <=> Means(p, r)
  <1> DEFINE ps == Compile(p)
             Right(k) == \A i \in 1..(Len(ps) + 1) : Agree(p, r, ps, k, i)
             T == {d \in Nat : \A k \in 1..(Len(p) + 1) :
                                 Starts(p, k) /\ Len(p) + 1 - k <= d => Right(k)}
  <1>1. Len(p) \in Nat /\ Len(r) \in Nat
    BY DEF IsSeq
  <1>2. ps \in Seq(Piece(p)) /\ IsSeq(ps) /\ Len(ps) \in Nat
    <2>1. 1 \in 1..(Len(p) + 1)
      BY <1>1
    <2>2. ps \in Seq(Piece(p))
      BY <2>1, CompileUnfolds DEF Compile
    <2> HIDE DEF ps
    <2> QED BY <2>2, SeqIsSeq
  <1> HIDE DEF ps
  <1>3. Right(Len(p) + 1)
    <2> SUFFICES ASSUME NEW i \in 1..(Len(ps) + 1), Aligned(p, ps, Len(p) + 1, i),
                        NEW j \in 1..(Len(r) + 1)
                 PROVE  j \in MatchFrom(ps, r)[i] <=> CutsFrom(p, r, Len(p) + 1, j)
      BY DEF Agree
    <2>1. CompileFrom(p)[Len(p) + 1] = <<>>
      <3>1. Len(p) + 1 \in 1..(Len(p) + 1) /\ Len(p) + 1 > Len(p)
        BY <1>1
      <3> QED BY <3>1, CompileUnfolds DEF CompileStep
    <2>2. i > Len(ps)
      BY <1>2, <2>1 DEF Aligned
    <2>3. MatchFrom(ps, r)[i] = {Len(r) + 1}
      <3>1. MatchFrom(ps, r)[i] = MatchStep(ps, r, MatchFrom(ps, r), i)
        BY <1>1, <1>2, MatchUnfolds
      <3> QED BY <2>2, <3>1, Zenon DEF MatchStep
    <2>4. CutsFrom(p, r, Len(p) + 1, j) => j = Len(r) + 1
      <3>1. (Len(p) + 1) - 1 = Len(p)
        BY <1>1
      <3> QED BY <1>1, <3>1 DEF CutsFrom
    <2>5. ASSUME j = Len(r) + 1 PROVE CutsFrom(p, r, Len(p) + 1, j)
      <3> DEFINE cut == [q \in 0..Len(p) |-> Len(r)]
      <3>1. /\ cut \in [0..Len(p) -> 0..Len(r)]
            /\ cut[(Len(p) + 1) - 1] = j - 1 /\ cut[Len(p)] = Len(r)
        BY <1>1, <2>5
      <3>2. (Len(p) + 1)..Len(p) = {}
        BY <1>1
      <3> HIDE DEF cut
      <3> QED BY <3>1, <3>2 DEF CutsFrom
    <2> QED BY <2>3, <2>4, <2>5
  <1>4. 0 \in T
    <2>1. \A k \in 1..(Len(p) + 1) : Len(p) + 1 - k <= 0 => k = Len(p) + 1
      BY <1>1
    <2> HIDE DEF Right
    <2> QED BY <1>3, <2>1
  <1>5. ASSUME NEW d \in Nat, d \in T PROVE d + 1 \in T
    <2>1. ASSUME NEW k \in 1..(Len(p) + 1), Starts(p, k), Len(p) + 1 - k <= d + 1
          PROVE  Right(k)
      <3>1. \A m \in (k + 1)..(Len(p) + 1) : Starts(p, m) => Right(m)
        <4> HIDE DEF Right
        <4> QED BY <1>1, <1>5, <2>1
      <3>2. CASE k = Len(p) + 1
        BY <1>3, <3>2
      <3>3. CASE k \in 1..Len(p) /\ p[k] # Star
        <4>1. Starts(p, k + 1)
          <5>1. StarsUpTo(p, (k + 1) - 1) = 0
            BY <3>3, StarsCount
          <5> QED BY <5>1 DEF Starts
        <4>2. Right(k + 1)
          BY <1>1, <3>1, <3>3, <4>1
        <4>3. ASSUME NEW i \in 1..(Len(ps) + 1) PROVE Agree(p, r, ps, k, i)
          <5>1. i <= Len(ps) => Agree(p, r, ps, k + 1, i + 1)
            BY <1>2, <4>2
          <5> QED BY <1>2, <3>3, <5>1, LiteralAgrees
        <4> QED BY <4>3
      <3>4. CASE k \in 1..Len(p) /\ p[k] = Star
        <4>1. StarsUpTo(p, k - 1) % 2 = 0
          BY <1>1, <2>1, <3>4 DEF Starts
        <4>2. CASE k < Len(p) /\ p[k + 1] = Star
          <5>1. StarsUpTo(p, (k + 2) - 1) % 2 = 0
            <6>1. /\ StarsUpTo(p, k) = StarsUpTo(p, k - 1) + 1
                  /\ StarsUpTo(p, k - 1) \in Nat
              BY <3>4, StarsCount
            <6>2. StarsUpTo(p, k + 1) = StarsUpTo(p, k) + 1
              <7>1. k + 1 \in Nat \ {0} /\ (k + 1) - 1 = k
                OBVIOUS
              <7> QED BY <4>2, <7>1, StarsCount
            <6>3. (k + 2) - 1 = k + 1
              OBVIOUS
            <6> QED BY <4>1, <6>1, <6>2, <6>3
          <5>2. Right(k + 2)
            BY <1>1, <3>1, <4>2, <5>1 DEF Starts
          <5>3. ASSUME NEW i \in 1..(Len(ps) + 1) PROVE Agree(p, r, ps, k, i)
            <6>1. i <= Len(ps) => Agree(p, r, ps, k + 2, i + 1)
              BY <1>2, <5>2
            <6> QED BY <1>2, <3>4, <4>1, <4>2, <6>1, StarAgrees
          <5> QED BY <5>3
        <4>3. CASE ~(k < Len(p) /\ p[k + 1] = Star)
          <5>1. Starts(p, k + 1)
            BY <1>1, <3>4, <4>3 DEF Starts
          <5>2. Right(k + 1)
            BY <1>1, <3>1, <3>4, <5>1
          <5>3. ASSUME NEW i \in 1..(Len(ps) + 1) PROVE Agree(p, r, ps, k, i)
            <6>1. i <= Len(ps) => Agree(p, r, ps, k + 1, i + 1)
              BY <1>2, <5>2
            <6> QED BY <1>2, <3>4, <4>1, <4>3, <6>1, StarAgrees
          <5> QED BY <5>3
        <4> QED BY <4>2, <4>3
      <3> QED BY <1>1, <3>2, <3>3, <3>4
    <2> HIDE DEF Right
    <2> QED BY <2>1
  <1>6. Right(1)
    <2>1. Len(p) + 1 \in T
      <3> HIDE DEF T
      <3> QED BY <1>1, <1>4, <1>5, SetInduction
    <2>2. Starts(p, 1)
      <3>1. StarsUpTo(p, 1 - 1) = 0
        BY StarsCount
      <3> QED BY <3>1 DEF Starts
    <2>3. 1 \in 1..(Len(p) + 1) /\ Len(p) + 1 - 1 <= Len(p) + 1
      BY <1>1
    <2> HIDE DEF Right
    <2> QED BY <2>1, <2>2, <2>3
  <1>7. Test(ps, r) <=> CutsFrom(p, r, 1, 1)
    <2>1. Aligned(p, ps, 1, 1)
      BY <1>2 DEF Aligned, ps, Compile
    <2>2. 1 \in 1..(Len(ps) + 1) /\ 1 \in 1..(Len(r) + 1)
      BY <1>1, <1>2
    <2> QED BY <1>6, <2>1, <2>2 DEF Agree, Test
  <1>8. CutsFrom(p, r, 1, 1) <=>
          \E cut \in [0..Len(p) -> 0..Len(r)] :
            /\ cut[0] = 0 /\ cut[Len(p)] = Len(r)
            /\ \A k \in DOMAIN p :
                 /\ cut[k - 1] <= cut[k]
                 /\ PartOf(p, k, SubSeq(r, cut[k - 1] + 1, cut[k]))
    <2>1. DOMAIN p = 1..Len(p) /\ 1 - 1 = 0
      BY DEF IsSeq
    <2> QED BY <2>1 DEF CutsFrom
  <1>9. (~HasControlChar(p) /\ ~HasControlChar(r)) <=>
          \A s \in {p, r} : \A i \in DOMAIN s : s[i] \notin ControlChars
    BY DEF HasControlChar
  <1> QED BY <1>7, <1>8, <1>9 DEF ResourceMatches, Means, ps

----------------------------------------------------------------------------
(* The programs.                                                            *)

(* What the demo asks is one of the requests.                               *)
LEMMA DemoAsksARequest ==
  ASSUME IsSeq(asked), DemoAsk
  PROVE  \E req \in Requests : Authorize(req)
  <1>1. PICK now \in Times : Authorize(DemoRequests(now)[Len(asked) + 1])
    BY DEF DemoAsk
  <1>2. Len(asked) \in Nat /\ Len(asked) < 2
    <2>1. Len(asked) < 2
      BY DEF DemoAsk
    <2>2. ASSUME NEW S, asked \in Seq(S) PROVE Len(asked) \in Nat
      BY <2>2
    <2> QED BY <2>1, <2>2, Zenon DEF IsSeq
  <1>3. AllowReq(now) \in Requests /\ DenyReq(now) \in Requests
    BY LifecycleAssumption
  <1>4. CASE Len(asked) = 0
    BY <1>1, <1>3, <1>4 DEF DemoRequests
  <1>5. CASE Len(asked) = 1
    BY <1>1, <1>3, <1>5 DEF DemoRequests
  <1>6. Len(asked) = 0 \/ Len(asked) = 1
    <2>1. \A n \in Nat : n < 2 => n = 0 \/ n = 1
      OBVIOUS
    <2> QED BY <1>2, <2>1, Zenon
  <1> QED BY ONLY <1>4, <1>5, <1>6, Zenon

(* Whatever drives the kernels takes only the steps of a broker and an      *)
(* engine.                                                                  *)
LEMMA LifeStepIsStep ==
  ASSUME TypeOK, IsSeq(asked), [LifeNext]_lifeVars
  PROVE  [Next]_vars
  <1>1. CASE Call
    BY <1>1, LifecycleAssumption DEF Call, Next
  <1>2. CASE DemoIssue
    BY <1>2, LifecycleAssumption DEF DemoIssue, Next
  <1>3. CASE DemoRegister
    <2>1. PICK g \in minted : Register(g.body, g.signature)
      BY <1>3 DEF DemoRegister
    <2>2. g.body \in NormalBodies /\ g.signature \in KnownSignatures
      BY DEF TypeOK
    <2>3. PICK b \in Bodies : g.body = Normalize(b)
      BY <2>2 DEF NormalBodies
    <2>4. Normalize(g.body) = Normalize(b) /\ g.body.id = b.id
      BY <2>3, NormalizeFacts
    <2>5. Register(b, g.signature)
      BY <2>1, <2>4 DEF Register
    <2> QED BY <2>2, <2>5 DEF Next
  <1>4. CASE DemoAsk
    BY <1>4, DemoAsksARequest DEF Next
  <1>5. CASE DemoSeal \/ DemoEvaluate \/ DemoExit \/ AppSeal \/ AppEvaluate
    BY <1>5 DEF DemoSeal, DemoEvaluate, DemoExit, AppSeal, AppEvaluate, SealNext,
                EvaluateNext
  <1>6. CASE UNCHANGED lifeVars
    BY <1>6 DEF lifeVars
  <1> QED BY <1>1, <1>2, <1>3, <1>4, <1>5, <1>6 DEF LifeNext

(* The types of the programs' own state, and that its lists are lists.      *)
LifeInv == IInv /\ LifeTypeOK /\ IsSeq(asked) /\ IsSeq(log) /\ IsSeq(decisions)

(* The empty list is a list.                                                *)
LEMMA EmptyIsSeq == IsSeq(<<>>)
  BY DEF IsSeq

(* What evaluateRelease signs, verifyDecisionSignature accepts.             *)
LEMMA DecisionVerifies ==
  ASSUME NEW in, NEW id, HasKey(Ring, Ring.defaultKeyId)
  PROVE  LET d == EvaluateRelease(in, id, Authority, Ring)
         IN VerifyDecisionSignature(d, Ring) /\ d.id = id
  <1> DEFINE d == EvaluateRelease(in, id, Authority, Ring)
  <1>1. d.id = id /\ d.signature = Sign(Ring, Sha256(DecisionBody(d)))
    BY DEF EvaluateRelease, DecisionBody
  <1> QED BY <1>1, SignedVerifies DEF VerifyDecisionSignature

(* The programs start with empty lists.                                     *)
LEMMA LifeInitLifeInv == ASSUME LifeInit PROVE LifeInv
  <1>1. Init /\ asked = <<>> /\ log = <<>> /\ decisions = <<>> /\ exitCode = Running
        /\ driver \in DOMAIN Callers \union {Demo, App}
    BY DEF LifeInit
  <1>2. IInv
    BY <1>1, InitIInv
  <1> QED BY <1>1, <1>2, EmptyIsSeq DEF LifeInv, LifeTypeOK, IInv, VerifyChain

(* Every step of a program keeps the types of its state.                    *)
LEMMA LifeStepLifeInv == ASSUME LifeInv, [LifeNext]_lifeVars PROVE LifeInv'
  <1> USE DEF LifeInv
  <1>1. IInv' /\ TypeOK'
    BY LifeStepIsStep, StepIInv DEF IInv
  <1>2. ASSUME UNCHANGED <<driver, asked, log, decisions>>,
               exitCode' \in {Running, 0, 1}
        PROVE  LifeInv'
    <2>1. IsSeq(asked)' /\ IsSeq(log)' /\ IsSeq(decisions)'
      BY <1>2 DEF IsSeq
    <2>2. LifeTypeOK'
      BY <1>1, <1>2 DEF LifeTypeOK
    <2> QED BY <1>1, <2>1, <2>2
  <1>3. ASSUME NEW evidence, Len(evidence) = 8, SealNext(evidence) PROVE LifeInv'
    <2> DEFINE r == Seal(log, Len(log), evidence[Len(log) + 1], Authority, Ring)
    <2>1. /\ Len(log) < 8 /\ log' = Append(log, r)
          /\ UNCHANGED <<vars, driver, asked, decisions, exitCode>>
      BY <1>3 DEF SealNext
    <2>2. IsSeq(log') /\ Len(log') = Len(log) + 1 /\ Len(log) \in Nat
      BY <2>1, AppendIsSeq
    <2>3. VerifyChain(log', Ring)
      BY <2>1, SealExtends, LifecycleAssumption DEF LifeTypeOK
    <2>4. IsSeq(asked)' /\ IsSeq(log)' /\ IsSeq(decisions)'
      BY <2>1, <2>2 DEF IsSeq
    <2>5. LifeTypeOK'
      BY <1>1, <2>1, <2>2, <2>3 DEF LifeTypeOK
    <2> QED BY <1>1, <2>4, <2>5
  <1>4. ASSUME NEW documents, EvaluateNext(documents) PROVE LifeInv'
    <2> DEFINE d == EvaluateRelease(documents[Len(decisions) + 1], Len(decisions),
                                    Authority, Ring)
    <2>1. /\ decisions' = Append(decisions, d)
          /\ UNCHANGED <<vars, driver, asked, log, exitCode>>
      BY <1>4 DEF EvaluateNext
    <2>2. VerifyDecisionSignature(d, Ring) /\ d.id = Len(decisions)
      BY DecisionVerifies, LifecycleAssumption
    <2> HIDE DEF d
    <2>3. /\ IsSeq(decisions') /\ Len(decisions) \in Nat
          /\ Len(decisions') = Len(decisions) + 1
          /\ \A i \in 1..Len(decisions) : decisions'[i] = decisions[i]
          /\ decisions'[Len(decisions) + 1] = d
      BY <2>1, AppendIsSeq
    <2>4. ASSUME NEW i \in DOMAIN decisions'
          PROVE  VerifyDecisionSignature(decisions'[i], Ring) /\ decisions'[i].id = i - 1
      <3>1. i \in 1..(Len(decisions) + 1) /\ DOMAIN decisions = 1..Len(decisions)
        BY <2>3 DEF IsSeq
      <3>2. CASE i \in 1..Len(decisions)
        BY <2>3, <3>1, <3>2 DEF LifeTypeOK
      <3>3. CASE i = Len(decisions) + 1
        BY <2>2, <2>3, <3>3
      <3> QED BY <3>1, <3>2, <3>3
    <2>5. IsSeq(asked)' /\ IsSeq(log)' /\ IsSeq(decisions)'
      BY <2>1, <2>3 DEF IsSeq
    <2>6. LifeTypeOK'
      BY <1>1, <2>1, <2>4 DEF LifeTypeOK
    <2> QED BY <1>1, <2>5, <2>6
  <1>5. CASE Call \/ DemoIssue \/ DemoRegister \/ DemoExit \/ UNCHANGED lifeVars
    BY <1>2, <1>5 DEF Call, DemoIssue, DemoRegister, DemoExit, lifeVars, LifeTypeOK
  <1>6. CASE DemoAsk
    <2>1. /\ asked' = Append(asked, receipt')
          /\ UNCHANGED <<driver, log, decisions, exitCode>>
      BY <1>6 DEF DemoAsk
    <2>2. PICK req \in Requests : receipt' = [request |-> req, outcome |-> Outcome(req)]
      BY <1>6, DemoAsksARequest DEF Authorize
    <2>3. receipt'.request \in Requests
      BY <2>2
    <2>4. /\ IsSeq(asked') /\ Len(asked) \in Nat
          /\ Len(asked') = Len(asked) + 1
          /\ \A i \in 1..Len(asked) : asked'[i] = asked[i]
          /\ asked'[Len(asked) + 1] = receipt'
      BY <2>1, AppendIsSeq
    <2>5. ASSUME NEW i \in DOMAIN asked' PROVE asked'[i].request \in Requests
      <3>1. i \in 1..(Len(asked) + 1) /\ DOMAIN asked = 1..Len(asked)
        BY <2>4 DEF IsSeq
      <3>2. CASE i \in 1..Len(asked)
        BY <2>4, <3>1, <3>2 DEF LifeTypeOK
      <3>3. CASE i = Len(asked) + 1
        BY <2>3, <2>4, <3>3
      <3> QED BY <3>1, <3>2, <3>3
    <2>6. IsSeq(asked)' /\ IsSeq(log)' /\ IsSeq(decisions)'
      BY <2>1, <2>4 DEF IsSeq
    <2>7. LifeTypeOK'
      BY <1>1, <2>1, <2>5 DEF LifeTypeOK
    <2> QED BY <1>1, <2>6, <2>7
  <1>7. CASE DemoSeal \/ AppSeal
    <2>1. Len(DemoEvidence) = 8
      BY DEF DemoEvidence
    <2>2. Len(AppEvidence) = 8
      BY DEF AppEvidence
    <2> QED BY <1>3, <1>7, <2>1, <2>2 DEF DemoSeal, AppSeal
  <1>8. CASE DemoEvaluate \/ AppEvaluate
    BY <1>4, <1>8 DEF DemoEvaluate, AppEvaluate
  <1> QED BY <1>5, <1>6, <1>7, <1>8 DEF LifeNext

(* The types of the programs hold throughout.                               *)
LEMMA LifeInvariance == LifeSpec => []LifeInv
  BY LifeInitLifeInv, LifeStepLifeInv, PTL DEF LifeSpec

(* Type correctness of the programs: the evidence they seal verifies and    *)
(* so do their decisions, in the order they were made.                      *)
THEOREM LifeTypeCorrect == LifeSpec => []LifeTypeOK
  <1>1. LifeInv => LifeTypeOK
    BY DEF LifeInv
  <1> QED BY LifeInvariance, <1>1, PTL

(* The demo, the web application's sample and every other caller are        *)
(* behaviours of a broker and an engine, so all that is proved of those     *)
(* holds of them (demo.ts:27, lifecycle.ts:77).                             *)
THEOREM ProgramsUseTheKernels == LifeSpec => Spec
  <1>1. LifeInit => Init
    BY DEF LifeInit
  <1>2. LifeInv /\ [LifeNext]_lifeVars => [Next]_vars
    BY LifeStepIsStep DEF LifeInv, IInv
  <1> QED BY LifeInvariance, <1>1, <1>2, PTL DEF LifeSpec, Spec

----------------------------------------------------------------------------
(* Of the patterns and resources there are, those match that are meant to.  *)
LEMMA MatchingIsMeant == Matching = Meant
  <1>1. ASSUME NEW p \in Patterns, NEW r \in Resources
        PROVE  ResourceMatches(p, r) <=> Means(p, r)
    <2>1. IsSeq(p) /\ IsSeq(r) /\ NoPiece(p)
      BY LifecycleAssumption DEF IsSeq, NoPiece
    <2> QED BY <2>1, MatcherIsRight
  <1>2. Matched = Meant
    BY <1>1 DEF Matched, Meant
  <1> QED BY <1>2, LifecycleAssumption

(* Whatever pattern a grant has and whatever resource is asked for, a       *)
(* request that gets as far as the capabilities is allowed exactly if one   *)
(* of them admits it by the meaning of its stars (resource.ts:6-8,          *)
(* engine.ts:120-128).                                                      *)
THEOREM PatternsAreRight == LifeSpec => PatternsMeanWhatTheySay
  <1>1. ASSUME LifeInv, [LifeNext]_lifeVars, receipt' # receipt,
               receipt'.outcome \in {"allowed", "no_matching_capability"}
        PROVE  receipt'.outcome = "allowed" <=> Admitted(receipt'.request)
    <2>1. [Next]_vars
      BY <1>1, LifeStepIsStep DEF LifeInv, IInv
    <2>2. PICK r \in Requests : Authorize(r)
      BY <1>1, <2>1 DEF Next, Issue, Register, Restart, vars
    <2>3. receipt' = [request |-> r, outcome |-> Outcome(r)]
      BY <2>2 DEF Authorize
    <2>4. Outcome(r) = "allowed" => Capable(grants[r.grantId].body, r)
      BY DEF Outcome
    <2>5. Outcome(r) = "no_matching_capability" => ~Capable(grants[r.grantId].body, r)
      BY DEF Outcome
    <2>6. Capable(grants[r.grantId].body, r) <=> Admitted(r)
      BY MatchingIsMeant DEF Capable, Admitted
    <2> QED BY <1>1, <2>3, <2>4, <2>5, <2>6
  <1>2. LifeInv /\ [LifeNext]_lifeVars =>
          [/\ receipt' # receipt
           /\ receipt'.outcome \in {"allowed", "no_matching_capability"}
           => (receipt'.outcome = "allowed" <=> Admitted(receipt'.request))]_lifeVars
    BY <1>1
  <1> QED BY <1>2, LifeInvariance, PTL DEF LifeSpec, PatternsMeanWhatTheySay

----------------------------------------------------------------------------
(* What the demo and the sample show.                                       *)

(* The symbol at a place is the part from there to there.                   *)
LEMMA OneSymbol ==
  ASSUME NEW r, IsSeq(r), NEW j \in 1..Len(r)
  PROVE  SubSeq(r, j, j) = <<r[j]>>
  <1> DEFINE a == SubSeq(r, j, j)
             b == <<r[j]>>
  <1>1. Len(r) \in Nat /\ r[j] \in Range(r)
    BY DEF IsSeq, Range
  <1>2. j \in 1..(Len(r) + 1) /\ j \in (j - 1)..Len(r) /\ j + 1 - j = 1 /\ j + 1 - 1 = j
    BY <1>1
  <1>3. a \in Seq(Range(r)) /\ Len(a) = 1 /\ a[1] = r[j]
    BY <1>2, PartFacts
  <1>4. b \in Seq(Range(r)) /\ Len(b) = 1 /\ b[1] = r[j]
    BY <1>1
  <1> HIDE DEF a, b
  <1>5. \A l \in 1..Len(a) : a[l] = b[l]
    BY <1>3, <1>4
  <1>6. a = b
    BY <1>3, <1>4, <1>5, SeqEqual
  <1> QED BY <1>6 DEF a, b

(* The demo's grant covers its second request: of the two stars the first   *)
(* stands for app/page.tsx.                                                 *)
LEMMA DemoCapable ==
  ASSUME NEW t \in Times, NEW n \in Times
  PROVE  Capable(Normalize(DemoGrant(t)), AllowReq(n))
  <1> DEFINE p == <<"repo:", Slash, "src", Slash, Star, Star>>
             r == <<"repo:", Slash, "src", Slash, "app", Slash, "page.tsx">>
             c == [action |-> "fs.write", resource |-> p]
  <1>1. Normalize(DemoGrant(t)).capabilities = {c} /\ DemoGrant(t).capabilities = {c}
    BY DEF Normalize, DemoGrant
  <1>2. AllowReq(n).resource = r /\ AllowReq(n).action = "fs.write"
    BY DEF AllowReq
  <1>3. p \in Patterns /\ r \in Resources
    <2>1. DemoGrant(t) \in Bodies /\ AllowReq(n) \in Requests
      BY LifecycleAssumption
    <2>2. c \in DemoGrant(t).capabilities /\ c.resource = p
      BY <1>1
    <2> HIDE DEF p, c, r
    <2> QED BY <1>2, <2>1, <2>2 DEF Patterns, Resources
  <1>4. /\ \A i \in DOMAIN r : r[i] \notin ControlChars \union LineSeparators
        /\ Star \notin ControlChars
    <2>1. (Range(r) \union {Star}) \intersect (ControlChars \union LineSeparators) = {}
      BY <1>2, LifecycleAssumption
    <2> HIDE DEF r
    <2> QED BY <2>1 DEF Range
  <1>5. /\ IsSeq(r) /\ Len(r) = 7 /\ Len(p) = 6
        /\ p # <<>> /\ r # <<>> /\ DOMAIN p = 1..6 /\ DOMAIN r = 1..7
        /\ \A k \in 1..4 : p[k] = r[k] /\ p[k] # Star
        /\ p[5] = Star /\ p[6] = Star
    <2>1. r \in Seq({"repo:", Slash, "src", "app", "page.tsx"})
      OBVIOUS
    <2>2. IsSeq(r)
      BY <2>1, SeqIsSeq, Zenon
    <2>3. Len(r) = 7 /\ Len(p) = 6 /\ DOMAIN p = 1..6 /\ DOMAIN r = 1..7
      OBVIOUS
    <2>4. p # <<>> /\ r # <<>>
      OBVIOUS
    <2>5. /\ p[1] = r[1] /\ p[2] = r[2] /\ p[3] = r[3] /\ p[4] = r[4]
          /\ p[1] # Star /\ p[2] # Star /\ p[3] # Star /\ p[4] # Star
          /\ p[5] = Star /\ p[6] = Star
      BY DEF Slash, Star
    <2> HIDE DEF p, r
    <2>6. \A k \in 1..4 : k = 1 \/ k = 2 \/ k = 3 \/ k = 4
      OBVIOUS
    <2> QED BY <2>2, <2>3, <2>4, <2>5, <2>6
  <1> HIDE DEF p, r
  <1>6. \A i \in DOMAIN p : p[i] \notin ControlChars
    BY <1>4, <1>5
  <1>7. /\ \A k \in 1..4 : StarsUpTo(p, k) = 0
        /\ StarsUpTo(p, 5) = 1 /\ StarsUpTo(p, 6) = 2
    <2>1. \A k \in 1..4 : StarsUpTo(p, k) = 0
      BY <1>5, StarsCount
    <2>2. StarsUpTo(p, 5) = StarsUpTo(p, 5 - 1) + 1 /\ 5 - 1 \in 1..4
      BY <1>5, StarsCount
    <2>3. StarsUpTo(p, 6) = StarsUpTo(p, 6 - 1) + 1 /\ 6 - 1 = 5
      BY <1>5, StarsCount
    <2> QED BY <2>1, <2>2, <2>3
  <1> DEFINE cut == [k \in 0..6 |-> IF k <= 4 THEN k ELSE 7]
  <1>8. ASSUME NEW k \in 1..6
        PROVE  cut[k - 1] <= cut[k] /\ PartOf(p, k, SubSeq(r, cut[k - 1] + 1, cut[k]))
    <2>1. CASE k \in 1..4
      <3>1. cut[k - 1] + 1 = k /\ cut[k] = k /\ cut[k - 1] <= cut[k] /\ k \in 1..7
        BY <2>1
      <3> HIDE DEF cut
      <3>2. SubSeq(r, k, k) = <<p[k]>>
        <4>1. k \in 1..Len(r) /\ p[k] = r[k]
          BY <1>5, <2>1, <3>1
        <4> QED BY <1>5, <4>1, OneSymbol
      <3>3. PartOf(p, k, SubSeq(r, k, k))
        BY <1>7, <2>1, <3>2 DEF PartOf
      <3> QED BY <3>1, <3>3
    <2>2. CASE k = 5
      <3>1. cut[k - 1] + 1 = 5 /\ cut[k] = 7 /\ cut[k - 1] <= cut[k]
        BY <2>2
      <3> HIDE DEF cut
      <3>2. 5 \in 1..(Len(r) + 1) /\ 7 \in (5 - 1)..Len(r)
        BY <1>5
      <3>3. \A l \in DOMAIN SubSeq(r, 5, 7) : SubSeq(r, 5, 7)[l] \notin LineSeparators
        <4>1. \A l \in 1..(7 + 1 - 5) : /\ SubSeq(r, 5, 7)[l] = r[5 + l - 1]
                                        /\ 5 + l - 1 \in DOMAIN r
          BY <1>5, <3>2, PartFacts
        <4>2. DOMAIN SubSeq(r, 5, 7) = 1..(7 + 1 - 5)
          BY <1>5, <3>2, PartFacts
        <4> QED BY <1>4, <4>1, <4>2
      <3>4. StarsUpTo(p, 5) % 2 = 1 /\ 5 < Len(p) /\ p[5 + 1] = Star
        BY <1>5, <1>7
      <3>5. PartOf(p, 5, SubSeq(r, 5, 7))
        BY <3>3, <3>4 DEF PartOf
      <3> QED BY <2>2, <3>1, <3>5
    <2>3. CASE k = 6
      <3>1. cut[k - 1] + 1 = 8 /\ cut[k] = 7 /\ cut[k - 1] <= cut[k]
        BY <2>3
      <3> HIDE DEF cut
      <3>2. SubSeq(r, 8, 7) = <<>>
        <4>1. 8 \in 1..(Len(r) + 1) /\ 7 \in (8 - 1)..Len(r)
          BY <1>5
        <4>2. SubSeq(r, 8, 7) \in Seq(Range(r)) /\ Len(SubSeq(r, 8, 7)) = 7 + 1 - 8
          BY <1>5, <4>1, PartFacts
        <4> QED BY <4>2
      <3>3. StarsUpTo(p, 6) > 0 /\ StarsUpTo(p, 6) % 2 = 0
        BY <1>7
      <3>4. PartOf(p, 6, SubSeq(r, 8, 7))
        BY <3>2, <3>3 DEF PartOf
      <3> QED BY <2>3, <3>1, <3>4
    <2> QED BY <2>1, <2>2, <2>3
  <1>9. cut \in [0..6 -> 0..7] /\ cut[0] = 0 /\ cut[6] = 7
    OBVIOUS
  <1> HIDE DEF cut
  <1>10. Means(p, r)
    BY <1>4, <1>5, <1>6, <1>8, <1>9 DEF Means
  <1>11. <<p, r>> \in Matching
    BY <1>3, <1>10, MatchingIsMeant DEF Meant
  <1> QED BY <1>1, <1>2, <1>11 DEF Capable

\* The grant of the demo, as the broker signs it.
SignedGrant(now) ==
  GrantOf(Normalize(DemoGrant(now)),
          SignWith(Ring, Ring.defaultKeyId, Normalize(DemoGrant(now))).value)

\* What the engine answers at time n to the requests under a grant of time t.
Answers(t, n) ==
  << [request |-> DenyReq(n),
      outcome |-> IF n < t THEN "not_yet_valid" ELSE "no_matching_capability"],
     [request |-> AllowReq(n),
      outcome |-> IF n < t THEN "not_yet_valid" ELSE "allowed"] >>

(* The demo has at most one grant, its requests are answered under that     *)
(* grant at one time, and at most the second of them is allowed.            *)
DemoAsks ==
  driver = Demo =>
    /\ minted = {} \/ \E t \in Times : minted = {SignedGrant(t)}
    /\ grants["grant_demo_1"] \in {NoGrant} \union minted
    /\ asked # <<>> =>
         \E t, n \in Times : /\ minted = {SignedGrant(t)}
                             /\ grants["grant_demo_1"] = SignedGrant(t)
                             /\ \A i \in 1..Len(asked) : asked[i] = Answers(t, n)[i]
    /\ Len(asked) <= 2
    /\ Len(asked) < 2 => allows = <<>> /\ uses["grant_demo_1"] = 0
    /\ Len(asked) = 2 =>
         {allows[i].request : i \in DOMAIN allows} =
           IF asked[2].outcome = "allowed" THEN {asked[2].request} ELSE {}

Evidence == IF driver = Demo THEN DemoEvidence ELSE AppEvidence

Documents == IF driver = Demo THEN DemoDocuments ELSE AppDocuments

\* What Seal makes is a record with these fields.
RecordFields == {"id", "sequence", "input", "prevDigest", "signedBy",
                 "recordDigest", "signature"}

(* The evidence is sealed in its order, after the requests; the decisions   *)
(* are made on all of it; and the demo exits after them.                    *)
InOrder ==
  /\ driver \notin {Demo, App} => log = <<>> /\ decisions = <<>>
  /\ driver = Demo /\ log # <<>> => Len(asked) = 2
  /\ \A i \in 1..Len(log) :
       RecordFields \subseteq DOMAIN log[i] /\ log[i].input = Evidence[i]
  /\ decisions # <<>> => Len(log) = 8
  /\ Len(decisions) <= 2
  /\ \A i \in 1..Len(decisions) :
       decisions[i] = EvaluateRelease(Documents[i], i - 1, Authority, Ring)
  /\ exitCode # Running =>
       /\ driver = Demo /\ Len(decisions) = 2
       /\ exitCode = IF Ok THEN 0 ELSE 1

(* The engine answers the two requests of the demo as Answers says.         *)
LEMMA DemoAnswers ==
  ASSUME NEW t \in Times, NEW n \in Times, SignedGrant(t) # NoGrant,
         grants["grant_demo_1"] = SignedGrant(t), uses["grant_demo_1"] = 0
  PROVE  /\ [request |-> DenyReq(n), outcome |-> Outcome(DenyReq(n))] = Answers(t, n)[1]
         /\ [request |-> AllowReq(n), outcome |-> Outcome(AllowReq(n))] = Answers(t, n)[2]
  <1> DEFINE g == SignedGrant(t)
             b == Normalize(DemoGrant(t))
  <1>1. /\ g.body = b
        /\ g.signature = HmacSha256(Ring.keys[Ring.defaultKeyId], b)
    BY DEF SignedGrant, GrantOf, SignWith
  <1>2. /\ b.subjectId = "agent.frontend" /\ b.audience = "fs-adapter"
        /\ b.issuedAt = t /\ b.notBefore = Absent /\ b.expiresAt = 2999
        /\ b.nonce = "nonce-demo-0001" /\ b.maxUses = 1
        /\ b.keyId = Ring.defaultKeyId
        /\ \A c \in b.capabilities : c.action = "fs.write"
    BY DEF Normalize, DemoGrant, Absent
  <1> HIDE DEF b, g
  <1>3. VerifyGrant(g)
    BY <1>1, <1>2, LifecycleAssumption DEF VerifyGrant, VerifySignature
  <1>4. /\ NotBefore(b) = t /\ ~Expired(b, n)
        /\ t \in Nat /\ n \in Nat
    BY <1>2, LifecycleAssumption DEF NotBefore, Expired
  <1>5. /\ AllowReq(n).grantId = "grant_demo_1" /\ AllowReq(n).subjectId = "agent.frontend"
        /\ AllowReq(n).audience = "fs-adapter" /\ AllowReq(n).nonce = "nonce-demo-0001"
        /\ AllowReq(n).at = n /\ AllowReq(n).wellFormed
    BY DEF AllowReq
  <1>6. /\ DenyReq(n).grantId = "grant_demo_1" /\ DenyReq(n).subjectId = "agent.frontend"
        /\ DenyReq(n).audience = "fs-adapter" /\ DenyReq(n).nonce = "nonce-demo-0001"
        /\ DenyReq(n).at = n /\ DenyReq(n).wellFormed /\ DenyReq(n).action = "secret.use"
    BY DEF DenyReq, AllowReq
  <1>7. Capable(b, AllowReq(n)) /\ ~Capable(b, DenyReq(n))
    <2>1. Capable(b, AllowReq(n))
      BY DemoCapable DEF b
    <2>2. \A c \in b.capabilities : c.action # DenyReq(n).action
      <3>1. "fs.write" # "secret.use"
        OBVIOUS
      <3> QED BY <1>2, <1>6, <3>1
    <2>3. ~Capable(b, DenyReq(n))
      BY <2>2, Zenon DEF Capable
    <2> QED BY <2>1, <2>3
  <1>8. Outcome(AllowReq(n)) = IF n < t THEN "not_yet_valid" ELSE "allowed"
    BY <1>1, <1>2, <1>3, <1>4, <1>5, <1>7 DEF Outcome, g
  <1>9. Outcome(DenyReq(n)) = IF n < t THEN "not_yet_valid" ELSE "no_matching_capability"
    BY <1>1, <1>2, <1>3, <1>4, <1>6, <1>7 DEF Outcome, g
  <1> QED BY <1>8, <1>9 DEF Answers

(* A review that grades every required dimension a pass is accepted.        *)
LEMMA ReviewAccepts == AntiSlop.accepted /\ DOMAIN AntiSlop.blocking = {}
  <1> DEFINE required == requiredDimensionsFor("product_feature")
             needed == [t \in DOMAIN REQUIRED_DIMENSIONS |-> ToSet(REQUIRED_DIMENSIONS[t])]
             r == [changeType |-> "product_feature", createdAt |-> 0, exceptions |-> <<>>,
                   grades |-> [i \in DOMAIN required |->
                                 [dimension |-> required[i], grade |-> "pass"]]]
  <1>1. AntiSlop = Gate!EvaluateReview(r)
    BY DEF AntiSlop
  <1>2. needed["product_feature"] = ToSet(required)
    <2>1. "product_feature" \in DOMAIN REQUIRED_DIMENSIONS
      BY DEF REQUIRED_DIMENSIONS
    <2> QED BY <2>1 DEF requiredDimensionsFor
  <1> HIDE DEF required
  <1>3. /\ r.changeType = "product_feature"
        /\ DOMAIN r.grades = DOMAIN required
        /\ \A i \in DOMAIN required : /\ r.grades[i].dimension = required[i]
                                      /\ r.grades[i].grade = "pass"
    OBVIOUS
  <1> HIDE DEF r, needed
  <1>4. Gate!GradedAs(r, "fail") = {} /\ Gate!GradedAs(r, "not_tested") = {}
    BY <1>3 DEF Gate!GradedAs
  <1>5. Gate!Graded(r) = ToSet(required)
    BY <1>3 DEF Gate!Graded, ToSet
  <1>6. Gate!Untested(r) = {}
    BY <1>2, <1>3, <1>4, <1>5 DEF Gate!Untested, needed
  <1> DEFINE blocking == [d \in {} |-> IF d \in {} THEN "fail" ELSE "not_tested"]
  <1>7. AntiSlop = [accepted |-> DOMAIN blocking = {}, blocking |-> blocking,
                    concerns |-> Gate!GradedAs(r, "pass_with_concern") \union {},
                    exceptionsApplied |-> {}]
    <2>1. {d \in {} : Gate!Excepted(r, d)} = {} /\ {} \union ({} \ {}) = {}
      OBVIOUS
    <2> QED BY <1>1, <1>4, <1>6, <2>1 DEF Gate!EvaluateReview
  <1> QED BY <1>7

\* All of m checks passed with evidence, and the document has no review.
AllPass(in, m) ==
  /\ DOMAIN in.checks = 1..m
  /\ \A i, j \in 1..m : in.checks[i].name = in.checks[j].name => i = j
  /\ \A i \in 1..m : /\ in.checks[i].status = "pass"
                     /\ in.checks[i].evidenceId \in Ids(in.evidence)
  /\ \A n \in in.policy.requiredChecks : \E i \in 1..m : in.checks[i].name = n
  /\ in.policy.requiredEvidenceKinds \subseteq Kinds(in.evidence)
  /\ in.antiSlop.accepted /\ in.antiSlop.blocking = {}
  /\ in.review = NoReview /\ in.hardBlockers = {} /\ in.riskAcceptances = {}

(* What the gate finds wrong with such a document: its evidence or the      *)
(* missing review.                                                          *)
LEMMA GateOnPasses ==
  ASSUME NEW in, NEW m \in Nat, AllPass(in, m)
  PROVE  /\ Blocked(in, Ring) =
              (IF VerifyChain(in.evidence, Ring) THEN {} ELSE {Reason("chain", "evidence")})
              \union (IF in.policy.requireIndependentReview
                      THEN {Reason("review", "self or none")} ELSE {})
         /\ Failed(in) = {}
         /\ Warnings(in) = {}
  <1> USE DEF AllPass
  <1>1. \A i \in 1..m : CheckByName(in.checks, in.checks[i].name) = in.checks[i]
    <2>1. ASSUME NEW i \in 1..m
          PROVE  CheckByName(in.checks, in.checks[i].name) = in.checks[i]
      <3>1. Reports(in.checks, in.checks[i].name) = {i}
        BY DEF Reports
      <3>2. Max({i}) = i
        BY DEF Max
      <3> QED BY <3>1, <3>2 DEF CheckByName
    <2> QED BY <2>1
  <1>2. Reported(in) = in.policy.requiredChecks
    BY DEF Reported, Reports
  <1>3. \A n \in Reported(in) : /\ CheckByName(in.checks, n).status = "pass"
                                /\ CheckByName(in.checks, n).evidenceId \in Ids(in.evidence)
    BY <1>1, <1>2
  <1>4. \A s : s # "pass" => RequiredWith(in, s) = {}
    BY <1>3 DEF RequiredWith
  <1>5. /\ RequiredWith(in, "incomplete") = {} /\ RequiredWith(in, "skipped") = {}
        /\ RequiredWith(in, "fail") = {}
    BY <1>4
  <1>6. Unbacked(in) = {}
    BY <1>3 DEF Unbacked, RequiredWith
  <1>7. Duplicated(in.checks) = {}
    <2>1. \A j \in 1..m : \A k \in 1..(j - 1) : k \in 1..m /\ k # j
      OBVIOUS
    <2> QED BY <2>1 DEF Duplicated
  <1>8. ReviewBlocks(in) <=> in.policy.requireIndependentReview
    BY DEF ReviewBlocks
  <1> DEFINE Each(what, T) == {Reason(what, n) : n \in T}
             C == IF VerifyChain(in.evidence, Ring) THEN {} ELSE {Reason("chain", "evidence")}
             R == IF ReviewBlocks(in) THEN {Reason("review", "self or none")} ELSE {}
             incompletes == IF in.policy.allowIncompleteAsWarning THEN {}
                            ELSE RequiredWith(in, "incomplete")
  <1>9. Blocked(in, Ring) = C \union R
    <2>1. Blocked(in, Ring) =
            UNION {C, Each("kind", in.policy.requiredEvidenceKinds \ Kinds(in.evidence)),
                   Each("duplicate", Duplicated(in.checks)),
                   Each("missing", in.policy.requiredChecks \ Reported(in)),
                   Each("unbacked", Unbacked(in)), Each("incomplete", incompletes),
                   Each("skipped", RequiredWith(in, "skipped")), R,
                   Each("hard", in.hardBlockers)}
      BY DEF Blocked
    <2>2. \A what : Each(what, {}) = {}
      OBVIOUS
    <2>3. incompletes = {}
      BY <1>5
    <2>4. /\ in.policy.requiredEvidenceKinds \ Kinds(in.evidence) = {}
          /\ in.policy.requiredChecks \ Reported(in) = {}
      BY <1>2
    <2> HIDE DEF Each, C, R, incompletes
    <2>5. Blocked(in, Ring) = UNION {C, {}, {}, {}, {}, {}, {}, R, {}}
      BY <1>5, <1>6, <1>7, <2>1, <2>2, <2>3, <2>4
    <2> QED BY <2>5
  <1>10. Failed(in) = {}
    <2>1. ~AntiSlopFails(in)
      BY DEF AntiSlopFails
    <2>2. ~(/\ in.policy.requireIndependentReview
            /\ ~ReviewBlocks(in)
            /\ ~in.review.approved)
      BY <1>8
    <2>3. Failed(in) = UNION {Each("failed", {}), {}, {}}
      BY <1>5, <2>1, <2>2 DEF Failed
    <2> QED BY <2>3
  <1>11. Warnings(in) = {}
    BY <1>5 DEF Warnings
  <1> QED BY <1>8, <1>9, <1>10, <1>11

\* A chain whose first record has another summary.
Altered(c, x) == [c EXCEPT ![1].input.summary = x]

(* The evidence with an altered first record does not verify, and looks the *)
(* same to every other check of the gate.                                   *)
LEMMA TamperedIsCaught ==
  ASSUME NEW c, IsSeq(c), Len(c) = 8, VerifyChain(c, Ring), RecordFields \subseteq DOMAIN c[1],
         {"kind", "summary"} \subseteq DOMAIN c[1].input,
         NEW x, c[1].input.summary # x, NEW ev, ev = Altered(c, x)
  PROVE  /\ ~VerifyChain(ev, Ring)
         /\ DOMAIN ev = DOMAIN c
         /\ \A i \in DOMAIN c : ev[i].id = c[i].id /\ ev[i].input.kind = c[i].input.kind
  <1> DEFINE input == [c[1].input EXCEPT !.summary = x]
             r == [c[1] EXCEPT !.input = input]
             S == Range(c) \union {r}
  <1>1. c \in Seq(S) /\ 1 \in 1..Len(c)
    <2>1. c \in Seq(S)
      BY SeqMonotonic DEF IsSeq
    <2> QED BY <2>1
  <1>2. input.summary = x /\ input.kind = c[1].input.kind
    OBVIOUS
  <1>3. ev = [c EXCEPT ![1] = r]
    BY DEF Altered
  <1> HIDE DEF input
  <1>4. r.id = c[1].id /\ r.recordDigest = c[1].recordDigest /\ r.input = input
    BY DEF RecordFields
  <1>5. /\ ev \in Seq(S) /\ Len(ev) = Len(c) /\ ev[1] = r
        /\ \A i \in 1..Len(c) : i # 1 => ev[i] = c[i]
    <2> HIDE DEF r, S
    <2>1. r \in S
      BY DEF S
    <2>2. ev \in Seq(S) /\ Len(ev) = Len(c)
      <3>1. [c EXCEPT ![1] = r] \in Seq(S) /\ Len([c EXCEPT ![1] = r]) = Len(c)
        BY ONLY <1>1, <2>1, ExceptSeq
      <3> QED BY <1>3, <3>1
    <2>3. DOMAIN c = 1..Len(c)
      BY <1>1
    <2>4. ev[1] = r /\ \A i \in 1..Len(c) : i # 1 => ev[i] = c[i]
      BY <1>1, <1>3, <2>3
    <2> QED BY <2>2, <2>4
  <1> HIDE DEF r, S
  <1>6. DOMAIN ev = 1..Len(c) /\ DOMAIN c = 1..Len(c)
    BY <1>1, <1>5
  <1>7. ~VerifyChain(ev, Ring)
    <2> SUFFICES ASSUME VerifyChain(ev, Ring) PROVE FALSE
      OBVIOUS
    <2>1. Intact(r, Ring) /\ Intact(c[1], Ring)
      BY <1>1, <1>5 DEF VerifyChain
    <2>2. Sha256(RecordBody(r)) = Sha256(RecordBody(c[1]))
      BY <1>4, <2>1 DEF Intact
    <2>3. RecordBody(r) = RecordBody(c[1])
      BY <2>2, Sha256Injective
    <2>4. r.input = c[1].input
      BY <2>3, BodyFields
    <2> QED BY <1>2, <1>4, <2>4
  <1> QED BY <1>2, <1>4, <1>5, <1>6, <1>7

(* What the documents of the two programs have, whatever their checks.      *)
LEMMA DocumentHas ==
  ASSUME NEW environment, NEW policy, NEW checks
  PROVE  LET in == Document(environment, policy, checks) IN
         /\ in.policy = policy /\ in.checks = checks /\ in.evidence = log
         /\ in.antiSlop.accepted /\ in.antiSlop.blocking = {}
         /\ in.review = NoReview /\ in.hardBlockers = {} /\ in.riskAcceptances = {}
  BY ReviewAccepts DEF Document

(* The altered document differs from the first one in its evidence alone.   *)
LEMMA TamperedHas ==
  ASSUME NEW environment, NEW policy, NEW checks
  PROVE  LET in == Tampered(Document(environment, policy, checks)) IN
         /\ in.policy = policy /\ in.checks = checks
         /\ in.evidence = Altered(log, [text |-> "silently altered"])
         /\ in.antiSlop.accepted /\ in.antiSlop.blocking = {}
         /\ in.review = NoReview /\ in.hardBlockers = {} /\ in.riskAcceptances = {}
  BY ReviewAccepts DEF Document, Tampered, Altered

(* The records of a full log, by their kinds.                               *)
LEMMA LogKinds ==
  ASSUME IsSeq(log), Len(log) = 8, InOrder
  PROVE  /\ DOMAIN log = 1..8
         /\ \A i \in 1..8 : log[i].id \in Ids(log)
         /\ {"build", "test"} \subseteq Kinds(log)
         /\ driver # Demo => {"accessibility_result", "anti_slop_review"} \subseteq Kinds(log)
  <1>1. DOMAIN log = 1..Len(log)
    BY DEF IsSeq
  <1>2. \A i \in 1..8 : log[i].id \in Ids(log) /\ log[i].input.kind \in Kinds(log)
    BY <1>1 DEF Ids, Kinds
  <1>3. \A i \in 1..8 : log[i].input = Evidence[i]
    BY DEF InOrder
  <1>4. CASE driver = Demo
    <2>1. Evidence[3].kind = "test" /\ Evidence[6].kind = "build"
      BY <1>4 DEF Evidence, DemoEvidence, Entry
    <2>2. Evidence[3].kind \in Kinds(log) /\ Evidence[6].kind \in Kinds(log)
      BY <1>2, <1>3
    <2> QED BY <1>1, <1>2, <1>4, <2>1, <2>2
  <1>5. CASE driver # Demo
    <2>1. /\ Evidence[1].kind = "test" /\ Evidence[5].kind = "accessibility_result"
          /\ Evidence[7].kind = "build" /\ Evidence[8].kind = "anti_slop_review"
      BY <1>5 DEF Evidence, AppEvidence, Entry
    <2>2. /\ Evidence[1].kind \in Kinds(log) /\ Evidence[5].kind \in Kinds(log)
          /\ Evidence[7].kind \in Kinds(log) /\ Evidence[8].kind \in Kinds(log)
      BY <1>2, <1>3
    <2> QED BY <1>1, <1>2, <1>5, <2>1, <2>2
  <1> QED BY <1>4, <1>5

(* The checks of the two programs.                                          *)
LEMMA ChecksHave ==
  ASSUME \A i \in 1..8 : log[i].id \in Ids(log)
  PROVE  /\ DOMAIN DemoChecks = 1..3 /\ DOMAIN AppChecks = 1..6
         /\ \A i, j \in 1..3 : DemoChecks[i].name = DemoChecks[j].name => i = j
         /\ \A i, j \in 1..6 : AppChecks[i].name = AppChecks[j].name => i = j
         /\ \A i \in 1..3 : /\ DemoChecks[i].status = "pass"
                            /\ DemoChecks[i].evidenceId \in Ids(log)
         /\ \A i \in 1..6 : /\ AppChecks[i].status = "pass"
                            /\ AppChecks[i].evidenceId \in Ids(log)
         /\ \A n \in STAGING_POLICY.requiredChecks :
              /\ \E i \in 1..3 : DemoChecks[i].name = n
              /\ \E i \in 1..6 : AppChecks[i].name = n
         /\ \A n \in PRODUCTION_POLICY.requiredChecks : \E i \in 1..6 : AppChecks[i].name = n
  <1>1. /\ DOMAIN DemoChecks = 1..3 /\ DOMAIN AppChecks = 1..6
    BY DEF DemoChecks, AppChecks
  <1>2. /\ DemoChecks[1] = Passed("typecheck", 3) /\ DemoChecks[2] = Passed("lint", 4)
        /\ DemoChecks[3] = Passed("unit", 5)
    BY DEF DemoChecks
  <1>3. /\ AppChecks[1] = Passed("typecheck", 1) /\ AppChecks[2] = Passed("lint", 2)
        /\ AppChecks[3] = Passed("unit", 3) /\ AppChecks[4] = Passed("integration", 4)
        /\ AppChecks[5] = Passed("accessibility", 5) /\ AppChecks[6] = Passed("security", 6)
    BY DEF AppChecks
  <1>4. \A name, place : /\ Passed(name, place).name = name
                         /\ Passed(name, place).status = "pass"
                         /\ Passed(name, place).evidenceId = log[place].id
    BY DEF Passed
  <1>5. /\ \A i \in 1..3 : i = 1 \/ i = 2 \/ i = 3
        /\ \A i \in 1..6 : i = 1 \/ i = 2 \/ i = 3 \/ i = 4 \/ i = 5 \/ i = 6
    OBVIOUS
  <1>6. /\ \A i \in 1..3 : /\ DemoChecks[i].status = "pass"
                           /\ DemoChecks[i].evidenceId \in Ids(log)
        /\ \A i \in 1..6 : /\ AppChecks[i].status = "pass"
                           /\ AppChecks[i].evidenceId \in Ids(log)
    BY <1>2, <1>3, <1>4, <1>5
  <1>7. /\ DemoChecks[1].name = "typecheck" /\ DemoChecks[2].name = "lint"
        /\ DemoChecks[3].name = "unit"
        /\ AppChecks[1].name = "typecheck" /\ AppChecks[2].name = "lint"
        /\ AppChecks[3].name = "unit" /\ AppChecks[4].name = "integration"
        /\ AppChecks[5].name = "accessibility" /\ AppChecks[6].name = "security"
    BY <1>2, <1>3, <1>4
  <1>8. /\ STAGING_POLICY.requiredChecks = {"typecheck", "lint", "unit"}
        /\ PRODUCTION_POLICY.requiredChecks = {"typecheck", "lint", "unit", "integration",
                                               "accessibility", "security"}
    BY DEF STAGING_POLICY, PRODUCTION_POLICY
  <1>9. \A i, j \in 1..3 : DemoChecks[i].name = DemoChecks[j].name => i = j
    BY <1>5, <1>7
  <1>10. \A i, j \in 1..6 : AppChecks[i].name = AppChecks[j].name => i = j
    BY <1>5, <1>7
  <1>11. \A n \in PRODUCTION_POLICY.requiredChecks : \E i \in 1..6 : AppChecks[i].name = n
    BY <1>7, <1>8
  <1>12. \A n \in STAGING_POLICY.requiredChecks :
              /\ \E i \in 1..3 : DemoChecks[i].name = n
              /\ \E i \in 1..6 : AppChecks[i].name = n
    BY <1>7, <1>8
  <1> QED BY <1>1, <1>6, <1>9, <1>10, <1>11, <1>12

\* What a decision on a document shows.
Shown(in, blocking) ==
  Blocked(in, Ring) = blocking /\ Failed(in) = {} /\ Warnings(in) = {}

(* What the gate finds in a document is what its decision says.             *)
LEMMA ShownIn ==
  ASSUME NEW in, NEW blocking, Shown(in, blocking), NEW id
  PROVE  LET d == EvaluateRelease(in, id, Authority, Ring) IN
         /\ d.verdict = IF blocking = {} THEN "pass" ELSE "blocked"
         /\ d.blocking = blocking /\ d.warnings = {}
  BY DEF Shown, EvaluateRelease, Verdict

(* The demo's first document passes; the second does not, and only because  *)
(* its evidence does not verify.                                            *)
LEMMA DemoShows ==
  ASSUME IsSeq(log), Len(log) = 8, VerifyChain(log, Ring), InOrder, driver = Demo,
         NEW x, asked[1] = x, "request" \in DOMAIN x
  PROVE  /\ Shown(DemoDocuments[1], {})
         /\ Shown(DemoDocuments[2], {Reason("chain", "evidence")})
  <1> DEFINE staging == Document("staging", STAGING_POLICY, DemoChecks)
             altered == Tampered(staging)
             ev == Altered(log, [text |-> "silently altered"])
  <1>1. DemoDocuments[1] = staging /\ DemoDocuments[2] = altered
    BY DEF DemoDocuments
  <1>2. /\ staging.policy = STAGING_POLICY /\ staging.checks = DemoChecks
        /\ staging.evidence = log
        /\ staging.antiSlop.accepted /\ staging.antiSlop.blocking = {}
        /\ staging.review = NoReview /\ staging.hardBlockers = {}
        /\ staging.riskAcceptances = {}
    BY DocumentHas
  <1>3. /\ altered.policy = STAGING_POLICY /\ altered.checks = DemoChecks
        /\ altered.evidence = ev
        /\ altered.antiSlop.accepted /\ altered.antiSlop.blocking = {}
        /\ altered.review = NoReview /\ altered.hardBlockers = {}
        /\ altered.riskAcceptances = {}
    BY TamperedHas
  <1>4. /\ STAGING_POLICY.requiredEvidenceKinds = {"build", "test"}
        /\ ~STAGING_POLICY.requireIndependentReview
    BY DEF STAGING_POLICY
  <1>5. log[1].input = [kind |-> "authz_receipt", summary |-> x]
    <2>1. log[1].input = Evidence[1]
      BY DEF InOrder
    <2>2. Evidence[1] = [kind |-> "authz_receipt", summary |-> asked[1]]
      BY DEF Evidence, DemoEvidence, ReceiptToEvidenceInput
    <2> QED BY <2>1, <2>2
  <1>6. x # [text |-> "silently altered"]
    <2> DEFINE y == [text |-> "silently altered"]
    <2>1. DOMAIN y = {"text"}
      OBVIOUS
    <2> HIDE DEF y
    <2>2. x # y
      BY <2>1
    <2> QED BY <2>2 DEF y
  <1> HIDE DEF staging, altered, ev
  <1>7. /\ ~VerifyChain(ev, Ring)
        /\ DOMAIN ev = DOMAIN log
        /\ \A i \in DOMAIN log : /\ ev[i].id = log[i].id
                                 /\ ev[i].input.kind = log[i].input.kind
    <2>1. RecordFields \subseteq DOMAIN log[1]
      BY DEF InOrder
    <2>2. {"kind", "summary"} \subseteq DOMAIN log[1].input /\ log[1].input.summary = x
      BY <1>5
    <2> DEFINE y == [text |-> "silently altered"]
    <2>3. log[1].input.summary # y /\ ev = Altered(log, y)
      BY <1>6, <2>2 DEF ev
    <2> HIDE DEF y
    <2> QED BY <2>1, <2>2, <2>3, TamperedIsCaught
  <1>8. Ids(ev) = Ids(log) /\ Kinds(ev) = Kinds(log)
    BY <1>7 DEF Ids, Kinds
  <1>9. /\ \A i \in 1..8 : log[i].id \in Ids(log)
        /\ {"build", "test"} \subseteq Kinds(log)
    BY LogKinds
  <1>10. Shown(staging, {})
    <2>1. AllPass(staging, 3)
      BY <1>2, <1>4, <1>9, ChecksHave DEF AllPass
    <2> QED BY <1>2, <1>4, <2>1, GateOnPasses DEF Shown
  <1>11. Shown(altered, {Reason("chain", "evidence")})
    <2>1. AllPass(altered, 3)
      BY <1>3, <1>4, <1>8, <1>9, ChecksHave DEF AllPass
    <2> QED BY <1>3, <1>4, <1>7, <2>1, GateOnPasses DEF Shown
  <1> QED BY <1>1, <1>10, <1>11

(* The sample's first document passes; the second does not, and only        *)
(* because nobody independent reviewed it.                                  *)
LEMMA AppShows ==
  ASSUME IsSeq(log), Len(log) = 8, VerifyChain(log, Ring), InOrder, driver # Demo
  PROVE  /\ Shown(AppDocuments[1], {})
         /\ Shown(AppDocuments[2], {Reason("review", "self or none")})
  <1> DEFINE staging == Document("staging", STAGING_POLICY, AppChecks)
             production == Document("production", PRODUCTION_POLICY, AppChecks)
  <1>1. AppDocuments[1] = staging /\ AppDocuments[2] = production
    BY DEF AppDocuments
  <1>2. /\ staging.policy = STAGING_POLICY /\ staging.checks = AppChecks
        /\ staging.evidence = log
        /\ staging.antiSlop.accepted /\ staging.antiSlop.blocking = {}
        /\ staging.review = NoReview /\ staging.hardBlockers = {}
        /\ staging.riskAcceptances = {}
    BY DocumentHas
  <1>3. /\ production.policy = PRODUCTION_POLICY /\ production.checks = AppChecks
        /\ production.evidence = log
        /\ production.antiSlop.accepted /\ production.antiSlop.blocking = {}
        /\ production.review = NoReview /\ production.hardBlockers = {}
        /\ production.riskAcceptances = {}
    BY DocumentHas
  <1>4. /\ STAGING_POLICY.requiredEvidenceKinds = {"build", "test"}
        /\ ~STAGING_POLICY.requireIndependentReview
        /\ PRODUCTION_POLICY.requiredEvidenceKinds =
             {"build", "test", "accessibility_result", "anti_slop_review"}
        /\ PRODUCTION_POLICY.requireIndependentReview
    BY DEF STAGING_POLICY, PRODUCTION_POLICY
  <1> HIDE DEF staging, production
  <1>5. /\ \A i \in 1..8 : log[i].id \in Ids(log)
        /\ {"build", "test", "accessibility_result", "anti_slop_review"} \subseteq Kinds(log)
    BY LogKinds
  <1>6. Shown(staging, {})
    <2>1. AllPass(staging, 6)
      BY <1>2, <1>4, <1>5, ChecksHave DEF AllPass
    <2> QED BY <1>2, <1>4, <2>1, GateOnPasses DEF Shown
  <1>7. Shown(production, {Reason("review", "self or none")})
    <2>1. AllPass(production, 6)
      BY <1>3, <1>4, <1>5, ChecksHave DEF AllPass
    <2> QED BY <1>3, <1>4, <2>1, GateOnPasses DEF Shown
  <1> QED BY <1>1, <1>6, <1>7

(* Sealing the next record keeps to the order.                              *)
LEMMA SealInOrder ==
  ASSUME LifeInv, InOrder, driver \in {Demo, App}, driver = Demo => Len(asked) = 2,
         SealNext(Evidence)
  PROVE  InOrder'
  <1> DEFINE r == Seal(log, Len(log), Evidence[Len(log) + 1], Authority, Ring)
  <1>1. /\ Len(log) < Len(Evidence) /\ log' = Append(log, r)
        /\ UNCHANGED <<vars, driver, asked, decisions, exitCode>>
    BY DEF SealNext
  <1>2. Len(Evidence) = 8
    BY DEF Evidence, DemoEvidence, AppEvidence
  <1>3. RecordFields \subseteq DOMAIN r /\ r.input = Evidence[Len(log) + 1]
    BY DEF Seal, RecordFields
  <1> HIDE DEF r
  <1>4. /\ Len(log) \in Nat /\ Len(log') = Len(log) + 1
        /\ \A i \in 1..Len(log) : log'[i] = log[i]
        /\ log'[Len(log) + 1] = r
    BY <1>1, AppendIsSeq DEF LifeInv
  <1>5. decisions = <<>> /\ exitCode = Running
    <2>1. decisions = <<>>
      BY <1>1, <1>2 DEF InOrder
    <2>2. Len(decisions) = 0
      BY <2>1
    <2> QED BY <2>1, <2>2 DEF InOrder
  <1>6. Evidence' = Evidence
    BY <1>1 DEF Evidence, DemoEvidence, AppEvidence, ReceiptToEvidenceInput
  <1>7. ASSUME NEW i \in 1..Len(log')
        PROVE  RecordFields \subseteq DOMAIN log'[i] /\ log'[i].input = Evidence'[i]
    <2>1. CASE i \in 1..Len(log)
      BY <1>4, <1>6, <2>1 DEF InOrder
    <2>2. CASE i = Len(log) + 1
      BY <1>3, <1>4, <1>6, <2>2
    <2> QED BY <1>4, <2>1, <2>2
  <1>8. decisions' = <<>> /\ Len(decisions') = 0 /\ 1..Len(decisions') = {}
    BY <1>1, <1>5
  <1> QED BY <1>1, <1>5, <1>7, <1>8 DEF InOrder

(* Deciding on the next document keeps to the order.                        *)
LEMMA EvaluateInOrder ==
  ASSUME LifeInv, InOrder, driver \in {Demo, App}, Len(log) = 8, EvaluateNext(Documents)
  PROVE  InOrder'
  <1> DEFINE d == EvaluateRelease(Documents[Len(decisions) + 1], Len(decisions),
                                  Authority, Ring)
  <1>1. /\ Len(decisions) < Len(Documents) /\ decisions' = Append(decisions, d)
        /\ UNCHANGED <<vars, driver, asked, log, exitCode>>
    BY DEF EvaluateNext
  <1>2. Len(Documents) = 2
    BY DEF Documents, DemoDocuments, AppDocuments
  <1>3. d = EvaluateRelease(Documents[Len(decisions) + 1], Len(decisions), Authority, Ring)
    OBVIOUS
  <1> HIDE DEF d
  <1>4. /\ Len(decisions) \in Nat /\ Len(decisions') = Len(decisions) + 1
        /\ \A i \in 1..Len(decisions) : decisions'[i] = decisions[i]
        /\ decisions'[Len(decisions) + 1] = d
    BY <1>1, AppendIsSeq DEF LifeInv
  <1>5. exitCode = Running
    <2>1. Len(decisions) # 2
      <3>1. Len(decisions) < 2 /\ Len(decisions) \in Nat
        BY <1>1, <1>2, <1>4
      <3> QED BY <3>1
    <2> QED BY <2>1 DEF InOrder
  <1>6. Documents' = Documents /\ Evidence' = Evidence
    BY <1>1 DEF Documents, DemoDocuments, AppDocuments, Document, Tampered, DemoChecks,
                AppChecks, Passed, Evidence, DemoEvidence, AppEvidence,
                ReceiptToEvidenceInput
  <1>7. ASSUME NEW i \in 1..Len(decisions')
        PROVE  decisions'[i] = EvaluateRelease(Documents'[i], i - 1, Authority, Ring)
    <2>1. CASE i \in 1..Len(decisions)
      BY <1>4, <1>6, <2>1 DEF InOrder
    <2>2. CASE i = Len(decisions) + 1
      <3>1. i - 1 = Len(decisions)
        BY <1>4, <2>2
      <3> QED BY <1>3, <1>4, <1>6, <2>2, <3>1
    <2> QED BY <1>4, <2>1, <2>2
  <1>8. Len(decisions') <= 2
    BY <1>1, <1>2, <1>4
  <1> QED BY <1>1, <1>5, <1>6, <1>7, <1>8 DEF InOrder

(* Registering what the broker signed gives the engine just that.           *)
LEMMA DemoRegisters ==
  ASSUME NEW t \in Times, NEW s, s = SignedGrant(t)
  PROVE  /\ "grant_demo_1" \in GrantIds /\ s.body.id = "grant_demo_1"
         /\ GrantOf(Normalize(s.body), s.signature) = s
  <1>1. DemoGrant(t) \in Bodies /\ DemoGrant(t).id = "grant_demo_1"
    BY LifecycleAssumption DEF DemoGrant
  <1>2. s.body = Normalize(DemoGrant(t)) /\ s = [body |-> s.body, signature |-> s.signature]
    BY DEF SignedGrant, GrantOf
  <1>3. Normalize(s.body) = s.body /\ s.body.id = "grant_demo_1" /\ "grant_demo_1" \in GrantIds
    BY <1>1, <1>2, NormalizeFacts
  <1> QED BY <1>2, <1>3 DEF GrantOf

(* The engine answers the demo's next request as it said it would.          *)
LEMMA AskKeepsDemoAsks ==
  ASSUME LifeInv, DemoAsks, DemoAsk
  PROVE  DemoAsks'
  <1>1. /\ driver = Demo /\ grants["grant_demo_1"] # NoGrant /\ Len(asked) < 2
        /\ asked' = Append(asked, receipt')
        /\ UNCHANGED <<driver, log, decisions, exitCode>>
    BY DEF DemoAsk
  <1>2. PICK n \in Times : /\ asked # <<>> => n = asked[1].request.at
                           /\ Authorize(DemoRequests(n)[Len(asked) + 1])
    BY DEF DemoAsk
  <1>3. allows = <<>> /\ uses["grant_demo_1"] = 0
    BY <1>1 DEF DemoAsks
  <1>4. PICK t \in Times : minted = {SignedGrant(t)}
    BY <1>1 DEF DemoAsks
  <1>5. grants["grant_demo_1"] = SignedGrant(t) /\ SignedGrant(t) # NoGrant
    BY <1>1, <1>4 DEF DemoAsks
  <1>6. /\ [request |-> DenyReq(n), outcome |-> Outcome(DenyReq(n))] = Answers(t, n)[1]
        /\ [request |-> AllowReq(n), outcome |-> Outcome(AllowReq(n))] = Answers(t, n)[2]
    BY <1>3, <1>5, DemoAnswers
  <1>7. /\ Len(asked) \in Nat /\ Len(asked') = Len(asked) + 1
        /\ \A i \in 1..Len(asked) : asked'[i] = asked[i]
        /\ asked'[Len(asked) + 1] = receipt'
    BY <1>1, AppendIsSeq DEF LifeInv
  <1>8. minted' = minted /\ grants' = grants
    BY <1>2 DEF Authorize
  <1>9. SignedGrant(t)' = SignedGrant(t) /\ Answers(t, n)' = Answers(t, n)
    OBVIOUS
  <1>10. CASE Len(asked) = 0
    <2>1. Authorize(DenyReq(n))
      BY <1>2, <1>10 DEF DemoRequests
    <2>2. receipt' = Answers(t, n)[1]
      BY <1>6, <2>1 DEF Authorize
    <2>3. Outcome(DenyReq(n)) # "allowed"
      <3>1. Outcome(DenyReq(n)) = Answers(t, n)[1].outcome
        BY <1>6
      <3> QED BY <3>1 DEF Answers
    <2>4. allows' = <<>> /\ uses' = uses
      BY <1>3, <2>1, <2>3 DEF Authorize
    <2>5. Len(asked') = 1 /\ asked'[1] = Answers(t, n)[1]
      BY <1>7, <1>10, <2>2
    <2>6. \A i \in 1..Len(asked') : asked'[i] = Answers(t, n)[i]
      BY <2>5
    <2> HIDE DEF Answers
    <2> QED BY <1>1, <1>3, <1>4, <1>5, <1>8, <2>4, <2>5, <2>6 DEF DemoAsks
  <1>11. CASE Len(asked) = 1
    <2>1. Authorize(AllowReq(n))
      BY <1>2, <1>11 DEF DemoRequests
    <2>2. receipt' = Answers(t, n)[2]
      BY <1>6, <2>1 DEF Authorize
    <2>3. receipt'.request = AllowReq(n) /\ receipt'.outcome = Outcome(AllowReq(n))
      BY <1>6, <2>2
    <2>4. asked # <<>> /\ 1 \in 1..Len(asked)
      BY <1>11
    <2>5. asked[1] = Answers(t, n)[1]
      <3>1. PICK s, m \in Times : minted = {SignedGrant(s)} /\ asked[1] = Answers(s, m)[1]
        BY <1>1, <2>4 DEF DemoAsks
      <3>2. s = t
        <4>1. SignedGrant(s) = SignedGrant(t)
          BY <1>4, <3>1
        <4>2. SignedGrant(s).body.issuedAt = s /\ SignedGrant(t).body.issuedAt = t
          BY DEF SignedGrant, GrantOf, Normalize, DemoGrant
        <4> QED BY <4>1, <4>2
      <3>3. n = m
        <4>1. asked[1].request = DenyReq(m)
          BY <3>1 DEF Answers
        <4>2. DenyReq(m).at = m
          BY DEF DenyReq, AllowReq
        <4> QED BY <1>2, <2>4, <4>1, <4>2
      <3> QED BY <3>1, <3>2, <3>3
    <2>6. /\ Len(asked') = 2 /\ asked'[1] = Answers(t, n)[1] /\ asked'[2] = Answers(t, n)[2]
          /\ asked'[2] = receipt'
      BY <1>7, <1>11, <2>2, <2>4, <2>5
    <2>7. \A i \in 1..Len(asked') : asked'[i] = Answers(t, n)[i]
      <3>1. \A i \in 1..2 : i = 1 \/ i = 2
        OBVIOUS
      <3>2. 1..Len(asked') = 1..2
        BY <2>6
      <3> HIDE DEF Answers
      <3> QED BY <2>6, <3>1, <3>2
    <2>8. {allows'[i].request : i \in DOMAIN allows'} =
            IF receipt'.outcome = "allowed" THEN {receipt'.request} ELSE {}
      <3>1. CASE Outcome(AllowReq(n)) = "allowed"
        <4>1. allows' = Append(<<>>, [request |-> AllowReq(n),
                                      grant |-> grants[AllowReq(n).grantId]])
          BY <1>3, <2>1, <3>1 DEF Authorize, Allow
        <4> DEFINE e == [request |-> AllowReq(n), grant |-> grants[AllowReq(n).grantId]]
        <4>2. e.request = AllowReq(n)
          OBVIOUS
        <4>3. allows' = <<e>>
          BY <4>1
        <4> HIDE DEF e
        <4>4. DOMAIN allows' = {1} /\ allows'[1] = e
          BY <4>3
        <4> QED BY <2>3, <3>1, <4>2, <4>4
      <3>2. CASE Outcome(AllowReq(n)) # "allowed"
        <4>1. allows' = <<>>
          BY <1>3, <2>1, <3>2 DEF Authorize
        <4> QED BY <2>3, <3>2, <4>1
      <3> QED BY <3>1, <3>2
    <2> HIDE DEF Answers
    <2>9. /\ minted' = {SignedGrant(t)} /\ grants'["grant_demo_1"] = SignedGrant(t)
          /\ Len(asked') = 2
      BY <1>4, <1>5, <1>8, <2>6
    <2>10. {allows'[i].request : i \in DOMAIN allows'} =
             IF asked'[2].outcome = "allowed" THEN {asked'[2].request} ELSE {}
      BY <2>6, <2>8
    <2>11. minted' = {} \/ \E s \in Times : minted' = {SignedGrant(s)}
      BY <2>9
    <2>12. grants'["grant_demo_1"] \in {NoGrant} \union minted'
      BY <2>9
    <2>13. \E s, m \in Times : /\ minted' = {SignedGrant(s)}
                               /\ grants'["grant_demo_1"] = SignedGrant(s)
                               /\ \A i \in 1..Len(asked') : asked'[i] = Answers(s, m)[i]
      BY <2>7, <2>9
    <2>14. Len(asked') <= 2 /\ ~(Len(asked') < 2)
      BY <2>9
    <2> QED BY <2>10, <2>11, <2>12, <2>13, <2>14 DEF DemoAsks
  <1>12. Len(asked) = 0 \/ Len(asked) = 1
    <2>1. Len(asked) \in Nat /\ Len(asked) < 2
      BY <1>1, <1>7
    <2>2. \A k \in Nat : k < 2 => k = 0 \/ k = 1
      OBVIOUS
    <2> QED BY <2>1, <2>2, Zenon
  <1> QED BY <1>10, <1>11, <1>12

\* What the two programs keep to.
ProgInv == LifeInv /\ DemoAsks /\ InOrder

(* What InOrder is about does not change with the broker and the engine.    *)
LEMMA InOrderStays ==
  ASSUME InOrder, UNCHANGED <<driver, asked, log, decisions, exitCode>>
  PROVE  InOrder'
  <1>1. Documents' = Documents /\ Evidence' = Evidence /\ Ok' = Ok
    BY DEF Documents, DemoDocuments, AppDocuments, Document, Tampered, DemoChecks,
           AppChecks, Passed, Evidence, DemoEvidence, AppEvidence,
           ReceiptToEvidenceInput, Ok
  <1> QED BY <1>1 DEF InOrder

(* The demo's grant has a place in the engine.                              *)
LEMMA DemoId == "grant_demo_1" \in GrantIds
  <1>1. PICK now : now \in Times
    BY LifecycleAssumption
  <1>2. DemoGrant(now).id = "grant_demo_1"
    BY DEF DemoGrant
  <1>3. DemoGrant(now) \in Bodies
    BY <1>1, LifecycleAssumption
  <1> QED BY <1>2, <1>3, AuthzAssumption

(* The invariant of the two programs holds before they do anything.         *)
LEMMA LifeInitProgInv == ASSUME LifeInit PROVE ProgInv
  <1>1. /\ minted = {} /\ grants = [i \in GrantIds |-> NoGrant]
        /\ uses = [i \in GrantIds |-> 0] /\ allows = <<>>
        /\ asked = <<>> /\ log = <<>> /\ decisions = <<>> /\ exitCode = Running
    BY DEF LifeInit, Init
  <1>2. LifeInv
    BY LifeInitLifeInv
  <1>3. DemoAsks
    <2>1. Len(asked) = 0
      BY <1>1
    <2> QED BY <1>1, <2>1, DemoId DEF DemoAsks
  <1>4. InOrder
    <2>1. Len(log) = 0 /\ Len(decisions) = 0 /\ 1..0 = {}
      BY <1>1
    <2> QED BY <1>1, <2>1 DEF InOrder
  <1> QED BY <1>2, <1>3, <1>4 DEF ProgInv

(* Issuing and registering leave the demo with its one grant.               *)
LEMMA DemoIssues ==
  ASSUME DemoAsks, DemoIssue
  PROVE  DemoAsks'
  <1>1. PICK now \in Times : Issue(DemoGrant(now))
    BY DEF DemoIssue
  <1>2. driver = Demo /\ minted = {} /\ UNCHANGED <<driver, asked, grants, uses, allows>>
    BY <1>1 DEF DemoIssue, Issue
  <1>3. minted' = {SignedGrant(now)}
    <2>1. DemoGrant(now).keyId = Ring.defaultKeyId
      BY DEF DemoGrant
    <2> QED BY <1>1, <1>2, <2>1 DEF Issue, SignedGrant
  <1>4. asked = <<>> /\ Len(asked) = 0
    BY <1>2 DEF DemoAsks
  <1>5. grants["grant_demo_1"] = NoGrant /\ allows = <<>> /\ uses["grant_demo_1"] = 0
    BY <1>2, <1>4 DEF DemoAsks
  <1> QED BY <1>2, <1>3, <1>4, <1>5 DEF DemoAsks

(* The engine of the demo gets the grant that its broker signed.            *)
LEMMA DemoRegistersIts ==
  ASSUME TypeOK, DemoAsks, DemoRegister
  PROVE  DemoAsks'
  <1>1. PICK g \in minted : Register(g.body, g.signature)
    BY DEF DemoRegister
  <1>2. driver = Demo /\ UNCHANGED <<driver, asked, minted, uses, allows>>
    BY <1>1 DEF DemoRegister, Register
  <1>3. PICK t \in Times : minted = {SignedGrant(t)} /\ g = SignedGrant(t)
    BY <1>1, <1>2 DEF DemoAsks
  <1>4. grants'["grant_demo_1"] = SignedGrant(t)
    <2>1. /\ g.body.id = "grant_demo_1" /\ "grant_demo_1" \in GrantIds
          /\ GrantOf(Normalize(g.body), g.signature) = g
      BY <1>3, DemoRegisters
    <2>2. grants' = [grants EXCEPT !["grant_demo_1"] = g] /\ DOMAIN grants = GrantIds
      BY <1>1, <2>1 DEF Register, TypeOK
    <2> QED BY <1>3, <2>1, <2>2
  <1>5. asked # <<>> =>
          \E s, n \in Times : /\ minted = {SignedGrant(s)}
                              /\ grants'["grant_demo_1"] = SignedGrant(s)
                              /\ \A i \in 1..Len(asked) : asked[i] = Answers(s, n)[i]
    <2> SUFFICES ASSUME asked # <<>> PROVE
          \E s, n \in Times : /\ minted = {SignedGrant(s)}
                              /\ grants'["grant_demo_1"] = SignedGrant(s)
                              /\ \A i \in 1..Len(asked) : asked[i] = Answers(s, n)[i]
      OBVIOUS
    <2>1. PICK s, n \in Times : /\ minted = {SignedGrant(s)}
                                /\ \A i \in 1..Len(asked) : asked[i] = Answers(s, n)[i]
      BY <1>2 DEF DemoAsks
    <2>2. SignedGrant(s) = SignedGrant(t)
      BY <1>3, <2>1
    <2> QED BY <1>4, <2>1, <2>2
  <1> QED BY <1>2, <1>3, <1>4, <1>5 DEF DemoAsks

(* Every step of the two programs preserves their invariant.                *)
LEMMA LifeStepProgInv == ASSUME ProgInv, [LifeNext]_lifeVars PROVE ProgInv'
  <1> USE DEF ProgInv
  <1>1. LifeInv'
    BY LifeStepLifeInv
  <1>2. TypeOK
    BY DEF LifeInv, IInv
  <1>3. CASE Call
    <2>1. driver \notin {Demo, App} /\ driver' = driver
          /\ UNCHANGED <<driver, asked, log, decisions, exitCode>>
      BY <1>3, LifecycleAssumption DEF Call
    <2> QED BY <1>1, <2>1, InOrderStays DEF DemoAsks
  <1>4. CASE DemoIssue
    BY <1>1, <1>4, InOrderStays, DemoIssues DEF DemoIssue
  <1>5. CASE DemoRegister
    BY <1>1, <1>2, <1>5, InOrderStays, DemoRegistersIts DEF DemoRegister
  <1>6. CASE DemoAsk
    <2>1. /\ driver = Demo /\ Len(asked) < 2
          /\ UNCHANGED <<driver, log, decisions, exitCode>>
      BY <1>6 DEF DemoAsk
    <2>2. log = <<>>
      <3>1. Len(asked) # 2
        BY <2>1
      <3> QED BY <2>1, <3>1 DEF InOrder
    <2>3. Len(log) = 0 /\ Len(log) # 8
      BY <2>2
    <2>4. decisions = <<>>
      BY <2>3 DEF InOrder
    <2>5. Len(decisions) = 0 /\ 1..0 = {}
      BY <2>4
    <2>6. exitCode = Running
      BY <2>5 DEF InOrder
    <2>7. InOrder'
      BY <2>1, <2>2, <2>3, <2>4, <2>5, <2>6 DEF InOrder
    <2> QED BY <1>1, <1>6, <2>7, AskKeepsDemoAsks
  <1>7. CASE DemoSeal \/ AppSeal
    <2>1. /\ driver \in {Demo, App}
          /\ driver = Demo => Len(asked) = 2
          /\ SealNext(Evidence)
      <3>1. CASE DemoSeal
        BY <3>1 DEF DemoSeal, Evidence
      <3>2. CASE AppSeal
        <4>1. driver = App /\ driver # Demo
          BY <3>2, LifecycleAssumption DEF AppSeal
        <4> QED BY <3>2, <4>1 DEF AppSeal, Evidence
      <3> QED BY <1>7, <3>1, <3>2
    <2>2. InOrder'
      BY <2>1, SealInOrder
    <2>3. UNCHANGED <<vars, driver, asked>>
      BY <2>1 DEF SealNext
    <2>4. DemoAsks'
      BY <2>3 DEF vars, DemoAsks
    <2> QED BY <1>1, <2>2, <2>4
  <1>8. CASE DemoEvaluate \/ AppEvaluate
    <2>1. driver \in {Demo, App} /\ Len(log) = 8 /\ EvaluateNext(Documents)
      BY <1>8, LifecycleAssumption DEF DemoEvaluate, AppEvaluate, Documents
    <2>2. InOrder'
      BY <2>1, EvaluateInOrder
    <2>3. UNCHANGED <<vars, driver, asked>>
      BY <2>1 DEF EvaluateNext
    <2>4. DemoAsks'
      BY <2>3 DEF vars, DemoAsks
    <2> QED BY <1>1, <2>2, <2>4
  <1>9. CASE DemoExit
    <2>1. /\ driver = Demo /\ Len(decisions) = 2
          /\ exitCode' = IF Ok THEN 0 ELSE 1
          /\ UNCHANGED <<vars, driver, asked, log, decisions>>
      BY <1>9 DEF DemoExit
    <2>2. Documents' = Documents /\ Evidence' = Evidence /\ Ok' = Ok
      BY <2>1 DEF Documents, DemoDocuments, AppDocuments, Document, Tampered, DemoChecks,
             AppChecks, Passed, Evidence, DemoEvidence, AppEvidence,
             ReceiptToEvidenceInput, Ok
    <2>3. InOrder'
      BY <2>1, <2>2 DEF InOrder
    <2>4. DemoAsks'
      BY <2>1 DEF vars, DemoAsks
    <2> QED BY <1>1, <2>3, <2>4
  <1>10. CASE UNCHANGED lifeVars
    <2>1. UNCHANGED <<vars, driver, asked, log, decisions, exitCode>>
      BY <1>10 DEF lifeVars
    <2>2. InOrder'
      BY <2>1, InOrderStays
    <2>3. DemoAsks'
      BY <2>1 DEF vars, DemoAsks
    <2> QED BY <1>1, <2>2, <2>3
  <1> QED BY <1>3, <1>4, <1>5, <1>6, <1>7, <1>8, <1>9, <1>10 DEF LifeNext

(* The invariant of the two programs holds throughout.                      *)
LEMMA ProgInvariance == LifeSpec => []ProgInv
  BY LifeInitProgInv, LifeStepProgInv, PTL DEF LifeSpec

(* What the programs show in the end, from the documents they decided on.   *)
LEMMA TwoDecisions ==
  ASSUME ProgInv, Len(decisions) = 2
  PROVE  /\ Len(log) = 8 /\ driver \in {Demo, App}
         /\ driver = Demo => Len(asked) = 2
         /\ decisions[1].verdict = "pass" /\ decisions[1].warnings = {}
         /\ decisions[2].verdict = "blocked"
         /\ decisions[2].blocking =
              {IF driver = Demo THEN Reason("chain", "evidence")
               ELSE Reason("review", "self or none")}
  <1> USE DEF ProgInv
  <1>1. decisions # <<>>
    OBVIOUS
  <1>2. Len(log) = 8 /\ log # <<>> /\ IsSeq(log) /\ VerifyChain(log, Ring)
    <2>1. Len(log) = 8
      BY <1>1 DEF InOrder
    <2>2. log # <<>>
      BY <2>1
    <2> QED BY <2>1, <2>2 DEF LifeInv, LifeTypeOK
  <1>3. driver \in {Demo, App}
    BY <1>2 DEF InOrder
  <1>4. driver = Demo => Len(asked) = 2
    BY <1>2 DEF InOrder
  <1>5. /\ decisions[1] = EvaluateRelease(Documents[1], 0, Authority, Ring)
        /\ decisions[2] = EvaluateRelease(Documents[2], 1, Authority, Ring)
    <2>1. 1 \in 1..Len(decisions) /\ 2 \in 1..Len(decisions) /\ 1 - 1 = 0 /\ 2 - 1 = 1
      OBVIOUS
    <2> QED BY <2>1 DEF InOrder
  <1> DEFINE why == IF driver = Demo THEN Reason("chain", "evidence")
                    ELSE Reason("review", "self or none")
  <1>6. Shown(Documents[1], {}) /\ Shown(Documents[2], {why})
    <2>1. CASE driver = Demo
      <3>1. PICK t, n \in Times : \A i \in 1..Len(asked) : asked[i] = Answers(t, n)[i]
        <4>1. asked # <<>>
          BY <1>4, <2>1
        <4> QED BY <2>1, <4>1 DEF DemoAsks
      <3>2. asked[1] = Answers(t, n)[1]
        BY <1>4, <2>1, <3>1
      <3>3. "request" \in DOMAIN Answers(t, n)[1]
        BY DEF Answers
      <3> HIDE DEF Answers
      <3>4. Shown(DemoDocuments[1], {})
            /\ Shown(DemoDocuments[2], {Reason("chain", "evidence")})
        BY <1>2, <2>1, <3>2, <3>3, DemoShows
      <3> QED BY <2>1, <3>4 DEF Documents
    <2>2. CASE driver # Demo
      BY <1>2, <2>2, AppShows DEF Documents
    <2> QED BY <2>1, <2>2
  <1> HIDE DEF why
  <1>7. /\ decisions[1].verdict = "pass" /\ decisions[1].warnings = {}
        /\ decisions[2].verdict = "blocked" /\ decisions[2].blocking = {why}
    <2>1. {why} # {}
      OBVIOUS
    <2> QED BY <1>5, <1>6, <2>1, ShownIn
  <1> QED BY <1>2, <1>3, <1>4, <1>7 DEF why

(* Whatever the clock shows, both programs end with one release that passes *)
(* and one that is refused for the reason they give (demo.ts:169-178,       *)
(* lifecycle.ts:166-167).                                                   *)
THEOREM RefusalsAreTheOnesShown == LifeSpec => []RefusedForTheReasonShown
  <1>1. ProgInv => RefusedForTheReasonShown
    BY TwoDecisions DEF RefusedForTheReasonShown
  <1> QED BY ProgInvariance, <1>1, PTL

(* The demo, when it has exited, and the receipts of the two requests.      *)
LEMMA ExitTells ==
  ASSUME ProgInv, exitCode # Running
  PROVE  DemoTellsWhatHappened
  <1> USE DEF ProgInv
  <1>1. driver = Demo /\ Len(decisions) = 2 /\ exitCode = IF Ok THEN 0 ELSE 1
    BY DEF InOrder
  <1>2. /\ Len(log) = 8 /\ Len(asked) = 2 /\ IsSeq(log) /\ VerifyChain(log, Ring)
        /\ decisions[1].verdict = "pass" /\ decisions[2].verdict = "blocked"
    BY <1>1, TwoDecisions DEF LifeInv, LifeTypeOK
  <1>3. PICK t, n \in Times : /\ minted = {SignedGrant(t)}
                              /\ \A i \in 1..Len(asked) : asked[i] = Answers(t, n)[i]
    <2>1. asked # <<>>
      BY <1>2
    <2> QED BY <1>1, <2>1 DEF DemoAsks
  <1>4. asked[1] = Answers(t, n)[1] /\ asked[2] = Answers(t, n)[2]
    BY <1>2, <1>3
  <1>5. /\ asked[1].request = DenyReq(n) /\ asked[2].request = AllowReq(n)
        /\ asked[1].outcome = IF n < t THEN "not_yet_valid" ELSE "no_matching_capability"
        /\ asked[2].outcome = IF n < t THEN "not_yet_valid" ELSE "allowed"
    BY <1>4 DEF Answers
  <1>6. DenyReq(n).at = n /\ SignedGrant(t).body.issuedAt = t
    BY DEF DenyReq, AllowReq, SignedGrant, GrantOf, Normalize, DemoGrant
  <1>7. t \in Nat /\ n \in Nat
    BY LifecycleAssumption
  <1>8. (exitCode = 0) <=> \E g \in minted : g.body.issuedAt <= asked[1].request.at
    <2>1. Ok <=> ~(n < t)
      <3>1. AntiSlop.accepted
        BY ReviewAccepts
      <3> QED BY <1>2, <1>5, <3>1 DEF Ok
    <2>2. (\E g \in minted : g.body.issuedAt <= asked[1].request.at) <=> t <= n
      BY <1>3, <1>5, <1>6
    <2>3. exitCode = 0 <=> Ok
      BY <1>1
    <2> QED BY <1>7, <2>1, <2>2, <2>3
  <1>9. {log[i].input.summary.request : i \in
           {j \in DOMAIN log : /\ log[j].input.kind = "authz_receipt"
                               /\ log[j].input.summary.outcome = "allowed"}}
          = {allows[i].request : i \in DOMAIN allows}
    <2>1. DOMAIN log = 1..8 /\ \A i \in 1..8 : log[i].input = DemoEvidence[i]
      BY <1>1, <1>2 DEF InOrder, Evidence, IsSeq
    <2>2. /\ DemoEvidence[1].kind = "authz_receipt" /\ DemoEvidence[1].summary = asked[1]
          /\ DemoEvidence[2].kind = "authz_receipt" /\ DemoEvidence[2].summary = asked[2]
      BY DEF DemoEvidence, ReceiptToEvidenceInput
    <2>3. \A i \in 1..8 : i = 1 \/ i = 2 \/ DemoEvidence[i].kind # "authz_receipt"
      <3>1. /\ DemoEvidence[3].kind = "test" /\ DemoEvidence[4].kind = "test"
            /\ DemoEvidence[5].kind = "test" /\ DemoEvidence[6].kind = "build"
            /\ DemoEvidence[7].kind = "accessibility_result"
            /\ DemoEvidence[8].kind = "anti_slop_review"
        BY DEF DemoEvidence, Entry
      <3>2. \A i \in 1..8 : i = 1 \/ i = 2 \/ i = 3 \/ i = 4 \/ i = 5 \/ i = 6 \/ i = 7 \/ i = 8
        OBVIOUS
      <3> QED BY <3>1, <3>2
    <2> DEFINE J == {j \in DOMAIN log : /\ log[j].input.kind = "authz_receipt"
                                        /\ log[j].input.summary.outcome = "allowed"}
    <2>4. J = IF asked[2].outcome = "allowed" THEN {2} ELSE {}
      <3>1. /\ log[1].input.kind = "authz_receipt" /\ log[1].input.summary = asked[1]
            /\ log[2].input.kind = "authz_receipt" /\ log[2].input.summary = asked[2]
            /\ 1 \in DOMAIN log /\ 2 \in DOMAIN log
        BY <2>1, <2>2
      <3>2. asked[1].outcome # "allowed"
        BY <1>5
      <3>3. \A j \in DOMAIN log : j = 1 \/ j = 2 \/ log[j].input.kind # "authz_receipt"
        BY <2>1, <2>3
      <3> QED BY <3>1, <3>2, <3>3
    <2>5. {allows[i].request : i \in DOMAIN allows} =
            IF asked[2].outcome = "allowed" THEN {asked[2].request} ELSE {}
      BY <1>1, <1>2 DEF DemoAsks
    <2>6. log[2].input.summary.request = asked[2].request
      BY <2>1, <2>2
    <2> HIDE DEF J
    <2>7. {log[i].input.summary.request : i \in J} =
            IF asked[2].outcome = "allowed" THEN {asked[2].request} ELSE {}
      BY <2>4, <2>6
    <2> QED BY <2>5, <2>7 DEF J
  <1> QED BY <1>8, <1>9 DEF DemoTellsWhatHappened

(* Whatever the clock shows, the demo exits with 0 exactly if it did not    *)
(* step back, and its evidence says of exactly the requests allowed that    *)
(* they were (demo.ts:60, :75, :91).                                        *)
THEOREM DemoIsTruthful == LifeSpec => []DemoTellsWhatHappened
  <1>1. ProgInv => DemoTellsWhatHappened
    BY ExitTells DEF DemoTellsWhatHappened
  <1> QED BY ProgInvariance, <1>1, PTL
============================================================================

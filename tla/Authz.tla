------------------------------- MODULE Authz -------------------------------
(***************************************************************************)
(* TC-07: the credential broker and an authorization engine.  The broker    *)
(* mints signed grants; whoever holds a grant registers it, possibly with   *)
(* another body or with a signature from elsewhere; agents present requests *)
(* that name a grant.  The engine reads time only from the request.  Its    *)
(* state is in memory: a restart is a new engine.                           *)
(***************************************************************************)
EXTENDS Signing, Integers, Sequences, FiniteSets

CONSTANTS GrantIds,           \* grant ids
          Bodies,             \* bodies the broker is asked to sign, and bodies
                              \* that presented grants carry
          Requests,           \* authorization requests
          Matching,           \* <<pattern, resource>> that resourceMatches accepts
          Ring,               \* the key ring the broker signs with and the
                              \* engine verifies with
          ForeignSignatures,  \* signatures made without a key of the ring
          NoGrant,            \* no grant is registered
          NoReceipt,          \* no request was decided yet
          MaxAllows           \* bound on the requests allowed

Absent == -1  \* an optional field that is not there

(* The schema's default, which both GrantBody.parse and Grant.parse apply.  *)
Normalize(b) ==
  [b EXCEPT !.maxUses = IF b.maxUses = Absent THEN 1 ELSE b.maxUses]

GrantOf(body, signature) == [body |-> body, signature |-> signature]

NormalBodies == {Normalize(b) : b \in Bodies}

ASSUME AuthzAssumption ==
  /\ MaxAllows \in Nat
  /\ \A b \in Bodies :
       /\ DOMAIN b = {"id", "subjectId", "capabilities", "audience", "issuedAt",
                      "notBefore", "expiresAt", "nonce", "maxUses", "keyId"}
       /\ b.id \in GrantIds
       /\ b.maxUses \in (Nat \ {0}) \union {Absent}
       /\ b.issuedAt \in Nat /\ b.expiresAt \in Nat
       /\ b.notBefore \in Nat \union {Absent}
  /\ \A r \in Requests :
       r.grantId \in GrantIds /\ r.wellFormed \in BOOLEAN /\ r.at \in Nat
  /\ \A s \in ForeignSignatures, k \in DOMAIN Ring.keys :
       s.key # Ring.keys[k]

VARIABLES minted,    \* history: the grants the broker has issued
          grants,    \* #grants of the engine
          uses,      \* #usesConsumed of the engine
          receipt,   \* the receipt of the last decision
          allows,    \* history: allowed requests, each with the grant it used
          since      \* history: how many an earlier engine allowed

vars == <<minted, grants, uses, receipt, allows, since>>

----------------------------------------------------------------------------
\* Bug: a known key id is taken for a signature.
VerifyGrantKeyOnly(g) == HasKey(Ring, g.body.keyId)

VerifyGrant(g) ==
  VerifySignature(Ring, g.body,
                  [keyId |-> g.body.keyId, value |-> g.signature])

NotBefore(b) == IF b.notBefore = Absent THEN b.issuedAt ELSE b.notBefore

Expired(b, at) == at >= b.expiresAt

Capable(b, req) ==
  \E c \in b.capabilities :
    c.action = req.action /\ <<c.resource, req.resource>> \in Matching

(* The decision of authorize: the first check that fails names the denial.  *)
Outcome(req) ==
  LET g == grants[req.grantId]
      consumed == uses[req.grantId]
  IN
  IF ~req.wellFormed THEN "malformed_request"
  ELSE IF g = NoGrant THEN "no_grant"
  ELSE IF ~VerifyGrant(g) THEN "grant_signature_invalid"
  ELSE IF g.body.subjectId # req.subjectId THEN "subject_mismatch"
  ELSE IF g.body.audience # req.audience THEN "audience_mismatch"
  ELSE IF req.at < NotBefore(g.body) THEN "not_yet_valid"
  ELSE IF Expired(g.body, req.at) THEN "expired"
  ELSE IF g.body.nonce # req.nonce THEN "nonce_mismatch"
  ELSE IF g.body.maxUses = 1 /\ consumed >= 1 THEN "replayed"
  ELSE IF consumed >= g.body.maxUses THEN "uses_exhausted"
  ELSE IF ~Capable(g.body, req) THEN "no_matching_capability"
  ELSE "allowed"

----------------------------------------------------------------------------
Init ==
  /\ minted = {}
  /\ grants = [i \in GrantIds |-> NoGrant]
  /\ uses = [i \in GrantIds |-> 0]
  /\ receipt = NoReceipt
  /\ allows = <<>>
  /\ since = 0

\* AuthzBroker.issue; it throws for a key id that the broker does not hold.
Issue(b) ==
  /\ HasKey(Ring, b.keyId)
  /\ minted' = minted \union
       {GrantOf(Normalize(b),
                SignWith(Ring, b.keyId, Normalize(b)).value)}
  /\ UNCHANGED <<grants, uses, receipt, allows, since>>

\* Signatures that someone outside the broker can put on a grant.
KnownSignatures == {g.signature : g \in minted} \union ForeignSignatures

\* Bug: the engine keeps the grant as presented, not as parsed.
RegisterUnparsed(b, s) ==
  /\ s \in KnownSignatures
  /\ grants' = [grants EXCEPT ![b.id] = GrantOf(b, s)]
  /\ UNCHANGED <<minted, uses, receipt, allows, since>>

\* Bug: registering a grant gives its id a fresh budget.
RegisterResettingUses(b, s) ==
  /\ s \in KnownSignatures
  /\ grants' = [grants EXCEPT ![b.id] = GrantOf(Normalize(b), s)]
  /\ uses' = [uses EXCEPT ![b.id] = 0]
  /\ UNCHANGED <<minted, receipt, allows, since>>

\* AuthorizationEngine.registerGrant: any grant with the shape of one, no more.
Register(b, s) ==
  /\ s \in KnownSignatures
  /\ grants' = [grants EXCEPT ![b.id] = GrantOf(Normalize(b), s)]
  /\ UNCHANGED <<minted, uses, receipt, allows, since>>

Allow(req) ==
  allows' = Append(allows, [request |-> req, grant |-> grants[req.grantId]])

\* Bug: a use is consumed before the capability is looked up.
ConsumeEarly(req) ==
  /\ Len(allows) < MaxAllows
  /\ LET o == Outcome(req) IN
     /\ receipt' = [request |-> req, outcome |-> o]
     /\ IF o \in {"allowed", "no_matching_capability"}
        THEN uses' = [uses EXCEPT ![req.grantId] = @ + 1] ELSE UNCHANGED uses
     /\ IF o = "allowed" THEN Allow(req) ELSE UNCHANGED allows
  /\ UNCHANGED <<minted, grants, since>>

\* AuthorizationEngine.authorize: a receipt always, a use only when allowed.
Authorize(req) ==
  /\ Len(allows) < MaxAllows
  /\ receipt' = [request |-> req, outcome |-> Outcome(req)]
  /\ IF Outcome(req) = "allowed"
     THEN uses' = [uses EXCEPT ![req.grantId] = @ + 1] /\ Allow(req)
     ELSE UNCHANGED <<uses, allows>>
  /\ UNCHANGED <<minted, grants, since>>

\* A new AuthorizationEngine: nothing of the old one is kept.
Restart ==
  /\ grants' = [i \in GrantIds |-> NoGrant]
  /\ uses' = [i \in GrantIds |-> 0]
  /\ since' = Len(allows)
  /\ UNCHANGED <<minted, receipt, allows>>

Next ==
  \/ \E b \in Bodies : Issue(b)
  \/ \E b \in Bodies : \E s \in KnownSignatures : Register(b, s)
  \/ \E req \in Requests : Authorize(req)
  \/ Restart

Spec == Init /\ [][Next]_vars

----------------------------------------------------------------------------
GrantLike ==
  {NoGrant} \union [body : NormalBodies, signature : KnownSignatures]

TypeOK ==
  /\ minted \subseteq [body : NormalBodies, signature : KnownSignatures]
  /\ grants \in [GrantIds -> GrantLike]
  /\ \A i \in GrantIds : grants[i] # NoGrant => grants[i].body.id = i
  /\ uses \in [GrantIds -> Nat]
  /\ receipt = NoReceipt \/ receipt.request \in Requests
  /\ allows \in Seq([request : Requests, grant : GrantLike])
  /\ since \in 0..Len(allows)

\* The requests that this engine allowed under grant id, up to the n-th.
AllowsUpTo(id, n) ==
  {j \in (since + 1)..n : allows[j].request.grantId = id}

\* What a grant says of a request, taken from the contract and not the engine.
Covers(b, req) ==
  /\ b.id = req.grantId
  /\ b.subjectId = req.subjectId
  /\ b.audience = req.audience
  /\ b.nonce = req.nonce
  /\ (IF b.notBefore = Absent THEN b.issuedAt ELSE b.notBefore) <= req.at
  /\ req.at < b.expiresAt
  /\ Capable(b, req)

(* A request is allowed only under a grant that the broker issued, as it    *)
(* issued it, and that covers the request: neither an altered body under    *)
(* the signature of another grant nor a foreign signature ever authorizes   *)
(* anything (engine.ts:26).                                                 *)
AllowedByMintedGrant ==
  \A i \in 1..Len(allows) :
    /\ allows[i].grant \in minted
    /\ Covers(allows[i].grant.body, allows[i].request)

(* One engine allows no more requests under a grant id than the budget of   *)
(* the grant that allowed the last of them, whatever grants were registered *)
(* under that id in between (engine.ts:105-111).                            *)
UseBudget ==
  \A i \in (since + 1)..Len(allows) :
    Cardinality(AllowsUpTo(allows[i].request.grantId, i))
      <= allows[i].grant.body.maxUses

(* Denials burn nothing and nothing else stands in the way: a request is    *)
(* allowed exactly when the grant registered under its id is one that the   *)
(* broker issued, covers the request, and has a budget greater than the     *)
(* number of requests allowed so far under that id (engine.ts:117).  A      *)
(* default the schema fills in never breaks a signature (broker.ts:24).     *)
AllowedWhileBudgetLasts ==
  [][receipt' # NoReceipt =>
       LET req == receipt'.request IN
       Authorize(req) =>
         (receipt'.outcome = "allowed" <=>
            /\ req.wellFormed
            /\ grants[req.grantId] # NoGrant
            /\ grants[req.grantId] \in minted
            /\ Covers(grants[req.grantId].body, req)
            /\ Cardinality(AllowsUpTo(req.grantId, Len(allows)))
                 < grants[req.grantId].body.maxUses)]_vars
============================================================================

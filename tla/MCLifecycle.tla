---------------------------- MODULE MCLifecycle ----------------------------
(* Lifecycle with the demo, the sample of the web application, and callers:  *)
(* one that has grants of two bodies signed for one id, alters and replays   *)
(* them and varies requests one field at a time; and for each small pattern  *)
(* and resource one that has the pattern granted and asks for the resource.  *)
EXTENDS Lifecycle

CONSTANTS agent1, agent2, tool1, tool2, key1, unknownKey, secret1, secret2,
          nonce1, nonce2

AppSources == <<"app", "/", "*", "*">>
AppFile == <<"app", "/", "a.ts">>

SingleUse ==
  [id |-> "g1", subjectId |-> agent1, audience |-> tool1, nonce |-> nonce1,
   capabilities |-> {[action |-> "fs.write", resource |-> AppSources]},
   issuedAt |-> 1, notBefore |-> Absent, expiresAt |-> 3, maxUses |-> Absent,
   keyId |-> key1]

CallerBodies ==
  { SingleUse,
    [SingleUse EXCEPT !.nonce = nonce2, !.maxUses = 2, !.notBefore = 2],
    [SingleUse EXCEPT !.subjectId = agent2],
    [SingleUse EXCEPT !.keyId = unknownKey] }

Write ==
  [grantId |-> "g1", subjectId |-> agent1, audience |-> tool1, nonce |-> nonce1,
   action |-> "fs.write", resource |-> AppFile, at |-> 1, wellFormed |-> TRUE]

CallerRequests ==
  { Write,
    [Write EXCEPT !.wellFormed = FALSE],
    [Write EXCEPT !.grantId = "g2"],
    [Write EXCEPT !.subjectId = agent2],
    [Write EXCEPT !.audience = tool2],
    [Write EXCEPT !.at = 0],
    [Write EXCEPT !.at = 3],
    [Write EXCEPT !.action = "secret.use"],
    [Write EXCEPT !.nonce = nonce2],
    [Write EXCEPT !.nonce = nonce2, !.at = 2] }

Words(symbols, n) == UNION {[1..k -> symbols] : k \in 1..n}

SmallPatterns ==
  Words({"a", "/", "*"}, 3) \union
    {<<"a", "/", "*", "*">>, <<"*", "*", "*", "*">>, <<"*", "*", "/", "*">>,
     <<"a", "newline">>}

SmallResources ==
  Words({"a", "/", "lineSeparator"}, 3) \union {<<"a", "newline">>, <<"newline">>}

Granting(p) == [SingleUse EXCEPT !.capabilities = {[action |-> "fs.write", resource |-> p]}]
Asking(r) == [Write EXCEPT !.resource = r]

\* A caller is named by its pattern and resource, the first one by none.
Open == [pattern |-> <<>>, resource |-> <<>>]

MCCallers ==
  [c \in {Open} \union [pattern : SmallPatterns, resource : SmallResources] |->
     IF c = Open THEN [bodies |-> CallerBodies, requests |-> CallerRequests, allows |-> 4]
     ELSE [bodies |-> {Granting(c.pattern)}, requests |-> {Asking(c.resource)},
           allows |-> 1]]

MCTimes == {0, 1}

MCBodies ==
  CallerBodies \union {Granting(p) : p \in SmallPatterns}
    \union {DemoGrant(now) : now \in MCTimes}

MCRequests ==
  CallerRequests \union {Asking(r) : r \in SmallResources}
    \union {AllowReq(now) : now \in MCTimes} \union {DenyReq(now) : now \in MCTimes}

MCRing == SingleKeyRing(key1, secret1)

MCForeignSignatures == {HmacSha256(secret2, Normalize(SingleUse))}
============================================================================

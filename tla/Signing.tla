------------------------------ MODULE Signing ------------------------------
(***************************************************************************)
(* The primitives of @nas/crypto and the Signer of @nas/kernel-evidence.    *)
(* sha256 over canonical JSON is a constructor, so it is injective and      *)
(* never yields a value it was not applied to; an HMAC is a constructor of  *)
(* the secret and the message, so only the holder of a secret makes one.    *)
(***************************************************************************)

Sha256(body) == [sha256 |-> body]

HmacSha256(secret, message) == [key |-> secret, hmac |-> message]

(***************************************************************************)
(* A signer is a key ring: `keys' maps each key id it holds to a secret and *)
(* `defaultKeyId' names the one it signs with unless told otherwise.        *)
(***************************************************************************)
HasKey(ring, keyId) == keyId \in DOMAIN ring.keys

\* Callers check HasKey first: the signer throws for an unknown key id.
SignWith(ring, keyId, message) ==
  [keyId |-> keyId, value |-> HmacSha256(ring.keys[keyId], message)]

Sign(ring, message) == SignWith(ring, ring.defaultKeyId, message)

\* A signature under a key id the ring does not hold never verifies.
VerifySignature(ring, message, signature) ==
  /\ HasKey(ring, signature.keyId)
  /\ signature.value = HmacSha256(ring.keys[signature.keyId], message)

\* The ring that the CLI builds from the one key of its environment.
SingleKeyRing(keyId, secret) ==
  [defaultKeyId |-> keyId, keys |-> [k \in {keyId} |-> secret]]
============================================================================

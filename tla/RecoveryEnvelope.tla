-------------------------- MODULE RecoveryEnvelope --------------------------
(***************************************************************************)
(* The signing helpers that protocol/bootstrap.go and                      *)
(* protocol/managed_lifecycle.go share.  Ed25519 and the SHA-256 of the    *)
(* signing bytes are symbolic: a signature is the key and the bytes it was *)
(* computed over, and the bytes are a domain with the canonical payload, so*)
(* they are equal exactly when the encoded JSON or protobuf is.  The zero  *)
(* time.Time is 0.                                                         *)
(***************************************************************************)
EXTENDS Naturals

CONSTANT NoKey     \* a key of the wrong size

(* The domain and payload that recoverySigningJSON encodes.                *)
recoverySigningJSON(domain, payload) == <<domain, payload>>

NoSignature == [KeyID |-> NoKey, Value |-> <<>>]

(* A key of the wrong size signs nothing: Sign returns an error.           *)
signRecoveryBytes(data, key) ==
    IF key = NoKey THEN NoSignature ELSE [KeyID |-> key, Value |-> data]

verifyRecoveryBytes(data, signature, public) ==
    /\ public # NoKey
    /\ signature.KeyID = public
    /\ signature.Value = data

(* A slip: an instant is still valid at its expiry.                        *)
Unexpired_Inclusive(expires, now) == now # 0 /\ expires # 0 /\ now <= expires

(* recoveryExpiryError returns no error.                                   *)
Unexpired(expires, now) == now # 0 /\ expires # 0 /\ now < expires

=============================================================================

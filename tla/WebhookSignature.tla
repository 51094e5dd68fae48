-------------------------- MODULE WebhookSignature --------------------------
(***************************************************************************)
(* Verification of the signature and timestamp of an inbound webhook.      *)
(*                                                                         *)
(* An HMAC is the record of what was signed: two are equal exactly if the  *)
(* same timestamp and body were signed with the same secret.  Times are    *)
(* whole seconds; NaN is a timestamp that is not a finite number.          *)
(***************************************************************************)
EXTENDS Integers

CONSTANTS None, NaN,
          ToleranceSeconds,   \* 300
          FutureGraceSeconds  \* 60

ASSUME SignatureAssumption ==
  /\ ToleranceSeconds \in Nat /\ FutureGraceSeconds \in Nat
  /\ None \notin Int /\ NaN \notin Int /\ None # NaN

Hmac(timestamp, body, secret) == [timestamp |-> timestamp, body |-> body, secret |-> secret]

(* Mutant of Verify: seconds ahead of the server's clock are not granted.   *)
VerifyNoGrace(body, signature, timestamp, secret, now) ==
  CASE signature = None -> "MISSING_SIGNATURE"
    [] signature # None /\ timestamp = None -> "MISSING_TIMESTAMP"
    [] OTHER ->
         IF timestamp = NaN THEN "TIMESTAMP_INVALID"
         ELSE IF timestamp < now - ToleranceSeconds THEN "TIMESTAMP_EXPIRED"
         ELSE IF timestamp > now THEN "TIMESTAMP_FUTURE"
         ELSE IF signature # Hmac(timestamp, body, secret) THEN "SIGNATURE_MISMATCH"
         ELSE "ok"

(* Mutant of Verify: a timestamp never expires.                             *)
VerifyNoExpiry(body, signature, timestamp, secret, now) ==
  CASE signature = None -> "MISSING_SIGNATURE"
    [] signature # None /\ timestamp = None -> "MISSING_TIMESTAMP"
    [] OTHER ->
         IF timestamp = NaN THEN "TIMESTAMP_INVALID"
         ELSE IF timestamp > now + FutureGraceSeconds THEN "TIMESTAMP_FUTURE"
         ELSE IF signature # Hmac(timestamp, body, secret) THEN "SIGNATURE_MISMATCH"
         ELSE "ok"

(* verifyFlowCatalystSignature.                                            *)
Verify(body, signature, timestamp, secret, now) ==
  CASE signature = None -> "MISSING_SIGNATURE"
    [] signature # None /\ timestamp = None -> "MISSING_TIMESTAMP"
    [] OTHER ->
         IF timestamp = NaN THEN "TIMESTAMP_INVALID"
         ELSE IF timestamp < now - ToleranceSeconds THEN "TIMESTAMP_EXPIRED"
         ELSE IF timestamp > now + FutureGraceSeconds THEN "TIMESTAMP_FUTURE"
         ELSE IF signature # Hmac(timestamp, body, secret) THEN "SIGNATURE_MISMATCH"
         ELSE "ok"

(* The preHandler hook: without a secret nothing is verified, and a        *)
(* request whose body was not captured cannot be.                          *)
AuthHook(rawBody, signature, timestamp, secret, now) ==
  IF secret = None THEN "ok"
  ELSE IF rawBody = None THEN "RAW_BODY_UNAVAILABLE"
  ELSE Verify(rawBody, signature, timestamp, secret, now)
=============================================================================

------------------------------- MODULE Basics -------------------------------
(***************************************************************************)
(* What every module of the model shares: the symbolic error codes of      *)
(* followee_model/errors.py, the two authority values, and the checks that *)
(* compare a record with the recipient's clock.                            *)
(***************************************************************************)
EXTENDS Integers

CONSTANT MAX_FUTURE_SKEW_MS  \* 300000 in the code

ASSUME SkewAssumption == MAX_FUTURE_SKEW_MS \in Nat

AUTHORITY_ROOT         == 0
AUTHORITY_ROOT_REVOKED == 1

\* None in place of an error code, and in place of a validity horizon.
NoError   == "noError"
NoHorizon == -1

\* The codes verify_full_record can raise, and those that only select_current
\* assigns.
VerifyErrors ==
  { "invalidDid", "unsupportedHash", "unsupportedSuite", "recordTooLarge",
    "invalidCbor", "nonDeterministicCbor", "schemaViolation",
    "identityBindingMismatch", "invalidRevocationKey", "invalidSignature",
    "internalError" }
SelectionErrors == { "premature", "rootRevoked", "losingRecord", "duplicate" }
ErrorCodes      == VerifyErrors \cup SelectionErrors \cup { NoError }

IsPremature(timestamp, t) == timestamp > t + MAX_FUTURE_SKEW_MS

\* An absent horizon never makes a record stale.
IsStale(horizon, t) == horizon # NoHorizon /\ t > horizon
=============================================================================

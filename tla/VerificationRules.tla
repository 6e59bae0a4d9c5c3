-------------------------- MODULE VerificationRules --------------------------
(***************************************************************************)
(* What a full record must satisfy, stated without the order of the checks *)
(* in verify_full_record, and the symbolic data they look at.              *)
(*                                                                         *)
(* A key is a model value.  SHA-256 is taken to be injective: the digest   *)
(* of an Authority Descriptor is the pair of keys it was made from, the    *)
(* commitment to a revocation key is that key.  A signature names the key  *)
(* that made it and says whether the payload is still the one signed.      *)
(* What a component decides on its own part of the bytes (the envelope     *)
(* profile, the deterministic decoder, a schema) is the verdict it gives:  *)
(* NoError or the code it raises.                                          *)
(***************************************************************************)
EXTENDS Basics

CONSTANTS
  Keys,              \* the Ed25519 public keys
  Targets,           \* DID strings: [form, digest], see parse_did
  Envelopes,         \* candidate envelopes, see EnvelopeFields
  Clocks,            \* the values of now_ms
  MAX_RECORD_BYTES,  \* 16384 in the code
  Absent             \* a body label that is not there

DescriptorDigests == [ root : Keys, commitment : Keys ]

\* parse_did raises form, or returns digest.
TargetFields ==
  [ form : { NoError, "invalidDid", "unsupportedHash" }, digest : DescriptorDigests ]

\* A public-key object: what validate_public_key makes of its shape (schema) and
\* of its suite and length (profile), and the key.
PublicKeyFields ==
  [ schema : { NoError, "schemaViolation" }, profile : BOOLEAN, key : Keys ]

BodyFields ==
  [ schema        : { NoError, "schemaViolation" },
    id            : Targets,
    timestamp_ms  : Nat,
    authority     : { AUTHORITY_ROOT, AUTHORITY_ROOT_REVOKED },
    descriptor    : [ schema : { NoError, "schemaViolation", "unsupportedSuite" },
                      digest : DescriptorDigests ],
    revocationKey : PublicKeyFields \cup { Absent },
    validUntil_ms : Nat \cup { NoHorizon },
    contact       : { NoError, "schemaViolation" },
    extensions    : { NoError, "schemaViolation", Absent } ]

EnvelopeFields ==
  [ size     : Nat,
    profile  : { NoError, "invalidCbor", "nonDeterministicCbor",
                 "schemaViolation", "unsupportedSuite" },
    encoding : { NoError, "invalidCbor", "nonDeterministicCbor",
                 "schemaViolation", "internalError" },
    body     : BodyFields,
    signer   : Keys,
    intact   : BOOLEAN ]

ASSUME VerificationAssumption ==
  /\ Targets \subseteq TargetFields
  /\ Envelopes \subseteq EnvelopeFields
  /\ Clocks \subseteq Nat
  /\ MAX_RECORD_BYTES \in Nat
  /\ Absent \notin PublicKeyFields \cup VerifyErrors \cup { NoError }

----------------------------------------------------------------------------
(* The rules, each with the code it assigns.                               *)

\* Body id, target and the DID of the descriptor are one identity.
Bound(t, b) == b.id = t /\ b.descriptor.digest = t.digest

\* Variant: any well-formed key revokes.
RevealsAnyKey(b) == b.revocationKey.profile

\* The revealed key is the one the descriptor committed to.
Reveals(b) ==
  /\ b.revocationKey.profile
  /\ b.revocationKey.key = b.descriptor.digest.commitment

\* The key that speaks for an identity in an authority state.
AuthorityKey(digest, authority) ==
  IF authority = AUTHORITY_ROOT THEN digest.root ELSE digest.commitment

\* Variant: the root key signs in both authority states.
SigningKeyRoot(b) == b.descriptor.digest.root

\* The key the signature must verify under; a revoked record brings its own.
SigningKey(b) ==
  IF b.authority = AUTHORITY_ROOT THEN b.descriptor.digest.root
                                  ELSE b.revocationKey.key

\* Variant: a signature over another payload will do.
SignedAnyPayload(e) == e.signer = SigningKey(e.body)

Signed(e) == e.intact /\ e.signer = SigningKey(e.body)

Verdicts(S) == S \ { NoError, Absent }
Fault(condition, error) == IF condition THEN { error } ELSE {}

\* The rules on a body that decodes and has the top-level schema; those on the
\* content of a revealed key, and on the signature, ask for a well-formed one.
BodyFaults(t, e) ==
  LET b       == e.body
      revoked == b.authority = AUTHORITY_ROOT_REVOKED
      present == b.revocationKey # Absent
      formed  == present /\ b.revocationKey.schema = NoError
  IN
       Verdicts({ t.form, b.descriptor.schema, b.contact, b.extensions })
  \cup Fault(t.form = NoError /\ ~Bound(t, b), "identityBindingMismatch")
  \cup Fault(revoked # present, "schemaViolation")
  \cup Fault(revoked /\ present /\ ~formed, "schemaViolation")
  \cup Fault(revoked /\ formed /\ ~Reveals(b), "invalidRevocationKey")
  \cup Fault((revoked => formed) /\ ~Signed(e), "invalidSignature")
  \cup Fault(b.validUntil_ms # NoHorizon /\ b.validUntil_ms < b.timestamp_ms,
             "schemaViolation")

\* Every code that some rule assigns to this input.  A layer that fails leaves
\* the layers inside it without meaning.
Faults(t, e) ==
       Fault(e.size > MAX_RECORD_BYTES, "recordTooLarge")
  \cup Verdicts({ t.form, e.profile })
  \cup IF e.profile # NoError            THEN {}
       ELSE IF e.encoding # NoError      THEN { e.encoding }
       ELSE IF e.body.schema # NoError   THEN { e.body.schema }
       ELSE BodyFaults(t, e)

\* The code of the check that fails first, in the order of the code.  The checks
\* of the body:
FirstBodyFault(t, e) ==
  LET b       == e.body
      revoked == b.authority = AUTHORITY_ROOT_REVOKED
  IN
  IF t.form # NoError                        THEN t.form
  ELSE IF b.id # t                           THEN "identityBindingMismatch"
  ELSE IF b.descriptor.schema # NoError      THEN b.descriptor.schema
  ELSE IF b.descriptor.digest # t.digest     THEN "identityBindingMismatch"
  ELSE IF revoked # (b.revocationKey # Absent)
                                             THEN "schemaViolation"
  ELSE IF revoked /\ b.revocationKey.schema # NoError
                                             THEN b.revocationKey.schema
  ELSE IF revoked /\ ~Reveals(b)             THEN "invalidRevocationKey"
  ELSE IF ~Signed(e)                         THEN "invalidSignature"
  ELSE IF b.contact # NoError                THEN b.contact
  ELSE IF b.extensions \notin { NoError, Absent }
                                             THEN b.extensions
  ELSE IF b.validUntil_ms # NoHorizon /\ b.validUntil_ms < b.timestamp_ms
                                             THEN "schemaViolation"
  ELSE NoError

\* and those of the bytes before them.
FirstFault(t, e) ==
  IF e.size > MAX_RECORD_BYTES      THEN "recordTooLarge"
  ELSE IF e.profile # NoError       THEN e.profile
  ELSE IF e.encoding # NoError      THEN e.encoding
  ELSE IF e.body.schema # NoError   THEN e.body.schema
  ELSE FirstBodyFault(t, e)

\* What the caller gets for a record without faults.
VerifiedFields(t, e, n) ==
  [ target       |-> t,
    body         |-> e.body,
    timestamp_ms |-> e.body.timestamp_ms,
    authority    |-> e.body.authority,
    signing_key  |-> AuthorityKey(t.digest, e.body.authority),
    premature    |-> IsPremature(e.body.timestamp_ms, n),
    stale        |-> IsStale(e.body.validUntil_ms, n) ]

\* A fault-free record is returned; any other is refused with the code of one
\* of its faults, whichever check comes first.
Conforming(t, e, n) ==
  IF Faults(t, e) = {}
  THEN { [ error |-> NoError, record |-> VerifiedFields(t, e, n) ] }
  ELSE { [ error |-> f, record |-> Absent ] : f \in Faults(t, e) }
=============================================================================

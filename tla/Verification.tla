----------------------------- MODULE Verification -----------------------------
(***************************************************************************)
(* verify_full_record of followee_model/verify.py, one action per step of  *)
(* the algorithm in the order of the code.                                 *)
(***************************************************************************)
EXTENDS VerificationRules

VARIABLES
  target,          \* the argument target
  envelope,        \* the argument envelope_bytes
  now,             \* the argument now_ms
  step,            \* the step about to run, "raised" or "returned"
  error,           \* the code raised, or NoError
  signingKey,      \* signing_public_key, Absent until it is selected
  record           \* the VerifiedRecord returned, or Absent

arguments == << target, envelope, now >>
vars == << target, envelope, now, step, error, signingKey, record >>

body == envelope.body

Steps == { "size", "envelope", "decode", "body", "target", "id", "descriptor",
           "binding", "presence", "rootKey", "revokedKey", "commitment",
           "signature", "contact", "extensions", "horizon", "classify",
           "raised", "returned" }

Init ==
  /\ target \in Targets
  /\ envelope \in Envelopes
  /\ now \in Clocks
  /\ step = "size"
  /\ error = NoError
  /\ signingKey = Absent
  /\ record = Absent

\* Step s runs: a verdict other than NoError is raised, else the next step runs.
Check(s, verdict, next) ==
  /\ step = s
  /\ error' = verdict
  /\ step' = IF verdict = NoError THEN next ELSE "raised"
  /\ UNCHANGED << arguments, signingKey, record >>

Unless(condition, code) == IF condition THEN NoError ELSE code

----------------------------------------------------------------------------
(* Steps 1 to 5: the bytes.                                                *)

CheckSize ==
  Check("size", Unless(envelope.size <= MAX_RECORD_BYTES, "recordTooLarge"),
        "envelope")

ParseEnvelope == Check("envelope", envelope.profile, "decode")

\* The decoder, and its check that the body encodes to the bytes received.
DecodeBody == Check("decode", envelope.encoding, "body")

ValidateRecordBody == Check("body", body.schema, "target")

----------------------------------------------------------------------------
(* Steps 6 to 9: one identity.                                             *)

\* Variant: the comparison comes first.
ParseTargetLate ==
  Check("target",
        IF body.id # target THEN "identityBindingMismatch" ELSE target.form, "id")

ParseTarget == Check("target", target.form, "id")

RequireId ==
  Check("id", Unless(body.id = target, "identityBindingMismatch"), "descriptor")

ValidateDescriptor == Check("descriptor", body.descriptor.schema, "binding")

RequireDescriptorDigest ==
  Check("binding",
        Unless(body.descriptor.digest = target.digest, "identityBindingMismatch"),
        "presence")

----------------------------------------------------------------------------
(* Steps 10 to 14: the key that signs.                                     *)

\* Variant: a root record may carry a key.
RequirePresenceRevoked ==
  Check("presence",
        Unless(body.authority = AUTHORITY_ROOT_REVOKED
                 => body.revocationKey # Absent, "schemaViolation"),
        IF body.authority = AUTHORITY_ROOT THEN "rootKey" ELSE "revokedKey")

RequirePresence ==
  Check("presence",
        Unless(body.authority = AUTHORITY_ROOT_REVOKED
                 <=> body.revocationKey # Absent, "schemaViolation"),
        IF body.authority = AUTHORITY_ROOT THEN "rootKey" ELSE "revokedKey")

SelectRootKey ==
  /\ step = "rootKey"
  /\ signingKey' = body.descriptor.digest.root
  /\ step' = "signature"
  /\ UNCHANGED << arguments, error, record >>

\* validate_public_key with the codes of a revealed key.
ValidateRevocationKey ==
  Check("revokedKey",
        IF body.revocationKey.schema # NoError
        THEN body.revocationKey.schema
        ELSE Unless(body.revocationKey.profile, "invalidRevocationKey"),
        "commitment")

\* Variant: any well-formed key revokes.
RequireCommitmentAny ==
  /\ step = "commitment"
  /\ signingKey' = body.revocationKey.key
  /\ step' = "signature"
  /\ UNCHANGED << arguments, error, record >>

RequireCommitment ==
  /\ step = "commitment"
  /\ IF body.revocationKey.key = body.descriptor.digest.commitment
     THEN /\ signingKey' = body.revocationKey.key
          /\ step' = "signature"
          /\ UNCHANGED error
     ELSE /\ error' = "invalidRevocationKey"
          /\ step' = "raised"
          /\ UNCHANGED signingKey
  /\ UNCHANGED << arguments, record >>

VerifySignature ==
  Check("signature",
        Unless(envelope.intact /\ envelope.signer = signingKey, "invalidSignature"),
        "contact")

----------------------------------------------------------------------------
(* Steps 15 to 20: what the record says.                                   *)

ValidateContact == Check("contact", body.contact, "extensions")

ValidateExtensions ==
  Check("extensions",
        IF body.extensions = Absent THEN NoError ELSE body.extensions,
        "horizon")

\* Variant: a horizon on the timestamp is refused.
RequireHorizonStrict ==
  Check("horizon",
        Unless(body.validUntil_ms = NoHorizon
                 \/ body.validUntil_ms > body.timestamp_ms, "schemaViolation"),
        "classify")

\* Variant: the relation is not checked.
RequireHorizonNone == Check("horizon", NoError, "classify")

RequireHorizon ==
  Check("horizon",
        Unless(body.validUntil_ms = NoHorizon
                 \/ body.validUntil_ms >= body.timestamp_ms, "schemaViolation"),
        "classify")

\* Variant: a premature record is refused.
ReturnTimelyRecord ==
  /\ step = "classify"
  /\ record' =
       IF IsPremature(body.timestamp_ms, now) THEN Absent
       ELSE VerifiedFields(target, envelope, now)
  /\ error' = IF IsPremature(body.timestamp_ms, now) THEN "premature" ELSE NoError
  /\ step' = IF IsPremature(body.timestamp_ms, now) THEN "raised" ELSE "returned"
  /\ UNCHANGED << arguments, signingKey >>

ReturnRecord ==
  /\ step = "classify"
  /\ record' =
       [ target       |-> target,
         body         |-> body,
         timestamp_ms |-> body.timestamp_ms,
         authority    |-> body.authority,
         signing_key  |-> signingKey,
         premature    |-> IsPremature(body.timestamp_ms, now),
         stale        |-> IsStale(body.validUntil_ms, now) ]
  /\ step' = "returned"
  /\ UNCHANGED << arguments, error, signingKey >>

Next ==
  \/ CheckSize \/ ParseEnvelope \/ DecodeBody \/ ValidateRecordBody
  \/ ParseTarget \/ RequireId \/ ValidateDescriptor \/ RequireDescriptorDigest
  \/ RequirePresence \/ SelectRootKey
  \/ ValidateRevocationKey \/ RequireCommitment
  \/ VerifySignature
  \/ ValidateContact \/ ValidateExtensions \/ RequireHorizon
  \/ ReturnRecord

Spec == Init /\ [][Next]_vars

result ==
  IF step \in {"raised", "returned"}
  THEN [ error |-> error, record |-> record ]
  ELSE Absent

Contract == INSTANCE VerificationContract

----------------------------------------------------------------------------
(* Properties.                                                             *)

\* The variables of verify_full_record have their types, a code is raised
\* exactly in "raised" and a record is returned only in "returned".
TypeOK ==
  /\ target \in TargetFields /\ envelope \in EnvelopeFields /\ now \in Nat
  /\ step \in Steps
  /\ error \in VerifyErrors \cup { NoError }
  /\ signingKey \in Keys \cup { Absent }
  /\ step = "raised" <=> error # NoError
  /\ record # Absent => step = "returned"

\* What each check leaves behind it holds for the checks that follow.
SizeOK       == envelope.size <= MAX_RECORD_BYTES
EnvelopeOK   == SizeOK /\ envelope.profile = NoError
EncodingOK   == EnvelopeOK /\ envelope.encoding = NoError
BodyOK       == EncodingOK /\ body.schema = NoError
TargetOK     == BodyOK /\ target.form = NoError
IdOK         == TargetOK /\ body.id = target
DescriptorOK == IdOK /\ body.descriptor.schema = NoError
BindingOK    == DescriptorOK /\ body.descriptor.digest = target.digest
PresenceOK   ==
  BindingOK /\ (body.authority = AUTHORITY_ROOT_REVOKED
                 <=> body.revocationKey # Absent)
RootOK       == PresenceOK /\ body.authority = AUTHORITY_ROOT
RevokedOK    == PresenceOK /\ body.authority = AUTHORITY_ROOT_REVOKED
RevokedKeyOK == /\ RevokedOK
                /\ body.revocationKey.schema = NoError
                /\ body.revocationKey.profile
KeyOK        == /\ RootOK \/ (RevokedKeyOK /\ Reveals(body))
                /\ signingKey = SigningKey(body)
SignatureOK  == KeyOK /\ Signed(envelope)
ContactOK    == SignatureOK /\ body.contact = NoError
ExtensionsOK == ContactOK /\ body.extensions \in { NoError, Absent }
HorizonOK    == ExtensionsOK /\ (body.validUntil_ms = NoHorizon
                                  \/ body.validUntil_ms >= body.timestamp_ms)

\* Inductive: a step runs only on inputs that passed the ones before it, a code
\* raised is the code of a fault and of the first that the order of the checks
\* meets, and the record returned is the promised one.
VerificationInv ==
  /\ TypeOK
  /\ step = "envelope"   => SizeOK
  /\ step = "decode"     => EnvelopeOK
  /\ step = "body"       => EncodingOK
  /\ step = "target"     => BodyOK
  /\ step = "id"         => TargetOK
  /\ step = "descriptor" => IdOK
  /\ step = "binding"    => DescriptorOK
  /\ step = "presence"   => BindingOK
  /\ step = "rootKey"    => RootOK
  /\ step = "revokedKey" => RevokedOK
  /\ step = "commitment" => RevokedKeyOK
  /\ step = "signature"  => KeyOK
  /\ step = "contact"    => SignatureOK
  /\ step = "extensions" => ContactOK
  /\ step = "horizon"    => ExtensionsOK
  /\ step = "classify"   => HorizonOK
  /\ step = "raised"     => /\ error \in Faults(target, envelope)
                           /\ error = FirstFault(target, envelope)
  /\ step = "returned"   => /\ HorizonOK
                           /\ record = VerifiedFields(target, envelope, now)

\* A returned record is one its subject signed: the key that the target DID
\* itself commits to for the record's authority state made the signature over
\* this very payload.  No valid signature gets round the descriptor binding or
\* the revocation commitment.
AcceptedIsAuthorised ==
  step = "returned" =>
    /\ envelope.intact
    /\ envelope.signer = AuthorityKey(target.digest, record.authority)
    /\ record.signing_key = envelope.signer

\* verify_full_record returns exactly the fault-free records, and refuses each
\* other one with a code that applies to it, in whatever order it checks.
ImplementsContract == Contract!CallSpec
=============================================================================

-------------------------- MODULE VerificationProofs --------------------------
(***************************************************************************)
(* Proofs about Verification for every set of keys, targets and envelopes: *)
(* VerificationInv is inductive; a returned record is authorised, and the  *)
(* call implements VerificationContract.  Then about two calls on one      *)
(* envelope: a verdict is a function of the target and the envelope.       *)
(***************************************************************************)
EXTENDS VerificationTwice, TLAPS

----------------------------------------------------------------------------
(* Faults by layer: the code of a check that fails where the layers around *)
(* it pass is one of the faults.                                           *)

\* The size, the envelope and the decoder.
LEMMA OuterFaults ==
  ASSUME TypeOK
  PROVE  /\ ~SizeOK => "recordTooLarge" \in Faults(target, envelope)
         /\ envelope.profile # NoError
              => envelope.profile \in Faults(target, envelope)
         /\ EnvelopeOK /\ envelope.encoding # NoError
              => envelope.encoding \in Faults(target, envelope)
         /\ EncodingOK /\ body.schema # NoError
              => body.schema \in Faults(target, envelope)
         /\ target.form # NoError => target.form \in Faults(target, envelope)
<1>1. envelope.size \in Nat /\ MAX_RECORD_BYTES \in Nat
  BY VerificationAssumption DEF TypeOK, EnvelopeFields
<1>2. Absent \notin VerifyErrors \cup { NoError }
  BY VerificationAssumption
<1>3. /\ envelope.profile # Absent
      /\ target.form # Absent
  BY <1>2 DEF TypeOK, EnvelopeFields, TargetFields, VerifyErrors
<1>4. ~SizeOK => "recordTooLarge" \in Faults(target, envelope)
  BY <1>1 DEF SizeOK, Faults, Fault
<1>. QED
  BY <1>3, <1>4 DEF EnvelopeOK, EncodingOK, body, Faults, Verdicts

\* Past the top-level schema, the faults are those of BodyFaults.
LEMMA InnerFaults ==
  ASSUME TypeOK, TargetOK
  PROVE  Faults(target, envelope) = BodyFaults(target, envelope)
<1>1. envelope.size \in Nat /\ MAX_RECORD_BYTES \in Nat
  BY VerificationAssumption DEF TypeOK, EnvelopeFields
<1>2. /\ Fault(envelope.size > MAX_RECORD_BYTES, "recordTooLarge") = {}
      /\ Verdicts({ target.form, envelope.profile }) = {}
  BY <1>1 DEF Fault, Verdicts, TargetOK, BodyOK, EncodingOK, EnvelopeOK, SizeOK
<1>. QED
  BY <1>2 DEF Faults, TargetOK, BodyOK, EncodingOK, EnvelopeOK, body
\* The rules on the body itself.
LEMMA BodyFaultCodes ==
  ASSUME TypeOK, TargetOK
  PROVE  /\ ~IdOK => "identityBindingMismatch" \in BodyFaults(target, envelope)
         /\ body.descriptor.schema # NoError
              => body.descriptor.schema \in BodyFaults(target, envelope)
         /\ DescriptorOK /\ ~BindingOK
              => "identityBindingMismatch" \in BodyFaults(target, envelope)
         /\ BindingOK /\ ~PresenceOK
              => "schemaViolation" \in BodyFaults(target, envelope)
         /\ RevokedOK /\ body.revocationKey.schema # NoError
              => body.revocationKey.schema \in BodyFaults(target, envelope)
         /\ RevokedOK /\ body.revocationKey.schema = NoError /\ ~Reveals(body)
              => "invalidRevocationKey" \in BodyFaults(target, envelope)
         /\ KeyOK /\ ~SignatureOK
              => "invalidSignature" \in BodyFaults(target, envelope)
         /\ body.contact # NoError => body.contact \in BodyFaults(target, envelope)
         /\ body.extensions # NoError /\ body.extensions # Absent
              => body.extensions \in BodyFaults(target, envelope)
         /\ ExtensionsOK /\ ~HorizonOK
              => "schemaViolation" \in BodyFaults(target, envelope)
<1>. DEFINE F == BodyFaults(target, envelope)
<1>2. /\ body.descriptor.schema # Absent /\ body.contact # Absent
      /\ target.form = NoError
      /\ Absent \notin PublicKeyFields
      /\ body.revocationKey \in PublicKeyFields \cup { Absent }
      /\ body.timestamp_ms \in Nat /\ body.validUntil_ms \in Nat \cup { NoHorizon }
  <2>1. body \in BodyFields
    BY DEF TypeOK, EnvelopeFields, body
  <2>. QED
    BY <2>1, VerificationAssumption DEF BodyFields, VerifyErrors, TargetOK
<1>3. ~IdOK => "identityBindingMismatch" \in F
  BY <1>2 DEF IdOK, TargetOK, BodyFaults, Fault, Bound, body
<1>4. DescriptorOK /\ ~BindingOK => "identityBindingMismatch" \in F
  BY <1>2 DEF BindingOK, BodyFaults, Fault, Bound, body
<1>5. BindingOK /\ ~PresenceOK => "schemaViolation" \in F
  BY DEF PresenceOK, BodyFaults, Fault, body
<1>6. ASSUME RevokedOK
      PROVE  /\ body.revocationKey.schema # NoError
                  => body.revocationKey.schema \in F
             /\ body.revocationKey.schema = NoError /\ ~Reveals(body)
                  => "invalidRevocationKey" \in F
  <2>1. body.authority = AUTHORITY_ROOT_REVOKED /\ body.revocationKey # Absent
    BY <1>6 DEF RevokedOK, PresenceOK
  <2>2. body.revocationKey.schema \in { NoError, "schemaViolation" }
    BY <1>2, <2>1 DEF PublicKeyFields
  <2>. QED
    BY <2>1, <2>2 DEF BodyFaults, Fault, body
<1>7. KeyOK /\ ~SignatureOK => "invalidSignature" \in F
  <2>. SUFFICES ASSUME KeyOK, ~Signed(envelope) PROVE "invalidSignature" \in F
    BY DEF SignatureOK
  <2>1. \/ body.authority = AUTHORITY_ROOT
        \/ body.revocationKey # Absent /\ body.revocationKey.schema = NoError
    BY DEF KeyOK, RootOK, RevokedKeyOK, RevokedOK, PresenceOK
  <2>2. AUTHORITY_ROOT # AUTHORITY_ROOT_REVOKED
    BY DEF AUTHORITY_ROOT, AUTHORITY_ROOT_REVOKED
  <2>. QED
    BY <2>1, <2>2 DEF BodyFaults, Fault, body
<1>8. /\ body.descriptor.schema # NoError => body.descriptor.schema \in F
      /\ body.contact # NoError => body.contact \in F
      /\ body.extensions # NoError /\ body.extensions # Absent
           => body.extensions \in F
  BY <1>2 DEF BodyFaults, Verdicts, body
<1>9. ExtensionsOK /\ ~HorizonOK => "schemaViolation" \in F
  BY <1>2 DEF HorizonOK, BodyFaults, Fault, body
<1>. QED
  BY <1>3, <1>4, <1>5, <1>6, <1>7, <1>8, <1>9

\* A record that passed every check has no fault.
LEMMA NoFaultLeft ==
  ASSUME TypeOK, HorizonOK
  PROVE  Faults(target, envelope) = {}
<1>1. TargetOK
  BY DEF HorizonOK, ExtensionsOK, ContactOK, SignatureOK, KeyOK, RootOK,
         RevokedKeyOK, RevokedOK, PresenceOK, BindingOK, DescriptorOK, IdOK
<1>2. BindingOK
  BY DEF HorizonOK, ExtensionsOK, ContactOK, SignatureOK, KeyOK, RootOK,
         RevokedKeyOK, RevokedOK, PresenceOK
<1>3. /\ body.timestamp_ms \in Nat /\ body.validUntil_ms \in Nat \cup { NoHorizon }
  BY DEF TypeOK, EnvelopeFields, BodyFields, body
<1>4. Faults(target, envelope) = BodyFaults(target, envelope)
  BY <1>1, InnerFaults
<1>5. Verdicts({ target.form, body.descriptor.schema, body.contact,
                 body.extensions }) = {}
  BY <1>1, <1>2 DEF Verdicts, HorizonOK, ExtensionsOK, ContactOK, TargetOK,
     BindingOK, DescriptorOK
<1>6. /\ Bound(target, body) /\ Signed(envelope)
      /\ body.authority = AUTHORITY_ROOT_REVOKED <=> body.revocationKey # Absent
      /\ body.authority = AUTHORITY_ROOT_REVOKED =>
           body.revocationKey.schema = NoError /\ Reveals(body)
  <2>1. AUTHORITY_ROOT # AUTHORITY_ROOT_REVOKED
    BY DEF AUTHORITY_ROOT, AUTHORITY_ROOT_REVOKED
  <2>. QED
    BY <1>2, <2>1
     DEF HorizonOK, ExtensionsOK, ContactOK, SignatureOK, KeyOK, RootOK,
         RevokedKeyOK, RevokedOK, PresenceOK, BindingOK, DescriptorOK,
         IdOK, Bound
<1>7. ~(body.validUntil_ms # NoHorizon /\ body.validUntil_ms < body.timestamp_ms)
  BY <1>3 DEF HorizonOK
<1>. QED
  BY <1>4, <1>5, <1>6, <1>7 DEF BodyFaults, Fault, body
----------------------------------------------------------------------------
(* The first fault: where the checks before one passed and it fails, its   *)
(* code is the one FirstFault names.                                       *)

\* The size, the envelope, the decoder and the top-level schema.
LEMMA OuterFirst ==
  ASSUME TypeOK
  PROVE  /\ ~SizeOK => FirstFault(target, envelope) = "recordTooLarge"
         /\ SizeOK /\ envelope.profile # NoError
              => FirstFault(target, envelope) = envelope.profile
         /\ EnvelopeOK /\ envelope.encoding # NoError
              => FirstFault(target, envelope) = envelope.encoding
         /\ EncodingOK /\ body.schema # NoError
              => FirstFault(target, envelope) = body.schema
         /\ BodyOK
              => FirstFault(target, envelope) = FirstBodyFault(target, envelope)
<1>1. envelope.size \in Nat /\ MAX_RECORD_BYTES \in Nat
  BY VerificationAssumption DEF TypeOK, EnvelopeFields
<1>2. SizeOK <=> ~(envelope.size > MAX_RECORD_BYTES)
  BY <1>1 DEF SizeOK
<1>. QED
  BY <1>2 DEF FirstFault, EnvelopeOK, EncodingOK, BodyOK, body

\* The identity of the body, up to the descriptor's binding.
LEMMA IdentityFirst ==
  ASSUME TypeOK, BodyOK
  PROVE  /\ target.form # NoError
              => FirstBodyFault(target, envelope) = target.form
         /\ TargetOK /\ ~IdOK
              => FirstBodyFault(target, envelope) = "identityBindingMismatch"
         /\ IdOK /\ body.descriptor.schema # NoError
              => FirstBodyFault(target, envelope) = body.descriptor.schema
         /\ DescriptorOK /\ ~BindingOK
              => FirstBodyFault(target, envelope) = "identityBindingMismatch"
  BY DEF FirstBodyFault, TargetOK, IdOK, DescriptorOK, BindingOK, body

\* The key that signs, and the signature.
LEMMA KeyFirst ==
  ASSUME TypeOK, BindingOK
  PROVE  /\ ~PresenceOK
              => FirstBodyFault(target, envelope) = "schemaViolation"
         /\ RevokedOK /\ body.revocationKey.schema # NoError
              => FirstBodyFault(target, envelope) = body.revocationKey.schema
         /\ RevokedOK /\ body.revocationKey.schema = NoError /\ ~Reveals(body)
              => FirstBodyFault(target, envelope) = "invalidRevocationKey"
         /\ KeyOK /\ ~SignatureOK
              => FirstBodyFault(target, envelope) = "invalidSignature"
<1>1. AUTHORITY_ROOT # AUTHORITY_ROOT_REVOKED
  BY DEF AUTHORITY_ROOT, AUTHORITY_ROOT_REVOKED
<1>2. /\ target.form = NoError /\ body.id = target
      /\ body.descriptor.schema = NoError
      /\ body.descriptor.digest = target.digest
  BY DEF BindingOK, DescriptorOK, IdOK, TargetOK
<1>3. PresenceOK <=> (body.authority = AUTHORITY_ROOT_REVOKED
                       <=> body.revocationKey # Absent)
  BY DEF PresenceOK
<1>. QED
  BY <1>1, <1>2, <1>3 DEF FirstBodyFault, RevokedOK, RevokedKeyOK, RootOK, KeyOK,
     SignatureOK, body

\* What the record says, once its signature verifies.
LEMMA ContentFirst ==
  ASSUME TypeOK, SignatureOK
  PROVE  /\ body.contact # NoError
              => FirstBodyFault(target, envelope) = body.contact
         /\ ContactOK /\ body.extensions \notin { NoError, Absent }
              => FirstBodyFault(target, envelope) = body.extensions
         /\ ExtensionsOK /\ ~HorizonOK
              => FirstBodyFault(target, envelope) = "schemaViolation"
         /\ HorizonOK => FirstBodyFault(target, envelope) = NoError
<1>1. /\ body.timestamp_ms \in Nat /\ body.validUntil_ms \in Nat \cup { NoHorizon }
  BY DEF TypeOK, EnvelopeFields, BodyFields, body
<1>2. /\ BindingOK /\ PresenceOK /\ Signed(envelope)
      /\ body.authority = AUTHORITY_ROOT_REVOKED =>
           body.revocationKey.schema = NoError /\ Reveals(body)
  BY DEF SignatureOK, KeyOK, RootOK, RevokedKeyOK, RevokedOK, PresenceOK,
         AUTHORITY_ROOT, AUTHORITY_ROOT_REVOKED
<1>3. /\ target.form = NoError /\ body.id = target
      /\ body.descriptor.schema = NoError
      /\ body.descriptor.digest = target.digest
      /\ body.authority = AUTHORITY_ROOT_REVOKED <=> body.revocationKey # Absent
  BY <1>2 DEF PresenceOK, BindingOK, DescriptorOK, IdOK, TargetOK
<1>4. ExtensionsOK =>
        (~HorizonOK <=> /\ body.validUntil_ms # NoHorizon
                        /\ body.validUntil_ms < body.timestamp_ms)
  BY <1>1 DEF HorizonOK
<1>. QED
  BY <1>2, <1>3, <1>4 DEF FirstBodyFault, ContactOK, ExtensionsOK, HorizonOK, body

\* A record that passed every check has no first fault either.
LEMMA NoFirstFault ==
  ASSUME TypeOK, HorizonOK
  PROVE  FirstFault(target, envelope) = NoError
<1>1. SignatureOK /\ BodyOK
  BY DEF HorizonOK, ExtensionsOK, ContactOK, SignatureOK, KeyOK, RootOK,
         RevokedKeyOK, RevokedOK, PresenceOK, BindingOK, DescriptorOK, IdOK,
         TargetOK
<1>. QED
  BY <1>1, OuterFirst, ContentFirst

----------------------------------------------------------------------------
(* The invariant.                                                          *)

\* A call starts with its first step.
LEMMA InitInv == Init => VerificationInv
<1>. SUFFICES ASSUME Init PROVE VerificationInv
  OBVIOUS
<1>1. /\ target \in TargetFields /\ envelope \in EnvelopeFields /\ now \in Nat
  BY VerificationAssumption DEF Init
<1>2. TypeOK
  BY <1>1 DEF Init, TypeOK, Steps
<1>. QED
  BY <1>2 DEF Init, VerificationInv

\* A check keeps the types: a verdict is a code or NoError.
LEMMA CheckTypes ==
  ASSUME TypeOK, NEW s \in Steps, NEW next \in Steps \ { "raised", "returned" },
         NEW verdict \in VerifyErrors \cup { NoError }, Check(s, verdict, next),
         s \notin { "raised", "returned" }
  PROVE  TypeOK'
<1>1. step' \in Steps /\ error' \in VerifyErrors \cup { NoError }
  BY DEF Check, Steps
<1>2. step' = "raised" <=> error' # NoError
  BY DEF Check
<1>3. record = Absent
  BY DEF Check, TypeOK
<1>. QED
  BY <1>1, <1>2, <1>3 DEF Check, TypeOK, arguments

\* The verdicts in an envelope and a target are codes that may be raised.
LEMMA VerdictTypes ==
  ASSUME TypeOK
  PROVE  /\ { target.form, envelope.profile, envelope.encoding, body.schema,
              body.descriptor.schema, body.contact }
              \subseteq VerifyErrors \cup { NoError }
         /\ body.extensions # Absent
              => body.extensions \in VerifyErrors \cup { NoError }
         /\ body.revocationKey # Absent
              => body.revocationKey.schema \in VerifyErrors \cup { NoError }
<1>1. body \in BodyFields
  BY DEF TypeOK, EnvelopeFields, body
<1>2. body.revocationKey # Absent => body.revocationKey \in PublicKeyFields
  BY <1>1 DEF BodyFields
<1>. QED
  BY <1>1, <1>2 DEF TypeOK, EnvelopeFields, TargetFields, BodyFields,
     PublicKeyFields, VerifyErrors
\* Everything known past the target parse includes it.
LEMMA KnownTarget ==
  IdOK \/ DescriptorOK \/ BindingOK \/ RevokedOK \/ KeyOK \/ SignatureOK
    \/ ContactOK \/ ExtensionsOK => TargetOK
  BY DEF ExtensionsOK, ContactOK, SignatureOK, KeyOK, RootOK, RevokedKeyOK,
         RevokedOK, PresenceOK, BindingOK, DescriptorOK, IdOK

\* What is known of the arguments and the key stays known.
LEMMA KnownBody ==
  /\ TargetOK => BodyOK
  /\ RevokedOK \/ KeyOK => BindingOK
  /\ ContactOK \/ ExtensionsOK => SignatureOK
  BY DEF ExtensionsOK, ContactOK, KeyOK, RootOK, RevokedKeyOK, RevokedOK,
         PresenceOK, TargetOK

LEMMA KnownUnchanged ==
  ASSUME UNCHANGED << target, envelope, now, signingKey >>
  PROVE  /\ (SizeOK' <=> SizeOK) /\ (EnvelopeOK' <=> EnvelopeOK)
         /\ (EncodingOK' <=> EncodingOK) /\ (BodyOK' <=> BodyOK)
         /\ (TargetOK' <=> TargetOK) /\ (IdOK' <=> IdOK)
         /\ (DescriptorOK' <=> DescriptorOK) /\ (BindingOK' <=> BindingOK)
         /\ (RootOK' <=> RootOK) /\ (RevokedOK' <=> RevokedOK)
         /\ (RevokedKeyOK' <=> RevokedKeyOK) /\ (KeyOK' <=> KeyOK)
         /\ (SignatureOK' <=> SignatureOK) /\ (ContactOK' <=> ContactOK)
         /\ (ExtensionsOK' <=> ExtensionsOK) /\ (HorizonOK' <=> HorizonOK)
<1>1. body' = body
  BY DEF body
<1>2. (SizeOK' <=> SizeOK) /\ (EnvelopeOK' <=> EnvelopeOK)
  BY DEF SizeOK, EnvelopeOK
<1>3. (EncodingOK' <=> EncodingOK) /\ (BodyOK' <=> BodyOK) /\ (TargetOK' <=> TargetOK)
  BY <1>1, <1>2 DEF EncodingOK, BodyOK, TargetOK
<1>4. /\ IdOK' <=> IdOK
      /\ DescriptorOK' <=> DescriptorOK
      /\ BindingOK' <=> BindingOK
  BY <1>1, <1>3 DEF IdOK, DescriptorOK, BindingOK
<1>5. PresenceOK' <=> PresenceOK
  BY <1>1, <1>4 DEF PresenceOK
<1>6. /\ RootOK' <=> RootOK
      /\ RevokedOK' <=> RevokedOK
      /\ RevokedKeyOK' <=> RevokedKeyOK
  BY <1>1, <1>5 DEF RootOK, RevokedOK, RevokedKeyOK
<1>7. (KeyOK' <=> KeyOK) /\ (SignatureOK' <=> SignatureOK)
  BY <1>1, <1>6 DEF KeyOK, SignatureOK
<1>8. (ContactOK' <=> ContactOK) /\ (ExtensionsOK' <=> ExtensionsOK)
  BY <1>1, <1>7 DEF ContactOK, ExtensionsOK
<1>9. HorizonOK' <=> HorizonOK
  BY <1>1, <1>8 DEF HorizonOK
<1>. QED
  BY <1>2, <1>3, <1>4, <1>6, <1>7, <1>8, <1>9

\* CheckSize raises the code of a fault, or leaves SizeOK known.
LEMMA CheckSizeInv ==
  ASSUME VerificationInv, CheckSize
  PROVE  VerificationInv'
<1>1. step = "size" /\ TypeOK
  BY DEF VerificationInv, CheckSize, Check
<1>2. UNCHANGED << target, envelope, now, signingKey >>
  BY DEF CheckSize, Check, arguments
<1>3. TypeOK'
  BY <1>1, VerdictTypes, CheckTypes DEF CheckSize, Unless, VerifyErrors, Steps
<1>4. step' \in { "envelope", "raised" }
  BY DEF CheckSize, Check
<1>5. (step' = "envelope" => SizeOK)
  BY <1>1 DEF VerificationInv, TypeOK, CheckSize, Check, Unless, SizeOK,
     NoError
<1>6. step' = "raised" => error' \in Faults(target, envelope)
  BY <1>1, OuterFaults
     DEF VerificationInv, CheckSize, Check, Unless, SizeOK
<1>7. step' = "raised" => error' = FirstFault(target, envelope)
  BY <1>1, OuterFirst
     DEF VerificationInv, CheckSize, Check, Unless, SizeOK
<1>. QED
  BY <1>2, <1>3, <1>4, <1>5, <1>6, <1>7, KnownUnchanged DEF VerificationInv

\* ParseEnvelope raises the code of a fault, or leaves EnvelopeOK known.
LEMMA ParseEnvelopeInv ==
  ASSUME VerificationInv, ParseEnvelope
  PROVE  VerificationInv'
<1>1. step = "envelope" /\ TypeOK
  BY DEF VerificationInv, ParseEnvelope, Check
<1>2. UNCHANGED << target, envelope, now, signingKey >>
  BY DEF ParseEnvelope, Check, arguments
<1>3. TypeOK'
  BY <1>1, VerdictTypes, CheckTypes
     DEF ParseEnvelope, Unless, VerifyErrors, Steps
<1>4. step' \in { "decode", "raised" }
  BY DEF ParseEnvelope, Check
<1>5. (step' = "decode" => EnvelopeOK)
  BY <1>1
     DEF VerificationInv, TypeOK, ParseEnvelope, Check, Unless,
         EnvelopeOK, NoError
<1>6. step' = "raised" => error' \in Faults(target, envelope)
  BY <1>1, OuterFaults
     DEF VerificationInv, ParseEnvelope, Check, Unless, EnvelopeOK
<1>7. step' = "raised" => error' = FirstFault(target, envelope)
  BY <1>1, OuterFirst
     DEF VerificationInv, ParseEnvelope, Check, Unless, EnvelopeOK
<1>. QED
  BY <1>2, <1>3, <1>4, <1>5, <1>6, <1>7, KnownUnchanged DEF VerificationInv

\* DecodeBody raises the code of a fault, or leaves EncodingOK known.
LEMMA DecodeBodyInv ==
  ASSUME VerificationInv, DecodeBody
  PROVE  VerificationInv'
<1>1. step = "decode" /\ TypeOK
  BY DEF VerificationInv, DecodeBody, Check
<1>2. UNCHANGED << target, envelope, now, signingKey >>
  BY DEF DecodeBody, Check, arguments
<1>3. TypeOK'
  BY <1>1, VerdictTypes, CheckTypes DEF DecodeBody, Unless, VerifyErrors, Steps
<1>4. step' \in { "body", "raised" }
  BY DEF DecodeBody, Check
<1>5. (step' = "body" => EncodingOK)
  BY <1>1 DEF VerificationInv, TypeOK, DecodeBody, Check, Unless, EncodingOK,
     NoError
<1>6. step' = "raised" => error' \in Faults(target, envelope)
  BY <1>1, OuterFaults
     DEF VerificationInv, DecodeBody, Check, Unless, EncodingOK
<1>7. step' = "raised" => error' = FirstFault(target, envelope)
  BY <1>1, OuterFirst
     DEF VerificationInv, DecodeBody, Check, Unless, EncodingOK
<1>. QED
  BY <1>2, <1>3, <1>4, <1>5, <1>6, <1>7, KnownUnchanged DEF VerificationInv

\* ValidateRecordBody raises the code of a fault, or leaves BodyOK known.
LEMMA ValidateRecordBodyInv ==
  ASSUME VerificationInv, ValidateRecordBody
  PROVE  VerificationInv'
<1>1. step = "body" /\ TypeOK
  BY DEF VerificationInv, ValidateRecordBody, Check
<1>2. UNCHANGED << target, envelope, now, signingKey >>
  BY DEF ValidateRecordBody, Check, arguments
<1>3. TypeOK'
  BY <1>1, VerdictTypes, CheckTypes
     DEF ValidateRecordBody, Unless, VerifyErrors, Steps
<1>4. step' \in { "target", "raised" }
  BY DEF ValidateRecordBody, Check
<1>5. (step' = "target" => BodyOK)
  BY <1>1
     DEF VerificationInv, TypeOK, ValidateRecordBody, Check, Unless,
         BodyOK, NoError
<1>6. step' = "raised" => error' \in Faults(target, envelope)
  BY <1>1, OuterFaults
     DEF VerificationInv, ValidateRecordBody, Check, Unless, BodyOK
<1>7. step' = "raised" => error' = FirstFault(target, envelope)
  BY <1>1, OuterFirst
     DEF VerificationInv, ValidateRecordBody, Check, Unless, BodyOK
<1>. QED
  BY <1>2, <1>3, <1>4, <1>5, <1>6, <1>7, KnownUnchanged DEF VerificationInv

\* ParseTarget raises the code of a fault, or leaves TargetOK known.
LEMMA ParseTargetInv ==
  ASSUME VerificationInv, ParseTarget
  PROVE  VerificationInv'
<1>1. step = "target" /\ TypeOK
  BY DEF VerificationInv, ParseTarget, Check
<1>2. UNCHANGED << target, envelope, now, signingKey >>
  BY DEF ParseTarget, Check, arguments
<1>3. TypeOK'
  BY <1>1, VerdictTypes, CheckTypes
     DEF ParseTarget, Unless, VerifyErrors, Steps
<1>4. step' \in { "id", "raised" }
  BY DEF ParseTarget, Check
<1>5. (step' = "id" => TargetOK)
  BY <1>1 DEF VerificationInv, TypeOK, ParseTarget, Check, Unless, TargetOK,
     NoError
<1>6. step' = "raised" => error' \in Faults(target, envelope)
  BY <1>1, OuterFaults
     DEF VerificationInv, ParseTarget, Check, Unless, TargetOK
<1>7. step' = "raised" => error' = FirstFault(target, envelope)
  BY <1>1, OuterFirst, IdentityFirst, KnownTarget, KnownBody
     DEF VerificationInv, ParseTarget, Check, Unless, TargetOK
<1>. QED
  BY <1>2, <1>3, <1>4, <1>5, <1>6, <1>7, KnownUnchanged DEF VerificationInv

\* RequireId raises the code of a fault, or leaves IdOK known.
LEMMA RequireIdInv ==
  ASSUME VerificationInv, RequireId
  PROVE  VerificationInv'
<1>1. step = "id" /\ TypeOK
  BY DEF VerificationInv, RequireId, Check
<1>2. UNCHANGED << target, envelope, now, signingKey >>
  BY DEF RequireId, Check, arguments
<1>3. TypeOK'
  BY <1>1, VerdictTypes, CheckTypes DEF RequireId, Unless, VerifyErrors, Steps
<1>4. step' \in { "descriptor", "raised" }
  BY DEF RequireId, Check
<1>5. (step' = "descriptor" => IdOK)
  BY <1>1 DEF VerificationInv, TypeOK, RequireId, Check, Unless, IdOK,
     NoError
<1>6. step' = "raised" => error' \in Faults(target, envelope)
  BY <1>1, InnerFaults, BodyFaultCodes, KnownTarget
     DEF VerificationInv, RequireId, Check, Unless, IdOK
<1>7. step' = "raised" => error' = FirstFault(target, envelope)
  BY <1>1, OuterFirst, IdentityFirst, KnownTarget, KnownBody
     DEF VerificationInv, RequireId, Check, Unless, IdOK
<1>. QED
  BY <1>2, <1>3, <1>4, <1>5, <1>6, <1>7, KnownUnchanged DEF VerificationInv

\* ValidateDescriptor raises the code of a fault, or leaves DescriptorOK known.
LEMMA ValidateDescriptorInv ==
  ASSUME VerificationInv, ValidateDescriptor
  PROVE  VerificationInv'
<1>1. step = "descriptor" /\ TypeOK
  BY DEF VerificationInv, ValidateDescriptor, Check
<1>2. UNCHANGED << target, envelope, now, signingKey >>
  BY DEF ValidateDescriptor, Check, arguments
<1>3. TypeOK'
  BY <1>1, VerdictTypes, CheckTypes
     DEF ValidateDescriptor, Unless, VerifyErrors, Steps
<1>4. step' \in { "binding", "raised" }
  BY DEF ValidateDescriptor, Check
<1>5. (step' = "binding" => DescriptorOK)
  BY <1>1
     DEF VerificationInv, TypeOK, ValidateDescriptor, Check, Unless,
         DescriptorOK, NoError
<1>6. step' = "raised" => error' \in Faults(target, envelope)
  BY <1>1, InnerFaults, BodyFaultCodes, KnownTarget
     DEF VerificationInv, ValidateDescriptor, Check, Unless, DescriptorOK
<1>7. step' = "raised" => error' = FirstFault(target, envelope)
  BY <1>1, OuterFirst, IdentityFirst, KnownTarget, KnownBody
     DEF VerificationInv, ValidateDescriptor, Check, Unless, DescriptorOK
<1>. QED
  BY <1>2, <1>3, <1>4, <1>5, <1>6, <1>7, KnownUnchanged DEF VerificationInv

\* RequireDescriptorDigest raises the code of a fault, or leaves BindingOK known.
LEMMA RequireDescriptorDigestInv ==
  ASSUME VerificationInv, RequireDescriptorDigest
  PROVE  VerificationInv'
<1>1. step = "binding" /\ TypeOK
  BY DEF VerificationInv, RequireDescriptorDigest, Check
<1>2. UNCHANGED << target, envelope, now, signingKey >>
  BY DEF RequireDescriptorDigest, Check, arguments
<1>3. TypeOK'
  BY <1>1, VerdictTypes, CheckTypes
     DEF RequireDescriptorDigest, Unless, VerifyErrors, Steps
<1>4. step' \in { "presence", "raised" }
  BY DEF RequireDescriptorDigest, Check
<1>5. (step' = "presence" => BindingOK)
  BY <1>1
     DEF VerificationInv, TypeOK, RequireDescriptorDigest, Check,
         Unless, BindingOK, NoError
<1>6. step' = "raised" => error' \in Faults(target, envelope)
  BY <1>1, InnerFaults, BodyFaultCodes, KnownTarget
     DEF VerificationInv, RequireDescriptorDigest, Check, Unless, BindingOK
<1>7. step' = "raised" => error' = FirstFault(target, envelope)
  BY <1>1, OuterFirst, IdentityFirst, KnownTarget, KnownBody
     DEF VerificationInv, RequireDescriptorDigest, Check, Unless, BindingOK
<1>. QED
  BY <1>2, <1>3, <1>4, <1>5, <1>6, <1>7, KnownUnchanged DEF VerificationInv

\* RequirePresence raises the code of a fault, or leaves RootOK or RevokedOK known.
LEMMA RequirePresenceInv ==
  ASSUME VerificationInv, RequirePresence
  PROVE  VerificationInv'
<1>1. step = "presence" /\ TypeOK
  BY DEF VerificationInv, RequirePresence, Check
<1>2. UNCHANGED << target, envelope, now, signingKey >>
  BY DEF RequirePresence, Check, arguments
<1>3. TypeOK'
  BY <1>1, VerdictTypes, CheckTypes
     DEF RequirePresence, Unless, VerifyErrors, Steps
<1>. body.authority \in { AUTHORITY_ROOT, AUTHORITY_ROOT_REVOKED }
  BY <1>1 DEF TypeOK, EnvelopeFields, BodyFields, body
<1>4. step' \in { "rootKey", "revokedKey", "raised" }
  BY DEF RequirePresence, Check
<1>5. (step' = "rootKey" => RootOK) /\ (step' = "revokedKey" => RevokedOK)
  BY <1>1
     DEF VerificationInv, TypeOK, RequirePresence, Check, Unless,
         RootOK, RevokedOK, PresenceOK, NoError
<1>6. step' = "raised" => error' \in Faults(target, envelope)
  BY <1>1, InnerFaults, BodyFaultCodes, KnownTarget
     DEF VerificationInv, RequirePresence, Check, Unless, RootOK,
         RevokedOK, PresenceOK
<1>7. step' = "raised" => error' = FirstFault(target, envelope)
  BY <1>1, OuterFirst, KeyFirst, KnownTarget, KnownBody
     DEF VerificationInv, RequirePresence, Check, Unless, RootOK,
         RevokedOK, PresenceOK
<1>. QED
  BY <1>2, <1>3, <1>4, <1>5, <1>6, <1>7, KnownUnchanged DEF VerificationInv

\* ValidateRevocationKey raises the code of a fault, or leaves RevokedKeyOK known.
LEMMA ValidateRevocationKeyInv ==
  ASSUME VerificationInv, ValidateRevocationKey
  PROVE  VerificationInv'
<1>1. step = "revokedKey" /\ TypeOK
  BY DEF VerificationInv, ValidateRevocationKey, Check
<1>2. UNCHANGED << target, envelope, now, signingKey >>
  BY DEF ValidateRevocationKey, Check, arguments
<1>3. TypeOK'
  <2>1. RevokedOK /\ body.revocationKey # Absent
    BY <1>1 DEF VerificationInv, RevokedOK, PresenceOK
  <2>. QED
    BY <1>1, <2>1, VerdictTypes, CheckTypes
       DEF ValidateRevocationKey, Unless, VerifyErrors, Steps
<1>4. step' \in { "commitment", "raised" }
  BY DEF ValidateRevocationKey, Check
<1>5. (step' = "commitment" => RevokedKeyOK)
  BY <1>1
     DEF VerificationInv, TypeOK, ValidateRevocationKey, Check, Unless,
         RevokedKeyOK, Reveals, NoError
<1>6. step' = "raised" => error' \in Faults(target, envelope)
  BY <1>1, InnerFaults, BodyFaultCodes, KnownTarget
     DEF VerificationInv, ValidateRevocationKey, Check, Unless,
         RevokedKeyOK, Reveals
<1>7. step' = "raised" => error' = FirstFault(target, envelope)
  BY <1>1, OuterFirst, KeyFirst, KnownTarget, KnownBody
     DEF VerificationInv, ValidateRevocationKey, Check, Unless,
         RevokedKeyOK, Reveals
<1>. QED
  BY <1>2, <1>3, <1>4, <1>5, <1>6, <1>7, KnownUnchanged DEF VerificationInv

\* VerifySignature raises the code of a fault, or leaves SignatureOK known.
LEMMA VerifySignatureInv ==
  ASSUME VerificationInv, VerifySignature
  PROVE  VerificationInv'
<1>1. step = "signature" /\ TypeOK
  BY DEF VerificationInv, VerifySignature, Check
<1>2. UNCHANGED << target, envelope, now, signingKey >>
  BY DEF VerifySignature, Check, arguments
<1>3. TypeOK'
  BY <1>1, VerdictTypes, CheckTypes
     DEF VerifySignature, Unless, VerifyErrors, Steps
<1>. Signed(envelope) <=> envelope.intact /\ envelope.signer = signingKey
  BY <1>1 DEF VerificationInv, KeyOK, Signed, body
<1>4. step' \in { "contact", "raised" }
  BY DEF VerifySignature, Check
<1>5. (step' = "contact" => SignatureOK)
  BY <1>1
     DEF VerificationInv, TypeOK, VerifySignature, Check, Unless,
         SignatureOK, NoError
<1>6. step' = "raised" => error' \in Faults(target, envelope)
  BY <1>1, InnerFaults, BodyFaultCodes, KnownTarget
     DEF VerificationInv, VerifySignature, Check, Unless, SignatureOK
<1>7. step' = "raised" => error' = FirstFault(target, envelope)
  BY <1>1, OuterFirst, KeyFirst, KnownTarget, KnownBody
     DEF VerificationInv, VerifySignature, Check, Unless, SignatureOK
<1>. QED
  BY <1>2, <1>3, <1>4, <1>5, <1>6, <1>7, KnownUnchanged DEF VerificationInv

\* ValidateContact raises the code of a fault, or leaves ContactOK known.
LEMMA ValidateContactInv ==
  ASSUME VerificationInv, ValidateContact
  PROVE  VerificationInv'
<1>1. step = "contact" /\ TypeOK
  BY DEF VerificationInv, ValidateContact, Check
<1>2. UNCHANGED << target, envelope, now, signingKey >>
  BY DEF ValidateContact, Check, arguments
<1>3. TypeOK'
  BY <1>1, VerdictTypes, CheckTypes
     DEF ValidateContact, Unless, VerifyErrors, Steps
<1>4. step' \in { "extensions", "raised" }
  BY DEF ValidateContact, Check
<1>5. (step' = "extensions" => ContactOK)
  BY <1>1
     DEF VerificationInv, TypeOK, ValidateContact, Check, Unless,
         ContactOK, NoError
<1>6. step' = "raised" => error' \in Faults(target, envelope)
  BY <1>1, InnerFaults, BodyFaultCodes, KnownTarget
     DEF VerificationInv, ValidateContact, Check, Unless, ContactOK
<1>7. step' = "raised" => error' = FirstFault(target, envelope)
  BY <1>1, OuterFirst, ContentFirst, KnownTarget, KnownBody
     DEF VerificationInv, ValidateContact, Check, Unless, ContactOK
<1>. QED
  BY <1>2, <1>3, <1>4, <1>5, <1>6, <1>7, KnownUnchanged DEF VerificationInv

\* ValidateExtensions raises the code of a fault, or leaves ExtensionsOK known.
LEMMA ValidateExtensionsInv ==
  ASSUME VerificationInv, ValidateExtensions
  PROVE  VerificationInv'
<1>1. step = "extensions" /\ TypeOK
  BY DEF VerificationInv, ValidateExtensions, Check
<1>2. UNCHANGED << target, envelope, now, signingKey >>
  BY DEF ValidateExtensions, Check, arguments
<1>3. TypeOK'
  BY <1>1, VerdictTypes, CheckTypes
     DEF ValidateExtensions, Unless, VerifyErrors, Steps
<1>4. step' \in { "horizon", "raised" }
  BY DEF ValidateExtensions, Check
<1>5. (step' = "horizon" => ExtensionsOK)
  BY <1>1
     DEF VerificationInv, TypeOK, ValidateExtensions, Check, Unless,
         ExtensionsOK, NoError
<1>6. step' = "raised" => error' \in Faults(target, envelope)
  BY <1>1, InnerFaults, BodyFaultCodes, KnownTarget
     DEF VerificationInv, ValidateExtensions, Check, Unless, ExtensionsOK
<1>7. step' = "raised" => error' = FirstFault(target, envelope)
  BY <1>1, OuterFirst, ContentFirst, KnownTarget, KnownBody
     DEF VerificationInv, ValidateExtensions, Check, Unless, ExtensionsOK
<1>. QED
  BY <1>2, <1>3, <1>4, <1>5, <1>6, <1>7, KnownUnchanged DEF VerificationInv

\* RequireHorizon raises the code of a fault, or leaves HorizonOK known.
LEMMA RequireHorizonInv ==
  ASSUME VerificationInv, RequireHorizon
  PROVE  VerificationInv'
<1>1. step = "horizon" /\ TypeOK
  BY DEF VerificationInv, RequireHorizon, Check
<1>2. UNCHANGED << target, envelope, now, signingKey >>
  BY DEF RequireHorizon, Check, arguments
<1>3. TypeOK'
  BY <1>1, VerdictTypes, CheckTypes
     DEF RequireHorizon, Unless, VerifyErrors, Steps
<1>4. step' \in { "classify", "raised" }
  BY DEF RequireHorizon, Check
<1>5. (step' = "classify" => HorizonOK)
  BY <1>1
     DEF VerificationInv, TypeOK, RequireHorizon, Check, Unless,
         HorizonOK, NoError
<1>6. step' = "raised" => error' \in Faults(target, envelope)
  BY <1>1, InnerFaults, BodyFaultCodes, KnownTarget
     DEF VerificationInv, RequireHorizon, Check, Unless, HorizonOK
<1>7. step' = "raised" => error' = FirstFault(target, envelope)
  BY <1>1, OuterFirst, ContentFirst, KnownTarget, KnownBody
     DEF VerificationInv, RequireHorizon, Check, Unless, HorizonOK
<1>. QED
  BY <1>2, <1>3, <1>4, <1>5, <1>6, <1>7, KnownUnchanged DEF VerificationInv
\* A root record is to be signed by the descriptor's root key.
LEMMA SelectRootKeyInv ==
  ASSUME VerificationInv, SelectRootKey
  PROVE  VerificationInv'
<1>1. /\ TypeOK /\ RootOK
      /\ step' = "signature" /\ signingKey' = body.descriptor.digest.root
      /\ UNCHANGED << target, envelope, now, error, record >>
      /\ step = "rootKey"
  BY DEF VerificationInv, SelectRootKey, arguments
<1>2. body.descriptor.digest.root \in Keys
  BY <1>1 DEF TypeOK, EnvelopeFields, BodyFields, DescriptorDigests, body
<1>3. TypeOK'
  BY <1>1, <1>2 DEF TypeOK, Steps
<1>4. RootOK' /\ body' = body
  BY <1>1 DEF RootOK, PresenceOK, BindingOK, DescriptorOK, IdOK, TargetOK, BodyOK,
              EncodingOK, EnvelopeOK, SizeOK, body
<1>5. signingKey' = SigningKey(body)
  BY <1>1 DEF SigningKey, RootOK
<1>6. KeyOK'
  BY <1>4, <1>5 DEF KeyOK
<1>. QED
  BY <1>1, <1>3, <1>6 DEF VerificationInv

\* A revoked record is to be signed by the revealed key, and only by one that
\* the descriptor committed to.
LEMMA RequireCommitmentInv ==
  ASSUME VerificationInv, RequireCommitment
  PROVE  VerificationInv'
<1>1. /\ TypeOK /\ RevokedKeyOK /\ RevokedOK /\ step = "commitment"
      /\ UNCHANGED << target, envelope, now, record >>
  BY DEF VerificationInv, RequireCommitment, arguments, RevokedKeyOK
<1>2. body' = body
  BY <1>1 DEF body
<1>3. body.revocationKey.key \in Keys
  <2>1. body.revocationKey \in PublicKeyFields
    BY <1>1 DEF TypeOK, EnvelopeFields, BodyFields, body, RevokedOK, PresenceOK
  <2>. QED
    BY <2>1 DEF PublicKeyFields
<1>4. CASE body.revocationKey.key = body.descriptor.digest.commitment
  <2>1. /\ step' = "signature" /\ error' = error
        /\ signingKey' = body.revocationKey.key
    BY <1>4 DEF RequireCommitment
  <2>2. TypeOK'
    BY <1>1, <1>3, <2>1 DEF TypeOK, Steps
  <2>3. RevokedKeyOK'
    BY <1>1 DEF RevokedKeyOK, RevokedOK, PresenceOK, BindingOK, DescriptorOK, IdOK,
                TargetOK, BodyOK, EncodingOK, EnvelopeOK, SizeOK, body
  <2>4. Reveals(body) /\ signingKey' = SigningKey(body)
    <3>1. body.authority # AUTHORITY_ROOT
      BY <1>1 DEF RevokedOK, AUTHORITY_ROOT, AUTHORITY_ROOT_REVOKED
    <3>. QED
      BY <1>1, <1>4, <2>1, <3>1 DEF Reveals, SigningKey, RevokedKeyOK
  <2>5. KeyOK'
    BY <1>2, <2>3, <2>4 DEF KeyOK
  <2>. QED
    BY <2>1, <2>2, <2>5 DEF VerificationInv
<1>5. CASE body.revocationKey.key # body.descriptor.digest.commitment
  <2>1. /\ step' = "raised" /\ error' = "invalidRevocationKey"
        /\ signingKey' = signingKey
    BY <1>5 DEF RequireCommitment
  <2>2. record = Absent
    BY <1>1 DEF TypeOK
  <2>3. TypeOK'
    BY <1>1, <2>1, <2>2 DEF TypeOK, Steps, VerifyErrors, NoError
  <2>4. TargetOK /\ body.revocationKey.schema = NoError /\ ~Reveals(body)
    BY <1>1, <1>5, KnownTarget DEF RevokedKeyOK, Reveals
  <2>5. error' \in Faults(target', envelope')
    BY <1>1, <2>1, <2>4, InnerFaults, BodyFaultCodes
  <2>6. error' = FirstFault(target', envelope')
    BY <1>1, <2>1, <2>4, KnownBody, OuterFirst, KeyFirst
  <2>. QED
    BY <2>1, <2>3, <2>5, <2>6 DEF VerificationInv
<1>. QED
  BY <1>4, <1>5

\* The record returned is the promised one: the selected key is the one that
\* the target's digest commits to.
LEMMA ReturnRecordInv ==
  ASSUME VerificationInv, ReturnRecord
  PROVE  VerificationInv'
<1>1. /\ TypeOK /\ HorizonOK /\ step = "classify" /\ step' = "returned"
      /\ UNCHANGED << target, envelope, now, error, signingKey >>
  BY DEF VerificationInv, ReturnRecord, arguments
<1>2. TypeOK'
  BY <1>1 DEF TypeOK, Steps
<1>3. HorizonOK'
  BY <1>1, KnownUnchanged
<1>4. /\ BindingOK /\ signingKey = SigningKey(body)
      /\ body.authority # AUTHORITY_ROOT => Reveals(body)
  BY <1>1 DEF HorizonOK, ExtensionsOK, ContactOK, SignatureOK, KeyOK, RootOK,
              RevokedKeyOK, RevokedOK, PresenceOK
<1>5. signingKey = AuthorityKey(target.digest, body.authority)
  BY <1>4 DEF BindingOK, SigningKey, AuthorityKey, Reveals
<1>6. record' = VerifiedFields(target, envelope, now)
  BY <1>5 DEF ReturnRecord, VerifiedFields, body
<1>. QED
  BY <1>1, <1>2, <1>3, <1>6 DEF VerificationInv

\* VerificationInv is inductive.
LEMMA NextInv == VerificationInv /\ [Next]_vars => VerificationInv'
<1>. SUFFICES ASSUME VerificationInv, [Next]_vars PROVE VerificationInv'
  OBVIOUS
<1>1. CASE Next
  BY <1>1, CheckSizeInv, ParseEnvelopeInv, DecodeBodyInv, ValidateRecordBodyInv,
     ParseTargetInv, RequireIdInv, ValidateDescriptorInv,
     RequireDescriptorDigestInv, RequirePresenceInv, SelectRootKeyInv,
     ValidateRevocationKeyInv, RequireCommitmentInv, VerifySignatureInv,
     ValidateContactInv, ValidateExtensionsInv, RequireHorizonInv,
     ReturnRecordInv DEF Next
<1>2. CASE UNCHANGED vars
  <2>1. UNCHANGED << target, envelope, now, step, error, signingKey, record >>
    BY <1>2 DEF vars
  <2>2. TypeOK'
    BY <2>1 DEF VerificationInv, TypeOK
  <2>. QED
    BY <2>1, <2>2, KnownUnchanged DEF VerificationInv
<1>. QED
  BY <1>1, <1>2

\* Every reachable state of every call satisfies the invariant.
THEOREM VerificationInvariant == Spec => []VerificationInv
<1>. QED
  BY InitInv, NextInv, PTL DEF Spec

----------------------------------------------------------------------------
(* What a caller may rely on.                                              *)

\* A returned record was signed, over this payload, by the key the target DID
\* commits to for the record's authority state.
THEOREM Authorised == Spec => []AcceptedIsAuthorised
<1>1. VerificationInv => AcceptedIsAuthorised
  <2>. SUFFICES ASSUME VerificationInv, step = "returned"
                PROVE  /\ envelope.intact
                       /\ envelope.signer = AuthorityKey(target.digest, record.authority)
                       /\ record.signing_key = envelope.signer
    BY DEF AcceptedIsAuthorised
  <2>1. HorizonOK /\ record = VerifiedFields(target, envelope, now)
    BY DEF VerificationInv
  <2>2. /\ BindingOK /\ Signed(envelope)
        /\ body.authority # AUTHORITY_ROOT => Reveals(body)
    BY <2>1 DEF HorizonOK, ExtensionsOK, ContactOK, SignatureOK, KeyOK, RootOK,
                RevokedKeyOK, RevokedOK, PresenceOK
  <2>3. envelope.signer = AuthorityKey(target.digest, body.authority)
    BY <2>2 DEF BindingOK, Signed, SigningKey, AuthorityKey, Reveals, body
  <2>. QED
    BY <2>1, <2>2, <2>3 DEF Signed, VerifiedFields, body
<1>. QED
  BY <1>1, VerificationInvariant, PTL

\* The contract's types are those of VerificationRules.
LEMMA SameTypes ==
  /\ Contract!TargetFields = TargetFields
  /\ Contract!EnvelopeFields = EnvelopeFields
<1>1. /\ Contract!NoError = NoError
      /\ Contract!NoHorizon = NoHorizon
      /\ Contract!AUTHORITY_ROOT = AUTHORITY_ROOT
      /\ Contract!AUTHORITY_ROOT_REVOKED = AUTHORITY_ROOT_REVOKED
  BY DEF Contract!NoError, NoError, Contract!NoHorizon, NoHorizon,
         Contract!AUTHORITY_ROOT, AUTHORITY_ROOT,
         Contract!AUTHORITY_ROOT_REVOKED, AUTHORITY_ROOT_REVOKED
<1>2. /\ Contract!DescriptorDigests = DescriptorDigests
      /\ Contract!PublicKeyFields = PublicKeyFields
  BY <1>1 DEF Contract!DescriptorDigests, DescriptorDigests,
              Contract!PublicKeyFields, PublicKeyFields
<1>3. Contract!BodyFields = BodyFields
  BY <1>1, <1>2 DEF Contract!BodyFields, BodyFields
<1>. QED
  BY <1>1, <1>2, <1>3 DEF Contract!TargetFields, TargetFields,
                          Contract!EnvelopeFields, EnvelopeFields

\* The contract's rules are those of VerificationRules.
LEMMA SameConforming ==
  ASSUME NEW t, NEW e, NEW n
  PROVE  Contract!Conforming(t, e, n) = Conforming(t, e, n)
<1>1. /\ Contract!NoError = NoError
      /\ Contract!NoHorizon = NoHorizon
      /\ Contract!AUTHORITY_ROOT = AUTHORITY_ROOT
      /\ Contract!AUTHORITY_ROOT_REVOKED = AUTHORITY_ROOT_REVOKED
  BY DEF Contract!NoError, NoError, Contract!NoHorizon, NoHorizon,
         Contract!AUTHORITY_ROOT, AUTHORITY_ROOT,
         Contract!AUTHORITY_ROOT_REVOKED, AUTHORITY_ROOT_REVOKED
<1>2. \A S : Contract!Verdicts(S) = Verdicts(S)
  BY <1>1 DEF Contract!Verdicts, Verdicts
<1>3. \A c, f : Contract!Fault(c, f) = Fault(c, f)
  BY DEF Contract!Fault, Fault
<1>4. /\ Contract!Bound(t, e.body) <=> Bound(t, e.body)
      /\ Contract!Reveals(e.body) <=> Reveals(e.body)
      /\ Contract!Signed(e) <=> Signed(e)
  BY <1>1 DEF Contract!Bound, Bound, Contract!Reveals, Reveals,
              Contract!Signed, Signed, Contract!SigningKey, SigningKey
<1>5. Contract!BodyFaults(t, e) = BodyFaults(t, e)
  BY <1>1, <1>2, <1>4 DEF Contract!BodyFaults, BodyFaults, Contract!Fault, Fault
<1>6. Contract!Faults(t, e) = Faults(t, e)
  BY <1>1, <1>2, <1>5 DEF Contract!Faults, Faults, Contract!Fault, Fault
<1>7. Contract!VerifiedFields(t, e, n) = VerifiedFields(t, e, n)
  BY <1>1 DEF Contract!VerifiedFields, VerifiedFields,
              Contract!AuthorityKey, AuthorityKey,
              Contract!IsPremature, IsPremature, Contract!IsStale, IsStale
<1>. QED
  BY <1>1, <1>6, <1>7 DEF Contract!Conforming, Conforming

\* What a call that ends answers conforms to the rules.
EndConforms ==
  step \in { "raised", "returned" } => result \in Conforming(target, envelope, now)

LEMMA InvEndConforms == VerificationInv => EndConforms
<1>. SUFFICES ASSUME VerificationInv, step \in { "raised", "returned" }
              PROVE  result \in Conforming(target, envelope, now)
  BY DEF EndConforms
<1>1. result = [ error |-> error, record |-> record ]
  BY DEF result
<1>2. CASE step = "raised"
  <2>1. error \in Faults(target, envelope) /\ record = Absent
    BY <1>2 DEF VerificationInv, TypeOK
  <2>. QED
    BY <1>1, <2>1 DEF Conforming
<1>3. CASE step = "returned"
  <2>1. /\ HorizonOK
        /\ error = NoError
        /\ record = VerifiedFields(target, envelope, now)
    BY <1>3 DEF VerificationInv, TypeOK
  <2>2. Faults(target, envelope) = {}
    BY <2>1, NoFaultLeft DEF VerificationInv
  <2>. QED
    BY <1>1, <2>1, <2>2 DEF Conforming
<1>. QED
  BY <1>2, <1>3

\* The call returns exactly the fault-free records, and refuses any other with
\* the code of one of its faults.
THEOREM Refinement == Spec => ImplementsContract
<1>1. Init => Contract!CallInit
  <2>. SUFFICES ASSUME Init PROVE Contract!CallInit
    OBVIOUS
  <2>1. /\ target \in TargetFields /\ envelope \in EnvelopeFields /\ now \in Nat
        /\ result = Absent
    BY VerificationAssumption DEF Init, result
  <2>. QED
    BY <2>1, SameTypes DEF Contract!CallInit
<1>2. /\ VerificationInv /\ EndConforms'
      /\ [Next]_vars
      => [Contract!Return]_(Contract!callVars)
  <2>. SUFFICES ASSUME VerificationInv, EndConforms', [Next]_vars
                PROVE  Contract!Return \/ UNCHANGED Contract!callVars
    OBVIOUS
  <2>1. CASE Next
    <3>1. step \notin { "raised", "returned" } /\ UNCHANGED arguments
      BY <2>1 DEF Next, Check, CheckSize, ParseEnvelope, DecodeBody,
                  ValidateRecordBody, ParseTarget, RequireId,
                  ValidateDescriptor, RequireDescriptorDigest, RequirePresence,
                  SelectRootKey, ValidateRevocationKey, RequireCommitment,
                  VerifySignature, ValidateContact, ValidateExtensions,
                  RequireHorizon, ReturnRecord
    <3>2. result = Absent
      BY <3>1 DEF result
    <3>3. CASE step' \in { "raised", "returned" }
      <4>1. result' \in Conforming(target', envelope', now')
        BY <3>3 DEF EndConforms
      <4>. QED
        BY <3>1, <3>2, <4>1, SameConforming DEF Contract!Return, arguments
    <3>4. CASE step' \notin { "raised", "returned" }
      BY <3>1, <3>2, <3>4 DEF result, Contract!callVars, arguments
    <3>. QED
      BY <3>3, <3>4
  <2>2. CASE UNCHANGED vars
    BY <2>2 DEF vars, result, Contract!callVars
  <2>. QED
    BY <2>1, <2>2
<1>. QED
  BY <1>1, <1>2, VerificationInvariant, InvEndConforms, PTL
     DEF Spec, ImplementsContract, Contract!CallSpec
----------------------------------------------------------------------------
(* Two calls on one envelope.                                              *)

\* The code of a call that ended is the code of the first fault in its inputs,
\* or NoError if they have none: the clock has no part in it.
ExactVerdict ==
  step \in { "raised", "returned" } => error = FirstFault(target, envelope)

LEMMA InvExactVerdict == VerificationInv => ExactVerdict
<1>. SUFFICES ASSUME VerificationInv, step \in { "raised", "returned" }
              PROVE  error = FirstFault(target, envelope)
  BY DEF ExactVerdict
<1>1. CASE step = "raised"
  BY <1>1 DEF VerificationInv
<1>2. CASE step = "returned"
  BY <1>2, NoFirstFault DEF VerificationInv, TypeOK
<1>. QED
  BY <1>1, <1>2

\* Of several faults the call reports the one that the order of its checks
\* meets first.
THEOREM VerdictIsFirstFault == Spec => []ExactVerdict
<1>. QED
  BY VerificationInvariant, InvExactVerdict, PTL

\* What is kept of the first call is the verdict on its inputs.
FirstInv ==
  first # Absent =>
    /\ first.now \in Nat
    /\ first.result.error = FirstFault(first.target, envelope)
    /\ first.result.error = NoError =>
         first.result.record = VerifiedFields(first.target, envelope, first.now)

TwiceInv == VerificationInv /\ FirstInv

\* A call that returned gave the promised record.
LEMMA ReturnedRecord ==
  ASSUME VerificationInv, step \in { "raised", "returned" }, error = NoError
  PROVE  HorizonOK /\ record = VerifiedFields(target, envelope, now)
  BY DEF VerificationInv, TypeOK

\* TwiceInv is inductive.
LEMMA TwiceNextInv == TwiceInv /\ [TwiceNext]_<<vars, first>> => TwiceInv'
<1>. SUFFICES ASSUME TwiceInv, [TwiceNext]_<<vars, first>> PROVE TwiceInv'
  OBVIOUS
<1>1. CASE [Next]_vars /\ UNCHANGED first
  <2>1. VerificationInv'
    BY <1>1, NextInv DEF TwiceInv
  <2>2. UNCHANGED envelope
    BY <1>1 DEF Next, Check, CheckSize, ParseEnvelope, DecodeBody,
                ValidateRecordBody, ParseTarget, RequireId,
                ValidateDescriptor, RequireDescriptorDigest, RequirePresence,
                SelectRootKey, ValidateRevocationKey, RequireCommitment,
                VerifySignature, ValidateContact, ValidateExtensions,
                RequireHorizon, ReturnRecord, arguments, vars
  <2>. QED
    BY <1>1, <2>1, <2>2 DEF TwiceInv, FirstInv
<1>2. CASE CallAgain
  <2>1. /\ result # Absent /\ UNCHANGED envelope
        /\ first' = [ target |-> target, now |-> now, result |-> result ]
        /\ target' \in Targets /\ now' \in Clocks
        /\ step' = "size" /\ error' = NoError
        /\ signingKey' = Absent /\ record' = Absent
    BY <1>2 DEF CallAgain
  <2>2. /\ step \in { "raised", "returned" }
        /\ result = [ error |-> error, record |-> record ]
    BY <2>1 DEF result
  <2>3. TypeOK'
    BY <2>1, VerificationAssumption DEF TwiceInv, VerificationInv, TypeOK, Steps
  <2>4. VerificationInv'
    BY <2>1, <2>3 DEF VerificationInv
  <2>5. now \in Nat /\ error = FirstFault(target, envelope)
    BY <2>2, InvExactVerdict DEF TwiceInv, ExactVerdict, VerificationInv, TypeOK
  <2>6. error = NoError => record = VerifiedFields(target, envelope, now)
    BY <2>2, ReturnedRecord DEF TwiceInv
  <2>7. FirstInv'
    BY <2>1, <2>2, <2>5, <2>6 DEF FirstInv
  <2>. QED
    BY <2>4, <2>7 DEF TwiceInv
<1>. QED
  BY <1>1, <1>2 DEF TwiceNext, RunCall, vars

\* Every reachable state of the two calls satisfies TwiceInv.
LEMMA TwiceInvariant == TwiceSpec => []TwiceInv
<1>1. TwiceInit => TwiceInv
  BY InitInv DEF TwiceInit, TwiceInv, FirstInv
<1>. QED
  BY <1>1, TwiceNextInv, PTL DEF TwiceSpec

\* When both calls ended, each has the verdict on its inputs.
LEMMA BothVerdicts ==
  ASSUME TwiceInv, BothEnded
  PROVE  /\ error = FirstFault(target, envelope)
         /\ first.result.error = FirstFault(first.target, envelope)
         /\ error = NoError =>
              HorizonOK /\ record = VerifiedFields(target, envelope, now)
         /\ first.result.error = NoError =>
              first.result.record = VerifiedFields(first.target, envelope, first.now)
<1>1. step \in { "raised", "returned" }
  BY DEF BothEnded, result
<1>. QED
  BY <1>1, InvExactVerdict, ReturnedRecord
     DEF TwiceInv, FirstInv, BothEnded, ExactVerdict

\* An envelope without a fault for one target fails for every other in the
\* target itself, or in the comparison with the id of the body.
LEMMA OtherTargetFault ==
  ASSUME NEW e, NEW t, NEW u, t # u, FirstFault(t, e) = NoError
  PROVE  FirstFault(u, e) = IF u.form # NoError THEN u.form
                                               ELSE "identityBindingMismatch"
<1>1. /\ ~(e.size > MAX_RECORD_BYTES)
      /\ e.profile = NoError /\ e.encoding = NoError /\ e.body.schema = NoError
      /\ FirstBodyFault(t, e) = NoError
  BY DEF FirstFault, NoError
<1>2. e.body.id = t
  BY <1>1 DEF FirstBodyFault, NoError
<1>. QED
  BY <1>1, <1>2 DEF FirstFault, FirstBodyFault

\* An envelope accepted for one DID is refused for every other, and for that
\* reason alone.
THEOREM OneTarget == TwiceSpec => []AcceptedForOneTarget
<1>1. TwiceInv => AcceptedForOneTarget
  <2>. SUFFICES ASSUME TwiceInv, BothEnded, first.result.error = NoError,
                       target # first.target
                PROVE  error = IF target.form # NoError
                               THEN target.form ELSE "identityBindingMismatch"
    BY DEF AcceptedForOneTarget
  <2>1. /\ error = FirstFault(target, envelope)
        /\ FirstFault(first.target, envelope) = NoError
    BY BothVerdicts
  <2>. QED
    BY <2>1, OtherTargetFault
<1>. QED
  BY <1>1, TwiceInvariant, PTL

\* Records with the same other fields are the same without their classification.
LEMMA SameOtherwise ==
  ASSUME NEW r, NEW q, DOMAIN r = DOMAIN q,
         \A f \in DOMAIN r \ { "premature", "stale" } : r[f] = q[f]
  PROVE  [ r EXCEPT !.premature = FALSE, !.stale = FALSE ]
           = [ q EXCEPT !.premature = FALSE, !.stale = FALSE ]
<1>. DEFINE Otherwise(p) ==
       [ f \in DOMAIN p |-> IF f \in { "premature", "stale" } THEN FALSE ELSE p[f] ]
<1>1. [ r EXCEPT !.premature = FALSE, !.stale = FALSE ] = Otherwise(r)
  OBVIOUS
<1>2. [ q EXCEPT !.premature = FALSE, !.stale = FALSE ] = Otherwise(q)
  OBVIOUS
<1>3. Otherwise(r) = Otherwise(q)
  OBVIOUS
<1>. QED
  BY <1>1, <1>2, <1>3

\* The clock decides the classification of a record, never the verdict.
THEOREM ClockFree == TwiceSpec => []VerdictClockFree
<1>1. TwiceInv => VerdictClockFree
  <2>. SUFFICES ASSUME TwiceInv, BothEnded, target = first.target
                PROVE  /\ error = first.result.error
                       /\ error = NoError =>
                            [ record EXCEPT !.premature = FALSE, !.stale = FALSE ]
                              = [ first.result.record EXCEPT !.premature = FALSE,
                                                             !.stale = FALSE ]
    BY DEF VerdictClockFree
  <2>1. error = first.result.error
    BY BothVerdicts
  <2>2. ASSUME error = NoError
        PROVE  /\ record = VerifiedFields(target, envelope, now)
               /\ first.result.record = VerifiedFields(target, envelope, first.now)
    BY <2>1, <2>2, BothVerdicts
  <2>. DEFINE r == VerifiedFields(target, envelope, now)
              q == VerifiedFields(target, envelope, first.now)
  <2>3. /\ DOMAIN r = DOMAIN q
        /\ \A f \in DOMAIN r \ { "premature", "stale" } : r[f] = q[f]
    BY DEF VerifiedFields
  <2>4. [ r EXCEPT !.premature = FALSE, !.stale = FALSE ]
          = [ q EXCEPT !.premature = FALSE, !.stale = FALSE ]
    <3>. HIDE DEF r, q
    <3>. QED
      BY <2>3, SameOtherwise
  <2>. QED
    BY <2>1, <2>2, <2>4
<1>. QED
  BY <1>1, TwiceInvariant, PTL

\* As the clock advances an accepted record goes from premature to fresh to
\* stale and not back.
THEOREM ClassificationOrder == TwiceSpec => []ClassificationAdvances
<1>1. TwiceInv => ClassificationAdvances
  <2>. SUFFICES ASSUME TwiceInv, BothEnded, target = first.target,
                       error = NoError, first.now <= now
                PROVE  /\ record.premature => first.result.record.premature
                       /\ first.result.record.stale => record.stale
                       /\ ~(record.premature /\ record.stale)
    BY DEF ClassificationAdvances
  <2>1. /\ HorizonOK /\ record = VerifiedFields(target, envelope, now)
        /\ first.result.record = VerifiedFields(target, envelope, first.now)
    BY BothVerdicts
  <2>2. /\ record.premature <=> IsPremature(body.timestamp_ms, now)
        /\ record.stale <=> IsStale(body.validUntil_ms, now)
        /\ first.result.record.premature <=> IsPremature(body.timestamp_ms, first.now)
        /\ first.result.record.stale <=> IsStale(body.validUntil_ms, first.now)
    BY <2>1 DEF VerifiedFields, body
  <2>3. /\ body.timestamp_ms \in Nat /\ body.validUntil_ms \in Nat \cup { NoHorizon }
        /\ now \in Nat /\ first.now \in Nat
    BY DEF TwiceInv, FirstInv, BothEnded, VerificationInv, TypeOK, EnvelopeFields,
           BodyFields, body
  <2>4. \/ body.validUntil_ms = NoHorizon
        \/ body.validUntil_ms >= body.timestamp_ms
    BY <2>1 DEF HorizonOK
  <2>5. IsPremature(body.timestamp_ms, now) => IsPremature(body.timestamp_ms, first.now)
    BY <2>3, SkewAssumption DEF IsPremature
  <2>6. IsStale(body.validUntil_ms, first.now) => IsStale(body.validUntil_ms, now)
    BY <2>3 DEF IsStale, NoHorizon
  <2>7. ~(IsPremature(body.timestamp_ms, now) /\ IsStale(body.validUntil_ms, now))
    BY <2>3, <2>4, SkewAssumption DEF IsPremature, IsStale, NoHorizon
  <2>. QED
    BY <2>2, <2>5, <2>6, <2>7
<1>. QED
  BY <1>1, TwiceInvariant, PTL
=============================================================================

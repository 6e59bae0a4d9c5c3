----------------------------- MODULE CoseEnvelope -----------------------------
(***************************************************************************)
(* parse_envelope and build_envelope of followee_model/cose.py.  The       *)
(* decoder, which parse_envelope calls twice, is a parameter of the module *)
(* of which only this is assumed: it returns nothing but values that nest  *)
(* within the limit and encode to its input.  DetCborProofs proves that of *)
(* detcbor.decode.                                                         *)
(***************************************************************************)
EXTENDS CborBytes

CONSTANTS
  Inputs,               \* the argument data
  NoEnvelope,           \* None in place of an Envelope
  Decodings(_, _, _)    \* how decode(d, max_depth, max_members) may end: with an
                        \* error, or NoError and a value

NoError == "noError"

Int1         == << "uint", << 1 >> >>
SuiteEd25519 == << "nint", << 18 >> >>          \* -19 is -1 - 18
IsInt(v)     == v[1] \in { "uint", "nint" }     \* type(v) is int
EmptyMap     == << "map", << >> >>
None         == << "simple", 22 >>

PROTECTED_HEADER == << 161, 1, 50 >>
COSE_SIGN1_TAG   == << 18 >>
SIGNATURE_LENGTH == 64

\* The limits that parse_envelope sets for the content of the tag.
MAX_DEPTH   == 3
MAX_MEMBERS == 16

\* encode, on the values that nest no deeper than that.
Values     == ValuesOf(ValuesOf(ValuesOf(ValuesOf({}))))
Encoded(v) == EncodeTo[MAX_DEPTH + 1][v]

EnvelopeAssumption ==
  \A d \in Inputs :
    /\ d \in Seq(Byte)
    /\ d # << >> =>
         \A result \in Decodings(Tail(d), MAX_DEPTH, MAX_MEMBERS) :
           result.error = NoError =>
             result.value \in Values /\ Encoded(result.value) = Tail(d)
ASSUME EnvelopeAssumption

BuildEnvelope(payload, signature) ==
  << 210 >> \o Encoded(<< "array", << << "bytes", PROTECTED_HEADER >>, EmptyMap,
                                      << "bytes", payload >>, << "bytes", signature >> >> >>)

----------------------------------------------------------------------------
\* _check_outer_tag.
OuterTagError(d) ==
  IF d = << >>                  THEN "invalidCbor"
  ELSE IF d[1] \div 32 # 6      THEN "schemaViolation"
  ELSE IF d[1] = 210            THEN NoError
  ELSE IF d[1] % 32 \in 28..31  THEN "invalidCbor"
  ELSE IF d[1] % 32 < 24        THEN "schemaViolation"
  ELSE IF Fails(ArgumentAt(d, 1)) THEN "invalidCbor"
  ELSE IF ArgumentAt(d, 1).term = COSE_SIGN1_TAG THEN "nonDeterministicCbor"
  ELSE "schemaViolation"

\* The condition of _classify_protected.
NamesOtherSuite(header) ==
  /\ header[1] = "map"
  /\ \A label \in Keys(header) : IsInt(label)
  /\ { DictKey(label) : label \in Keys(header) } = { Int1 }
  /\ IsInt(header[2][2]) /\ header[2][2] # SuiteEd25519

\* Variant: what the decoder says of the header is passed on.
ProtectedErrorsUncaught(protected) ==
  IF protected = << "bytes", PROTECTED_HEADER >> THEN { NoError }
  ELSE IF protected[1] # "bytes"                 THEN { "schemaViolation" }
  ELSE { IF header.error # NoError THEN header.error
         ELSE IF NamesOtherSuite(header.value) THEN "unsupportedSuite"
         ELSE "schemaViolation"
         : header \in Decodings(protected[2], 2, 8) }

ProtectedErrors(protected) ==
  IF protected = << "bytes", PROTECTED_HEADER >> THEN { NoError }
  ELSE IF protected[1] # "bytes"                 THEN { "schemaViolation" }
  ELSE { IF header.error = NoError /\ NamesOtherSuite(header.value)
         THEN "unsupportedSuite" ELSE "schemaViolation"
         : header \in Decodings(protected[2], 2, 8) }

----------------------------------------------------------------------------
VARIABLES
  data,        \* the argument
  step,        \* the statement about to run, "raised" or "returned"
  error,       \* the code raised, or NoError
  value,       \* what decode returned
  envelope     \* the Envelope returned

vars == << data, step, error, value, envelope >>

Init ==
  /\ data \in Inputs
  /\ step = "tag" /\ error = NoError /\ value = None /\ envelope = NoEnvelope

Check(s, verdict, next) ==
  /\ step = s
  /\ error' = verdict
  /\ step' = IF verdict = NoError THEN next ELSE "raised"
  /\ UNCHANGED << data, envelope >>

Unless(condition) == IF condition THEN NoError ELSE "schemaViolation"

CheckOuterTag == Check("tag", OuterTagError(data), "decode") /\ UNCHANGED value

DecodeContent ==
  /\ step = "decode"
  /\ \E decoded \in Decodings(Tail(data), MAX_DEPTH, MAX_MEMBERS) :
       /\ Check("decode", decoded.error, "array")
       /\ value' = decoded.value

\* Variant: whatever follows the four elements is ignored.
IsArrayAtLeast(content) == content[1] = "array" /\ Len(content[2]) >= 4

IsArrayOfFour(content) == content[1] = "array" /\ Len(content[2]) = 4

RequireArray ==
  /\ Check("array", Unless(IsArrayOfFour(value)), "protected")
  /\ UNCHANGED value

CheckProtected ==
  /\ step = "protected"
  /\ \E verdict \in ProtectedErrors(value[2][1]) :
       Check("protected", verdict, "unprotected")
  /\ UNCHANGED value

CheckUnprotected ==
  Check("unprotected", Unless(value[2][2] = EmptyMap), "payload") /\ UNCHANGED value

\* A detached payload is one that is None.
CheckPayload ==
  Check("payload", Unless(value[2][3][1] = "bytes"), "signature") /\ UNCHANGED value

CheckSignatureAndReturn ==
  /\ step = "signature"
  /\ LET signature == value[2][4]
         sound     == signature[1] = "bytes" /\ Len(signature[2]) = SIGNATURE_LENGTH
     IN
     /\ error' = Unless(sound)
     /\ step' = IF sound THEN "returned" ELSE "raised"
     /\ envelope' = IF sound
                    THEN [ payload |-> value[2][3][2], signature |-> signature[2] ]
                    ELSE NoEnvelope
  /\ UNCHANGED << data, value >>

Next ==
  \/ CheckOuterTag \/ DecodeContent \/ RequireArray \/ CheckProtected
  \/ CheckUnprotected \/ CheckPayload \/ CheckSignatureAndReturn

Spec == Init /\ [][Next]_vars

----------------------------------------------------------------------------
\* parse_envelope accepts only what build_envelope makes, in one form only: an
\* accepted envelope is determined by the payload and the signature returned, so
\* no part of it is outside the signature and unchecked.
AcceptsOneForm ==
  step = "returned" =>
    /\ data = BuildEnvelope(envelope.payload, envelope.signature)
    /\ Len(envelope.signature) = SIGNATURE_LENGTH
=============================================================================

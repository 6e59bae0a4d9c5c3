---------------------------- MODULE EnvelopeProofs ----------------------------
(***************************************************************************)
(* parse_envelope accepts only what build_envelope makes, for inputs of    *)
(* any length and every decoder that returns what encodes to its input.    *)
(***************************************************************************)
EXTENDS CoseEnvelope, SequenceTheorems, TLAPS

\* The statements after which the content is known to be an array of four, its
\* first element the protected header, its second the empty map, and so on.
AfterArray       == { "protected", "unprotected", "payload", "signature", "returned" }
AfterProtected   == AfterArray \ { "protected" }
AfterUnprotected == AfterProtected \ { "unprotected" }
AfterPayload     == AfterUnprotected \ { "payload" }

\* What each statement has established for those after it.  The property itself
\* speaks of the last step only.
EnvelopeInv ==
  /\ data \in Inputs
  /\ step # "tag" /\ step # "raised" => data # << >> /\ data[1] = 210
  /\ step \in AfterArray \cup { "array" } =>
       value \in Values /\ Encoded(value) = Tail(data)
  /\ step \in AfterArray       => IsArrayOfFour(value)
  /\ step \in AfterProtected   => value[2][1] = << "bytes", PROTECTED_HEADER >>
  /\ step \in AfterUnprotected => value[2][2] = EmptyMap
  /\ step \in AfterPayload     => value[2][3][1] = "bytes"
  /\ step = "returned" =>
       /\ value[2][4][1] = "bytes"
       /\ Len(value[2][4][2]) = SIGNATURE_LENGTH
       /\ envelope = [ payload |-> value[2][3][2], signature |-> value[2][4][2] ]

----------------------------------------------------------------------------
(* The statements.                                                         *)

LEMMA InitEnvelope == Init => EnvelopeInv
BY DEF Init, EnvelopeInv, AfterArray, AfterProtected, AfterUnprotected, AfterPayload

\* A statement that refuses the input leaves nothing to show.
LEMMA RaisedEnvelope ==
  ASSUME data \in Inputs, step' = "raised", data' = data
  PROVE  EnvelopeInv'
BY DEF EnvelopeInv, AfterArray, AfterProtected, AfterUnprotected, AfterPayload

\* One that does not goes on to the next.
LEMMA Checked ==
  ASSUME NEW s, NEW verdict, NEW next, Check(s, verdict, next)
  PROVE  /\ step = s /\ data' = data /\ envelope' = envelope
         /\ (verdict = NoError /\ step' = next) \/ step' = "raised"
<1>1. step' = IF verdict = NoError THEN next ELSE "raised"
  BY DEF Check
<1>2. (verdict = NoError /\ step' = next) \/ step' = "raised"
  BY <1>1
<1>. QED
  BY <1>2 DEF Check

LEMMA TagKeepsEnvelope ==
  ASSUME EnvelopeInv, CheckOuterTag
  PROVE  EnvelopeInv'
<1>1. data \in Inputs /\ data' = data
  BY DEF EnvelopeInv, CheckOuterTag, Check
<1>2. CASE step' = "raised"
  BY <1>1, <1>2, RaisedEnvelope
<1>3. CASE step' = "decode" /\ OuterTagError(data) = NoError
  <2>1. data # << >> /\ data[1] = 210
    BY <1>3 DEF OuterTagError, NoError
  <2>. QED
    BY <1>1, <1>3, <2>1
    DEF EnvelopeInv, AfterArray, AfterProtected, AfterUnprotected, AfterPayload
<1>. QED
  BY <1>2, <1>3, Checked DEF CheckOuterTag

LEMMA DecodeKeepsEnvelope ==
  ASSUME EnvelopeInv, DecodeContent
  PROVE  EnvelopeInv'
<1>1. PICK decoded \in Decodings(Tail(data), MAX_DEPTH, MAX_MEMBERS) :
        Check("decode", decoded.error, "array") /\ value' = decoded.value
  BY DEF DecodeContent
<1>2. step = "decode" /\ data' = data
  BY <1>1, Checked
<1>3. data \in Inputs /\ data # << >> /\ data[1] = 210
  BY <1>2 DEF EnvelopeInv
<1>4. CASE step' = "raised"
  BY <1>2, <1>3, <1>4, RaisedEnvelope
<1>5. CASE step' = "array" /\ decoded.error = NoError
  <2>1. value' \in Values /\ Encoded(value') = Tail(data)
    BY <1>1, <1>3, <1>5, EnvelopeAssumption DEF EnvelopeAssumption
  <2>. QED
    BY <1>2, <1>3, <1>5, <2>1
    DEF EnvelopeInv, AfterArray, AfterProtected, AfterUnprotected, AfterPayload, Encoded
<1>. QED
  BY <1>1, <1>4, <1>5, Checked

LEMMA ArrayKeepsEnvelope ==
  ASSUME EnvelopeInv, RequireArray
  PROVE  EnvelopeInv'
<1>1. step = "array" /\ data' = data /\ value' = value
  BY DEF RequireArray, Check
<1>2. CASE step' = "raised"
  BY <1>1, <1>2, RaisedEnvelope DEF EnvelopeInv
<1>3. CASE step' = "protected" /\ Unless(IsArrayOfFour(value)) = NoError
  <2>1. IsArrayOfFour(value)
    BY <1>3 DEF Unless, NoError
  <2>. QED
    BY <1>1, <1>3, <2>1
    DEF EnvelopeInv, AfterArray, AfterProtected, AfterUnprotected, AfterPayload, Encoded,
        IsArrayOfFour
<1>. QED
  BY <1>2, <1>3, Checked DEF RequireArray

LEMMA ProtectedKeepsEnvelope ==
  ASSUME EnvelopeInv, CheckProtected
  PROVE  EnvelopeInv'
<1>1. PICK verdict \in ProtectedErrors(value[2][1]) :
        Check("protected", verdict, "unprotected") /\ value' = value
  BY DEF CheckProtected
<1>2. step = "protected" /\ data' = data
  BY <1>1, Checked
<1>3. CASE step' = "raised"
  BY <1>2, <1>3, RaisedEnvelope DEF EnvelopeInv
<1>4. CASE step' = "unprotected" /\ verdict = NoError
  <2>1. value[2][1] = << "bytes", PROTECTED_HEADER >>
    BY <1>1, <1>4 DEF ProtectedErrors, NoError
  <2>. QED
    BY <1>1, <1>2, <1>4, <2>1
    DEF EnvelopeInv, AfterArray, AfterProtected, AfterUnprotected, AfterPayload, Encoded,
        IsArrayOfFour
<1>. QED
  BY <1>1, <1>3, <1>4, Checked

LEMMA UnprotectedKeepsEnvelope ==
  ASSUME EnvelopeInv, CheckUnprotected
  PROVE  EnvelopeInv'
<1>1. step = "unprotected" /\ data' = data /\ value' = value
  BY DEF CheckUnprotected, Check
<1>2. CASE step' = "raised"
  BY <1>1, <1>2, RaisedEnvelope DEF EnvelopeInv
<1>3. CASE step' = "payload" /\ Unless(value[2][2] = EmptyMap) = NoError
  <2>1. value[2][2] = EmptyMap
    BY <1>3 DEF Unless, NoError
  <2>. QED
    BY <1>1, <1>3, <2>1
    DEF EnvelopeInv, AfterArray, AfterProtected, AfterUnprotected, AfterPayload, Encoded,
        IsArrayOfFour
<1>. QED
  BY <1>2, <1>3, Checked DEF CheckUnprotected

LEMMA PayloadKeepsEnvelope ==
  ASSUME EnvelopeInv, CheckPayload
  PROVE  EnvelopeInv'
<1>1. step = "payload" /\ data' = data /\ value' = value
  BY DEF CheckPayload, Check
<1>2. CASE step' = "raised"
  BY <1>1, <1>2, RaisedEnvelope DEF EnvelopeInv
<1>3. CASE step' = "signature" /\ Unless(value[2][3][1] = "bytes") = NoError
  <2>1. value[2][3][1] = "bytes"
    BY <1>3 DEF Unless, NoError
  <2>. QED
    BY <1>1, <1>3, <2>1
    DEF EnvelopeInv, AfterArray, AfterProtected, AfterUnprotected, AfterPayload, Encoded,
        IsArrayOfFour
<1>. QED
  BY <1>2, <1>3, Checked DEF CheckPayload

LEMMA SignatureKeepsEnvelope ==
  ASSUME EnvelopeInv, CheckSignatureAndReturn
  PROVE  EnvelopeInv'
<1>1. step = "signature" /\ data' = data /\ value' = value
  BY DEF CheckSignatureAndReturn
<1>. DEFINE signature == value[2][4]
            sound     == signature[1] = "bytes" /\ Len(signature[2]) = SIGNATURE_LENGTH
<1>2. CASE ~sound
  <2>1. step' = "raised"
    BY <1>2 DEF CheckSignatureAndReturn
  <2>. QED
    BY <1>1, <2>1, RaisedEnvelope DEF EnvelopeInv
<1>3. CASE sound
  <2>1. step' = "returned"
        /\ envelope' = [ payload |-> value[2][3][2], signature |-> signature[2] ]
    BY <1>3 DEF CheckSignatureAndReturn
  <2>. QED
    BY <1>1, <1>3, <2>1
    DEF EnvelopeInv, AfterArray, AfterProtected, AfterUnprotected, AfterPayload, Encoded,
        IsArrayOfFour
<1>. QED
  BY <1>2, <1>3

----------------------------------------------------------------------------
(* What is returned.                                                       *)

\* A value is a pair.
LEMMA ValueIsPair ==
  ASSUME NEW S, NEW v \in ValuesOf(S)
  PROVE  v = << v[1], v[2] >> /\ (v[1] = "array" => v[2] \in Seq(S))
BY DEF ValuesOf

\* An array of four with the elements that were asked for is the one that
\* build_envelope makes, and the bytes after the tag are its only encoding.
LEMMA ReturnsOneForm == EnvelopeInv => AcceptsOneForm
<1>. SUFFICES ASSUME EnvelopeInv, step = "returned"
     PROVE  /\ data = BuildEnvelope(envelope.payload, envelope.signature)
            /\ Len(envelope.signature) = SIGNATURE_LENGTH
  BY DEF AcceptsOneForm
<1>. DEFINE S        == ValuesOf(ValuesOf(ValuesOf({})))
            content  == value[2]
            elements == << << "bytes", PROTECTED_HEADER >>, EmptyMap,
                           << "bytes", envelope.payload >>,
                           << "bytes", envelope.signature >> >>
<1>1. /\ data \in Inputs /\ data # << >> /\ data[1] = 210
      /\ value \in Values /\ Encoded(value) = Tail(data)
      /\ IsArrayOfFour(value)
      /\ content[1] = << "bytes", PROTECTED_HEADER >>
      /\ content[2] = EmptyMap
      /\ content[3][1] = "bytes" /\ content[4][1] = "bytes"
      /\ Len(content[4][2]) = SIGNATURE_LENGTH
      /\ envelope = [ payload |-> content[3][2], signature |-> content[4][2] ]
  BY DEF EnvelopeInv, AfterArray, AfterProtected, AfterUnprotected, AfterPayload
<1>2. envelope.payload = content[3][2] /\ envelope.signature = content[4][2]
  BY <1>1
<1>3. value = << "array", content >> /\ content \in Seq(S) /\ Len(content) = 4
  BY <1>1, ValueIsPair DEF Values, IsArrayOfFour
<1>. HIDE DEF content, S
<1>4. content = << content[1], content[2], content[3], content[4] >>
  BY <1>3
<1>5. content[3] \in S /\ content[4] \in S
  BY <1>3, ElementOfSeq
<1>6. content[3] = << "bytes", envelope.payload >>
      /\ content[4] = << "bytes", envelope.signature >>
  BY <1>1, <1>2, <1>5, ValueIsPair DEF S
<1>7. content = elements
  BY <1>1, <1>4, <1>6
<1>8. data = << 210 >> \o Tail(data)
  BY <1>1, EnvelopeAssumption DEF EnvelopeAssumption
<1>9. BuildEnvelope(envelope.payload, envelope.signature)
        = << 210 >> \o Encoded(<< "array", elements >>)
  BY DEF BuildEnvelope
<1>. QED
  BY <1>1, <1>2, <1>3, <1>7, <1>8, <1>9

\* The invariant holds throughout every call of parse_envelope.
THEOREM EnvelopeInvariant == Spec => []EnvelopeInv
<1>1. EnvelopeInv /\ [Next]_vars => EnvelopeInv'
  <2>. SUFFICES ASSUME EnvelopeInv, [Next]_vars PROVE EnvelopeInv'
    OBVIOUS
  <2>1. CASE Next
    BY <2>1, TagKeepsEnvelope, DecodeKeepsEnvelope, ArrayKeepsEnvelope,
       ProtectedKeepsEnvelope, UnprotectedKeepsEnvelope, PayloadKeepsEnvelope,
       SignatureKeepsEnvelope
    DEF Next
  <2>2. CASE UNCHANGED vars
    BY <2>2 DEF vars, EnvelopeInv, AfterArray, AfterProtected, AfterUnprotected,
                AfterPayload, Encoded, IsArrayOfFour
  <2>. QED
    BY <2>1, <2>2
<1>. QED
  BY InitEnvelope, <1>1, PTL DEF Spec

\* An envelope that parse_envelope accepts is, byte for byte, the one that
\* build_envelope makes of the payload and the signature returned: no part of it
\* lies outside what the signature covers, whatever the input and its length.
THEOREM EnvelopeHasOneForm == Spec => []AcceptsOneForm
BY EnvelopeInvariant, ReturnsOneForm, PTL
=============================================================================

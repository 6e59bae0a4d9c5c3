------------------------------ MODULE CoseFaults ------------------------------
(***************************************************************************)
(* The whole envelope as one item of CBOR, and what is wrong with it.      *)
(***************************************************************************)
EXTENDS CoseEnvelope, CborReference

DecoderErrors == { "invalidCbor", "nonDeterministicCbor", "schemaViolation" }

\* The decoder as DetCborLayers shows it: it returns the value of an input that
\* passes every layer, and refuses any other with the code of a layer it fails.
ReferenceDecodings(d, max_depth, max_members) ==
  LET faults == IF WellFormed(d) THEN LayerFaults(d, max_depth, max_members)
                ELSE DecoderErrors
  IN IF faults = {} THEN { [ error |-> NoError, value |-> Term(d) ] }
     ELSE { [ error |-> code, value |-> None ] : code \in faults }

----------------------------------------------------------------------------
\* The profile of Section 6.2 on a term: what must be in the first element, and
\* what may be instead for the suite to be the fault.
IsHeaderOf(protected, algorithms) ==
  /\ protected[1] = "bytes"
  /\ WellFormed(protected[2])
  /\ \E algorithm \in algorithms :
       Term(protected[2]) = << "map", << Int1, algorithm >> >>
  /\ Encode(Term(protected[2])) = protected[2]

Integers(t) == { u \in Within(t) : IsInt(u) }

ElementFaults(t) ==
  LET protected == t[2][1]
      named     == IF protected[1] = "bytes" /\ WellFormed(protected[2])
                   THEN Integers(Term(protected[2])) ELSE {}
  IN
  (IF IsHeaderOf(protected, { SuiteEd25519 }) THEN {}
   ELSE IF IsHeaderOf(protected, named) THEN { "unsupportedSuite" }
   ELSE { "schemaViolation" })
  \cup
  (IF /\ t[2][2] = EmptyMap
      /\ t[2][3][1] = "bytes" /\ t[2][4][1] = "bytes"
      /\ Len(t[2][4][2]) = SIGNATURE_LENGTH
   THEN {} ELSE { "schemaViolation" })

TagFaults(d) ==
  IF d[1] \div 32 # 6 THEN { "schemaViolation" }
  ELSE IF ArgumentAt(d, 1).term # COSE_SIGN1_TAG THEN { "schemaViolation" }
  ELSE IF d[1] # 210 THEN { "nonDeterministicCbor" } ELSE {}

\* The codes of everything wrong with d.  An ill-formed one may also be refused for
\* what was read before its fault, but a tag head of no number holds nothing before.
Faults(d) ==
  IF ~WellFormed(d)
  THEN { "invalidCbor" }
         \cup (IF d = << >> \/ d[1] \in 220..223 THEN {} ELSE DecoderErrors)
  ELSE TagFaults(d)
         \cup (IF d[1] \div 32 # 6 THEN {}
               ELSE LET content == SubSeq(d, ArgumentAt(d, 1).end + 1, Len(d))
                        t       == Term(content)
                    IN LayerFaults(content, MAX_DEPTH, MAX_MEMBERS)
                         \cup IF t[1] = "array" /\ Len(t[2]) = 4 THEN ElementFaults(t)
                              ELSE { "schemaViolation" })

----------------------------------------------------------------------------
\* The code raised is that of something wrong with the envelope, taken as one item
\* of CBOR: with a single fault, its code, whichever of the four places of
\* cose.py or the two calls of the decoder comes upon it.
ReportsAFault == step = "raised" => error \in Faults(data)
==============================================================================

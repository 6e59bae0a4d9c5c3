-------------------------- MODULE MCVerificationData --------------------------
(***************************************************************************)
(* Inputs of verify_full_record: every combination of the identity fields  *)
(* over two authorities and a mixture of them, and the two valid records   *)
(* of authority A with up to two faults anywhere.  The horizon lies below  *)
(* every clock, one before the timestamp, on it, and one after; the clocks *)
(* lie around the future bound and the horizon.                            *)
(***************************************************************************)
EXTENDS VerificationRules

MCKeys == { "rootA", "revocationA", "rootB", "revocationB" }

A     == [ root |-> "rootA", commitment |-> "revocationA" ]
B     == [ root |-> "rootB", commitment |-> "revocationB" ]
Mixed == [ root |-> "rootA", commitment |-> "revocationB" ]

Did(digest)  == [ form |-> NoError, digest |-> digest ]
MCTargets    == { Did(A), Did(B), Did(Mixed),
                  [ form |-> "invalidDid", digest |-> A ],
                  [ form |-> "unsupportedHash", digest |-> A ] }

KeyObject(key) == [ schema |-> NoError, profile |-> TRUE, key |-> key ]

Envelope(id, digest, authority, revocationKey, signer, intact) ==
  [ size |-> MAX_RECORD_BYTES, profile |-> NoError, encoding |-> NoError,
    body |-> [ schema |-> NoError, id |-> id, timestamp_ms |-> 3,
               authority |-> authority,
               descriptor |-> [ schema |-> NoError, digest |-> digest ],
               revocationKey |-> revocationKey, validUntil_ms |-> NoHorizon,
               contact |-> NoError, extensions |-> Absent ],
    signer |-> signer, intact |-> intact ]

IdentityEnvelopes ==
  { Envelope(id, digest, authority, revocationKey, signer, intact) :
      id \in { Did(A), Did(B), Did(Mixed) }, digest \in { A, B, Mixed },
      authority \in { AUTHORITY_ROOT, AUTHORITY_ROOT_REVOKED },
      revocationKey \in { Absent, KeyObject("revocationA"), KeyObject("revocationB") },
      signer \in MCKeys, intact \in BOOLEAN }

ValidEnvelopes ==
  { Envelope(Did(A), A, AUTHORITY_ROOT, Absent, "rootA", TRUE),
    Envelope(Did(A), A, AUTHORITY_ROOT_REVOKED, KeyObject("revocationA"),
             "revocationA", TRUE) }

\* Every envelope that differs from e in one field a rule looks at.
Altered(e) ==
  { [ e EXCEPT !.size = @ + 1 ] }
  \cup { [ e EXCEPT !.profile = v ] :
           v \in { "invalidCbor", "nonDeterministicCbor", "unsupportedSuite" } }
  \cup { [ e EXCEPT !.encoding = v ] : v \in { "invalidCbor", "schemaViolation" } }
  \cup { [ e EXCEPT !.body.schema = "schemaViolation" ],
         [ e EXCEPT !.body.id = Did(B) ],
         [ e EXCEPT !.body.contact = "schemaViolation" ],
         [ e EXCEPT !.intact = FALSE ] }
  \cup { [ e EXCEPT !.body.descriptor.schema = v ] :
           v \in { "schemaViolation", "unsupportedSuite" } }
  \cup { [ e EXCEPT !.body.revocationKey = k ] :
           k \in { Absent, KeyObject("revocationB"),
                   [ KeyObject("revocationA") EXCEPT !.schema = "schemaViolation" ],
                   [ KeyObject("revocationA") EXCEPT !.profile = FALSE ] } }
  \cup { [ e EXCEPT !.body.extensions = v ] : v \in { NoError, "schemaViolation" } }
  \cup { [ e EXCEPT !.body.validUntil_ms = u ] : u \in {0} \cup 2..4 }

AlteredTwice == UNION { Altered(f) : f \in UNION { Altered(e) : e \in ValidEnvelopes } }

\* A comprehension, so that TLC enumerates the set once.
MCEnvelopes ==
  { e \in IdentityEnvelopes \cup ValidEnvelopes \cup AlteredTwice : TRUE }
=============================================================================

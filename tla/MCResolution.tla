----------------------------- MODULE MCResolution -----------------------------
(***************************************************************************)
(* Lists of records for authority A: what A's keys sign at times on both   *)
(* sides of the future bound, and what others could send in their place:   *)
(* an altered payload, the keys exchanged, another's revocation key, the   *)
(* records of B, one with a second fault.                                  *)
(***************************************************************************)
EXTENDS Resolution

CONSTANT MaxCandidates

MCKeys == { "rootA", "revocationA", "rootB", "revocationB" }

A == [ root |-> "rootA", commitment |-> "revocationA" ]
B == [ root |-> "rootB", commitment |-> "revocationB" ]
Did(digest) == [ form |-> NoError, digest |-> digest ]
MCTarget  == Did(A)
MCTargets == { Did(A), Did(B) }

KeyObject(key) == [ schema |-> NoError, profile |-> TRUE, key |-> key ]

Record(digest, time, revocationKey, signer) ==
  [ size |-> MAX_RECORD_BYTES, profile |-> NoError, encoding |-> NoError,
    body |-> [ schema |-> NoError, id |-> Did(digest), timestamp_ms |-> time,
               authority |-> IF revocationKey = Absent
                             THEN AUTHORITY_ROOT ELSE AUTHORITY_ROOT_REVOKED,
               descriptor |-> [ schema |-> NoError, digest |-> digest ],
               revocationKey |-> revocationKey, validUntil_ms |-> NoHorizon,
               contact |-> NoError, extensions |-> Absent ],
    signer |-> signer, intact |-> TRUE ]

\* Each with the number that stands for its body digest.
Catalogue ==
  { << "root", 20, Record(A, 2, Absent, "rootA") >>,
    << "rootAhead", 21, Record(A, 5, Absent, "rootA") >>,
    << "revoked", 30, Record(A, 2, KeyObject("revocationA"), "revocationA") >>,
    << "revokedAhead", 31, Record(A, 5, KeyObject("revocationA"), "revocationA") >>,
    << "altered", 22, [ Record(A, 3, Absent, "rootA") EXCEPT !.intact = FALSE ] >>,
    << "rootRevokes", 32, Record(A, 3, KeyObject("revocationA"), "rootA") >>,
    << "otherRevokes", 33, Record(A, 3, KeyObject("revocationB"), "revocationB") >>,
    << "revokerAsRoot", 23, Record(A, 3, Absent, "revocationA") >>,
    << "ofB", 24, [ Record(B, 3, Absent, "rootB") EXCEPT !.size = @ + 1 ] >> }

MCEnvelopes == { c[1] : c \in Catalogue }
MCDigests   == { c[2] : c \in Catalogue }
MCContents  == { c[3] : c \in Catalogue }

EntryOf(e)   == CHOOSE c \in Catalogue : c[1] = e
MCContent    == [ e \in MCEnvelopes |-> EntryOf(e)[3] ]
MCBodyDigest == [ e \in MCEnvelopes |-> EntryOf(e)[2] ]
BodyOf(d)    == (CHOOSE c \in Catalogue : c[2] = d)[3].body

MCTimestamp  == [ d \in MCDigests |-> BodyOf(d).timestamp_ms ]
MCAuthority  == [ d \in MCDigests |-> BodyOf(d).authority ]
MCValidUntil == [ d \in MCDigests |-> BodyOf(d).validUntil_ms ]

MCVerifyError ==
  [ e \in MCEnvelopes |->
      LET faults == V!Faults(MCTarget, MCContent[e]) IN
      IF faults = {} THEN NoError ELSE CHOOSE f \in faults : TRUE ]

MCCandidateLists == UNION { [1..n -> MCEnvelopes] : n \in 0..MaxCandidates }
=============================================================================

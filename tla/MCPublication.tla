---------------------------- MODULE MCPublication ----------------------------
(***************************************************************************)
(* A root body for every timestamp, and at timestamp 1 also a root-revoked *)
(* one and a second root one, so that ties in time occur; the order of     *)
(* digests is not that of timestamps.                                      *)
(***************************************************************************)
EXTENDS Publication

Body(timestamp, authority, tag) == 100 * tag + 10 * (UINT64_MAX - timestamp) + authority

MCBodies == { << t, AUTHORITY_ROOT, 0 >> : t \in Timestamps } \cup
            { << 1, AUTHORITY_ROOT, 1 >>, << 1, AUTHORITY_ROOT_REVOKED, 0 >> }

MCDigests == { Body(b[1], b[2], b[3]) : b \in MCBodies }
FieldsOf(d) == CHOOSE b \in MCBodies : d = Body(b[1], b[2], b[3])

MCVerifyError == [ d \in MCDigests |-> NoError ]
MCBodyDigest  == [ d \in MCDigests |-> d ]
MCTimestamp   == [ d \in MCDigests |-> FieldsOf(d)[1] ]
MCAuthority   == [ d \in MCDigests |-> FieldsOf(d)[2] ]
MCValidUntil  == [ d \in MCDigests |-> NoHorizon ]
MCClocks      == Timestamps
=============================================================================

------------------------------ MODULE MCRecords ------------------------------
(***************************************************************************)
(* The candidates of the model-checking runs.  With skew 1 and clocks 1    *)
(* and 3, timestamps 1 to 4 lie on both sides of the future bound and on   *)
(* it.  The digests 30 and 31 tie in time, digest 30 comes in two          *)
(* envelopes, and of the two revoked records one is stale at clock 3, the  *)
(* other premature at clock 1.                                             *)
(***************************************************************************)
EXTENDS Records

CONSTANT MaxCandidates

MCEnvelopes == { "root20", "root30", "root30again", "root31", "revoked50",
                 "revoked60", "broken" }
MCDigests   == { 20, 30, 31, 50, 60 }

MCVerifyError ==
  [ e \in MCEnvelopes |-> IF e = "broken" THEN "invalidSignature" ELSE NoError ]

MCBodyDigest ==
  [ e \in MCEnvelopes |->
      CASE e = "root20"                  -> 20
        [] e \in {"root30", "root30again", "broken"} -> 30
        [] e = "root31"                  -> 31
        [] e = "revoked50"               -> 50
        [] e = "revoked60"               -> 60 ]

MCTimestamp ==
  [ d \in MCDigests |-> CASE d = 20 -> 4 [] d \in {30, 31} -> 2
                          [] d = 50 -> 1 [] d = 60 -> 3 ]

MCAuthority ==
  [ d \in MCDigests |-> IF d \in {50, 60} THEN AUTHORITY_ROOT_REVOKED
                                          ELSE AUTHORITY_ROOT ]

MCValidUntil ==
  [ d \in MCDigests |-> CASE d = 50 -> 2 [] d = 31 -> 2 [] OTHER -> NoHorizon ]

MCCandidateLists == UNION { [1..n -> MCEnvelopes] : n \in 0..MaxCandidates }
=============================================================================

--------------------------- MODULE MCVerification ---------------------------
(***************************************************************************)
(* Verification on the inputs of MCVerificationData.                       *)
(***************************************************************************)
EXTENDS Verification, MCVerificationData
=============================================================================

------------------------- MODULE MCVerificationTwice ------------------------
(***************************************************************************)
(* VerificationTwice on the inputs of MCVerificationData.                  *)
(***************************************************************************)
EXTENDS VerificationTwice, MCVerificationData
=============================================================================

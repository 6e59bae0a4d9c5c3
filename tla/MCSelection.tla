------------------------------ MODULE MCSelection -----------------------------
(***************************************************************************)
(* Selection on every candidate list of up to MaxCandidates envelopes.     *)
(***************************************************************************)
EXTENDS Selection, MCRecords
=============================================================================

--------------------------- MODULE MCSelectionTwice ---------------------------
(***************************************************************************)
(* Every pair of lists of up to MaxCandidates envelopes with one range.    *)
(***************************************************************************)
EXTENDS SelectionTwice, MCRecords
=============================================================================

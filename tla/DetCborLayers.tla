---------------------------- MODULE DetCborLayers ----------------------------
(***************************************************************************)
(* The decoder against the layers of validation.                           *)
(***************************************************************************)
EXTENDS DetCbor, CborReference

\* decode accepts exactly the input that is well-formed and passes every layer,
\* and returns its value.
AcceptsExactlyTheProfile ==
  pc = "done" =>
    /\ verdict = "none" <=>
         /\ WellFormed(data)
         /\ LayerFaults(data, max_depth, max_members) = {}
    /\ verdict = "none" => value = Term(data)

\* A well-formed input that fails one layer is refused with that layer's code,
\* and one that fails several with the code of one of them: the decoder checks
\* all layers as it goes along, but never takes a fault for one of another kind.
ClassifiesByLayer ==
  pc = "done" /\ WellFormed(data) /\ verdict # "none" =>
    verdict \in LayerFaults(data, max_depth, max_members)
=============================================================================

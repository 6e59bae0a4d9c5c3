-------------------------- MODULE SelectionContract --------------------------
(***************************************************************************)
(* A call of select_current as its caller sees it: the arguments are fixed *)
(* and the result appears in one step.                                     *)
(***************************************************************************)
EXTENDS SelectionRules

CONSTANT NoResult  \* a call that has not returned

VARIABLES candidates, now, sticky, result

callVars == << candidates, now, sticky, result >>

CallInit ==
  /\ candidates \in Seq(Envelopes)
  /\ now \in Nat
  /\ sticky \in BOOLEAN
  /\ result = NoResult

Return ==
  /\ result = NoResult
  /\ result' = Select(candidates, now, sticky)
  /\ UNCHANGED << candidates, now, sticky >>

CallSpec == CallInit /\ [][Return]_callVars
=============================================================================

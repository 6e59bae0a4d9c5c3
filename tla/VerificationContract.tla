------------------------- MODULE VerificationContract -------------------------
(***************************************************************************)
(* A call of verify_full_record as its caller sees it.                     *)
(***************************************************************************)
EXTENDS VerificationRules

VARIABLES target, envelope, now, result

callVars == << target, envelope, now, result >>

CallInit ==
  /\ target \in TargetFields
  /\ envelope \in EnvelopeFields
  /\ now \in Nat
  /\ result = Absent

Return ==
  /\ result = Absent
  /\ result' \in Conforming(target, envelope, now)
  /\ UNCHANGED << target, envelope, now >>

CallSpec == CallInit /\ [][Return]_callVars
=============================================================================

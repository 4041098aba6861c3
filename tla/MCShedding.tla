----------------------------- MODULE MCShedding ------------------------------
(***************************************************************************)
(* Values for model-checking Shedding.                                     *)
(***************************************************************************)
EXTENDS Shedding

CONSTANTS b1, b2, e1, o1

OneBatch   == {b1}
Evaluations == {e1}
Outcomes   == {o1}
=============================================================================

------------------------------ MODULE MCLoadGen ------------------------------
(* Values for model-checking LoadGen: the session scenario, answered,      *)
(* refused or not answered at all.                                         *)
EXTENDS LoadGen

MCStatuses == {0, 200, 401}
=============================================================================

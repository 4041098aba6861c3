---------------------------- MODULE MCDecisions ------------------------------
(***************************************************************************)
(* Values for model-checking Decisions: two tenants, a file with both and  *)
(* one from which the first was removed and its secret given to the        *)
(* second, whose own speaks for nobody; a backend of each, and a session   *)
(* of the first.                                                           *)
(***************************************************************************)
EXTENDS Decisions, TLC

CONSTANTS l1, l2

MCLogin   == {l1, l2}
MCToken   == {"ta"}
MCOwner   == "ta" :> "a"
TenantA   == [id |-> "a", site |-> "pa", secret |-> "sa"]
TenantB   == [id |-> "b", site |-> "pb", secret |-> "sb"]
MCFiles   == {<<TenantA, TenantB>>, <<[TenantB EXCEPT !.secret = "sa"]>>}
MCSecret  == l1 :> "sa" @@ l2 :> "sb"
MCModes   == {"monitor", "enforce"}
=============================================================================

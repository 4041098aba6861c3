----------------------------- MODULE MCSessions ------------------------------
(***************************************************************************)
(* Values for model-checking Sessions.                                     *)
(***************************************************************************)
EXTENDS Sessions, TLC

CONSTANTS k1, k2, k3, t1, q1, q2

ThreeTenants == {k1, k2, k3}
OneToken     == {t1}
Handlers     == {q1, q2}

(* k1 and k2 differ only in a character sanitizeToken replaces ("a.b" and  *)
(* "a_b", say); k3 is like neither.                                        *)
MCKeyPart   == {"k12", "k3"}
MCSanitized == [k \in Tenant |-> IF k = k3 THEN "k3" ELSE "k12"]
=============================================================================

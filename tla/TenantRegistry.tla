--------------------------- MODULE TenantRegistry ----------------------------
(***************************************************************************)
(* libs/tenant: who a key speaks for.  A file is the sequence of tenants   *)
(* its JSON lists, a field left out reading as Blank; a registry is a file *)
(* that New accepted, fixed for the life of the process.                   *)
(***************************************************************************)
EXTENDS Integers, Sequences

CONSTANTS
  Blank,     \* a field that is empty, or not there
  Nobody     \* what a lookup returns when no tenant has the key

(* New, line by line: every field present, and no two entries with an id,  *)
(* a site key or a secret in common.                                       *)
Complete(t) == Blank \notin {t.id, t.site, t.secret}

Distinguishable(t, u) == t.id # u.id /\ t.site # u.site /\ t.secret # u.secret

Acceptable(file) ==
  /\ file # <<>>
  /\ \A i \in DOMAIN file : Complete(file[i])
  /\ \A i, j \in DOMAIN file : i # j => Distinguishable(file[i], file[j])

(* A registry as the program holds it: a file that New accepted.           *)
Registry(file) == file \in Seq({file[i] : i \in DOMAIN file}) /\ Acceptable(file)

(* Both lookups keep the last entry that matches, the map by overwriting,  *)
(* the scan by not stopping.                                               *)
BySiteKey(registry, key) ==
  LET hits == {i \in DOMAIN registry : registry[i].site = key}
  IN  IF hits = {} THEN Nobody
      ELSE registry[CHOOSE i \in hits : \A j \in hits : j <= i].id

BySecretKey(registry, key) ==
  LET hits == {i \in DOMAIN registry : registry[i].secret = key}
  IN  IF hits = {} THEN Nobody
      ELSE registry[CHOOSE i \in hits : \A j \in hits : j <= i].id

(* Ids and site keys, sorted and hashed; never the secrets. *)
Fingerprint(registry) == {<<registry[i].id, registry[i].site>> : i \in DOMAIN registry}
=============================================================================

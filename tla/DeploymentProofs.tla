-------------------------- MODULE DeploymentProofs ---------------------------
(***************************************************************************)
(* Proofs about Deployment for any number of builds, limits, TTLs and      *)
(* files, any registries the operator may write, and any budget of         *)
(* upgrades and faults.                                                    *)
(***************************************************************************)
EXTENDS Deployment, TLAPS

-----------------------------------------------------------------------------
(* Registries, of any length. *)

(* Among indices of a sequence, the last that matches is the only one      *)
(* when only one matches.                                                  *)
LEMMA OnlyHit ==
  ASSUME NEW n \in Nat, NEW i \in 1 .. n, NEW hits, hits = {i}
  PROVE  (CHOOSE k \in hits : \A j \in hits : j <= k) = i
<1>1. i \in hits /\ \A j \in hits : j <= i
  OBVIOUS
<1>2. (CHOOSE k \in hits : \A j \in hits : j <= k) \in hits
  BY <1>1
<1> QED
  BY <1>2

LEMMA Indices ==
  ASSUME NEW f, Registry(f)
  PROVE  /\ Len(f) \in Nat /\ DOMAIN f = 1 .. Len(f)
         /\ \A i, j \in DOMAIN f : i # j => Distinguishable(f[i], f[j])
BY DEF Registry, Acceptable

(* BySiteKey: the site key of an entry finds that entry, whichever others  *)
(* the file lists.                                                         *)
LEMMA SiteKeyFinds ==
  ASSUME NEW f, Registry(f), NEW i \in DOMAIN f
  PROVE  BySiteKey(f, f[i].site) = f[i].id
<1> DEFINE hits == {j \in DOMAIN f : f[j].site = f[i].site}
<1>1. hits = {i}
  BY Indices DEF Distinguishable
<1>2. (CHOOSE k \in hits : \A j \in hits : j <= k) = i
  <2> HIDE DEF hits
  <2> QED
    BY <1>1, OnlyHit, Indices
<1> QED
  BY <1>1, <1>2 DEF BySiteKey

(* A key nobody lists finds nobody. *)
LEMMA NoSiteKey ==
  ASSUME NEW f, NEW key, \A i \in DOMAIN f : f[i].site # key
  PROVE  BySiteKey(f, key) = Nobody
BY DEF BySiteKey

(* Fingerprint: when the fingerprints two processes log are equal, every   *)
(* site key there could be is the same tenant to both, although the files  *)
(* may list the tenants in another order and with other secrets.           *)
THEOREM FingerprintDecides ==
  ASSUME NEW f, Registry(f), NEW g, Registry(g), Fingerprint(f) = Fingerprint(g),
         NEW key
  PROVE  BySiteKey(f, key) = BySiteKey(g, key)
<1>1. ASSUME NEW a, Registry(a), NEW b, Registry(b), Fingerprint(a) = Fingerprint(b),
             NEW i \in DOMAIN a, a[i].site = key
      PROVE  BySiteKey(a, key) = BySiteKey(b, key)
  <2>1. <<a[i].id, a[i].site>> \in Fingerprint(b)
    BY <1>1 DEF Fingerprint
  <2>2. PICK j \in DOMAIN b : <<a[i].id, a[i].site>> = <<b[j].id, b[j].site>>
    BY <2>1 DEF Fingerprint
  <2>3. BySiteKey(a, key) = a[i].id /\ BySiteKey(b, key) = b[j].id
    BY <1>1, <2>2, SiteKeyFinds
  <2> QED
    BY <2>2, <2>3
<1>2. CASE \E i \in DOMAIN f : f[i].site = key
  BY <1>1, <1>2
<1>3. CASE \E i \in DOMAIN g : g[i].site = key
  BY <1>1, <1>3
<1>4. CASE /\ \A i \in DOMAIN f : f[i].site # key
           /\ \A i \in DOMAIN g : g[i].site # key
  BY <1>4, NoSiteKey
<1> QED
  BY <1>2, <1>3, <1>4

-----------------------------------------------------------------------------
USE DEF Service, Reader, Serves

(* What the broker holds against what each process knows of it: from the   *)
(* declaration to the next start, the collector's own; for a reader that   *)
(* checked after it, the reader's own.                                     *)
Declared ==
  /\ pc["collector"] \in {"declaring bucket", "looking for the archive", "serving"} =>
       stream = limits["collector"]
  /\ pc["collector"] \in {"looking for the archive", "serving"} =>
       bucket = ttl["collector"]

Checked ==
  /\ \A r \in Reader \cap current :
       pc[r] \in {"binding", "opening bucket", "serving"} => stream = limits[r]
  /\ "engine" \in current /\ pc["engine"] = "serving" => bucket = ttl["engine"]

(* A process past its first step has read a registry New accepted. *)
Loaded ==
  \A s \in Serves : pc[s] # "down" => registry[s] \in Files /\ Acceptable(registry[s])

IInv == TypeOK /\ Declared /\ Checked /\ Loaded

-----------------------------------------------------------------------------
LEMMA Bounds ==
  FirstLimits \in Limits /\ MaxUpgrades \in Nat /\ MaxFaults \in Nat
BY DeploymentAssumption

LEMMA Counting ==
  ASSUME NEW m \in Nat, NEW n \in 0 .. m, n < m
  PROVE  n + 1 \in 0 .. m
OBVIOUS

LEMMA InitIInv == Init => IInv
<1> SUFFICES ASSUME Init PROVE IInv
  OBVIOUS
<1>1. 0 \in 0 .. MaxUpgrades /\ 0 \in 0 .. MaxFaults
  BY Bounds
<1>2. PICK t \in TTLs, f \in Files :
        ttl = [s \in Serves |-> t] /\ file = [s \in Serves |-> f]
  BY DEF Init
<1>3. ttl \in [Serves -> TTLs] /\ file \in [Serves -> Files]
  BY <1>2
<1>4. TypeOK
  BY Bounds, <1>1, <1>3 DEF Init, TypeOK, Places
<1> QED
  BY <1>4 DEF Init, IInv, Declared, Checked, Loaded

LEMMA StepType ==
  ASSUME TypeOK, [Next]_vars
  PROVE  TypeOK'
<1> USE DEF TypeOK, Places, At, brokerVars, configVars, processVars, boundVars
<1>1. ASSUME NEW s \in Service, Starts(s)  PROVE TypeOK'
  <2>1. CASE LoadTenants(s)
    BY <2>1 DEF LoadTenants, Goes
  <2>2. CASE s = "archive" /\ OpenSubstrate
    BY <2>2 DEF OpenSubstrate, Goes
  <2>3. CASE Connect(s)
    BY <2>3 DEF Connect, Goes
  <2>4. CASE OpenStream(s)
    BY <2>4 DEF OpenStream, Goes
  <2>5. CASE s = "collector" /\ EnsureStream
    BY <2>5 DEF EnsureStream, Goes
  <2>6. CASE s = "collector" /\ EnsureSessions
    BY <2>6 DEF EnsureSessions, Goes
  <2>7. CASE s = "collector" /\ WatchArchive
    BY <2>7 DEF WatchArchive, Goes
  <2>8. CASE s = "engine" /\ OpenSessions
    BY <2>8 DEF OpenSessions, Goes
  <2>9. CASE s = "archive" /\ CreateDurable
    BY <2>9 DEF CreateDurable, Goes
  <2> QED
    BY <1>1, <2>1, <2>2, <2>3, <2>4, <2>5, <2>6, <2>7, <2>8, <2>9 DEF Starts
<1>2. ASSUME NEW s \in Service, Exits(s)  PROVE TypeOK'
  <2>0. faults' \in 0 .. MaxFaults
    BY <1>2, Bounds, Counting DEF Exits
  <2>1. pc' \in [Service -> Places]
    BY <1>2 DEF Exits, Goes
  <2>2. /\ registry' \in [Serves -> Files \cup {<<>>}] /\ watching' \in BOOLEAN
        /\ link' \in BOOLEAN /\ limits' \in [Service -> Limits] /\ ttl' \in [Serves -> TTLs]
        /\ file' \in [Serves -> Files] /\ upgrades' \in 0 .. MaxUpgrades
    BY <1>2 DEF Exits
  <2>3. /\ stream' \in Limits \cup {Absent} /\ bucket' \in TTLs \cup {Absent}
        /\ durable' \in BOOLEAN /\ current' \subseteq Reader
    BY <1>2 DEF Exits
  <2> QED
    BY <2>0, <2>1, <2>2, <2>3
<1>3. ASSUME NEW s \in Service, NoBroker(s)  PROVE TypeOK'
  BY <1>3 DEF NoBroker, Goes
<1>4. ASSUME NEW s \in Service, Upgrade(s)  PROVE TypeOK'
  <2>0. upgrades' \in 0 .. MaxUpgrades
    BY <1>4, Bounds, Counting DEF Upgrade
  <2>1. pc' \in [Service -> Places]
    BY <1>4 DEF Upgrade, Goes
  <2>2. limits' \in [Service -> Limits] /\ ttl' \in [Serves -> TTLs]
    <3>1. CASE \E l \in Limits \ {limits[s]} :
                 limits' = [limits EXCEPT ![s] = l] /\ ttl' = ttl
      <4>1. PICK l \in Limits : limits' = [limits EXCEPT ![s] = l]
        BY <3>1
      <4>2. limits \in [Service -> Limits] /\ ttl \in [Serves -> TTLs] /\ ttl' = ttl
        BY <3>1
      <4> QED
        BY <4>1, <4>2
    <3>2. CASE s \in Serves /\ \E t \in TTLs \ {ttl[s]} :
                 ttl' = [ttl EXCEPT ![s] = t] /\ limits' = limits
      <4>1. PICK t \in TTLs : ttl' = [ttl EXCEPT ![s] = t]
        BY <3>2
      <4>2. limits \in [Service -> Limits] /\ ttl \in [Serves -> TTLs] /\ limits' = limits
        BY <3>2
      <4> QED
        BY <4>1, <4>2
    <3> QED
      BY <1>4, <3>1, <3>2 DEF Upgrade
  <2>3. registry' \in [Serves -> Files \cup {<<>>}] /\ watching' \in BOOLEAN
    BY <1>4 DEF Upgrade
  <2> QED
    BY <1>4, <2>0, <2>1, <2>2, <2>3 DEF Upgrade
<1>5. ASSUME NEW s \in Service, EditFile(s)  PROVE TypeOK'
  <2>1. upgrades' \in 0 .. MaxUpgrades
    BY <1>5, Bounds, Counting DEF EditFile
  <2>2. file' \in [Serves -> Files]
    BY <1>5 DEF EditFile
  <2> QED
    BY <1>5, <2>1, <2>2 DEF EditFile
<1>6. CASE LinkBreaks
  <2>1. faults' \in 0 .. MaxFaults
    BY <1>6, Bounds, Counting DEF LinkBreaks
  <2> QED
    BY <1>6, <2>1 DEF LinkBreaks
<1>7. CASE LinkMends
  BY <1>7 DEF LinkMends
<1>8. CASE Quiet \/ UNCHANGED vars
  BY <1>8 DEF Quiet, vars
<1> QED
  BY <1>1, <1>2, <1>3, <1>4, <1>5, <1>6, <1>7, <1>8 DEF Next

LEMMA StepBroker ==
  ASSUME TypeOK, Declared, Checked, [Next]_vars
  PROVE  Declared' /\ Checked'
<1> USE DEF TypeOK, Declared, Checked, At, Goes, brokerVars, configVars, processVars, boundVars
<1>1. ASSUME NEW s \in Service, Starts(s)  PROVE Declared' /\ Checked'
  <2>1. CASE LoadTenants(s)
    BY <2>1 DEF LoadTenants
  <2>2. CASE s = "archive" /\ OpenSubstrate
    BY <2>2 DEF OpenSubstrate
  <2>3. CASE Connect(s)
    BY <2>3 DEF Connect
  <2>4. CASE OpenStream(s)
    BY <2>4 DEF OpenStream
  <2>5. CASE s = "collector" /\ EnsureStream
    BY <2>5 DEF EnsureStream
  <2>6. CASE s = "collector" /\ EnsureSessions
    BY <2>6 DEF EnsureSessions
  <2>7. CASE s = "collector" /\ WatchArchive
    BY <2>7 DEF WatchArchive
  <2>8. CASE s = "engine" /\ OpenSessions
    BY <2>8 DEF OpenSessions
  <2>9. CASE s = "archive" /\ CreateDurable
    BY <2>9 DEF CreateDurable
  <2> QED
    BY <1>1, <2>1, <2>2, <2>3, <2>4, <2>5, <2>6, <2>7, <2>8, <2>9 DEF Starts
<1>2. ASSUME NEW s \in Service, Exits(s)  PROVE Declared' /\ Checked'
  BY <1>2 DEF Exits
<1>3. ASSUME NEW s \in Service, NoBroker(s)  PROVE Declared' /\ Checked'
  BY <1>3 DEF NoBroker
<1>4. ASSUME NEW s \in Service, Upgrade(s)  PROVE Declared' /\ Checked'
  BY <1>4 DEF Upgrade
<1>5. ASSUME NEW s \in Service, EditFile(s)  PROVE Declared' /\ Checked'
  BY <1>5 DEF EditFile
<1>6. CASE LinkBreaks
  BY <1>6 DEF LinkBreaks
<1>7. CASE LinkMends
  BY <1>7 DEF LinkMends
<1>8. CASE Quiet \/ UNCHANGED vars
  BY <1>8 DEF Quiet, vars
<1> QED
  BY <1>1, <1>2, <1>3, <1>4, <1>5, <1>6, <1>7, <1>8 DEF Next

LEMMA StepLoaded ==
  ASSUME TypeOK, Loaded, [Next]_vars
  PROVE  Loaded'
<1> USE DEF TypeOK, Loaded, At, Goes, brokerVars, configVars, processVars, boundVars
<1>1. ASSUME NEW s \in Service, Starts(s)  PROVE Loaded'
  <2>1. CASE LoadTenants(s)
    BY <2>1 DEF LoadTenants
  <2>2. CASE ~ LoadTenants(s)
    <3>1. registry' = registry
      BY <1>1, <2>2 DEF Starts, OpenSubstrate, Connect, OpenStream, EnsureStream,
                        EnsureSessions, WatchArchive, OpenSessions, CreateDurable
    <3>2. \A r \in Serves : pc'[r] # "down" => pc[r] # "down"
      BY <1>1, <2>2 DEF Starts, OpenSubstrate, Connect, OpenStream, EnsureStream,
                        EnsureSessions, WatchArchive, OpenSessions, CreateDurable
    <3> QED
      BY <3>1, <3>2
  <2> QED
    BY <2>1, <2>2
<1>2. ASSUME NEW s \in Service, Exits(s)  PROVE Loaded'
  BY <1>2 DEF Exits
<1>3. ASSUME NEW s \in Service, NoBroker(s)  PROVE Loaded'
  BY <1>3 DEF NoBroker
<1>4. ASSUME NEW s \in Service, Upgrade(s)  PROVE Loaded'
  BY <1>4 DEF Upgrade
<1>5. ASSUME NEW s \in Service, EditFile(s)  PROVE Loaded'
  BY <1>5 DEF EditFile
<1>6. CASE LinkBreaks
  BY <1>6 DEF LinkBreaks
<1>7. CASE LinkMends
  BY <1>7 DEF LinkMends
<1>8. CASE Quiet \/ UNCHANGED vars
  BY <1>8 DEF Quiet, vars
<1> QED
  BY <1>1, <1>2, <1>3, <1>4, <1>5, <1>6, <1>7, <1>8 DEF Next

LEMMA IInvInvariant == Spec => []IInv
<1>1. IInv /\ [Next]_vars => IInv'
  BY StepType, StepBroker, StepLoaded DEF IInv
<1> QED
  BY InitIInv, <1>1, PTL DEF Spec

-----------------------------------------------------------------------------
(* EnsureStream and EnsureSessions are the only declarations there are: a  *)
(* collector that serves finds at the broker exactly what it declared, for *)
(* any number of builds and in any order of starts (jetstream.go 95-110).  *)
THEOREM CollectorOwns == Spec => []CollectorOwnsTheStream
<1>1. IInv => CollectorOwnsTheStream
  BY DEF IInv, Declared, CollectorOwnsTheStream, At
<1> QED
  BY <1>1, IInvInvariant, PTL

(* OpenStream and OpenSessions: a reader serving beside the collector that *)
(* checked after its last declaration was built for the same stream.       *)
THEOREM ReadersAgree == Spec => []ReadersAgreeWithTheCollector
<1>1. IInv => ReadersAgreeWithTheCollector
  BY DEF IInv, Declared, Checked, ReadersAgreeWithTheCollector, At
<1> QED
  BY <1>1, IInvInvariant, PTL

(* Fingerprint: two processes that log the same one agree about every key, *)
(* although each read a file of its own at a moment of its own.            *)
THEOREM FingerprintsAreEnough == Spec => []FingerprintsTell
<1>1. IInv => FingerprintsTell
  <2> SUFFICES ASSUME IInv, \A s \in Serves : At(s, "serving"),
                      Fingerprint(registry["collector"]) = Fingerprint(registry["engine"])
               PROVE  \A f \in Files : \A i \in DOMAIN f :
                        BySiteKey(registry["collector"], f[i].site)
                          = BySiteKey(registry["engine"], f[i].site)
    BY DEF FingerprintsTell
  <2>1. \A s \in Serves : Registry(registry[s])
    BY DeploymentAssumption DEF IInv, Loaded, At, Registry
  <2> QED
    BY <2>1, FingerprintDecides
<1> QED
  BY <1>1, IInvInvariant, PTL
=============================================================================

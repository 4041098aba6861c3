----------------------------- MODULE Deployment ------------------------------
(***************************************************************************)
(* How the services come up around one broker: who declares the stream,    *)
(* the snapshot bucket and the durable consumer, who only binds to them,   *)
(* and which registry of tenants each process ends up serving.             *)
(*                                                                         *)
(* A start is a sequence of calls to the broker, each of which may fail;   *)
(* the process then exits and its supervisor starts it again (compose.yml: *)
(* restart: unless-stopped).  compose's depends_on orders the first start  *)
(* only, so any order is possible here.  What the broker holds is on a     *)
(* volume and survives everybody.  Limits stand for max_age and max_bytes, *)
(* which are constants of a build; the TTL is a flag; the registry is a    *)
(* file, read once.                                                        *)
(***************************************************************************)
EXTENDS TenantRegistry, FiniteSets

CONSTANTS
  Limits,       \* stream limits a build may have compiled in
  FirstLimits,  \* those of the first build
  TTLs,         \* values of -session-ttl
  Files,        \* registries the operator may write
  Absent,       \* nothing declared yet
  MaxUpgrades,  \* bound: builds, flags or files changed
  MaxFaults     \* bound: calls that fail, processes that stop, broker outages

Service == {"collector", "archive", "engine"}
Reader  == {"archive", "engine"}
Serves  == {"collector", "engine"}    \* those with a registry

ASSUME DeploymentAssumption ==
  /\ Absent \notin Limits \cup TTLs
  /\ FirstLimits \in Limits
  /\ \A f \in Files : f \in Seq({f[i] : i \in DOMAIN f})
  /\ MaxUpgrades \in Nat /\ MaxFaults \in Nat

VARIABLES
  stream,    \* limits of the stream at the broker, or Absent
  bucket,    \* TTL of the snapshot bucket, or Absent
  durable,   \* the archive's consumer exists
  link,      \* the broker answers
  limits,    \* limits in each service's build
  ttl,       \* -session-ttl of the collector and the engine
  file,      \* the tenants file each of the two would read
  pc,        \* where each process is in its start
  registry,  \* what it read from the file
  watching,  \* the collector's WatchArchive found the durable
  current,   \* history: readers that checked after the collector's last declaration
  upgrades, faults

brokerVars  == <<stream, bucket, durable>>
configVars  == <<limits, ttl, file>>
processVars == <<pc, registry, watching>>
boundVars   == <<upgrades, faults>>
vars        == <<brokerVars, link, configVars, processVars, current, boundVars>>

-----------------------------------------------------------------------------
Init ==
  /\ stream = Absent /\ bucket = Absent /\ durable = FALSE
  /\ link = TRUE
  /\ limits = [s \in Service |-> FirstLimits]
  /\ \E t \in TTLs, f \in Files :
       /\ ttl = [s \in Serves |-> t]
       /\ file = [s \in Serves |-> f]
  /\ pc = [s \in Service |-> "down"]
  /\ registry = [s \in Serves |-> <<>>]
  /\ watching = FALSE
  /\ current = {}
  /\ upgrades = 0 /\ faults = 0

At(s, place) == pc[s] = place

Goes(s, place) == pc' = [pc EXCEPT ![s] = place]

(* The collector before its broker calls, and the engine: flags, the       *)
(* calibration, the registry.  A file New refuses ends the process.        *)
LoadTenants(s) ==
  /\ s \in Serves /\ At(s, "down")
  /\ Acceptable(file[s])
  /\ registry' = [registry EXCEPT ![s] = file[s]]
  /\ Goes(s, "connecting")
  /\ UNCHANGED <<brokerVars, link, configVars, watching, current, boundVars>>

(* The archive opens its substrate first. *)
OpenSubstrate ==
  /\ At("archive", "down")
  /\ Goes("archive", "connecting")
  /\ UNCHANGED <<brokerVars, link, configVars, registry, watching, current, boundVars>>

(* Connect. *)
Connect(s) ==
  /\ At(s, "connecting") /\ link
  /\ Goes(s, IF s = "collector" THEN "declaring" ELSE "opening")
  /\ UNCHANGED <<brokerVars, link, configVars, registry, watching, current, boundVars>>

-----------------------------------------------------------------------------
(* EnsureStream, the writer's: whatever was there has this build's limits  *)
(* afterwards.                                                             *)
EnsureStream ==
  /\ At("collector", "declaring") /\ link
  /\ stream' = limits["collector"]
  /\ current' = {}
  /\ Goes("collector", "declaring bucket")
  /\ UNCHANGED <<bucket, durable, link, configVars, registry, watching, boundVars>>

(* Mutant of EnsureSessions: an existing bucket is left as it is. *)
CreateSessionsOnly ==
  /\ At("collector", "declaring bucket") /\ link
  /\ bucket' = IF bucket = Absent THEN ttl["collector"] ELSE bucket
  /\ current' = current \ {"engine"}
  /\ Goes("collector", "looking for the archive")
  /\ UNCHANGED <<stream, durable, link, configVars, registry, watching, boundVars>>

(* EnsureSessions. *)
EnsureSessions ==
  /\ At("collector", "declaring bucket") /\ link
  /\ bucket' = ttl["collector"]
  /\ current' = current \ {"engine"}
  /\ Goes("collector", "looking for the archive")
  /\ UNCHANGED <<stream, durable, link, configVars, registry, watching, boundVars>>

(* WatchArchive binds to a durable that exists and creates none; without   *)
(* it the collector serves all the same, and never looks again.            *)
WatchArchive ==
  /\ At("collector", "looking for the archive")
  /\ watching' = (link /\ durable)
  /\ Goes("collector", "serving")
  /\ UNCHANGED <<brokerVars, link, configVars, registry, current, boundVars>>

(* Mutant of OpenStream: readers declare too, as all three services once   *)
(* did.                                                                    *)
RewriteStream(s) ==
  /\ s \in Reader /\ At(s, "opening") /\ link
  /\ stream' = limits[s]
  /\ Goes(s, IF s = "archive" THEN "binding" ELSE "opening bucket")
  /\ current' = IF s = "archive" THEN current \cup {s} ELSE current
  /\ UNCHANGED <<bucket, durable, link, configVars, registry, watching, boundVars>>

(* OpenStream, the readers': limits that are not this build's end the      *)
(* process.                                                                *)
OpenStream(s) ==
  /\ s \in Reader /\ At(s, "opening") /\ link
  /\ IF stream = limits[s]
     THEN /\ Goes(s, IF s = "archive" THEN "binding" ELSE "opening bucket")
          /\ current' = current \cup {s}
     ELSE /\ Goes(s, "down")
          /\ UNCHANGED current
  /\ UNCHANGED <<brokerVars, link, configVars, registry, watching, boundVars>>

(* Mutant of OpenSessions: any bucket will do. *)
OpenAnySessions ==
  /\ At("engine", "opening bucket") /\ link
  /\ Goes("engine", IF bucket # Absent THEN "serving" ELSE "down")
  /\ UNCHANGED <<brokerVars, link, configVars, registry, watching, current, boundVars>>

(* OpenSessions, the engine's. *)
OpenSessions ==
  /\ At("engine", "opening bucket") /\ link
  /\ Goes("engine", IF bucket = ttl["engine"] THEN "serving" ELSE "down")
  /\ UNCHANGED <<brokerVars, link, configVars, registry, watching, current, boundVars>>

(* Consume: the archive creates its durable, or finds it with its place.   *)
CreateDurable ==
  /\ At("archive", "binding") /\ link
  /\ durable' = TRUE
  /\ Goes("archive", "serving")
  /\ UNCHANGED <<stream, bucket, link, configVars, registry, watching, current, boundVars>>

-----------------------------------------------------------------------------
(* A call that fails, or a process that stops.  A declaration that timed   *)
(* out may have been carried out all the same.                             *)
Exits(s) ==
  /\ faults < MaxFaults /\ pc[s] # "down"
  /\ faults' = faults + 1
  /\ Goes(s, "down")
  /\ registry' = IF s \in Serves THEN [registry EXCEPT ![s] = <<>>] ELSE registry
  /\ watching' = (watching /\ s # "collector")
  /\ \/ UNCHANGED <<brokerVars, current>>
     \/ /\ s = "collector" /\ pc[s] = "declaring" /\ link
        /\ stream' = limits[s] /\ current' = {}
        /\ UNCHANGED <<bucket, durable>>
     \/ /\ s = "collector" /\ pc[s] = "declaring bucket" /\ link
        /\ bucket' = ttl[s] /\ current' = current \ {"engine"}
        /\ UNCHANGED <<stream, durable>>
     \/ /\ s = "archive" /\ pc[s] = "binding" /\ link
        /\ durable' = TRUE
        /\ UNCHANGED <<stream, bucket, current>>
  /\ UNCHANGED <<link, configVars, upgrades>>

(* A process that is starting and finds no broker exits, too; connections  *)
(* already made are kept and made again (Connect's options).               *)
NoBroker(s) ==
  /\ ~ link /\ pc[s] \notin {"down", "serving", "looking for the archive"}
  /\ Goes(s, "down")
  /\ UNCHANGED <<brokerVars, link, configVars, registry, watching, current, boundVars>>

LinkBreaks ==
  /\ link /\ faults < MaxFaults
  /\ link' = FALSE /\ faults' = faults + 1
  /\ UNCHANGED <<brokerVars, configVars, processVars, current, upgrades>>

LinkMends ==
  /\ ~ link
  /\ link' = TRUE
  /\ UNCHANGED <<brokerVars, configVars, processVars, current, boundVars>>

(* A new build or new flags: the process is replaced.                      *)
Upgrade(s) ==
  /\ upgrades < MaxUpgrades
  /\ upgrades' = upgrades + 1
  /\ \/ \E l \in Limits \ {limits[s]} :
          limits' = [limits EXCEPT ![s] = l] /\ ttl' = ttl
     \/ s \in Serves /\ \E t \in TTLs \ {ttl[s]} :
          ttl' = [ttl EXCEPT ![s] = t] /\ limits' = limits
  /\ Goes(s, "down")
  /\ registry' = IF s \in Serves THEN [registry EXCEPT ![s] = <<>>] ELSE registry
  /\ watching' = (watching /\ s # "collector")
  /\ UNCHANGED <<brokerVars, link, file, current, faults>>

(* A file is edited under a running process, which does not read it again. *)
EditFile(s) ==
  /\ s \in Serves /\ upgrades < MaxUpgrades
  /\ upgrades' = upgrades + 1
  /\ \E f \in Files \ {file[s]} : file' = [file EXCEPT ![s] = f]
  /\ UNCHANGED <<brokerVars, link, limits, ttl, processVars, current, faults>>

Starts(s) ==
  \/ LoadTenants(s) \/ (s = "archive" /\ OpenSubstrate)
  \/ Connect(s) \/ OpenStream(s)
  \/ s = "collector" /\ (EnsureStream \/ EnsureSessions \/ WatchArchive)
  \/ s = "engine" /\ OpenSessions
  \/ s = "archive" /\ CreateDurable

(* Everybody serves, or waits for an operator. *)
Quiet ==
  /\ \A s \in Service : At(s, "serving") \/ (s \in Serves /\ At(s, "down") /\ ~ Acceptable(file[s]))
  /\ UNCHANGED vars

Next ==
  \/ \E s \in Service : Starts(s) \/ Exits(s) \/ NoBroker(s) \/ Upgrade(s) \/ EditFile(s)
  \/ LinkBreaks \/ LinkMends \/ Quiet

Spec == Init /\ [][Next]_vars

(* The supervisor keeps starting what is down, and outages end.            *)
Fairness == (\A s \in Service : WF_vars(Starts(s))) /\ WF_vars(LinkMends)

FairSpec == Spec /\ Fairness

-----------------------------------------------------------------------------
Places == {"down", "connecting", "declaring", "declaring bucket",
           "looking for the archive", "opening", "opening bucket", "binding", "serving"}

TypeOK ==
  /\ stream \in Limits \cup {Absent} /\ bucket \in TTLs \cup {Absent}
  /\ durable \in BOOLEAN /\ link \in BOOLEAN /\ watching \in BOOLEAN
  /\ limits \in [Service -> Limits] /\ ttl \in [Serves -> TTLs]
  /\ file \in [Serves -> Files]
  /\ pc \in [Service -> Places]
  /\ registry \in [Serves -> Files \cup {<<>>}]
  /\ current \subseteq Reader
  /\ upgrades \in 0 .. MaxUpgrades /\ faults \in 0 .. MaxFaults

(* While the collector serves, the broker holds the limits and the TTL of  *)
(* the collector's build, whoever else started, stopped or was replaced in *)
(* the meantime: the level it sheds by divides by its own MaxAge, and a    *)
(* snapshot lives as long as its own sessions (jetstream.go 95-110).       *)
CollectorOwnsTheStream ==
  At("collector", "serving") =>
    stream = limits["collector"] /\ bucket = ttl["collector"]

(* A reader that serves, and checked after the collector last declared,    *)
(* agrees with the collector that serves beside it: a build that would     *)
(* read by other limits never gets that far.  One that was already running *)
(* when the collector changed is not told.                                 *)
ReadersAgreeWithTheCollector ==
  \A r \in Reader \cap current :
    At(r, "serving") /\ At("collector", "serving") =>
      /\ limits[r] = limits["collector"]
      /\ r = "engine" => ttl[r] = ttl["collector"]

(* Equal fingerprints in the two logs mean that no site key is one tenant  *)
(* on the telemetry half and another on the decision half, whatever files  *)
(* were edited between the two starts (tenant.go, Fingerprint).            *)
FingerprintsTell ==
  (\A s \in Serves : At(s, "serving"))
    /\ Fingerprint(registry["collector"]) = Fingerprint(registry["engine"])
  => \A f \in Files : \A i \in DOMAIN f :
       BySiteKey(registry["collector"], f[i].site) = BySiteKey(registry["engine"], f[i].site)

Consistent ==
  /\ \A s, r \in Service : limits[s] = limits[r]
  /\ ttl["engine"] = ttl["collector"]
  /\ \A s \in Serves : Acceptable(file[s])

(* When builds, flags and files agree from some time on, everybody comes   *)
(* up and stays up, in whatever order the supervisor starts them and       *)
(* whatever an earlier build left at the broker.                           *)
EverythingComesUp ==
  <>[]Consistent => <>[](\A s \in Service : At(s, "serving"))

=============================================================================

---------------------------- MODULE LocalArchive -----------------------------
(***************************************************************************)
(* A substrate opened on a directory that an earlier version, or an        *)
(* earlier run that was stopped anywhere, left behind, and appended to by  *)
(* concurrent requests: the collector's -data archive (ingest,             *)
(* substratearchive) over substrate.Open, Append, writeBlob and ReadBlob.  *)
(*                                                                         *)
(* A version before inlining (ADR-0009) kept every payload in a file and   *)
(* had no payload column; one before ADR-0010 had no duplicates column.    *)
(***************************************************************************)
EXTENDS Substrate

CONSTANTS
  Requests,    \* requests that may be appending at one time
  MaxCrashes,  \* bound: stops of the process
  MaxFailures  \* bound: steps that fail or run into their deadline

ASSUME LocalArchiveAssumption ==
  MaxCrashes \in Nat /\ MaxFailures \in Nat /\ Absent \notin {"inline", "file"}

VARIABLES
  events,    \* the events table: "none", "bare" or "payload"
  positions, \* the stream_position table: "none", "bare" or "duplicates"
  row,       \* where the row of each hash says its payload is
  files,     \* the blob directory
  proc,      \* Open's progress
  at,        \* where each request's Append is
  record,    \* what it appends
  accepted,  \* history: contents whose Append returned nil
  crashes, failures

schema   == <<events, positions>>
volume   == <<row, files>>
requests == <<at, record, accepted>>
budget   == <<crashes, failures>>
vars     == <<schema, volume, proc, requests, budget>>

Places == {"idle", "waiting", "blob", "insert"}

(* A fresh directory; one from before inlining, whose rows all have files; *)
(* or one from between inlining and ADR-0010, whose own small payloads are *)
(* in their rows and whose inherited ones still in files.  A stop of any   *)
(* of them may have left files without rows.                               *)
Init ==
  /\ \/ events = "none" /\ positions = "none" /\ row = [h \in Content |-> Absent] /\ files = {}
     \/ /\ events = "bare" /\ positions \in {"none", "bare"}
        /\ files \in SUBSET Content
        /\ \E kept \in SUBSET files :
             row = [h \in Content |-> IF h \in kept THEN "file" ELSE Absent]
     \/ /\ events = "payload" /\ positions \in {"none", "bare"}
        /\ files \in SUBSET Content
        /\ row \in [Content -> {Absent, "inline", "file"}]
        /\ \A h \in Content : /\ row[h] = "file" => h \in files
                              /\ row[h] = "inline" => h \notin Large
  /\ proc = "down"
  /\ at = [q \in Requests |-> "idle"] /\ record = [q \in Requests |-> Absent]
  /\ accepted = {}
  /\ crashes = 0 /\ failures = 0

-----------------------------------------------------------------------------
(* Open. *)

Start ==
  /\ proc = "down"
  /\ proc' = "tables"
  /\ UNCHANGED <<schema, volume, requests, budget>>

(* CREATE TABLE IF NOT EXISTS, twice: a table that is made now has every   *)
(* column of this version.                                                 *)
CreateEvents ==
  /\ proc = "tables"
  /\ proc' = "tables made"
  /\ events' = IF events = "none" THEN "payload" ELSE events
  /\ UNCHANGED <<positions, volume, requests, budget>>

CreatePositions ==
  /\ proc = "tables made"
  /\ proc' = "migrating"
  /\ positions' = IF positions = "none" THEN "duplicates" ELSE positions
  /\ UNCHANGED <<events, volume, requests, budget>>

(* ensurePayloadColumn, which asks first. *)
EnsurePayloadColumn ==
  /\ proc = "migrating"
  /\ proc' = "migrated"
  /\ events' = "payload"
  /\ UNCHANGED <<positions, volume, requests, budget>>

(* Mutant of EnsureDuplicatesColumn: the column is added without asking,   *)
(* which fails when it is there.                                           *)
AddDuplicatesColumn ==
  /\ proc = "migrated"
  /\ proc' = IF positions = "duplicates" THEN "down" ELSE "open"
  /\ positions' = "duplicates"
  /\ UNCHANGED <<events, volume, requests, budget>>

EnsureDuplicatesColumn ==
  /\ proc = "migrated"
  /\ proc' = "open"
  /\ positions' = "duplicates"
  /\ UNCHANGED <<events, volume, requests, budget>>

(* A step of Open fails: the process exits and is started again. *)
OpenFails ==
  /\ proc \notin {"down", "open"}
  /\ failures < MaxFailures
  /\ failures' = failures + 1
  /\ proc' = "down"
  /\ UNCHANGED <<schema, volume, requests, crashes>>

Opening ==
  \/ Start \/ CreateEvents \/ CreatePositions
  \/ EnsurePayloadColumn \/ EnsureDuplicatesColumn

-----------------------------------------------------------------------------
(* Append: the record is hashed by the ingester and verified twice, so     *)
(* only its content matters here.                                          *)

Goes(q, place) == at' = [at EXCEPT ![q] = place]

Append(q, h) ==
  /\ proc = "open" /\ at[q] = "idle"
  /\ record' = [record EXCEPT ![q] = h]
  /\ Goes(q, "waiting")
  /\ UNCHANGED <<schema, volume, proc, accepted, budget>>

(* writeMu, which does not know of the request's deadline. *)
Lock(q) ==
  /\ at[q] = "waiting"
  /\ \A p \in Requests : at[p] \notin {"blob", "insert"}
  /\ Goes(q, IF record[q] \in Large THEN "blob" ELSE "insert")
  /\ UNCHANGED <<schema, volume, proc, record, accepted, budget>>

(* writeBlob: a temporary file, synced and renamed, or the file that is    *)
(* there already with these bytes.                                         *)
WriteBlob(q) ==
  /\ at[q] = "blob"
  /\ files' = files \cup {record[q]}
  /\ Goes(q, "insert")
  /\ UNCHANGED <<schema, row, proc, record, accepted, budget>>

(* INSERT OR IGNORE: a row that is there keeps what it says, a file of an  *)
(* older version included.                                                 *)
InsertRow(q) ==
  /\ at[q] = "insert"
  /\ LET h == record[q]
     IN  /\ row' = IF row[h] # Absent THEN row
                   ELSE [row EXCEPT ![h] = IF h \in Large THEN "file" ELSE "inline"]
         /\ accepted' = accepted \cup {h}
  /\ Goes(q, "idle")
  /\ record' = [record EXCEPT ![q] = Absent]
  /\ UNCHANGED <<schema, files, proc, budget>>

(* A write fails, or the deadline the request came with has passed.  What  *)
(* was renamed into place stays.                                           *)
AppendFails(q) ==
  /\ at[q] \in {"blob", "insert"}
  /\ failures < MaxFailures
  /\ failures' = failures + 1
  /\ Goes(q, "idle")
  /\ record' = [record EXCEPT ![q] = Absent]
  /\ UNCHANGED <<schema, volume, proc, accepted, crashes>>

Crash ==
  /\ proc # "down"
  /\ crashes < MaxCrashes
  /\ crashes' = crashes + 1
  /\ proc' = "down"
  /\ at' = [q \in Requests |-> "idle"] /\ record' = [q \in Requests |-> Absent]
  /\ UNCHANGED <<schema, volume, accepted, failures>>

Writing(q) == Lock(q) \/ WriteBlob(q) \/ InsertRow(q)

Next ==
  \/ Opening \/ OpenFails \/ Crash
  \/ \E q \in Requests : Writing(q) \/ AppendFails(q) \/ \E h \in Content : Append(q, h)

Spec == Init /\ [][Next]_vars

(* Open runs on and a mutex is handed on; nobody has to append. *)
FairSpec == Spec /\ WF_vars(Opening) /\ \A q \in Requests : SF_vars(Writing(q))

-----------------------------------------------------------------------------
(* Mutant of ReadBlob: the row is the only place looked at. *)
ReadRow(h) == IF row[h] = "inline" THEN h ELSE Absent

(* ReadBlob: the row's column, else the file; verified either way.         *)
ReadBlob(h) == IF row[h] = "inline" \/ h \in files THEN h ELSE Absent

TypeOK ==
  /\ events \in {"none", "bare", "payload"}
  /\ positions \in {"none", "bare", "duplicates"}
  /\ row \in [Content -> {Absent, "inline", "file"}]
  /\ files \subseteq Content
  /\ proc \in {"down", "tables", "tables made", "migrating", "migrated", "open"}
  /\ at \in [Requests -> Places]
  /\ record \in [Requests -> Content \cup {Absent}]
  /\ accepted \subseteq Content
  /\ crashes \in 0 .. MaxCrashes /\ failures \in 0 .. MaxFailures

(* An open archive reads back every row it has, whichever version wrote    *)
(* it and wherever that run was stopped, and everything any run said it    *)
(* accepted (substrate.go 163-168).                                        *)
RecordsStayReadable ==
  proc = "open" =>
    /\ events = "payload"
    /\ \A h \in Content : row[h] # Absent \/ h \in accepted => ReadBlob(h) = h

(* However often it is stopped, and between whichever steps of the         *)
(* migration, the archive opens again, and every append then returns.      *)
OpensAndAnswers ==
  /\ <>[](proc = "open")
  /\ \A q \in Requests : at[q] # "idle" ~> at[q] = "idle"
=============================================================================

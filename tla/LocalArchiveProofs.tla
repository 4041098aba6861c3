------------------------- MODULE LocalArchiveProofs --------------------------
(***************************************************************************)
(* Proofs about LocalArchive for any payloads, any number of requests, any *)
(* directory an earlier version may have left, and any number of stops and *)
(* failures.                                                               *)
(***************************************************************************)
EXTENDS LocalArchive, TLAPS

-----------------------------------------------------------------------------
(* A row that points at a file has one: writeBlob comes before the INSERT, *)
(* and nothing deletes a file.                                             *)
FilesFirst ==
  /\ \A h \in Content : row[h] = "file" => h \in files
  /\ \A q \in Requests :
       at[q] = "insert" /\ record[q] \in Large => record[q] \in files

(* A request past its lock has a record. *)
Busy == \A q \in Requests : at[q] # "idle" => record[q] \in Content

(* Nothing reads or writes rows before the columns it needs are there.     *)
Migrated == proc \in {"migrated", "open"} => events = "payload"

Kept == \A h \in accepted : row[h] # Absent

IInv == TypeOK /\ FilesFirst /\ Busy /\ Migrated /\ Kept

-----------------------------------------------------------------------------
LEMMA NotAPlace ==
  Absent \notin Content /\ Large \subseteq Content /\ Absent # "inline" /\ Absent # "file"
BY SubstrateAssumption, LocalArchiveAssumption

LEMMA Counting ==
  ASSUME NEW m \in Nat, NEW n \in 0 .. m, n < m
  PROVE  n + 1 \in 0 .. m
OBVIOUS

LEMMA Bounds == MaxCrashes \in Nat /\ MaxFailures \in Nat
BY LocalArchiveAssumption

LEMMA InitIInv == Init => IInv
<1> SUFFICES ASSUME Init PROVE IInv
  OBVIOUS
<1>1. 0 \in 0 .. MaxCrashes /\ 0 \in 0 .. MaxFailures
  BY Bounds
<1>2. /\ row \in [Content -> {Absent, "inline", "file"}] /\ files \subseteq Content
      /\ \A h \in Content : row[h] = "file" => h \in files
  BY NotAPlace DEF Init
<1> QED
  BY <1>1, <1>2, NotAPlace DEF Init, IInv, TypeOK, FilesFirst, Busy, Migrated, Kept, Places

LEMMA StepIInv ==
  ASSUME IInv, [Next]_vars
  PROVE  IInv'
<1> USE NotAPlace DEF IInv, TypeOK, FilesFirst, Busy, Migrated, Kept, Places, Goes,
                      schema, volume, requests, budget
<1>1. CASE Start
  BY <1>1 DEF Start
<1>2. CASE CreateEvents
  BY <1>2 DEF CreateEvents
<1>3. CASE CreatePositions
  BY <1>3 DEF CreatePositions
<1>4. CASE EnsurePayloadColumn
  BY <1>4 DEF EnsurePayloadColumn
<1>5. CASE EnsureDuplicatesColumn
  BY <1>5 DEF EnsureDuplicatesColumn
<1>6. CASE OpenFails
  BY <1>6, Bounds, Counting DEF OpenFails
<1>7. CASE Crash
  BY <1>7, Bounds, Counting DEF Crash
<1>8. ASSUME NEW q \in Requests, Lock(q)  PROVE IInv'
  BY <1>8 DEF Lock
<1>9. ASSUME NEW q \in Requests, WriteBlob(q)  PROVE IInv'
  BY <1>9 DEF WriteBlob
<1>10. ASSUME NEW q \in Requests, InsertRow(q)  PROVE IInv'
  <2> DEFINE h == record[q]
  <2>1. h \in Content /\ at[q] = "insert"
    BY <1>10 DEF InsertRow
  <2>2. /\ row' = IF row[h] # Absent THEN row
                  ELSE [row EXCEPT ![h] = IF h \in Large THEN "file" ELSE "inline"]
        /\ accepted' = accepted \cup {h}
    BY <1>10 DEF InsertRow
  <2>3. row' \in [Content -> {Absent, "inline", "file"}] /\ accepted' \subseteq Content
    BY <2>1, <2>2
  <2>4. \A g \in Content : row'[g] = "file" => g \in files
    BY <2>1, <2>2
  <2>5. \A g \in accepted' : row'[g] # Absent
    BY <2>1, <2>2
  <2>6. /\ at' \in [Requests -> Places] /\ record' \in [Requests -> Content \cup {Absent}]
        /\ \A p \in Requests : p # q => at'[p] = at[p] /\ record'[p] = record[p]
        /\ at'[q] = "idle"
    BY <1>10 DEF InsertRow
  <2>7. /\ files' = files /\ events' = events /\ positions' = positions /\ proc' = proc
        /\ crashes' = crashes /\ failures' = failures
    BY <1>10 DEF InsertRow
  <2> HIDE DEF h
  <2>8. TypeOK'
    BY <2>3, <2>6, <2>7
  <2>9. FilesFirst' /\ Busy' /\ Migrated' /\ Kept'
    BY <2>4, <2>5, <2>6, <2>7
  <2> QED
    BY <2>8, <2>9
<1>11. ASSUME NEW q \in Requests, AppendFails(q)  PROVE IInv'
  BY <1>11, Bounds, Counting DEF AppendFails
<1>12. ASSUME NEW q \in Requests, NEW h \in Content, Append(q, h)  PROVE IInv'
  BY <1>12 DEF Append
<1>13. CASE UNCHANGED vars
  BY <1>13 DEF vars
<1> QED
  BY <1>1, <1>2, <1>3, <1>4, <1>5, <1>6, <1>7, <1>8, <1>9, <1>10, <1>11, <1>12, <1>13
     DEF Next, Opening, Writing

LEMMA IInvInvariant == Spec => []IInv
BY InitIInv, StepIInv, PTL DEF Spec

-----------------------------------------------------------------------------
(* ReadBlob over every row: an archive that is open reads back every row   *)
(* it has and every payload any run accepted, from whichever version's     *)
(* directory it started and wherever it was stopped (substrate.go 163-168, *)
(* 263-294).                                                               *)
THEOREM OpenArchiveReadsBack == Spec => []RecordsStayReadable
<1>1. IInv => RecordsStayReadable
  BY NotAPlace DEF IInv, TypeOK, FilesFirst, Migrated, Kept, RecordsStayReadable, ReadBlob
<1> QED
  BY <1>1, IInvInvariant, PTL

(* writeBlob and INSERT OR IGNORE only add: no step, a failed one and a    *)
(* stop of the process included, makes a payload unreadable that an        *)
(* earlier state could read.                                               *)
THEOREM NothingIsUnwritten ==
  Spec => [][\A h \in Content : ReadBlob(h) = h => ReadBlob(h)' = h]_vars
<1>1. ASSUME IInv, [Next]_vars, NEW h \in Content, ReadBlob(h) = h
      PROVE  ReadBlob(h)' = h
  <2>1. /\ files \subseteq files'
        /\ row[h] # Absent => row'[h] = row[h]
    BY <1>1 DEF Next, Opening, Writing, Start, CreateEvents, CreatePositions,
                EnsurePayloadColumn, EnsureDuplicatesColumn, OpenFails, Crash, Lock,
                WriteBlob, InsertRow, AppendFails, Append, vars, schema, volume,
                requests, budget, IInv, TypeOK
  <2> QED
    BY <1>1, <2>1, NotAPlace DEF ReadBlob
<1>2. IInv /\ [Next]_vars =>
        [\A h \in Content : ReadBlob(h) = h => ReadBlob(h)' = h]_vars
  BY <1>1
<1> QED
  BY <1>2, IInvInvariant, PTL DEF Spec
=============================================================================

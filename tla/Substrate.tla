------------------------------ MODULE Substrate ------------------------------
(***************************************************************************)
(* The data model of libs/substrate: the content-addressed events table,   *)
(* the blob directory for oversized payloads and the one-row               *)
(* stream_position table, as values and operators on them.  The state      *)
(* machines that own a substrate keep these values in their variables and  *)
(* use these operators for every durable write.                            *)
(*                                                                         *)
(* A payload is a member of Content and SHA-256 is taken to be injective,  *)
(* so the hash of a payload is the payload itself.  An event hash that is  *)
(* not 32 hex bytes is the value MalformedHash.                            *)
(***************************************************************************)
EXTENDS Integers, FiniteSetsExt

CONSTANTS
  Content,        \* payloads (and so their hashes)
  Large,          \* payloads above InlineThreshold, stored as files
  MalformedHash,  \* an event_hash that is not 32 hex bytes
  Absent          \* no row under this hash

ASSUME SubstrateAssumption ==
  /\ IsFiniteSet(Content)
  /\ Large \subseteq Content
  /\ MalformedHash \notin Content
  /\ Absent \notin Content

Hash(payload) == payload

-----------------------------------------------------------------------------
(* The events table: a payload per primary key event_hash. *)

EmptyTable == [h \in Content |-> Absent]

Rows(table) == {h \in Content : table[h] # Absent}

(* A record offered for commit: its claimed hash, its bytes, and where the
   stream says it is. *)
BatchRecord == [hash : Content, bytes : Content, seq : Nat \ {0}]

Verifies(r) == Hash(r.bytes) = r.hash

Hashes(recs) == {r.hash : r \in recs}

(* INSERT OR IGNORE of every record: a hash already present keeps its row. *)
Insert(table, recs) ==
  [h \in Content |->
     IF table[h] = Absent /\ h \in Hashes(recs)
     THEN (CHOOSE r \in recs : r.hash = h).bytes
     ELSE table[h]]

(* Mutant of Inserted: statements executed, not rows affected. *)
Executed(table, recs) == Cardinality(recs)

(* RowsAffected() = 1 once for each hash the table did not hold. *)
Inserted(table, recs) == Cardinality(Hashes(recs) \ Rows(table))

(* The payload as ReadBlob finds it: the row's column, else the file.      *)
(* A row of a Large payload has a NULL column.                             *)
Readable(table, files, h) ==
  /\ h \in Rows(table)
  /\ h \in Large => h \in files

-----------------------------------------------------------------------------
(* The durable position: one row, absent until something is recorded. *)

NoPosition == [recorded |-> FALSE, first |-> 0, highest |-> 0,
               committed |-> 0, rejected |-> 0, duplicates |-> 0]

PositionType == [recorded : BOOLEAN, first : Nat, highest : Nat,
                 committed : Nat, rejected : Nat, duplicates : Nat]

(* Mutant of Upsert: the highest sequence is the last one seen. *)
UpsertLast(p, first, highest, committed, rejected, duplicates) ==
  [recorded   |-> TRUE,
   first      |-> IF p.recorded /\ p.first < first THEN p.first ELSE first,
   highest    |-> highest,
   committed  |-> p.committed + committed,
   rejected   |-> p.rejected + rejected,
   duplicates |-> p.duplicates + duplicates]

(* positionUpsert: MIN and MAX keep the two ends monotonic, the counters add. *)
Upsert(p, first, highest, committed, rejected, duplicates) ==
  [recorded   |-> TRUE,
   first      |-> IF p.recorded /\ p.first < first THEN p.first ELSE first,
   highest    |-> IF p.recorded /\ p.highest > highest THEN p.highest ELSE highest,
   committed  |-> p.committed + committed,
   rejected   |-> p.rejected + rejected,
   duplicates |-> p.duplicates + duplicates]

(* The position after one transaction of AppendCanonicalBatch: the span    *)
(* covers what was kept and what was refused.                              *)
Advance(p, table, recs, rejected) ==
  LET seqs  == {r.seq : r \in recs} \cup rejected
      fresh == Inserted(table, recs)
  IN  Upsert(p, Min(seqs), Max(seqs),
             fresh, Cardinality(rejected), Cardinality(recs) - fresh)

(* RecordRejected(seq). *)
Refuse(p, seq) == Upsert(p, seq, seq, 0, 1, 0)

(* The sequences between the first and the highest seen, both counted. *)
Span(p) == IF p.highest = 0 THEN 0 ELSE p.highest - p.first + 1

(* Mutant of Unaccounted: a redelivery taken for an explained sequence. *)
LessDuplicates(p) == Span(p) - p.committed - p.rejected - p.duplicates

Unaccounted(p) == Span(p) - p.committed - p.rejected
=============================================================================

---------------------------- MODULE ArchiveProofs ----------------------------
(***************************************************************************)
(* Proofs about ArchivePipeline and ArchiveMeter for every value of their  *)
(* constants.  First the inductive invariant IInv of the pipeline, the     *)
(* delivery contract and the integrity of the content-addressed store.     *)
(* Then, on top of it, what the books say: the durable position never goes *)
(* back, nothing is announced that is not durable, refusals are written    *)
(* down, and the figures the loss is read from are exact.                  *)
(***************************************************************************)
EXTENDS ArchiveMeter, FiniteSetTheorems, WellFoundedInduction, TLAPS

-----------------------------------------------------------------------------
(* Finite sets of sequences and records. *)

LEMMA SeqsFinite ==
  /\ IsFiniteSet(Seqs)
  /\ \A S \in SUBSET Seqs : IsFiniteSet(S) /\ Cardinality(S) \in Nat
<1>1. IsFiniteSet(Seqs)
  BY FS_Interval, PipelineAssumption DEF Seqs
<1> QED
  BY <1>1, FS_Subset, FS_CardinalityType

LEMMA SeqsNatural == MaxSeq \in Nat /\ Seqs \subseteq Nat \ {0}
BY PipelineAssumption DEF Seqs

(* A set of records built from finitely many sequences is finite.          *)
LEMMA RecordsFinite ==
  ASSUME NEW S \in SUBSET Seqs
  PROVE  IsFiniteSet({RecordOf(s) : s \in S})
<1> DEFINE T == {RecordOf(s) : s \in S}
           f == [s \in S |-> RecordOf(s)]
<1>2. IsFiniteSet(S)
  BY SeqsFinite
<1>3. f \in Surjection(S, T)
  BY DEF Surjection
<1> HIDE DEF f, T
<1>4. IsFiniteSet(T)
  BY <1>2, <1>3, FS_Surjection
<1> QED
  BY <1>4 DEF T

(* Distinct hashes are no more than the records they come from.            *)
LEMMA HashesBounded ==
  ASSUME NEW recs, IsFiniteSet(recs)
  PROVE  /\ IsFiniteSet(Hashes(recs))
         /\ Cardinality(Hashes(recs)) <= Cardinality(recs)
<1> DEFINE f == [r \in recs |-> r.hash]
<1>1. f \in Surjection(recs, Hashes(recs))
  BY DEF Surjection, Hashes
<1> HIDE DEF f
<1> QED
  BY <1>1, FS_Surjection

(* A nonempty set of naturals has a least element. *)
LEMMA LeastNatural ==
  ASSUME NEW S \in SUBSET Nat, S # {}
  PROVE  \E n \in S : \A m \in S : n <= m
<1>1. PICK n \in S : \A m \in S : ~ (<<m, n>> \in OpToRel(<, Nat))
  BY NatLessThanWellFounded, WFMin
<1>2. \A m \in S : ~ (m < n)
  BY <1>1 DEF OpToRel
<1> QED
  BY <1>2

(* Min and Max of a nonempty set of sequences are sequences of it.         *)
LEMMA MinMax ==
  ASSUME NEW S \in SUBSET Seqs, S # {}
  PROVE  /\ Min(S) \in S /\ \A s \in S : Min(S) <= s
         /\ Max(S) \in S /\ \A s \in S : s <= Max(S)
<1>0. MaxSeq \in Nat /\ S \subseteq Nat /\ \A s \in S : s <= MaxSeq
  BY PipelineAssumption DEF Seqs
<1>1. \E n \in S : \A m \in S : n <= m
  BY <1>0, LeastNatural
<1>2. \E n \in S : \A m \in S : m <= n
  <2> DEFINE D == {MaxSeq - s : s \in S}
  <2>1. D \in SUBSET Nat
    BY <1>0
  <2>2. D # {}
    OBVIOUS
  <2>3. PICK d \in D : \A e \in D : d <= e
    <3> HIDE DEF D
    <3> QED
      BY <2>1, <2>2, LeastNatural
  <2>4. PICK n \in S : d = MaxSeq - n
    OBVIOUS
  <2>5. ASSUME NEW m \in S PROVE m <= n
    <3>1. MaxSeq - m \in D
      OBVIOUS
    <3>2. MaxSeq - n <= MaxSeq - m
      BY <3>1, <2>3, <2>4
    <3> QED
      BY <3>2, <1>0
  <2> QED
    BY <2>5
<1> QED
  BY <1>1, <1>2 DEF Min, Max

-----------------------------------------------------------------------------
(* What one transaction does to the table and to the position. *)

Table == [Content -> Content \cup {Absent}]

SeqRecord == [hash : Content, bytes : Content, seq : Seqs]

(* INSERT OR IGNORE keeps every row it finds, adds a row for each hash it  *)
(* does not, and stores under a hash only the bytes it describes.          *)
LEMMA InsertFacts ==
  ASSUME NEW t \in Table, NEW recs \in SUBSET SeqRecord,
         \A r \in recs : Verifies(r)
  PROVE  /\ Insert(t, recs) \in Table
         /\ \A h \in Rows(t) : Insert(t, recs)[h] = t[h]
         /\ Rows(Insert(t, recs)) = Rows(t) \cup Hashes(recs)
         /\ \A h \in Hashes(recs) \ Rows(t) : Insert(t, recs)[h] = h
<1>1. ASSUME NEW h \in Hashes(recs)
      PROVE  (CHOOSE r \in recs : r.hash = h).bytes = h /\ h \in Content /\ h # Absent
  <2>1. \E r \in recs : r.hash = h
    BY DEF Hashes
  <2>2. PICK r \in recs : r.hash = h /\ r = (CHOOSE q \in recs : q.hash = h)
    BY <2>1
  <2> QED
    BY <2>2, SubstrateAssumption DEF SeqRecord, Verifies, Hash
<1> QED
  BY <1>1, SubstrateAssumption DEF Table, Insert, Rows

(* The transaction leaves a well-formed position whose committed count     *)
(* grew by the number of new rows.                                         *)
LEMMA AdvanceFacts ==
  ASSUME NEW p \in PositionType, NEW t \in Table,
         NEW recs \in SUBSET SeqRecord, IsFiniteSet(recs),
         NEW rejected \in SUBSET Seqs,
         recs # {} \/ rejected # {}
  PROVE  /\ Advance(p, t, recs, rejected) \in PositionType
         /\ Advance(p, t, recs, rejected).committed
              = p.committed + Cardinality(Hashes(recs) \ Rows(t))
         /\ \A s \in {r.seq : r \in recs} \cup rejected :
              /\ Advance(p, t, recs, rejected).first <= s
              /\ s <= Advance(p, t, recs, rejected).highest
         /\ p.recorded => /\ Advance(p, t, recs, rejected).first <= p.first
                          /\ p.highest <= Advance(p, t, recs, rejected).highest
<1> DEFINE seqs == {r.seq : r \in recs} \cup rejected
           fresh == Inserted(t, recs)
<1>1. seqs \in SUBSET Seqs /\ seqs # {}
  BY DEF SeqRecord
<1>2. /\ Min(seqs) \in Nat /\ Max(seqs) \in Nat
      /\ \A s \in seqs : Min(seqs) <= s /\ s <= Max(seqs)
  <2> HIDE DEF seqs
  <2> QED
    BY <1>1, MinMax, SeqsNatural
<1>3. /\ IsFiniteSet(Hashes(recs))
      /\ Cardinality(Hashes(recs)) <= Cardinality(recs)
  BY HashesBounded
<1>4. fresh \in Nat /\ fresh <= Cardinality(Hashes(recs))
  BY <1>3, FS_Subset, FS_CardinalityType DEF Inserted
<1>5. Cardinality(recs) - fresh \in Nat
  BY <1>3, <1>4, FS_CardinalityType
<1>6. Cardinality(rejected) \in Nat
  BY SeqsFinite
<1>7. Advance(p, t, recs, rejected) =
        Upsert(p, Min(seqs), Max(seqs), fresh, Cardinality(rejected),
               Cardinality(recs) - fresh)
  BY DEF Advance
<1>8. \A s \in seqs : s \in Nat
  BY <1>1, PipelineAssumption DEF Seqs
<1> HIDE DEF seqs, fresh
<1> DEFINE dups == Cardinality(recs) - fresh
<1> HIDE DEF dups
<1>9. dups \in Nat
  BY <1>5 DEF dups
<1>10. Advance(p, t, recs, rejected) =
        Upsert(p, Min(seqs), Max(seqs), fresh, Cardinality(rejected), dups)
  BY <1>7 DEF dups
<1>11. Advance(p, t, recs, rejected) \in PositionType
  BY <1>2, <1>4, <1>6, <1>9, <1>10 DEF Upsert, PositionType
<1>12. Advance(p, t, recs, rejected).committed = p.committed + fresh
  BY <1>10 DEF Upsert
<1>13. \A s \in seqs : /\ Advance(p, t, recs, rejected).first <= s
                       /\ s <= Advance(p, t, recs, rejected).highest
  BY <1>2, <1>8, <1>10 DEF Upsert, PositionType
<1>14. p.recorded => /\ Advance(p, t, recs, rejected).first <= p.first
                     /\ p.highest <= Advance(p, t, recs, rejected).highest
  BY <1>2, <1>10 DEF Upsert, PositionType
<1> QED
  BY <1>11, <1>12, <1>13, <1>14 DEF seqs, fresh, Inserted

(* The arguments of the transaction in progress are what its caller may    *)
(* pass: verified records and refused sequences, at least one of them.     *)
LEMMA CallIsLegal ==
  ASSUME IInv, pc \in {"blobs", "tx"}
  PROVE  /\ call.recs \in SUBSET SeqRecord /\ IsFiniteSet(call.recs)
         /\ call.rejected \in SUBSET Seqs
         /\ call.recs # {} \/ call.rejected # {}
         /\ \A r \in call.recs : Verifies(r)
<1> USE DEF IInv
<1>1. call.recs \in SUBSET SeqRecord /\ call.rejected \in SUBSET Seqs
  BY DEF TypeOK, SeqRecord
<1>2. IsFiniteSet(Recs)
  BY RecordsFinite DEF TypeOK, Recs, Kept
<1>3. IsFiniteSet(call.recs)
  <2>1. CASE call.recs = Recs
    BY <1>2, <2>1
  <2>2. CASE \E r \in todo : call.recs = {r}
    BY <2>2, FS_Singleton
  <2>3. CASE call.recs = {}
    BY <2>3, FS_EmptySet
  <2> QED
    BY <2>1, <2>2, <2>3 DEF CallShape
<1>4. call.recs # {} \/ call.rejected # {}
  BY DEF CallShape
<1> QED
  BY <1>1, <1>3, <1>4 DEF CallShape

(* CommitTx makes every record of the call readable and keeps readable     *)
(* every record that was.                                                  *)
LEMMA CommitTxStores ==
  ASSUME IInv, CommitTx
  PROVE  /\ \A h \in Content : Readable(table, files, h) => Readable(table', files', h)
         /\ \A h \in Hashes(call.recs) : Readable(table', files', h)
         /\ Rows(table') = Rows(table) \cup Hashes(call.recs)
         /\ \A h \in Rows(table') : (h \in Rows(table) /\ table'[h] = table[h]) \/ table'[h] = h
<1>1. /\ call.recs \in SUBSET SeqRecord
      /\ \A r \in call.recs : Verifies(r)
      /\ table \in Table /\ table' = Insert(table, call.recs) /\ files' = files
  BY CallIsLegal DEF CommitTx, IInv, TypeOK, Table
<1>2. /\ \A h \in Rows(table) : table'[h] = table[h]
      /\ Rows(table') = Rows(table) \cup Hashes(call.recs)
      /\ \A h \in Hashes(call.recs) \ Rows(table) : table'[h] = h
  BY <1>1, InsertFacts
<1>3. Hashes(call.recs) \cap Large \subseteq files
  BY DEF CommitTx, IInv, CallShape
<1> QED
  BY <1>1, <1>2, <1>3 DEF Readable

-----------------------------------------------------------------------------
(* Every action preserves IInv: one step per conjunct. *)

LEMMA PublishStep ==
  ASSUME IInv, NEW m \in Wire, Publish(m)
  PROVE  IInv'
<1> USE DEF IInv, Publish, broker, process, volume, faults, history
<1>1. TypeOK'
  <2>1. last' \in 0 .. MaxSeq
    BY PipelineAssumption DEF TypeOK
  <2>2. log' \in [Seqs -> Message \cup {NoMessage}]
    BY PipelineAssumption DEF TypeOK, Seqs
  <2>3. window' \subseteq Content \cup {MalformedHash}
    BY PipelineAssumption DEF TypeOK, Message
  <2> QED
    BY <2>1, <2>2, <2>3 DEF TypeOK
<1>2. Unassigned'
  BY PipelineAssumption DEF TypeOK, Unassigned, Seqs
<1>3. BatchShape'
  BY PipelineAssumption DEF TypeOK, BatchShape, Seqs
<1>4. CallShape'
  BY DEF TypeOK, CallShape, BatchShape, Recs, Malformed, Kept, WellFormed, RecordOf
<1>5. IsolateShape'
  BY PipelineAssumption DEF TypeOK, BatchShape, IsolateShape, Recs, Kept, WellFormed, RecordOf, Seqs
<1>6. DoneIsReadable'
  BY DEF TypeOK, BatchShape, DoneIsReadable, Done, Good, WellFormed, RecordOf
<1>7. ContentAddressed'
  BY DEF TypeOK, ContentAddressed, Readable
<1>8. AckedIsReadable'
  BY DEF TypeOK, Unassigned, AckedIsReadable, Good, WellFormed
<1> QED
  BY <1>1, <1>2, <1>3, <1>4, <1>5, <1>6, <1>7, <1>8

LEMMA WindowPassesStep ==
  ASSUME IInv, NEW h, WindowPasses(h)
  PROVE  IInv'
<1> USE DEF IInv, WindowPasses, broker, process, volume, faults, history
<1>1. TypeOK'
  BY DEF TypeOK, Control, DeliveryState, CallFrom
<1>2. Unassigned'
  BY DEF TypeOK, Unassigned
<1>3. BatchShape'
  BY DEF TypeOK, BatchShape
<1>4. CallShape'
  BY DEF TypeOK, CallShape, BatchShape, Recs, Malformed, Kept, WellFormed, RecordOf
<1>5. IsolateShape'
  BY DEF TypeOK, IsolateShape, CallShape, Recs, Kept, WellFormed, RecordOf
<1>6. DoneIsReadable'
  BY DEF TypeOK, BatchShape, DoneIsReadable, Done, Good, WellFormed, RecordOf
<1>7. ContentAddressed'
  BY DEF TypeOK, ContentAddressed, Readable
<1>8. AckedIsReadable'
  BY DEF TypeOK, Unassigned, AckedIsReadable, Good, WellFormed
<1> QED
  BY <1>1, <1>2, <1>3, <1>4, <1>5, <1>6, <1>7, <1>8

LEMMA DiscardOldestStep ==
  ASSUME IInv, DiscardOldest
  PROVE  IInv'
<1> USE DEF IInv, DiscardOldest, broker, process, volume, faults, history
<1>1. TypeOK'
  BY PipelineAssumption DEF TypeOK
<1>2. Unassigned'
  BY DEF TypeOK, Unassigned
<1>3. BatchShape'
  BY DEF TypeOK, BatchShape
<1>4. CallShape'
  BY DEF TypeOK, CallShape, BatchShape, Recs, Malformed, Kept, WellFormed, RecordOf
<1>5. IsolateShape'
  BY DEF TypeOK, IsolateShape, CallShape, Recs, Kept, WellFormed, RecordOf
<1>6. DoneIsReadable'
  BY DEF TypeOK, BatchShape, DoneIsReadable, Done, Good, WellFormed, RecordOf
<1>7. ContentAddressed'
  BY DEF TypeOK, ContentAddressed, Readable
<1>8. AckedIsReadable'
  BY DEF TypeOK, Unassigned, AckedIsReadable, Good, WellFormed
<1> QED
  BY <1>1, <1>2, <1>3, <1>4, <1>5, <1>6, <1>7, <1>8

LEMMA AckWaitPassesStep ==
  ASSUME IInv, NEW s \in Seqs, AckWaitPasses(s)
  PROVE  IInv'
<1> USE DEF IInv, AckWaitPasses, broker, process, volume, faults, history
<1>1. TypeOK'
  BY DEF TypeOK, Control, DeliveryState, CallFrom
<1>2. Unassigned'
  BY DEF TypeOK, Unassigned
<1>3. BatchShape'
  BY DEF TypeOK, BatchShape
<1>4. CallShape'
  BY DEF TypeOK, CallShape, BatchShape, Recs, Malformed, Kept, WellFormed, RecordOf
<1>5. IsolateShape'
  BY DEF TypeOK, IsolateShape, CallShape, Recs, Kept, WellFormed, RecordOf
<1>6. DoneIsReadable'
  BY DEF TypeOK, BatchShape, DoneIsReadable, Done, Good, WellFormed, RecordOf
<1>7. ContentAddressed'
  BY DEF TypeOK, ContentAddressed, Readable
<1>8. AckedIsReadable'
  BY DEF TypeOK, Unassigned, AckedIsReadable, Good, WellFormed
<1> QED
  BY <1>1, <1>2, <1>3, <1>4, <1>5, <1>6, <1>7, <1>8

LEMMA StartStep ==
  ASSUME IInv, Start
  PROVE  IInv'
<1> USE DEF IInv, Start, broker, process, volume, faults, history
<1>1. TypeOK'
  BY DEF TypeOK, Control, DeliveryState, CallFrom
<1>2. Unassigned'
  BY DEF TypeOK, Unassigned
<1>3. BatchShape'
  BY DEF TypeOK, BatchShape
<1>4. CallShape'
  BY DEF TypeOK, CallShape, BatchShape, Recs, Malformed, Kept, WellFormed, RecordOf
<1>5. IsolateShape'
  BY DEF TypeOK, IsolateShape, CallShape, Recs, Kept, WellFormed, RecordOf
<1>6. DoneIsReadable'
  BY DEF TypeOK, BatchShape, DoneIsReadable, Done, Good, WellFormed, RecordOf
<1>7. ContentAddressed'
  BY DEF TypeOK, ContentAddressed, Readable
<1>8. AckedIsReadable'
  BY DEF TypeOK, Unassigned, AckedIsReadable, Good, WellFormed
<1> QED
  BY <1>1, <1>2, <1>3, <1>4, <1>5, <1>6, <1>7, <1>8

LEMMA FetchStep ==
  ASSUME IInv, NEW F \in SUBSET Seqs, NEW B \in SUBSET F, Fetch(F, B)
  PROVE  IInv'
<1> USE DEF IInv, Fetch, Deliverable, InStream, broker, process, volume, faults, history
<1>1. TypeOK'
  BY DEF TypeOK, Control, DeliveryState, CallFrom
<1>2. Unassigned'
  <2>1. \A s \in Seqs : s > last => s \notin F
    BY SeqsNatural DEF TypeOK
  <2> QED
    BY <2>1 DEF TypeOK, Unassigned
<1>3. BatchShape'
  BY DEF TypeOK, BatchShape
<1>4. CallShape'
  BY DEF TypeOK, CallShape, BatchShape, Recs, Malformed, Kept, WellFormed, RecordOf
<1>5. IsolateShape'
  BY DEF IsolateShape
<1>6. DoneIsReadable'
  BY DEF TypeOK, BatchShape, DoneIsReadable, Done, Good, WellFormed, RecordOf
<1>7. ContentAddressed'
  BY DEF TypeOK, ContentAddressed, Readable
<1>8. AckedIsReadable'
  BY DEF TypeOK, Unassigned, AckedIsReadable, Good, WellFormed
<1> QED
  BY <1>1, <1>2, <1>3, <1>4, <1>5, <1>6, <1>7, <1>8

LEMMA RefuseJunkStep ==
  ASSUME IInv, NEW s \in Seqs, RefuseJunk(s)
  PROVE  IInv'
<1> USE DEF IInv, RefuseJunk, broker, process, volume, faults, history
<1>1. TypeOK'
  <2>1. Refuse(position, s) \in PositionType
    BY DEF TypeOK, PositionType, Refuse, Upsert, Seqs
  <2>2. counts' \in [committed : Nat, rejected : Nat]
    BY DEF TypeOK
  <2>3. call' \in [recs : SUBSET [hash : Content, bytes : Content, seq : Seqs],
                   rejected : SUBSET Seqs, from : CallFrom]
    BY DEF TypeOK, CallFrom
  <2>4. position' \in PositionType /\ refused' \subseteq Seqs
    BY <2>1 DEF TypeOK
  <2>5. storeErrors' \in 0 .. MaxStoreErrors
    BY PipelineAssumption DEF TypeOK
  <2> QED
    BY <2>2, <2>3, <2>4, <2>5 DEF TypeOK, Control
<1>2. Unassigned'
  BY DEF TypeOK, Unassigned
<1>3. BatchShape'
  BY DEF TypeOK, BatchShape
<1>4. CallShape'
  BY DEF TypeOK, CallShape, BatchShape, Recs, Malformed, Kept, WellFormed, RecordOf
<1>5. IsolateShape'
  BY DEF TypeOK, IsolateShape, CallShape, Recs, Kept, WellFormed, RecordOf
<1>6. DoneIsReadable'
  BY DEF TypeOK, BatchShape, DoneIsReadable, Done, Good, WellFormed, RecordOf
<1>7. ContentAddressed'
  BY DEF TypeOK, ContentAddressed, Readable
<1>8. AckedIsReadable'
  BY DEF TypeOK, Unassigned, AckedIsReadable, Good, WellFormed
<1> QED
  BY <1>1, <1>2, <1>3, <1>4, <1>5, <1>6, <1>7, <1>8

LEMMA TermJunkStep ==
  ASSUME IInv, NEW R \in SUBSET Seqs, TermJunk(R)
  PROVE  IInv'
<1> USE DEF IInv, TermJunk, Settle, NoCall, broker, process, volume, faults, history
<1>1. TypeOK'
  <2>1. lostAcks' \in 0 .. MaxLostAcks
    BY PipelineAssumption DEF TypeOK
  <2>2. delivery' \in [Seqs -> DeliveryState]
    BY DEF TypeOK, DeliveryState
  <2> QED
    BY <2>1, <2>2 DEF TypeOK, Control, CallFrom
<1>2. Unassigned'
  BY DEF TypeOK, Unassigned, CallShape, BatchShape, Seqs
<1>3. BatchShape'
  BY DEF TypeOK, CallShape, BatchShape
<1>4. CallShape'
  BY DEF TypeOK, CallShape, BatchShape, Recs, Malformed, Kept, WellFormed, RecordOf
<1>5. IsolateShape'
  BY DEF TypeOK, IsolateShape, CallShape, Recs, Kept, WellFormed, RecordOf
<1>6. DoneIsReadable'
  BY DEF TypeOK, BatchShape, DoneIsReadable, Done, Good, WellFormed, RecordOf
<1>7. ContentAddressed'
  BY DEF TypeOK, ContentAddressed, Readable
<1>8. AckedIsReadable'
  BY DEF TypeOK, CallShape, BatchShape, AckedIsReadable, Good, WellFormed
<1> QED
  BY <1>1, <1>2, <1>3, <1>4, <1>5, <1>6, <1>7, <1>8

LEMMA DrainedStep ==
  ASSUME IInv, Drained
  PROVE  IInv'
<1> USE DEF IInv, Drained, broker, process, volume, faults, history
<1>1. TypeOK'
  BY DEF TypeOK, Control, DeliveryState, CallFrom
<1>2. Unassigned'
  BY DEF TypeOK, Unassigned
<1>3. BatchShape'
  BY DEF TypeOK, BatchShape
<1>4. CallShape'
  BY DEF TypeOK, CallShape, BatchShape, Recs, Malformed, Kept, WellFormed, RecordOf
<1>5. IsolateShape'
  BY DEF TypeOK, IsolateShape, CallShape, Recs, Kept, WellFormed, RecordOf
<1>6. DoneIsReadable'
  BY DEF TypeOK, BatchShape, DoneIsReadable, Done, Good, WellFormed, RecordOf
<1>7. ContentAddressed'
  BY DEF TypeOK, ContentAddressed, Readable
<1>8. AckedIsReadable'
  BY DEF TypeOK, Unassigned, AckedIsReadable, Good, WellFormed
<1> QED
  BY <1>1, <1>2, <1>3, <1>4, <1>5, <1>6, <1>7, <1>8

LEMMA HandleBatchStep ==
  ASSUME IInv, HandleBatch
  PROVE  IInv'
<1> USE DEF IInv, HandleBatch, broker, process, volume, faults, history
<1>1. TypeOK'
  <2>1. Recs \subseteq [hash : Content, bytes : Content, seq : Seqs]
    BY DEF TypeOK, BatchShape, Recs, Kept, WellFormed, RecordOf, Message, NoMessage
  <2>2. Malformed \subseteq Seqs
    BY DEF TypeOK, Malformed
  <2>3. Cardinality(held \cap blind) \in Nat
    BY SeqsFinite DEF TypeOK
  <2>4. counts' \in [committed : Nat, rejected : Nat]
    BY <2>3 DEF TypeOK
  <2>5. call' \in [recs : SUBSET [hash : Content, bytes : Content, seq : Seqs],
                   rejected : SUBSET Seqs, from : CallFrom]
    BY <2>1, <2>2 DEF TypeOK, CallFrom
  <2>6. todo' \subseteq [hash : Content, bytes : Content, seq : Seqs] /\ poisoned' \subseteq Seqs
    BY <2>1 DEF TypeOK
  <2> QED
    BY <2>4, <2>5, <2>6 DEF TypeOK, Control
<1>2. Unassigned'
  BY DEF TypeOK, Unassigned
<1>3. BatchShape'
  BY DEF TypeOK, BatchShape
<1>4. CallShape'
  BY DEF TypeOK, CallShape, IsolateShape, BatchShape, Recs, Malformed, Kept, WellFormed, RecordOf
<1>5. IsolateShape'
  BY DEF TypeOK, IsolateShape, CallShape, Recs, Kept, WellFormed, RecordOf
<1>6. DoneIsReadable'
  BY DEF TypeOK, BatchShape, DoneIsReadable, Done, Good, WellFormed, RecordOf,
         Recs, Kept, Malformed
<1>7. ContentAddressed'
  BY DEF TypeOK, ContentAddressed, Readable
<1>8. AckedIsReadable'
  BY DEF TypeOK, Unassigned, AckedIsReadable, Good, WellFormed
<1> QED
  BY <1>1, <1>2, <1>3, <1>4, <1>5, <1>6, <1>7, <1>8

LEMMA IsolateOneStep ==
  ASSUME IInv, NEW r \in todo, IsolateOne(r)
  PROVE  IInv'
<1> USE DEF IInv, IsolateOne, broker, process, volume, faults, history
<1>1. TypeOK'
  BY DEF TypeOK, Control, DeliveryState, CallFrom
<1>2. Unassigned'
  BY DEF TypeOK, Unassigned
<1>3. BatchShape'
  BY DEF TypeOK, BatchShape
<1>4. CallShape'
  BY DEF TypeOK, CallShape, BatchShape, Recs, Malformed, Kept, WellFormed, RecordOf
<1>5. IsolateShape'
  BY DEF TypeOK, IsolateShape, CallShape, Recs, Kept, WellFormed, RecordOf
<1>6. DoneIsReadable'
  BY DEF TypeOK, BatchShape, IsolateShape, DoneIsReadable, Done, Good,
         WellFormed, RecordOf, Recs, Kept, Verifies, Hash
<1>7. ContentAddressed'
  BY DEF TypeOK, ContentAddressed, Readable
<1>8. AckedIsReadable'
  BY DEF TypeOK, Unassigned, AckedIsReadable, Good, WellFormed
<1> QED
  BY <1>1, <1>2, <1>3, <1>4, <1>5, <1>6, <1>7, <1>8

LEMMA IsolateRefusalsStep ==
  ASSUME IInv, IsolateRefusals
  PROVE  IInv'
<1> USE DEF IInv, IsolateRefusals, broker, process, volume, faults, history
<1>1. TypeOK'
  BY DEF TypeOK, Control, DeliveryState, CallFrom
<1>2. Unassigned'
  BY DEF TypeOK, Unassigned
<1>3. BatchShape'
  BY DEF TypeOK, BatchShape
<1>4. CallShape'
  BY DEF TypeOK, CallShape, BatchShape, Recs, Malformed, Kept, WellFormed, RecordOf
<1>5. IsolateShape'
  BY DEF TypeOK, IsolateShape, CallShape, Recs, Kept, WellFormed, RecordOf
<1>6. DoneIsReadable'
  BY DEF TypeOK, BatchShape, DoneIsReadable, Done, Good, WellFormed, RecordOf
<1>7. ContentAddressed'
  BY DEF TypeOK, ContentAddressed, Readable
<1>8. AckedIsReadable'
  BY DEF TypeOK, Unassigned, AckedIsReadable, Good, WellFormed
<1> QED
  BY <1>1, <1>2, <1>3, <1>4, <1>5, <1>6, <1>7, <1>8

LEMMA WriteBlobsStep ==
  ASSUME IInv, WriteBlobs
  PROVE  IInv'
<1> USE DEF IInv, WriteBlobs, broker, process, volume, faults, history
<1>1. TypeOK'
  BY DEF TypeOK, Control, DeliveryState, CallFrom
<1>2. Unassigned'
  BY DEF TypeOK, Unassigned
<1>3. BatchShape'
  BY DEF TypeOK, BatchShape
<1>4. CallShape'
  BY DEF TypeOK, CallShape, BatchShape, Recs, Malformed, Kept, WellFormed, RecordOf
<1>5. IsolateShape'
  BY DEF TypeOK, IsolateShape, CallShape, Recs, Kept, WellFormed, RecordOf
<1>6. DoneIsReadable'
  BY DEF TypeOK, DoneIsReadable, Done, Good, WellFormed, RecordOf, Readable
<1>7. ContentAddressed'
  BY DEF TypeOK, ContentAddressed, Readable
<1>8. AckedIsReadable'
  BY DEF TypeOK, AckedIsReadable, Good, WellFormed, Readable
<1> QED
  BY <1>1, <1>2, <1>3, <1>4, <1>5, <1>6, <1>7, <1>8

LEMMA CommitTxStep ==
  ASSUME IInv, CommitTx
  PROVE  IInv'
<1> USE DEF IInv, CommitTx, NoCall, broker, process, volume, faults, history
<1>1. TypeOK'
  <2>1. /\ call.recs \in SUBSET SeqRecord /\ IsFiniteSet(call.recs)
        /\ call.rejected \in SUBSET Seqs
        /\ call.recs # {} \/ call.rejected # {}
        /\ \A r \in call.recs : Verifies(r)
    BY CallIsLegal
  <2>2. table \in Table /\ position \in PositionType
    BY DEF TypeOK, Table
  <2>3. table' \in [Content -> Content \cup {Absent}]
    BY <2>1, <2>2, InsertFacts DEF Table
  <2>4. position' \in PositionType
    BY <2>1, <2>2, AdvanceFacts
  <2>5. counts' \in [committed : Nat, rejected : Nat]
    <3>1. /\ Cardinality(Malformed) \in Nat /\ Cardinality(Kept) \in Nat
          /\ Cardinality(Malformed \cup poisoned) \in Nat
          /\ Cardinality(Kept \ poisoned) \in Nat
      BY SeqsFinite DEF TypeOK, Malformed, Kept
    <3> QED
      BY <3>1 DEF TypeOK, Report
  <2>6. /\ todo' \subseteq [hash : Content, bytes : Content, seq : Seqs]
        /\ poisoned' \subseteq Seqs /\ refused' \subseteq Seqs
        /\ pc' \in Control
    BY <2>1 DEF TypeOK, Control
  <2>7. call' \in [recs : SUBSET [hash : Content, bytes : Content, seq : Seqs],
                   rejected : SUBSET Seqs, from : CallFrom]
    BY DEF CallFrom
  <2> QED
    BY <2>3, <2>4, <2>5, <2>6, <2>7 DEF TypeOK
<1>2. Unassigned'
  BY DEF TypeOK, Unassigned
<1>3. BatchShape'
  BY DEF TypeOK, BatchShape
<1>4. CallShape'
  BY DEF TypeOK, CallShape, BatchShape, Recs, Malformed, Kept, WellFormed, RecordOf
<1>5. IsolateShape'
  BY DEF TypeOK, IsolateShape, CallShape, Recs, Kept, WellFormed, RecordOf
<1>6. DoneIsReadable'
  <2> SUFFICES ASSUME NEW s \in held \ blind, Good(s), Done(s)'
               PROVE  Readable(table', files', log[s].hash)
    BY DEF DoneIsReadable, Good, WellFormed
  <2>1. log[s].hash \in Content /\ RecordOf(s) \in Recs /\ RecordOf(s).hash = log[s].hash
    BY DEF TypeOK, Good, WellFormed, Recs, Kept, RecordOf, Message, NoMessage
  <2>2. RecordOf(s)' = RecordOf(s)
    BY DEF RecordOf
  <2>3. CASE RecordOf(s) \in call.recs
    BY <2>1, <2>3, CommitTxStores DEF Hashes
  <2>4. CASE RecordOf(s) \notin call.recs
    <3>1. call.from # "batch"
      BY <2>1, <2>4 DEF CallShape
    <3>2. RecordOf(s) \notin todo
      BY <2>2, <2>4, <3>1 DEF Done, CallShape
    <3>3. Readable(table, files, log[s].hash)
      BY <3>1, <3>2 DEF DoneIsReadable, Done, CallShape
    <3> QED
      BY <2>1, <3>3, CommitTxStores
  <2> QED
    BY <2>3, <2>4
<1>7. ContentAddressed'
  <2> SUFFICES ASSUME NEW h \in Rows(table')
               PROVE  Hash(table'[h]) = h /\ Readable(table', files', h)
    BY DEF ContentAddressed
  <2>1. h \in Content
    BY DEF Rows
  <2> QED
    BY <2>1, CommitTxStores DEF ContentAddressed, Hash
<1>8. AckedIsReadable'
  <2>1. \A s \in Seqs : Good(s) => log[s].hash \in Content
    BY DEF TypeOK, Good, WellFormed, Message, NoMessage
  <2> QED
    BY <2>1, CommitTxStores DEF AckedIsReadable, Good, WellFormed
<1> QED
  BY <1>1, <1>2, <1>3, <1>4, <1>5, <1>6, <1>7, <1>8

LEMMA AnswerStep ==
  ASSUME IInv, NEW R \in SUBSET Seqs, Answer(R)
  PROVE  IInv'
<1> USE DEF IInv, Answer, Settle, broker, process, volume, faults, history
<1>1. TypeOK'
  <2>1. lostAcks' \in 0 .. MaxLostAcks
    BY PipelineAssumption DEF TypeOK
  <2>2. delivery' \in [Seqs -> DeliveryState]
    BY DEF TypeOK, DeliveryState
  <2> QED
    BY <2>1, <2>2 DEF TypeOK, Control
<1>2. Unassigned'
  BY DEF TypeOK, Unassigned, BatchShape, Seqs
<1>3. BatchShape'
  BY DEF TypeOK, BatchShape
<1>4. CallShape'
  BY DEF TypeOK, CallShape, BatchShape, Recs, Malformed, Kept, WellFormed, RecordOf
<1>5. IsolateShape'
  BY DEF IsolateShape
<1>6. DoneIsReadable'
  BY DEF TypeOK, BatchShape, DoneIsReadable, Done, Good, WellFormed, RecordOf
<1>7. ContentAddressed'
  BY DEF TypeOK, ContentAddressed, Readable
<1>8. AckedIsReadable'
  BY DEF TypeOK, BatchShape, DoneIsReadable, Done, AckedIsReadable, Good,
         WellFormed
<1> QED
  BY <1>1, <1>2, <1>3, <1>4, <1>5, <1>6, <1>7, <1>8

LEMMA StoreFailsStep ==
  ASSUME IInv, NEW B \in SUBSET Large, StoreFails(B)
  PROVE  IInv'
<1> USE DEF IInv, StoreFails, NoCall, broker, process, volume, faults, history
<1>1. TypeOK'
  <2>1. files' \subseteq Large
    BY DEF TypeOK
  <2>2. storeErrors' \in 0 .. MaxStoreErrors
    BY PipelineAssumption DEF TypeOK
  <2> QED
    BY <2>1, <2>2 DEF TypeOK, Control, CallFrom
<1>2. Unassigned'
  BY DEF TypeOK, Unassigned
<1>3. BatchShape'
  BY DEF TypeOK, BatchShape
<1>4. CallShape'
  BY DEF TypeOK, CallShape, BatchShape, Recs, Malformed, Kept, WellFormed, RecordOf
<1>5. IsolateShape'
  BY DEF TypeOK, IsolateShape, CallShape, Recs, Kept, WellFormed, RecordOf
<1>6. DoneIsReadable'
  BY DEF TypeOK, BatchShape, DoneIsReadable, Done, Good, WellFormed, RecordOf
<1>7. ContentAddressed'
  BY DEF TypeOK, ContentAddressed, Readable
<1>8. AckedIsReadable'
  BY DEF TypeOK, AckedIsReadable, Good, WellFormed, Readable
<1> QED
  BY <1>1, <1>2, <1>3, <1>4, <1>5, <1>6, <1>7, <1>8

LEMMA CrashStep ==
  ASSUME IInv, Crash
  PROVE  IInv'
<1> USE DEF IInv, Crash, NoCall, NoCounts, broker, process, volume, faults, history
<1>1. TypeOK'
  <2>1. crashes' \in 0 .. MaxCrashes
    BY PipelineAssumption DEF TypeOK
  <2> QED
    BY <2>1 DEF TypeOK, Control, CallFrom
<1>2. Unassigned'
  BY DEF TypeOK, Unassigned
<1>3. BatchShape'
  BY DEF TypeOK, BatchShape
<1>4. CallShape'
  BY DEF TypeOK, CallShape, BatchShape, Recs, Malformed, Kept, WellFormed, RecordOf
<1>5. IsolateShape'
  BY DEF TypeOK, IsolateShape, CallShape, Recs, Kept, WellFormed, RecordOf
<1>6. DoneIsReadable'
  BY DEF TypeOK, BatchShape, DoneIsReadable, Done, Good, WellFormed, RecordOf
<1>7. ContentAddressed'
  BY DEF TypeOK, ContentAddressed, Readable
<1>8. AckedIsReadable'
  BY DEF TypeOK, Unassigned, AckedIsReadable, Good, WellFormed
<1> QED
  BY <1>1, <1>2, <1>3, <1>4, <1>5, <1>6, <1>7, <1>8

LEMMA StutterStep ==
  ASSUME IInv, UNCHANGED vars
  PROVE  IInv'
<1> USE DEF IInv, vars, broker, process, volume, faults, history
<1>1. TypeOK'
  BY DEF TypeOK, Control, DeliveryState, CallFrom
<1>2. Unassigned'
  BY DEF TypeOK, Unassigned
<1>3. BatchShape'
  BY DEF TypeOK, BatchShape
<1>4. CallShape'
  BY DEF TypeOK, CallShape, BatchShape, Recs, Malformed, Kept, WellFormed, RecordOf
<1>5. IsolateShape'
  BY DEF TypeOK, IsolateShape, CallShape, Recs, Kept, WellFormed, RecordOf
<1>6. DoneIsReadable'
  BY DEF TypeOK, BatchShape, DoneIsReadable, Done, Good, WellFormed, RecordOf
<1>7. ContentAddressed'
  BY DEF TypeOK, ContentAddressed, Readable
<1>8. AckedIsReadable'
  BY DEF TypeOK, Unassigned, AckedIsReadable, Good, WellFormed
<1> QED
  BY <1>1, <1>2, <1>3, <1>4, <1>5, <1>6, <1>7, <1>8

-----------------------------------------------------------------------------
LEMMA InitIInv == Init => IInv
<1> SUFFICES ASSUME Init PROVE IInv
  OBVIOUS
<1> USE DEF Init
<1>1. position \in PositionType /\ Rows(table) = {}
  BY DEF NoPosition, PositionType, Rows, EmptyTable
<1>2. TypeOK
  BY <1>1, PipelineAssumption, SubstrateAssumption
     DEF TypeOK, DeliveryState, Control, CallFrom, NoCall, NoCounts, EmptyTable
<1>3. Unassigned /\ BatchShape /\ CallShape /\ IsolateShape
  BY DEF Unassigned, BatchShape, CallShape, IsolateShape
<1>4. DoneIsReadable /\ ContentAddressed /\ AckedIsReadable
  BY <1>1 DEF DoneIsReadable, ContentAddressed, AckedIsReadable
<1> QED
  BY <1>2, <1>3, <1>4 DEF IInv

LEMMA NextIInv == IInv /\ [Next]_vars => IInv'
<1> SUFFICES ASSUME IInv, [Next]_vars PROVE IInv'
  OBVIOUS
<1>1. CASE Broker
  BY <1>1, PublishStep, WindowPassesStep, DiscardOldestStep, AckWaitPassesStep
     DEF Broker
<1>2. CASE Archive
  <2>1. ASSUME EmptyFetch PROVE IInv'
    BY <2>1, StutterStep DEF EmptyFetch
  <2> QED
    BY <1>2, <2>1, StartStep, FetchStep, RefuseJunkStep, TermJunkStep, DrainedStep,
       HandleBatchStep, IsolateOneStep, IsolateRefusalsStep, WriteBlobsStep,
       CommitTxStep, AnswerStep DEF Archive
<1>3. CASE Faults
  BY <1>3, StoreFailsStep, CrashStep DEF Faults
<1>4. CASE UNCHANGED vars
  BY <1>4, StutterStep
<1> QED
  BY <1>1, <1>2, <1>3, <1>4 DEF Next

(* IInv is an invariant of the pipeline: at every step of any interleaving *)
(* of the broker, Consume's loop, HandleBatch, isolate, the substrate's    *)
(* transaction and the faults.                                             *)
THEOREM Invariance == Spec => []IInv
BY InitIInv, NextIInv, PTL DEF Spec

(* Every variable keeps its type. *)
THEOREM TypeCorrect == Spec => []TypeOK
<1>1. IInv => TypeOK
  BY DEF IInv
<1> QED
  BY <1>1, Invariance, PTL

(* The delivery contract of Consume: what is acknowledged can be read back *)
(* from the archive, whatever crashed, failed or was redelivered.          *)
THEOREM AckedIsAlwaysReadable == Spec => []AckedIsReadable
<1>1. IInv => AckedIsReadable
  BY DEF IInv
<1> QED
  BY <1>1, Invariance, PTL

(* AppendCanonicalBatch never stores bytes under a hash that does not      *)
(* describe them, and never a row whose file is missing.                   *)
THEOREM StoreIsContentAddressed == Spec => []ContentAddressed
<1>1. IInv => ContentAddressed
  BY DEF IInv
<1> QED
  BY <1>1, Invariance, PTL

-----------------------------------------------------------------------------
(* The position and the rows. *)

(* PositionAgreesWithRows, strengthened: no row without a position. *)
PInv ==
  /\ PositionAgreesWithRows
  /\ Rows(table) # {} => position.recorded

(* Steps that leave the volume alone only add messages to the log. *)
LEMMA LogGrows ==
  ASSUME IInv, NEW s \in Seqs, Good(s), [Next]_vars
  PROVE  log'[s] = log[s] /\ Good(s)' /\ s <= last
<1>1. s <= last
  BY SeqsNatural DEF IInv, TypeOK, Unassigned, Good, NoMessage
<1>2. log'[s] = log[s]
  <2>1. CASE \E m \in Wire : Publish(m)
    BY <1>1, <2>1, SeqsNatural DEF Publish, IInv, TypeOK
  <2>2. CASE ~ \E m \in Wire : Publish(m)
    BY <2>2 DEF Next, Broker, Archive, Faults, WindowPasses, DiscardOldest, AckWaitPasses,
         Start, Fetch, EmptyFetch, RefuseJunk, TermJunk, Drained, HandleBatch, IsolateOne,
         IsolateRefusals, WriteBlobs, CommitTx, Answer, StoreFails, Crash,
         vars, broker
  <2> QED
    BY <2>1, <2>2
<1> QED
  BY <1>1, <1>2 DEF Good, WellFormed

(* RecordRejected widens the span and touches no row. *)
LEMMA RefuseJunkPosition ==
  ASSUME IInv, PInv, NEW s \in Seqs, RefuseJunk(s)
  PROVE  PInv'
<1>1. table' = table /\ log' = log
  BY DEF RefuseJunk, broker
<1>2. CASE position' = position
  BY <1>1, <1>2 DEF PInv, PositionAgreesWithRows, Good, WellFormed
<1>3. CASE position' = Refuse(position, s)
  <2>1. /\ position'.recorded
        /\ position'.committed = position.committed
        /\ position.recorded => /\ position'.first <= position.first
                                /\ position.highest <= position'.highest
    BY <1>3, SeqsNatural DEF Refuse, Upsert, IInv, TypeOK, PositionType
  <2>2. /\ position.first \in Nat /\ position.highest \in Nat
        /\ position'.first \in Nat /\ position'.highest \in Nat
    BY <1>3, SeqsNatural DEF Refuse, Upsert, IInv, TypeOK, PositionType
  <2> QED
    BY <1>1, <2>1, <2>2, SeqsNatural DEF PInv, PositionAgreesWithRows, Good, WellFormed
<1> QED
  BY <1>2, <1>3 DEF RefuseJunk

(* CommitTx adds the rows and their number in one transaction. *)
LEMMA CommitTxPosition ==
  ASSUME IInv, PInv, CommitTx
  PROVE  PInv'
<1>1. /\ call.recs \in SUBSET SeqRecord /\ IsFiniteSet(call.recs)
      /\ call.rejected \in SUBSET Seqs
      /\ call.recs # {} \/ call.rejected # {}
      /\ \A r \in call.recs : Verifies(r)
      /\ table \in Table /\ position \in PositionType
  BY CallIsLegal DEF CommitTx, IInv, TypeOK, Table
<1>2. position' = Advance(position, table, call.recs, call.rejected) /\ log' = log
  BY DEF CommitTx, broker
<1>3. /\ position' \in PositionType
      /\ position'.committed = position.committed + Cardinality(Hashes(call.recs) \ Rows(table))
      /\ \A r \in call.recs : position'.first <= r.seq /\ r.seq <= position'.highest
      /\ position.recorded => /\ position'.first <= position.first
                              /\ position.highest <= position'.highest
  BY <1>1, <1>2, AdvanceFacts
<1>4. position'.recorded
  BY <1>2 DEF Advance, Upsert
<1>5. Rows(table') = Rows(table) \cup Hashes(call.recs)
  BY CommitTxStores
<1>6. position'.committed = Cardinality(Rows(table'))
  <2>1. /\ IsFiniteSet(Rows(table))
        /\ IsFiniteSet(Hashes(call.recs) \ Rows(table))
        /\ Rows(table) \cap (Hashes(call.recs) \ Rows(table)) = {}
        /\ Rows(table') = Rows(table) \cup (Hashes(call.recs) \ Rows(table))
    BY <1>1, <1>5, HashesBounded, FS_Subset, SubstrateAssumption DEF Rows
  <2>2. Cardinality(Rows(table'))
          = Cardinality(Rows(table)) + Cardinality(Hashes(call.recs) \ Rows(table))
    <3> DEFINE A == Rows(table)
               B == Hashes(call.recs) \ Rows(table)
    <3>1. /\ IsFiniteSet(A) /\ IsFiniteSet(B) /\ A \cap B = {}
          /\ Rows(table') = A \cup B
      BY <2>1
    <3> HIDE DEF A, B
    <3>2. Cardinality(A \cap B) = 0
      BY <3>1, FS_EmptySet
    <3>3. Cardinality(A) \in Nat /\ Cardinality(B) \in Nat
      BY <3>1, FS_CardinalityType
    <3>4. Cardinality(A \cup B) = Cardinality(A) + Cardinality(B)
      <4>1. Cardinality(A \cup B) = Cardinality(A) + Cardinality(B) - Cardinality(A \cap B)
        BY <3>1, FS_Union
      <4> QED
        BY <3>2, <3>3, <4>1
    <3> QED
      BY <3>1, <3>4 DEF A, B
  <2> QED
    BY <1>3, <2>2 DEF PInv, PositionAgreesWithRows
<1>7. ASSUME NEW h \in Rows(table')
      PROVE  \E s \in Seqs : /\ position'.first <= s /\ s <= position'.highest
                             /\ Good(s)' /\ log'[s].hash = h
  <2>1. CASE h \in Rows(table)
    <3>1. PICK s \in Seqs : /\ position.first <= s /\ s <= position.highest
                            /\ Good(s) /\ log[s].hash = h
      BY <2>1 DEF PInv, PositionAgreesWithRows
    <3>2. position.recorded
      BY <2>1 DEF PInv
    <3>3. position'.first <= s /\ s <= position'.highest
      BY <1>1, <1>3, <3>1, <3>2, SeqsNatural DEF PositionType
    <3> QED
      BY <1>2, <3>1, <3>3 DEF Good, WellFormed
  <2>2. CASE h \in Hashes(call.recs)
    <3>1. PICK r \in call.recs : r.hash = h
      BY <2>2 DEF Hashes
    <3>2. r \in Recs /\ Verifies(r)
      BY <1>1, <3>1 DEF CommitTx, IInv, CallShape, IsolateShape
    <3>3. PICK s \in Kept : r = RecordOf(s)
      BY <3>2 DEF Recs
    <3>4. s \in Seqs /\ r.seq = s /\ Good(s) /\ log[s].hash = h
      BY <3>1, <3>2, <3>3
         DEF RecordOf, Kept, IInv, TypeOK, BatchShape, Good, Verifies, Hash
    <3> QED
      BY <1>2, <1>3, <3>1, <3>4 DEF Good, WellFormed
  <2> QED
    BY <1>5, <2>1, <2>2
<1> QED
  BY <1>4, <1>6, <1>7 DEF PInv, PositionAgreesWithRows

(* Every other step leaves the volume's rows and position as they are. *)
LEMMA NextPInv == IInv /\ PInv /\ [Next]_vars => PInv'
<1> SUFFICES ASSUME IInv, PInv, [Next]_vars PROVE PInv'
  OBVIOUS
<1>1. CASE CommitTx
  BY <1>1, CommitTxPosition
<1>2. CASE \E s \in Seqs : RefuseJunk(s)
  BY <1>2, RefuseJunkPosition
<1>3. CASE ~ CommitTx /\ ~ \E s \in Seqs : RefuseJunk(s)
  <2>1. UNCHANGED <<table, position>>
    BY <1>3 DEF Next, Broker, Archive, Faults, Publish, WindowPasses, DiscardOldest,
         AckWaitPasses, Start, Fetch, EmptyFetch, TermJunk, Drained, HandleBatch,
         IsolateOne, IsolateRefusals, WriteBlobs, Answer, StoreFails, Crash,
         vars, broker, volume
  <2> QED
    BY <2>1, LogGrows DEF PInv, PositionAgreesWithRows
<1> QED
  BY <1>1, <1>2, <1>3

(* committed is the number of rows and every row lies inside the span, at  *)
(* every instant: the record and the position cannot disagree across a     *)
(* crash.                                                                  *)
THEOREM PositionAlwaysAgreesWithRows == Spec => []PositionAgreesWithRows
<1>1. Init => PInv
  <2>1. ASSUME Init PROVE Rows(table) = {} /\ position.committed = 0
    BY <2>1 DEF Init, Rows, EmptyTable, NoPosition
  <2> QED
    BY <2>1, FS_EmptySet DEF PInv, PositionAgreesWithRows
<1>2. PInv => PositionAgreesWithRows
  BY DEF PInv
<1> QED
  BY <1>1, <1>2, NextPInv, Invariance, PTL DEF Spec

-----------------------------------------------------------------------------
(* The pipeline implements the contract. *)

LEMMA InitRefines == Init => Contract!Init
<1> SUFFICES ASSUME Init PROVE Contract!Init
  OBVIOUS
<1>1. \A s \in Seqs : ~ Good(s)
  BY DEF Init, Good, NoMessage
<1>2. Rows(table) = {} /\ unplaced = {} /\ \A s \in Seqs : delivery[s] # "done"
  BY DEF Init, Rows, EmptyTable
<1> QED
  BY <1>1, <1>2 DEF Contract!Init, Carried

(* What a step must leave alone for the contract to stutter on a component. *)
LEMMA MappingUnchanged ==
  /\ UNCHANGED log => UNCHANGED Carried /\ UNCHANGED {s \in Seqs : Good(s)}
  /\ UNCHANGED table => UNCHANGED Rows(table)
  /\ UNCHANGED delivery => UNCHANGED {s \in Seqs : delivery[s] = "done"}
BY DEF Carried, Good, WellFormed, Rows

(* A keepable message is an offer, any other message nothing. *)
LEMMA PublishRefines ==
  ASSUME IInv, NEW m \in Wire, Publish(m)
  PROVE  [Contract!Next]_(Contract!contractVars)
<1>0. PICK n \in Seqs : n = last + 1
  BY PipelineAssumption DEF Publish, IInv, TypeOK, Seqs
<1>1. /\ n > last /\ log' = [log EXCEPT ![n] = m]
      /\ log \in [Seqs -> Message \cup {NoMessage}]
      /\ UNCHANGED <<delivery, table, unplaced>>
      /\ m \in Message
  BY <1>0, PipelineAssumption DEF Publish, IInv, TypeOK, volume, history
<1>2. log[n] = NoMessage /\ n \notin unplaced
  BY <1>1 DEF IInv, Unassigned
<1>3. ~ Good(n)
  BY <1>2 DEF Good, NoMessage
<1>4. UNCHANGED <<Rows(table), {s \in Seqs : delivery[s] = "done"}>>
  BY <1>1, MappingUnchanged
<1>5. \A s \in Seqs : s # n => log'[s] = log[s] /\ Good(s)' = Good(s)
  BY <1>1 DEF Good, WellFormed
<1>6. CASE Good(n)'
  <2>1. m.hash \in Content
    BY <1>1, <1>6 DEF Message, Good, WellFormed
  <2>2. Carried[n] = Absent /\ Carried' = [Carried EXCEPT ![n] = m.hash]
    BY <1>1, <1>3, <1>5, <1>6 DEF Carried
  <2>3. ({s \in Seqs : Good(s)} \ unplaced)'
          = ({s \in Seqs : Good(s)} \ unplaced) \cup {n}
    BY <1>1, <1>2, <1>5, <1>6
  <2>4. Contract!Offer(n, m.hash)
    BY <1>4, <2>2, <2>3 DEF Contract!Offer
  <2> QED
    BY <1>1, <2>1, <2>4 DEF Contract!Next
<1>7. CASE ~ Good(n)'
  <2>1. Carried' = Carried
    BY <1>3, <1>5, <1>7 DEF Carried
  <2>2. UNCHANGED ({s \in Seqs : Good(s)} \ unplaced)
    BY <1>1, <1>3, <1>5, <1>7
  <2> QED
    BY <1>4, <2>1, <2>2 DEF Contract!contractVars
<1> QED
  BY <1>6, <1>7

(* A fetch excuses what could not be placed. *)
LEMMA FetchRefines ==
  ASSUME IInv, NEW F \in SUBSET Seqs, NEW B \in SUBSET F, Fetch(F, B)
  PROVE  [Contract!Next]_(Contract!contractVars)
<1>1. /\ UNCHANGED <<log, table>>
      /\ unplaced' = unplaced \cup B
      /\ delivery' = [s \in Seqs |-> IF s \in F THEN "out" ELSE delivery[s]]
      /\ \A s \in F : delivery[s] # "done"
  BY DEF Fetch, Deliverable, volume
<1>2. UNCHANGED <<Carried, Rows(table), {s \in Seqs : Good(s)}>>
  BY <1>1, MappingUnchanged
<1>3. UNCHANGED {s \in Seqs : delivery[s] = "done"}
  BY <1>1
<1>4. ({s \in Seqs : Good(s)} \ unplaced)' = ({s \in Seqs : Good(s)} \ unplaced) \ B
  BY <1>1, <1>2
<1>5. Contract!Excuse(B)
  BY <1>2, <1>3, <1>4 DEF Contract!Excuse
<1> QED
  BY <1>5 DEF Contract!Next

(* A transaction keeps the records of the call, each of them offered. *)
LEMMA CommitTxRefines ==
  ASSUME IInv, CommitTx
  PROVE  [Contract!Next]_(Contract!contractVars)
<1>1. Rows(table') = Rows(table) \cup Hashes(call.recs)
  BY CommitTxStores
<1>2. UNCHANGED <<log, delivery, unplaced>>
  BY DEF CommitTx, broker
<1>3. UNCHANGED <<Carried, {s \in Seqs : Good(s)}, {s \in Seqs : delivery[s] = "done"}>>
  BY <1>2, MappingUnchanged
<1>4. ASSUME NEW c \in Hashes(call.recs)
      PROVE  c \in Content /\ \E s \in Seqs : Carried[s] = c
  <2>1. PICK r \in call.recs : r.hash = c
    BY DEF Hashes
  <2>2. r \in Recs /\ Verifies(r)
    BY <2>1 DEF CommitTx, IInv, CallShape, IsolateShape
  <2>3. PICK s \in Kept : r = RecordOf(s)
    BY <2>2 DEF Recs
  <2>4. s \in Seqs /\ Good(s) /\ log[s].hash = c
    BY <2>1, <2>2, <2>3
       DEF RecordOf, Kept, IInv, TypeOK, BatchShape, Good, Verifies, Hash
  <2>5. call.recs \in SUBSET [hash : Content, bytes : Content, seq : Seqs]
    BY DEF IInv, TypeOK
  <2> QED
    BY <2>1, <2>4, <2>5 DEF Carried
<1>5. Contract!Keep(Hashes(call.recs))
  BY <1>1, <1>2, <1>3, <1>4 DEF Contract!Keep
<1> QED
  BY <1>4, <1>5 DEF Contract!Next

(* A disposition settles only what is owed and kept, or not owed. *)
LEMMA SettleRefines ==
  ASSUME NEW S \in SUBSET Seqs, NEW R \in SUBSET Seqs, Settle(S, R, "done"),
         UNCHANGED <<log, table, unplaced>>,
         \A s \in S : Good(s) /\ s \notin unplaced => log[s].hash \in Rows(table)
  PROVE  [Contract!Next]_(Contract!contractVars)
<1>1. UNCHANGED <<Carried, Rows(table), {s \in Seqs : Good(s)}>>
  BY MappingUnchanged
<1>2. {s \in Seqs : delivery[s] = "done"}'
        = {s \in Seqs : delivery[s] = "done"} \cup R
  BY DEF Settle
<1>3. \A s \in R : Good(s) /\ s \notin unplaced => Carried[s] \in Rows(table)
  BY DEF Settle, Carried
<1>4. Contract!Settle(R)
  BY <1>1, <1>2, <1>3 DEF Contract!Settle
<1> QED
  BY <1>4 DEF Contract!Next

LEMMA TermJunkRefines ==
  ASSUME IInv, NEW R \in SUBSET Seqs, TermJunk(R)
  PROVE  [Contract!Next]_(Contract!contractVars)
<1>1. call.rejected \in SUBSET Seqs /\ \A s \in call.rejected : ~ Good(s)
  BY DEF TermJunk, IInv, TypeOK, CallShape, BatchShape, Good
<1>2. Settle(call.rejected, R, "done") /\ UNCHANGED <<log, table, unplaced>>
  BY DEF TermJunk, volume, history
<1> QED
  BY <1>1, <1>2, SettleRefines

(* An ack settles what the batch stored; a nak settles nothing. *)
LEMMA AnswerRefines ==
  ASSUME IInv, NEW R \in SUBSET Seqs, Answer(R)
  PROVE  [Contract!Next]_(Contract!contractVars)
<1>1. UNCHANGED <<log, table, unplaced>> /\ held \in SUBSET Seqs
  BY DEF Answer, volume, history, IInv, TypeOK
<1>2. CASE pc = "ack"
  <2>1. Settle(held, R, "done")
    BY <1>2 DEF Answer
  <2>2. \A s \in held : Good(s) /\ s \notin unplaced => log[s].hash \in Rows(table)
    BY <1>2 DEF IInv, BatchShape, DoneIsReadable, Done, Readable
  <2> QED
    BY <1>1, <2>1, <2>2, SettleRefines
<1>3. CASE pc # "ack"
  <2>1. UNCHANGED {s \in Seqs : delivery[s] = "done"}
    BY <1>3 DEF Answer, Settle, IInv, BatchShape
  <2> QED
    BY <1>1, <2>1, MappingUnchanged DEF Contract!contractVars
<1> QED
  BY <1>2, <1>3

(* Every other step is invisible to the contract. *)
LEMMA OthersStutter ==
  ASSUME IInv, [Next]_vars,
         ~ \E m \in Wire : Publish(m),
         ~ \E F \in SUBSET Seqs : \E B \in SUBSET F : Fetch(F, B),
         ~ CommitTx,
         ~ \E R \in SUBSET Seqs : TermJunk(R) \/ Answer(R)
  PROVE  UNCHANGED Contract!contractVars
<1>1. UNCHANGED <<log, table, unplaced>>
  BY DEF Next, Broker, Archive, Faults, WindowPasses, DiscardOldest,
       AckWaitPasses, Start, EmptyFetch, RefuseJunk, Drained, HandleBatch,
       IsolateOne, IsolateRefusals, WriteBlobs, StoreFails, Crash,
       vars, broker, volume, history
<1>2. UNCHANGED {s \in Seqs : delivery[s] = "done"}
  <2>1. CASE \E s \in Seqs : AckWaitPasses(s)
    BY <2>1 DEF AckWaitPasses, IInv, TypeOK
  <2>2. CASE ~ \E s \in Seqs : AckWaitPasses(s)
    <3>1. UNCHANGED delivery
      BY <2>2 DEF Next, Broker, Archive, Faults, WindowPasses, DiscardOldest,
           Start, EmptyFetch, RefuseJunk, Drained, HandleBatch,
           IsolateOne, IsolateRefusals, WriteBlobs, StoreFails, Crash, vars, broker
    <3> QED
      BY <3>1
  <2> QED
    BY <2>1, <2>2
<1> QED
  BY <1>1, <1>2, MappingUnchanged DEF Contract!contractVars

(* The whole pipeline - batches, isolation, two-step writes, lost acks,    *)
(* redelivery, crashes - implements the contract: a sequence is settled    *)
(* only once the record it carried is kept.                                *)
THEOREM Implementation == Spec => ImplementsContract
<1>1. IInv /\ [Next]_vars => [Contract!Next]_(Contract!contractVars)
  <2> SUFFICES ASSUME IInv, [Next]_vars
               PROVE  [Contract!Next]_(Contract!contractVars)
    OBVIOUS
  <2>1. CASE \E m \in Wire : Publish(m)
    BY <2>1, PublishRefines
  <2>2. CASE \E F \in SUBSET Seqs : \E B \in SUBSET F : Fetch(F, B)
    BY <2>2, FetchRefines
  <2>3. CASE CommitTx
    BY <2>3, CommitTxRefines
  <2>4. CASE \E R \in SUBSET Seqs : TermJunk(R) \/ Answer(R)
    BY <2>4, TermJunkRefines, AnswerRefines
  <2> QED
    BY <2>1, <2>2, <2>3, <2>4, OthersStutter
<1> QED
  BY <1>1, InitRefines, Invariance, PTL DEF Spec, ImplementsContract, Contract!Spec

-----------------------------------------------------------------------------
(* The position. *)

(* q is a position p may become: wider, and counting no less.              *)
Grew(p, q) ==
  /\ p.recorded => q.recorded /\ q.first <= p.first
  /\ q.highest >= p.highest
  /\ q.committed >= p.committed
  /\ q.rejected >= p.rejected
  /\ q.duplicates >= p.duplicates

(* Nothing has been counted before the row of stream_position exists.      *)
Blank(p) == ~ p.recorded => p = NoPosition

LEMMA UpsertGrows ==
  ASSUME NEW p \in PositionType, Blank(p),
         NEW f \in Nat, NEW h \in Nat, NEW c \in Nat, NEW r \in Nat, NEW d \in Nat
  PROVE  /\ Upsert(p, f, h, c, r, d) \in PositionType
         /\ Upsert(p, f, h, c, r, d).recorded
         /\ Grew(p, Upsert(p, f, h, c, r, d))
BY DEF Upsert, Grew, Blank, NoPosition, PositionType

(* A transaction counts every record of its call once, as committed or as  *)
(* a duplicate, and every refusal once.                                    *)
LEMMA AdvanceIsUpsert ==
  ASSUME NEW t \in Table,
         NEW recs \in SUBSET SeqRecord, IsFiniteSet(recs),
         NEW rejected \in SUBSET Seqs,
         recs # {} \/ rejected # {}
  PROVE  \E f \in Seqs, h \in Seqs, c \in Nat, d \in Nat :
           /\ f <= h
           /\ \A s \in {r.seq : r \in recs} \cup rejected : f <= s /\ s <= h
           /\ c + d = Cardinality(recs)
           /\ \A p \in PositionType :
                Advance(p, t, recs, rejected) =
                  Upsert(p, f, h, c, Cardinality(rejected), d)
<1> DEFINE seqs == {r.seq : r \in recs} \cup rejected
           fresh == Inserted(t, recs)
           dups == Cardinality(recs) - fresh
<1>1. seqs \in SUBSET Seqs /\ seqs # {}
  BY DEF SeqRecord
<1>2. /\ Min(seqs) \in Seqs /\ Max(seqs) \in Seqs
      /\ \A s \in seqs : Min(seqs) <= s /\ s <= Max(seqs)
  <2> HIDE DEF seqs
  <2> QED
    BY <1>1, MinMax
<1>3. Min(seqs) <= Max(seqs)
  <2> HIDE DEF seqs
  <2>1. PICK s \in seqs : s \in Seqs
    BY <1>1
  <2>2. Min(seqs) <= s /\ s <= Max(seqs)
    BY <1>2
  <2>3. Min(seqs) \in Nat /\ Max(seqs) \in Nat /\ s \in Nat
    BY <1>2, <2>1, SeqsNatural
  <2> QED
    BY <2>2, <2>3
<1>4. /\ IsFiniteSet(Hashes(recs))
      /\ Cardinality(Hashes(recs)) <= Cardinality(recs)
      /\ Cardinality(recs) \in Nat
  BY HashesBounded, FS_CardinalityType
<1>5. fresh \in Nat /\ fresh <= Cardinality(Hashes(recs))
  BY <1>4, FS_Subset, FS_CardinalityType DEF Inserted
<1>6. dups \in Nat /\ fresh + dups = Cardinality(recs)
  <2> HIDE DEF fresh
  <2> QED
    BY <1>4, <1>5, FS_CardinalityType
<1>7. \A p \in PositionType :
        Advance(p, t, recs, rejected) =
          Upsert(p, Min(seqs), Max(seqs), fresh, Cardinality(rejected), dups)
  BY DEF Advance
<1> HIDE DEF dups, fresh
<1>8. \A s \in {r.seq : r \in recs} \cup rejected : Min(seqs) <= s /\ s <= Max(seqs)
  BY <1>2
<1> HIDE DEF seqs
<1> QED
  BY <1>2, <1>3, <1>5, <1>6, <1>7, <1>8

(* The two steps that write the position, and what they write.  Every      *)
(* other step leaves the rows, the position and the refusals alone.        *)
LEMMA CommitTxAdvances ==
  ASSUME IInv, CommitTx
  PROVE  \E f \in Seqs, h \in Seqs, c \in Nat, d \in Nat :
           /\ f <= h
           /\ \A s \in call.rejected : f <= s /\ s <= h
           /\ c + d = Cardinality(call.recs)
           /\ position' = Upsert(position, f, h, c, Cardinality(call.rejected), d)
<1>1. /\ call.recs \in SUBSET SeqRecord /\ IsFiniteSet(call.recs)
      /\ call.rejected \in SUBSET Seqs
      /\ call.recs # {} \/ call.rejected # {}
      /\ table \in Table /\ position \in PositionType
  BY CallIsLegal DEF CommitTx, IInv, TypeOK, Table
<1>2. position' = Advance(position, table, call.recs, call.rejected)
  BY DEF CommitTx
<1>3. PICK f \in Seqs, h \in Seqs, c \in Nat, d \in Nat :
        /\ f <= h
        /\ \A s \in {r.seq : r \in call.recs} \cup call.rejected : f <= s /\ s <= h
        /\ c + d = Cardinality(call.recs)
        /\ \A p \in PositionType :
             Advance(p, table, call.recs, call.rejected) =
               Upsert(p, f, h, c, Cardinality(call.rejected), d)
  BY <1>1, AdvanceIsUpsert
<1> QED
  BY <1>1, <1>2, <1>3

LEMMA OthersKeepTheBooks ==
  ASSUME [Next]_vars, ~ CommitTx, ~ \E s \in Seqs : RefuseJunk(s)
  PROVE  UNCHANGED <<table, position, refused>>
BY DEF Next, Broker, Archive, Faults, Publish, WindowPasses, DiscardOldest,
     AckWaitPasses, Start, Fetch, EmptyFetch, TermJunk, Drained, HandleBatch,
     IsolateOne, IsolateRefusals, WriteBlobs, Answer, StoreFails, Crash,
     vars, broker, volume, history

LEMMA PositionGrows ==
  ASSUME IInv, Blank(position), [Next]_vars
  PROVE  Grew(position, position') /\ Blank(position')
<1>0. position \in PositionType
  BY DEF IInv, TypeOK
<1>1. CASE position' = position
  BY <1>0, <1>1 DEF Grew, PositionType
<1>2. CASE CommitTx
  <2>1. PICK f \in Seqs, h \in Seqs, c \in Nat, d \in Nat :
          position' = Upsert(position, f, h, c, Cardinality(call.rejected), d)
    BY <1>2, CommitTxAdvances
  <2>2. Cardinality(call.rejected) \in Nat /\ f \in Nat /\ h \in Nat
    BY SeqsFinite, SeqsNatural DEF IInv, TypeOK
  <2> QED
    BY <1>0, <2>1, <2>2, UpsertGrows DEF Blank
<1>3. CASE \E s \in Seqs : RefuseJunk(s) /\ position' = Refuse(position, s)
  <2>1. PICK s \in Seqs : position' = Upsert(position, s, s, 0, 1, 0)
    BY <1>3 DEF Refuse
  <2> QED
    BY <1>0, <2>1, SeqsNatural, UpsertGrows DEF Blank
<1> QED
  BY <1>1, <1>2, <1>3, OthersKeepTheBooks DEF RefuseJunk

(* No transaction of the archive walks the durable position backwards or   *)
(* forgets it (positionUpsert, substrate.go).                              *)
THEOREM PositionNeverGoesBack == Spec => PositionMonotone
<1>1. Init => Blank(position)
  BY DEF Init, Blank
<1>2. IInv /\ Blank(position) /\ [Next]_vars => Blank(position)'
  BY PositionGrows DEF Blank
<1>3. IInv /\ Blank(position) /\ [Next]_vars =>
        [/\ position.recorded =>
              position'.recorded /\ position'.first <= position.first
         /\ position'.highest >= position.highest
         /\ position'.committed >= position.committed
         /\ position'.rejected >= position.rejected
         /\ position'.duplicates >= position.duplicates]_vars
  BY PositionGrows DEF Grew
<1> QED
  BY <1>1, <1>2, <1>3, Invariance, PTL DEF Spec, PositionMonotone

-----------------------------------------------------------------------------
(* What is announced. *)

(* isolate refuses only sequences of the batch, and forgets them with it.  *)
PoisonShape ==
  /\ poisoned \subseteq held \ blind
  /\ pc \notin {"isolate", "blobs", "tx"} => poisoned = {}
  /\ pc \in {"blobs", "tx"} /\ call.from = "batch" => poisoned = {}
  /\ \A s \in poisoned : ~ Good(s)

(* The messages of the batch stay what they were fetched as.               *)
LEMMA HeldMessagesStay ==
  ASSUME IInv, [Next]_vars
  PROVE  \A s \in held : log'[s] = log[s]
<1>1. ASSUME NEW m \in Wire, Publish(m) PROVE \A s \in held : log'[s] = log[s]
  BY <1>1, SeqsNatural DEF Publish, IInv, TypeOK, BatchShape
<1>2. CASE ~ \E m \in Wire : Publish(m)
  BY <1>2 DEF Next, Broker, Archive, Faults, WindowPasses, DiscardOldest, AckWaitPasses,
       Start, Fetch, EmptyFetch, RefuseJunk, TermJunk, Drained, HandleBatch, IsolateOne,
       IsolateRefusals, WriteBlobs, CommitTx, Answer, StoreFails, Crash,
       vars, broker
<1> QED
  BY <1>1, <1>2

LEMMA PoisonShapeHolds == IInv /\ PoisonShape /\ [Next]_vars => PoisonShape'
<1> SUFFICES ASSUME IInv, PoisonShape, [Next]_vars PROVE PoisonShape'
  OBVIOUS
<1> USE DEF PoisonShape
<1>1. \A s \in held : log'[s] = log[s]
  BY HeldMessagesStay
<1>2. CASE HandleBatch
  BY <1>1, <1>2 DEF HandleBatch
<1>3. ASSUME NEW r \in todo, IsolateOne(r) PROVE PoisonShape'
  <2>1. PICK s \in held \ blind : r = RecordOf(s)
    BY DEF IInv, IsolateShape, Recs, Kept
  <2>2. r.seq = s
    BY <2>1 DEF RecordOf
  <2>3. ~ Verifies(r) => ~ Good(s)
    BY <2>1 DEF Verifies, Hash, RecordOf, Good
  <2>4. held' = held /\ blind' = blind /\ log' = log
    BY <1>3 DEF IsolateOne, broker
  <2> QED
    BY <1>3, <2>2, <2>3, <2>4 DEF IsolateOne, Good, WellFormed
<1>4. CASE IsolateRefusals
  BY <1>1, <1>4 DEF IsolateRefusals, Good, WellFormed
<1>5. CASE CommitTx
  BY <1>1, <1>5 DEF CommitTx, IInv, CallShape, Good, WellFormed
<1>6. CASE \E B \in SUBSET Large : StoreFails(B)
  BY <1>6 DEF StoreFails
<1>7. CASE Crash
  BY <1>7 DEF Crash
<1>8. CASE \E R \in SUBSET Seqs : Answer(R)
  BY <1>8 DEF Answer
<1>9. CASE \E F \in SUBSET Seqs : \E B \in SUBSET F : Fetch(F, B)
  BY <1>9 DEF Fetch
<1>10. CASE Drained
  BY <1>1, <1>10 DEF Drained
<1>11. CASE WriteBlobs
  BY <1>1, <1>11 DEF WriteBlobs, Good, WellFormed
<1>12. CASE \E s \in Seqs : RefuseJunk(s)
  BY <1>12 DEF RefuseJunk
<1>13. CASE \E R \in SUBSET Seqs : TermJunk(R)
  BY <1>13 DEF TermJunk
<1>14. CASE Broker \/ Start \/ EmptyFetch \/ UNCHANGED vars
  <2>1. UNCHANGED <<held, blind, poisoned, call>> /\ pc' \in {pc, "fetch"}
        /\ (pc' # pc => pc = "down")
    BY <1>14 DEF Broker, Publish, WindowPasses, DiscardOldest, AckWaitPasses, Start,
         EmptyFetch, vars, process
  <2> QED
    BY <1>1, <2>1 DEF Good, WellFormed
<1> QED
  BY <1>2, <1>3, <1>4, <1>5, <1>6, <1>7, <1>8, <1>9, <1>10, <1>11, <1>12, <1>13, <1>14
     DEF Next, Archive, Faults

(* The records isolate has committed and not yet announced.                *)
Behind ==
  IF pc = "isolate" \/ (pc \in {"blobs", "tx"} /\ call.from \in {"isolate", "refuse"})
  THEN {s \in Kept \ poisoned : RecordOf(s) \notin todo}
  ELSE {}

(* AnnouncedIsDurable, strengthened: what isolate is still to announce is  *)
(* durable too.                                                            *)
Announced ==
  counts.committed + Cardinality(Behind) <= position.committed + position.duplicates

LEMMA BehindFinite ==
  ASSUME IInv
  PROVE  Behind \in SUBSET Seqs /\ Cardinality(Behind) \in Nat
<1>1. Behind \in SUBSET Seqs
  BY DEF IInv, TypeOK, Behind, Kept
<1> QED
  BY <1>1, SeqsFinite

(* The records of a set of sequences are as many as the sequences.         *)
LEMMA RecordsCounted ==
  ASSUME NEW S \in SUBSET Seqs
  PROVE  Cardinality({RecordOf(s) : s \in S}) = Cardinality(S)
<1> DEFINE T == {RecordOf(s) : s \in S}
           f == [s \in S |-> RecordOf(s)]
<1>1. f \in Bijection(S, T)
  BY DEF Bijection, Injection, Surjection, IsInjective, RecordOf
<1>2. IsFiniteSet(S)
  BY SeqsFinite
<1> HIDE DEF f, T
<1>3. Cardinality(T) = Cardinality(S)
  BY <1>1, <1>2, FS_Bijection DEF ExistsBijection
<1> QED
  BY <1>3 DEF T

LEMMA CommitTxAnnounces ==
  ASSUME IInv, PoisonShape, Announced, CommitTx
  PROVE  Announced'
<1>1. PICK f \in Seqs, h \in Seqs, c \in Nat, d \in Nat :
        /\ c + d = Cardinality(call.recs)
        /\ position' = Upsert(position, f, h, c, Cardinality(call.rejected), d)
  BY CommitTxAdvances
<1>2. /\ position'.committed = position.committed + c
      /\ position'.duplicates = position.duplicates + d
  BY <1>1 DEF Upsert
<1>3. /\ position.committed \in Nat /\ position.duplicates \in Nat
      /\ counts.committed \in Nat
  BY DEF IInv, TypeOK, PositionType
<1>4. Cardinality(Behind) \in Nat
  BY BehindFinite
<1>5. UNCHANGED <<held, blind, log>>
  BY DEF CommitTx, broker
<1>6. Kept \in SUBSET Seqs
  BY DEF Kept, IInv, TypeOK
<1>7. CASE call.from = "batch"
  <2>1. Cardinality(call.recs) = Cardinality(Kept)
    BY <1>6, <1>7, RecordsCounted DEF CommitTx, IInv, CallShape, Recs
  <2>2. counts'.committed = counts.committed + Cardinality(Kept) /\ Behind' = {}
    BY <1>7 DEF CommitTx, Report, Behind
  <2>3. Cardinality(Kept) \in Nat
    BY <1>6, SeqsFinite
  <2>4. Behind = {}
    BY <1>7 DEF CommitTx, Behind
  <2> QED
    BY <1>1, <1>2, <1>3, <2>1, <2>2, <2>3, <2>4, FS_EmptySet DEF Announced
<1>8. CASE call.from = "isolate"
  <2>1. PICK r \in todo : call.recs = {r}
    BY <1>8 DEF CommitTx, IInv, CallShape
  <2>2. PICK s \in Kept : r = RecordOf(s)
    BY <2>1 DEF IInv, IsolateShape, Recs
  <2>3. Cardinality(call.recs) = 1
    BY <2>1, FS_Singleton
  <2>4. counts' = counts /\ todo' = todo \ {r} /\ poisoned' = poisoned /\ pc' = "isolate"
    BY <1>8, <2>1 DEF CommitTx
  <2>5. Behind' \subseteq Behind \cup {s}
    BY <1>5, <1>8, <2>2, <2>4 DEF CommitTx, Behind, Kept, WellFormed, RecordOf
  <2>6. /\ IsFiniteSet(Behind) /\ IsFiniteSet(Behind')
        /\ Cardinality(Behind') \in Nat
        /\ Cardinality(Behind') <= Cardinality(Behind) + 1
    <3> DEFINE X == Behind
               Y == Behind'
    <3>1. Y \subseteq X \cup {s} /\ IsFiniteSet(X)
      BY <2>5, BehindFinite, SeqsFinite
    <3> HIDE DEF X, Y
    <3>2. /\ IsFiniteSet(X \cup {s})
          /\ Cardinality(X \cup {s}) = IF s \in X THEN Cardinality(X) ELSE Cardinality(X) + 1
      BY <3>1, FS_AddElement
    <3>3. /\ IsFiniteSet(Y) /\ Cardinality(Y) <= Cardinality(X \cup {s})
          /\ Cardinality(Y) \in Nat /\ Cardinality(X) \in Nat
      BY <3>1, <3>2, FS_Subset, FS_CardinalityType
    <3>4. Cardinality(Y) <= Cardinality(X) + 1
      BY <3>2, <3>3
    <3> QED
      BY <3>1, <3>3, <3>4 DEF X, Y
  <2> QED
    BY <1>1, <1>2, <1>3, <1>4, <2>3, <2>4, <2>6 DEF Announced
<1>9. CASE call.from = "refuse"
  <2>1. call.recs = {} /\ todo = {}
    BY <1>9 DEF CommitTx, IInv, CallShape
  <2>2. c + d = 0
    BY <1>1, <2>1, FS_EmptySet
  <2>3. Behind = Kept \ poisoned
    BY <1>9, <2>1 DEF CommitTx, Behind
  <2>4. counts'.committed = counts.committed + Cardinality(Behind) /\ Behind' = {}
    BY <1>9, <2>3 DEF CommitTx, Report, Behind
  <2> QED
    BY <1>2, <1>3, <1>4, <2>2, <2>4, FS_EmptySet DEF Announced
<1> QED
  BY <1>7, <1>8, <1>9 DEF CommitTx, IInv, CallShape

(* Only a transaction adds to what isolate has committed, and only its     *)
(* caller announces.                                                       *)
LEMMA OthersAnnounceNothing ==
  ASSUME IInv, [Next]_vars, ~ CommitTx
  PROVE  /\ Behind' \subseteq Behind
         /\ counts'.committed \in {0, counts.committed}
<1>0. counts \in [committed : Nat, rejected : Nat]
  BY DEF IInv, TypeOK
<1>1. CASE HandleBatch
  <2>1. Behind' = {}
    BY <1>1 DEF HandleBatch, Behind, Recs, Kept, WellFormed, RecordOf, broker
  <2> QED
    BY <1>0, <1>1, <2>1 DEF HandleBatch
<1>2. ASSUME NEW r \in todo, IsolateOne(r)
      PROVE  Behind' \subseteq Behind /\ counts' = counts
  <2>1. /\ UNCHANGED <<held, blind, log, counts>> /\ pc = "isolate"
        /\ \/ pc' = "blobs" /\ todo' = todo /\ poisoned' = poisoned
           \/ todo' = todo \ {r} /\ poisoned' = poisoned \cup {r.seq}
    BY <1>2 DEF IsolateOne, broker
  <2>2. \A s \in Seqs : RecordOf(s) = r => s = r.seq
    BY DEF RecordOf
  <2>3. Kept' = Kept /\ Kept \subseteq Seqs /\ \A s \in Kept : RecordOf(s)' = RecordOf(s)
    BY <2>1 DEF Kept, WellFormed, RecordOf, IInv, TypeOK
  <2> QED
    BY <2>1, <2>2, <2>3 DEF Behind
<1>3. CASE IsolateRefusals \/ WriteBlobs
  <2>1. /\ UNCHANGED <<held, blind, log, counts, todo, poisoned>>
        /\ IsolateRefusals => pc = "isolate"
        /\ WriteBlobs => pc = "blobs" /\ pc' = "tx" /\ call' = call
    BY <1>3 DEF IsolateRefusals, WriteBlobs, broker
  <2>2. Kept' = Kept /\ \A s \in Kept : RecordOf(s)' = RecordOf(s)
    BY <2>1 DEF Kept, WellFormed, RecordOf
  <2> QED
    BY <1>3, <2>1, <2>2 DEF Behind
<1>4. CASE \/ \E B \in SUBSET Large : StoreFails(B)
           \/ Crash
           \/ \E R \in SUBSET Seqs : Answer(R)
           \/ \E F \in SUBSET Seqs : \E B \in SUBSET F : Fetch(F, B)
           \/ Drained
           \/ \E s \in Seqs : RefuseJunk(s)
           \/ \E R \in SUBSET Seqs : TermJunk(R)
           \/ Start
  <2>1. pc' \notin {"isolate", "blobs", "tx"}
    BY <1>4 DEF StoreFails, Crash, Answer, Fetch, Drained, RefuseJunk, TermJunk, Start
  <2>2. ASSUME NEW s \in Seqs, RefuseJunk(s) PROVE counts'.committed = counts.committed
    BY <1>0, <2>2 DEF RefuseJunk
  <2>3. CASE Crash
    BY <2>1, <2>3 DEF Crash, NoCounts, Behind
  <2>4. counts'.committed \in {0, counts.committed}
    BY <1>4, <2>2, <2>3 DEF StoreFails, Crash, NoCounts, Answer, Fetch, Drained, TermJunk, Start
  <2> QED
    BY <2>1, <2>4 DEF Behind
<1>5. CASE Broker \/ EmptyFetch \/ UNCHANGED vars
  <2>1. UNCHANGED <<held, blind, counts, todo, poisoned, pc, call>>
    BY <1>5 DEF Broker, Publish, WindowPasses, DiscardOldest, AckWaitPasses,
         EmptyFetch, vars, process
  <2>2. Kept' = Kept /\ \A s \in Kept : RecordOf(s)' = RecordOf(s)
    BY <2>1, HeldMessagesStay DEF Kept, WellFormed, RecordOf
  <2> QED
    BY <2>1, <2>2 DEF Behind
<1> QED
  BY <1>1, <1>2, <1>3, <1>4, <1>5 DEF Next, Archive, Faults

LEMMA NextAnnounced ==
  IInv /\ PoisonShape /\ Blank(position) /\ Announced /\ [Next]_vars => Announced'
<1> SUFFICES ASSUME IInv, PoisonShape, Blank(position), Announced, [Next]_vars
             PROVE  Announced'
  OBVIOUS
<1>1. CASE CommitTx
  BY <1>1, CommitTxAnnounces
<1>2. CASE ~ CommitTx
  <2> DEFINE X == Behind
             Y == Behind'
  <2>1. Y \subseteq X /\ IsFiniteSet(X) /\ counts'.committed \in {0, counts.committed}
    BY <1>2, OthersAnnounceNothing, BehindFinite, SeqsFinite
  <2>2. /\ position'.committed >= position.committed
        /\ position'.duplicates >= position.duplicates
    BY PositionGrows DEF Grew
  <2>3. /\ position.committed \in Nat /\ position.duplicates \in Nat
        /\ counts.committed \in Nat
    BY DEF IInv, TypeOK, PositionType
  <2>4. position'.committed \in Nat /\ position'.duplicates \in Nat
    BY NextIInv DEF IInv, TypeOK, PositionType
  <2>5. counts.committed + Cardinality(X) <= position.committed + position.duplicates
    BY DEF Announced
  <2> HIDE DEF X, Y
  <2>6. Cardinality(Y) \in Nat /\ Cardinality(X) \in Nat /\ Cardinality(Y) <= Cardinality(X)
    BY <2>1, FS_Subset, FS_CardinalityType
  <2>7. counts'.committed + Cardinality(Y) <= position'.committed + position'.duplicates
    BY <2>1, <2>2, <2>3, <2>4, <2>5, <2>6
  <2> QED
    BY <2>7 DEF Y, Announced
<1> QED
  BY <1>1, <1>2

(* report runs after the transaction: in a process's life the counter of   *)
(* committed records never passes what the volume has counted, also while  *)
(* isolate commits a batch one record at a time (consumer.go).             *)
THEOREM NothingIsAnnouncedEarly == Spec => []AnnouncedIsDurable
<1>1. Init => Blank(position) /\ PoisonShape /\ Announced
  BY FS_EmptySet DEF Init, Blank, PoisonShape, Announced, Behind, NoCounts, NoPosition
<1>2. IInv /\ Blank(position) /\ [Next]_vars => Blank(position)'
  BY PositionGrows DEF Blank
<1>3. IInv /\ Announced => AnnouncedIsDurable
  <2> SUFFICES ASSUME IInv, Announced PROVE AnnouncedIsDurable
    OBVIOUS
  <2>1. /\ position.committed \in Nat /\ position.duplicates \in Nat
        /\ counts.committed \in Nat /\ Cardinality(Behind) \in Nat
    BY BehindFinite DEF IInv, TypeOK, PositionType
  <2> QED
    BY <2>1 DEF Announced, AnnouncedIsDurable
<1> QED
  BY <1>1, <1>2, <1>3, PoisonShapeHolds, NextAnnounced, Invariance, PTL DEF Spec

-----------------------------------------------------------------------------
(* Refusals. *)

NoMismatch == \A s \in Seqs : ~ Mismatch(s)

(* Without a mismatch no batch is isolated, and every malformed identity   *)
(* of a batch is refused by the transaction that ends it.                  *)
Refusing ==
  NoMismatch =>
    /\ RefusalsAccounted
    /\ pc # "isolate"
    /\ pc \in {"blobs", "tx"} => call.from = "batch"
    /\ pc = "ack" => Malformed \subseteq refused

(* A mismatch on the stream is never undone.                               *)
LEMMA MismatchStays ==
  ASSUME IInv, [Next]_vars, NEW s \in Seqs
  PROVE  /\ Mismatch(s) => Mismatch(s)'
         /\ s <= last => log'[s] = log[s]
         /\ delivery[s] = "done" => s <= last /\ delivery'[s] = "done"
<1>1. s <= last => log'[s] = log[s]
  <2>1. CASE \E m \in Wire : Publish(m)
    BY <2>1, SeqsNatural DEF Publish, IInv, TypeOK
  <2>2. CASE ~ \E m \in Wire : Publish(m)
    BY <2>2 DEF Next, Broker, Archive, Faults, WindowPasses, DiscardOldest, AckWaitPasses,
         Start, Fetch, EmptyFetch, RefuseJunk, TermJunk, Drained, HandleBatch, IsolateOne,
         IsolateRefusals, WriteBlobs, CommitTx, Answer, StoreFails, Crash,
         vars, broker
  <2> QED
    BY <2>1, <2>2
<1>2. s > last => ~ Mismatch(s)
  BY DEF IInv, Unassigned, Mismatch, NoMessage
<1>3. s <= last \/ s > last
  BY SeqsNatural DEF IInv, TypeOK
<1>4. ASSUME delivery[s] = "done" PROVE s <= last /\ delivery'[s] = "done"
  <2>1. s <= last
    BY <1>3, <1>4 DEF IInv, Unassigned
  <2>2. s \notin held /\ s \notin junk
    BY <1>4 DEF IInv, BatchShape
  <2>3. delivery \in [Seqs -> DeliveryState]
    BY DEF IInv, TypeOK
  <2>4. ASSUME NEW t \in Seqs, AckWaitPasses(t) PROVE delivery'[s] = "done"
    BY <1>4, <2>3, <2>4 DEF AckWaitPasses
  <2>5. ASSUME NEW F, NEW B, Fetch(F, B) PROVE delivery'[s] = "done"
    BY <1>4, <2>5 DEF Fetch, Deliverable
  <2>6. ASSUME NEW R, TermJunk(R) PROVE delivery'[s] = "done"
    BY <1>4, <2>6 DEF TermJunk, Settle
  <2>7. ASSUME NEW R, Answer(R) PROVE delivery'[s] = "done"
    BY <1>4, <2>2, <2>7 DEF Answer, Settle
  <2>8. CASE delivery' = delivery
    BY <1>4, <2>1, <2>8
  <2>9. CASE delivery' # delivery
    BY <2>1, <2>4, <2>5, <2>6, <2>7, <2>9 DEF Next, Broker, Archive, Faults, Publish,
         WindowPasses, DiscardOldest, Start, EmptyFetch, RefuseJunk, Drained, HandleBatch,
         IsolateOne, IsolateRefusals, WriteBlobs, CommitTx, StoreFails, Crash,
         vars, broker
  <2> QED
    BY <2>1, <2>8, <2>9
<1> QED
  BY <1>1, <1>2, <1>3, <1>4 DEF Mismatch, WellFormed

LEMMA NextRefusing == IInv /\ PoisonShape /\ Refusing /\ [Next]_vars => Refusing'
<1> SUFFICES ASSUME IInv, PoisonShape, Refusing, [Next]_vars, NoMismatch'
             PROVE  /\ RefusalsAccounted'
                    /\ pc' # "isolate"
                    /\ pc' \in {"blobs", "tx"} => call'.from = "batch"
                    /\ pc' = "ack" => Malformed' \subseteq refused'
  BY DEF Refusing
<1>1. NoMismatch
  BY MismatchStays DEF NoMismatch
<1>2. /\ RefusalsAccounted
      /\ pc # "isolate"
      /\ pc \in {"blobs", "tx"} => call.from = "batch"
      /\ pc = "ack" => Malformed \subseteq refused
  BY <1>1 DEF Refusing
<1>3. \A s \in held : log'[s] = log[s] /\ s \in Seqs
  BY HeldMessagesStay DEF IInv, TypeOK
<1>4. refused \subseteq refused' /\ unplaced \subseteq unplaced'
  BY DEF Next, Broker, Archive, Faults, Publish, WindowPasses, DiscardOldest, AckWaitPasses,
       Start, Fetch, EmptyFetch, RefuseJunk, TermJunk, Drained, HandleBatch, IsolateOne,
       IsolateRefusals, WriteBlobs, CommitTx, Answer, StoreFails, Crash, vars, history
<1>5. \A r \in Recs : Verifies(r)
  BY <1>1 DEF NoMismatch, Mismatch, Recs, Kept, RecordOf, Verifies, Hash, IInv, TypeOK, BatchShape
<1>6. /\ pc' # "isolate"
      /\ pc' \in {"blobs", "tx"} => call'.from = "batch"
  <2>1. CASE HandleBatch
    BY <1>5, <2>1 DEF HandleBatch
  <2>2. CASE CommitTx
    BY <1>2, <2>2 DEF CommitTx
  <2>3. ASSUME ~ HandleBatch, ~ CommitTx
        PROVE  \/ pc' \notin {"isolate", "blobs", "tx"}
               \/ pc \in {"blobs", "tx"} /\ pc' \in {"blobs", "tx"} /\ call' = call
    BY <1>2, <2>3 DEF Next, Broker, Archive, Faults, Publish, WindowPasses, DiscardOldest,
         AckWaitPasses, Start, Fetch, EmptyFetch, RefuseJunk, TermJunk, Drained,
         IsolateOne, IsolateRefusals, WriteBlobs, Answer, StoreFails, Crash,
         vars, process, IInv, TypeOK, Control
  <2> QED
    BY <1>2, <2>1, <2>2, <2>3
<1>7. pc' = "ack" => Malformed' \subseteq refused'
  <2>1. CASE HandleBatch
    BY <2>1, <1>5 DEF HandleBatch, Malformed, WellFormed, broker
  <2>2. CASE CommitTx
    BY <1>2, <2>2 DEF CommitTx, IInv, CallShape, Malformed, WellFormed, broker
  <2>3. ASSUME ~ HandleBatch, ~ CommitTx, pc' = "ack"
        PROVE  pc = "ack" /\ held' = held /\ blind' = blind
    BY <1>2, <2>3 DEF Next, Broker, Archive, Faults, Publish, WindowPasses, DiscardOldest,
         AckWaitPasses, Start, Fetch, EmptyFetch, RefuseJunk, TermJunk, Drained, HandleBatch,
         IsolateOne, IsolateRefusals, WriteBlobs, CommitTx, Answer, StoreFails, Crash,
         vars, process
  <2> QED
    BY <1>2, <1>3, <1>4, <2>1, <2>2, <2>3 DEF Malformed, WellFormed
<1>8. RefusalsAccounted'
  <2> SUFFICES ASSUME NEW s \in Seqs,
                      delivery'[s] = "done", log'[s].decodes, ~ Good(s)', s \notin unplaced'
               PROVE  s \in refused'
    BY DEF RefusalsAccounted, RefusalAccounted
  <2>1. CASE delivery[s] = "done"
    <3>1. log'[s] = log[s]
      BY <2>1, MismatchStays
    <3> QED
      BY <1>2, <1>4, <2>1, <3>1 DEF RefusalsAccounted, RefusalAccounted, Good, WellFormed
  <2>2. CASE delivery[s] # "done"
    <3>1. PICK R : \/ TermJunk(R) /\ s \in call.rejected
                   \/ Answer(R) /\ s \in held /\ pc = "ack"
      <4>0. delivery \in [Seqs -> DeliveryState]
        BY DEF IInv, TypeOK
      <4>1. ASSUME NEW t \in Seqs, AckWaitPasses(t) PROVE FALSE
        BY <2>2, <4>0, <4>1 DEF AckWaitPasses
      <4>2. ASSUME NEW F, NEW B, Fetch(F, B) PROVE FALSE
        BY <2>2, <4>2 DEF Fetch
      <4>3. ASSUME NEW R \in SUBSET Seqs, TermJunk(R) PROVE s \in call.rejected
        BY <2>2, <4>3 DEF TermJunk, Settle
      <4>4. ASSUME NEW R \in SUBSET Seqs, Answer(R) PROVE s \in held /\ pc = "ack"
        BY <2>2, <4>4 DEF Answer, Settle
      <4>5. delivery' # delivery
        BY <2>2
      <4> QED
        BY <4>1, <4>2, <4>3, <4>4, <4>5 DEF Next, Broker, Archive, Faults, Publish,
           WindowPasses, DiscardOldest, Start, EmptyFetch, RefuseJunk, Drained, HandleBatch,
           IsolateOne, IsolateRefusals, WriteBlobs, CommitTx, StoreFails, Crash,
           vars, broker
    <3>2. CASE TermJunk(R) /\ s \in call.rejected
      BY <3>2 DEF TermJunk, IInv, CallShape, BatchShape
    <3>3. CASE Answer(R) /\ s \in held /\ pc = "ack"
      <4>1. log'[s] = log[s]
        BY <1>3, <3>3
      <4>2. s \notin blind
        BY <1>4 DEF IInv, BatchShape
      <4>3. ~ WellFormed(s)
        BY <1>1, <4>1 DEF NoMismatch, Mismatch, Good, WellFormed
      <4> QED
        BY <1>2, <1>4, <3>3, <4>2, <4>3 DEF Malformed
    <3> QED
      BY <3>1, <3>2, <3>3
  <2> QED
    BY <2>1, <2>2
<1> QED
  BY <1>6, <1>7, <1>8

(* Every refused record the consumer is finished with is in the books, as  *)
(* long as no hash mismatch can send a batch to isolate, which is not      *)
(* given the malformed ones (HandleBatch, consumer.go).                    *)
THEOREM RefusalsAreWrittenDown == Spec => []RefusalsAccountedWithoutMismatch
<1>1. Init => PoisonShape /\ Refusing
  BY DEF Init, PoisonShape, Refusing, RefusalsAccounted, RefusalAccounted
<1>2. Refusing => RefusalsAccountedWithoutMismatch
  BY DEF Refusing, NoMismatch, RefusalsAccountedWithoutMismatch
<1> QED
  BY <1>1, <1>2, PoisonShapeHolds, NextRefusing, Invariance, PTL DEF Spec

-----------------------------------------------------------------------------
(* Refused once. *)

(* A sequence in the books is settled, or about to be by the answer that   *)
(* follows the transaction.                                                *)
Finished(s) ==
  \/ delivery[s] = "done"
  \/ pc = "ack" /\ s \in held
  \/ pc = "term" /\ s \in call.rejected

Undisturbed == crashes = 0 /\ lostAcks = 0

Once ==
  Undisturbed =>
    /\ position.rejected = Cardinality(refused)
    /\ \A s \in refused : Finished(s)

LEMMA CallRefusesTheUndone ==
  ASSUME IInv, PoisonShape, pc = "tx"
  PROVE  \A s \in call.rejected : s \in held /\ s <= last /\ delivery[s] # "done" /\ ~ Good(s)
BY DEF IInv, PoisonShape, CallShape, BatchShape, Malformed, Good

(* An answer that arrives settles what it answers.                         *)
LEMMA FinishedStays ==
  ASSUME IInv, [Next]_vars, Undisturbed', NEW s \in Seqs, Finished(s)
  PROVE  Finished(s)'
<1>0. delivery \in [Seqs -> DeliveryState]
  BY DEF IInv, TypeOK
<1>1. CASE delivery[s] = "done"
  BY <1>1, MismatchStays DEF Finished
<1>2. CASE pc \in {"ack", "term"} /\ delivery[s] # "done"
  <2>1. ASSUME NEW R, TermJunk(R) PROVE delivery'[s] = "done"
    BY <1>0, <1>2, <2>1, SeqsNatural DEF TermJunk, Settle, Undisturbed, Finished, IInv, TypeOK
  <2>2. ASSUME NEW R, Answer(R) PROVE delivery'[s] = "done"
    BY <1>0, <1>2, <2>2, SeqsNatural DEF Answer, Settle, Undisturbed, Finished, IInv, TypeOK
  <2>3. ~ Crash
    <3>1. MaxCrashes \in Nat /\ crashes \in 0 .. MaxCrashes
      BY PipelineAssumption DEF IInv, TypeOK
    <3> QED
      BY <3>1 DEF Crash, Undisturbed
  <2>4. ASSUME \A R : ~ TermJunk(R) /\ ~ Answer(R)
        PROVE  pc' = pc /\ held' = held /\ call' = call
    BY <1>2, <2>3, <2>4 DEF Next, Broker, Archive, Faults, Publish, WindowPasses,
       DiscardOldest, AckWaitPasses, Start, Fetch, EmptyFetch, RefuseJunk, Drained,
       HandleBatch, IsolateOne, IsolateRefusals, WriteBlobs, CommitTx, StoreFails,
       vars, process
  <2> QED
    BY <1>2, <2>1, <2>2, <2>4 DEF Finished
<1> QED
  BY <1>1, <1>2 DEF Finished

LEMMA NextOnce == IInv /\ PoisonShape /\ Once /\ [Next]_vars => Once'
<1> SUFFICES ASSUME IInv, PoisonShape, Once, [Next]_vars, Undisturbed'
             PROVE  /\ position'.rejected = Cardinality(refused')
                    /\ \A s \in refused' : Finished(s)'
  BY DEF Once
<1>1. Undisturbed
  <2>1. crashes \in Nat /\ lostAcks \in Nat
    BY PipelineAssumption DEF IInv, TypeOK
  <2>2. CASE Crash
    BY <2>1, <2>2 DEF Crash, Undisturbed
  <2>3. ASSUME NEW R, TermJunk(R) \/ Answer(R) PROVE Undisturbed
    BY <2>1, <2>3 DEF TermJunk, Answer, Settle, Undisturbed
  <2>4. ASSUME ~ Crash, \A R : ~ TermJunk(R) /\ ~ Answer(R)
        PROVE  UNCHANGED <<crashes, lostAcks>>
    BY <2>4 DEF Next, Broker, Archive, Faults, Publish, WindowPasses, DiscardOldest,
       AckWaitPasses, Start, Fetch, EmptyFetch, RefuseJunk, Drained, HandleBatch,
       IsolateOne, IsolateRefusals, WriteBlobs, CommitTx, StoreFails, vars, faults
  <2> QED
    BY <2>2, <2>3, <2>4 DEF Undisturbed
<1>2. position.rejected = Cardinality(refused) /\ \A s \in refused : Finished(s)
  BY <1>1 DEF Once
<1>3. /\ refused \in SUBSET Seqs /\ IsFiniteSet(refused) /\ Cardinality(refused) \in Nat
      /\ \A s \in refused : Finished(s)'
  BY <1>2, FinishedStays, SeqsFinite DEF IInv, TypeOK
<1>4. CASE CommitTx
  <2>1. position'.rejected = position.rejected + Cardinality(call.rejected)
    BY <1>4, CommitTxAdvances DEF Upsert
  <2>2. refused' = refused \cup call.rejected /\ call.rejected \in SUBSET Seqs
    BY <1>4 DEF CommitTx, IInv, TypeOK
  <2>3. refused \cap call.rejected = {}
    BY <1>2, <1>4, CallRefusesTheUndone DEF CommitTx, Finished
  <2>4. Cardinality(refused') = Cardinality(refused) + Cardinality(call.rejected)
    <3> DEFINE A == refused
               B == call.rejected
               C == refused'
    <3>1. IsFiniteSet(A) /\ IsFiniteSet(B) /\ A \cap B = {} /\ C = A \cup B
      BY <1>3, <2>2, <2>3, SeqsFinite
    <3> HIDE DEF A, B, C
    <3>2. Cardinality(A \cup B) = Cardinality(A) + Cardinality(B) - Cardinality(A \cap B)
      BY <3>1, FS_Union
    <3>3. Cardinality(A) \in Nat /\ Cardinality(B) \in Nat /\ Cardinality(A \cap B) = 0
      BY <3>1, FS_CardinalityType, FS_EmptySet
    <3>4. Cardinality(C) = Cardinality(A) + Cardinality(B)
      BY <3>1, <3>2, <3>3
    <3> QED
      BY <3>4 DEF A, B, C
  <2>5. \A s \in call.rejected : Finished(s)'
    BY <1>4, CallRefusesTheUndone DEF CommitTx, Finished, IInv, CallShape
  <2> QED
    BY <1>2, <1>3, <2>1, <2>2, <2>4, <2>5
<1>5. ASSUME NEW s \in Seqs, RefuseJunk(s)
      PROVE  /\ position'.rejected = Cardinality(refused')
             /\ \A t \in refused' : Finished(t)'
  <2>1. CASE position' = position /\ refused' = refused
    BY <1>2, <1>3, <2>1
  <2>2. CASE position' = Refuse(position, s) /\ refused' = refused \cup {s}
    <3>1. s \notin refused
      BY <1>2, <1>5 DEF RefuseJunk, Finished, IInv, BatchShape
    <3>2. Cardinality(refused') = Cardinality(refused) + 1
      BY <1>3, <2>2, <3>1, FS_AddElement
    <3>3. position'.rejected = position.rejected + 1
      BY <2>2 DEF Refuse, Upsert
    <3>4. Finished(s)'
      BY <1>5 DEF RefuseJunk, Finished
    <3> QED
      BY <1>2, <1>3, <2>2, <3>2, <3>3, <3>4
  <2> QED
    BY <1>5, <2>1, <2>2 DEF RefuseJunk
<1> QED
  BY <1>2, <1>3, <1>4, <1>5, OthersKeepTheBooks

(* While the process stays up and its answers arrive, no sequence is       *)
(* counted as refused twice, whatever writes fail and however often the    *)
(* broker delivers again: the refusal is written in the transaction that   *)
(* precedes the answer (HandleBatch, Undecodable, consumer.go).            *)
THEOREM NoRefusalIsCountedTwice == Spec => []RefusedOnce
<1>1. Init => PoisonShape /\ Once
  BY FS_EmptySet DEF Init, PoisonShape, Once, NoPosition
<1>2. IInv /\ Once => RefusedOnce
  BY SeqsFinite DEF IInv, TypeOK, Once, Undisturbed, RefusedOnce, RefusedAgain
<1> QED
  BY <1>1, <1>2, PoisonShapeHolds, NextOnce, Invariance, PTL DEF Spec

-----------------------------------------------------------------------------
(* The loss figure. *)

(* Inside its window no content is published twice.                        *)
Distinct ==
  /\ \A s \in Seqs : log[s].decodes => log[s].hash \in window
  /\ \A s, t \in Seqs :
       log[s].decodes /\ log[t].decodes /\ log[s].hash = log[t].hash => s = t

LEMMA NextDistinct ==
  ASSUME ~ Republished, IInv, Distinct, [Next]_vars
  PROVE  Distinct'
<1>1. ASSUME NEW m \in Wire, Publish(m) PROVE Distinct'
  <2>1. /\ log \in [Seqs -> Message \cup {NoMessage}] /\ last + 1 \in Seqs
        /\ log' = [log EXCEPT ![last + 1] = m]
        /\ window' = IF m.decodes THEN window \cup {m.hash} ELSE window
        /\ m.decodes => m.hash \notin window
    BY <1>1, SeqsNatural DEF Publish, IInv, TypeOK, Seqs
  <2>2. \A s \in Seqs : log'[s] = IF s = last + 1 THEN m ELSE log[s]
    BY <2>1
  <2> QED
    BY <2>1, <2>2 DEF Distinct
<1>2. ASSUME NEW h, WindowPasses(h) PROVE FALSE
  BY <1>2 DEF WindowPasses
<1>3. CASE ~ \E m \in Wire : Publish(m)
  <2>1. UNCHANGED <<log, window>>
    BY <1>2, <1>3 DEF Next, Broker, Archive, Faults, DiscardOldest, AckWaitPasses,
       Start, Fetch, EmptyFetch, RefuseJunk, TermJunk, Drained, HandleBatch, IsolateOne,
       IsolateRefusals, WriteBlobs, CommitTx, Answer, StoreFails, Crash, vars, broker
  <2> QED
    BY <2>1 DEF Distinct
<1> QED
  BY <1>1, <1>3

(* A recorded position spans sequences that exist, and the refused are     *)
(* among them.                                                             *)
SpanShape ==
  /\ position.recorded => /\ position.first \in Seqs /\ position.highest \in Seqs
                          /\ position.first <= position.highest
  /\ ~ position.recorded => refused = {}
  /\ \A s \in refused : /\ s <= last /\ ~ Good(s)
                        /\ position.first <= s /\ s <= position.highest

LEMMA UpsertSpans ==
  ASSUME NEW p \in PositionType, NEW f \in Seqs, NEW h \in Seqs, f <= h,
         NEW c, NEW r, NEW d,
         p.recorded => p.first \in Seqs /\ p.highest \in Seqs /\ p.first <= p.highest
  PROVE  LET q == Upsert(p, f, h, c, r, d)
         IN  /\ q.recorded /\ q.first \in Seqs /\ q.highest \in Seqs /\ q.first <= q.highest
             /\ q.first <= f /\ h <= q.highest
             /\ p.recorded => q.first <= p.first /\ p.highest <= q.highest
BY SeqsNatural DEF Upsert, PositionType

LEMMA NextSpanShape ==
  IInv /\ PoisonShape /\ SpanShape /\ [Next]_vars => SpanShape'
<1> SUFFICES ASSUME IInv, PoisonShape, SpanShape, [Next]_vars PROVE SpanShape'
  OBVIOUS
<1>0. /\ position \in PositionType /\ last \in Nat /\ last' \in Nat /\ last <= last'
      /\ refused \in SUBSET Seqs /\ Seqs \subseteq Nat
  <2>1. last \in Nat /\ last' \in Nat
    BY NextIInv, SeqsNatural DEF IInv, TypeOK
  <2>2. last' \in {last, last + 1}
    BY DEF Next, Broker, Archive, Faults, Publish, WindowPasses, DiscardOldest,
       AckWaitPasses, Start, Fetch, EmptyFetch, RefuseJunk, TermJunk, Drained, HandleBatch,
       IsolateOne, IsolateRefusals, WriteBlobs, CommitTx, Answer, StoreFails, Crash,
       vars, broker
  <2> QED
    BY <2>1, <2>2, SeqsNatural DEF IInv, TypeOK
<1>1. ASSUME NEW s \in Seqs, s <= last PROVE log'[s] = log[s] /\ s <= last'
  <2>1. log'[s] = log[s]
    BY <1>1, MismatchStays
  <2>2. s \in Nat
    BY <1>0
  <2> QED
    BY <1>0, <1>1, <2>1, <2>2
<1>2. \A s \in refused : s \in Seqs /\ s <= last' /\ ~ Good(s)'
  BY <1>0, <1>1 DEF SpanShape, Good, WellFormed
<1>3. CASE UNCHANGED <<position, refused>>
  BY <1>2, <1>3 DEF SpanShape
<1>4. CASE CommitTx
  <2>1. PICK f \in Seqs, h \in Seqs, c \in Nat, d \in Nat :
          /\ f <= h
          /\ \A s \in call.rejected : f <= s /\ s <= h
          /\ position' = Upsert(position, f, h, c, Cardinality(call.rejected), d)
    BY <1>4, CommitTxAdvances
  <2>2. /\ position'.recorded /\ position'.first \in Seqs /\ position'.highest \in Seqs
        /\ position'.first <= position'.highest
        /\ position'.first <= f /\ h <= position'.highest
        /\ position.recorded => /\ position'.first <= position.first
                                /\ position.highest <= position'.highest
    BY <1>0, <2>1, UpsertSpans DEF SpanShape
  <2>3. refused' = refused \cup call.rejected /\ call.rejected \in SUBSET Seqs
    BY <1>4 DEF CommitTx, IInv, TypeOK
  <2>4. ASSUME NEW s \in call.rejected
        PROVE  s <= last' /\ ~ Good(s)' /\ position'.first <= s /\ s <= position'.highest
    <3>1. s <= last /\ ~ Good(s) /\ s \in Seqs
      BY <1>4, <2>3, CallRefusesTheUndone DEF CommitTx
    <3>2. s <= last' /\ ~ Good(s)'
      BY <1>1, <3>1 DEF Good, WellFormed
    <3> QED
      BY <1>0, <2>1, <2>2, <3>1, <3>2
  <2>5. ASSUME NEW s \in refused
        PROVE  position'.first <= s /\ s <= position'.highest
    <3>1. /\ position.recorded /\ position.first <= s /\ s <= position.highest /\ s \in Nat
          /\ position.first \in Nat /\ position.highest \in Nat
      BY <1>0 DEF SpanShape
    <3>2. /\ position'.first <= position.first /\ position.highest <= position'.highest
          /\ position'.first \in Nat /\ position'.highest \in Nat
      BY <1>0, <2>2, <3>1
    <3> QED
      BY <3>1, <3>2
  <2> QED
    BY <1>2, <2>2, <2>3, <2>4, <2>5 DEF SpanShape
<1>5. ASSUME NEW t \in Seqs, RefuseJunk(t),
             position' = Refuse(position, t), refused' = refused \cup {t}
      PROVE  SpanShape'
  <2>1. /\ position'.recorded /\ position'.first \in Seqs /\ position'.highest \in Seqs
        /\ position'.first <= position'.highest
        /\ position'.first <= t /\ t <= position'.highest
        /\ position.recorded => /\ position'.first <= position.first
                                /\ position.highest <= position'.highest
    BY <1>0, <1>5, UpsertSpans DEF SpanShape, Refuse
  <2>2. t <= last' /\ ~ Good(t)'
    BY <1>1, <1>5 DEF RefuseJunk, IInv, BatchShape, Good
  <2>3. ASSUME NEW s \in refused
        PROVE  position'.first <= s /\ s <= position'.highest
    <3>1. /\ position.recorded /\ position.first <= s /\ s <= position.highest /\ s \in Nat
          /\ position.first \in Nat /\ position.highest \in Nat
      BY <1>0 DEF SpanShape
    <3>2. /\ position'.first <= position.first /\ position.highest <= position'.highest
          /\ position'.first \in Nat /\ position'.highest \in Nat
      BY <1>0, <2>1, <3>1
    <3> QED
      BY <3>1, <3>2
  <2> QED
    BY <1>2, <1>5, <2>1, <2>2, <2>3 DEF SpanShape
<1> QED
  BY <1>3, <1>4, <1>5, OthersKeepTheBooks DEF RefuseJunk

(* Two sets that do not meet are counted together.                         *)
LEMMA DisjointUnion ==
  ASSUME NEW A, NEW B, IsFiniteSet(A), IsFiniteSet(B), A \cap B = {}
  PROVE  /\ IsFiniteSet(A \cup B)
         /\ Cardinality(A \cup B) = Cardinality(A) + Cardinality(B)
<1>1. /\ IsFiniteSet(A \cup B)
      /\ Cardinality(A \cup B) = Cardinality(A) + Cardinality(B) - Cardinality(A \cap B)
  BY FS_Union
<1>2. Cardinality(A) \in Nat /\ Cardinality(B) \in Nat /\ Cardinality(A \cap B) = 0
  BY FS_CardinalityType, FS_EmptySet
<1> QED
  BY <1>1, <1>2

(* Where contents are not published twice, the sequences whose record is   *)
(* held are as many as the rows.                                           *)
LEMMA HeldAreRows ==
  ASSUME IInv, PInv, Distinct
  PROVE  LET G == {s \in Seqs : /\ position.first <= s /\ s <= position.highest
                                /\ Good(s) /\ log[s].hash \in Rows(table)}
         IN  Cardinality(G) = position.committed
<1> DEFINE G == {s \in Seqs : /\ position.first <= s /\ s <= position.highest
                              /\ Good(s) /\ log[s].hash \in Rows(table)}
           R == Rows(table)
           f == [s \in G |-> log[s].hash]
<1>1. IsFiniteSet(G)
  BY SeqsFinite
<1>2. f \in [G -> R]
  OBVIOUS
<1>3. \A s, t \in G : f[s] = f[t] => s = t
  BY DEF Distinct, Good
<1>4. \A h \in R : \E s \in G : f[s] = h
  BY DEF PInv, PositionAgreesWithRows
<1>5. position.committed = Cardinality(R)
  BY DEF PInv, PositionAgreesWithRows
<1> HIDE DEF G, R, f
<1>6. f \in Bijection(G, R)
  BY <1>2, <1>3, <1>4 DEF Bijection, Injection, Surjection, IsInjective
<1>7. Cardinality(G) = Cardinality(R)
  BY <1>1, <1>6, FS_Bijection DEF ExistsBijection
<1> QED
  BY <1>5, <1>7 DEF G

LEMMA LossIsExact ==
  ASSUME IInv, PInv, Distinct, SpanShape, Blank(position)
  PROVE  LossFigureExact
<1> DEFINE Lost == {s \in Seqs : /\ position.first <= s /\ s <= position.highest
                                 /\ ~ Explained(s)}
           G == {s \in Seqs : /\ position.first <= s /\ s <= position.highest
                              /\ Good(s) /\ log[s].hash \in Rows(table)}
           Figure == Unaccounted(position) + RefusedAgain
<1>0. /\ position \in PositionType /\ refused \in SUBSET Seqs
      /\ position.committed \in Nat /\ position.rejected \in Nat
      /\ IsFiniteSet(refused) /\ Cardinality(refused) \in Nat
  BY SeqsFinite DEF IInv, TypeOK, PositionType
<1>1. CASE ~ position.recorded
  <2>1. position = NoPosition /\ refused = {}
    BY <1>1 DEF Blank, SpanShape
  <2>2. Lost = {}
    <3>1. position.highest = 0
      BY <2>1 DEF NoPosition
    <3>2. \A s \in Seqs : ~ (s <= position.highest)
      BY <3>1, SeqsNatural
    <3> QED
      BY <3>2
  <2>3. Figure = 0
    BY <2>1, FS_EmptySet DEF NoPosition, Unaccounted, Span, RefusedAgain
  <2> QED
    BY <2>2, <2>3, FS_EmptySet DEF LossFigureExact
<1>2. CASE position.recorded
  <2> DEFINE S == position.first .. position.highest
  <2>1. /\ position.first \in Nat \ {0} /\ position.highest \in Nat \ {0}
        /\ position.first <= position.highest
        /\ position.highest <= MaxSeq /\ MaxSeq \in Nat
    BY <1>2, SeqsNatural DEF SpanShape, Seqs
  <2>2. IsFiniteSet(S) /\ Cardinality(S) = position.highest - position.first + 1
    <3>1. \A a, b \in Nat : a <= b => /\ IsFiniteSet(a .. b)
                                     /\ Cardinality(a .. b) = b - a + 1
      BY FS_Interval
    <3> QED
      BY <2>1, <3>1
  <2>3. Span(position) = Cardinality(S)
    BY <2>1, <2>2 DEF Span
  <2>4. \A s : s \in S <=> s \in Seqs /\ position.first <= s /\ s <= position.highest
    BY <2>1 DEF Seqs
  <2>5. /\ S = (G \cup refused) \cup Lost
        /\ G \cap refused = {}
        /\ (G \cup refused) \cap Lost = {}
    <3> HIDE DEF S
    <3> QED
      BY <1>0, <2>4 DEF Explained, SpanShape
  <2>6. Cardinality(G) = position.committed
    BY HeldAreRows
  <2>7. IsFiniteSet(G) /\ IsFiniteSet(Lost) /\ Cardinality(Lost) \in Nat
    BY SeqsFinite
  <2> HIDE DEF S, G, Lost
  <2>8. /\ IsFiniteSet(G \cup refused)
        /\ Cardinality(G \cup refused) = Cardinality(G) + Cardinality(refused)
    BY <1>0, <2>5, <2>7, DisjointUnion
  <2>9. Cardinality(S) = Cardinality(G) + Cardinality(refused) + Cardinality(Lost)
    BY <2>5, <2>7, <2>8, DisjointUnion
  <2>10. Figure = Cardinality(Lost)
    <3>1. Figure = Cardinality(S) - position.committed - position.rejected
                     + (position.rejected - Cardinality(refused))
      BY <2>3 DEF Unaccounted, RefusedAgain
    <3> HIDE DEF Figure
    <3> QED
      BY <1>0, <2>6, <2>7, <2>9, <3>1
  <2> QED
    BY <2>10 DEF LossFigureExact, Lost
<1> QED
  BY <1>1, <1>2

(* Outside its deduplication window no content returns: then the sequences *)
(* of the span that the figure does not explain are exactly those neither  *)
(* held nor refused, at every instant and not only when drained            *)
(* (PositionAndCount and Unaccounted, substrate.go).                       *)
THEOREM LossFigureIsExact ==
  ASSUME ~ Republished
  PROVE  Spec => []LossFigureExact
<1>1. Init => PInv /\ Distinct /\ SpanShape /\ Blank(position) /\ PoisonShape
  <2> SUFFICES ASSUME Init PROVE PInv /\ Distinct /\ SpanShape /\ Blank(position) /\ PoisonShape
    OBVIOUS
  <2>1. Rows(table) = {} /\ position = NoPosition
    BY DEF Init, Rows, EmptyTable
  <2>2. PInv
    BY <2>1, FS_EmptySet DEF PInv, PositionAgreesWithRows, NoPosition
  <2> QED
    BY <2>1, <2>2 DEF Init, NoMessage, Distinct, SpanShape, Blank, NoPosition, PoisonShape
<1>2. IInv /\ Blank(position) /\ [Next]_vars => Blank(position)'
  BY PositionGrows DEF Blank
<1>3. IInv /\ Distinct /\ [Next]_vars => Distinct'
  BY NextDistinct
<1>4. IInv /\ PInv /\ Distinct /\ SpanShape /\ Blank(position) => LossFigureExact
  BY LossIsExact
<1> QED
  BY <1>1, <1>2, <1>3, <1>4, NextPInv, PoisonShapeHolds, NextSpanShape, Invariance, PTL
     DEF Spec

-----------------------------------------------------------------------------
(* The gauges. *)

ReadingType ==
  /\ snap.pos \in PositionType /\ snap.rows \in Nat
  /\ gauge.pos \in PositionType /\ gauge.rows \in Nat \cup {Unset}
  /\ gauge \in [pos : PositionType, rows : Nat \cup {Unset}, skipped : Nat \cup {Unset}]
  /\ streamFirst \in Nat \cup {Unset}

(* A reading is a position the volume has had, with the rows it had then;  *)
(* what is published was read, the rows after the position they go with.   *)
Readings ==
  /\ ReadingType
  /\ snap.rows = snap.pos.committed
  /\ snap.pos.committed <= position.committed
  /\ gauge.pos.committed <= snap.pos.committed
  /\ poll = "rows" => gauge.pos = snap.pos
  /\ gauge.rows # Unset => gauge.rows <= gauge.pos.committed
  /\ streamFirst # Unset => streamFirst <= first

LEMMA PipelineStepsAreSteps == [MeterNext]_mvars => [Next]_vars
BY DEF MeterNext, PipelineStep, Poll, PollBroker, ReadPosition, PublishPosition,
     PublishRows, PublishSkipped, mvars

LEMMA NextReadings ==
  ASSUME IInv, PInv, Blank(position), Readings, [MeterNext]_mvars
  PROVE  Readings'
<1>0. /\ position \in PositionType /\ position'.committed \in Nat
      /\ position'.committed >= position.committed
      /\ first \in Nat /\ first' \in Nat /\ first <= first'
  <2>1. [Next]_vars
    BY PipelineStepsAreSteps
  <2>2. IInv'
    BY <2>1, NextIInv
  <2>3. first' \in {first, first + 1}
    BY <2>1 DEF Next, Broker, Archive, Faults, Publish, WindowPasses, DiscardOldest,
       AckWaitPasses, Start, Fetch, EmptyFetch, RefuseJunk, TermJunk, Drained, HandleBatch,
       IsolateOne, IsolateRefusals, WriteBlobs, CommitTx, Answer, StoreFails, Crash,
       vars, broker
  <2>4. first \in Nat /\ first' \in Nat
    BY <2>2, SeqsNatural DEF IInv, TypeOK
  <2>5. position'.committed >= position.committed
    BY <2>1, PositionGrows DEF Grew
  <2> QED
    BY <2>2, <2>3, <2>4, <2>5 DEF IInv, TypeOK, PositionType
<1>1. /\ snap.pos.committed \in Nat /\ gauge.pos.committed \in Nat
      /\ position.committed \in Nat
  BY <1>0 DEF Readings, ReadingType, PositionType
<1>2. CASE MeterReset
  <2>1. /\ snap' = NoSnap /\ gauge' = NoGauge /\ streamFirst' = Unset /\ poll' = "idle"
    BY <1>2 DEF MeterReset
  <2>2. NoPosition \in PositionType /\ NoPosition.committed = 0
    BY DEF NoPosition, PositionType
  <2> QED
    BY <1>0, <2>1, <2>2 DEF NoSnap, NoGauge, Readings, ReadingType
<1>3. CASE UNCHANGED meter
  BY <1>0, <1>1, <1>3 DEF meter, Readings, ReadingType
<1>4. CASE UNCHANGED vars /\ PollBroker
  BY <1>0, <1>4 DEF PollBroker, Readings, ReadingType, vars, broker, volume
<1>5. CASE UNCHANGED vars /\ ReadPosition
  <2>1. /\ position' = position /\ first' = first /\ poll' # "rows"
        /\ streamFirst' = streamFirst /\ gauge' = gauge
        /\ \/ snap' = [pos |-> position, rows |-> Cardinality(Rows(table))]
           \/ snap' = snap
    BY <1>5 DEF ReadPosition, vars, broker, volume
  <2>2. position.committed = Cardinality(Rows(table))
    BY DEF PInv, PositionAgreesWithRows
  <2> QED
    BY <1>0, <1>1, <2>1, <2>2 DEF Readings, ReadingType
<1>6. CASE UNCHANGED vars /\ PublishPosition
  <2>1. /\ position' = position /\ first' = first
        /\ streamFirst' = streamFirst /\ snap' = snap
        /\ gauge' = [gauge EXCEPT !.pos = snap.pos]
    BY <1>6 DEF PublishPosition, vars, broker, volume
  <2>2. /\ gauge'.pos = snap.pos /\ gauge'.rows = gauge.rows
        /\ gauge' \in [pos : PositionType, rows : Nat \cup {Unset}, skipped : Nat \cup {Unset}]
    BY <2>1 DEF Readings, ReadingType
  <2>3. gauge.rows # Unset => gauge.rows \in Nat /\ gauge.rows <= snap.pos.committed
    BY <1>1 DEF Readings, ReadingType
  <2> QED
    BY <1>1, <2>1, <2>2, <2>3 DEF Readings, ReadingType
<1>7. CASE UNCHANGED vars /\ PublishRows
  <2>1. /\ position' = position /\ first' = first /\ poll = "rows" /\ poll' = "skipped"
        /\ streamFirst' = streamFirst /\ snap' = snap
        /\ gauge' = [gauge EXCEPT !.rows = snap.rows]
    BY <1>7 DEF PublishRows, vars, broker, volume
  <2>2. /\ gauge'.pos = gauge.pos /\ gauge'.rows = snap.rows
        /\ gauge' \in [pos : PositionType, rows : Nat \cup {Unset}, skipped : Nat \cup {Unset}]
    BY <2>1 DEF Readings, ReadingType
  <2> QED
    BY <1>1, <2>1, <2>2 DEF Readings, ReadingType
<1>8. CASE UNCHANGED vars /\ PublishSkipped
  <2>1. /\ position' = position /\ first' = first /\ poll' = "idle"
        /\ streamFirst' = streamFirst /\ snap' = snap
        /\ gauge' = gauge \/ gauge' = [gauge EXCEPT !.skipped = Cardinality(Skipped)]
    BY <1>8 DEF PublishSkipped, vars, broker, volume
  <2>2. Skipped \in SUBSET Seqs /\ Cardinality(Skipped) \in Nat
    <3>1. Skipped \in SUBSET Seqs
      BY DEF Skipped
    <3> QED
      BY <3>1, SeqsFinite
  <2>3. /\ gauge'.pos = gauge.pos /\ gauge'.rows = gauge.rows
        /\ gauge' \in [pos : PositionType, rows : Nat \cup {Unset}, skipped : Nat \cup {Unset}]
    BY <2>1, <2>2 DEF Readings, ReadingType
  <2> QED
    BY <1>1, <2>1, <2>3 DEF Readings, ReadingType
<1> QED
  BY <1>2, <1>3, <1>4, <1>5, <1>6, <1>7, <1>8
     DEF MeterNext, PipelineStep, Poll, PollBroker, ReadPosition, PublishPosition,
         PublishRows, PublishSkipped, mvars

(* What the meter relies on of the pipeline holds beside it.               *)
Beneath == IInv /\ PInv /\ Blank(position) /\ PoisonShape /\ SpanShape

LEMMA InitBeneath == MeterInit => Beneath /\ Readings /\ Distinct
<1> SUFFICES ASSUME MeterInit PROVE Beneath /\ Readings /\ Distinct
  OBVIOUS
<1>1. Init /\ IInv
  BY InitIInv DEF MeterInit
<1>2. Rows(table) = {} /\ position = NoPosition /\ first = 1
  BY <1>1 DEF Init, Rows, EmptyTable
<1>3. PInv
  BY <1>2, FS_EmptySet DEF PInv, PositionAgreesWithRows, NoPosition
<1>4. Distinct /\ SpanShape /\ Blank(position) /\ PoisonShape
  BY <1>1, <1>2 DEF Init, NoMessage, Distinct, SpanShape, Blank, NoPosition, PoisonShape
<1>5. NoPosition \in PositionType /\ NoPosition.committed = 0
  BY DEF NoPosition, PositionType
<1>6. Readings
  BY <1>2, <1>5 DEF MeterInit, NoSnap, NoGauge, Readings, ReadingType
<1> QED
  BY <1>1, <1>3, <1>4, <1>6 DEF Beneath

LEMMA NextBeneath == Beneath /\ [MeterNext]_mvars => Beneath'
<1> SUFFICES ASSUME Beneath, [Next]_vars PROVE Beneath'
  BY PipelineStepsAreSteps
<1>1. Blank(position)'
  BY PositionGrows DEF Beneath, Blank
<1> QED
  BY <1>1, NextIInv, NextPInv, PoisonShapeHolds, NextSpanShape DEF Beneath

(* The position is published before the rows read with it, and both come   *)
(* from one transaction: no scrape sees rows that no commit accounts for   *)
(* (ObservePosition, metrics.go; PositionAndCount, substrate.go).          *)
THEOREM NoRowsFromNowhere == MeterSpec => []RowsNeverExceedCommits
<1>1. Beneath /\ Readings /\ [MeterNext]_mvars => Readings'
  BY NextReadings DEF Beneath
<1>2. Readings => RowsNeverExceedCommits
  BY DEF Readings, RowsNeverExceedCommits
<1> QED
  BY <1>1, <1>2, InitBeneath, NextBeneath, PTL DEF MeterSpec

(* Where no content returns, whatever a poll counts as skipped is lost:    *)
(* the broker is read before the position (onStats, main.go of the         *)
(* archive), so what the archive committed in between is not counted.      *)
THEOREM OnlyLossesAreSkipped ==
  ASSUME ~ Republished
  PROVE  MeterSpec => OnlyTheLostAreSkipped
<1>1. Beneath /\ Readings /\ [MeterNext]_mvars => Readings'
  BY NextReadings DEF Beneath
<1>2. Beneath /\ Distinct /\ [MeterNext]_mvars => Distinct'
  BY NextDistinct, PipelineStepsAreSteps DEF Beneath
<1>3. ASSUME Beneath, Readings, Distinct, [MeterNext]_mvars,
             poll = "position", poll' = "publish"
      PROVE  \A s \in Skipped' : s < first /\ ~ Explained(s)
  <2>1. /\ ReadPosition /\ position.recorded /\ snap'.pos = position
        /\ streamFirst' = streamFirst /\ table' = table
    BY <1>3 DEF MeterNext, PipelineStep, MeterReset, Poll, PollBroker, ReadPosition,
       PublishPosition, PublishRows, PublishSkipped, mvars, meter, vars, volume
  <2> SUFFICES ASSUME NEW s \in Skipped' PROVE s < first /\ ~ Explained(s)
    OBVIOUS
  <2>2. /\ streamFirst # Unset /\ s \in Seqs
        /\ position.highest < s /\ s < streamFirst
    BY <2>1 DEF Skipped
  <2>3. /\ streamFirst \in Nat /\ first \in Nat /\ streamFirst <= first
        /\ s \in Nat /\ position.highest \in Nat
    BY <1>3, <2>2, SeqsNatural
       DEF Readings, ReadingType, Beneath, IInv, TypeOK, PositionType
  <2>4. s \notin refused
    <3>1. s \in refused => s <= position.highest
      BY <1>3 DEF Beneath, SpanShape
    <3> QED
      BY <2>2, <2>3, <3>1
  <2>5. ~ (Good(s) /\ log[s].hash \in Rows(table))
    <3> SUFFICES ASSUME Good(s), log[s].hash \in Rows(table) PROVE FALSE
      OBVIOUS
    <3>1. PICK t \in Seqs : t <= position.highest /\ Good(t) /\ log[t].hash = log[s].hash
      BY <1>3 DEF Beneath, PInv, PositionAgreesWithRows
    <3>2. t = s
      BY <1>3, <2>2, <3>1 DEF Distinct, Good
    <3> QED
      BY <2>2, <2>3, <3>1, <3>2
  <2>6. s < first
    BY <2>2, <2>3
  <2> QED
    BY <2>4, <2>5, <2>6 DEF Explained
<1>4. Beneath /\ Readings /\ Distinct /\ [MeterNext]_mvars =>
        [poll = "position" /\ poll' = "publish" =>
           \A s \in Skipped' : s < first /\ ~ Explained(s)]_mvars
  BY <1>3
<1> QED
  BY <1>1, <1>2, <1>4, InitBeneath, NextBeneath, PTL DEF MeterSpec, OnlyTheLostAreSkipped
=============================================================================

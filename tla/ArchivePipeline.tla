--------------------------- MODULE ArchivePipeline ---------------------------
(***************************************************************************)
(* The archive service consuming the JetStream stream: Consume's pull loop *)
(* (libs/eventstream/jetstream.go), the consumer's HandleBatch, isolate    *)
(* and Undecodable (services/archive/internal/consumer) and the substrate  *)
(* transaction they drive (libs/substrate).                                *)
(*                                                                         *)
(* The broker is external and modelled from how the code configures and    *)
(* uses it: a numbered log with limits-based retention (messages leave by  *)
(* age or size, never because they were acknowledged), a window in which a *)
(* message id is deduplicated, and one durable consumer with explicit acks *)
(* and unlimited redelivery.                                               *)
(*                                                                         *)
(* Faults are budgeted: MaxCrashes stops of the archive process,           *)
(* MaxStoreErrors failed writes, MaxLostAcks losses of an ack, nak or term *)
(* on the way to the broker, MaxBlind deliveries whose metadata cannot be  *)
(* read.  Everything else is unbounded but for MaxSeq.                     *)
(***************************************************************************)
EXTENDS Substrate

CONSTANTS
  MaxSeq,         \* bound: sequences the stream ever assigns
  Wire,           \* the messages that may be put on the stream
  BatchSize,      \* messages per fetch
  MaxAckPending,  \* ceiling on deliveries awaiting an ack
  Republished,    \* may a content return after its deduplication window
  MaxCrashes, MaxStoreErrors, MaxLostAcks, MaxBlind

(* A message as published: whether it decodes as an ArchiveRecord at all,  *)
(* and the event_hash and canonical_payload it then carries.               *)
Message == [decodes : BOOLEAN,
            hash    : Content \cup {MalformedHash},
            bytes   : Content]

ASSUME PipelineAssumption ==
  /\ MaxSeq \in Nat \ {0}
  /\ Wire \subseteq Message
  /\ Wire # {}
  /\ BatchSize \in Nat \ {0}
  /\ MaxAckPending \in Nat \ {0}
  /\ Republished \in BOOLEAN
  /\ MaxCrashes \in Nat /\ MaxStoreErrors \in Nat
  /\ MaxLostAcks \in Nat /\ MaxBlind \in Nat

Seqs == 1 .. MaxSeq

VARIABLES
  \* the broker (external)
  log,        \* the message at each sequence assigned so far
  last,       \* highest sequence assigned (LastSeq)
  first,      \* lowest sequence still in the stream (FirstSeq)
  window,     \* message ids inside the deduplication window
  delivery,   \* the durable consumer's view of each sequence
  \* the archive process
  pc,         \* where Consume's loop is
  held,       \* decoded messages of the current fetch
  blind,      \* those of the fetch whose Metadata() failed (Sequence 0)
  junk,       \* undecodable messages of the fetch still to be handled
  todo,       \* isolate: records not yet re-driven
  poisoned,   \* isolate: sequences refused for a hash mismatch
  call,       \* the arguments of the AppendCanonicalBatch in progress
  counts,     \* the process-local counters
  \* the archive volume
  table, files, position,
  \* budgets spent
  crashes, storeErrors, lostAcks,
  \* history
  unplaced,   \* sequences some delivery of which had no readable metadata
  refused     \* sequences whose refusal was durably recorded

broker  == <<log, last, first, window, delivery>>
process == <<pc, held, blind, junk, todo, poisoned, call, counts>>
volume  == <<table, files, position>>
faults  == <<crashes, storeErrors, lostAcks>>
history == <<unplaced, refused>>
vars    == <<broker, process, volume, faults, history>>

-----------------------------------------------------------------------------
(* What a sequence of the current batch becomes. *)

WellFormed(s) == log[s].hash # MalformedHash

(* The message at s carries a record the archive can keep. *)
Good(s) == log[s].decodes /\ WellFormed(s) /\ log[s].bytes = log[s].hash

RecordOf(s) == [hash |-> log[s].hash, bytes |-> log[s].bytes, seq |-> s]

(* HandleBatch partitions the batch: recs to keep, malformed identities to *)
(* refuse; a delivery without a sequence is in neither.                    *)
Kept      == {s \in held \ blind : WellFormed(s)}
Recs      == {RecordOf(s) : s \in Kept}
Malformed == {s \in held \ blind : ~ WellFormed(s)}

NoCall == [recs |-> {}, rejected |-> {}, from |-> "none"]

NoCounts == [committed |-> 0, rejected |-> 0]

(* report: one count per note and one per record. *)
Report(notes, kept) == counts' = [committed |-> counts.committed + kept,
                                  rejected  |-> counts.rejected + notes]

CallFrom == {"none", "batch", "isolate", "refuse"}

Control == {"down", "fetch", "decode", "term", "batch", "blobs", "tx",
            "isolate", "ack", "nak"}

DeliveryState == {"new", "out", "due", "done"}

NoMessage == [decodes |-> FALSE, hash |-> MalformedHash, bytes |-> Absent]

Init ==
  /\ log = [s \in Seqs |-> NoMessage]
  /\ last = 0 /\ first = 1 /\ window = {}
  /\ delivery = [s \in Seqs |-> "new"]
  /\ pc = "down"
  /\ held = {} /\ blind = {} /\ junk = {}
  /\ todo = {} /\ poisoned = {} /\ call = NoCall /\ counts = NoCounts
  /\ table = EmptyTable /\ files = {} /\ position = NoPosition
  /\ crashes = 0 /\ storeErrors = 0 /\ lostAcks = 0
  /\ unplaced = {} /\ refused = {}

-----------------------------------------------------------------------------
(* The broker. *)

(* A message reaches the stream.  One that decodes carries its event hash  *)
(* as Nats-Msg-Id and is dropped inside the deduplication window.          *)
Publish(m) ==
  /\ last < MaxSeq
  /\ m.decodes => m.hash \notin window
  /\ last' = last + 1
  /\ log' = [log EXCEPT ![last + 1] = m]
  /\ window' = IF m.decodes THEN window \cup {m.hash} ELSE window
  /\ UNCHANGED <<first, delivery, process, volume, faults, history>>

WindowPasses(h) ==
  /\ Republished
  /\ h \in window
  /\ window' = window \ {h}
  /\ UNCHANGED <<log, last, first, delivery, process, volume, faults, history>>

(* Retention: the oldest message leaves, whatever the consumer did with it. *)
DiscardOldest ==
  /\ first <= last
  /\ first' = first + 1
  /\ UNCHANGED <<log, last, window, delivery, process, volume, faults, history>>

(* No answer inside AckWait: the message is due again. *)
AckWaitPasses(s) ==
  /\ delivery[s] = "out"
  /\ delivery' = [delivery EXCEPT ![s] = "due"]
  /\ UNCHANGED <<log, last, first, window, process, volume, faults, history>>

InStream(s) == first <= s /\ s <= last

Deliverable == {s \in Seqs : InStream(s) /\ delivery[s] \in {"new", "due"}}

AckPending == {s \in Seqs : InStream(s) /\ delivery[s] = "out"}

-----------------------------------------------------------------------------
(* The pull loop. *)

Start ==
  /\ pc = "down"
  /\ pc' = "fetch"
  /\ UNCHANGED <<broker, held, blind, junk, todo, poisoned, call, counts,
                 volume, faults, history>>

(* Mutant of Fetch: what was delivered once is not asked for again. *)
FetchNewOnly(F, B) ==
  /\ pc = "fetch"
  /\ F # {} /\ F \subseteq {s \in Deliverable : delivery[s] = "new"}
  /\ Cardinality(F) <= BatchSize
  /\ Cardinality(F \cup AckPending) <= MaxAckPending
  /\ \A s \in F, t \in Deliverable : t < s /\ delivery[t] = "new" => t \in F
  /\ B \subseteq F
  /\ unplaced' = unplaced \cup B
  /\ Cardinality(unplaced') <= MaxBlind
  /\ delivery' = [s \in Seqs |-> IF s \in F THEN "out" ELSE delivery[s]]
  /\ held' = {s \in F : log[s].decodes}
  /\ junk' = {s \in F : ~ log[s].decodes}
  /\ blind' = B
  /\ pc' = "decode"
  /\ UNCHANGED <<log, last, first, window, todo, poisoned, call, counts,
                 volume, faults, refused>>

(* Fetch(BatchSize, FetchMaxWait): up to BatchSize messages, new ones in   *)
(* stream order.  B are those whose metadata does not parse.               *)
Fetch(F, B) ==
  /\ pc = "fetch"
  /\ F # {} /\ F \subseteq Deliverable
  /\ Cardinality(F) <= BatchSize
  /\ Cardinality(F \cup AckPending) <= MaxAckPending
  /\ \A s \in F, t \in Deliverable :
       t < s /\ delivery[t] = "new" /\ delivery[s] = "new" => t \in F
  /\ B \subseteq F
  /\ unplaced' = unplaced \cup B
  /\ Cardinality(unplaced') <= MaxBlind
  /\ delivery' = [s \in Seqs |-> IF s \in F THEN "out" ELSE delivery[s]]
  /\ held' = {s \in F : log[s].decodes}
  /\ junk' = {s \in F : ~ log[s].decodes}
  /\ blind' = B
  /\ pc' = "decode"
  /\ UNCHANGED <<log, last, first, window, todo, poisoned, call, counts,
                 volume, faults, refused>>

(* Undecodable: the refusal is written down, or fails to be (the error is  *)
(* only logged), or cannot be for want of a sequence; then Term.           *)
RefuseJunk(s) ==
  /\ pc = "decode" /\ s \in junk
  /\ call' = [recs |-> {}, rejected |-> {s}, from |-> "none"]
  /\ pc' = "term"
  /\ counts' = [counts EXCEPT !.rejected = @ + 1]
  /\ \/ /\ s \notin blind
        /\ position' = Refuse(position, s)
        /\ refused' = refused \cup {s}
        /\ UNCHANGED storeErrors
     \/ /\ s \notin blind
        /\ storeErrors < MaxStoreErrors
        /\ storeErrors' = storeErrors + 1
        /\ UNCHANGED <<position, refused>>
     \/ /\ s \in blind
        /\ UNCHANGED <<position, refused, storeErrors>>
  /\ UNCHANGED <<broker, held, blind, junk, todo, poisoned, table, files,
                 crashes, lostAcks, unplaced>>

(* A disposition sent to the broker for the messages in S: those in R      *)
(* arrive.  Losing any costs the budget once.                              *)
Settle(S, R, state) ==
  /\ R \subseteq S
  /\ R # S => lostAcks < MaxLostAcks
  /\ lostAcks' = IF R = S THEN lostAcks ELSE lostAcks + 1
  /\ delivery' = [s \in Seqs |-> IF s \in R THEN state ELSE delivery[s]]

(* Undecodable's verdict is sent: the message is never delivered again. *)
TermJunk(R) ==
  /\ pc = "term"
  /\ Settle(call.rejected, R, "done")
  /\ junk' = junk \ call.rejected
  /\ call' = NoCall
  /\ pc' = "decode"
  /\ UNCHANGED <<log, last, first, window, held, blind, todo, poisoned, counts,
                 volume, crashes, storeErrors, history>>

(* Nothing to deliver inside FetchMaxWait: the loop goes round. *)
EmptyFetch ==
  /\ pc = "fetch" /\ Deliverable = {}
  /\ UNCHANGED vars

(* The fetch is drained: an empty batch goes round the loop again.         *)
Drained ==
  /\ pc = "decode" /\ junk = {}
  /\ pc' = IF held = {} THEN "fetch" ELSE "batch"
  /\ blind' = IF held = {} THEN {} ELSE blind
  /\ UNCHANGED <<broker, held, junk, todo, poisoned, call, counts, volume,
                 faults, history>>

-----------------------------------------------------------------------------
(* HandleBatch, isolate and AppendCanonicalBatch. *)

(* Mutant of HandleBatch: what is about to be committed is announced.      *)
AnnounceFirst ==
  /\ pc = "batch"
  /\ Recs # {} \/ Malformed # {}
  /\ \A r \in Recs : Verifies(r)
  /\ Report(Cardinality(Malformed), Cardinality(Kept))
  /\ call' = [recs |-> Recs, rejected |-> Malformed, from |-> "batch"]
  /\ pc' = "blobs"
  /\ UNCHANGED <<broker, held, blind, junk, todo, poisoned, volume, faults, history>>

(* Mutant of HandleBatch: a malformed identity is skipped, not refused.    *)
SkipMalformed ==
  /\ pc = "batch"
  /\ counts' = [counts EXCEPT !.rejected = @ + Cardinality(held \cap blind)]
  /\ \/ /\ Recs = {}
        /\ pc' = "ack"
        /\ UNCHANGED call
     \/ /\ Recs # {}
        /\ call' = [recs |-> Recs, rejected |-> {}, from |-> "batch"]
        /\ pc' = "blobs"
  /\ UNCHANGED <<broker, held, blind, junk, todo, poisoned, volume, faults, history>>

(* HandleBatch hands everything to one AppendCanonicalBatch, which         *)
(* verifies every record before it writes anything.  With nothing to write *)
(* it returns nil; with a mismatch the batch is isolated, and isolate is   *)
(* not given the malformed sequences.                                      *)
HandleBatch ==
  /\ pc = "batch"
  /\ counts' = [counts EXCEPT !.rejected = @ + Cardinality(held \cap blind)]
  /\ \/ /\ Recs = {} /\ Malformed = {}
        /\ pc' = "ack"
        /\ UNCHANGED <<call, todo, poisoned>>
     \/ /\ Recs # {} \/ Malformed # {}
        /\ \A r \in Recs : Verifies(r)
        /\ call' = [recs |-> Recs, rejected |-> Malformed, from |-> "batch"]
        /\ pc' = "blobs"
        /\ UNCHANGED <<todo, poisoned>>
     \/ /\ \E r \in Recs : ~ Verifies(r)
        /\ todo' = Recs
        /\ poisoned' = {}
        /\ pc' = "isolate"
        /\ UNCHANGED call
  /\ UNCHANGED <<broker, held, blind, junk, volume, faults, history>>

(* Mutant of IsolateOne: every call carries the poisoned so far.           *)
IsolateWithPoisoned(r) ==
  /\ pc = "isolate" /\ r \in todo
  /\ \/ /\ Verifies(r)
        /\ call' = [recs |-> {r}, rejected |-> poisoned, from |-> "isolate"]
        /\ pc' = "blobs"
        /\ UNCHANGED <<todo, poisoned>>
     \/ /\ ~ Verifies(r)
        /\ todo' = todo \ {r}
        /\ poisoned' = poisoned \cup {r.seq}
        /\ UNCHANGED <<call, pc>>
  /\ UNCHANGED <<broker, held, blind, junk, counts, volume, faults, history>>

(* isolate re-drives one record: a mismatch joins the poisoned.            *)
IsolateOne(r) ==
  /\ pc = "isolate" /\ r \in todo
  /\ \/ /\ Verifies(r)
        /\ call' = [recs |-> {r}, rejected |-> {}, from |-> "isolate"]
        /\ pc' = "blobs"
        /\ UNCHANGED <<todo, poisoned>>
     \/ /\ ~ Verifies(r)
        /\ todo' = todo \ {r}
        /\ poisoned' = poisoned \cup {r.seq}
        /\ UNCHANGED <<call, pc>>
  /\ UNCHANGED <<broker, held, blind, junk, counts, volume, faults, history>>

(* ... and, all re-driven, accounts for the refusals together.             *)
IsolateRefusals ==
  /\ pc = "isolate" /\ todo = {} /\ poisoned # {}
  /\ call' = [recs |-> {}, rejected |-> poisoned, from |-> "refuse"]
  /\ pc' = "blobs"
  /\ UNCHANGED <<broker, held, blind, junk, todo, poisoned, counts, volume,
                 faults, history>>

(* Oversized payloads are written and fsynced before the transaction.      *)
WriteBlobs ==
  /\ pc = "blobs"
  /\ files' = files \cup (Hashes(call.recs) \cap Large)
  /\ pc' = "tx"
  /\ UNCHANGED <<broker, held, blind, junk, todo, poisoned, call, counts,
                 table, position, faults, history>>

(* One transaction: the rows, the span and the counters, together.         *)
CommitTx ==
  /\ pc = "tx"
  /\ table' = Insert(table, call.recs)
  /\ position' = Advance(position, table, call.recs, call.rejected)
  /\ refused' = refused \cup call.rejected
  /\ call' = NoCall
  /\ \/ /\ call.from = "batch"
        /\ pc' = "ack"
        /\ Report(Cardinality(Malformed), Cardinality(Kept))
        /\ UNCHANGED <<todo, poisoned>>
     \/ /\ call.from = "isolate"
        /\ pc' = "isolate"
        /\ todo' = todo \ call.recs
        /\ UNCHANGED <<counts, poisoned>>
     \/ /\ call.from = "refuse"
        /\ pc' = "ack"
        /\ poisoned' = {}
        /\ Report(Cardinality(Malformed \cup poisoned),
                  Cardinality(Kept \ poisoned))
        /\ UNCHANGED todo
  /\ UNCHANGED <<broker, held, blind, junk, files, faults, unplaced>>

(* Mutant of StoreFails: the error is swallowed and the batch acked. *)
StoreErrorSwallowed(B) ==
  /\ pc \in {"blobs", "tx"}
  /\ storeErrors < MaxStoreErrors
  /\ storeErrors' = storeErrors + 1
  /\ pc' = "ack"
  /\ call' = NoCall /\ todo' = {} /\ poisoned' = {}
  /\ UNCHANGED <<broker, held, blind, junk, counts, volume,
                 crashes, lostAcks, history>>

(* A blob or a statement of the transaction fails.  Blobs written before   *)
(* the failure stay; the transaction leaves nothing.  The batch is naked.  *)
StoreFails(B) ==
  /\ pc \in {"blobs", "tx"}
  /\ storeErrors < MaxStoreErrors
  /\ storeErrors' = storeErrors + 1
  /\ B \subseteq Hashes(call.recs) \cap Large
  /\ files' = IF pc = "blobs" THEN files \cup B ELSE files
  /\ pc' = "nak"
  /\ call' = NoCall /\ todo' = {} /\ poisoned' = {}
  /\ UNCHANGED <<broker, held, blind, junk, counts, table, position,
                 crashes, lostAcks, history>>

(* Mutant of Answer: the batch is acked whatever became of it. *)
AnswerAlwaysAcks(R) ==
  /\ pc \in {"ack", "nak"}
  /\ Settle(held, R, "done")
  /\ pc' = "fetch"
  /\ held' = {} /\ blind' = {}
  /\ UNCHANGED <<log, last, first, window, junk, todo, poisoned, call, counts,
                 volume, crashes, storeErrors, history>>

(* Every message of the batch is acknowledged, or negatively acknowledged  *)
(* with a delay after which it is due again.                               *)
Answer(R) ==
  /\ pc \in {"ack", "nak"}
  /\ Settle(held, R, IF pc = "ack" THEN "done" ELSE "due")
  /\ pc' = "fetch"
  /\ held' = {} /\ blind' = {}
  /\ UNCHANGED <<log, last, first, window, junk, todo, poisoned, call, counts,
                 volume, crashes, storeErrors, history>>

(* The process stops: killed, or Consume returned on a fetch error.  Every *)
(* message it held stays unanswered; the volume keeps what was committed.  *)
Crash ==
  /\ pc # "down"
  /\ crashes < MaxCrashes
  /\ crashes' = crashes + 1
  /\ pc' = "down"
  /\ held' = {} /\ blind' = {} /\ junk' = {}
  /\ todo' = {} /\ poisoned' = {} /\ call' = NoCall /\ counts' = NoCounts
  /\ UNCHANGED <<broker, volume, storeErrors, lostAcks, history>>

-----------------------------------------------------------------------------
Broker ==
  \/ \E m \in Wire : Publish(m)
  \/ \E h \in Content \cup {MalformedHash} : WindowPasses(h)
  \/ DiscardOldest
  \/ \E s \in Seqs : AckWaitPasses(s)

(* What the archive process does when nothing fails it. *)
Archive ==
  \/ Start
  \/ \E F \in SUBSET Seqs : \E B \in SUBSET F : Fetch(F, B)
  \/ EmptyFetch
  \/ \E s \in Seqs : RefuseJunk(s)
  \/ \E R \in SUBSET Seqs : TermJunk(R)
  \/ Drained
  \/ HandleBatch
  \/ \E r \in todo : IsolateOne(r)
  \/ IsolateRefusals
  \/ WriteBlobs
  \/ CommitTx
  \/ \E R \in SUBSET Seqs : Answer(R)

Faults ==
  \/ \E B \in SUBSET Large : StoreFails(B)
  \/ Crash

Next == Broker \/ Archive \/ Faults

Spec == Init /\ [][Next]_vars

(* The process is restarted and its loop runs on; AckWait is a timer of    *)
(* the broker.  Nothing obliges a publisher, retention or a fault to act.  *)
FairSpec ==
  /\ Spec
  /\ WF_vars(Archive)
  /\ \A s \in Seqs : WF_vars(AckWaitPasses(s))

-----------------------------------------------------------------------------
(* Every variable holds a value the code could hold there. *)
TypeOK ==
  /\ log \in [Seqs -> Message \cup {NoMessage}]
  /\ last \in 0 .. MaxSeq
  /\ first \in 1 .. (MaxSeq + 1)
  /\ window \subseteq Content \cup {MalformedHash}
  /\ delivery \in [Seqs -> DeliveryState]
  /\ pc \in Control
  /\ held \subseteq Seqs /\ blind \subseteq Seqs /\ junk \subseteq Seqs
  /\ todo \subseteq [hash : Content, bytes : Content, seq : Seqs]
  /\ poisoned \subseteq Seqs
  /\ call \in [recs : SUBSET [hash : Content, bytes : Content, seq : Seqs],
               rejected : SUBSET Seqs, from : CallFrom]
  /\ counts \in [committed : Nat, rejected : Nat]
  /\ table \in [Content -> Content \cup {Absent}]
  /\ files \subseteq Large
  /\ position \in PositionType
  /\ crashes \in 0 .. MaxCrashes
  /\ storeErrors \in 0 .. MaxStoreErrors
  /\ lostAcks \in 0 .. MaxLostAcks
  /\ unplaced \subseteq Seqs
  /\ refused \subseteq Seqs

(* The delivery contract: a message the broker will never send again       *)
(* carried a record that can be read back from the archive.  Holds across  *)
(* any crash, failed write, lost ack and redelivery (Consume acknowledges  *)
(* only after HandleBatch returned nil).  A delivery without metadata has  *)
(* no position and is given up, as HandleBatch says.                       *)
AckedIsReadable ==
  \A s \in Seqs :
    delivery[s] = "done" /\ Good(s) /\ s \notin unplaced
      => Readable(table, files, log[s].hash)

(* Nothing is stored under a hash that does not describe it, and no row    *)
(* names a file that is not there: AppendCanonicalBatch verifies first and *)
(* writes blobs before rows.                                               *)
ContentAddressed ==
  \A h \in Rows(table) :
    Hash(table[h]) = h /\ Readable(table, files, h)

(* The rows and the position move in one transaction, so the archive never *)
(* holds a record from outside the span it believes it has walked, and     *)
(* committed counts exactly its rows.                                      *)
PositionAgreesWithRows ==
  /\ position.committed = Cardinality(Rows(table))
  /\ \A h \in Rows(table) :
       \E s \in Seqs : /\ position.first <= s /\ s <= position.highest
                      /\ Good(s) /\ log[s].hash = h

(* What the archive can say about a sequence it walked past. *)
Explained(s) ==
  \/ Good(s) /\ log[s].hash \in Rows(table)
  \/ s \in refused

(* The loss figure is exact at every instant, not only when drained: it    *)
(* counts the sequences of the span that are neither held nor refused, off *)
(* only by the refusals recorded more than once.                           *)
RefusedAgain == position.rejected - Cardinality(refused)

LossFigureExact ==
  Unaccounted(position) + RefusedAgain =
    Cardinality({s \in Seqs : /\ position.first <= s /\ s <= position.highest
                              /\ ~ Explained(s)})

(* Every refused record the consumer is finished with was accounted for    *)
(* durably, as long as no hash mismatch can send a batch to isolate (the   *)
(* Undecodable path is apart: its write may fail and is only logged).      *)
Mismatch(s) == log[s].decodes /\ WellFormed(s) /\ log[s].bytes # log[s].hash

RefusalAccounted(s) ==
  delivery[s] = "done" /\ log[s].decodes /\ ~ Good(s) /\ s \notin unplaced
    => s \in refused

RefusalsAccounted == \A s \in Seqs : RefusalAccounted(s)

RefusalsAccountedWithoutMismatch ==
  (\A s \in Seqs : ~ Mismatch(s)) => RefusalsAccounted

(* While every answer arrives and the process stays up, a sequence is      *)
(* refused in the books at most once, whatever writes fail and however     *)
(* late the answers are.                                                   *)
RefusedOnce == crashes = 0 /\ lostAcks = 0 => RefusedAgain = 0

(* report announces only what is durable: the process never claims more    *)
(* commits than the volume has seen. *)
AnnouncedIsDurable ==
  counts.committed <= position.committed + position.duplicates

(* No step walks the durable position backwards or forgets it.             *)
PositionMonotone ==
  [][/\ position.recorded =>
          position'.recorded /\ position'.first <= position.first
     /\ position'.highest >= position.highest
     /\ position'.committed >= position.committed
     /\ position'.rejected >= position.rejected
     /\ position'.duplicates >= position.duplicates]_vars

(* Every message still retained is eventually settled, whatever finite     *)
(* number of crashes, failed writes and lost acks comes in between: no     *)
(* message wedges the loop.                                                *)
EventuallySettled ==
  \A s \in Seqs : InStream(s) ~> (delivery[s] = "done" \/ ~ InStream(s))

-----------------------------------------------------------------------------
(* The inductive invariant behind AckedIsReadable and ContentAddressed.    *)

(* Nothing is known of a sequence before it is assigned. *)
Unassigned ==
  \A s \in Seqs :
    s > last => log[s] = NoMessage /\ delivery[s] = "new" /\ s \notin unplaced

(* The batch was delivered, sorted by whether it decodes, not yet settled. *)
BatchShape ==
  /\ \A s \in held : s <= last /\ log[s].decodes /\ delivery[s] # "done"
  /\ \A s \in junk : s <= last /\ ~ log[s].decodes /\ delivery[s] # "done"
  /\ blind \subseteq unplaced

(* Who called AppendCanonicalBatch and with what. *)
CallShape ==
  /\ pc \in {"blobs", "tx"} =>
       \/ /\ call.from = "batch" /\ todo = {}
          /\ call.recs = Recs /\ call.rejected = Malformed
          /\ Recs # {} \/ Malformed # {}
       \/ /\ call.from = "isolate"
          /\ call.rejected = {}
          /\ \E r \in todo : call.recs = {r}
       \/ /\ call.from = "refuse"
          /\ call.recs = {} /\ todo = {}
          /\ call.rejected = poisoned /\ poisoned # {}
  /\ pc \in {"blobs", "tx"} => \A r \in call.recs : Verifies(r)
  /\ pc = "tx" => Hashes(call.recs) \cap Large \subseteq files
  /\ pc = "term" => call.rejected \subseteq junk

(* The records of the batch that are already behind us. *)
Done(s) ==
  \/ pc = "ack"
  \/ pc = "isolate" /\ RecordOf(s) \notin todo
  \/ /\ pc \in {"blobs", "tx"} /\ call.from \in {"isolate", "refuse"}
     /\ RecordOf(s) \notin todo

DoneIsReadable ==
  \A s \in held \ blind : Good(s) /\ Done(s) => Readable(table, files, log[s].hash)

(* Only isolate has records left to re-drive, all of them of the batch. *)
IsolateShape ==
  /\ todo \subseteq Recs
  /\ pc \notin {"isolate", "blobs", "tx"} => todo = {}

IInv ==
  /\ TypeOK
  /\ Unassigned
  /\ BatchShape
  /\ CallShape
  /\ IsolateShape
  /\ DoneIsReadable
  /\ ContentAddressed
  /\ AckedIsReadable

-----------------------------------------------------------------------------
(* The pipeline implements the contract: a sequence is settled when its    *)
(* ack or term reached the broker, and a record is kept by its row.        *)
Carried == [s \in Seqs |-> IF Good(s) THEN log[s].hash ELSE Absent]

Contract == INSTANCE ArchiveContract WITH
  Nothing <- Absent,
  record  <- Carried,
  owed    <- {s \in Seqs : Good(s)} \ unplaced,
  kept    <- Rows(table),
  settled <- {s \in Seqs : delivery[s] = "done"}

ImplementsContract == Contract!Spec
=============================================================================

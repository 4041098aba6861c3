---------------------------- MODULE ArchiveMeter -----------------------------
(***************************************************************************)
(* The archive's gauges: pollStats reads the broker, onStats then reads    *)
(* the durable position, and the two are published while the pull loop of  *)
(* ArchivePipeline goes on committing in another goroutine and retention   *)
(* goes on discarding.  Every read and every group of gauges is a step.    *)
(* The gauges are the process's and start anew with it.                    *)
(***************************************************************************)
EXTENDS ArchivePipeline

CONSTANTS
  Unset,         \* a series that does not exist yet; a reading that failed
  MaxReadErrors  \* bound: reads of the broker or of the position that fail

ASSUME MeterAssumption == Unset \notin Nat /\ MaxReadErrors \in Nat

VARIABLES
  poll,       \* where the current poll is
  streamFirst,\* Stats.FirstSeq of this poll
  snap,       \* what PositionAndCount returned
  gauge,      \* archive_position_* and archive_stream_skipped, as scraped
  readErrors  \* budget spent

meter == <<poll, streamFirst, snap, gauge>>
mvars == <<vars, meter, readErrors>>

NoGauge == [pos |-> NoPosition, rows |-> Unset, skipped |-> Unset]
NoSnap  == [pos |-> NoPosition, rows |-> 0]

MeterReset ==
  poll' = "idle" /\ streamFirst' = Unset /\ snap' = NoSnap /\ gauge' = NoGauge

MeterInit ==
  /\ Init
  /\ poll = "idle" /\ streamFirst = Unset /\ snap = NoSnap /\ gauge = NoGauge
  /\ readErrors = 0

ReadFails ==
  /\ readErrors < MaxReadErrors
  /\ readErrors' = readErrors + 1

(* The pipeline's own steps; a crash takes the gauges with it. *)
PipelineStep ==
  /\ Next
  /\ IF pc' = "down" THEN MeterReset ELSE UNCHANGED meter
  /\ UNCHANGED readErrors

(* pollStats: the whole reading, or none.  A stream that never held a      *)
(* message has no first sequence.                                          *)
PollBroker ==
  /\ poll = "idle" /\ pc # "down"
  /\ poll' = "position"
  /\ \/ streamFirst' = (IF last = 0 THEN 0 ELSE first) /\ UNCHANGED readErrors
     \/ streamFirst' = Unset /\ ReadFails
  /\ UNCHANGED <<vars, snap, gauge>>

(* Mutant of ReadPosition: the position is the one of an earlier poll. *)
ReadPositionOnce ==
  /\ poll = "position"
  /\ snap' = IF snap.pos.recorded THEN snap
             ELSE [pos |-> position, rows |-> Cardinality(Rows(table))]
  /\ poll' = IF position.recorded THEN "publish" ELSE "idle"
  /\ UNCHANGED <<vars, streamFirst, gauge, readErrors>>

(* PositionAndCount: one read transaction for both.  Without a position,   *)
(* or with an error, nothing is published.                                 *)
ReadPosition ==
  /\ poll = "position"
  /\ \/ /\ snap' = [pos |-> position, rows |-> Cardinality(Rows(table))]
        /\ poll' = IF position.recorded THEN "publish" ELSE "idle"
        /\ UNCHANGED readErrors
     \/ poll' = "idle" /\ snap' = snap /\ ReadFails
  /\ UNCHANGED <<vars, streamFirst, gauge>>

(* ObservePosition sets its gauges one by one, the rows last. *)
PublishPosition ==
  /\ poll = "publish"
  /\ poll' = "rows"
  /\ gauge' = [gauge EXCEPT !.pos = snap.pos]
  /\ UNCHANGED <<vars, streamFirst, snap, readErrors>>

(* Mutant of PublishRows: the rows are counted by a query of their own. *)
CountRowsNow ==
  /\ poll = "rows"
  /\ poll' = "skipped"
  /\ gauge' = [gauge EXCEPT !.rows = Cardinality(Rows(table))]
  /\ UNCHANGED <<vars, streamFirst, snap, readErrors>>

PublishRows ==
  /\ poll = "rows"
  /\ poll' = "skipped"
  /\ gauge' = [gauge EXCEPT !.rows = snap.rows]
  /\ UNCHANGED <<vars, streamFirst, snap, readErrors>>

(* What left the stream above the durable position, as this poll saw both. *)
Skipped ==
  IF streamFirst = Unset THEN {}
  ELSE {s \in Seqs : snap.pos.highest < s /\ s < streamFirst}

(* Mutant of PublishSkipped: only a loss is published. *)
PublishLossOnly ==
  /\ poll = "skipped"
  /\ poll' = "idle"
  /\ gauge' = IF streamFirst \in {Unset, 0} \/ Skipped = {} THEN gauge
              ELSE [gauge EXCEPT !.skipped = Cardinality(Skipped)]
  /\ UNCHANGED <<vars, streamFirst, snap, readErrors>>

(* ObserveSkipped: without a reading of the stream the gauge is held. *)
PublishSkipped ==
  /\ poll = "skipped"
  /\ poll' = "idle"
  /\ gauge' = IF streamFirst \in {Unset, 0} THEN gauge
              ELSE [gauge EXCEPT !.skipped = Cardinality(Skipped)]
  /\ UNCHANGED <<vars, streamFirst, snap, readErrors>>

Poll ==
  PollBroker \/ ReadPosition \/ PublishPosition \/ PublishRows \/ PublishSkipped

MeterNext == PipelineStep \/ Poll

MeterSpec == MeterInit /\ [][MeterNext]_mvars

(* The ticker keeps polling while the process is up. *)
FairMeterSpec ==
  /\ MeterSpec
  /\ WF_mvars(Archive /\ UNCHANGED <<meter, readErrors>>)
  /\ \A s \in Seqs : WF_mvars(AckWaitPasses(s) /\ UNCHANGED <<meter, readErrors>>)
  /\ WF_mvars(Poll)

-----------------------------------------------------------------------------
(* A scrape taken at any moment never shows more rows than commits: rows   *)
(* appearing from nowhere (substrate.go, PositionAndCount).                *)
RowsNeverExceedCommits ==
  gauge.rows # Unset => gauge.rows <= gauge.pos.committed

(* What a poll counts as skipped has left the stream, and the archive had  *)
(* neither kept nor refused it when its position was read: the broker is   *)
(* read first, so that the consumer can only catch up in between and no    *)
(* record it holds is ever reported as lost.                               *)
OnlyTheLostAreSkipped ==
  [][poll = "position" /\ poll' = "publish" =>
       \A s \in Skipped' : s < first /\ ~ Explained(s)]_mvars

(* Once nothing moves, the gauges of a running archive agree with the      *)
(* volume and with the stream, across the restart that cleared them and    *)
(* the polls that failed.                                                  *)
InTime ==
  pc # "down" /\ position.recorded =>
    /\ gauge.pos = position
    /\ gauge.rows = Cardinality(Rows(table))
    /\ gauge.skipped = Cardinality({s \in Seqs : position.highest < s /\ s < first})

GaugesConverge == <>[]InTime
=============================================================================

------------------------------ MODULE Shedding -------------------------------
(***************************************************************************)
(* What becomes of a record a service hands to the stream: the best-effort *)
(* writes of the collector and of libs/decision, the outcomes that are not *)
(* best effort, and the collector's shedding from the age of the stream's  *)
(* oldest message (archivepressure, eventstream.WatchArchive).             *)
(*                                                                         *)
(* One record is one request; each is offered once.  Time is the age of    *)
(* each stored message and of the last reading, moved by Tick.  A handler  *)
(* waits 250ms (an outcome 5s), far less than a tick, so no tick falls     *)
(* inside one; a publish the client still holds can outlast any of them.   *)
(***************************************************************************)
EXTENDS Integers, FiniteSets

CONSTANTS
  Telemetry,    \* session starts and telemetry batches: shed under pressure
  Evaluation,   \* evaluations: best effort, never shed
  Outcome,      \* outcomes: the caller is told of a failure
  MaxAge,       \* the stream's age limit, in ticks
  Stale,        \* ticks a reading stays usable
  Capacity,     \* messages the stream's byte limit holds
  MaxRestarts   \* bound: restarts of the collector

Record == Telemetry \cup Evaluation \cup Outcome

ASSUME SheddingAssumption ==
  /\ Telemetry \cap Evaluation = {} /\ Telemetry \cap Outcome = {}
  /\ Evaluation \cap Outcome = {}
  /\ MaxAge \in Nat \ {0} /\ Stale \in Nat /\ Capacity \in Nat \ {0}
  /\ MaxRestarts \in Nat

VARIABLES
  configured,  \* a stream is configured (-nats); otherwise archive.Null
  watching,    \* WatchArchive found the durable when this process started
  up,          \* the broker can be reached
  place,       \* where each record is
  age,         \* ticks since it was stored, still counted once it left
  archived,    \* records the archive acknowledged
  fate,        \* how each request ended: the counter moved, or the answer
  reading,     \* archivepressure's last observation, or NoReading
  restarts

vars == <<configured, watching, up, place, age, archived, fate, reading, restarts>>

-----------------------------------------------------------------------------
NoReading == [level |-> -1, age |-> 0]

(* Ages are told apart until a reading of that message would be stale. *)
Horizon == MaxAge + Stale + 1

Stream == {r \in Record : place[r] = "stream"}

Unread == Stream \ archived

Stored(r) == place[r] \in {"stream", "gone"}

(* The handler is between offering r and hearing about it. *)
Waiting(r) == fate[r] = "waiting"

(* Mutant of Known: a reading is used however old it is. *)
NeverStale == reading # NoReading

Known == reading # NoReading /\ reading.age <= Stale

(* Level() >= SheddingThreshold: four fifths of the retention window. *)
Pressed == Known /\ 5 * reading.level >= 4 * MaxAge

AgeOf(S) == {age[r] : r \in S}

(* Mutant of OldestAge: the other end of the stream. *)
NewestAge ==
  IF Stream = {} THEN 0 ELSE CHOOSE a \in AgeOf(Stream) : \A b \in AgeOf(Stream) : a <= b

(* The age of the oldest message present, zero for an empty stream. *)
OldestAge ==
  IF Stream = {} THEN 0 ELSE CHOOSE a \in AgeOf(Stream) : \A b \in AgeOf(Stream) : b <= a

Init ==
  /\ configured \in BOOLEAN
  /\ watching \in {FALSE, configured}
  /\ up = TRUE
  /\ place = [r \in Record |-> "nowhere"]
  /\ age = [r \in Record |-> 0]
  /\ archived = {}
  /\ fate = [r \in Record |-> "none"]
  /\ reading = NoReading
  /\ restarts = 0

-----------------------------------------------------------------------------
(* archiveBestEffort, up to Append.  Only the collector's sheds, and a run *)
(* with no archive neither writes nor drops; RecordOutcome instead refuses *)
(* when there is none.                                                     *)
Offer(r) ==
  /\ fate[r] = "none"
  /\ \/ /\ r \in Telemetry /\ Pressed
        /\ fate' = [fate EXCEPT ![r] = "shed"]
        /\ UNCHANGED place
     \/ /\ ~ (r \in Telemetry /\ Pressed)
        /\ ~ configured
        /\ fate' = [fate EXCEPT ![r] = IF r \in Outcome THEN "refused" ELSE "nowhere"]
        /\ UNCHANGED place
     \/ /\ ~ (r \in Telemetry /\ Pressed)
        /\ configured
        /\ fate' = [fate EXCEPT ![r] = "waiting"]
        /\ place' = [place EXCEPT ![r] = "client"]
  /\ UNCHANGED <<configured, watching, up, age, archived, reading, restarts>>

(* The broker stores what the client sends, or had buffered until it could *)
(* reconnect; DiscardOld makes room by size.                               *)
Store(r) ==
  /\ up /\ place[r] = "client"
  /\ \/ /\ Cardinality(Stream) < Capacity
        /\ place' = [place EXCEPT ![r] = "stream"]
     \/ /\ Cardinality(Stream) >= Capacity
        /\ \E old \in Stream :
             /\ age[old] = OldestAge
             /\ place' = [place EXCEPT ![r] = "stream", ![old] = "gone"]
  /\ age' = [age EXCEPT ![r] = 0]
  /\ UNCHANGED <<configured, watching, up, archived, fate, reading, restarts>>

(* Mutant of Acknowledged: the write is counted when it is sent. *)
CountedWhenSent(r) ==
  /\ Waiting(r)
  /\ fate' = [fate EXCEPT ![r] = IF r \in Outcome THEN "accepted" ELSE "written"]
  /\ UNCHANGED <<configured, watching, up, place, age, archived, reading, restarts>>

(* The publish is acknowledged in time. *)
Acknowledged(r) ==
  /\ Waiting(r) /\ up /\ Stored(r)
  /\ fate' = [fate EXCEPT ![r] = IF r \in Outcome THEN "accepted" ELSE "written"]
  /\ UNCHANGED <<configured, watching, up, place, age, archived, reading, restarts>>

(* The budget expires first: counted as a drop, or answered 500.  The      *)
(* record may be on the stream, or still with the client.                  *)
Deadline(r) ==
  /\ Waiting(r)
  /\ fate' = [fate EXCEPT ![r] = IF r \in Outcome THEN "refused" ELSE "deadline"]
  /\ UNCHANGED <<configured, watching, up, place, age, archived, reading, restarts>>

(* The publish fails otherwise: refused, or no room left to buffer it. *)
Fails(r) ==
  /\ Waiting(r) /\ place[r] = "client"
  /\ fate' = [fate EXCEPT ![r] = IF r \in Outcome THEN "refused" ELSE "error"]
  /\ place' = [place EXCEPT ![r] = "lost"]
  /\ UNCHANGED <<configured, watching, up, age, archived, reading, restarts>>

(* The archive acknowledges a message (ArchivePipeline). *)
ArchiveReads(r) ==
  /\ r \in Unread
  /\ archived' = archived \cup {r}
  /\ UNCHANGED <<configured, watching, up, place, age, fate, reading, restarts>>

(* The link to the broker is lost or comes back. *)
Link ==
  /\ configured
  /\ up' = ~ up
  /\ UNCHANGED <<configured, watching, place, age, archived, fate, reading, restarts>>

-----------------------------------------------------------------------------
(* Mutant of Poll: a poll that failed is observed as an empty stream. *)
FailedPollIsCalm ==
  /\ watching
  /\ reading' = [level |-> IF up THEN OldestAge ELSE 0, age |-> 0]
  /\ UNCHANGED <<configured, watching, up, place, age, archived, fate, restarts>>

(* pollStats and Observe.  A poll that fails changes nothing.              *)
Poll ==
  /\ watching /\ up
  /\ reading' = [level |-> OldestAge, age |-> 0]
  /\ UNCHANGED <<configured, watching, up, place, age, archived, fate, restarts>>

(* Time passes: what reached the age limit leaves the stream. *)
Tick ==
  /\ \A r \in Record : ~ Waiting(r)
  /\ \E r \in Record : Stored(r) /\ age[r] < Horizon
  /\ age' = [r \in Record |-> IF Stored(r) /\ age[r] < Horizon THEN age[r] + 1 ELSE age[r]]
  /\ place' = [r \in Record |-> IF r \in Stream /\ age[r] >= MaxAge THEN "gone"
                                ELSE place[r]]
  /\ reading' = IF reading = NoReading \/ reading.age > Stale THEN reading
                ELSE [reading EXCEPT !.age = @ + 1]
  /\ UNCHANGED <<configured, watching, up, archived, fate, restarts>>

(* The collector restarts: what its client held is lost, requests end with *)
(* no answer, and the watcher binds again, or does not.                    *)
Restart ==
  /\ restarts < MaxRestarts
  /\ restarts' = restarts + 1
  /\ place' = [r \in Record |-> IF place[r] = "client" THEN "lost" ELSE place[r]]
  /\ fate' = [r \in Record |-> IF Waiting(r) THEN "nowhere" ELSE fate[r]]
  /\ reading' = NoReading
  /\ watching' \in {FALSE, configured}
  /\ UNCHANGED <<configured, up, age, archived>>

Next ==
  \/ \E r \in Record : Offer(r)
  \/ \E r \in Record : Store(r)
  \/ \E r \in Record : Acknowledged(r)
  \/ \E r \in Record : Deadline(r)
  \/ \E r \in Record : Fails(r)
  \/ \E r \in Record : ArchiveReads(r)
  \/ Link
  \/ Poll
  \/ Tick
  \/ Restart

Spec == Init /\ [][Next]_vars

-----------------------------------------------------------------------------
Place == {"nowhere", "client", "stream", "gone", "lost"}

Fate == {"none", "waiting", "nowhere", "written", "deadline", "error", "shed",
         "accepted", "refused"}

(* Every variable keeps its type; a reading never exceeds the age limit.   *)
TypeOK ==
  /\ configured \in BOOLEAN /\ watching \in BOOLEAN /\ up \in BOOLEAN
  /\ place \in [Record -> Place]
  /\ age \in [Record -> 0 .. Horizon]
  /\ archived \subseteq Record
  /\ fate \in [Record -> Fate]
  /\ reading \in [level : -1 .. MaxAge, age : 0 .. (Stale + 1)]
  /\ restarts \in 0 .. MaxRestarts

(* What was counted as written, and above all every outcome the caller was *)
(* told is recorded, reached the stream: the labels channel never answers  *)
(* 202 for a label that was not stored (RecordOutcome).                    *)
AcceptedIsStored ==
  \A r \in Record : fate[r] \in {"written", "accepted"} => Stored(r)

(* A usable reading bounds the backlog from above (Stats.OldestAge):       *)
(* whatever was published, lost or read since, no unread message is older  *)
(* than the reading and its own age say.                                   *)
PressureIsAnUpperBound ==
  \A r \in Unread : Known => age[r] <= reading.level + reading.age

(* No unread record reaches the age limit and leaves while the collector   *)
(* holds a usable reading that says there is still room.                   *)
AgeOutForeseen ==
  [][(\E r \in Unread : place'[r] = "gone" /\ age'[r] # age[r])
       => Pressed \/ ~ Known]_vars

(* A record is shed only while some message past the threshold is in the   *)
(* stream, or was within the time a reading stays usable: the collector    *)
(* does not keep shedding on the past (archivepressure.Stale).             *)
ShedOnEvidence ==
  [][\A r \in Record : fate'[r] = "shed" /\ fate[r] # "shed" =>
       \E m \in Record : /\ Stored(m)
                         /\ 5 * age[m] >= 4 * MaxAge
                         /\ place[m] = "gone" => age[m] <= MaxAge + Stale]_vars

=============================================================================

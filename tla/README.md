# Ghost Trace in TLA+

Models, model-checking runs and machine-checked proofs about the server side of
Ghost Trace: browser telemetry is collected into sessions, every accepted record is
handed to a JetStream stream, an archive service moves the stream into a
content-addressed store, and a decision is made from a session's evidence and acted
on by a customer's application.

Contents: [the system](#the-system) · [modules](#modules) · [runs](#runs) ·
[bounds](#bounds) · [fairness](#fairness) · [proofs](#proofs) ·
[where code and words differ](#where-code-and-words-differ) ·
[not modelled](#not-modelled) · [plan](#plan)

## The system

| component | source | state | operations |
|---|---|---|---|
| event stream | `libs/eventstream` | stream `GT_EVENTS` (7 days, 4 GiB, discard old, 5 min deduplication by content hash), one durable consumer (explicit ack, 30 s AckWait, unlimited redelivery, at most 4x128 unacknowledged) | Publish, Consume, pollStats, WatchArchive, EnsureStream/OpenStream |
| substrate | `libs/substrate` | table `events` (by SHA-256), blob directory for payloads over 16 KiB, one-row `stream_position` | Open and its migrations, Append, AppendCanonicalBatch, RecordRejected, ReadBlob, PositionAndCount |
| archive consumer | `services/archive/internal/consumer` | none durable; counters | HandleBatch, isolate, report, Undecodable |
| archive service | `services/archive/cmd/archive`, `archivemeter` | the gauges | start, poll, publish position, rows, skipped |
| local archive (`-data`) | `ingest`, `substratearchive` over `libs/substrate` | the same volume, owned by the collector | append under one lock, from concurrent requests |
| session store | `services/collector/internal/session` | `byToken`, one lock | Create, With, Sweep, ObserveBatch |
| telemetry handler | `services/collector/internal/app` | none | StartSession, IngestTelemetry |
| snapshot bucket | `libs/eventstream/sessionkv.go` | a KV bucket whose TTL is the session's | EnsureSessions/OpenSessions, Put, Get |
| session readers | `livesessions`, `snapshotsessions` | none | Lookup, by live store or by bucket |
| best-effort writes and shedding | `app.go`, `archivepressure`, `libs/metrics/loss.go` | last pressure reading, loss counters | archiveBestEffort, Observe, Level |
| decision service | `libs/decision`, decision engine | loss counters | Decide, RecordOutcome |
| feature accumulators | `libs/feature` | per session: `Pointer`, `Keystroke`, `Interaction`, each O(1) | Add, AddKey, AddScroll, AddFocus, AddForm, State |
| policy | `libs/policy` | the calibration, fixed at start | Judge, Apply |
| tenants | `libs/tenant` | the registry, fixed at start | New, BySecret, BySiteKey, Fingerprint |
| demo | `services/demo-web` | a capture log | login: decide, report, show; fails open |
| load generator | `tools/loadgen` | the semaphore and the results of one run | Run, Summarise, the refusal of a run that fell behind |

How they meet. The browser calls the collector; the collector changes a session under
one lock, then *outside it* publishes a copy to the bucket and appends the record to
the stream, each within 250 ms and best effort. The archive pulls batches from the
stream through the durable consumer, commits each in one transaction together with its
stream position, and acknowledges afterwards; beside that loop a poll publishes gauges
from two readings, of the broker and of the volume. A separate watcher in the collector
polls the stream's oldest message and its age becomes the pressure on which telemetry is
shed. A customer's backend asks for a decision with a session token; the service reads
the live store (collector) or the bucket (decision engine), judges, archives the
evaluation best effort and answers; the backend acts and reports what it did. Outcomes
are the one kind of record whose caller is told of a failure. Which limits, which TTL
and which tenants all of them go by is settled when each process starts, by what the
collector declares at the broker and what each reads from files.

What is hard, and what makes each part correct:

* **Archive.** At-least-once delivery against crashes at every instruction, failed
  writes, lost acks, ack timeouts that race the write, retention that discards unread
  messages, and records that can never be kept. Correct when an acknowledged message is
  readable, rows match their hashes, rows and position move together, the loss figure
  counts exactly what was lost, refusals are accounted once, and no message wedges the
  loop.
* **Gauges.** Two reads at two moments, published one at a time while the loop commits.
  Correct when no scrape shows rows without commits, nothing the archive holds is called
  lost, and the figures converge when nothing moves.
* **Local archive.** A directory written by older versions or by a run stopped anywhere,
  a migration that can itself be stopped, requests that run into their deadline half way.
  Correct when everything ever accepted reads back and the archive always opens again.
* **Sessions.** Concurrent, reordered and repeated batches; a copy made under a lock and
  written after it; writes that time out and land later; a collector that restarts and
  loses its map while the bucket stays. Correct when no tenant sees another's session,
  no reader shows a state the session never had, the two readers agree when nothing is
  in flight, no session comes back, none is leaked.
* **Shedding.** A reading that ages while it is used, polls that fail, publishes whose
  fate is unknown at the deadline, two ways in which the stream discards. Correct when an
  accepted outcome is on the stream, the reading bounds the backlog, and nothing is shed
  without evidence.
* **Decisions.** A client and a server that each give up on the other, a publish that may
  land after both did, restarts with another registry between decision and outcome, and
  labels that are recorded without looking up what they are about. Correct when what a
  page shows as filed is stored, a stored label joins the verdict its application acted
  on, participants of the capture study stay unnamed, and every login is answered.
* **Start-up.** Three services in any order, builds and flags that change between
  restarts, files edited between two reads, a broker that goes away in the middle. Correct
  when the serving collector's limits are the broker's, readers that checked agree with
  it, and consistent settings bring everybody up.
* **Judgement.** Features come one event at a time, from several channels, and may be
  judged between any two; segments are cut by state carried across corners and pauses; a
  feature that was not measured reads 0; three thresholds decide together. Correct when
  straight legs are not taken for a curve, evidence never lowers confidence, no single
  channel blocks, what looks human is allowed and every verdict can be explained.
* **Load generator.** A stalled server must not slow the schedule it is measured by, and
  a cancelled run leaves goroutines behind. Correct when a stall shows in every arrival
  that was due in it, and an accepted run kept its schedule.

`PROJECT.json` lists every hazard at its line, with the properties that watch it.

## Modules

| module | what it is |
|---|---|
| `Substrate` | values and operators: rows, blobs, position, the loss arithmetic. No variables: whoever owns a substrate keeps them and uses these operators for every durable write. |
| `ArchivePipeline` | the stream (external), Consume's loop, the consumer and the transaction, as one state machine with faults |
| `ArchiveContract` | what the archive promises the stream, in 4 variables and 4 actions: a sequence is settled only once its record is kept |
| `ArchiveMeter` | the poll beside the loop: extends `ArchivePipeline`, every step of which it interleaves with its own |
| `LocalArchive` | a substrate opened on whatever directory was left, and appended to concurrently |
| `Sessions` | session store, telemetry handlers, bucket, both readers |
| `Shedding` | what becomes of each offered record, the stream's ageing and the pressure reading |
| `TenantRegistry` | operators: which files New accepts, both lookups, the fingerprint |
| `Decisions` | a login between backend, decision service and stream; uses `TenantRegistry` |
| `Deployment` | the starts of collector, archive and engine around one broker; uses `TenantRegistry` |
| `Policy` | pure operators over a calibration: channels, Judge, Apply |
| `Evidence` | the three accumulators fed one event at a time, and their feature vectors, judged by `Policy` (which it extends) |
| `LoadGen` | the open-loop driver: schedule, semaphore, goroutines, summary |
| `ArchiveProofs`, `LocalArchiveProofs`, `SessionsProofs`, `SheddingProofs`, `DecisionsProofs`, `DeploymentProofs`, `EvidenceProofs`, `LoadGenProofs` | theorems |
| `MC...` | values for the runs |

Every module begins with what it abstracts. Definitions whose comment starts with
"Mutant of X" are not used by any specification: each is X with a plausible bug, kept
so that every checked property is known to notice one.

**ArchivePipeline.** `pc` is the place in Consume's loop: `fetch`, `decode` (splitting
what unmarshals from what does not), `term`, `batch` (HandleBatch), `blobs` and `tx`
(AppendCanonicalBatch before and in its transaction), `isolate`, then `ack` or `nak`.
The process can stop between any two. `held`, `junk` and `blind` are the batch:
decoded messages, undecodable ones, and deliveries whose metadata does not parse
(sequence 0). `table`, `files`, `position` survive a crash; everything from `pc` to
`counts` does not. `delivery` is the durable consumer's view of a sequence: new, out,
due again, done. `unplaced` and `refused` are history.

| action | code |
|---|---|
| Publish, WindowPasses, DiscardOldest, AckWaitPasses | the broker as configured by `streamConfig` and `ConsumerConfig` |
| Fetch, EmptyFetch, Drained, TermJunk, Answer | `Consume` (jetstream.go) |
| RefuseJunk | `Undecodable` and `RecordRejected` |
| HandleBatch, IsolateOne, IsolateRefusals | `HandleBatch`, `isolate` (consumer.go) |
| WriteBlobs, CommitTx, StoreFails | `AppendCanonicalBatch` (substrate.go) |
| Start, Crash | the process; `Consume` returning on a fetch error |

**ArchiveMeter.** `poll` walks through `pollStats` (`PollBroker`), `onStats` with
`PositionAndCount` (`ReadPosition`) and the gauges in the order they are set
(`PublishPosition`, `PublishRows`, `PublishSkipped`). `streamFirst` and `snap` are the two
readings, `gauge` is what a scrape sees; `Unset` is a series that does not exist yet and a
reading that failed. `PipelineStep` is any step of the pipeline; a crash clears the gauges.

**LocalArchive.** `events` and `positions` are how far the two tables have been migrated,
`row` says where a payload is (in the column, in a file), `proc` is `Open` (`Start`,
`CreateEvents`, `CreatePositions`, `EnsurePayloadColumn`, `EnsureDuplicatesColumn`,
`OpenFails`), and each request goes through `Append`, `Lock` (writeMu), `WriteBlob` and
`InsertRow`, any of which may fail with what it has done so far left behind. `Init` is a
fresh directory, one from before inlining (ADR-0009), whose rows all have files, or one from
between that and ADR-0010, with payloads in rows and inherited ones in files; each may have
files without rows.

**Sessions.** One entry per token, with an `age` in ticks instead of clocks; a batch
changes the counters ObserveBatch keeps, and the evidence is how many batches it came
from. `Telemetry` is the critical section and ends with the copy; `Put`, `PutFails` and
`Flush` are what may become of the copy. `Sanitized` is what `sanitizeToken` makes of a
tenant's id in the bucket's key, and two ids may come out the same. Histories: `issued`,
`accepted`, `arrived`, `went` (each state the session went through, as a snapshot), `raced`
(sessions whose handlers overlapped).

**Shedding.** Each record is one request. `place` is where it is (with the client, on
the stream, gone from it, lost), `fate` what the counters or the caller were told;
the two differ exactly because a deadline says nothing about the publish. `reading` is
archivepressure's last observation with its own age.

**Decisions.** Each login has three handlers: `login` in the backend (page, deciding,
reporting, shown), `decide` and `report` in the service. `Decided`, `DecideFails`,
`ReportAnswered`, `ReportFails` are demo-web's login (web.go) with its client (client.go):
whatever the service does, the client may give up first. `Authenticate`, `LookupFails`,
`Judge`, `Archived`, `ArchiveFails` are the handler of `/v1/decisions` and
`Service.Decide` with `archiveBestEffort`; `RecordOutcome`, `Recorded`, `RecordFails` are
`/v1/outcomes`. A record published is in `sent` until the stream has it (`Store`) or never
will (`Lose`); the handlers' deadlines do not stop either. `Crash` cuts every handler and
starts the service with any accepted registry; `moved` is history, the logins whose
backend's secret became another tenant's by that. One login asks for one decision, so its name
doubles as the id minted for the evaluation. The judgement itself is any verdict: it is
`Policy`'s business.

**Deployment.** `stream`, `bucket` and `durable` are at the broker; `limits`, `ttl` and
`file` are what each process would start with; `pc` is the place in its start, one call
of `main` at a time: `LoadTenants`, `Connect`, then `EnsureStream`, `EnsureSessions`,
`WatchArchive` for the collector, `OpenStream` and `CreateDurable` for the archive,
`OpenStream` and `OpenSessions` for the engine, `OpenSubstrate` before the archive's. Each
may fail and end the process (`Exits`, `NoBroker`); `LinkBreaks` and `LinkMends` are the
broker's outages, `Upgrade` and `EditFile` the operator. `current` is history: readers
that checked after the collector's last declaration.

**Evidence and Policy.** Each event is an action and each accumulator a record with the
code's running sums. A pointer sample is an integer step of integer length from the last
sample, so path lengths are exact and the 60 degree test is the exact `2 a.b < |a||b|`;
net displacement is the integer square root. Times are kept as what the code derives
from them: a pause or not, a flight, a dwell, or none. `Policy` computes in integers
(scores and ratios in thousandths, confidence in six-thousandths, weights in hundredths).
Its divisions round down, except those whose quotient the code compares with zero
(`RoundedUp`, a device of the integers and not of the code): a share of evidence is zero
only when there is none of it, since a channel with no confidence abstains and is not
counted. Reason weights and their order are left out. `course` is history: which way
the pointer's leg heads, and whether it ever turned gently, which is off that heading other
than by a corner between two steps long enough to be trusted. Steps along a leg, however
small, turn nowhere.

**LoadGen.** `pc` and `next` are Run's loop (`Arrive`, `TakeSlot`, `Abandon` on a cancel,
`Join`), `at[i]`, `left[i]` and `results[i]` are arrival i's goroutine (`Begin`, `Opened`
between the two calls of a session, `Finish`), `slots` the semaphore. `Summary` is the
report and main's refusal by deficit, with the nearest-rank percentile in integers. The
server is free in how long it takes and what it says.

**TenantRegistry** has no state: a registry is a sequence of entries New accepted.

## Runs

| run | checks | shows |
|---|---|---|
| `arch` | AckedIsReadable, PositionAgreesWithRows, AnnouncedIsDurable, PositionMonotone, ImplementsContract, EventuallySettled | inline, oversized, corrupted and undecodable messages, published again after their window, with a crash, a failed write and a delivery without metadata anywhere |
| `arch_loss` | LossFigureExact, RefusalsAccountedWithoutMismatch, RefusedOnce | every kind of refusal beside a good record, three sequences, a crash, a failed write, a lost ack, and retention ahead of the consumer |
| `arch_isolate_forgets` | RefusalsAccounted (violated) | a malformed identity beside a hash mismatch is forgotten |
| `meter` | RowsNeverExceedCommits, OnlyTheLostAreSkipped, GaugesConverge | gauges read and published step by step beside the loop, with a restart and a failed reading |
| `local` | RecordsStayReadable, OpensAndAnswers | each earlier version's directory, migrated by a process stopped anywhere, two concurrent appends |
| `sess` | AnswersAreOwn, SnapshotsArePast, ReadersAgreeUnlessRaced, SnapshotLifetime, GapsExposed, NoSessionComesBack, EverySessionLeaves | three tenants, two of whose ids sanitise alike, two racing handlers, reordered and repeated batches, a failed or late write, a restart |
| `shed` | AcceptedIsStored, PressureIsAnUpperBound, AgeOutForeseen, ShedOnEvidence | a batch, an evaluation and an outcome while the link, the collector and the stream's limits interfere |
| `login` | ReportedIsStored, LabelsJoinTheirVerdict, ParticipantsCanBeForgotten, EveryLoginAnswered | two logins at two customers, both modes, with and without an archive, timeouts on either side, late and lost publishes, a restart with a tenant removed and its secret given to the other |
| `deploy` | CollectorOwnsTheStream, ReadersAgreeWithTheCollector, EverythingComesUp | three services started, stopped and replaced in any order around a broker that may be away |
| `judge` | StraightLegsStayStraight, VerdictsAreExplained, OneChannelNeverBlocks, HumanIsAllowed, ConfidenceNeverFalls | every order of events within the budget, judged for every action after each |
| `judge_thin_rhythm` | TooFewIntervalsReportNoRhythm (violated) | one interval is called perfectly regular typing |
| `load` | StallsShow, AcceptedRunsKeptTheSchedule, RunReturns | arrivals of two calls over a semaphore against any server, cancelled anywhere |

Each property has a mutant in `PROJECT.json`: a mapped definition with a plausible bug,
under which the same run finds the property violated.

`shed` turns deadlock checking off: the set of records is finite and each is offered
once, so a behaviour ends when all have met their fate, aged as far as ages are told
apart, and the broker's link is down for good. The two `judge` runs do too: they end when
the budget of events is spent. All others check it; where a system comes to rest
(`Decisions!Settled`, `Deployment!Quiet`, `LoadGen!Reported`) resting is a named step with
its own guard, so that stopping anywhere else is still a deadlock.

No run lists the type invariants or the inductive invariants (`IInv`, `Provenance`,
`Readings`, ...): they are proved for every instance.

## Bounds

* `arch`: two sequences in fetches of up to two give a full fetch, a partial one and one
  that mixes a redelivery with a new message; two contents, one inline and one oversized,
  so that two sequences can carry one content (`Republished = TRUE`) or two. One crash and
  one failed write, anywhere: between two of a kind the pipeline returns to `fetch` with the
  volume as its only memory. Lost acks are in `arch_loss`.
* `arch_loss`: three sequences, so that a malformed identity, a mismatch or junk can stand
  between two others in one fetch or across two, and retention can take any of them first.
  `Republished = FALSE`: a record published twice explains two sequences by one row, and
  `committed` counts the row once, so the second reads as lost although the record is held.
* `meter`: two sequences, the fewest of which one can be skipped while the other is held;
  a poll interleaved at every step, one restart, one failed reading.
* `local`: two requests, the fewest that queue for the lock; two small payloads and a large
  one; two stops and a failure, so that a migration can be stopped, resumed and stopped.
* `sess`: one token, since sessions share nothing but the lock; three tenants, so that
  one shares another's key and one nobody's; two handlers, the fewest that can race; 3
  batches with counters 0..2 for a gap at every place. `TTL` of one tick, ages to `2 TTL + 2`.
* `shed`: `MaxAge = 5` so that the threshold, four fifths, is a whole tick; a stream
  of two messages so that a third displaces one; ages counted until a reading of the
  message would be stale.
* `login`: two logins at two tenants' backends and one session, of the first tenant: a
  login with evidence, one without, and one that presents a token not its own. Two
  registries, and one restart between any two steps: in the second the first tenant is gone,
  its secret is the second's, and the second's old secret is nobody's.
* `deploy`: two limits and two TTLs tell a reader's from the writer's; three files: a
  registry, the same tenants with their site keys swapped, and one New refuses. Two
  changes by the operator, so that a fleet can be half upgraded, and one fault.
* `judge`: `MaxEffort` is a budget: a key event costs 3, a sample 5, a structural event
  8. At 35 a session has seven samples (two qualifying legs and their corner), or typing
  with ten intervals, or a path long enough to be judged with one structural event, and
  the mixtures between. `judge` runs with `Brisk`, the shipped calibration with lower
  saturation points (as a `-policy` file may have), so that sessions of this size reach
  every verdict; `judge_thin_rhythm` uses `calibration.json` as shipped. Steps are straight
  on, a gentle turn, a corner and a twitch too short to have a direction.
* `load`: three arrivals over two workers, so that one waits for a place; time to twice
  the length of the schedule, so that a stall can outlast it; percentile 60, which three
  entries can both satisfy and break.

The proofs have none of these bounds.

## Fairness

* `ArchivePipeline!FairSpec`: weak fairness of the archive's own actions taken together
  (Consume is a `for` loop with no blocking call that is not bounded by a timeout, and
  its process is restarted by the deployment) and of each AckWait timer, which is the
  broker's. Faults, publishers and retention are never obliged to act. `EventuallySettled`
  holds because faults are finitely many, not because they are unfair.
* `ArchiveMeter!FairMeterSpec`: the same, and weak fairness of `Poll`: the ticker of
  `pollStats` fires, and both readings have a deadline.
* `LocalArchive!FairSpec`: `Open` runs on, being straight-line code of a process that is
  restarted; each request is strongly fair in `Lock`, `WriteBlob` and `InsertRow`, because a
  Go mutex is handed to its longest waiter, so a request cannot lose the race for
  `writeMu` for ever. Nobody is obliged to append.
* `Sessions!FairSpec`: time passes (`Tick`), the sweep loop's ticker fires (`Sweep`), and
  a handler is bounded by its 250 ms (`Put`, `PutFails` being the other way out).
* `Decisions!FairSpec`: the backend's two calls, each bounded by its client's timeout
  (`client.go`). Neither the service nor the stream is obliged to answer.
* `Deployment!FairSpec`: the supervisor starts what is down and a start proceeds
  (`restart: unless-stopped` in compose.yml), and an outage ends. The operator and faults
  are not obliged to act. `EverythingComesUp` asks for consistent settings from some time on.
* `LoadGen!FairSpec`: time passes, goroutines run, and a call ends (the client's 30 s
  timeout, main.go); the server chooses when and how.
* `Shedding` and `Evidence` claim no liveness.

## Proofs

Every safety invariant and action property of the passing runs is a theorem, for every
value of the constants its assumptions allow. One module of proofs per component, each
with an inductive invariant of its own; the proof that a step keeps it has one lemma or
one step per action.

**`ArchiveProofs`** (assumptions: `SubstrateAssumption`, `PipelineAssumption`, which only
type the constants and make `Content` finite) proves, for every number of sequences, every
set of contents and of messages, every batch size and every budget of faults,
`TypeCorrect`, `AckedIsAlwaysReadable`, `StoreIsContentAddressed`,
`PositionAlwaysAgreesWithRows`, and `Implementation`: `Spec => Contract!Spec`, each step a
contract step or a stutter.

`AckedIsReadable` is not inductive: an ack follows many steps after the write it relies on.
`IInv` carries it across them. `DoneIsReadable` says that what the batch has put behind it
(`Done`, which depends on `pc`, on who made the call and on what isolate still has to do)
is readable; `CallShape` says what is inside the transaction at each `pc`, that it was
verified, and that its files are written before the rows; `IsolateShape` and `BatchShape`
say that isolate's list and the batch come from messages really delivered and not yet
settled; `Unassigned` keeps the log from changing under them. Rows only grow (`Insert`
never overwrites), so readability, once gained, stays. The refinement maps a row to a kept
record and an ack that reached the broker to a settled sequence: `CommitTx` is `Keep`,
`Answer` and `TermJunk` are `Settle`, a fetch without metadata is `Excuse`.
`PositionAgreesWithRows` needs the count of rows after an insert, which rests on lemmas
about cardinality and about Min and Max of a finite set of sequences.

The same module then proves what the books say. `PositionNeverGoesBack` follows from what
one `Upsert` does to a position that is blank until it is recorded (`Blank`).
`NothingIsAnnouncedEarly` strengthens `AnnouncedIsDurable` by the records isolate has
committed one at a time and not yet announced (`Behind`). `RefusalsAreWrittenDown` and
`NoRefusalIsCountedTwice` rest on where a refused sequence is between the transaction and
the answer (`Refusing`, `Finished`), and on `PoisonShape`: isolate refuses only messages of
its own batch, none of them good. `LossFigureIsExact` splits the span into the held, the
refused and the lost: the held are as many as the rows because no two sequences carry one
content (`Distinct`, which is where `~ Republished` is needed), the refused lie inside the
span and hold nothing good (`SpanShape`). For the composition with the meter,
`NoRowsFromNowhere` and `OnlyLossesAreSkipped` add `Readings`: a reading is a position the
volume has had, the gauges lag behind the last reading, and the broker's reading is not
ahead of the broker.

**`SessionsProofs`** (`SessionsAssumption`, types) has
two invariants. `Provenance` ties the places a snapshot can be (a handler's copy, the
client's buffer, the bucket, an answer) to the history of one session: each is a state that
session went through, and each such state carries the tenant it was issued for. From it
follow `Isolation`, `BucketShowsThePast` and `SessionsNeverComeBack`. Isolation through the
bucket is by key alone, so what holds of it is what a key says of its owner (`EqualKeys`):
the session is the asker's or that of a tenant whose id sanitises alike. Nothing is assumed
of the ids. `Fresh` is about the latest copy. `LatestKept`
says that a session whose handlers never overlapped has at most one copy in flight, which
is its present state, and otherwise that state is in the bucket (`ReadersAgree`).
`Lifetimes` and `YoungerThanTheirSession` relate three clocks, the session's, the snapshot's
and the tick a late handler straddles; `SnapshotsDoNotLinger` is their sum.
`BatchesCounted` relates the two counters to the set of batches that came, and `GapsShow` is
counting: a set of naturals below h + 1 with as many elements is all of them.

**`SheddingProofs`** (`SheddingAssumption`, types) proves `CountedIsStored`,
`PressureBoundsTheBacklog`, `AgeOutIsForeseen` and `SheddingHasEvidence` for any requests,
retention, capacity, staleness and restarts. A reading bounds the stream on both sides while
it is usable: nothing is older than it and its own age say (`BoundsTheStream`), and the
message it was about is exactly that old (`AboutAMessage`), on the stream or gone from it,
which is why messages keep ageing in the model after they leave. `AgeOutIsForeseen` has a
hypothesis, `5 * Stale <= MaxAge`: between the threshold (four fifths) and the limit there
must be room for a reading to age. The code's values are 90 seconds against seven days.

**`DecisionsProofs`** (`DecisionsAssumption`, which types the constants and takes every
registry to be one New accepts) proves `ReportedIsStored`,
`LabelsJoinTheirVerdict` and `ParticipantsCanBeForgotten` for any logins, sessions,
registries and restarts. The invariant has one part per login, `HandlersOK` (what the three
handlers know of each other, at every place each can be in), one per record sent or stored,
`RecordOK` (whose it is, under which registry it was authenticated, and which verdict it
goes back to), and one per capture row. A
restart may give a secret to another tenant, and an outcome is then filed under another
tenant than the evaluation it labels: `SpeakerKept` says that this takes such a restart
between the login's two calls (`moved`), and nothing else does it. Beside the invariant
stands `SecretNamesItsTenant`, about files of any length: in one New accepts, the lookup by
secret, which does not stop at its first hit, still has one answer.

**`DeploymentProofs`** (`DeploymentAssumption`, types) proves `CollectorOwnsTheStream`,
`ReadersAgreeWithTheCollector` and `FingerprintsTell` from `Declared` (what the broker holds
at each place of the collector's start), `Checked` (what a reader in `current` found there)
and `Loaded` (what is served was accepted). `FingerprintDecides` is its lemma about
registries: equal fingerprints mean equal answers to every site key.

**`LocalArchiveProofs`** (`SubstrateAssumption`, `LocalArchiveAssumption`) proves
`RecordsStayReadable`, and that no step takes a file away or moves a payload
(`NothingIsUnwritten`). `FilesFirst` is the heart: a row that points at a file has one, and
a request about to insert a large payload has written it.

**`EvidenceProofs`** (`CalibrationAssumption`, which is what `validate` demands) is about
sessions of any length, whatever the budget of events, and every
calibration. It starts with arithmetic (quotients, products and weighted sums, which the
solvers do not find unaided), then says of each channel and of `Judge` what they report of
any feature vector (`PointerReport`, `KeystrokeReport`, ... and monotone counterparts), and
connects those to the accumulators through `IInv`: which sums can be left behind.

* `VerdictsExplained`: a channel with a score has a reason, so a verdict has one. Needs
  both score thresholds above zero: with a threshold of 0 a session is challenged for
  nothing, and `validate` accepts that.
* `BlockTakesTwoChannels`: needs `min_channels_to_block >= 2`; `validate` accepts 1.
* `HumansAllowed`: needs the same thresholds and the directions of the two ramps
  (`RisingStraightness`, `FallingRhythm`). `validate` checks neither: a file with floor and
  ceiling swapped is loaded, and calls curved movement linear.
* `EvidenceAddsUp`: no further assumption. Each event raises one channel's confidence or
  leaves all alone, and the norm, the dominant weight, depends on the action only.
* `StraightLegs`: no further assumption. `StraightSoFar` says that, as long as no turn was
  gentle, the open segment lies on the line of its leg's heading (`OnLine`), steps too
  small to be trusted included, and the closed ones lost nothing of their path; the
  net of a segment on a line is its path.

The shipped calibration and `Brisk` satisfy all of these hypotheses.

**`LoadGenProofs`** (`LoadGenAssumption`: types, and a schedule that fits into the run)
proves `StallsShow` for every schedule, number of workers, server and length: every
goroutine's entry carries the schedule's own time (`OnSchedule`), entries are in the order
of their moments (`InOrder`), and a run that was not cancelled returns with all of them
(`Complete`). `AcceptedRuns` is about the report. `PctIsRanked` shows that the nearest rank
exists, by well-founded choice of the least value that reaches it, and has as many entries
at or below it as the rank demands; `PctMonotone` that a greater function has no smaller
percentile. With `Clocks` (intended, started, ended, in this order) and `AsSummarised`
(nothing is written after the report), an accepted run kept its schedule for P percent of
its entries and its response figure is not below its service figure.

Checked by TLC only: what is about fairness (`EventuallySettled`, `GaugesConverge`,
`OpensAndAnswers`, `EverySessionLeaves`, `EveryLoginAnswered`, `EverythingComesUp`,
`RunReturns`), which is out of the prover's reach; and the two properties of the runs that
expect a violation, which are false. That the algorithm behind `Evidence!Sqrt` finds a root
is induction over its bisection and not proved: `Sqrt` uses what bisection finds only where
it is a root, and the proofs use no more than that it returns one.

## Where code and words differ

Two differences have a run that shows them (see `findings` in `PROJECT.json`): isolate
forgets malformed identities, and typing too short to have a rhythm is judged perfectly
regular. Others, met while modelling:

*Archive*

* A refusal whose ack is lost is delivered, and counted, again: `Rejected` then exceeds the
  refused sequences, and the loss figure can become negative, although the comments in
  substrate.go say that each sequence is explained exactly once and that a figure which can
  be negative is no loss figure. `LossFigureExact` is the statement that holds: exact up to
  the refusals counted twice, and `RefusedOnce` says when there are none.
* `Position`'s comment says Committed counts commit operations; it counts rows inserted
  (`Inserted`), and Duplicates, further down in the same type, says why.
* The blob's file is fsynced, its directory is not; the models take a written file to
  survive a crash.
* With `-data`, a request waiting for `writeMu` does not look at its deadline: Lock
  waits however long the holder writes.

*Sessions*

* sessionkv.go says a snapshot outlives its session "by nothing". Every write starts the
  bucket's TTL over while the session's expiry is fixed at creation, so a snapshot may
  live for almost two lifetimes; `SnapshotLifetime` is the bound that does hold.
* sessionkv.go takes the bucket for the latest state. Two handlers publish their
  copies in whichever order they reach the bucket, so until the next batch it may show the
  older one (`ReadersAgreeUnlessRaced` is conditional on that).
* `HighestSeq` against `BatchesSeen` exposes a gap only while no batch came twice: a
  retried one stands in for a missing one (`GapsExposed` is conditional on that).
* Tenant ids are checked to be distinct, not to be distinct once sanitised. The comment on
  snapshotsessions' `Lookup` says another tenant's token addresses a key that does not
  exist; for two ids that `sanitizeToken` maps to one it does exist and is answered, as
  the live store would not (`AnswersAreOwn` says exactly this much).

*Shedding and start-up*

* app.go says a pressure of 1 is the oldest *unread* record at the age limit. The reading is
  the age of the stream's oldest message, read or not, so the collector sheds with the
  archive caught up once the stream holds old messages.
* The byte limit discards unread records while the age is still calm; app.go's account of
  the levels knows only the age (`AgeOutForeseen` is about age).
* A record counted as dropped at its deadline may still reach the stream from the
  client's buffer (`Deadline`, then `Store`).
* On a fresh deployment the collector looks for the archive's durable before the archive
  can have created it, never looks again, and so never sheds (`WatchArchive`).

*Decisions*

* client.go says a decision that comes back malformed still leaves a fail-open verdict. The
  client decodes the body whatever the status is, so an error's JSON is taken for an answer
  without a verdict: the login does not fail open, files nothing and shows no decision
  (`Decoded`, `NoAnswer`).
* Client and server use the same 250 ms: a store slow enough to cost the server its
  best-effort wait costs the client its answer, and the demo fails open, although the
  service was about to answer.
* tenant.go says of two processes whose registries differ that a mismatch is a 401. Site
  keys swapped between tenants are a mismatch that authenticates, which is what the
  fingerprint is for; secrets swapped between tenants leave the fingerprint as it is.
* outcome.go calls a label filed against another tenant's evaluation the quietest
  cross-tenant damage available, and takes the tenant the caller proved to be as the guard
  against it. A secret given to another tenant between a login's two calls passes that guard
  (`LabelsJoinTheirVerdict` allows it to those logins only).

*Policy*

* policy.go says a session eleven events old must not produce a block. Under the shipped
  calibration four samples in a straight line 1500 px long and one injected value are a
  block at checkout: path length alone fills half of the pointer's confidence, and an
  injection has full confidence at once.
* `MinChannelsToBlock` asks, in its comment, for agreement of that many channels; the code
  counts channels that hold any evidence, whatever it says (`contributing`).

*Tools and surface*

* A cancelled `Run` returns `results[:i]` without waiting for its goroutines, whose entries
  are still zero values or being written, while its comment says it returns every attempt;
  entries answered 4xx count as OK (`Failed`). `LoadGen` has both.
* The metrics middleware says it counts every completed request; it does not run deferred,
  so one whose handler panics is not counted.

## Not modelled

HTTP decoding, routing and middleware, metrics exposition and the age and size gauges
(each copies one value); the browser SDK (its output, batches in any order and concurrency,
is the environment of `Sessions`); canonical encoding, identifiers and the wire types,
generated code among them (hashes are used only through equality); gen-openapi, the
architecture benchmark, the Python analysis and the end-to-end gates, which run beside
the program and not in it. Visibility, autofills, submits and the dwell's variation, which
nobody judges by, are left out of `Evidence`; reason weights and their order out of `Policy`;
form parsing and the capture log's columns out of `Decisions`. What goes over the network is
lost or late as a whole: SQLite's transaction is taken to be atomic and durable, JetStream
to keep what it acknowledged, SHA-256 to be injective.

## Plan

Everything the survey set out to model is modelled. What would add most next:

1. Composing `Decisions` with `Sessions`, so that the evaluation stored is tied to the
   evidence it was judged on rather than to any verdict.
2. `Shedding` composed with the archive's own progress, in place of a stream read at will.
3. A lower bound in `Evidence` to go with its upper ones: a session that is a bot by one
   channel's own standard, and thin on all others, is challenged.

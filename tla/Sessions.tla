------------------------------ MODULE Sessions -------------------------------
(***************************************************************************)
(* A session and its two readers.  The collector keeps session state in    *)
(* memory behind one lock (services/collector/internal/session), telemetry *)
(* handlers update it and then, outside the lock, publish what they copied *)
(* to the snapshot bucket (IngestTelemetry, libs/eventstream/sessionkv.go);*)
(* a decision reads either the live store (livesessions) or the bucket     *)
(* (snapshotsessions).                                                     *)
(*                                                                         *)
(* Evidence is abstracted to how many batches it was accumulated from, and *)
(* the client's clock to the batch counter: sent_at_ms grows with seq.     *)
(* Time is the age of each session and of each snapshot, moved by Tick; a  *)
(* handler is bounded by BestEffortTimeout, far below one tick, so it sees *)
(* at most one tick boundary.                                              *)
(***************************************************************************)
EXTENDS Integers, FiniteSets

CONSTANTS
  Tenant,          \* tenants of the registry
  KeyPart,         \* sanitised tenant ids, the first token of a bucket key
  Sanitized,       \* sanitizeToken on tenant ids: two may come out the same
  Token,           \* bearer tokens, each minted at most once
  Request,         \* telemetry handlers that can run at the same time
  TTL,             \* session token lifetime, and the bucket's TTL
  MaxSeq,          \* bound: batch counters are 0 .. MaxSeq
  MaxBatches,      \* bound: batches accepted by one session
  MaxPutFailures,  \* bound: snapshot writes that do not return success
  MaxRestarts,     \* bound: restarts of the collector
  Missing

State == [tenant : Tenant, seen : Nat, highest : Nat, ms : Nat]

Snapshot == [tenant : Tenant, seen : Nat, ms : Nat]

(* What the bucket holds under a key, with the ticks since it was written. *)
Entry == [value : Snapshot, age : 0 .. TTL]

ASSUME SessionsAssumption ==
  /\ Sanitized \in [Tenant -> KeyPart]
  /\ TTL \in Nat \ {0} /\ MaxSeq \in Nat /\ MaxBatches \in Nat
  /\ MaxPutFailures \in Nat /\ MaxRestarts \in Nat
  /\ Missing \notin Tenant /\ Missing \notin Entry

VARIABLES
  store,      \* byToken: the live sessions
  age,        \* ticks since each session was created
  snapshots,  \* the bucket, by (sanitised tenant, token)
  request,    \* each telemetry handler
  buffered,   \* snapshot writes given up on that the client still holds
  putFailures, restarts,
  \* history
  issued,     \* the tenant each token was issued for
  accepted,   \* batches each session accepted
  arrived,    \* which batch counters those were
  went,       \* every state the session went through, as a reader sees it
  raced,      \* tokens two handlers were publishing at the same time
  answer      \* the last decision's evidence

vars == <<store, age, snapshots, request, buffered, putFailures, restarts,
          issued, accepted, arrived, went, raced, answer>>

-----------------------------------------------------------------------------
Key == KeyPart \X Token

Horizon == 2 * TTL + 2

Idle == [pc |-> "idle"]

(* A cold start: no session as far as this caller can tell. *)
NoAnswer == [found |-> FALSE, failed |-> FALSE]

(* The snapshot store did not answer inside LookupTimeout: an error, which *)
(* is not a cold start.                                                    *)
Unavailable == [found |-> FALSE, failed |-> TRUE]

Present(t) == store[t] # Missing

(* Some handler is about to publish a state of t. *)
Publishing(t) == \E q \in Request : request[q] # Idle /\ request[q].token = t

(* Mutant of Expired: nothing compares the clock. *)
NeverExpires(t) == FALSE

(* now.After(expiresAt): the expiry is fixed when the session is created.  *)
Expired(t) == age[t] > TTL

Live(t) == Present(t) /\ ~ Expired(t)

Larger(a, b) == IF a > b THEN a ELSE b

(* Mutant of Observe: a batch counter read as a cursor. *)
ObserveAsCursor(st, s) ==
  [st EXCEPT !.seen = @ + 1, !.highest = s, !.ms = s + 1]

(* ObserveBatch and ObserveEventTime, with the batch's events accumulated. *)
Observe(st, s) ==
  [st EXCEPT !.seen    = @ + 1,
             !.highest = Larger(@, s),
             !.ms      = Larger(@, s + 1)]

SnapshotOf(st) == [tenant |-> st.tenant, seen |-> st.seen, ms |-> st.ms]

(* SessionKey: the tenant the session belongs to, then its token. *)
SessionKey(k, t) == <<Sanitized[k], t>>

Init ==
  /\ store = [t \in Token |-> Missing]
  /\ age = [t \in Token |-> 0]
  /\ snapshots = [key \in Key |-> Missing]
  /\ request = [q \in Request |-> Idle]
  /\ buffered = {}
  /\ putFailures = 0 /\ restarts = 0
  /\ issued = [t \in Token |-> Missing]
  /\ accepted = [t \in Token |-> 0]
  /\ arrived = [t \in Token |-> {}]
  /\ went = [t \in Token |-> {}]
  /\ raced = {}
  /\ answer = NoAnswer

-----------------------------------------------------------------------------
(* StartSession for the tenant whose site key the page carried. *)
StartSession(k, t) ==
  /\ issued[t] = Missing
  /\ issued' = [issued EXCEPT ![t] = k]
  /\ store' = [store EXCEPT ![t] = [tenant |-> k, seen |-> 0, highest |-> 0, ms |-> 0]]
  /\ age' = [age EXCEPT ![t] = 0]
  /\ UNCHANGED <<snapshots, request, buffered, putFailures, restarts,
                 accepted, arrived, went, raced, answer>>

(* With finds nothing, or an expired entry that it deletes: ErrNotFound.   *)
NotFound(t) ==
  /\ ~ Live(t)
  /\ store' = [store EXCEPT ![t] = Missing]

(* Mutant of Telemetry: an unknown token gets a session of its own.        *)
GetOrCreate(q, t, s) ==
  /\ request[q] = Idle /\ issued[t] # Missing
  /\ accepted[t] < MaxBatches
  /\ LET old == IF Live(t) THEN store[t]
                ELSE [tenant |-> issued[t], seen |-> 0, highest |-> 0, ms |-> 0]
         st  == Observe(old, s)
     IN  /\ store' = [store EXCEPT ![t] = st]
         /\ request' = [request EXCEPT ![q] = [pc |-> "put", token |-> t,
                                              snap |-> SnapshotOf(st), late |-> FALSE]]
  /\ accepted' = [accepted EXCEPT ![t] = @ + 1]
  /\ arrived' = [arrived EXCEPT ![t] = @ \cup {s}]
  /\ raced' = IF Publishing(t) THEN raced \cup {t} ELSE raced
  /\ went' = [went EXCEPT ![t] = @ \cup {SnapshotOf(store'[t])}]
  /\ UNCHANGED <<age, snapshots, buffered, putFailures, restarts, issued, answer>>

(* Mutant of Telemetry: the snapshot is copied before the batch is added.  *)
CopyThenObserve(q, t, s) ==
  /\ request[q] = Idle /\ issued[t] # Missing
  /\ accepted[t] < MaxBatches
  /\ Live(t)
  /\ store' = [store EXCEPT ![t] = Observe(@, s)]
  /\ request' = [request EXCEPT ![q] = [pc |-> "put", token |-> t,
                                       snap |-> SnapshotOf(store[t]), late |-> FALSE]]
  /\ accepted' = [accepted EXCEPT ![t] = @ + 1]
  /\ arrived' = [arrived EXCEPT ![t] = @ \cup {s}]
  /\ raced' = IF Publishing(t) THEN raced \cup {t} ELSE raced
  /\ went' = [went EXCEPT ![t] = @ \cup {SnapshotOf(store'[t])}]
  /\ UNCHANGED <<age, snapshots, buffered, putFailures, restarts, issued, answer>>

(* IngestTelemetry up to the end of its critical section: batch s is       *)
(* applied and the resulting state copied.  Batches are delayed, reordered *)
(* and retried: any s at any time.                                         *)
Telemetry(q, t, s) ==
  /\ request[q] = Idle /\ issued[t] # Missing
  /\ accepted[t] < MaxBatches
  /\ \/ /\ Live(t)
        /\ store' = [store EXCEPT ![t] = Observe(@, s)]
        /\ request' = [request EXCEPT ![q] = [pc |-> "put", token |-> t,
                                             snap |-> SnapshotOf(Observe(store[t], s)),
                                             late |-> FALSE]]
        /\ accepted' = [accepted EXCEPT ![t] = @ + 1]
        /\ arrived' = [arrived EXCEPT ![t] = @ \cup {s}]
        /\ raced' = IF Publishing(t) THEN raced \cup {t} ELSE raced
        /\ went' = [went EXCEPT ![t] = @ \cup {SnapshotOf(Observe(store[t], s))}]
     \/ /\ NotFound(t)
        /\ UNCHANGED <<request, accepted, arrived, went, raced>>
  /\ UNCHANGED <<age, snapshots, buffered, putFailures, restarts, issued, answer>>

(* Mutant of Written: the key is created, never replaced. *)
CreatedOnly(t, snap) ==
  snapshots' = IF snapshots[SessionKey(snap.tenant, t)] # Missing THEN snapshots
               ELSE [snapshots EXCEPT
                       ![SessionKey(snap.tenant, t)] = [value |-> snap, age |-> 0]]

(* The value replaces whatever the key held; its TTL starts over. *)
Written(t, snap) ==
  snapshots' = [snapshots EXCEPT
                  ![SessionKey(snap.tenant, t)] = [value |-> snap, age |-> 0]]

(* snapshots.Put returns nil. *)
Put(q) ==
  /\ request[q] # Idle
  /\ Written(request[q].token, request[q].snap)
  /\ request' = [request EXCEPT ![q] = Idle]
  /\ UNCHANGED <<store, age, buffered, putFailures, restarts,
                 issued, accepted, arrived, went, raced, answer>>

(* The write is refused, or its 250ms pass: the handler goes on without it *)
(* and counts a drop.  A write that timed out may still be in the client's *)
(* buffer, to be sent on reconnection.                                     *)
PutFails(q) ==
  /\ request[q] # Idle
  /\ putFailures < MaxPutFailures
  /\ putFailures' = putFailures + 1
  /\ request' = [request EXCEPT ![q] = Idle]
  /\ \/ buffered' = buffered \cup {[token |-> request[q].token, snap |-> request[q].snap]}
     \/ UNCHANGED buffered
  /\ UNCHANGED <<store, age, snapshots, restarts, issued, accepted, arrived, went, raced, answer>>

Flush(w) ==
  /\ Written(w.token, w.snap)
  /\ buffered' = buffered \ {w}
  /\ UNCHANGED <<store, age, request, putFailures, restarts,
                 issued, accepted, arrived, went, raced, answer>>

-----------------------------------------------------------------------------
(* Decisions, asked by the tenant whose secret the caller presented.       *)

Answer(reader, k, t, value) ==
  [found |-> TRUE, reader |-> reader, asker |-> k, token |-> t, value |-> value]

(* Mutant of LiveLookup: the isolation check is forgotten. *)
LookupWithoutOwner(k, t) ==
  /\ Live(t)
  /\ answer' = Answer("live", k, t, SnapshotOf(store[t]))
  /\ UNCHANGED <<store, age, snapshots, request, buffered, putFailures, restarts,
                 issued, accepted, arrived, went, raced>>

(* livesessions.Lookup: a session of another tenant is no session. *)
LiveLookup(k, t) ==
  /\ \/ /\ Live(t)
        /\ answer' = IF store[t].tenant = k
                     THEN Answer("live", k, t, SnapshotOf(store[t]))
                     ELSE NoAnswer
        /\ UNCHANGED store
     \/ /\ NotFound(t)
        /\ answer' = NoAnswer
  /\ UNCHANGED <<age, snapshots, request, buffered, putFailures, restarts,
                 issued, accepted, arrived, went, raced>>

(* snapshotsessions.Lookup: whatever is under the asker's key, or no       *)
(* answer at all.                                                          *)
SnapshotLookup(k, t) ==
  /\ \/ answer' = IF snapshots[SessionKey(k, t)] = Missing THEN NoAnswer
                  ELSE Answer("bucket", k, t, snapshots[SessionKey(k, t)].value)
     \/ answer' = Unavailable
  /\ UNCHANGED <<store, age, snapshots, request, buffered, putFailures, restarts,
                 issued, accepted, arrived, went, raced>>

-----------------------------------------------------------------------------
(* Mutant of Sweep: nothing is removed. *)
SweepNothing ==
  /\ \E t \in Token : Present(t) /\ Expired(t)
  /\ UNCHANGED vars

(* sweepLoop: every expired session leaves the map. *)
Sweep ==
  /\ \E t \in Token : Present(t) /\ Expired(t)
  /\ store' = [t \in Token |-> IF Expired(t) THEN Missing ELSE store[t]]
  /\ UNCHANGED <<age, snapshots, request, buffered, putFailures, restarts,
                 issued, accepted, arrived, went, raced, answer>>

(* What nobody wrote for the bucket's TTL. *)
Outlived(entry) == entry.age >= TTL

(* Time passes, and the bucket drops what outlived its TTL. *)
Tick ==
  /\ \E t \in Token : issued[t] # Missing /\ age[t] < Horizon
  /\ \A q \in Request : request[q] # Idle => ~ request[q].late
  /\ age' = [t \in Token |-> IF issued[t] # Missing /\ age[t] < Horizon
                             THEN age[t] + 1 ELSE age[t]]
  /\ request' = [q \in Request |-> IF request[q] = Idle THEN Idle
                                   ELSE [request[q] EXCEPT !.late = TRUE]]
  /\ snapshots' = [key \in Key |->
                     IF snapshots[key] = Missing \/ Outlived(snapshots[key]) THEN Missing
                     ELSE [snapshots[key] EXCEPT !.age = @ + 1]]
  /\ UNCHANGED <<store, buffered, putFailures, restarts,
                 issued, accepted, arrived, went, raced, answer>>

(* The collector restarts: every session it held is lost, the bucket stays.*)
Restart ==
  /\ restarts < MaxRestarts
  /\ restarts' = restarts + 1
  /\ store' = [t \in Token |-> Missing]
  /\ request' = [q \in Request |-> Idle]
  /\ buffered' = {}
  /\ UNCHANGED <<age, snapshots, putFailures, issued, accepted, arrived, went, raced, answer>>

Next ==
  \/ \E k \in Tenant, t \in Token : StartSession(k, t)
  \/ \E q \in Request, t \in Token, s \in 0 .. MaxSeq : Telemetry(q, t, s)
  \/ \E q \in Request : Put(q)
  \/ \E q \in Request : PutFails(q)
  \/ \E w \in buffered : Flush(w)
  \/ \E k \in Tenant, t \in Token : LiveLookup(k, t)
  \/ \E k \in Tenant, t \in Token : SnapshotLookup(k, t)
  \/ Sweep
  \/ Tick
  \/ Restart

Spec == Init /\ [][Next]_vars

(* Time passes, a handler returns within its budget and the sweep loop     *)
(* runs every minute.                                                      *)
FairSpec ==
  /\ Spec
  /\ WF_vars(Tick)
  /\ WF_vars(Sweep)
  /\ \A q \in Request : WF_vars(Put(q))

-----------------------------------------------------------------------------
TypeOK ==
  /\ store \in [Token -> State \cup {Missing}]
  /\ age \in [Token -> 0 .. Horizon]
  /\ snapshots \in [Key -> Entry \cup {Missing}]
  /\ request \in [Request -> [pc : {"put"}, token : Token, snap : Snapshot,
                              late : BOOLEAN] \cup {Idle}]
  /\ buffered \subseteq [token : Token, snap : Snapshot]
  /\ putFailures \in 0 .. MaxPutFailures
  /\ restarts \in 0 .. MaxRestarts
  /\ issued \in [Token -> Tenant \cup {Missing}]
  /\ accepted \in [Token -> Nat]
  /\ arrived \in [Token -> SUBSET (0 .. MaxSeq)]
  /\ went \in [Token -> SUBSET Snapshot]
  /\ raced \subseteq Token
  /\ answer \in [found : {TRUE}, reader : {"live", "bucket"}, asker : Tenant,
                 token : Token, value : Snapshot] \cup {NoAnswer, Unavailable}

(* Two tenants share a key prefix in the bucket: their ids sanitise alike, *)
(* which tenant.New does not refuse.                                       *)
ShareKeys(k1, k2) == Sanitized[k1] = Sanitized[k2]

(* Whoever asks, a decision carries evidence of a session only to the      *)
(* tenant it was issued for.  The live store compares the owner            *)
(* (livesessions.Lookup), and no other tenant is ever answered, whatever   *)
(* its id; the bucket has only its key (snapshotsessions.Lookup), and what *)
(* it lets through besides is a tenant whose id sanitises to the same      *)
(* token, and nobody else.                                                 *)
AnswersAreOwn ==
  answer.found =>
    /\ answer.value.tenant = issued[answer.token]
    /\ \/ answer.value.tenant = answer.asker
       \/ answer.reader = "bucket" /\ ShareKeys(answer.value.tenant, answer.asker)

(* Whatever writes were lost, delayed or reordered, and across restarts,   *)
(* the bucket and the decisions made from it only ever show a state the    *)
(* session really went through.                                            *)
SnapshotsArePast ==
  \A key \in Key : snapshots[key] # Missing => snapshots[key].value \in went[key[2]]

(* A session that left the store never comes back under its token: late    *)
(* telemetry is refused, it does not start a second session.               *)
NoSessionComesBack ==
  [][\A t \in Token :
       issued[t] # Missing /\ ~ Present(t) => store'[t] = Missing]_vars

(* Nothing is in flight for t, and no write was lost. *)
Settled(t) ==
  /\ Live(t) /\ store[t].seen > 0
  /\ ~ Publishing(t)
  /\ putFailures = 0

BucketShowsLatest(t) ==
  LET key == SessionKey(store[t].tenant, t)
  IN  snapshots[key] # Missing /\ snapshots[key].value = SnapshotOf(store[t])

(* What the decision engine judges is what the collector would have judged *)
(* (libs/snapshot): the readers agree whenever nothing is in flight, as    *)
(* long as the session's handlers never overlapped.  The order in which    *)
(* IngestTelemetry writes is the only thing that can part them.            *)
ReadersAgreeUnlessRaced ==
  \A t \in Token : Settled(t) /\ t \notin raced => BucketShowsLatest(t)

(* No snapshot is readable once twice the session's lifetime has passed,   *)
(* plus the tick its last handler may have straddled, unless a write that  *)
(* was given up on was still to be sent.                                   *)
SnapshotLifetime ==
  \A key \in Key : snapshots[key] # Missing /\ putFailures = 0 => age[key[2]] <= 2 * TTL + 1

(* HighestSeq against BatchesSeen tells a session with a missing batch     *)
(* from one without, in whatever order its batches came (ObserveBatch), as *)
(* long as no batch came twice: a retried one counts twice in BatchesSeen  *)
(* and can stand in for a missing one.                                     *)
Retried(t) == accepted[t] # Cardinality(arrived[t])

GapsExposed ==
  \A t \in Token :
    Present(t) /\ arrived[t] # {} /\ ~ Retried(t) =>
      ((0 .. store[t].highest) \ arrived[t] # {} <=> store[t].seen # store[t].highest + 1)

(* The map is not a leak: every session eventually leaves it. *)
EverySessionLeaves == \A t \in Token : Present(t) ~> ~ Present(t)
-----------------------------------------------------------------------------
(* The inductive invariant behind AnswersAreOwn and SnapshotsArePast: the  *)
(* states of a session carry the tenant it was issued for, and a snapshot, *)
(* wherever it is, is one of them.                                         *)

StatesAreOwn ==
  \A t \in Token :
    /\ Present(t) => store[t].tenant = issued[t]
    /\ \A snap \in went[t] : snap.tenant = issued[t]

CopiesArePast ==
  /\ \A q \in Request : request[q] # Idle => request[q].snap \in went[request[q].token]
  /\ \A w \in buffered : w.snap \in went[w.token]

KeysAreOwn ==
  \A key \in Key :
    snapshots[key] # Missing => key = SessionKey(snapshots[key].value.tenant, key[2])

Provenance ==
  /\ TypeOK
  /\ StatesAreOwn
  /\ CopiesArePast
  /\ KeysAreOwn
  /\ SnapshotsArePast
  /\ AnswersAreOwn
=============================================================================

---------------------------- MODULE SessionsProofs ----------------------------
(***************************************************************************)
(* Proofs about Sessions for every set of tenants, tokens and handlers and *)
(* every value of its bounds.  Provenance, about where copies of a session *)
(* come from, gives isolation between tenants and a bucket that only shows *)
(* the past; Fresh, about which copy is the latest and how old it is, lets *)
(* readers agree, bounds a snapshot's life and makes a gap visible.        *)
(***************************************************************************)
EXTENDS Sessions, FiniteSetTheorems, TLAPS

-----------------------------------------------------------------------------
(* The state kept of one session. *)

LEMMA ObserveType ==
  ASSUME NEW st \in State, NEW s \in 0 .. MaxSeq
  PROVE  /\ Observe(st, s) \in State
         /\ Observe(st, s).tenant = st.tenant
<1>1. /\ st.tenant \in Tenant /\ st.seen \in Nat /\ st.highest \in Nat /\ st.ms \in Nat
      /\ s \in Nat
  BY SessionsAssumption DEF State
<1>2. /\ Larger(st.highest, s) \in Nat
      /\ Larger(st.ms, s + 1) \in Nat
      /\ st.seen + 1 \in Nat
  BY <1>1 DEF Larger
<1>3. ASSUME NEW n \in Nat, NEW h \in Nat, NEW m \in Nat, NEW next,
             next = [[[st EXCEPT !.seen = n] EXCEPT !.highest = h] EXCEPT !.ms = m]
      PROVE  next \in State /\ next.tenant = st.tenant
  BY <1>3 DEF State
<1>4. Observe(st, s) = [[[st EXCEPT !.seen = st.seen + 1]
                              EXCEPT !.highest = Larger(st.highest, s)]
                              EXCEPT !.ms = Larger(st.ms, s + 1)]
  BY DEF Observe, State
<1>5. \E n, h, m \in Nat :
        Observe(st, s) = [[[st EXCEPT !.seen = n] EXCEPT !.highest = h] EXCEPT !.ms = m]
  BY <1>2, <1>4
<1> QED
  BY <1>3, <1>5

LEMMA SnapshotType ==
  ASSUME NEW st \in State
  PROVE  SnapshotOf(st) \in Snapshot /\ SnapshotOf(st).tenant = st.tenant
BY DEF State, Snapshot, SnapshotOf

LEMMA KeyType ==
  ASSUME NEW k \in Tenant, NEW t \in Token
  PROVE  SessionKey(k, t) \in Key /\ SessionKey(k, t)[2] = t
BY SessionsAssumption DEF SessionKey, Key

(* A bucket key tells tenants apart only as far as sanitizeToken does. *)
LEMMA EqualKeys ==
  ASSUME NEW k1 \in Tenant, NEW k2 \in Tenant, NEW t1, NEW t2,
         SessionKey(k1, t1) = SessionKey(k2, t2)
  PROVE  ShareKeys(k1, k2)
BY DEF SessionKey, ShareKeys

LEMMA AnswerType ==
  ASSUME NEW reader \in {"live", "bucket"},
         NEW k \in Tenant, NEW t \in Token, NEW value \in Snapshot
  PROVE  Answer(reader, k, t, value) \in
           [found : {TRUE}, reader : {"live", "bucket"}, asker : Tenant, token : Token,
            value : Snapshot]
BY DEF Answer

LEMMA HorizonNatural == Horizon \in Nat /\ TTL \in Nat \ {0}
BY SessionsAssumption DEF Horizon

-----------------------------------------------------------------------------
(* Type correctness.  Each variable's type has a name of its own, so that  *)
(* a step cites only what it changes.                                      *)

Handler == [pc : {"put"}, token : Token, snap : Snapshot, late : BOOLEAN]

Found == [found : {TRUE}, reader : {"live", "bucket"}, asker : Tenant, token : Token,
          value : Snapshot]

LEMMA InitTypeOK == Init => TypeOK
<1> SUFFICES ASSUME Init PROVE TypeOK
  OBVIOUS
<1> QED
  BY HorizonNatural, SessionsAssumption DEF Init, TypeOK

(* The bucket keeps its type under a write. *)
LEMMA WrittenType ==
  ASSUME TypeOK, NEW t \in Token, NEW snap \in Snapshot, Written(t, snap)
  PROVE  snapshots' \in [Key -> Entry \cup {Missing}]
<1>1. [value |-> snap, age |-> 0] \in Entry
  BY HorizonNatural DEF Entry
<1> QED
  BY <1>1 DEF Written, TypeOK

LEMMA TelemetryTypeOK ==
  ASSUME TypeOK, NEW q \in Request, NEW t \in Token, NEW s \in 0 .. MaxSeq,
         Telemetry(q, t, s)
  PROVE  TypeOK'
<1>1. CASE Live(t) /\ store' = [store EXCEPT ![t] = Observe(@, s)]
  <2>1. store[t] \in State
    BY <1>1 DEF TypeOK, Live, Present
  <2>2. Observe(store[t], s) \in State /\ SnapshotOf(Observe(store[t], s)) \in Snapshot
    BY <2>1, ObserveType, SnapshotType
  <2>3. store' \in [Token -> State \cup {Missing}]
    BY <1>1, <2>2 DEF TypeOK
  <2>4. CASE NotFound(t) /\ UNCHANGED <<request, accepted, arrived, went>>
    BY <2>4, <2>3 DEF Telemetry, TypeOK
  <2>5. CASE ~ (NotFound(t) /\ UNCHANGED <<request, accepted, arrived, went>>)
    <3> DEFINE entry == [pc |-> "put", token |-> t,
                         snap |-> SnapshotOf(Observe(store[t], s)), late |-> FALSE]
    <3>1. /\ request' = [request EXCEPT ![q] = entry]
          /\ accepted' = [accepted EXCEPT ![t] = @ + 1]
          /\ arrived' = [arrived EXCEPT ![t] = @ \cup {s}]
          /\ went' = [went EXCEPT ![t] = @ \cup {SnapshotOf(Observe(store[t], s))}]
      BY <2>5 DEF Telemetry
    <3>2. entry \in Handler
      BY <2>2 DEF Handler
    <3> HIDE DEF entry
    <3>3. request' \in [Request -> Handler \cup {Idle}]
      BY <3>1, <3>2 DEF TypeOK, Handler
    <3>4. accepted' \in [Token -> Nat]
      BY <3>1 DEF TypeOK
    <3>5. arrived' \in [Token -> SUBSET (0 .. MaxSeq)]
      BY <3>1 DEF TypeOK
    <3>6. went' \in [Token -> SUBSET Snapshot]
      BY <3>1, <2>2 DEF TypeOK
    <3> QED
      BY <2>3, <3>3, <3>4, <3>5, <3>6 DEF Telemetry, TypeOK, Handler
  <2> QED
    BY <2>4, <2>5
<1>2. CASE NotFound(t) /\ UNCHANGED <<request, accepted, arrived, went>>
  BY <1>2 DEF NotFound, Telemetry, TypeOK
<1> QED
  BY <1>1, <1>2 DEF Telemetry

LEMMA TickTypeOK ==
  ASSUME TypeOK, Tick
  PROVE  TypeOK'
<1>1. age' \in [Token -> 0 .. Horizon]
  BY HorizonNatural DEF Tick, TypeOK
<1>2. request' \in [Request -> Handler \cup {Idle}]
  <2>1. ASSUME NEW q \in Request, request[q] # Idle
        PROVE  [request[q] EXCEPT !.late = TRUE] \in Handler
    BY <2>1 DEF TypeOK, Handler
  <2> QED
    BY <2>1 DEF Tick
<1>3. snapshots' \in [Key -> Entry \cup {Missing}]
  <2>1. ASSUME NEW key \in Key, snapshots[key] # Missing, ~ Outlived(snapshots[key])
        PROVE  [snapshots[key] EXCEPT !.age = @ + 1] \in Entry
    BY <2>1, HorizonNatural DEF TypeOK, Entry, Outlived
  <2> QED
    BY <2>1 DEF Tick
<1> QED
  BY <1>1, <1>2, <1>3 DEF Tick, TypeOK, Handler

LEMMA NextTypeOK == TypeOK /\ [Next]_vars => TypeOK'
<1> SUFFICES ASSUME TypeOK, [Next]_vars PROVE TypeOK'
  OBVIOUS
<1>1. ASSUME NEW k \in Tenant, NEW t \in Token, StartSession(k, t) PROVE TypeOK'
  <2>1. [tenant |-> k, seen |-> 0, highest |-> 0, ms |-> 0] \in State
    BY DEF State
  <2>2. 0 \in 0 .. Horizon
    BY HorizonNatural
  <2> QED
    BY <1>1, <2>1, <2>2 DEF StartSession, TypeOK
<1>2. ASSUME NEW q \in Request, NEW t \in Token, NEW s \in 0 .. MaxSeq, Telemetry(q, t, s)
      PROVE  TypeOK'
  BY <1>2, TelemetryTypeOK
<1>3. ASSUME NEW q \in Request, Put(q) PROVE TypeOK'
  <2>1. request[q] \in Handler
    BY <1>3 DEF Put, TypeOK, Handler
  <2>2. request[q].token \in Token /\ request[q].snap \in Snapshot
    BY <2>1 DEF Handler
  <2>3. snapshots' \in [Key -> Entry \cup {Missing}]
    BY <1>3, <2>2, WrittenType DEF Put
  <2> QED
    BY <1>3, <2>3 DEF Put, TypeOK
<1>4. ASSUME NEW q \in Request, PutFails(q) PROVE TypeOK'
  <2>1. request[q] \in Handler
    BY <1>4 DEF PutFails, TypeOK, Handler
  <2>2. [token |-> request[q].token, snap |-> request[q].snap] \in [token : Token, snap : Snapshot]
    BY <2>1 DEF Handler
  <2>3. buffered' \subseteq [token : Token, snap : Snapshot]
    BY <1>4, <2>2 DEF PutFails, TypeOK
  <2>4. putFailures' \in 0 .. MaxPutFailures
    BY <1>4, SessionsAssumption DEF PutFails, TypeOK
  <2>5. request' \in [Request -> Handler \cup {Idle}]
    BY <1>4 DEF PutFails, TypeOK, Handler
  <2> QED
    BY <1>4, <2>3, <2>4, <2>5 DEF PutFails, TypeOK, Handler
<1>5. ASSUME NEW w \in buffered, Flush(w) PROVE TypeOK'
  <2>1. w.token \in Token /\ w.snap \in Snapshot
    BY DEF TypeOK
  <2>2. snapshots' \in [Key -> Entry \cup {Missing}]
    BY <1>5, <2>1, WrittenType DEF Flush
  <2> QED
    BY <1>5, <2>2 DEF Flush, TypeOK
<1>6. ASSUME NEW k \in Tenant, NEW t \in Token, LiveLookup(k, t) PROVE TypeOK'
  <2>1. Live(t) => SnapshotOf(store[t]) \in Snapshot
    BY SnapshotType DEF Live, Present, TypeOK
  <2>2. answer' \in Found \cup {NoAnswer, Unavailable}
    <3>1. CASE answer' = NoAnswer
      BY <3>1
    <3>2. CASE Live(t) /\ answer' = Answer("live", k, t, SnapshotOf(store[t]))
      BY <3>2, <2>1, AnswerType DEF Found
    <3> QED
      BY <1>6, <3>1, <3>2 DEF LiveLookup
  <2>3. store' \in [Token -> State \cup {Missing}]
    BY <1>6 DEF LiveLookup, NotFound, TypeOK
  <2> QED
    BY <1>6, <2>2, <2>3 DEF LiveLookup, TypeOK, Found
<1>7. ASSUME NEW k \in Tenant, NEW t \in Token, SnapshotLookup(k, t) PROVE TypeOK'
  <2>1. snapshots[SessionKey(k, t)] # Missing => snapshots[SessionKey(k, t)].value \in Snapshot
    BY KeyType DEF TypeOK, Entry
  <2>2. answer' \in Found \cup {NoAnswer, Unavailable}
    <3> DEFINE value == snapshots[SessionKey(k, t)].value
    <3>1. CASE value \in Snapshot /\ answer' = Answer("bucket", k, t, value)
      <4> HIDE DEF value
      <4> QED
        BY <3>1, AnswerType DEF Found
    <3>2. CASE answer' \in {NoAnswer, Unavailable}
      BY <3>2
    <3> QED
      BY <1>7, <2>1, <3>1, <3>2 DEF SnapshotLookup
  <2> QED
    BY <1>7, <2>2 DEF SnapshotLookup, TypeOK, Found
<1>8. ASSUME Sweep PROVE TypeOK'
  BY <1>8 DEF Sweep, TypeOK
<1>9. ASSUME Tick PROVE TypeOK'
  BY <1>9, TickTypeOK
<1>10. ASSUME Restart PROVE TypeOK'
  <2>1. restarts' \in 0 .. MaxRestarts
    BY <1>10, SessionsAssumption DEF Restart, TypeOK
  <2> QED
    BY <1>10, <2>1 DEF Restart, TypeOK
<1>11. ASSUME UNCHANGED vars PROVE TypeOK'
  BY <1>11 DEF vars, TypeOK
<1> QED
  BY <1>1, <1>2, <1>3, <1>4, <1>5, <1>6, <1>7, <1>8, <1>9, <1>10, <1>11 DEF Next

(* Every variable of the session side keeps its type. *)
THEOREM TypeCorrect == Spec => []TypeOK
<1> QED
  BY InitTypeOK, NextTypeOK, PTL DEF Spec

-----------------------------------------------------------------------------
(* Provenance is inductive. *)

LEMMA InitProvenance == Init => Provenance
<1> SUFFICES ASSUME Init PROVE Provenance
  OBVIOUS
<1>1. TypeOK
  BY InitTypeOK
<1>2. StatesAreOwn /\ CopiesArePast /\ KeysAreOwn /\ SnapshotsArePast
  BY DEF Init, StatesAreOwn, Present, CopiesArePast, KeysAreOwn, SnapshotsArePast
<1>3. AnswersAreOwn
  BY DEF Init, AnswersAreOwn, NoAnswer
<1> QED
  BY <1>1, <1>2, <1>3 DEF Provenance

(* A write that shows the past of its session leaves a bucket that does.   *)
LEMMA WrittenPast ==
  ASSUME Provenance, NEW t \in Token, NEW snap \in Snapshot,
         snap \in went[t], Written(t, snap), UNCHANGED went
  PROVE  KeysAreOwn' /\ SnapshotsArePast'
<1> SUFFICES ASSUME NEW key \in Key, snapshots'[key] # Missing
             PROVE  /\ key = SessionKey(snapshots'[key].value.tenant, key[2])
                    /\ snapshots'[key].value \in went[key[2]]
  BY DEF KeysAreOwn, SnapshotsArePast
<1>1. CASE key = SessionKey(snap.tenant, t)
  <2>1. snapshots'[key] = [value |-> snap, age |-> 0]
    BY <1>1 DEF Written, Provenance, TypeOK
  <2>2. key[2] = t
    BY <1>1, KeyType DEF Snapshot
  <2> QED
    BY <1>1, <2>1, <2>2
<1>2. CASE key # SessionKey(snap.tenant, t)
  <2>1. snapshots'[key] = snapshots[key]
    BY <1>2 DEF Written, Provenance, TypeOK
  <2> QED
    BY <2>1 DEF Provenance, KeysAreOwn, SnapshotsArePast
<1> QED
  BY <1>1, <1>2

(* The answer stays true while its session keeps its tenant. *)
LEMMA AnswerStands ==
  ASSUME Provenance, UNCHANGED answer,
         \A t \in Token : issued[t] # Missing => issued'[t] = issued[t]
  PROVE  AnswersAreOwn'
<1> SUFFICES ASSUME answer.found
             PROVE  answer.value.tenant = issued'[answer.token]
  BY DEF Provenance, AnswersAreOwn
<1>1. answer \in Found
  <2>1. answer \in Found \cup {NoAnswer, Unavailable}
    BY DEF Provenance, TypeOK, Found
  <2>2. ~ NoAnswer.found /\ ~ Unavailable.found
    BY DEF NoAnswer, Unavailable
  <2> QED
    BY <2>1, <2>2
<1>2. answer.value.tenant = issued[answer.token]
  BY DEF Provenance, AnswersAreOwn
<1>3. answer.token \in Token /\ answer.value.tenant # Missing
  BY <1>1, SessionsAssumption DEF Found, Snapshot
<1> QED
  BY <1>2, <1>3

LEMMA StartSessionProvenance ==
  ASSUME Provenance, TypeOK', NEW k \in Tenant, NEW t \in Token, StartSession(k, t)
  PROVE  Provenance'
<1>1. went[t] = {}
  <2>1. ASSUME NEW snap \in went[t] PROVE FALSE
    BY <2>1, SessionsAssumption DEF StartSession, Provenance, StatesAreOwn, TypeOK, Snapshot
  <2> QED
    BY <2>1
<1>2. StatesAreOwn'
  BY <1>1 DEF StartSession, Provenance, TypeOK, StatesAreOwn, Present
<1>3. CopiesArePast' /\ KeysAreOwn' /\ SnapshotsArePast'
  BY DEF StartSession, Provenance, CopiesArePast, KeysAreOwn, SnapshotsArePast
<1>4. AnswersAreOwn'
  BY AnswerStands DEF StartSession, Provenance, TypeOK
<1> QED
  BY <1>2, <1>3, <1>4 DEF Provenance

(* The critical section: the copy it ends with is a state it went through. *)
LEMMA TelemetryProvenance ==
  ASSUME Provenance, TypeOK', NEW q \in Request, NEW t \in Token, NEW s \in 0 .. MaxSeq,
         Telemetry(q, t, s)
  PROVE  Provenance'
<1>1. UNCHANGED <<snapshots, buffered, issued, answer>>
  BY DEF Telemetry
<1>2. AnswersAreOwn'
  BY <1>1, AnswerStands
<1>3. CASE NotFound(t) /\ UNCHANGED <<request, accepted, arrived, went>>
  <2>1. StatesAreOwn'
    BY <1>1, <1>3 DEF NotFound, Provenance, TypeOK, StatesAreOwn, Present
  <2>2. CopiesArePast' /\ KeysAreOwn' /\ SnapshotsArePast'
    BY <1>1, <1>3 DEF Provenance, CopiesArePast, KeysAreOwn, SnapshotsArePast
  <2> QED
    BY <1>2, <2>1, <2>2 DEF Provenance
<1>4. CASE ~ (NotFound(t) /\ UNCHANGED <<request, accepted, arrived, went>>)
  <2> DEFINE st == Observe(store[t], s)
             snap == SnapshotOf(st)
  <2>1. /\ Live(t)
        /\ store' = [store EXCEPT ![t] = st]
        /\ request' = [request EXCEPT ![q] = [pc |-> "put", token |-> t, snap |-> snap,
                                             late |-> FALSE]]
        /\ went' = [went EXCEPT ![t] = @ \cup {snap}]
    BY <1>4 DEF Telemetry
  <2>2. store[t] \in State /\ store[t].tenant = issued[t]
    BY <2>1 DEF Live, Present, Provenance, StatesAreOwn, TypeOK
  <2>3. st.tenant = issued[t] /\ snap.tenant = issued[t]
    BY <2>2, ObserveType, SnapshotType
  <2> HIDE DEF st, snap
  <2>4. StatesAreOwn'
    BY <1>1, <2>1, <2>3 DEF Provenance, TypeOK, StatesAreOwn, Present
  <2>5. /\ \A u \in Token : went[u] \subseteq went'[u]
        /\ snap \in went'[t]
    BY <2>1 DEF Provenance, TypeOK
  <2>6. ASSUME NEW p \in Request, request'[p] # Idle
        PROVE  request'[p].snap \in went'[request'[p].token]
    <3>1. CASE p = q
      BY <3>1, <2>1, <2>5 DEF Provenance, TypeOK
    <3>2. CASE p # q
      <4>1. request'[p] = request[p]
        BY <3>2, <2>1 DEF Provenance, TypeOK
      <4>2. request[p].token \in Token /\ request[p].snap \in went[request[p].token]
        BY <2>6, <4>1 DEF Provenance, TypeOK, CopiesArePast
      <4> QED
        BY <4>1, <4>2, <2>5
    <3> QED
      BY <3>1, <3>2
  <2>7. ASSUME NEW w \in buffered PROVE w.snap \in went'[w.token]
    BY <2>5 DEF Provenance, TypeOK, CopiesArePast
  <2>8. CopiesArePast'
    BY <1>1, <2>6, <2>7 DEF CopiesArePast
  <2>9. \A key \in Key : key[2] \in Token
    BY DEF Key
  <2>10. KeysAreOwn' /\ SnapshotsArePast'
    BY <1>1, <2>5, <2>9 DEF Provenance, KeysAreOwn, SnapshotsArePast
  <2> QED
    BY <1>2, <2>4, <2>8, <2>10 DEF Provenance
<1> QED
  BY <1>3, <1>4

LEMMA PutProvenance ==
  ASSUME Provenance, TypeOK', NEW q \in Request, Put(q)
  PROVE  Provenance'
<1>1. /\ request[q].token \in Token /\ request[q].snap \in Snapshot
      /\ request[q].snap \in went[request[q].token]
  BY DEF Put, Provenance, TypeOK, CopiesArePast
<1>2. KeysAreOwn' /\ SnapshotsArePast'
  BY <1>1, WrittenPast DEF Put
<1>3. StatesAreOwn' /\ CopiesArePast'
  BY DEF Put, Provenance, TypeOK, StatesAreOwn, Present, CopiesArePast
<1>4. AnswersAreOwn'
  BY AnswerStands DEF Put
<1> QED
  BY <1>2, <1>3, <1>4 DEF Provenance

LEMMA PutFailsProvenance ==
  ASSUME Provenance, TypeOK', NEW q \in Request, PutFails(q)
  PROVE  Provenance'
<1>1. request[q].snap \in went[request[q].token]
  BY DEF PutFails, Provenance, CopiesArePast
<1>2. \A w \in buffered' : w.snap \in went[w.token]
  BY <1>1 DEF PutFails, Provenance, CopiesArePast
<1>3. \A p \in Request : request'[p] # Idle => request'[p] = request[p]
  BY DEF PutFails, Provenance, TypeOK
<1>4. CopiesArePast'
  BY <1>2, <1>3 DEF PutFails, Provenance, CopiesArePast
<1>5. StatesAreOwn' /\ KeysAreOwn' /\ SnapshotsArePast'
  BY DEF PutFails, Provenance, StatesAreOwn, Present, KeysAreOwn, SnapshotsArePast
<1>6. AnswersAreOwn'
  BY AnswerStands DEF PutFails
<1> QED
  BY <1>4, <1>5, <1>6 DEF Provenance

LEMMA FlushProvenance ==
  ASSUME Provenance, TypeOK', NEW w \in buffered, Flush(w)
  PROVE  Provenance'
<1>1. w.token \in Token /\ w.snap \in Snapshot /\ w.snap \in went[w.token]
  BY DEF Provenance, TypeOK, CopiesArePast
<1>2. KeysAreOwn' /\ SnapshotsArePast'
  BY <1>1, WrittenPast DEF Flush
<1>3. StatesAreOwn' /\ CopiesArePast'
  BY DEF Flush, Provenance, StatesAreOwn, Present, CopiesArePast
<1>4. AnswersAreOwn'
  BY AnswerStands DEF Flush
<1> QED
  BY <1>2, <1>3, <1>4 DEF Provenance

LEMMA LiveLookupProvenance ==
  ASSUME Provenance, TypeOK', NEW k \in Tenant, NEW t \in Token, LiveLookup(k, t)
  PROVE  Provenance'
<1>1. StatesAreOwn'
  BY DEF LiveLookup, NotFound, Provenance, TypeOK, StatesAreOwn, Present
<1>2. CopiesArePast' /\ KeysAreOwn' /\ SnapshotsArePast'
  BY DEF LiveLookup, Provenance, CopiesArePast, KeysAreOwn, SnapshotsArePast
<1>3. CASE answer' = NoAnswer
  <2>1. AnswersAreOwn'
    BY <1>3 DEF AnswersAreOwn, NoAnswer
  <2> QED
    BY <1>1, <1>2, <2>1 DEF Provenance
<1>4. CASE /\ Live(t) /\ store[t].tenant = k
           /\ answer' = Answer("live", k, t, SnapshotOf(store[t]))
  <2>1. store[t] \in State /\ issued[t] = k
    BY <1>4 DEF Live, Present, Provenance, StatesAreOwn, TypeOK
  <2>2. SnapshotOf(store[t]).tenant = k
    BY <1>4, <2>1, SnapshotType
  <2>3. AnswersAreOwn'
    BY <1>4, <2>1, <2>2 DEF AnswersAreOwn, Answer, LiveLookup
  <2> QED
    BY <1>1, <1>2, <2>3 DEF Provenance
<1> QED
  BY <1>3, <1>4 DEF LiveLookup

(* The bucket has no owner to compare: it tells what its keys tell. *)
LEMMA SnapshotLookupProvenance ==
  ASSUME Provenance, TypeOK', NEW k \in Tenant, NEW t \in Token, SnapshotLookup(k, t)
  PROVE  Provenance'
<1>1. StatesAreOwn' /\ CopiesArePast' /\ KeysAreOwn' /\ SnapshotsArePast'
  BY DEF SnapshotLookup, Provenance, StatesAreOwn, Present, CopiesArePast,
         KeysAreOwn, SnapshotsArePast
<1>2. CASE answer' \in {NoAnswer, Unavailable}
  <2>1. AnswersAreOwn'
    BY <1>2 DEF AnswersAreOwn, NoAnswer, Unavailable
  <2> QED
    BY <1>1, <2>1 DEF Provenance
<1>3. CASE /\ snapshots[SessionKey(k, t)] # Missing
           /\ answer' = Answer("bucket", k, t, snapshots[SessionKey(k, t)].value)
  <2> DEFINE value == snapshots[SessionKey(k, t)].value
  <2>1. SessionKey(k, t) \in Key /\ SessionKey(k, t)[2] = t
    BY KeyType
  <2>2. /\ value \in Snapshot /\ value \in went[t]
        /\ SessionKey(k, t) = SessionKey(value.tenant, t)
    BY <1>3, <2>1 DEF Provenance, TypeOK, SnapshotsArePast, KeysAreOwn
  <2> HIDE DEF value
  <2>3. ShareKeys(value.tenant, k)
    BY <2>2, EqualKeys DEF Snapshot
  <2>4. value.tenant = issued[t]
    BY <2>2 DEF Provenance, StatesAreOwn
  <2>5. answer' = Answer("bucket", k, t, value) /\ issued' = issued
    BY <1>3 DEF value, SnapshotLookup
  <2>6. AnswersAreOwn'
    BY <2>3, <2>4, <2>5 DEF AnswersAreOwn, Answer
  <2> QED
    BY <1>1, <2>6 DEF Provenance
<1> QED
  BY <1>2, <1>3 DEF SnapshotLookup

LEMMA TickProvenance ==
  ASSUME Provenance, TypeOK', Tick
  PROVE  Provenance'
<1>1. StatesAreOwn'
  BY DEF Tick, Provenance, StatesAreOwn, Present
<1>2. ASSUME NEW q \in Request, request'[q] # Idle
      PROVE  /\ request[q] # Idle
             /\ request'[q].token = request[q].token /\ request'[q].snap = request[q].snap
  BY <1>2 DEF Tick, Provenance, TypeOK
<1>3. CopiesArePast'
  BY <1>2 DEF Tick, Provenance, CopiesArePast
<1>4. ASSUME NEW key \in Key, snapshots'[key] # Missing
      PROVE  snapshots[key] # Missing /\ snapshots'[key].value = snapshots[key].value
  BY <1>4 DEF Tick, Provenance, TypeOK
<1>5. KeysAreOwn' /\ SnapshotsArePast'
  BY <1>4 DEF Tick, Provenance, KeysAreOwn, SnapshotsArePast
<1>6. AnswersAreOwn'
  BY AnswerStands DEF Tick
<1> QED
  BY <1>1, <1>3, <1>5, <1>6 DEF Provenance

LEMMA NextProvenance == Provenance /\ [Next]_vars => Provenance'
<1> SUFFICES ASSUME Provenance, [Next]_vars PROVE Provenance'
  OBVIOUS
<1>0. TypeOK'
  BY NextTypeOK DEF Provenance
<1>1. ASSUME NEW k \in Tenant, NEW t \in Token, StartSession(k, t) PROVE Provenance'
  BY <1>0, <1>1, StartSessionProvenance
<1>2. ASSUME NEW q \in Request, NEW t \in Token, NEW s \in 0 .. MaxSeq, Telemetry(q, t, s)
      PROVE  Provenance'
  BY <1>0, <1>2, TelemetryProvenance
<1>3. ASSUME NEW q \in Request, Put(q) PROVE Provenance'
  BY <1>0, <1>3, PutProvenance
<1>4. ASSUME NEW q \in Request, PutFails(q) PROVE Provenance'
  BY <1>0, <1>4, PutFailsProvenance
<1>5. ASSUME NEW w \in buffered, Flush(w) PROVE Provenance'
  BY <1>0, <1>5, FlushProvenance
<1>6. ASSUME NEW k \in Tenant, NEW t \in Token, LiveLookup(k, t) PROVE Provenance'
  BY <1>0, <1>6, LiveLookupProvenance
<1>7. ASSUME NEW k \in Tenant, NEW t \in Token, SnapshotLookup(k, t) PROVE Provenance'
  BY <1>0, <1>7, SnapshotLookupProvenance
<1>8. ASSUME Sweep PROVE Provenance'
  <2>1. StatesAreOwn'
    BY <1>8 DEF Sweep, Provenance, StatesAreOwn, Present
  <2>2. CopiesArePast' /\ KeysAreOwn' /\ SnapshotsArePast'
    BY <1>8 DEF Sweep, Provenance, CopiesArePast, KeysAreOwn, SnapshotsArePast
  <2>3. AnswersAreOwn'
    BY <1>8, AnswerStands DEF Sweep
  <2> QED
    BY <1>0, <2>1, <2>2, <2>3 DEF Provenance
<1>9. ASSUME Tick PROVE Provenance'
  BY <1>0, <1>9, TickProvenance
<1>10. ASSUME Restart PROVE Provenance'
  <2>1. StatesAreOwn' /\ CopiesArePast'
    BY <1>10 DEF Restart, Provenance, StatesAreOwn, Present, CopiesArePast
  <2>2. KeysAreOwn' /\ SnapshotsArePast'
    BY <1>10 DEF Restart, Provenance, KeysAreOwn, SnapshotsArePast
  <2>3. AnswersAreOwn'
    BY <1>10, AnswerStands DEF Restart
  <2> QED
    BY <1>0, <2>1, <2>2, <2>3 DEF Provenance
<1>11. ASSUME UNCHANGED vars PROVE Provenance'
  <2>1. StatesAreOwn' /\ CopiesArePast' /\ KeysAreOwn' /\ SnapshotsArePast' /\ AnswersAreOwn'
    BY <1>11 DEF vars, Provenance, StatesAreOwn, Present, CopiesArePast, KeysAreOwn,
                 SnapshotsArePast, AnswersAreOwn
  <2> QED
    BY <1>0, <2>1 DEF Provenance
<1> QED
  BY <1>1, <1>2, <1>3, <1>4, <1>5, <1>6, <1>7, <1>8, <1>9, <1>10, <1>11 DEF Next

(* Where every copy of a session's state comes from. *)
THEOREM ProvenanceHolds == Spec => []Provenance
<1> QED
  BY InitProvenance, NextProvenance, PTL DEF Spec

(* Evidence reaches only the tenant whose session it is: live without      *)
(* exception (livesessions.Lookup), from the bucket except for a tenant    *)
(* whose id sanitises alike (snapshotsessions.Lookup, sanitizeToken).      *)
THEOREM Isolation == Spec => []AnswersAreOwn
<1>1. Provenance => AnswersAreOwn
  BY DEF Provenance
<1> QED
  BY <1>1, ProvenanceHolds, PTL

(* However late and in whatever order the writes land, the bucket shows    *)
(* only states its session went through (IngestTelemetry's snapshot).      *)
THEOREM BucketShowsThePast == Spec => []SnapshotsArePast
<1>1. Provenance => SnapshotsArePast
  BY DEF Provenance
<1> QED
  BY <1>1, ProvenanceHolds, PTL

-----------------------------------------------------------------------------
(* A token whose session is gone stays without one: only StartSession puts *)
(* a session under a token, and only under a new one.                      *)
LEMMA GoneStaysGone ==
  ASSUME TypeOK, [Next]_vars, NEW t \in Token, issued[t] # Missing, ~ Present(t)
  PROVE  store'[t] = Missing
<1>1. store[t] = Missing
  BY DEF Present
<1>2. ASSUME NEW k \in Tenant, NEW u \in Token, StartSession(k, u) PROVE store'[t] = Missing
  BY <1>1, <1>2 DEF StartSession, TypeOK
<1>3. ASSUME NEW q \in Request, NEW u \in Token, NEW s \in 0 .. MaxSeq, Telemetry(q, u, s)
      PROVE  store'[t] = Missing
  <2>1. CASE Live(u) /\ store' = [store EXCEPT ![u] = Observe(@, s)]
    BY <1>1, <2>1 DEF Live, Present, TypeOK
  <2>2. CASE NotFound(u)
    BY <1>1, <2>2 DEF NotFound, TypeOK
  <2> QED
    BY <1>3, <2>1, <2>2 DEF Telemetry
<1>4. ASSUME NEW k \in Tenant, NEW u \in Token, LiveLookup(k, u) PROVE store'[t] = Missing
  BY <1>1, <1>4 DEF LiveLookup, NotFound, TypeOK
<1>5. ASSUME Sweep PROVE store'[t] = Missing
  BY <1>1, <1>5 DEF Sweep
<1>6. ASSUME Restart PROVE store'[t] = Missing
  BY <1>6 DEF Restart
<1>7. CASE UNCHANGED store
  BY <1>1, <1>7
<1>8. \/ \E k \in Tenant, u \in Token : StartSession(k, u) \/ LiveLookup(k, u)
      \/ \E q \in Request, u \in Token, s \in 0 .. MaxSeq : Telemetry(q, u, s)
      \/ Sweep \/ Restart
      \/ UNCHANGED store
  BY DEF Next, vars, Put, PutFails, Flush, SnapshotLookup, Tick
<1> QED
  BY <1>2, <1>3, <1>4, <1>5, <1>6, <1>7, <1>8

(* Late telemetry never starts a second session under an old token. *)
THEOREM SessionsNeverComeBack == Spec => NoSessionComesBack
<1>1. TypeOK /\ [Next]_vars =>
        [\A t \in Token : issued[t] # Missing /\ ~ Present(t) => store'[t] = Missing]_vars
  BY GoneStaysGone
<1> QED
  BY <1>1, TypeCorrect, PTL DEF Spec, NoSessionComesBack
-----------------------------------------------------------------------------
(* The counters, the lifetimes and the agreement of the readers.  These    *)
(* relate the session to what has been written of it, so they are one      *)
(* invariant, on top of Provenance.                                        *)

(* Batches are counted once in the session and once in the history, and    *)
(* none is above the highest counter seen.                                 *)
BatchesCounted ==
  \A t \in Token :
    /\ issued[t] = Missing => ~ Present(t) /\ accepted[t] = 0 /\ arrived[t] = {}
    /\ Present(t) => /\ store[t].seen = accepted[t]
                     /\ arrived[t] \subseteq 0 .. store[t].highest

InFlight(q, t) == request[q] # Idle /\ request[q].token = t

(* While every write was answered, a handler straddles at most one tick    *)
(* after its session expired, and the bucket counts from its write.        *)
Lifetimes ==
  putFailures = 0 =>
    /\ buffered = {}
    /\ \A q \in Request : request[q] # Idle =>
         age[request[q].token] <= IF request[q].late THEN TTL + 1 ELSE TTL
    /\ \A key \in Key : snapshots[key] # Missing =>
         age[key[2]] <= TTL + 1 + snapshots[key].age

(* A snapshot is never older than the session it is of. *)
YoungerThanTheirSession ==
  \A key \in Key : snapshots[key] # Missing => snapshots[key].age <= age[key[2]]

(* While every write was answered and no two handlers of t overlapped, the *)
(* last state of t is with its one handler, or in the bucket.              *)
LatestOf(t) ==
  /\ \A p, q \in Request : InFlight(p, t) /\ InFlight(q, t) => p = q
  /\ \A q \in Request : InFlight(q, t) => request[q].snap = SnapshotOf(store[t])
  /\ ~ Publishing(t) => BucketShowsLatest(t)

LatestKept ==
  putFailures = 0 =>
    \A t \in Token : Live(t) /\ store[t].seen > 0 /\ t \notin raced => LatestOf(t)

Fresh == BatchesCounted /\ Lifetimes /\ YoungerThanTheirSession /\ LatestKept

LEMMA ObserveFields ==
  ASSUME NEW st \in State, NEW s \in 0 .. MaxSeq
  PROVE  /\ Observe(st, s).seen = st.seen + 1
         /\ Observe(st, s).highest = Larger(st.highest, s)
         /\ st.highest \in Nat /\ st.seen \in Nat
BY DEF Observe, State

LEMMA LargerBounds ==
  ASSUME NEW a \in Nat, NEW b \in Nat
  PROVE  Larger(a, b) \in Nat /\ a <= Larger(a, b) /\ b <= Larger(a, b)
BY DEF Larger

(* One key changes in the bucket, and it is one of the token written.      *)
LEMMA WrittenEntry ==
  ASSUME TypeOK, NEW t \in Token, NEW snap \in Snapshot, Written(t, snap)
  PROVE  /\ SessionKey(snap.tenant, t) \in Key /\ SessionKey(snap.tenant, t)[2] = t
         /\ snapshots'[SessionKey(snap.tenant, t)] = [value |-> snap, age |-> 0]
         /\ \A key \in Key : key # SessionKey(snap.tenant, t) => snapshots'[key] = snapshots[key]
<1>1. SessionKey(snap.tenant, t) \in Key /\ SessionKey(snap.tenant, t)[2] = t
  BY KeyType DEF Snapshot
<1> QED
  BY <1>1 DEF Written, TypeOK

(* Steps that leave the writes alone: a session stays as it was, or goes.  *)
LEMMA QuietFresh ==
  ASSUME TypeOK, Fresh,
         UNCHANGED <<age, snapshots, request, buffered, putFailures, issued, accepted,
                     arrived, raced>>,
         \A t \in Token : store'[t] = store[t] \/ store'[t] = Missing
  PROVE  Fresh'
<1>1. BatchesCounted'
  BY DEF Fresh, BatchesCounted, Present
<1>2. Lifetimes' /\ YoungerThanTheirSession'
  BY DEF Fresh, Lifetimes, YoungerThanTheirSession
<1>3. LatestKept'
  <2> SUFFICES ASSUME putFailures = 0, NEW t \in Token,
                      Live(t)', store'[t].seen > 0, t \notin raced
               PROVE  LatestOf(t)'
    BY DEF LatestKept
  <2>1. store'[t] = store[t] /\ Live(t)
    BY DEF Live, Present, Expired
  <2>2. LatestOf(t)
    BY <2>1 DEF Fresh, LatestKept
  <2> QED
    BY <2>1, <2>2 DEF LatestOf, InFlight, Publishing, BucketShowsLatest
<1> QED
  BY <1>1, <1>2, <1>3 DEF Fresh

(* A new session has written nothing: its token is new. *)
LEMMA StartSessionFresh ==
  ASSUME Provenance, Fresh, NEW k \in Tenant, NEW u \in Token, StartSession(k, u)
  PROVE  Fresh'
<1>1. \A key \in Key : key[2] \in Token
  BY DEF Key
<1>2. went[u] = {}
  <2>1. ASSUME NEW snap \in went[u] PROVE FALSE
    BY <2>1, SessionsAssumption DEF StartSession, Provenance, StatesAreOwn, TypeOK, Snapshot
  <2> QED
    BY <2>1
<1>3. \A key \in Key : snapshots[key] # Missing => key[2] # u
  BY <1>2 DEF Provenance, SnapshotsArePast
<1>4. /\ UNCHANGED <<snapshots, request, buffered, putFailures, accepted, arrived, raced>>
      /\ store'[u].seen = 0 /\ store'[u].highest = 0
      /\ issued'[u] = k /\ k # Missing /\ age'[u] = 0
      /\ issued[u] = Missing
      /\ \A t \in Token \ {u} :
           store'[t] = store[t] /\ age'[t] = age[t] /\ issued'[t] = issued[t]
  BY SessionsAssumption DEF StartSession, Provenance, TypeOK
<1>5. BatchesCounted'
  <2> SUFFICES ASSUME NEW t \in Token
               PROVE  /\ issued'[t] = Missing => ~ Present(t)' /\ accepted[t] = 0 /\ arrived[t] = {}
                      /\ Present(t)' => /\ store'[t].seen = accepted[t]
                                        /\ arrived[t] \subseteq 0 .. store'[t].highest
    BY <1>4 DEF BatchesCounted
  <2>1. CASE t = u
    BY <1>4, <2>1 DEF Fresh, BatchesCounted
  <2>2. CASE t # u
    BY <1>4, <2>2 DEF Fresh, BatchesCounted, Present
  <2> QED
    BY <2>1, <2>2
<1>6. Lifetimes'
  <2> SUFFICES ASSUME putFailures = 0
               PROVE  /\ buffered = {}
                      /\ \A q \in Request : request[q] # Idle =>
                           age'[request[q].token] <= IF request[q].late THEN TTL + 1 ELSE TTL
                      /\ \A key \in Key : snapshots[key] # Missing =>
                           age'[key[2]] <= TTL + 1 + snapshots[key].age
    BY <1>4 DEF Lifetimes
  <2>1. ASSUME NEW q \in Request, request[q] # Idle
        PROVE  age'[request[q].token] <= IF request[q].late THEN TTL + 1 ELSE TTL
    <3>1. request[q].token \in Token
      BY <2>1 DEF Provenance, TypeOK
    <3> QED
      BY <1>4, <2>1, <3>1, HorizonNatural DEF Fresh, Lifetimes
  <2>2. ASSUME NEW key \in Key, snapshots[key] # Missing
        PROVE  age'[key[2]] <= TTL + 1 + snapshots[key].age
    BY <1>1, <1>3, <1>4, <2>2 DEF Fresh, Lifetimes
  <2> QED
    BY <2>1, <2>2 DEF Fresh, Lifetimes
<1>7. YoungerThanTheirSession'
  BY <1>1, <1>3, <1>4 DEF Fresh, YoungerThanTheirSession
<1>8. LatestKept'
  <2> SUFFICES ASSUME putFailures = 0, NEW t \in Token,
                      Live(t)', store'[t].seen > 0, t \notin raced
               PROVE  LatestOf(t)'
    BY <1>4 DEF LatestKept
  <2>1. t # u
    BY <1>4
  <2>2. store'[t] = store[t] /\ Live(t)
    BY <1>4, <2>1 DEF Live, Present, Expired
  <2>3. LatestOf(t)
    BY <2>2 DEF Fresh, LatestKept
  <2> QED
    BY <1>4, <2>2, <2>3 DEF LatestOf, InFlight, Publishing, BucketShowsLatest
<1> QED
  BY <1>5, <1>6, <1>7, <1>8 DEF Fresh

(* The critical section: the handler leaves it with the latest state, and  *)
(* is the only one to hold a state of its session unless they overlap.     *)
LEMMA TelemetryFresh ==
  ASSUME Provenance, Fresh, NEW p \in Request, NEW u \in Token, NEW s \in 0 .. MaxSeq,
         Telemetry(p, u, s)
  PROVE  Fresh'
<1>1. UNCHANGED <<age, snapshots, buffered, putFailures, issued>>
  BY DEF Telemetry
<1>2. CASE NotFound(u) /\ UNCHANGED <<request, accepted, arrived, went, raced>>
  <2>1. \A t \in Token : store'[t] = store[t] \/ store'[t] = Missing
    BY <1>2 DEF NotFound, Provenance, TypeOK
  <2> QED
    BY <1>1, <1>2, <2>1, QuietFresh DEF Provenance
<1>3. CASE ~ (NotFound(u) /\ UNCHANGED <<request, accepted, arrived, went, raced>>)
  <2> DEFINE st == Observe(store[u], s)
             snap == SnapshotOf(st)
  <2>1. /\ Live(u)
        /\ request[p] = Idle
        /\ store' = [store EXCEPT ![u] = st]
        /\ request' = [request EXCEPT ![p] = [pc |-> "put", token |-> u, snap |-> snap,
                                             late |-> FALSE]]
        /\ accepted' = [accepted EXCEPT ![u] = @ + 1]
        /\ arrived' = [arrived EXCEPT ![u] = @ \cup {s}]
        /\ raced' = IF Publishing(u) THEN raced \cup {u} ELSE raced
    BY <1>3 DEF Telemetry
  <2>2. store[u] \in State
    BY <2>1 DEF Live, Present, Provenance, TypeOK
  <2>3. /\ st \in State /\ st.seen = store[u].seen + 1
        /\ st.highest = Larger(store[u].highest, s)
        /\ store[u].highest \in Nat /\ s \in Nat
    BY <2>2, ObserveType, ObserveFields, SessionsAssumption
  <2>4. /\ store[u].highest <= st.highest /\ s <= st.highest /\ st.highest \in Nat
    BY <2>3, LargerBounds
  <2> HIDE DEF st
  <2>5. /\ store'[u] = st /\ accepted'[u] = accepted[u] + 1 /\ arrived'[u] = arrived[u] \cup {s}
        /\ \A t \in Token \ {u} :
             /\ store'[t] = store[t] /\ accepted'[t] = accepted[t] /\ arrived'[t] = arrived[t]
    BY <2>1 DEF Provenance, TypeOK
  <2>6. /\ request'[p].token = u /\ request'[p].snap = snap /\ ~ request'[p].late
        /\ \A q \in Request \ {p} : request'[q] = request[q]
    BY <2>1 DEF Provenance, TypeOK
  <2>7. BatchesCounted'
    <3> SUFFICES ASSUME NEW t \in Token
                 PROVE  /\ issued[t] = Missing =>
                             ~ Present(t)' /\ accepted'[t] = 0 /\ arrived'[t] = {}
                        /\ Present(t)' => /\ store'[t].seen = accepted'[t]
                                          /\ arrived'[t] \subseteq 0 .. store'[t].highest
      BY <1>1 DEF BatchesCounted
    <3>1. CASE t = u
      <4>1. Present(u) /\ issued[u] # Missing
        BY <2>1 DEF Live, Fresh, BatchesCounted
      <4>2. store[u].seen = accepted[u] /\ arrived[u] \subseteq 0 .. store[u].highest
        BY <4>1 DEF Fresh, BatchesCounted
      <4>3. arrived'[u] \subseteq 0 .. st.highest
        BY <2>3, <2>4, <2>5, <4>2
      <4> QED
        BY <2>3, <2>5, <3>1, <4>1, <4>2, <4>3
    <3>2. CASE t # u
      BY <2>5, <3>2 DEF Fresh, BatchesCounted, Present
    <3> QED
      BY <3>1, <3>2
  <2>8. Lifetimes'
    <3> SUFFICES ASSUME putFailures = 0, NEW q \in Request, request'[q] # Idle
                 PROVE  age[request'[q].token] <= IF request'[q].late THEN TTL + 1 ELSE TTL
      BY <1>1 DEF Fresh, Lifetimes
    <3>1. CASE q = p
      BY <2>1, <2>6, <3>1, HorizonNatural DEF Live, Expired, Provenance, TypeOK
    <3>2. CASE q # p
      BY <2>6, <3>2 DEF Fresh, Lifetimes
    <3> QED
      BY <3>1, <3>2
  <2>9. YoungerThanTheirSession'
    BY <1>1 DEF Fresh, YoungerThanTheirSession
  <2>10. LatestKept'
    <3> SUFFICES ASSUME putFailures = 0, NEW t \in Token,
                        Live(t)', store'[t].seen > 0, t \notin raced'
                 PROVE  LatestOf(t)'
      BY <1>1 DEF LatestKept
    <3>1. CASE t = u
      <4>1. \A q \in Request : ~ InFlight(q, u)
        BY <2>1, <3>1 DEF Publishing, InFlight
      <4>2. \A q \in Request : InFlight(q, u)' => q = p
        BY <2>6, <4>1 DEF InFlight
      <4>3. request'[p] # Idle
        BY <2>1 DEF Idle, Provenance, TypeOK
      <4>4. Publishing(u)'
        BY <2>6, <4>3 DEF Publishing
      <4> QED
        BY <2>5, <2>6, <3>1, <4>2, <4>4 DEF LatestOf
    <3>2. CASE t # u
      <4>1. store'[t] = store[t] /\ Live(t) /\ t \notin raced
        BY <1>1, <2>1, <2>5, <3>2 DEF Live, Present, Expired
      <4>2. LatestOf(t)
        BY <4>1 DEF Fresh, LatestKept
      <4>3. \A q \in Request : InFlight(q, t)' <=> InFlight(q, t)
        BY <2>1, <2>6, <3>2 DEF InFlight
      <4>4. \A q \in Request : InFlight(q, t)' => request'[q] = request[q]
        BY <2>6, <3>2 DEF InFlight
      <4>5. Publishing(t)' <=> Publishing(t)
        BY <4>3 DEF Publishing, InFlight
      <4> QED
        BY <1>1, <4>1, <4>2, <4>3, <4>4, <4>5 DEF LatestOf, BucketShowsLatest
    <3> QED
      BY <3>1, <3>2
  <2> QED
    BY <2>7, <2>8, <2>9, <2>10 DEF Fresh
<1> QED
  BY <1>2, <1>3
(* The write lands: what the one handler held is in the bucket. *)
LEMMA PutFresh ==
  ASSUME Provenance, Fresh, NEW p \in Request, Put(p)
  PROVE  Fresh'
<1> DEFINE u == request[p].token
           snap == request[p].snap
           k == SessionKey(snap.tenant, u)
<1>1. /\ request[p] # Idle /\ u \in Token /\ snap \in Snapshot /\ Written(u, snap)
      /\ request' = [request EXCEPT ![p] = Idle]
      /\ UNCHANGED <<store, age, buffered, putFailures, issued, accepted, arrived, raced>>
  BY DEF Put, Provenance, TypeOK
<1>2. /\ k \in Key /\ k[2] = u /\ snapshots'[k] = [value |-> snap, age |-> 0]
      /\ \A key \in Key : key # k => snapshots'[key] = snapshots[key]
  BY <1>1, WrittenEntry DEF Provenance
<1>3. snapshots'[k].value = snap /\ snapshots'[k].age = 0
  BY <1>2
<1>4. request'[p] = Idle /\ \A q \in Request \ {p} : request'[q] = request[q]
  BY <1>1 DEF Provenance, TypeOK
<1>5. BatchesCounted'
  BY <1>1 DEF Fresh, BatchesCounted, Present
<1>6. age[u] \in Nat
  BY <1>1, HorizonNatural DEF Provenance, TypeOK
<1>7. Lifetimes'
  <2> SUFFICES ASSUME putFailures = 0
               PROVE  /\ \A q \in Request : request'[q] # Idle =>
                           age[request'[q].token] <= IF request'[q].late THEN TTL + 1 ELSE TTL
                      /\ \A key \in Key : snapshots'[key] # Missing =>
                           age[key[2]] <= TTL + 1 + snapshots'[key].age
    BY <1>1 DEF Fresh, Lifetimes
  <2>1. age[u] <= TTL + 1
    BY <1>1, <1>6, HorizonNatural DEF Fresh, Lifetimes
  <2>2. ASSUME NEW key \in Key, snapshots'[key] # Missing
        PROVE  age[key[2]] <= TTL + 1 + snapshots'[key].age
    <3>1. CASE key = k
      BY <1>2, <1>3, <1>6, <2>1, <3>1, HorizonNatural
    <3>2. CASE key # k
      BY <1>2, <2>2, <3>2 DEF Fresh, Lifetimes
    <3> QED
      BY <3>1, <3>2
  <2>3. ASSUME NEW q \in Request, request'[q] # Idle
        PROVE  age[request'[q].token] <= IF request'[q].late THEN TTL + 1 ELSE TTL
    BY <1>4, <2>3 DEF Fresh, Lifetimes
  <2> QED
    BY <2>2, <2>3
<1>8. YoungerThanTheirSession'
  <2> SUFFICES ASSUME NEW key \in Key, snapshots'[key] # Missing
               PROVE  snapshots'[key].age <= age[key[2]]
    BY <1>1 DEF YoungerThanTheirSession
  <2>1. CASE key = k
    BY <1>2, <1>3, <1>6, <2>1
  <2>2. CASE key # k
    BY <1>2, <2>2 DEF Fresh, YoungerThanTheirSession
  <2> QED
    BY <2>1, <2>2
<1>9. LatestKept'
  <2> SUFFICES ASSUME putFailures = 0, NEW t \in Token,
                      Live(t)', store'[t].seen > 0, t \notin raced
               PROVE  LatestOf(t)'
    BY <1>1 DEF LatestKept
  <2>1. LatestOf(t) /\ store[t] \in State
    BY <1>1 DEF Fresh, LatestKept, Live, Present, Expired, Provenance, TypeOK
  <2>2. \A q \in Request : InFlight(q, t)' => q # p /\ InFlight(q, t) /\ request'[q] = request[q]
    BY <1>4 DEF InFlight
  <2>3. CASE t = u
    <3>1. InFlight(p, t) /\ snap = SnapshotOf(store[t])
      BY <1>1, <2>1, <2>3 DEF InFlight, LatestOf
    <3>2. \A q \in Request : ~ InFlight(q, t)'
      BY <2>1, <2>2, <3>1 DEF LatestOf
    <3>3. k = SessionKey(store[t].tenant, t)
      BY <2>1, <2>3, <3>1, SnapshotType
    <3>4. snapshots'[k] # Missing
      BY <1>1, <1>2, SessionsAssumption, HorizonNatural DEF Entry
    <3> HIDE DEF k
    <3>5. BucketShowsLatest(t)'
      BY <1>1, <1>3, <3>1, <3>3, <3>4 DEF BucketShowsLatest
    <3> QED
      BY <3>2, <3>5 DEF LatestOf
  <2>4. CASE t # u
    <3>1. \A q \in Request : InFlight(q, t) => InFlight(q, t)'
      BY <1>4, <2>4 DEF InFlight
    <3>2. Publishing(t)' <=> Publishing(t)
      BY <2>2, <3>1 DEF Publishing, InFlight
    <3>3. SessionKey(store[t].tenant, t) \in Key /\ SessionKey(store[t].tenant, t)[2] = t
      BY <2>1, KeyType DEF State
    <3>4. snapshots'[SessionKey(store[t].tenant, t)] = snapshots[SessionKey(store[t].tenant, t)]
      BY <1>2, <2>4, <3>3
    <3>5. BucketShowsLatest(t) => BucketShowsLatest(t)'
      BY <1>1, <3>4 DEF BucketShowsLatest
    <3> QED
      BY <1>1, <2>1, <2>2, <3>2, <3>5 DEF LatestOf
  <2> QED
    BY <2>3, <2>4
<1> QED
  BY <1>5, <1>7, <1>8, <1>9 DEF Fresh

LEMMA PutFailsFresh ==
  ASSUME Provenance, Fresh, NEW p \in Request, PutFails(p)
  PROVE  Fresh'
<1>1. UNCHANGED <<store, age, snapshots, issued, accepted, arrived, raced>>
  BY DEF PutFails
<1>2. putFailures' # 0
  BY SessionsAssumption DEF PutFails, Provenance, TypeOK
<1>3. BatchesCounted'
  BY <1>1 DEF Fresh, BatchesCounted, Present
<1>4. YoungerThanTheirSession'
  BY <1>1 DEF Fresh, YoungerThanTheirSession
<1> QED
  BY <1>2, <1>3, <1>4 DEF Fresh, Lifetimes, LatestKept

(* A write that was given up on: some write was not answered. *)
LEMMA FlushFresh ==
  ASSUME Provenance, Fresh, NEW w \in buffered, Flush(w)
  PROVE  Fresh'
<1> DEFINE k == SessionKey(w.snap.tenant, w.token)
<1>1. putFailures # 0
  BY DEF Fresh, Lifetimes
<1>2. /\ w.token \in Token /\ w.snap \in Snapshot /\ Written(w.token, w.snap)
      /\ UNCHANGED <<store, age, putFailures, issued, accepted, arrived>>
  BY DEF Flush, Provenance, TypeOK
<1>3. /\ k \in Key /\ k[2] = w.token /\ snapshots'[k] = [value |-> w.snap, age |-> 0]
      /\ \A key \in Key : key # k => snapshots'[key] = snapshots[key]
  BY <1>2, WrittenEntry DEF Provenance
<1>4. age[w.token] \in Nat /\ snapshots'[k].age = 0
  BY <1>2, <1>3, HorizonNatural DEF Provenance, TypeOK
<1> HIDE DEF k
<1>5. BatchesCounted'
  BY <1>2 DEF Fresh, BatchesCounted, Present
<1>6. YoungerThanTheirSession'
  <2> SUFFICES ASSUME NEW key \in Key, snapshots'[key] # Missing
               PROVE  snapshots'[key].age <= age[key[2]]
    BY <1>2 DEF YoungerThanTheirSession
  <2>1. CASE key = k
    BY <1>3, <1>4, <2>1
  <2>2. CASE key # k
    BY <1>3, <2>2 DEF Fresh, YoungerThanTheirSession
  <2> QED
    BY <2>1, <2>2
<1> QED
  BY <1>1, <1>2, <1>5, <1>6 DEF Fresh, Lifetimes, LatestKept

(* A tick moves a session and its snapshot together: while the session is  *)
(* live the bucket cannot have outlived what it holds.                     *)
LEMMA TickFresh ==
  ASSUME Provenance, Fresh, Tick
  PROVE  Fresh'
<1>1. /\ UNCHANGED <<store, buffered, putFailures, issued, accepted, arrived, raced>>
      /\ \A t \in Token : /\ age[t] \in Nat /\ age'[t] \in Nat
                          /\ age[t] <= age'[t] /\ age'[t] <= age[t] + 1
                          /\ issued[t] # Missing /\ age[t] < Horizon => age'[t] = age[t] + 1
                          /\ age[t] <= Horizon
  BY HorizonNatural DEF Tick, Provenance, TypeOK
<1>2. \A q \in Request : request'[q] # Idle =>
        /\ request[q] # Idle /\ ~ request[q].late
        /\ request[q].token \in Token
        /\ request'[q].token = request[q].token /\ request'[q].snap = request[q].snap
        /\ request'[q].late
  BY DEF Tick, Provenance, TypeOK
<1>3. \A q \in Request : request[q] # Idle =>
        request'[q] # Idle /\ request'[q].token = request[q].token
  BY DEF Tick, Provenance, TypeOK, Idle
<1>4. \A key \in Key : snapshots'[key] # Missing =>
        /\ snapshots[key] # Missing /\ snapshots[key].age \in Nat
        /\ snapshots'[key].value = snapshots[key].value
        /\ snapshots'[key].age = snapshots[key].age + 1
  BY HorizonNatural DEF Tick, Provenance, TypeOK, Entry
<1>5. \A key \in Key : key[2] \in Token
  BY DEF Key
<1>6. BatchesCounted'
  BY <1>1 DEF Fresh, BatchesCounted, Present
<1>7. Lifetimes'
  <2> SUFFICES ASSUME putFailures = 0
               PROVE  /\ \A q \in Request : request'[q] # Idle =>
                           age'[request'[q].token] <= IF request'[q].late THEN TTL + 1 ELSE TTL
                      /\ \A key \in Key : snapshots'[key] # Missing =>
                           age'[key[2]] <= TTL + 1 + snapshots'[key].age
    BY <1>1 DEF Fresh, Lifetimes
  <2>1. ASSUME NEW q \in Request, request'[q] # Idle
        PROVE  age'[request'[q].token] <= IF request'[q].late THEN TTL + 1 ELSE TTL
    <3>1. age[request[q].token] <= TTL
      BY <1>2, <2>1 DEF Fresh, Lifetimes
    <3> QED
      BY <1>1, <1>2, <2>1, <3>1, HorizonNatural
  <2>2. ASSUME NEW key \in Key, snapshots'[key] # Missing
        PROVE  age'[key[2]] <= TTL + 1 + snapshots'[key].age
    <3>1. age[key[2]] <= TTL + 1 + snapshots[key].age
      BY <1>4, <2>2 DEF Fresh, Lifetimes
    <3> QED
      BY <1>1, <1>4, <1>5, <2>2, <3>1, HorizonNatural
  <2> QED
    BY <2>1, <2>2
<1>8. \A t \in Token : Live(t)' =>
        Live(t) /\ age'[t] = age[t] + 1 /\ age'[t] <= TTL /\ store[t] \in State
  <2> SUFFICES ASSUME NEW t \in Token, Live(t)'
               PROVE  Live(t) /\ age'[t] = age[t] + 1 /\ age'[t] <= TTL /\ store[t] \in State
    OBVIOUS
  <2>1. Present(t) /\ age'[t] <= TTL
    BY <1>1, HorizonNatural DEF Live, Expired, Present
  <2>2. issued[t] # Missing
    BY <2>1 DEF Fresh, BatchesCounted
  <2>3. age[t] <= TTL /\ age[t] < Horizon
    BY <1>1, <2>1, HorizonNatural DEF Horizon
  <2> QED
    BY <1>1, <2>1, <2>2, <2>3, HorizonNatural DEF Live, Expired, Present, Provenance, TypeOK
<1>9. YoungerThanTheirSession'
  <2> SUFFICES ASSUME NEW key \in Key, snapshots'[key] # Missing
               PROVE  snapshots'[key].age <= age'[key[2]]
    BY DEF YoungerThanTheirSession
  <2>1. snapshots[key].age <= age[key[2]]
    BY <1>4 DEF Fresh, YoungerThanTheirSession
  <2>2. snapshots[key].age < TTL
    BY HorizonNatural DEF Tick, Outlived, Provenance, TypeOK, Entry
  <2>3. key[2] \in Token /\ snapshots[key].value \in went[key[2]]
    BY <1>4, <1>5 DEF Provenance, SnapshotsArePast
  <2>4. issued[key[2]] # Missing
    BY <2>3, SessionsAssumption DEF Provenance, StatesAreOwn, TypeOK, Snapshot
  <2>5. CASE age[key[2]] < Horizon
    BY <1>1, <1>4, <2>1, <2>3, <2>4, <2>5
  <2>6. CASE age[key[2]] = Horizon
    BY <1>1, <1>4, <2>2, <2>3, <2>6, HorizonNatural DEF Horizon
  <2> QED
    BY <1>1, <2>3, <2>5, <2>6, HorizonNatural
<1>10. LatestKept'
  <2> SUFFICES ASSUME putFailures = 0, NEW t \in Token,
                      Live(t)', store[t].seen > 0, t \notin raced
               PROVE  LatestOf(t)'
    BY <1>1 DEF LatestKept
  <2>1. LatestOf(t) /\ store[t] \in State /\ age[t] < TTL
    BY <1>1, <1>8, HorizonNatural DEF Fresh, LatestKept
  <2>2. \A q \in Request : InFlight(q, t)' <=> InFlight(q, t)
    BY <1>2, <1>3 DEF InFlight
  <2>3. Publishing(t)' <=> Publishing(t)
    BY <2>2 DEF Publishing, InFlight
  <2>4. ASSUME BucketShowsLatest(t) PROVE BucketShowsLatest(t)'
    <3> DEFINE key == SessionKey(store[t].tenant, t)
    <3>1. key \in Key /\ key[2] = t
      BY <2>1, KeyType DEF State
    <3>2. snapshots[key] # Missing /\ snapshots[key].value = SnapshotOf(store[t])
      BY <2>4 DEF BucketShowsLatest
    <3> HIDE DEF key
    <3>3. snapshots[key].age <= age[t] /\ snapshots[key].age \in Nat
      BY <3>1, <3>2, HorizonNatural DEF Fresh, YoungerThanTheirSession, Provenance, TypeOK, Entry
    <3>4. ~ Outlived(snapshots[key])
      BY <1>1, <2>1, <3>3, HorizonNatural DEF Outlived
    <3>5. snapshots'[key] = [snapshots[key] EXCEPT !.age = @ + 1]
      BY <3>1, <3>2, <3>4 DEF Tick
    <3>6. snapshots[key] \in Entry
      BY <3>1, <3>2 DEF Provenance, TypeOK
    <3>7. snapshots'[key] \in Entry
      BY <3>3, <3>4, <3>5, <3>6, HorizonNatural DEF Entry, Outlived
    <3>8. snapshots'[key].value = SnapshotOf(store[t]) /\ snapshots'[key] # Missing
      BY <3>2, <3>5, <3>6, <3>7, SessionsAssumption DEF Entry
    <3> QED
      BY <1>1, <3>8 DEF BucketShowsLatest, key
  <2> QED
    BY <1>1, <1>2, <2>1, <2>2, <2>3, <2>4 DEF LatestOf, InFlight
<1> QED
  BY <1>6, <1>7, <1>9, <1>10 DEF Fresh
(* Nothing is live after a restart, and nothing in flight. *)
LEMMA RestartFresh ==
  ASSUME Provenance, Fresh, Restart
  PROVE  Fresh'
<1>1. UNCHANGED <<age, snapshots, putFailures, issued, accepted, arrived, raced>>
  BY DEF Restart
<1>2. buffered' = {} /\ \A q \in Request : request'[q] = Idle
  BY DEF Restart
<1>3. \A t \in Token : ~ Present(t)' /\ ~ Live(t)'
  BY DEF Restart, Present, Live
<1>4. BatchesCounted' /\ YoungerThanTheirSession'
  BY <1>1, <1>3 DEF Fresh, BatchesCounted, YoungerThanTheirSession
<1>5. Lifetimes'
  BY <1>1, <1>2 DEF Fresh, Lifetimes
<1>6. LatestKept'
  BY <1>3 DEF LatestKept
<1> QED
  BY <1>4, <1>5, <1>6 DEF Fresh

LEMMA InitFresh == Init => Fresh
<1> SUFFICES ASSUME Init PROVE Fresh
  OBVIOUS
<1>1. BatchesCounted
  BY DEF Init, BatchesCounted, Present
<1>2. Lifetimes /\ YoungerThanTheirSession
  BY DEF Init, Lifetimes, YoungerThanTheirSession
<1>3. LatestKept
  BY DEF Init, LatestKept, Live, Present
<1> QED
  BY <1>1, <1>2, <1>3 DEF Fresh

LEMMA NextFresh == Provenance /\ Fresh /\ [Next]_vars => Fresh'
<1> SUFFICES ASSUME Provenance, Fresh, [Next]_vars PROVE Fresh'
  OBVIOUS
<1>0. TypeOK
  BY DEF Provenance
<1>1. ASSUME NEW k \in Tenant, NEW t \in Token, StartSession(k, t) PROVE Fresh'
  BY <1>1, StartSessionFresh
<1>2. ASSUME NEW q \in Request, NEW t \in Token, NEW s \in 0 .. MaxSeq, Telemetry(q, t, s)
      PROVE  Fresh'
  BY <1>2, TelemetryFresh
<1>3. ASSUME NEW q \in Request, Put(q) PROVE Fresh'
  BY <1>3, PutFresh
<1>4. ASSUME NEW q \in Request, PutFails(q) PROVE Fresh'
  BY <1>4, PutFailsFresh
<1>5. ASSUME NEW w \in buffered, Flush(w) PROVE Fresh'
  BY <1>5, FlushFresh
<1>6. ASSUME NEW k \in Tenant, NEW t \in Token, LiveLookup(k, t) PROVE Fresh'
  <2>1. \A u \in Token : store'[u] = store[u] \/ store'[u] = Missing
    BY <1>0, <1>6 DEF LiveLookup, NotFound, TypeOK
  <2>2. UNCHANGED <<age, snapshots, request, buffered, putFailures, issued, accepted,
                    arrived, raced>>
    BY <1>6 DEF LiveLookup
  <2> QED
    BY <1>0, <2>1, <2>2, QuietFresh
<1>7. ASSUME NEW k \in Tenant, NEW t \in Token, SnapshotLookup(k, t) PROVE Fresh'
  BY <1>0, <1>7, QuietFresh DEF SnapshotLookup
<1>8. ASSUME Sweep PROVE Fresh'
  BY <1>0, <1>8, QuietFresh DEF Sweep
<1>9. ASSUME Tick PROVE Fresh'
  BY <1>9, TickFresh
<1>10. ASSUME Restart PROVE Fresh'
  BY <1>10, RestartFresh
<1>11. ASSUME UNCHANGED vars PROVE Fresh'
  BY <1>0, <1>11, QuietFresh DEF vars
<1> QED
  BY <1>1, <1>2, <1>3, <1>4, <1>5, <1>6, <1>7, <1>8, <1>9, <1>10, <1>11 DEF Next

(* What the counters, the clocks and the writes say of one another. *)
THEOREM Freshness == Spec => []Fresh
BY InitFresh, NextFresh, ProvenanceHolds, PTL DEF Spec

(* The two readers show the same state of a session whenever nothing is    *)
(* in flight for it, no write failed and no two of its handlers ever       *)
(* overlapped: the order of the writes is all that can part them           *)
(* (IngestTelemetry, which publishes outside the critical section).        *)
THEOREM ReadersAgree == Spec => []ReadersAgreeUnlessRaced
<1>1. Fresh => ReadersAgreeUnlessRaced
  BY DEF Fresh, LatestKept, LatestOf, ReadersAgreeUnlessRaced, Settled
<1> QED
  BY <1>1, Freshness, PTL

(* A snapshot outlives its session by at most its own lifetime and the     *)
(* tick its last handler straddled, although every write starts the        *)
(* bucket's clock again (sessionkv.go, the bucket's TTL).                  *)
THEOREM SnapshotsDoNotLinger == Spec => []SnapshotLifetime
<1>1. Provenance /\ Fresh => SnapshotLifetime
  <2> SUFFICES ASSUME Provenance, Fresh, putFailures = 0,
                      NEW key \in Key, snapshots[key] # Missing
               PROVE  age[key[2]] <= 2 * TTL + 1
    BY DEF SnapshotLifetime
  <2>1. age[key[2]] <= TTL + 1 + snapshots[key].age
    BY DEF Fresh, Lifetimes
  <2>2. snapshots[key].age \in 0 .. TTL
    BY DEF Provenance, TypeOK, Entry
  <2>3. key[2] \in Token
    BY DEF Key
  <2>4. age[key[2]] \in Nat
    BY <2>3, HorizonNatural DEF Provenance, TypeOK
  <2> QED
    BY <2>1, <2>2, <2>4, HorizonNatural
<1> QED
  BY <1>1, Freshness, ProvenanceHolds, PTL

(* A set of batch counters without repetition covers 0 .. h exactly when   *)
(* it has h + 1 members.                                                   *)
LEMMA Covered ==
  ASSUME NEW h \in Nat, NEW S \in SUBSET (0 .. h)
  PROVE  (0 .. h) \ S # {} <=> Cardinality(S) # h + 1
<1>1. IsFiniteSet(0 .. h) /\ Cardinality(0 .. h) = h + 1
  BY FS_Interval
<1>2. Cardinality(S) = Cardinality(0 .. h) => S = 0 .. h
  BY <1>1, FS_Subset
<1> QED
  BY <1>1, <1>2

(* HighestSeq and BatchesSeen expose a missing batch however the batches   *)
(* were ordered, unless one was sent twice (ObserveBatch).                 *)
THEOREM GapsShow == Spec => []GapsExposed
<1>1. Provenance /\ Fresh => GapsExposed
  <2> SUFFICES ASSUME Provenance, Fresh, NEW t \in Token, Present(t), ~ Retried(t)
               PROVE  (0 .. store[t].highest) \ arrived[t] # {}
                        <=> store[t].seen # store[t].highest + 1
    BY DEF GapsExposed
  <2>1. store[t].highest \in Nat
    BY DEF Provenance, TypeOK, Present, State
  <2>2. store[t].seen = Cardinality(arrived[t]) /\ arrived[t] \subseteq 0 .. store[t].highest
    BY DEF Fresh, BatchesCounted, Retried
  <2> QED
    BY <2>1, <2>2, Covered
<1> QED
  BY <1>1, Freshness, ProvenanceHolds, PTL
=============================================================================

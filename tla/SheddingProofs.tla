--------------------------- MODULE SheddingProofs ----------------------------
(***************************************************************************)
(* Proofs about Shedding for any set of requests, any retention, capacity  *)
(* and staleness, and any number of restarts: what is counted as stored    *)
(* is, and a usable reading bounds the backlog from above and is about     *)
(* some message from below.                                                *)
(***************************************************************************)
EXTENDS Shedding, WellFoundedInduction, TLAPS

-----------------------------------------------------------------------------
(* What a usable reading is worth.  Above: nothing in the stream, read or  *)
(* not, is older than the reading and its own age say.  Below: unless it   *)
(* said that the stream was empty, the message it was about is now exactly *)
(* that old, in the stream or not.                                         *)
BoundsTheStream ==
  Known => \A r \in Stream : age[r] <= reading.level + reading.age

AboutAMessage ==
  Known /\ reading.level > 0 =>
    \E m \in Record : Stored(m) /\ age[m] = reading.level + reading.age

(* A record is nowhere before its request, and stored once counted so.     *)
FateTellsPlace ==
  \A r \in Record :
    /\ fate[r] = "none" => place[r] = "nowhere"
    /\ fate[r] \in {"written", "accepted"} => Stored(r)

(* The inductive invariant: the age limit holds in the stream, so that a   *)
(* reading never exceeds it, and the reading is worth what it says.        *)
IInv ==
  /\ TypeOK
  /\ \A r \in Stream : age[r] <= MaxAge
  /\ reading = NoReading \/ reading.level \in Nat
  /\ FateTellsPlace
  /\ BoundsTheStream
  /\ AboutAMessage

-----------------------------------------------------------------------------
LEMMA Bounds ==
  /\ MaxAge \in Nat /\ MaxAge > 0 /\ Stale \in Nat /\ MaxRestarts \in Nat
  /\ Horizon \in Nat /\ Horizon = MaxAge + Stale + 1
BY SheddingAssumption DEF Horizon

(* A set of naturals below a bound has a greatest element, the complement  *)
(* to the bound of the least complement.                                   *)
LEMMA GreatestBelow ==
  ASSUME NEW bound \in Nat, NEW S \in SUBSET (0 .. bound), S # {}
  PROVE  \E a \in S : \A b \in S : b <= a
<1> DEFINE D == {bound - a : a \in S}
<1>1. D \in SUBSET Nat /\ D # {}
  <2>1. PICK a \in S : TRUE
    OBVIOUS
  <2>2. bound - a \in D
    OBVIOUS
  <2> QED
    BY <2>2
<1>2. PICK d \in D : \A e \in D : ~ (<<e, d>> \in OpToRel(<, Nat))
  <2> HIDE DEF D
  <2> QED
    BY <1>1, NatLessThanWellFounded, WFMin
<1>3. \A e \in D : ~ (e < d)
  BY <1>1, <1>2 DEF OpToRel
<1>4. PICK a \in S : d = bound - a
  OBVIOUS
<1>5. ASSUME NEW b \in S PROVE b <= a
  <2>1. bound - b \in D
    OBVIOUS
  <2>2. ~ (bound - b < bound - a)
    BY <1>3, <1>4, <2>1
  <2>3. a \in Int /\ b \in Int /\ bound \in Int
    OBVIOUS
  <2> HIDE DEF D
  <2> QED
    BY <2>2, <2>3
<1> QED
  BY <1>5

(* What a poll reads: zero of an empty stream, otherwise the age of some   *)
(* message of the stream that no other exceeds.                            *)
LEMMA OldestOfTheStream ==
  ASSUME TypeOK, \A r \in Stream : age[r] <= MaxAge
  PROVE  /\ OldestAge \in 0 .. MaxAge
         /\ \A r \in Stream : age[r] <= OldestAge
         /\ OldestAge > 0 => \E m \in Stream : age[m] = OldestAge
<1>1. CASE Stream = {}
  BY <1>1, Bounds DEF OldestAge
<1>2. CASE Stream # {}
  <2>1. /\ AgeOf(Stream) \in SUBSET (0 .. MaxAge) /\ AgeOf(Stream) # {}
        /\ \A r \in Stream : age[r] \in AgeOf(Stream)
    BY <1>2, Bounds DEF AgeOf, Stream, TypeOK
  <2>2. \E a \in AgeOf(Stream) : \A b \in AgeOf(Stream) : b <= a
    BY <2>1, Bounds, GreatestBelow
  <2>3. /\ OldestAge \in AgeOf(Stream)
        /\ \A b \in AgeOf(Stream) : b <= OldestAge
    BY <1>2, <2>2 DEF OldestAge
  <2>4. \E m \in Stream : age[m] = OldestAge
    BY <2>3 DEF AgeOf
  <2> QED
    BY <2>1, <2>3, <2>4
<1> QED
  BY <1>1, <1>2

-----------------------------------------------------------------------------
LEMMA InitIInv == Init => IInv
<1> SUFFICES ASSUME Init PROVE IInv
  OBVIOUS
<1>1. TypeOK
  <2>1. configured \in BOOLEAN /\ watching \in BOOLEAN /\ up \in BOOLEAN
    BY DEF Init
  <2>2. reading \in [level : -1 .. MaxAge, age : 0 .. (Stale + 1)]
    BY Bounds DEF Init, NoReading
  <2>3. place \in [Record -> Place] /\ fate \in [Record -> Fate]
    BY DEF Init, Place, Fate
  <2>4. age \in [Record -> 0 .. Horizon] /\ restarts \in 0 .. MaxRestarts
    BY Bounds DEF Init
  <2> QED
    BY <2>1, <2>2, <2>3, <2>4 DEF Init, TypeOK
<1>2. Stream = {} /\ ~ Known /\ FateTellsPlace
  BY DEF Init, Stream, Known, FateTellsPlace
<1> QED
  BY <1>1, <1>2 DEF Init, IInv, BoundsTheStream, AboutAMessage

(* A step that leaves the ages and the reading alone, takes no stored      *)
(* record out of the stream's past and puts none into the stream keeps     *)
(* what the reading is worth.                                              *)
LEMMA ReadingStands ==
  ASSUME IInv, UNCHANGED <<age, reading>>,
         \A r \in Record : place'[r] = "stream" => place[r] = "stream",
         \A r \in Record : Stored(r) => Stored(r)'
  PROVE  /\ \A r \in Stream' : age'[r] <= MaxAge
         /\ reading' = NoReading \/ reading'.level \in Nat
         /\ BoundsTheStream' /\ AboutAMessage'
<1>1. Stream' \subseteq Stream /\ Known' = Known
  BY DEF Stream, Known
<1>2. (\A r \in Stream' : age'[r] <= MaxAge) /\ BoundsTheStream'
  BY <1>1 DEF IInv, BoundsTheStream
<1>3. AboutAMessage'
  BY <1>1 DEF IInv, AboutAMessage
<1> QED
  BY <1>2, <1>3 DEF IInv

LEMMA OfferIInv ==
  ASSUME IInv, NEW r \in Record, Offer(r)
  PROVE  IInv'
<1>1. TypeOK'
  BY Bounds DEF Offer, IInv, TypeOK, Place, Fate
<1>2. /\ UNCHANGED <<age, reading>>
      /\ \A s \in Record : place'[s] = "stream" => place[s] = "stream"
      /\ \A s \in Record : Stored(s) => Stored(s)'
  <2>1. ASSUME NEW s \in Record, Stored(s) PROVE Stored(s)'
    <3>1. place[r] = "nowhere" /\ s # r
      BY <2>1 DEF Offer, IInv, FateTellsPlace, Stored
    <3> QED
      BY <2>1, <3>1 DEF Offer, IInv, TypeOK, Stored
  <2> QED
    BY <2>1 DEF Offer, IInv, TypeOK
<1>3. FateTellsPlace'
  BY <1>2 DEF Offer, IInv, TypeOK, FateTellsPlace, Stored
<1> QED
  BY <1>1, <1>2, <1>3, ReadingStands DEF IInv

(* What is stored is new: no reading is contradicted, and the message the  *)
(* reading is about is another one.                                        *)
LEMMA StoreIInv ==
  ASSUME IInv, NEW r \in Record, Store(r)
  PROVE  IInv'
<1>1. place[r] = "client" /\ ~ Stored(r)
  BY DEF Store, Stored
<1>2. /\ place'[r] = "stream" /\ age'[r] = 0 /\ UNCHANGED <<fate, reading>>
      /\ \A s \in Record \ {r} :
           /\ age'[s] = age[s]
           /\ place'[s] = place[s] \/ (place[s] = "stream" /\ place'[s] = "gone")
  BY <1>1 DEF Store, Stream, IInv, TypeOK
<1>3. TypeOK'
  BY <1>1, Bounds DEF Store, Stream, IInv, TypeOK, Place
<1>4. /\ \A s \in Record : Stored(s) => s # r /\ Stored(s)' /\ age'[s] = age[s]
      /\ \A s \in Stream' : s = r \/ (s \in Stream /\ age'[s] = age[s])
  BY <1>1, <1>2 DEF Stored, Stream
<1>5. FateTellsPlace'
  BY <1>1, <1>2, <1>4 DEF IInv, FateTellsPlace
<1>6. \A s \in Stream' : age'[s] <= MaxAge
  BY <1>2, <1>4, Bounds DEF IInv
<1>7. Known' = Known /\ (Known => reading.level \in Nat /\ reading.age \in Nat)
  BY <1>2 DEF Known, IInv, TypeOK
<1>8. BoundsTheStream'
  BY <1>2, <1>4, <1>7 DEF IInv, BoundsTheStream
<1>9. AboutAMessage'
  BY <1>2, <1>4, <1>7 DEF IInv, AboutAMessage
<1> QED
  BY <1>2, <1>3, <1>5, <1>6, <1>8, <1>9 DEF IInv

LEMMA AcknowledgedIInv ==
  ASSUME IInv, NEW r \in Record, Acknowledged(r)
  PROVE  IInv'
<1>1. TypeOK'
  BY DEF Acknowledged, IInv, TypeOK, Fate
<1>2. UNCHANGED <<age, reading, place>>
  BY DEF Acknowledged
<1>3. FateTellsPlace'
  BY <1>2 DEF Acknowledged, IInv, TypeOK, FateTellsPlace, Stored
<1> QED
  BY <1>1, <1>2, <1>3, ReadingStands DEF IInv, Stored

LEMMA DeadlineIInv ==
  ASSUME IInv, NEW r \in Record, Deadline(r)
  PROVE  IInv'
<1>1. TypeOK'
  BY DEF Deadline, IInv, TypeOK, Fate
<1>2. UNCHANGED <<age, reading, place>>
  BY DEF Deadline
<1>3. FateTellsPlace'
  BY <1>2 DEF Deadline, IInv, TypeOK, FateTellsPlace, Stored
<1> QED
  BY <1>1, <1>2, <1>3, ReadingStands DEF IInv, Stored

LEMMA FailsIInv ==
  ASSUME IInv, NEW r \in Record, Fails(r)
  PROVE  IInv'
<1>1. TypeOK'
  BY DEF Fails, IInv, TypeOK, Fate, Place
<1>2. /\ UNCHANGED <<age, reading>>
      /\ \A s \in Record : place'[s] = "stream" => place[s] = "stream"
      /\ \A s \in Record : Stored(s) => Stored(s)'
  BY DEF Fails, IInv, TypeOK, Stored
<1>3. FateTellsPlace'
  BY <1>2 DEF Fails, IInv, TypeOK, FateTellsPlace
<1> QED
  BY <1>1, <1>2, <1>3, ReadingStands DEF IInv

(* A poll starts from what the stream holds. *)
LEMMA PollIInv ==
  ASSUME IInv, Poll
  PROVE  IInv'
<1>1. /\ OldestAge \in 0 .. MaxAge
      /\ \A r \in Stream : age[r] <= OldestAge
      /\ OldestAge > 0 => \E m \in Stream : age[m] = OldestAge
  BY OldestOfTheStream DEF IInv
<1>2. /\ reading' = [level |-> OldestAge, age |-> 0]
      /\ UNCHANGED <<configured, watching, up, place, age, archived, fate, restarts>>
  BY DEF Poll
<1>3. reading'.level = OldestAge /\ reading'.age = 0 /\ Stream' = Stream
  BY <1>2 DEF Stream
<1>4. \A r \in Stream : r \in Record /\ Stored(r) /\ age[r] \in Nat
  BY Bounds DEF Stream, Stored, IInv, TypeOK
<1>5. TypeOK'
  BY <1>1, <1>2, Bounds DEF IInv, TypeOK
<1>6. FateTellsPlace'
  BY <1>2 DEF IInv, FateTellsPlace, Stored
<1>7. BoundsTheStream'
  BY <1>1, <1>2, <1>3, <1>4 DEF BoundsTheStream
<1>8. AboutAMessage'
  <2> SUFFICES ASSUME reading'.level > 0
               PROVE  \E m \in Record : Stored(m)' /\ age'[m] = reading'.level + reading'.age
    BY DEF AboutAMessage
  <2>1. PICK m \in Stream : age[m] = OldestAge
    BY <1>1, <1>3
  <2> QED
    BY <1>2, <1>3, <1>4, <2>1 DEF Stored
<1> QED
  BY <1>1, <1>2, <1>3, <1>5, <1>6, <1>7, <1>8 DEF IInv

(* Time moves every stored record and the reading by the same tick, as     *)
(* long as the reading is usable: Horizon is beyond both.                  *)
LEMMA TickIInv ==
  ASSUME IInv, Tick
  PROVE  IInv'
<1>1. /\ UNCHANGED <<configured, watching, up, archived, fate, restarts>>
      /\ \A r \in Record :
           /\ age[r] \in 0 .. Horizon /\ age'[r] \in 0 .. Horizon
           /\ Stored(r) /\ age[r] < Horizon => age'[r] = age[r] + 1
           /\ r \in Stream /\ age[r] >= MaxAge => place'[r] = "gone"
           /\ ~ (r \in Stream /\ age[r] >= MaxAge) => place'[r] = place[r]
  BY Bounds DEF Tick, IInv, TypeOK
<1>2. TypeOK'
  <2>1. age' \in [Record -> 0 .. Horizon]
    BY Bounds DEF Tick, IInv, TypeOK
  <2>2. place' \in [Record -> Place]
    BY DEF Tick, IInv, TypeOK, Place
  <2>3. reading' \in [level : -1 .. MaxAge, age : 0 .. (Stale + 1)]
    BY Bounds DEF Tick, IInv, TypeOK
  <2> QED
    BY <1>1, <2>1, <2>2, <2>3 DEF IInv, TypeOK
<1>3. \A r \in Record : Stored(r) => Stored(r)'
  BY <1>1 DEF Stored, Stream
<1>4. \A r \in Stream' : r \in Stream /\ age[r] < MaxAge /\ age'[r] = age[r] + 1
  BY <1>1, Bounds DEF Stream, Stored
<1>5. \A r \in Stream' : age'[r] <= MaxAge
  BY <1>1, <1>4, Bounds DEF Stream
<1>6. FateTellsPlace'
  BY <1>1, <1>3 DEF IInv, FateTellsPlace, Stream
<1>7. reading' = NoReading \/ reading'.level \in Nat
  BY DEF Tick, IInv, TypeOK
<1>8. ASSUME Known'
      PROVE  /\ Known
             /\ reading.level \in 0 .. MaxAge /\ reading.age \in Nat
             /\ reading.age < Stale
             /\ reading'.level = reading.level /\ reading'.age = reading.age + 1
  <2>1. reading # NoReading
    BY <1>8 DEF Known, Tick
  <2>2. reading \in [level : -1 .. MaxAge, age : 0 .. (Stale + 1)] /\ reading.level \in Nat
    BY <2>1 DEF IInv, TypeOK
  <2>3. reading.age <= Stale
    BY <1>8, <2>1, <2>2, Bounds DEF Known, Tick
  <2>4. reading' = [reading EXCEPT !.age = @ + 1]
    BY <2>1, <2>2, <2>3, Bounds DEF Tick
  <2>5. reading'.level = reading.level /\ reading'.age = reading.age + 1
    BY <2>2, <2>4
  <2>6. reading.level \in 0 .. MaxAge /\ reading.age \in Nat
    BY <2>2, Bounds
  <2>7. reading.age < Stale
    BY <1>8, <2>5, <2>6, Bounds DEF Known
  <2> QED
    BY <2>1, <2>3, <2>5, <2>6, <2>7 DEF Known
<1>9. BoundsTheStream'
  <2> SUFFICES ASSUME Known', NEW r \in Stream'
               PROVE  age'[r] <= reading'.level + reading'.age
    BY DEF BoundsTheStream
  <2>1. age[r] <= reading.level + reading.age
    BY <1>4, <1>8 DEF IInv, BoundsTheStream
  <2>2. age[r] \in Nat
    BY <1>1, <1>4, Bounds DEF Stream
  <2> QED
    BY <1>4, <1>8, <2>1, <2>2
<1>10. AboutAMessage'
  <2> SUFFICES ASSUME Known', reading'.level > 0
               PROVE  \E m \in Record : Stored(m)' /\ age'[m] = reading'.level + reading'.age
    BY DEF AboutAMessage
  <2>1. PICK m \in Record : Stored(m) /\ age[m] = reading.level + reading.age
    BY <1>8 DEF IInv, AboutAMessage
  <2>2. age[m] < Horizon
    BY <1>8, <2>1, Bounds
  <2>3. age'[m] = reading'.level + reading'.age
    BY <1>1, <1>8, <2>1, <2>2
  <2> QED
    BY <1>3, <2>1, <2>3
<1> QED
  BY <1>2, <1>5, <1>6, <1>7, <1>9, <1>10 DEF IInv

LEMMA RestartIInv ==
  ASSUME IInv, Restart
  PROVE  IInv'
<1>1. TypeOK'
  <2>1. place' \in [Record -> Place] /\ fate' \in [Record -> Fate]
    BY DEF Restart, IInv, TypeOK, Place, Fate
  <2>2. reading' \in [level : -1 .. MaxAge, age : 0 .. (Stale + 1)]
    BY Bounds DEF Restart, NoReading
  <2>3. restarts' \in 0 .. MaxRestarts
    BY Bounds DEF Restart, IInv, TypeOK
  <2> QED
    BY <2>1, <2>2, <2>3 DEF Restart, IInv, TypeOK
<1>2. \A r \in Record : place'[r] = "stream" => place[r] = "stream"
  BY DEF Restart
<1>3. \A r \in Stream' : age'[r] <= MaxAge
  BY <1>2 DEF Restart, Stream, IInv
<1>4. reading' = NoReading /\ ~ Known'
  BY DEF Restart, Known
<1>5. FateTellsPlace'
  BY DEF Restart, IInv, FateTellsPlace, Stored
<1> QED
  BY <1>1, <1>3, <1>4, <1>5 DEF IInv, BoundsTheStream, AboutAMessage

LEMMA NextIInv == IInv /\ [Next]_vars => IInv'
<1> SUFFICES ASSUME IInv, [Next]_vars PROVE IInv'
  OBVIOUS
<1>1. ASSUME NEW r \in Record, Offer(r) PROVE IInv'
  BY <1>1, OfferIInv
<1>2. ASSUME NEW r \in Record, Store(r) PROVE IInv'
  BY <1>2, StoreIInv
<1>3. ASSUME NEW r \in Record, Acknowledged(r) PROVE IInv'
  BY <1>3, AcknowledgedIInv
<1>4. ASSUME NEW r \in Record, Deadline(r) PROVE IInv'
  BY <1>4, DeadlineIInv
<1>5. ASSUME NEW r \in Record, Fails(r) PROVE IInv'
  BY <1>5, FailsIInv
<1>6. ASSUME NEW r \in Record, ArchiveReads(r) PROVE IInv'
  <2>1. TypeOK' /\ UNCHANGED <<age, reading, place, fate>>
    BY <1>6 DEF ArchiveReads, Unread, Stream, IInv, TypeOK
  <2>2. FateTellsPlace'
    BY <2>1 DEF IInv, FateTellsPlace, Stored
  <2> QED
    BY <2>1, <2>2, ReadingStands DEF IInv, Stored
<1>7. ASSUME Link \/ UNCHANGED vars PROVE IInv'
  <2>1. TypeOK' /\ UNCHANGED <<age, reading, place, fate>>
    BY <1>7 DEF Link, vars, IInv, TypeOK
  <2>2. FateTellsPlace'
    BY <2>1 DEF IInv, FateTellsPlace, Stored
  <2> QED
    BY <2>1, <2>2, ReadingStands DEF IInv, Stored
<1>8. ASSUME Poll PROVE IInv'
  BY <1>8, PollIInv
<1>9. ASSUME Tick PROVE IInv'
  BY <1>9, TickIInv
<1>10. ASSUME Restart PROVE IInv'
  BY <1>10, RestartIInv
<1> QED
  BY <1>1, <1>2, <1>3, <1>4, <1>5, <1>6, <1>7, <1>8, <1>9, <1>10 DEF Next
(* The ages, the counters and the reading, together. *)
THEOREM Invariance == Spec => []IInv
BY InitIInv, NextIInv, PTL DEF Spec

(* Every variable keeps its type; a reading never exceeds the age limit.   *)
THEOREM TypeCorrect == Spec => []TypeOK
<1>1. IInv => TypeOK
  BY DEF IInv
<1> QED
  BY <1>1, Invariance, PTL

(* RecordOutcome never answers 202 for a label, and archiveBestEffort      *)
(* never counts as written an event, that did not reach the stream.        *)
THEOREM CountedIsStored == Spec => []AcceptedIsStored
<1>1. IInv => AcceptedIsStored
  BY DEF IInv, FateTellsPlace, AcceptedIsStored
<1> QED
  BY <1>1, Invariance, PTL

(* Level never says less than the age of the oldest unread message: what   *)
(* was published, lost or read since the last poll only makes it less      *)
(* (archivepressure.Observe, Stats.OldestAge).                             *)
THEOREM PressureBoundsTheBacklog == Spec => []PressureIsAnUpperBound
<1>1. IInv => PressureIsAnUpperBound
  BY DEF IInv, BoundsTheStream, PressureIsAnUpperBound, Unread
<1> QED
  BY <1>1, Invariance, PTL

(* Where a reading is usable for at most a fifth of the retention window,  *)
(* which is what four fifths leave, no unread message reaches the age      *)
(* limit while a usable reading says that there is room.                   *)
THEOREM AgeOutIsForeseen ==
  ASSUME 5 * Stale <= MaxAge
  PROVE  Spec => AgeOutForeseen
<1> DEFINE Foreseen == (\E r \in Unread : place'[r] = "gone" /\ age'[r] # age[r])
                         => Pressed \/ ~ Known
<1>1. ASSUME IInv, Next PROVE Foreseen
  <2> SUFFICES ASSUME NEW r \in Unread, place'[r] = "gone", age'[r] # age[r], Known
               PROVE  Pressed
    OBVIOUS
  <2>1. r \in Record /\ r \in Stream /\ place[r] = "stream"
    BY DEF Unread, Stream
  <2>2. CASE Tick
    <3>1. age[r] >= MaxAge
      BY <2>1, <2>2 DEF Tick
    <3>2. age[r] <= reading.level + reading.age
      BY <1>1, <2>1 DEF IInv, BoundsTheStream
    <3>3. age[r] \in Nat /\ reading.level \in Nat /\ reading.age \in Nat
      BY <1>1, <2>1, Bounds DEF IInv, TypeOK, Known
    <3>4. reading.age <= Stale
      BY DEF Known
    <3> QED
      BY <3>1, <3>2, <3>3, <3>4, Bounds DEF Pressed
  <2>3. CASE ~ Tick
    <3>1. ASSUME NEW s \in Record, Store(s) PROVE FALSE
      <4>1. age' = [age EXCEPT ![s] = 0] /\ place[s] = "client"
        BY <3>1 DEF Store
      <4>2. s # r
        BY <2>1, <4>1
      <4> QED
        BY <1>1, <2>1, <4>1, <4>2 DEF IInv, TypeOK
    <3>2. UNCHANGED age
      BY <1>1, <2>3, <3>1 DEF Next, Offer, Acknowledged, Deadline, Fails, ArchiveReads, Link,
                              Poll, Restart
    <3> QED
      BY <3>2
  <2> QED
    BY <2>2, <2>3
<1>2. ASSUME UNCHANGED vars PROVE [Foreseen]_vars
  BY <1>2
<1>3. IInv /\ [Next]_vars => [Foreseen]_vars
  BY <1>1, <1>2
<1> QED
  BY <1>3, Invariance, PTL DEF Spec, AgeOutForeseen

(* A record is shed on evidence no older than the reading may be: some     *)
(* message was past the threshold when it was polled, and if it has left   *)
(* since, the time a reading stays usable has not passed (Stale).          *)
THEOREM SheddingHasEvidence == Spec => ShedOnEvidence
<1> DEFINE Witnessed == \A r \in Record : fate'[r] = "shed" /\ fate[r] # "shed" =>
                          \E m \in Record : /\ Stored(m)
                                            /\ 5 * age[m] >= 4 * MaxAge
                                            /\ place[m] = "gone" => age[m] <= MaxAge + Stale
<1>1. ASSUME IInv, Next PROVE Witnessed
  <2> SUFFICES ASSUME NEW r \in Record, fate'[r] = "shed", fate[r] # "shed"
               PROVE  \E m \in Record : /\ Stored(m)
                                        /\ 5 * age[m] >= 4 * MaxAge
                                        /\ place[m] = "gone" => age[m] <= MaxAge + Stale
    OBVIOUS
  <2>1. ASSUME NEW s \in Record, Offer(s) PROVE Pressed
    BY <1>1, <2>1 DEF Offer, IInv, TypeOK
  <2>2. ASSUME NEW s \in Record, Acknowledged(s) \/ Deadline(s) \/ Fails(s) PROVE FALSE
    BY <1>1, <2>2 DEF Acknowledged, Deadline, Fails, IInv, TypeOK
  <2>3. ASSUME Restart PROVE FALSE
    BY <2>3 DEF Restart
  <2>4. CASE UNCHANGED fate
    BY <2>4
  <2>5. Pressed
    BY <1>1, <2>1, <2>2, <2>3, <2>4 DEF Next, Store, ArchiveReads, Link, Poll, Tick
  <2>6. /\ Known /\ 5 * reading.level >= 4 * MaxAge
        /\ reading.level \in 0 .. MaxAge /\ reading.age \in 0 .. Stale
    BY <1>1, <2>5, Bounds DEF Pressed, Known, IInv, TypeOK
  <2>7. PICK m \in Record : Stored(m) /\ age[m] = reading.level + reading.age
    BY <1>1, <2>6, Bounds DEF IInv, AboutAMessage
  <2> QED
    BY <2>6, <2>7, Bounds
<1>2. ASSUME UNCHANGED vars PROVE [Witnessed]_vars
  BY <1>2
<1>3. IInv /\ [Next]_vars => [Witnessed]_vars
  BY <1>1, <1>2
<1> QED
  BY <1>3, Invariance, PTL DEF Spec, ShedOnEvidence
=============================================================================

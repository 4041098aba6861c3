---------------------------- MODULE LoadGenProofs ----------------------------
(***************************************************************************)
(* Proofs about LoadGen for any schedule, any number of workers, any       *)
(* server and any length of run: a stall shows in the report, and a run    *)
(* that main accepts kept its schedule.                                    *)
(***************************************************************************)
EXTENDS LoadGen, FiniteSetTheorems, WellFoundedInduction, TLAPS

-----------------------------------------------------------------------------
Stages == {"none", "spawned", "calling", "done"}

Entry == [intended : Nat, started : Nat, ended : Nat, status : Statuses, issued : BOOLEAN]

TypeOK ==
  /\ now \in Nat
  /\ pc \in {"schedule", "slot", "returned", "reported"}
  /\ next \in 0 .. Total
  /\ at \in [Arrivals -> Stages]
  /\ results \in [Arrivals -> Entry]
  /\ returned \in 0 .. Total
  /\ cancelled \in BOOLEAN

(* Run takes the arrivals in order and none before its time. *)
InOrder ==
  /\ \A i \in Arrivals : at[i] # "none" => i < next
  /\ pc = "slot" => next < Total /\ Due(next) <= now

(* An entry's clock starts when the schedule says and stops no earlier.    *)
OnSchedule ==
  \A i \in Arrivals :
    /\ at[i] # "none" => results[i].intended = Due(i) /\ Due(i) <= now
    /\ at[i] = "done" => results[i].issued /\ Due(i) <= results[i].ended

(* A run that was not cancelled returns when everything is done, and is    *)
(* reported in full.                                                       *)
Complete ==
  /\ pc \in {"returned", "reported"} /\ ~ cancelled =>
       returned = Total /\ \A i \in Arrivals : at[i] = "done"
  /\ pc = "reported" /\ ~ cancelled => report.of = Arrivals

IInv == TypeOK /\ InOrder /\ OnSchedule /\ Complete

-----------------------------------------------------------------------------
LEMMA DueNat ==
  ASSUME NEW i \in Nat
  PROVE  Due(i) \in Nat
BY LoadGenAssumption DEF Due

LEMMA Constants ==
  /\ Total \in Nat /\ 0 < Total /\ Arrivals = 0 .. Total - 1
  /\ \A i \in Arrivals : i \in Nat /\ i < Total
BY LoadGenAssumption DEF Arrivals

LEMMA EntryUpdates ==
  ASSUME NEW r \in Entry, NEW t \in Nat, NEW status \in Statuses
  PROVE  /\ [r EXCEPT !.intended = t] \in Entry
         /\ [r EXCEPT !.started = t] \in Entry
         /\ [r EXCEPT !.ended = t, !.status = status, !.issued = TRUE] \in Entry
BY DEF Entry

LEMMA InitIInv == Init => IInv
<1> SUFFICES ASSUME Init PROVE IInv
  OBVIOUS
<1>1. Unissued \in Entry
  BY LoadGenAssumption DEF Unissued, Entry
<1>2. TypeOK
  <2>1. results \in [Arrivals -> Entry] /\ at \in [Arrivals -> Stages]
    BY <1>1 DEF Init, Stages
  <2>2. now \in Nat /\ next \in 0 .. Total /\ returned \in 0 .. Total
    BY Constants DEF Init
  <2> QED
    BY <2>1, <2>2 DEF Init, TypeOK
<1> QED
  BY <1>2 DEF Init, IInv, InOrder, OnSchedule, Complete

LEMMA StepIInv ==
  ASSUME IInv, [Next]_vars
  PROVE  IInv'
<1> USE Constants DEF IInv, TypeOK, InOrder, OnSchedule, Complete, Stages, run, task
<1>1. CASE Arrive
  BY <1>1 DEF Arrive
<1>2. CASE TakeSlot
  <2>1. next \in Arrivals /\ Due(next) \in Nat /\ Due(next) <= now
    BY <1>2, DueNat DEF TakeSlot
  <2>2. results' \in [Arrivals -> Entry]
    <3>1. results' = [results EXCEPT ![next] = [results[next] EXCEPT !.intended = Due(next)]]
      BY <1>2 DEF TakeSlot
    <3>2. results[next] \in Entry
      BY <2>1
    <3>3. [results[next] EXCEPT !.intended = Due(next)] \in Entry
      BY <2>1, <3>2, EntryUpdates, LoadGenAssumption
    <3> QED
      BY <3>1, <3>3
  <2>3. \A i \in Arrivals :
          /\ i # next => results'[i] = results[i] /\ at'[i] = at[i]
          /\ results'[i].ended = results[i].ended /\ results'[i].issued = results[i].issued
    BY <1>2, <2>1 DEF TakeSlot, Entry
  <2>4. results'[next].intended = Due(next) /\ at'[next] = "spawned"
    BY <1>2, <2>1 DEF TakeSlot, Entry
  <2>5. /\ at' \in [Arrivals -> Stages] /\ next' = next + 1 /\ pc' = "schedule"
        /\ now' = now /\ returned' = returned /\ cancelled' = cancelled
    BY <1>2, <2>1 DEF TakeSlot
  <2>6. TypeOK'
    BY <2>1, <2>2, <2>5
  <2>7. \A i \in Arrivals : at'[i] # "none" => i < next'
    <3>1. ASSUME NEW i \in Arrivals, at'[i] # "none"  PROVE i <= next
      BY <2>1, <2>3, <3>1
    <3> QED
      BY <2>1, <2>5, <3>1
  <2>8. OnSchedule'
    <3>1. ASSUME NEW i \in Arrivals, i # next
          PROVE  /\ at'[i] # "none" => results'[i].intended = Due(i) /\ Due(i) <= now'
                 /\ at'[i] = "done" => results'[i].issued /\ Due(i) <= results'[i].ended
      BY <2>3, <2>5, <3>1
    <3> QED
      BY <2>1, <2>4, <2>5, <3>1
  <2> QED
    BY <2>5, <2>6, <2>7, <2>8
<1>3. CASE Abandon
  BY <1>3 DEF Abandon
<1>4. CASE Join
  BY <1>4 DEF Join
<1>5. CASE Summarise
  <2>1. ~ cancelled => Seen = Arrivals
    BY <1>5 DEF Summarise, Seen
  <2>2. report'.of = Seen
    BY <1>5 DEF Summarise, Summary
  <2> QED
    BY <1>5, <2>1, <2>2 DEF Summarise
<1>6. CASE Tick
  <2>1. \A i \in Arrivals : Due(i) \in Nat
    BY DueNat
  <2>2. pc = "slot" => Due(next) \in Nat
    BY DueNat
  <2>3. now' \in Nat /\ \A t \in Nat : t <= now => t <= now'
    BY <1>6 DEF Tick
  <2>4. /\ pc' = pc /\ next' = next /\ returned' = returned /\ report' = report
        /\ at' = at /\ results' = results /\ cancelled' = cancelled
    BY <1>6 DEF Tick
  <2>5. TypeOK'
    BY <2>3, <2>4
  <2> QED
    BY <2>1, <2>2, <2>3, <2>4, <2>5
<1>7. CASE Cancel
  BY <1>7 DEF Cancel
<1>8. CASE Reported \/ UNCHANGED vars
  BY <1>8 DEF Reported, vars
<1>9. ASSUME NEW i \in Arrivals, pc # "reported", Task(i)
      PROVE  IInv'
  <2>0. pc' = pc /\ next' = next /\ returned' = returned /\ now' = now
        /\ cancelled' = cancelled /\ report' = report
    BY <1>9 DEF Task, Begin, Opened, Finish
  <2>2. CASE Begin(i)
    <3>1. results' \in [Arrivals -> Entry]
      <4>1. results' = [results EXCEPT ![i] = [results[i] EXCEPT !.started = now]]
        BY <2>2 DEF Begin
      <4>2. results[i] \in Entry
        OBVIOUS
      <4>3. [results[i] EXCEPT !.started = now] \in Entry
        BY <4>2, EntryUpdates, LoadGenAssumption
      <4> QED
        BY <4>1, <4>3
    <3>2. \A j \in Arrivals :
            /\ results'[j].intended = results[j].intended
            /\ results'[j].ended = results[j].ended
            /\ results'[j].issued = results[j].issued
      BY <1>9, <2>2 DEF Begin, Entry
    <3> QED
      BY <1>9, <2>0, <2>2, <3>1, <3>2 DEF Begin
  <2>3. CASE Opened(i)
    BY <1>9, <2>0, <2>3 DEF Opened
  <2>4. ASSUME NEW status \in Statuses, Finish(i, status)
        PROVE  IInv'
    <3>1. results' \in [Arrivals -> Entry]
      <4>1. results' = [results EXCEPT ![i] =
                [results[i] EXCEPT !.ended = now, !.status = status, !.issued = TRUE]]
        BY <2>4 DEF Finish
      <4>2. results[i] \in Entry
        OBVIOUS
      <4>3. [results[i] EXCEPT !.ended = now, !.status = status, !.issued = TRUE] \in Entry
        BY <4>2, EntryUpdates
      <4> QED
        BY <4>1, <4>3
    <3>2. /\ \A j \in Arrivals : j # i => results'[j] = results[j] /\ at'[j] = at[j]
          /\ results'[i].intended = results[i].intended
          /\ results'[i].ended = now /\ results'[i].issued
          /\ at' \in [Arrivals -> Stages] /\ at'[i] = "done" /\ at[i] = "calling"
      BY <1>9, <2>4 DEF Finish, Entry
    <3> QED
      BY <1>9, <2>0, <3>1, <3>2, DueNat
  <2> QED
    BY <1>9, <2>2, <2>3, <2>4 DEF Task
<1> QED
  BY <1>1, <1>2, <1>3, <1>4, <1>5, <1>6, <1>7, <1>8, <1>9 DEF Next, Driver

LEMMA IInvInvariant == Spec => []IInv
BY InitIInv, StepIInv, PTL DEF Spec

-----------------------------------------------------------------------------
(* The guarantee the package is named for, for every schedule and every    *)
(* server: a stall between any two moments is in the figures of every      *)
(* arrival that was due in it, whether it waited for a worker, for its     *)
(* goroutine or for an answer (loadgen.go 1-41, 66-71, 157-171).           *)
THEOREM NoCoordinatedOmission == Spec => []StallsShow
<1>1. IInv => StallsShow
  <2> SUFFICES ASSUME IInv, pc = "reported", ~ cancelled,
                      NEW a \in 0 .. MaxTime, NEW b \in 0 .. MaxTime,
                      \A i \in report.of : ~ (a < results[i].ended /\ results[i].ended < b),
                      NEW i \in Arrivals, a < Due(i), Due(i) < b
               PROVE  i \in report.of /\ Response(results[i]) >= b - Due(i)
    BY DEF StallsShow
  <2>1. i \in report.of /\ at[i] = "done"
    BY DEF IInv, Complete
  <2>2. /\ results[i].intended = Due(i) /\ Due(i) <= results[i].ended
        /\ results[i].ended \in Nat /\ Due(i) \in Nat
    BY <2>1, DueNat, Constants DEF IInv, TypeOK, OnSchedule, Entry
  <2>3. a \in Int /\ b \in Int
    BY LoadGenAssumption
  <2> QED
    BY <2>1, <2>2, <2>3 DEF Response
<1> QED
  BY <1>1, IInvInvariant, PTL

-----------------------------------------------------------------------------
(* The percentile.                                                         *)

LEMMA LeastNatural ==
  ASSUME NEW S \in SUBSET Nat, S # {}
  PROVE  \E m \in S : \A k \in S : m <= k
<1>1. PICK m \in S : \A k \in S : ~ (<<k, m>> \in OpToRel(<, Nat))
  BY NatLessThanWellFounded, WFMin
<1>2. \A k \in S : ~ (k < m)
  BY <1>1 DEF OpToRel
<1> QED
  BY <1>2

(* A rank of n is one of 1 .. n, and P percent of n lie within it. *)
LEMMA RankType ==
  ASSUME NEW n \in Nat, n > 0
  PROVE  Rank(n) \in 1 .. n /\ 100 * Rank(n) >= P * n
<1> DEFINE m == P * n
<1>1. P \in Nat /\ 1 <= P /\ P <= 100
  BY LoadGenAssumption
<1>2. m \in Nat /\ 1 <= m /\ m <= 100 * n
  <2>1. \A a, b \in Nat : 1 <= a /\ 1 <= b => 1 <= a * b
    OBVIOUS
  <2>2. \A a, b \in Nat : a <= 100 => a * b <= 100 * b
    OBVIOUS
  <2>3. \A a, b \in Nat : a * b \in Nat
    OBVIOUS
  <2> QED
    BY <1>1, <2>1, <2>2, <2>3
<1> HIDE DEF m
<1>3. Rank(n) = (m + 99) \div 100
  BY DEF Rank, m
<1>4. (m + 99) \div 100 \in 1 .. n /\ 100 * ((m + 99) \div 100) >= m
  BY <1>2
<1> QED
  BY <1>3, <1>4 DEF m

(* Where a bounded function first reaches a rank is one of its values: the *)
(* nearest-rank percentile exists, and is what it is defined to be.        *)
LEMMA PctIsRanked ==
  ASSUME NEW D, IsFiniteSet(D), D # {}, NEW bound \in Nat, NEW f \in [D -> 0 .. bound]
  PROVE  /\ Pct(f) \in Nat
         /\ Cardinality({i \in D : f[i] <= Pct(f)}) >= Rank(Cardinality(D))
         /\ Cardinality({i \in D : f[i] < Pct(f)}) < Rank(Cardinality(D))
<1> DEFINE UpTo(t) == {i \in D : f[i] <= t}
           Under(t) == {i \in D : f[i] < t}
           rank == Rank(Cardinality(D))
           Reached == {t \in Nat : Cardinality(UpTo(t)) >= rank}
           Ranked(v) == Cardinality(UpTo(v)) >= rank /\ Cardinality(Under(v)) < rank
<1>1. Cardinality(D) \in Nat /\ Cardinality(D) > 0
  BY FS_CardinalityType, FS_EmptySet
<1>2. rank \in 1 .. Cardinality(D)
  BY <1>1, RankType
<1>3. \A t : IsFiniteSet(UpTo(t)) /\ Cardinality(UpTo(t)) \in Nat
             /\ IsFiniteSet(Under(t)) /\ Cardinality(Under(t)) \in Nat
  BY FS_Subset, FS_CardinalityType
<1>4. bound \in Reached
  <2>1. UpTo(bound) = D
    OBVIOUS
  <2> HIDE DEF UpTo
  <2> QED
    BY <1>1, <1>2, <2>1
<1>5. PICK t \in Reached : \A s \in Reached : t <= s
  <2> HIDE DEF Reached
  <2>1. Reached \in SUBSET Nat
    BY DEF Reached
  <2> QED
    BY <1>4, <2>1, LeastNatural
<1>6. t \in Nat /\ Cardinality(UpTo(t)) >= rank
  BY <1>5
<1>7. Cardinality(Under(t)) < rank
  <2>1. CASE t = 0
    <3>1. Under(t) = {}
      BY <2>1
    <3> HIDE DEF Under, rank
    <3> QED
      BY <1>2, <3>1, FS_EmptySet
  <2>2. CASE t # 0
    <3>1. Under(t) = UpTo(t - 1)
      BY <1>6, <2>2
    <3>2. t - 1 \in Nat /\ t - 1 \notin Reached
      BY <1>5, <1>6, <2>2
    <3>3. ~ (Cardinality(UpTo(t - 1)) >= rank)
      BY <3>2
    <3> HIDE DEF Under, UpTo, rank
    <3> QED
      BY <1>2, <1>3, <3>1, <3>3
  <2> QED
    BY <2>1, <2>2
<1>8. t \in {f[i] : i \in D}
  <2>1. ASSUME \A i \in D : f[i] # t PROVE FALSE
    <3>1. UpTo(t) = Under(t)
      BY <1>6, <2>1
    <3> HIDE DEF Under, UpTo, rank
    <3> QED
      BY <1>2, <1>3, <1>6, <1>7, <3>1
  <2> QED
    BY <2>1
<1>9. DOMAIN f = D
  OBVIOUS
<1>10. Pct(f) = CHOOSE v \in {f[i] : i \in D} : Ranked(v)
  BY <1>9 DEF Pct
<1>11. Ranked(t)
  BY <1>6, <1>7
<1> HIDE DEF Ranked
<1>12. Pct(f) \in {f[i] : i \in D} /\ Ranked(Pct(f))
  BY <1>8, <1>10, <1>11
<1>13. \A v \in {f[i] : i \in D} : v \in Nat
  OBVIOUS
<1> QED
  BY <1>12, <1>13 DEF Ranked

(* What is nowhere below another has no smaller a percentile. *)
LEMMA PctMonotone ==
  ASSUME NEW D, IsFiniteSet(D), NEW bound \in Nat,
         NEW f \in [D -> 0 .. bound], NEW g \in [D -> 0 .. bound],
         \A i \in D : f[i] <= g[i]
  PROVE  Pct(g) >= Pct(f)
<1>1. CASE D = {}
  <2>1. DOMAIN f = {} /\ DOMAIN g = {}
    BY <1>1
  <2>2. Pct(f) = 0 /\ Pct(g) = 0
    BY <2>1 DEF Pct
  <2> QED
    BY <2>2
<1>2. CASE D # {}
  <2> DEFINE a == Pct(f)
             b == Pct(g)
             Below == {i \in D : f[i] < a}
             Within == {i \in D : g[i] <= b}
             rank == Rank(Cardinality(D))
  <2>1. a \in Nat /\ Cardinality(Below) < rank
    BY <1>2, PctIsRanked
  <2>2. b \in Nat /\ Cardinality(Within) >= rank
    BY <1>2, PctIsRanked
  <2>3. rank \in Nat
    BY <1>2, FS_CardinalityType, FS_EmptySet, RankType
  <2>4. ASSUME b < a PROVE FALSE
    <3> HIDE DEF a, b
    <3>1. Within \subseteq Below
      <4>1. ASSUME NEW i \in D, g[i] <= b PROVE f[i] < a
        <5>1. f[i] \in Nat /\ g[i] \in Nat /\ f[i] <= g[i]
          OBVIOUS
        <5> QED
          BY <2>1, <2>2, <2>4, <4>1, <5>1
      <4> QED
        BY <4>1
    <3>2. IsFiniteSet(Below)
      BY FS_Subset
    <3>3. Cardinality(Within) <= Cardinality(Below)
          /\ Cardinality(Within) \in Nat /\ Cardinality(Below) \in Nat
      <4> HIDE DEF Within, Below
      <4> QED
        BY <3>1, <3>2, FS_Subset, FS_CardinalityType
    <3> HIDE DEF Within, Below, rank
    <3> QED
      BY <2>1, <2>2, <2>3, <3>3
  <2> HIDE DEF a, b
  <2>5. b >= a
    BY <2>1, <2>2, <2>4
  <2> QED
    BY <2>5 DEF a, b
<1> QED
  BY <1>1, <1>2

-----------------------------------------------------------------------------
(* What the report says of a run.                                          *)

(* An entry is written once its goroutine is done, and its three instants  *)
(* come in order: intended, started, ended.                                *)
Clocks ==
  \A i \in Arrivals :
    /\ results[i].issued => at[i] = "done"
    /\ at[i] \in {"calling", "done"} =>
         results[i].intended <= results[i].started /\ results[i].started <= now
    /\ at[i] = "done" =>
         results[i].started <= results[i].ended /\ results[i].ended <= now

(* Nothing is written any more when the report has been made. *)
AsSummarised == pc = "reported" => report = Summary

LEMMA EntryFields ==
  ASSUME NEW r \in Entry
  PROVE  /\ r.intended \in Nat /\ r.started \in Nat /\ r.ended \in Nat
         /\ r.issued \in BOOLEAN
BY DEF Entry

LEMMA InitClocks == Init => Clocks
BY DEF Init, Clocks, Unissued

LEMMA StepClocks ==
  ASSUME IInv, Clocks, [Next]_vars
  PROVE  Clocks'
<1>0. /\ now \in Nat /\ \A i \in Arrivals : results[i] \in Entry
      /\ \A i \in Arrivals : /\ results[i].intended \in Nat /\ results[i].started \in Nat
                             /\ results[i].ended \in Nat
  BY EntryFields DEF IInv, TypeOK
<1>1. CASE TakeSlot
  <2>1. next \in Arrivals
    BY <1>1, Constants DEF TakeSlot, IInv, TypeOK, InOrder
  <2>2. at[next] = "none" /\ ~ results[next].issued
    BY <1>0, <2>1, Constants DEF IInv, TypeOK, InOrder, Clocks
  <2>3. /\ \A i \in Arrivals : i # next => results'[i] = results[i] /\ at'[i] = at[i]
        /\ results'[next].issued = results[next].issued
        /\ at'[next] = "spawned" /\ now' = now
    BY <1>0, <1>1, <2>1 DEF TakeSlot, IInv, TypeOK, Entry
  <2> QED
    BY <2>2, <2>3 DEF Clocks
<1>2. CASE Tick
  <2>1. now' \in Nat /\ now <= now' /\ at' = at /\ results' = results
    BY <1>0, <1>2 DEF Tick, task
  <2> QED
    BY <1>0, <2>1 DEF Clocks
<1>3. CASE Arrive \/ Abandon \/ Join \/ Summarise \/ Cancel \/ Reported \/ UNCHANGED vars
  <2>1. now' = now /\ at' = at /\ results' = results
    BY <1>3 DEF Arrive, Abandon, Join, Summarise, Cancel, Reported, vars, task, run
  <2> QED
    BY <2>1 DEF Clocks
<1>4. ASSUME NEW i \in Arrivals, Task(i)
      PROVE  Clocks'
  <2>1. CASE Begin(i)
    <3>1. /\ \A j \in Arrivals : j # i => results'[j] = results[j] /\ at'[j] = at[j]
          /\ results'[i].intended = results[i].intended /\ results'[i].started = now
          /\ results'[i].issued = results[i].issued
          /\ at[i] = "spawned" /\ at'[i] = "calling" /\ now' = now
      BY <1>0, <2>1 DEF Begin, IInv, TypeOK, Entry
    <3>2. results[i].intended <= now
      BY <3>1 DEF IInv, OnSchedule
    <3> QED
      BY <1>0, <3>1, <3>2 DEF Clocks
  <2>2. CASE Opened(i)
    BY <2>2 DEF Opened, Clocks
  <2>3. ASSUME NEW status \in Statuses, Finish(i, status)
        PROVE  Clocks'
    <3>1. /\ \A j \in Arrivals : j # i => results'[j] = results[j] /\ at'[j] = at[j]
          /\ results'[i].intended = results[i].intended
          /\ results'[i].started = results[i].started /\ results'[i].ended = now
          /\ at[i] = "calling" /\ at'[i] = "done" /\ now' = now
      BY <1>0, <2>3 DEF Finish, IInv, TypeOK, Entry
    <3> QED
      BY <1>0, <3>1 DEF Clocks
  <2> QED
    BY <1>4, <2>1, <2>2, <2>3 DEF Task
<1> QED
  BY <1>1, <1>2, <1>3, <1>4 DEF Next, Driver

LEMMA StepSummarised ==
  ASSUME AsSummarised, [Next]_vars
  PROVE  AsSummarised'
<1>1. ASSUME returned' = returned, results' = results
      PROVE  Summary' = Summary
  BY <1>1 DEF Summary, Seen
<1>2. CASE Summarise
  <2>1. returned' = returned /\ results' = results /\ report' = Summary
    BY <1>2 DEF Summarise, task
  <2> QED
    BY <1>1, <2>1 DEF AsSummarised
<1>3. CASE Arrive \/ TakeSlot \/ Abandon \/ Join
  BY <1>3 DEF Arrive, TakeSlot, Abandon, Join, AsSummarised
<1>4. CASE Tick \/ Cancel \/ (\E i \in Arrivals : pc # "reported" /\ Task(i))
  BY <1>4 DEF Tick, Cancel, Task, Begin, Opened, Finish, run, AsSummarised
<1>5. CASE Reported \/ UNCHANGED vars
  <2>1. pc' = pc /\ report' = report /\ returned' = returned /\ results' = results
    BY <1>5 DEF Reported, vars, run, task
  <2> QED
    BY <1>1, <2>1 DEF AsSummarised
<1> QED
  BY <1>2, <1>3, <1>4, <1>5 DEF Next, Driver

LEMMA ClocksInvariant == Spec => [](IInv /\ Clocks /\ AsSummarised)
<1>1. Init => AsSummarised
  BY DEF Init, AsSummarised
<1> QED
  BY <1>1, IInvInvariant, InitClocks, StepClocks, StepSummarised, PTL DEF Spec

(* The figures of the entries Summarise sees are those of finished calls.  *)
LEMMA SeenFigures ==
  ASSUME IInv, Clocks
  PROVE  /\ Seen \subseteq Arrivals /\ IsFiniteSet(Seen) /\ now \in Nat
         /\ \A i \in Seen : /\ Deficit(results[i]) \in 0 .. now
                            /\ Service(results[i]) \in 0 .. now
                            /\ Response(results[i]) \in 0 .. now
                            /\ Service(results[i]) <= Response(results[i])
<1>1. Seen \subseteq Arrivals
  <2>1. returned \in Nat /\ returned <= Total
    BY Constants DEF IInv, TypeOK
  <2> QED
    BY <2>1, Constants DEF Seen
<1>2. IsFiniteSet(Arrivals)
  BY FS_Interval, Constants
<1>3. now \in Nat
  BY DEF IInv, TypeOK
<1>4. ASSUME NEW i \in Seen
      PROVE  /\ Deficit(results[i]) \in 0 .. now
             /\ Service(results[i]) \in 0 .. now
             /\ Response(results[i]) \in 0 .. now
             /\ Service(results[i]) <= Response(results[i])
  <2>1. /\ results[i].intended \in Nat /\ results[i].started \in Nat
        /\ results[i].ended \in Nat
    BY <1>1, EntryFields DEF IInv, TypeOK
  <2>2. /\ results[i].intended <= results[i].started
        /\ results[i].started <= results[i].ended /\ results[i].ended <= now
    BY <1>1 DEF Clocks, Seen
  <2> QED
    BY <1>3, <2>1, <2>2 DEF Deficit, Service, Response
<1> QED
  BY <1>1, <1>2, <1>3, <1>4, FS_Subset

(* A percentile no greater than the limit leaves P percent within it. *)
LEMMA PctWithin ==
  ASSUME NEW D, IsFiniteSet(D), NEW bound \in Nat, NEW f \in [D -> 0 .. bound],
         Accepts(Pct(f))
  PROVE  100 * Cardinality({i \in D : f[i] <= MaxDeficit}) >= P * Cardinality(D)
<1> DEFINE Kept == {i \in D : f[i] <= MaxDeficit}
<1>1. CASE D = {}
  <2>1. Kept = {} /\ Cardinality(D) = 0
    BY <1>1, FS_EmptySet
  <2>2. Cardinality(Kept) = 0
    <3> HIDE DEF Kept
    <3> QED
      BY <2>1, FS_EmptySet
  <2>3. P * 0 = 0
    BY LoadGenAssumption
  <2> QED
    BY <2>1, <2>2, <2>3
<1>2. CASE D # {}
  <2> DEFINE v == Pct(f)
             Within == {i \in D : f[i] <= v}
  <2>1. v \in Nat /\ Cardinality(Within) >= Rank(Cardinality(D))
    BY <1>2, PctIsRanked
  <2>2. v <= MaxDeficit /\ MaxDeficit \in Nat
    BY LoadGenAssumption DEF Accepts
  <2>3. Cardinality(D) \in Nat /\ Cardinality(D) > 0
    BY <1>2, FS_CardinalityType, FS_EmptySet
  <2>4. Rank(Cardinality(D)) \in Nat /\ 100 * Rank(Cardinality(D)) >= P * Cardinality(D)
    BY <2>3, RankType
  <2> HIDE DEF v
  <2>5. Within \subseteq Kept
    BY <2>1, <2>2
  <2>6. IsFiniteSet(Kept)
    BY FS_Subset
  <2>7. /\ Cardinality(Within) <= Cardinality(Kept)
        /\ Cardinality(Within) \in Nat /\ Cardinality(Kept) \in Nat
    <3> HIDE DEF Within, Kept
    <3> QED
      BY <2>5, <2>6, FS_Subset, FS_CardinalityType
  <2>8. P * Cardinality(D) \in Nat
    <3>1. \A a, b \in Nat : a * b \in Nat
      OBVIOUS
    <3> QED
      BY <2>3, <3>1, LoadGenAssumption
  <2> HIDE DEF Within, Kept
  <2>9. 100 * Cardinality(Kept) >= P * Cardinality(D)
    <3> DEFINE k == Cardinality(Kept)
               w == Cardinality(Within)
               r == Rank(Cardinality(D))
               m == P * Cardinality(D)
    <3>1. k \in Nat /\ w \in Nat /\ r \in Nat /\ m \in Nat
      BY <2>4, <2>7, <2>8
    <3>2. w <= k /\ w >= r /\ 100 * r >= m
      BY <2>1, <2>4, <2>7
    <3> HIDE DEF k, w, r, m
    <3>3. 100 * k >= m
      BY <3>1, <3>2
    <3> QED
      BY <3>3 DEF k, m
  <2> QED
    BY <2>9 DEF Kept
<1> QED
  BY <1>1, <1>2

(* What may be believed of a run that main lets stand, for every schedule, *)
(* server and percentile: it kept its schedule for that share of what it   *)
(* issued, and its response figure, which counts the waits, is no better   *)
(* than its service figure (loadgen.go 192-208, main.go's -max-deficit-ms).*)
THEOREM AcceptedRuns == Spec => []AcceptedRunsKeptTheSchedule
<1>1. ASSUME IInv, Clocks, AsSummarised, pc = "reported"
      PROVE  /\ report.accepted =>
                  100 * Cardinality({i \in report.of : Deficit(results[i]) <= MaxDeficit})
                    >= P * Cardinality(report.of)
             /\ report.response >= report.service
             /\ report.ok + report.failed = Cardinality(report.of)
  <2> DEFINE d == [i \in Seen |-> Deficit(results[i])]
             s == [i \in Seen |-> Service(results[i])]
             r == [i \in Seen |-> Response(results[i])]
             Bad == {i \in Seen : Failed(results[i])}
             Good == {i \in Seen : ~ Failed(results[i])}
  <2>1. /\ report.of = Seen /\ report.accepted = Accepts(Pct(d))
        /\ report.response = Pct(r) /\ report.service = Pct(s)
        /\ report.ok = Cardinality(Good) /\ report.failed = Cardinality(Bad)
    BY <1>1 DEF AsSummarised, Summary
  <2>2. /\ IsFiniteSet(Seen) /\ now \in Nat
        /\ d \in [Seen -> 0 .. now] /\ s \in [Seen -> 0 .. now] /\ r \in [Seen -> 0 .. now]
        /\ \A i \in Seen : s[i] <= r[i]
    BY <1>1, SeenFigures
  <2>3. report.accepted =>
          100 * Cardinality({i \in report.of : Deficit(results[i]) <= MaxDeficit})
            >= P * Cardinality(report.of)
    <3>1. {i \in Seen : d[i] <= MaxDeficit} = {i \in Seen : Deficit(results[i]) <= MaxDeficit}
      OBVIOUS
    <3> HIDE DEF d
    <3>2. Accepts(Pct(d)) =>
            100 * Cardinality({i \in Seen : d[i] <= MaxDeficit}) >= P * Cardinality(Seen)
      BY <2>2, PctWithin
    <3> QED
      BY <2>1, <3>1, <3>2
  <2>4. report.response >= report.service
    <3> HIDE DEF r, s
    <3>1. Pct(r) >= Pct(s)
      BY <2>2, PctMonotone
    <3> QED
      BY <2>1, <3>1
  <2>5. report.ok + report.failed = Cardinality(report.of)
    <3>1. Good \cup Bad = Seen /\ Good \cap Bad = {}
      OBVIOUS
    <3>2. IsFiniteSet(Good) /\ IsFiniteSet(Bad)
      BY <2>2, FS_Subset
    <3>3. Cardinality(Good) + Cardinality(Bad) = Cardinality(Seen)
      <4> HIDE DEF Good, Bad
      <4>1. Cardinality(Good \cup Bad) =
              Cardinality(Good) + Cardinality(Bad) - Cardinality(Good \cap Bad)
        BY <3>2, FS_Union
      <4>2. Cardinality(Good \cap Bad) = 0
        BY <3>1, FS_EmptySet
      <4>3. Cardinality(Good \cup Bad) = Cardinality(Seen)
        BY <3>1
      <4>4. Cardinality(Good) \in Nat /\ Cardinality(Bad) \in Nat
        BY <3>2, FS_CardinalityType
      <4> QED
        BY <4>1, <4>2, <4>3, <4>4
    <3> QED
      BY <2>1, <3>3
  <2> QED
    BY <2>3, <2>4, <2>5
<1>2. IInv /\ Clocks /\ AsSummarised => AcceptedRunsKeptTheSchedule
  BY <1>1 DEF AcceptedRunsKeptTheSchedule
<1> QED
  BY <1>2, ClocksInvariant, PTL
=============================================================================

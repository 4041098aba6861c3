------------------------------- MODULE LoadGen -------------------------------
(***************************************************************************)
(* tools/loadgen: an open-loop driver.  Run takes arrivals from a schedule *)
(* fixed at the start, a counting semaphore bounds what is in flight, a    *)
(* goroutine per arrival makes its calls and writes its own entry of       *)
(* results, Summarise reduces what Run returned, and main refuses a run    *)
(* the driver could not sustain.  Server, scheduler and operator are free: *)
(* a call takes any time and ends any way, a goroutine starts late, the    *)
(* run is cancelled at any moment.  Time is counted in ticks from start.   *)
(***************************************************************************)
EXTENDS Integers, FiniteSets

CONSTANTS
  Total,      \* arrivals on the schedule: Duration / interval
  Interval,   \* ticks between two of them
  Workers,    \* -workers
  Calls,      \* HTTP calls in one arrival: 2 for the session scenario, else 1
  Statuses,   \* what a call may return; 0 when nothing came back
  P,          \* the percentile the report gives, of 100
  MaxDeficit, \* -max-deficit-ms
  MaxTime     \* bound: ticks of the run

Arrivals == 0 .. Total - 1

(* When the schedule says a request is due: never from a completion.       *)
Due(i) == i * Interval

ASSUME LoadGenAssumption ==
  /\ Total \in Nat \ {0} /\ Interval \in Nat \ {0} /\ Workers \in Nat \ {0}
  /\ Calls \in {1, 2}
  /\ 0 \in Statuses /\ 200 \in Statuses /\ Statuses \subseteq Nat
  /\ P \in 1 .. 100 /\ MaxDeficit \in Nat
  /\ MaxTime \in Nat /\ Due(Total - 1) <= MaxTime

VARIABLES
  now,
  pc,        \* of Run and its caller
  next,      \* the arrival Run is at
  slots,     \* the semaphore: arrivals holding one of the Workers places
  at,        \* per arrival: its goroutine
  left,      \* per arrival: calls still to make
  results,   \* per arrival: its entry, filled by its goroutine and, until it is
             \* written at the end (issued), read as the zero value
  returned,  \* how many entries the slice Run returned has
  report,    \* what Summarise made of them
  cancelled  \* the context is done

run  == <<pc, next, returned, report>>
task == <<at, left, results>>
vars == <<now, run, slots, task, cancelled>>

Unissued == [intended |-> 0, started |-> 0, ended |-> 0, status |-> 0, issued |-> FALSE]
NoReport == [of |-> {}, ok |-> 0, failed |-> 0,
             service |-> 0, response |-> 0, deficit |-> 0, accepted |-> FALSE]

Init ==
  /\ now = 0 /\ pc = "schedule" /\ next = 0 /\ slots = {}
  /\ at = [i \in Arrivals |-> "none"] /\ left = [i \in Arrivals |-> Calls]
  /\ results = [i \in Arrivals |-> Unissued]
  /\ returned = 0 /\ report = NoReport
  /\ cancelled = FALSE

-----------------------------------------------------------------------------
(* Run. *)

(* The wait for the intended time is over, or there was none. *)
Arrive ==
  /\ pc = "schedule" /\ next < Total
  /\ now >= Due(next)
  /\ pc' = "slot"
  /\ UNCHANGED <<now, next, returned, report, slots, task, cancelled>>

(* Mutant of TakeSlot: the intended time is taken when a worker is free.   *)
ClosedLoop ==
  /\ pc = "slot" /\ Cardinality(slots) < Workers
  /\ slots' = slots \cup {next}
  /\ at' = [at EXCEPT ![next] = "spawned"]
  /\ results' = [results EXCEPT ![next].intended = now]
  /\ next' = next + 1 /\ pc' = "schedule"
  /\ UNCHANGED <<now, left, returned, report, cancelled>>

(* A place in the semaphore, and the goroutine with its intended time.     *)
TakeSlot ==
  /\ pc = "slot" /\ Cardinality(slots) < Workers
  /\ slots' = slots \cup {next}
  /\ at' = [at EXCEPT ![next] = "spawned"]
  /\ results' = [results EXCEPT ![next].intended = Due(next)]
  /\ next' = next + 1 /\ pc' = "schedule"
  /\ UNCHANGED <<now, left, returned, report, cancelled>>

(* Done while waiting: Run returns what lies before, in flight or not.     *)
Abandon ==
  /\ cancelled
  /\ \/ pc = "schedule" /\ next < Total /\ now < Due(next)
     \/ pc = "slot"
  /\ returned' = next /\ pc' = "returned"
  /\ UNCHANGED <<now, next, report, slots, task, cancelled>>

(* wg.Wait. *)
Join ==
  /\ pc = "schedule" /\ next = Total
  /\ \A i \in Arrivals : at[i] = "done"
  /\ returned' = Total /\ pc' = "returned"
  /\ UNCHANGED <<now, next, report, slots, task, cancelled>>

-----------------------------------------------------------------------------
(* An arrival's goroutine. *)

Begin(i) ==
  /\ at[i] = "spawned"
  /\ at' = [at EXCEPT ![i] = "calling"]
  /\ results' = [results EXCEPT ![i].started = now]
  /\ UNCHANGED <<now, run, slots, left, cancelled>>

(* sessionFlow opens a session and goes on to feed it. *)
Opened(i) ==
  /\ at[i] = "calling" /\ left[i] > 1
  /\ left' = [left EXCEPT ![i] = @ - 1]
  /\ UNCHANGED <<now, run, slots, at, results, cancelled>>

(* Mutant of Finish: a failed call forgets its place in the semaphore.     *)
FinishKeepsSlot(i, status) ==
  /\ at[i] = "calling"
  /\ left[i] > 1 => status # 200
  /\ at' = [at EXCEPT ![i] = "done"]
  /\ results' = [results EXCEPT ![i].ended = now, ![i].status = status, ![i].issued = TRUE]
  /\ slots' = IF status = 0 THEN slots ELSE slots \ {i}
  /\ UNCHANGED <<now, run, left, cancelled>>

(* The last call returned, or one failed: the entry is written and the     *)
(* place given back.  A session answered without a token is an error.      *)
Finish(i, status) ==
  /\ at[i] = "calling"
  /\ left[i] > 1 => status # 200
  /\ at' = [at EXCEPT ![i] = "done"]
  /\ results' = [results EXCEPT ![i].ended = now, ![i].status = status, ![i].issued = TRUE]
  /\ slots' = slots \ {i}
  /\ UNCHANGED <<now, run, left, cancelled>>

-----------------------------------------------------------------------------
(* Summarise, and main's refusal. *)

Service(r)  == r.ended - r.started
Response(r) == r.ended - r.intended
Deficit(r)  == r.started - r.intended

Failed(r) == r.status = 0 \/ r.status >= 500

(* Mutant of Rank: rounded down, as an index computed in integers is.      *)
RankDown(n) == IF P * n < 100 THEN 1 ELSE (P * n) \div 100

(* Nearest rank: the ceiling of P percent of n, from 1 to n.               *)
Rank(n) == (P * n + 99) \div 100

(* The Rank-th smallest of the values f takes. *)
Pct(f) ==
  IF DOMAIN f = {} THEN 0
  ELSE CHOOSE v \in {f[i] : i \in DOMAIN f} :
         /\ Cardinality({i \in DOMAIN f : f[i] <= v}) >= Rank(Cardinality(DOMAIN f))
         /\ Cardinality({i \in DOMAIN f : f[i] < v}) < Rank(Cardinality(DOMAIN f))

(* What main lets stand; a run further behind its schedule is refused.     *)
Accepts(deficit) == deficit <= MaxDeficit

(* An entry still zero is one that was never issued, as Summarise sees it. *)
Seen == {i \in 0 .. returned - 1 : results[i].issued}

Summary ==
  LET late == Pct([i \in Seen |-> Deficit(results[i])])
  IN  [of       |-> Seen,
       ok       |-> Cardinality({i \in Seen : ~ Failed(results[i])}),
       failed   |-> Cardinality({i \in Seen : Failed(results[i])}),
       service  |-> Pct([i \in Seen |-> Service(results[i])]),
       response |-> Pct([i \in Seen |-> Response(results[i])]),
       deficit  |-> late,
       accepted |-> Accepts(late)]

Summarise ==
  /\ pc = "returned"
  /\ pc' = "reported" /\ report' = Summary
  /\ UNCHANGED <<now, next, returned, slots, task, cancelled>>

-----------------------------------------------------------------------------
Cancel ==
  /\ ~ cancelled /\ pc \in {"schedule", "slot"}
  /\ cancelled' = TRUE
  /\ UNCHANGED <<now, run, slots, task>>

Tick ==
  /\ now < MaxTime /\ pc # "reported"
  /\ now' = now + 1
  /\ UNCHANGED <<run, slots, task, cancelled>>

Driver == Arrive \/ TakeSlot \/ Abandon \/ Join \/ Summarise

Task(i) == Begin(i) \/ Opened(i) \/ \E status \in Statuses : Finish(i, status)

Reported == pc = "reported" /\ UNCHANGED vars

Next ==
  \/ Driver \/ Tick \/ Cancel \/ Reported
  \/ \E i \in Arrivals : pc # "reported" /\ Task(i)

Spec == Init /\ [][Next]_vars

(* Every call ends (main's client gives up after 30 s, and on a cancel),   *)
(* and time passes.                                                        *)
FairSpec ==
  /\ Spec
  /\ WF_vars(Driver) /\ WF_vars(Tick)
  /\ \A i \in Arrivals : WF_vars(pc # "reported" /\ Task(i))

-----------------------------------------------------------------------------
(* Coordinated omission is what the package exists to avoid: when nothing  *)
(* came back between a and b, every arrival that was due in that time is   *)
(* in the report of a completed run, and has waited at least until b by    *)
(* its own figures, whichever queue it waited in (loadgen.go 1-41).        *)
StallsShow ==
  pc = "reported" /\ ~ cancelled =>
    \A a, b \in 0 .. MaxTime :
      (\A i \in report.of : ~ (a < results[i].ended /\ results[i].ended < b)) =>
        \A i \in Arrivals : a < Due(i) /\ Due(i) < b =>
          i \in report.of /\ Response(results[i]) >= b - Due(i)

(* A run main lets stand kept its schedule for P percent of what it issued *)
(* and never reports a system better for having been queued for: the       *)
(* response figure is not below the service figure (loadgen.go 192-208).   *)
AcceptedRunsKeptTheSchedule ==
  pc = "reported" =>
    /\ report.accepted =>
         100 * Cardinality({i \in report.of : Deficit(results[i]) <= MaxDeficit})
           >= P * Cardinality(report.of)
    /\ report.response >= report.service
    /\ report.ok + report.failed = Cardinality(report.of)

(* The run ends with a report, whatever the server answers: an attempt     *)
(* gives its place in the semaphore back however it ends (line 160).       *)
RunReturns == <>(pc = "reported")
=============================================================================

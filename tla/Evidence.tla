------------------------------ MODULE Evidence ------------------------------
(***************************************************************************)
(* libs/feature: the three accumulators a session keeps, fed one event at  *)
(* a time in the order telemetry delivers them, each O(1) in the length of *)
(* the session, and judged at any moment, for any action (Policy).         *)
(*                                                                         *)
(* Pointer geometry is kept: a sample is an integer step from the last one *)
(* and segments are cut by pauses and by corners.  Time is kept as what    *)
(* the code derives from it: whether a pause exceeded segmentGapMs, the    *)
(* flight before a key goes down and the dwell before it comes up, either  *)
(* of which may be none (out of order, or implausibly long).               *)
(***************************************************************************)
EXTENDS Policy

CONSTANTS
  Steps,    \* pointer steps: [x, y, len], len the length in px
  Flights,  \* flight times the code counts, in ms
  Dwells,   \* dwell times, in ms
  Keys,     \* ordinary keys (class and field)
  Fields,   \* fields a form event may name
  None,     \* no flight, no dwell, no heading
  MaxEffort  \* bound: a key event costs 3, a sample 5, a structural event 8

ASSUME EvidenceAssumption ==
  /\ Steps \subseteq [x : Int, y : Int, len : Nat]
  /\ \A s \in Steps : s.x * s.x + s.y * s.y = s.len * s.len
  /\ Flights \subseteq Nat /\ Dwells \subseteq Nat
  /\ None \notin Flights /\ None \notin Dwells /\ None \notin Steps
  /\ MaxEffort \in Nat

MinSegmentPoints      == 4
MinSegmentPathPx      == 40
MinTurnStepPx         == 4
MinIntervalsForRhythm == 6
DwellRange            == 1 .. 1000

VARIABLES
  pointer,      \* Pointer: closed segments, and the one in progress
  keystroke,    \* Keystroke
  interaction,  \* Interaction
  course        \* history: where the leg heads, and whether any turn was gentle

vars == <<pointer, keystroke, interaction, course>>

-----------------------------------------------------------------------------
(* Feature vectors. *)

(* r * r <= n < (r + 1) * (r + 1), written so as not to exceed n. *)
IsRoot(r, n) == r \in Nat /\ r * r <= n /\ n - r * r <= 2 * r

(* Found by bisection as long as the squares fit in a machine integer. *)
Bisected(n) ==
  LET root[lo, hi \in Nat] ==
        LET mid == (lo + hi) \div 2
        IN  IF hi - lo <= 1 THEN lo
            ELSE IF mid * mid <= n THEN root[mid, hi] ELSE root[lo, mid]
  IN  root[0, AtMost(46340, n + 1)]

(* The integer square root. *)
Sqrt(n) ==
  IF IsRoot(Bisected(n), n) THEN Bisected(n) ELSE CHOOSE r \in 0 .. n : IsRoot(r, n)

NoSegment == [count |-> 0, path |-> 0, x |-> 0, y |-> 0, dir |-> None]

Qualifies(seg) == seg.count >= MinSegmentPoints /\ seg.path >= MinSegmentPathPx

(* Net displacement, which is straightness times path. *)
Net(seg) == AtMost(seg.path, Sqrt(seg.x * seg.x + seg.y * seg.y))

(* closeSegment: what a finished segment leaves behind. *)
Closed(p) ==
  IF Qualifies(p.cur)
  THEN [p EXCEPT !.net = @ + Net(p.cur), !.path = @ + p.cur.path, !.segments = @ + 1,
                 !.cur = NoSegment]
  ELSE [p EXCEPT !.cur = NoSegment]

(* Pointer.State includes the segment in progress. *)
PointerState ==
  LET p == Closed(pointer)
  IN  [segments     |-> p.segments,
       path         |-> p.path,
       straightness |-> IF p.path = 0 THEN 0 ELSE (Full * p.net) \div p.path]

(* cv, from running sums: sqrt(n * sumSq - sum * sum) / sum, the variance  *)
(* never less than zero.                                                   *)
CV(sum, sumSq, n) ==
  IF sum = 0 THEN 0
  ELSE (Full * Sqrt(Max({0, n * sumSq - sum * sum}))) \div sum

KeystrokeState ==
  LET k == keystroke
      rhythmic == k.flights >= MinIntervalsForRhythm
  IN  [intervals   |-> k.flights,
       flightCV    |-> IF rhythmic THEN CV(k.sum, k.sumSq, k.flights) ELSE 0,
       repeatRatio |-> IF rhythmic THEN RoundedUp(Full * k.repeats, k.flights) ELSE 0,
       meanDwell   |-> IF k.dwells >= MinIntervalsForRhythm
                       THEN k.dwellSum \div k.dwells ELSE 0]

InteractionState ==
  LET i == interaction
  IN  [focus |-> i.focus, scrolls |-> i.scrolls, pastes |-> i.pastes,
       injections |-> i.injections, injectedFields |-> Cardinality(i.injectedFields),
       programmaticRatio |-> IF i.scrolls = 0 THEN 0
                             ELSE RoundedUp(Full * i.programmatic, i.scrolls)]

State == [pointer |-> PointerState, keystroke |-> KeystrokeState,
          interaction |-> InteractionState]

Judgement(action) == Judge(State, action)

-----------------------------------------------------------------------------
Init ==
  /\ pointer = [net |-> 0, path |-> 0, segments |-> 0, points |-> 0, cur |-> NoSegment]
  /\ keystroke = [flights |-> 0, sum |-> 0, sumSq |-> 0, repeats |-> 0, lastFlight |-> None,
                  dwells |-> 0, dwellSum |-> 0, pending |-> {}, haveLastUp |-> FALSE,
                  keys |-> 0]
  /\ interaction = [scrolls |-> 0, programmatic |-> 0, focus |-> 0, pastes |-> 0,
                    injections |-> 0, injectedFields |-> {}]
  /\ course = [heading |-> None, gentle |-> FALSE]

Structural == interaction.scrolls + interaction.focus + interaction.pastes
              + interaction.injections

Effort == 3 * keystroke.keys + 5 * pointer.points + 8 * Structural

Dot(a, b) == a.x * b.x + a.y * b.y

(* A turn of more than sixty degrees: the cosine is below a half. *)
Corner(a, b) == 2 * Dot(a, b) < a.len * b.len

SameWay(a, b) == a.x * b.y = a.y * b.x /\ Dot(a, b) >= 0

Trusted(step) == step.len >= MinTurnStepPx

(* A segment of one sample, at which a turn cannot be told. *)
StartSegment == [NoSegment EXCEPT !.count = 1]

(* Mutant of LegFrom: the direction of the step past a corner is lost. *)
LegWithoutHeading(step) ==
  [count |-> 2, path |-> step.len, x |-> step.x, y |-> step.y, dir |-> None]

(* The leg that leaves a corner: the corner belongs to both legs. *)
LegFrom(step) ==
  [count |-> 2, path |-> step.len, x |-> step.x, y |-> step.y, dir |-> step]

Extended(seg, step) ==
  [count |-> seg.count + 1, path |-> seg.path + step.len,
   x |-> seg.x + step.x, y |-> seg.y + step.y,
   dir |-> IF Trusted(step) THEN step ELSE seg.dir]

(* A step away from the direction of the segment, when there is one. *)
TurnsAway(seg, step) == seg.dir # None /\ Trusted(step) /\ Corner(seg.dir, step)

(* What a sample does to the segments: the first, or one after a pause,    *)
(* starts a segment, one past a corner starts a leg, any other extends.    *)
Sampled(p, step, paused) ==
  CASE p.cur.count = 0 -> [p EXCEPT !.cur = StartSegment]
    [] p.cur.count > 0 /\ paused -> [Closed(p) EXCEPT !.cur = StartSegment]
    [] p.cur.count > 0 /\ ~ paused /\ TurnsAway(p.cur, step)
         -> [Closed(p) EXCEPT !.cur = LegFrom(step)]
    [] OTHER -> [p EXCEPT !.cur = Extended(@, step)]

(* History: a leg heads where its last trusted step went or, before it has *)
(* one, where its last step did.  A turn off it is gentle unless it is a   *)
(* corner between two trusted steps.  Steps along the leg, however small,  *)
(* turn nowhere, and a pause ends the leg.                                 *)
Heads(heading, step) ==
  IF step.len > 0 /\ (heading = None \/ ~ Trusted(heading) \/ Trusted(step))
  THEN step ELSE heading

TurnsGently(heading, step) ==
  /\ heading # None /\ ~ SameWay(heading, step)
  /\ ~ (Trusted(heading) /\ Trusted(step) /\ Corner(heading, step))

(* Pointer.Add, one sample of a polyline: step from the last sample, and   *)
(* whether it came more than segmentGapMs after it.                        *)
AddSample(step, paused) ==
  /\ Effort + 5 <= MaxEffort
  /\ pointer' = [Sampled(pointer, step, paused) EXCEPT !.points = @ + 1]
  /\ course' = IF paused \/ pointer.points = 0
               THEN [course EXCEPT !.heading = None]
               ELSE [heading |-> Heads(course.heading, step),
                     gentle  |-> course.gentle \/ TurnsGently(course.heading, step)]
  /\ UNCHANGED <<keystroke, interaction>>

(* AddKey, a modifier: counted, and nothing else. *)
AddModifier ==
  /\ Effort + 3 <= MaxEffort
  /\ keystroke' = [keystroke EXCEPT !.keys = @ + 1]
  /\ UNCHANGED <<pointer, interaction, course>>

(* AddKey, down.  A flight counts once some key has come up. *)
AddKeyDown(key, flight) ==
  /\ Effort + 3 <= MaxEffort
  /\ flight # None => keystroke.haveLastUp
  /\ keystroke' =
       IF flight = None
       THEN [keystroke EXCEPT !.keys = @ + 1, !.pending = @ \cup {key}]
       ELSE [keystroke EXCEPT !.keys = @ + 1, !.pending = @ \cup {key},
                              !.flights = @ + 1, !.sum = @ + flight,
                              !.sumSq = @ + flight * flight,
                              !.repeats = IF keystroke.lastFlight = flight THEN @ + 1 ELSE @,
                              !.lastFlight = flight]
  /\ UNCHANGED <<pointer, interaction, course>>

(* AddKey, up.  A dwell is measured against the key's open down, if any,   *)
(* and counts when plausible; out of order, the down stays open.           *)
AddKeyUp(key, dwell) ==
  /\ Effort + 3 <= MaxEffort
  /\ dwell # None => key \in keystroke.pending
  /\ keystroke' =
       [keystroke EXCEPT !.keys = @ + 1, !.haveLastUp = TRUE,
                         !.pending  = IF dwell # None THEN @ \ {key} ELSE @,
                         !.dwells   = IF dwell \in DwellRange THEN @ + 1 ELSE @,
                         !.dwellSum = IF dwell \in DwellRange THEN @ + dwell ELSE @]
  /\ UNCHANGED <<pointer, interaction, course>>

AddScroll(programmatic) ==
  /\ Effort + 8 <= MaxEffort
  /\ interaction' = [interaction EXCEPT !.scrolls = @ + 1,
                                        !.programmatic = IF programmatic THEN @ + 1 ELSE @]
  /\ UNCHANGED <<pointer, keystroke, course>>

AddFocus ==
  /\ Effort + 8 <= MaxEffort
  /\ interaction' = [interaction EXCEPT !.focus = @ + 1]
  /\ UNCHANGED <<pointer, keystroke, course>>

(* AddForm: a paste, or an injection into a field, which may be unnamed.   *)
(* (Autofills, submits and visibility are counted and not judged.)         *)
AddPaste ==
  /\ Effort + 8 <= MaxEffort
  /\ interaction' = [interaction EXCEPT !.pastes = @ + 1]
  /\ UNCHANGED <<pointer, keystroke, course>>

AddInjection(target) ==
  /\ Effort + 8 <= MaxEffort
  /\ interaction' = [interaction EXCEPT !.injections = @ + 1,
                                        !.injectedFields = @ \cup target]
  /\ UNCHANGED <<pointer, keystroke, course>>

Next ==
  \/ \E step \in Steps, paused \in BOOLEAN : AddSample(step, paused)
  \/ AddModifier
  \/ \E key \in Keys, flight \in Flights \cup {None} : AddKeyDown(key, flight)
  \/ \E key \in Keys, dwell \in Dwells \cup {None} : AddKeyUp(key, dwell)
  \/ \E programmatic \in BOOLEAN : AddScroll(programmatic)
  \/ AddFocus
  \/ AddPaste
  \/ \E target \in {{}} \cup {{f} : f \in Fields} : AddInjection(target)

Spec == Init /\ [][Next]_vars

-----------------------------------------------------------------------------
SegmentType == [count : Nat, path : Nat, x : Int, y : Int, dir : Steps \cup {None}]

(* Every accumulator keeps its type, and no part outgrows its whole: the   *)
(* ratios that State reports stay within Full.                             *)
TypeOK ==
  /\ pointer \in [net : Nat, path : Nat, segments : Nat, points : Nat, cur : SegmentType]
  /\ keystroke \in [flights : Nat, sum : Nat, sumSq : Nat, repeats : Nat,
                     lastFlight : Flights \cup {None}, dwells : Nat, dwellSum : Nat,
                     pending : SUBSET Keys, haveLastUp : BOOLEAN, keys : Nat]
  /\ interaction \in [scrolls : Nat, programmatic : Nat, focus : Nat, pastes : Nat,
                       injections : Nat, injectedFields : SUBSET Fields]
  /\ course \in [heading : Steps \cup {None}, gentle : BOOLEAN]
  /\ pointer.net <= pointer.path
  /\ keystroke.repeats <= keystroke.flights
  /\ interaction.programmatic <= interaction.scrolls

(* Straight legs are not taken for a curve, however the corners, pauses    *)
(* and batches fall and however small the steps along a leg: a pointer     *)
(* that never turned gently is as straight as can be (the corner detection *)
(* of Pointer.Add, whose second corner was once missed).                   *)
StraightLegsStayStraight ==
  ~ course.gentle /\ PointerState.segments > 0 => PointerState.straightness = Full

(* More evidence never supports a judgement less: no event of any channel  *)
(* lowers the confidence of any action (Judge's normalisation by the       *)
(* dominant channel, and the segment in progress counted as evidence).     *)
ConfidenceNeverFalls ==
  [][\A before \in {State}, after \in {State'}, a \in Actions :
       Judge(after, a).confidence >= Judge(before, a).confidence]_vars

Accusing(j) == j.reasons \ {"INSUFFICIENT_EVIDENCE"}

(* A verdict against the session names what it rests on, and an allow in   *)
(* spite of a bot-like score says that the evidence was insufficient.      *)
VerdictsAreExplained ==
  LET st == State
  IN  \A a \in Actions :
        LET j == Judge(st, a)
        IN  /\ Enforced(j) # "allow" => Accusing(j) # {}
            /\ Enforced(j) = "allow" /\ j.score >= cal.score_to_challenge
                 => "INSUFFICIENT_EVIDENCE" \in j.reasons

(* However damning, the events of a single channel never amount to a       *)
(* block, whatever the action (min_channels_to_block).                     *)
OneChannelNeverBlocks ==
  LET st == State
  IN  (\E a \in Actions : Enforced(Judge(st, a)) = "block") =>
        Cardinality({c \in Channels :
           CASE c = "pointer"     -> pointer.points >= MinSegmentPoints
             [] c = "keystroke"   -> keystroke.flights > 0
             [] c = "interaction" -> Structural > 0}) >= 2

(* What a person does: curved paths, irregular and held keys, fields that  *)
(* take focus before anything else happens in the form, no injection.      *)
LooksHuman(st) ==
  /\ st.pointer.straightness <= cal.straightness_floor
  /\ st.keystroke.flightCV >= cal.flight_cv_floor \/ st.keystroke.intervals = 0
  /\ st.keystroke.repeatRatio = 0
  /\ st.keystroke.meanDwell >= cal.dwell_absent_ms \/ st.keystroke.meanDwell = 0
  /\ st.interaction.focus > 0 \/ Structural = 0
  /\ st.interaction.injections = 0 /\ st.interaction.programmaticRatio = 0

(* The false-positive guard: a session that looks human is allowed in      *)
(* enforce mode, and monitor mode does not report that it would not be.    *)
HumanIsAllowed ==
  LET st == State
  IN  LooksHuman(st) =>
        \A a \in Actions, mode \in Modes :
          LET outcome == Apply(Judge(st, a), mode)
          IN  outcome.decision = "allow" /\ outcome.shadow \in {"", "allow"}

(* Too few intervals to carry a rhythm carry none: typing that has not     *)
(* reached MinIntervalsForRhythm is never called too regular.              *)
TooFewIntervalsReportNoRhythm ==
  keystroke.flights < MinIntervalsForRhythm =>
    \A a \in Actions : "KEY_INTERVAL_VARIANCE_LOW" \notin Judgement(a).reasons
=============================================================================

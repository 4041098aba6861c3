------------------------------- MODULE Policy -------------------------------
(***************************************************************************)
(* libs/policy: from a session's feature vector and an action to a         *)
(* judgement, and from a judgement to a decision.  The paired dimensions   *)
(* are kept apart: score is how bot-like the behaviour looks, confidence   *)
(* how much relevant evidence supports that.                               *)
(*                                                                         *)
(* float64 becomes integers: scores, ratios and coefficients of variation  *)
(* in thousandths (Full is 1), confidence in six-thousandths (Certain is   *)
(* 1), which is exact for the shipped calibration, and weights in          *)
(* hundredths.  Divisions round down, except (RoundedUp) those whose       *)
(* quotient the code compares with zero: a share is zero only when there   *)
(* is nothing of it, in the model as in the code.                          *)
(***************************************************************************)
EXTENDS Integers, FiniteSetsExt

CONSTANT cal  \* the active calibration, in these units

Full    == 1000
Certain == 6000

UnitFields == {"straightness_floor", "straightness_ceil",
               "identical_interval_ratio", "score_to_challenge",
               "score_to_block"}

PositiveFields == {"flight_cv_floor", "flight_cv_ceil", "dwell_absent_ms",
                   "confidence_segments", "confidence_path_px",
                   "confidence_intervals", "min_channels_to_block"}

ConfidenceFields == {"min_confidence_to_challenge", "min_confidence_to_block"}

(* validate: what a calibration must satisfy to be loaded. *)
ASSUME CalibrationAssumption ==
  /\ \A f \in UnitFields : cal[f] \in 0 .. Full
  /\ \A f \in ConfidenceFields : cal[f] \in 0 .. Certain
  /\ \A f \in PositiveFields : cal[f] \in Nat \ {0}

Modes == {"monitor", "enforce"}

Channels == {"pointer", "keystroke", "interaction"}

(* The evidence profile of an action.  "other" is any uncharacterised one. *)
actionWeights ==
  [login    |-> [pointer |-> 35, keystroke |-> 50, interaction |-> 15],
   signup   |-> [pointer |-> 30, keystroke |-> 55, interaction |-> 15],
   checkout |-> [pointer |-> 55, keystroke |-> 20, interaction |-> 25],
   comment  |-> [pointer |-> 25, keystroke |-> 60, interaction |-> 15],
   other    |-> [pointer |-> 40, keystroke |-> 40, interaction |-> 20]]

Actions == DOMAIN actionWeights

-----------------------------------------------------------------------------
RoundedUp(n, d) == (n + d - 1) \div d

AtMost(bound, n) == IF n < bound THEN n ELSE bound

Clamp(n) == IF n < 0 THEN 0 ELSE AtMost(Full, n)

(* ramp: v from zero to one, whichever way round, onto 0 .. Full. *)
Ramp(v, zero, one) ==
  CASE one > zero -> Clamp((Full * (v - zero)) \div (one - zero))
    [] one < zero -> Clamp((Full * (zero - v)) \div (zero - one))
    [] OTHER      -> 0

(* How much of full n is, as a confidence. *)
Portion(n, full) == IF n >= full THEN Certain ELSE RoundedUp(Certain * n, full)

Silent == [score |-> 0, confidence |-> 0, reasons |-> {}]

(* Mutant of PointerChannel: floor and ceiling the other way round. *)
PointerChannelSwapped(p) ==
  LET score == Ramp(p.straightness, cal.straightness_ceil, cal.straightness_floor)
  IN  IF p.segments = 0 THEN Silent
      ELSE [score      |-> score,
            confidence |-> RoundedUp(Portion(p.segments, cal.confidence_segments)
                                     + Portion(p.path, cal.confidence_path_px), 2),
            reasons    |-> {c \in {"POINTER_LINEARITY"} : score > 0}]

PointerChannel(p) ==
  LET score == Ramp(p.straightness, cal.straightness_floor, cal.straightness_ceil)
  IN  IF p.segments = 0 THEN Silent
      ELSE [score      |-> score,
            confidence |-> RoundedUp(Portion(p.segments, cal.confidence_segments)
                                     + Portion(p.path, cal.confidence_path_px), 2),
            reasons    |-> {c \in {"POINTER_LINEARITY"} : score > 0}]

KeystrokeChannel(k) ==
  LET rhythm    == Ramp(k.flightCV, cal.flight_cv_floor, cal.flight_cv_ceil)
      dwell     == IF 0 < k.meanDwell /\ k.meanDwell < cal.dwell_absent_ms
                   THEN Full - (Full * k.meanDwell) \div cal.dwell_absent_ms ELSE 0
      identical == IF k.repeatRatio = 0 THEN 0
                   ELSE AtMost(Full, (Full * k.repeatRatio)
                                       \div Max({1, cal.identical_interval_ratio}))
  IN  IF k.intervals = 0 THEN Silent
      ELSE [score      |-> Max({rhythm, dwell, identical}),
            confidence |-> Portion(k.intervals, cal.confidence_intervals),
            reasons    |-> {c \in {"KEY_INTERVAL_VARIANCE_LOW"} : rhythm > 0}
                           \cup {c \in {"KEY_DWELL_ABSENT"} : dwell > 0}
                           \cup {c \in {"KEY_INTERVALS_IDENTICAL"} : identical > 0}]

(* A value injected or a programmatic scroll is close to categorical: full *)
(* confidence.  Otherwise structure counts for as much as there is of it.  *)
InteractionChannel(i) ==
  LET injected    == IF i.injections > 0
                     THEN AtMost(Full, 550 + 250 * i.injectedFields) ELSE 0
      prog        == AtMost(Full, 2 * i.programmaticRatio)
      noFocus     == IF i.focus = 0 THEN 600 ELSE 0
      categorical == i.injections > 0 \/ i.programmaticRatio > 0
  IN  IF i.focus = 0 /\ i.scrolls = 0 /\ i.pastes = 0 /\ i.injections = 0 THEN Silent
      ELSE [score      |-> Max({prog, noFocus, injected}),
            confidence |-> IF categorical THEN Certain
                           ELSE AtMost(Certain, (Certain * i.focus) \div 6
                                                + (Certain * i.scrolls) \div 20),
            reasons    |-> {c \in {"VALUE_INJECTED"} : injected > 0}
                           \cup {c \in {"PROGRAMMATIC_SCROLL"} : prog > 0}
                           \cup {c \in {"NO_FOCUS_TRANSITIONS"} : noFocus > 0}]

ChannelsOf(st) == [pointer     |-> PointerChannel(st.pointer),
                   keystroke   |-> KeystrokeChannel(st.keystroke),
                   interaction |-> InteractionChannel(st.interaction)]

Total(f) == f.pointer + f.keystroke + f.interaction

(* Mutant of Dominant: confidence is a share of the channels that spoke,   *)
(* so that thin evidence on a second channel costs the first.              *)
Spoken(ch, w) ==
  Max({1, Total([c \in Channels |-> IF ch[c].confidence > 0 THEN w[c] ELSE 0])})

(* Confidence is normalised by the single most relevant channel. *)
Dominant(ch, w) == Max({w[c] : c \in Channels})

Doubts(confidence) ==
  IF confidence < cal.min_confidence_to_challenge THEN {"INSUFFICIENT_EVIDENCE"} ELSE {}

(* Judge.  A channel votes with its weight times its own confidence, so a  *)
(* silent one abstains.                                                    *)
Judge(st, action) ==
  LET w          == actionWeights[action]
      ch         == ChannelsOf(st)
      effective  == [c \in Channels |-> w[c] * ch[c].confidence]
      votes      == [c \in Channels |-> ch[c].score * effective[c]]
      confidence == AtMost(Certain, Total(effective) \div Dominant(ch, w))
  IN  [score        |-> IF Total(effective) = 0 THEN 0
                        ELSE Total(votes) \div Total(effective),
       confidence   |-> confidence,
       contributing |-> Cardinality({c \in Channels : ch[c].confidence > 0}),
       reasons      |-> (UNION {ch[c].reasons : c \in Channels})
                        \cup Doubts(confidence)]

(* Mutant of MayBlock: two channels are not asked for. *)
BlocksAlone(j) ==
  /\ j.confidence >= cal.min_confidence_to_block
  /\ j.score >= cal.score_to_block

MayBlock(j) ==
  /\ j.confidence >= cal.min_confidence_to_block
  /\ j.score >= cal.score_to_block
  /\ j.contributing >= cal.min_channels_to_block

(* Mutant of MayChallenge: the floor for a block is asked for. *)
ChallengesLate(j) ==
  /\ j.confidence >= cal.min_confidence_to_block
  /\ j.score >= cal.score_to_challenge

MayChallenge(j) ==
  /\ j.confidence >= cal.min_confidence_to_challenge
  /\ j.score >= cal.score_to_challenge

(* The decision enforce mode returns.  Confidence gates first, then score. *)
Enforced(j) ==
  CASE MayBlock(j)                       -> "block"
    [] ~ MayBlock(j) /\ MayChallenge(j)  -> "challenge"
    [] OTHER                             -> "allow"

(* Apply: monitor always allows and reports what enforce would have done.  *)
Apply(j, mode) ==
  IF mode = "monitor" THEN [decision |-> "allow", shadow |-> Enforced(j)]
  ELSE [decision |-> Enforced(j), shadow |-> ""]
=============================================================================

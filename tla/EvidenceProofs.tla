--------------------------- MODULE EvidenceProofs ----------------------------
(***************************************************************************)
(* Proofs about Evidence and Policy, for every calibration validate lets   *)
(* through and sessions of any length: what a verdict rests on, what it    *)
(* takes to block, who is never accused, and that evidence adds up.        *)
(***************************************************************************)
EXTENDS Evidence, FiniteSetTheorems, WellFoundedInduction, TLAPS

-----------------------------------------------------------------------------
(* Arithmetic.                                                             *)

LEMMA Quotient ==
  ASSUME NEW a \in Int, NEW d \in Nat \ {0}
  PROVE  /\ a \div d \in Int
         /\ d * (a \div d) <= a
         /\ a < d * (a \div d) + d
OBVIOUS

LEMMA Multiply ==
  ASSUME NEW a \in Int, NEW b \in Int, NEW d \in Nat, a <= b
  PROVE  d * a <= d * b
OBVIOUS

LEMMA QuotientMonotone ==
  ASSUME NEW a \in Int, NEW b \in Int, NEW d \in Nat \ {0}, a <= b
  PROVE  a \div d <= b \div d
<1> DEFINE p == a \div d
           q == b \div d
<1>1. p \in Int /\ d * p <= a
  BY Quotient
<1>2. q \in Int /\ b < d * q + d
  BY Quotient
<1> HIDE DEF p, q
<1>3. ASSUME q + 1 <= p PROVE FALSE
  <2>1. d * (q + 1) <= d * p
    BY <1>1, <1>2, <1>3, Multiply
  <2>2. d * (q + 1) = d * q + d
    BY <1>2
  <2>3. d * q \in Int /\ d * p \in Int
    BY <1>1, <1>2
  <2> QED
    BY <1>1, <1>2, <2>1, <2>2, <2>3
<1>4. p <= q
  BY <1>1, <1>2, <1>3
<1> QED
  BY <1>4 DEF p, q

LEMMA QuotientOfNat ==
  ASSUME NEW a \in Nat, NEW d \in Nat \ {0}
  PROVE  a \div d \in Nat
<1>1. 0 \div d = 0
  OBVIOUS
<1> QED
  BY <1>1, Quotient, QuotientMonotone

LEMMA QuotientBelow ==
  ASSUME NEW a \in Int, NEW d \in Nat \ {0}, a <= 0
  PROVE  a \div d <= 0
<1>1. 0 \div d = 0
  OBVIOUS
<1> QED
  BY <1>1, QuotientMonotone, Quotient

LEMMA NoSmallerQuotient ==
  ASSUME NEW a \in Nat, NEW d \in Nat \ {0}, d <= a
  PROVE  a \div d >= 1
<1>1. d \div d = 1
  OBVIOUS
<1> QED
  BY <1>1, QuotientMonotone, Quotient

LEMMA RoundedUpWhole ==
  ASSUME NEW n \in Nat, NEW d \in Nat \ {0}
  PROVE  /\ RoundedUp(n, d) \in Nat
         /\ RoundedUp(n, d) = 0 <=> n = 0
<1>1. RoundedUp(n, d) \in Nat
  BY QuotientOfNat DEF RoundedUp
<1>2. ASSUME n = 0 PROVE RoundedUp(n, d) = 0
  <2>1. (d - 1) \div d = 0
    OBVIOUS
  <2> QED
    BY <1>2, <2>1 DEF RoundedUp
<1>3. ASSUME n # 0 PROVE RoundedUp(n, d) >= 1
  BY <1>3, NoSmallerQuotient DEF RoundedUp
<1> QED
  BY <1>1, <1>2, <1>3

LEMMA RoundedUpMonotone ==
  ASSUME NEW a \in Nat, NEW b \in Nat, NEW d \in Nat \ {0}, a <= b
  PROVE  RoundedUp(a, d) <= RoundedUp(b, d)
BY QuotientMonotone DEF RoundedUp

(* A share of a whole is at most one. *)
LEMMA RoundedUpShare ==
  ASSUME NEW a \in Nat, NEW d \in Nat \ {0}, NEW full \in Nat, a <= d
  PROVE  RoundedUp(full * a, d) \in 0 .. full
<1>1. full * a <= full * d
  BY Multiply
<1>2. full * a \in Nat /\ full * d \in Nat
  OBVIOUS
<1>3. RoundedUp(full * a, d) <= RoundedUp(full * d, d)
  BY <1>1, <1>2, RoundedUpMonotone
<1>4. RoundedUp(full * d, d) = full
  BY DEF RoundedUp
<1>5. RoundedUp(full * a, d) \in Nat
  BY <1>2, RoundedUpWhole
<1> QED
  BY <1>3, <1>4, <1>5

LEMMA LeastNatural ==
  ASSUME NEW S \in SUBSET Nat, S # {}
  PROVE  \E m \in S : \A k \in S : m <= k
<1>1. PICK m \in S : \A k \in S : ~ (<<k, m>> \in OpToRel(<, Nat))
  BY NatLessThanWellFounded, WFMin
<1>2. \A k \in S : ~ (k < m)
  BY <1>1 DEF OpToRel
<1> QED
  BY <1>2

(* Every natural has one integer root. *)
LEMMA RootExists ==
  ASSUME NEW n \in Nat
  PROVE  \E r \in 0 .. n : IsRoot(r, n)
<1> DEFINE S == {m \in Nat : m * m > n}
<1>1. n + 1 \in S
  <2>1. (n + 1) * (n + 1) = n * n + 2 * n + 1 /\ n * n \in Nat
    OBVIOUS
  <2> QED
    BY <2>1
<1>2. PICK m \in S : \A k \in S : m <= k
  BY <1>1, LeastNatural
<1>3. m \in Nat /\ m > 0 /\ m * m > n /\ m <= n + 1
  BY <1>1, <1>2
<1>4. ~ ((m - 1) * (m - 1) > n)
  BY <1>2, <1>3
<1>5. (m - 1) * (m - 1) = m * m - 2 * m + 1 /\ m * m \in Nat
  BY <1>3
<1>6. IsRoot(m - 1, n)
  BY <1>3, <1>4, <1>5 DEF IsRoot
<1> QED
  BY <1>3, <1>6

LEMMA SqrtIsRoot ==
  ASSUME NEW n \in Nat
  PROVE  IsRoot(Sqrt(n), n)
BY RootExists DEF Sqrt

LEMMA SqrtType ==
  ASSUME NEW n \in Nat
  PROVE  Sqrt(n) \in Nat
BY SqrtIsRoot DEF IsRoot

LEMMA SqrtOfSquare ==
  ASSUME NEW p \in Nat
  PROVE  Sqrt(p * p) = p
<1> DEFINE r == Sqrt(p * p)
<1>1. p * p \in Nat
  OBVIOUS
<1>2. r \in Nat /\ r * r <= p * p /\ p * p - r * r <= 2 * r
  BY <1>1, SqrtIsRoot DEF IsRoot
<1> HIDE DEF r
<1>3. ASSUME r + 1 <= p PROVE FALSE
  <2>1. (r + 1) * (r + 1) <= p * (r + 1) /\ p * (r + 1) <= p * p
    BY <1>2, <1>3, Multiply
  <2>2. (r + 1) * (r + 1) = r * r + 2 * r + 1
    BY <1>2
  <2> QED
    BY <1>2, <2>1, <2>2
<1>4. ASSUME p + 1 <= r PROVE FALSE
  <2>1. (p + 1) * (p + 1) <= r * (p + 1) /\ r * (p + 1) <= r * r
    BY <1>2, <1>4, Multiply
  <2>2. (p + 1) * (p + 1) = p * p + 2 * p + 1
    OBVIOUS
  <2> QED
    BY <1>2, <2>1, <2>2
<1>5. r = p
  BY <1>2, <1>3, <1>4
<1> QED
  BY <1>5 DEF r

-----------------------------------------------------------------------------
(* What the channels make of a feature vector.                             *)

PointerVector == [segments : Nat, path : Nat, straightness : 0 .. Full]

KeystrokeVector ==
  [intervals : Nat, flightCV : Nat, repeatRatio : 0 .. Full, meanDwell : Nat]

InteractionVector ==
  [focus : Nat, scrolls : Nat, pastes : Nat, injections : Nat,
   injectedFields : Nat, programmaticRatio : 0 .. Full]

Vectors ==
  [pointer : PointerVector, keystroke : KeystrokeVector,
   interaction : InteractionVector]

Codes ==
  {"POINTER_LINEARITY", "KEY_INTERVAL_VARIANCE_LOW", "KEY_DWELL_ABSENT",
   "KEY_INTERVALS_IDENTICAL", "VALUE_INJECTED", "PROGRAMMATIC_SCROLL",
   "NO_FOCUS_TRANSITIONS"}

(* What a channel reports: a score it is confident of names its reason. *)
Reports ==
  {r \in [score : Nat, confidence : 0 .. Certain, reasons : SUBSET Codes] :
     r.score > 0 => r.reasons # {}}

LEMMA Units == Full \in Nat /\ Certain \in Nat /\ Certain > 0
BY DEF Full, Certain

LEMMA Calibration ==
  /\ cal.straightness_floor \in Nat /\ cal.straightness_ceil \in Nat
  /\ cal.identical_interval_ratio \in Nat
  /\ cal.score_to_challenge \in Nat /\ cal.score_to_block \in Nat
  /\ cal.flight_cv_floor \in Nat /\ cal.flight_cv_ceil \in Nat
  /\ cal.dwell_absent_ms \in Nat \ {0}
  /\ cal.confidence_segments \in Nat \ {0}
  /\ cal.confidence_path_px \in Nat \ {0}
  /\ cal.confidence_intervals \in Nat \ {0}
  /\ cal.min_channels_to_block \in Nat
  /\ cal.min_confidence_to_challenge \in Nat
  /\ cal.min_confidence_to_block \in Nat
<1>1. /\ "straightness_floor" \in UnitFields /\ "straightness_ceil" \in UnitFields
      /\ "identical_interval_ratio" \in UnitFields
      /\ "score_to_challenge" \in UnitFields /\ "score_to_block" \in UnitFields
      /\ "flight_cv_floor" \in PositiveFields /\ "flight_cv_ceil" \in PositiveFields
      /\ "dwell_absent_ms" \in PositiveFields
      /\ "confidence_segments" \in PositiveFields
      /\ "confidence_path_px" \in PositiveFields
      /\ "confidence_intervals" \in PositiveFields
      /\ "min_channels_to_block" \in PositiveFields
      /\ "min_confidence_to_challenge" \in ConfidenceFields
      /\ "min_confidence_to_block" \in ConfidenceFields
  BY DEF UnitFields, PositiveFields, ConfidenceFields
<1>2. \A f \in UnitFields : cal[f] \in Nat
  BY CalibrationAssumption, Units
<1>3. \A f \in ConfidenceFields : cal[f] \in Nat
  BY CalibrationAssumption, Units
<1>4. \A f \in PositiveFields : cal[f] \in Nat \ {0}
  BY CalibrationAssumption
<1> QED
  BY <1>1, <1>2, <1>3, <1>4

LEMMA ClampType ==
  ASSUME NEW n \in Int
  PROVE  /\ Clamp(n) \in 0 .. Full
         /\ n <= 0 => Clamp(n) = 0
BY DEF Clamp, AtMost, Full

(* ramp is zero up to its zero, whichever way round it runs. *)
LEMMA RampType ==
  ASSUME NEW v \in Nat, NEW zero \in Nat, NEW one \in Nat
  PROVE  /\ Ramp(v, zero, one) \in 0 .. Full
         /\ zero <= one /\ v <= zero => Ramp(v, zero, one) = 0
         /\ one <= zero /\ v >= zero => Ramp(v, zero, one) = 0
<1>1. CASE one > zero
  <2>1. Ramp(v, zero, one) = Clamp((Full * (v - zero)) \div (one - zero))
    BY <1>1 DEF Ramp
  <2>2. one - zero \in Nat \ {0} /\ Full * (v - zero) \in Int
    BY <1>1 DEF Full
  <2>3. v <= zero => Full * (v - zero) <= 0
    BY DEF Full
  <2>4. (Full * (v - zero)) \div (one - zero) \in Int
    BY <2>2, Quotient
  <2>5. v <= zero => (Full * (v - zero)) \div (one - zero) <= 0
    BY <2>2, <2>3, QuotientBelow
  <2> QED
    BY <1>1, <2>1, <2>4, <2>5, ClampType
<1>2. CASE one < zero
  <2>1. Ramp(v, zero, one) = Clamp((Full * (zero - v)) \div (zero - one))
    BY <1>2 DEF Ramp
  <2>2. zero - one \in Nat \ {0} /\ Full * (zero - v) \in Int
    BY <1>2 DEF Full
  <2>3. v >= zero => Full * (zero - v) <= 0
    BY DEF Full
  <2>4. (Full * (zero - v)) \div (zero - one) \in Int
    BY <2>2, Quotient
  <2>5. v >= zero => (Full * (zero - v)) \div (zero - one) <= 0
    BY <2>2, <2>3, QuotientBelow
  <2> QED
    BY <1>2, <2>1, <2>4, <2>5, ClampType
<1>3. CASE one = zero
  <2>1. ~ (one > zero) /\ ~ (one < zero)
    BY <1>3
  <2>2. Ramp(v, zero, one) = 0
    BY <2>1, Zenon DEF Ramp
  <2> QED
    BY <2>2 DEF Full
<1> QED
  BY <1>1, <1>2, <1>3

LEMMA PortionType ==
  ASSUME NEW n \in Nat, NEW full \in Nat \ {0}
  PROVE  /\ Portion(n, full) \in 0 .. Certain
         /\ Portion(n, full) = 0 <=> n = 0
<1>1. CASE n >= full
  BY <1>1 DEF Portion, Certain
<1>2. CASE n < full
  <2>1. Certain \in Nat /\ Certain * n \in Nat /\ (Certain * n = 0 <=> n = 0)
    BY DEF Certain
  <2>4. n <= full
    BY <1>2
  <2>2. RoundedUp(Certain * n, full) \in 0 .. Certain
    BY <2>1, <2>4, RoundedUpShare
  <2>3. RoundedUp(Certain * n, full) = 0 <=> Certain * n = 0
    BY <2>1, RoundedUpWhole
  <2> QED
    BY <1>2, <2>1, <2>2, <2>3 DEF Portion
<1> QED
  BY <1>1, <1>2

LEMMA PortionMonotone ==
  ASSUME NEW a \in Nat, NEW b \in Nat, NEW full \in Nat \ {0}, a <= b
  PROVE  Portion(a, full) <= Portion(b, full)
<1>1. CASE b >= full
  <2>1. Portion(a, full) \in 0 .. Certain
    BY PortionType
  <2>2. Portion(b, full) = Certain
    BY <1>1 DEF Portion
  <2> QED
    BY <2>1, <2>2, Units
<1>2. CASE b < full
  <2>1. Certain * a \in Nat /\ Certain * b \in Nat /\ Certain * a <= Certain * b
    BY DEF Certain
  <2> QED
    BY <1>2, <2>1, RoundedUpMonotone DEF Portion
<1> QED
  BY <1>1, <1>2

LEMMA SumOfShares ==
  ASSUME NEW n \in Nat, NEW a \in 0 .. n, NEW b \in 0 .. n
  PROVE  a + b \in 0 .. 2 * n
OBVIOUS

LEMMA GreatestOfThree ==
  ASSUME NEW a \in Int, NEW b \in Int, NEW c \in Int
  PROVE  /\ Max({a, b, c}) \in {a, b, c}
         /\ a <= Max({a, b, c}) /\ b <= Max({a, b, c}) /\ c <= Max({a, b, c})
<1>1. \E x \in {a, b, c} : \A y \in {a, b, c} : x >= y
  <2>1. CASE a >= b /\ a >= c
    BY <2>1
  <2>2. CASE b >= a /\ b >= c
    BY <2>2
  <2>3. CASE c >= a /\ c >= b
    BY <2>3
  <2> QED
    BY <2>1, <2>2, <2>3
<1> QED
  BY <1>1 DEF Max

LEMMA GreatestOfTwo ==
  ASSUME NEW a \in Int, NEW b \in Int
  PROVE  /\ Max({a, b}) \in {a, b}
         /\ a <= Max({a, b}) /\ b <= Max({a, b})
<1>1. {a, b} = {a, a, b}
  OBVIOUS
<1> QED
  BY <1>1, GreatestOfThree

LEMMA SilentReports ==
  Silent \in Reports /\ Silent.score = 0 /\ Silent.confidence = 0
BY Units DEF Silent, Reports

(* The pointer channel speaks once a segment was seen, and accuses only of *)
(* straightness.                                                           *)
LEMMA PointerReport ==
  ASSUME NEW p \in PointerVector
  PROVE  /\ PointerChannel(p) \in Reports
         /\ PointerChannel(p).confidence > 0 => p.segments > 0
         /\ cal.straightness_floor <= cal.straightness_ceil
            /\ p.straightness <= cal.straightness_floor
              => PointerChannel(p).score = 0
<1> DEFINE score == Ramp(p.straightness, cal.straightness_floor, cal.straightness_ceil)
           cut   == Portion(p.segments, cal.confidence_segments)
           far   == Portion(p.path, cal.confidence_path_px)
           whole == cut + far
<1>1. /\ p.segments \in Nat /\ p.path \in Nat
      /\ p.straightness \in Nat
  BY DEF PointerVector, Full
<1>2. /\ score \in 0 .. Full
      /\ cal.straightness_floor <= cal.straightness_ceil
         /\ p.straightness <= cal.straightness_floor => score = 0
  BY <1>1, Calibration, RampType
<1>3. cut \in 0 .. Certain /\ far \in 0 .. Certain
  BY <1>1, Calibration, PortionType
<1>4. whole \in 0 .. 2 * Certain
  <2> HIDE DEF cut, far
  <2> QED
    BY <1>3, Units, SumOfShares
<1> HIDE DEF score, cut, far, whole
<1>5. RoundedUp(whole, 2) \in 0 .. Certain
  BY <1>4 DEF RoundedUp, Certain
<1>6. PointerChannel(p) =
        IF p.segments = 0 THEN Silent
        ELSE [score |-> score, confidence |-> RoundedUp(whole, 2),
              reasons |-> {c \in {"POINTER_LINEARITY"} : score > 0}]
  BY DEF PointerChannel, score, cut, far, whole
<1>7. CASE p.segments = 0
  BY <1>6, <1>7, SilentReports
<1>8. CASE p.segments # 0
  <2>1. score > 0 => "POINTER_LINEARITY" \in {c \in {"POINTER_LINEARITY"} : score > 0}
    OBVIOUS
  <2>2. PointerChannel(p) \in [score : Nat, confidence : 0 .. Certain, reasons : SUBSET Codes]
    BY <1>2, <1>5, <1>6, <1>8 DEF Codes, Full
  <2>3. PointerChannel(p) \in Reports
    BY <1>6, <1>8, <2>1, <2>2 DEF Reports
  <2> QED
    BY <1>1, <1>2, <1>6, <1>8, <2>3
<1> QED
  BY <1>7, <1>8

(* The rhythm ramp runs down, as it does in the shipped calibration. *)
FallingRhythm == cal.flight_cv_ceil <= cal.flight_cv_floor

IrregularTyping(k) ==
  /\ k.flightCV >= cal.flight_cv_floor \/ k.intervals = 0
  /\ k.repeatRatio = 0
  /\ k.meanDwell >= cal.dwell_absent_ms \/ k.meanDwell = 0

(* The keystroke channel: irregular intervals of differing lengths and     *)
(* held keys accuse nobody.                                                *)
LEMMA KeystrokeReport ==
  ASSUME NEW k \in KeystrokeVector
  PROVE  /\ KeystrokeChannel(k) \in Reports
         /\ KeystrokeChannel(k).confidence > 0 => k.intervals > 0
         /\ FallingRhythm /\ IrregularTyping(k) => KeystrokeChannel(k).score = 0
<1> DEFINE rhythm == Ramp(k.flightCV, cal.flight_cv_floor, cal.flight_cv_ceil)
           dwell == IF 0 < k.meanDwell /\ k.meanDwell < cal.dwell_absent_ms
                    THEN Full - (Full * k.meanDwell) \div cal.dwell_absent_ms ELSE 0
           most == Max({1, cal.identical_interval_ratio})
           identical == IF k.repeatRatio = 0 THEN 0
                        ELSE AtMost(Full, (Full * k.repeatRatio) \div most)
           score == Max({rhythm, dwell, identical})
           reasons == {c \in {"KEY_INTERVAL_VARIANCE_LOW"} : rhythm > 0}
                      \cup {c \in {"KEY_DWELL_ABSENT"} : dwell > 0}
                      \cup {c \in {"KEY_INTERVALS_IDENTICAL"} : identical > 0}
           confidence == Portion(k.intervals, cal.confidence_intervals)
<1>1. /\ k.intervals \in Nat /\ k.flightCV \in Nat /\ k.repeatRatio \in Nat
      /\ k.meanDwell \in Nat
  BY Units DEF KeystrokeVector
<1>2. /\ rhythm \in Nat
      /\ cal.flight_cv_ceil <= cal.flight_cv_floor /\ k.flightCV >= cal.flight_cv_floor
           => rhythm = 0
  <2>1. cal.flight_cv_floor \in Nat /\ cal.flight_cv_ceil \in Nat
    BY Calibration
  <2>2. rhythm \in 0 .. Full
    BY <1>1, <2>1, RampType
  <2>3. cal.flight_cv_ceil <= cal.flight_cv_floor /\ k.flightCV >= cal.flight_cv_floor
          => rhythm = 0
    BY <1>1, <2>1, RampType
  <2> QED
    BY <2>2, <2>3, Units
<1>3. /\ dwell \in Nat
      /\ k.meanDwell >= cal.dwell_absent_ms \/ k.meanDwell = 0 => dwell = 0
  <2> DEFINE ms == k.meanDwell
             whole == cal.dwell_absent_ms
  <2>1. ms \in Nat /\ whole \in Nat \ {0}
    BY <1>1, Calibration
  <2> HIDE DEF ms, whole
  <2>2. CASE 0 < ms /\ ms < whole
    <3>1. Full * ms <= Full * whole /\ Full * ms \in Int /\ Full * whole \in Int
      BY <2>1, <2>2, Units, Multiply
    <3>2. (Full * ms) \div whole <= (Full * whole) \div whole
      BY <2>1, <3>1, QuotientMonotone
    <3>3. (Full * whole) \div whole = Full
      BY <2>1 DEF Full
    <3>4. (Full * ms) \div whole \in Int
      BY <2>1, <3>1, Quotient
    <3>5. Full - (Full * ms) \div whole \in Nat
      BY <3>2, <3>3, <3>4, Units
    <3> QED
      BY <2>1, <2>2, <3>5 DEF ms, whole
  <2>3. CASE ~ (0 < ms /\ ms < whole)
    BY <2>3, Units DEF ms, whole
  <2> QED
    BY <2>2, <2>3
<1>4. /\ identical \in Nat
      /\ k.repeatRatio = 0 => identical = 0
  <2>1. most \in Nat \ {0}
    <3>1. cal.identical_interval_ratio \in Nat
      BY Calibration
    <3>3. \A a, b \in Nat : Max({a, b}) \in {a, b} /\ a <= Max({a, b})
      BY GreatestOfTwo
    <3>2. most \in {1, cal.identical_interval_ratio} /\ 1 <= most
      BY <3>1, <3>3
    <3> HIDE DEF most
    <3> QED
      BY <3>1, <3>2
  <2> HIDE DEF most
  <2>2. (Full * k.repeatRatio) \div most \in Nat
    BY <1>1, <2>1, Units, QuotientOfNat
  <2> QED
    BY <2>2, Units DEF AtMost
<1>5. confidence \in 0 .. Certain /\ (k.intervals = 0 => confidence = 0)
  BY <1>1, Calibration, PortionType
<1>6. KeystrokeChannel(k) =
        IF k.intervals = 0 THEN Silent
        ELSE [score |-> score, confidence |-> confidence, reasons |-> reasons]
  BY DEF KeystrokeChannel
<1> HIDE DEF rhythm, dwell, identical, confidence
<1>7. /\ score \in {rhythm, dwell, identical}
      /\ score \in Nat
      /\ rhythm = 0 /\ dwell = 0 /\ identical = 0 => score = 0
  <2>1. \A a, b, c \in Nat : Max({a, b, c}) \in {a, b, c}
    BY GreatestOfThree
  <2>2. score \in {rhythm, dwell, identical}
    BY <1>2, <1>3, <1>4, <2>1
  <2> HIDE DEF score
  <2> QED
    BY <1>2, <1>3, <1>4, <2>2
<1> HIDE DEF score
<1>8. /\ reasons \in SUBSET Codes
      /\ score > 0 => reasons # {}
  BY <1>7 DEF Codes
<1> HIDE DEF reasons
<1>9. CASE k.intervals = 0
  <2>1. KeystrokeChannel(k) = Silent
    BY <1>6, <1>9
  <2> QED
    BY <2>1, SilentReports
<1>10. CASE k.intervals # 0
  <2>1. KeystrokeChannel(k) \in Reports
    BY <1>5, <1>6, <1>7, <1>8, <1>10 DEF Reports
  <2>2. KeystrokeChannel(k).score = score
    BY <1>6, <1>10
  <2>3. k.intervals > 0
    BY <1>1, <1>10
  <2>4. FallingRhythm /\ IrregularTyping(k) => rhythm = 0 /\ dwell = 0 /\ identical = 0
    BY <1>2, <1>3, <1>4, <1>10 DEF FallingRhythm, IrregularTyping
  <2> QED
    BY <1>2, <1>3, <1>4, <1>7, <2>1, <2>2, <2>3, <2>4
<1> QED
  BY <1>9, <1>10

(* What the interaction channel rests on. *)
Spoke(i) == i.focus > 0 \/ i.scrolls > 0 \/ i.pastes > 0 \/ i.injections > 0

OrdinaryForm(i) ==
  /\ i.focus > 0 \/ ~ Spoke(i)
  /\ i.injections = 0 /\ i.programmaticRatio = 0

(* The interaction channel: focus that changed hands, no injection and no  *)
(* programmatic scroll accuse nobody.                                      *)
LEMMA InteractionReport ==
  ASSUME NEW i \in InteractionVector
  PROVE  /\ InteractionChannel(i) \in Reports
         /\ InteractionChannel(i).confidence > 0 => Spoke(i)
         /\ OrdinaryForm(i) => InteractionChannel(i).score = 0
<1> DEFINE injected == IF i.injections > 0
                       THEN AtMost(Full, 550 + 250 * i.injectedFields) ELSE 0
           prog == AtMost(Full, 2 * i.programmaticRatio)
           noFocus == IF i.focus = 0 THEN 600 ELSE 0
           categorical == i.injections > 0 \/ i.programmaticRatio > 0
           score == Max({prog, noFocus, injected})
           structure == (Certain * i.focus) \div 6 + (Certain * i.scrolls) \div 20
           confidence == IF categorical THEN Certain ELSE AtMost(Certain, structure)
           reasons == {c \in {"VALUE_INJECTED"} : injected > 0}
                      \cup {c \in {"PROGRAMMATIC_SCROLL"} : prog > 0}
                      \cup {c \in {"NO_FOCUS_TRANSITIONS"} : noFocus > 0}
<1>1. /\ i.focus \in Nat /\ i.scrolls \in Nat /\ i.pastes \in Nat /\ i.injections \in Nat
      /\ i.injectedFields \in Nat /\ i.programmaticRatio \in Nat
  BY Units DEF InteractionVector
<1>2. injected \in Nat /\ (i.injections = 0 => injected = 0)
  BY <1>1, Units DEF AtMost
<1>3. prog \in Nat /\ (i.programmaticRatio = 0 => prog = 0)
  BY <1>1 DEF AtMost, Full
<1>4. noFocus \in Nat /\ (i.focus > 0 => noFocus = 0)
  BY <1>1
<1>5. confidence \in 0 .. Certain
  <2>1. structure \in Nat
    <3>1. (Certain * i.focus) \div 6 \in Nat
      BY <1>1, Units, QuotientOfNat
    <3>2. (Certain * i.scrolls) \div 20 \in Nat
      BY <1>1, Units, QuotientOfNat
    <3> QED
      BY <3>1, <3>2
  <2> QED
    BY <2>1, Units DEF AtMost
<1>6. InteractionChannel(i) =
        IF ~ Spoke(i) THEN Silent
        ELSE [score |-> score, confidence |-> confidence, reasons |-> reasons]
  BY <1>1 DEF InteractionChannel, Spoke
<1> HIDE DEF injected, prog, noFocus, confidence
<1>7. /\ score \in {prog, noFocus, injected}
      /\ score \in Nat
      /\ prog = 0 /\ noFocus = 0 /\ injected = 0 => score = 0
  <2>1. \A a, b, c \in Nat : Max({a, b, c}) \in {a, b, c}
    BY GreatestOfThree
  <2>2. score \in {prog, noFocus, injected}
    BY <1>2, <1>3, <1>4, <2>1
  <2> HIDE DEF score
  <2> QED
    BY <1>2, <1>3, <1>4, <2>2
<1> HIDE DEF score
<1>8. /\ reasons \in SUBSET Codes
      /\ score > 0 => reasons # {}
  BY <1>7 DEF Codes
<1> HIDE DEF reasons
<1>9. CASE ~ Spoke(i)
  BY <1>6, <1>9, SilentReports
<1>10. CASE Spoke(i)
  <2>1. InteractionChannel(i) \in Reports
    BY <1>5, <1>6, <1>7, <1>8, <1>10 DEF Reports
  <2>2. InteractionChannel(i).score = score
    BY <1>6, <1>10
  <2>3. OrdinaryForm(i) => prog = 0 /\ noFocus = 0 /\ injected = 0
    BY <1>2, <1>3, <1>4, <1>10 DEF OrdinaryForm
  <2> QED
    BY <1>7, <1>10, <2>1, <2>2, <2>3
<1> QED
  BY <1>9, <1>10

-----------------------------------------------------------------------------
(* Judge.                                                                  *)

LEMMA ChannelReports ==
  ASSUME NEW st \in Vectors, NEW c \in Channels
  PROVE  /\ ChannelsOf(st)[c] \in Reports
         /\ ChannelsOf(st)[c].score \in Nat
         /\ ChannelsOf(st)[c].confidence \in Nat
<1>1. /\ st.pointer \in PointerVector
      /\ st.keystroke \in KeystrokeVector
      /\ st.interaction \in InteractionVector
  BY DEF Vectors
<1>2. ChannelsOf(st)[c] \in Reports
  BY <1>1, PointerReport, KeystrokeReport, InteractionReport DEF ChannelsOf, Channels
<1>3. \A r \in Reports : r.score \in Nat /\ r.confidence \in Nat
  BY Units DEF Reports
<1> QED
  BY <1>2, <1>3

LEMMA WeightsType ==
  ASSUME NEW a \in Actions, NEW c \in Channels
  PROVE  actionWeights[a][c] \in Nat \ {0}
<1>1. Actions = {"login", "signup", "checkout", "comment", "other"}
  BY DEF Actions, actionWeights
<1>2. CASE a = "login"
  BY <1>2 DEF actionWeights, Channels
<1>3. CASE a = "signup"
  BY <1>3 DEF actionWeights, Channels
<1>4. CASE a = "checkout"
  BY <1>4 DEF actionWeights, Channels
<1>5. CASE a = "comment"
  BY <1>5 DEF actionWeights, Channels
<1>6. CASE a = "other"
  BY <1>6 DEF actionWeights, Channels
<1> QED
  BY <1>1, <1>2, <1>3, <1>4, <1>5, <1>6

LEMMA DominantType ==
  ASSUME NEW a \in Actions, NEW ch
  PROVE  Dominant(ch, actionWeights[a]) \in Nat \ {0}
<1> DEFINE w == actionWeights[a]
<1>1. /\ w["pointer"] \in Nat \ {0} /\ w["keystroke"] \in Nat \ {0}
      /\ w["interaction"] \in Nat \ {0}
  BY WeightsType DEF Channels
<1> HIDE DEF w
<1>2. {w[c] : c \in Channels} = {w["pointer"], w["keystroke"], w["interaction"]}
  BY DEF Channels
<1>3. Dominant(ch, w) \in {w["pointer"], w["keystroke"], w["interaction"]}
  <2>1. \A x, y, z \in Nat : Max({x, y, z}) \in {x, y, z}
    BY GreatestOfThree
  <2> QED
    BY <1>1, <1>2, <2>1 DEF Dominant
<1> QED
  BY <1>1, <1>3 DEF w

(* The evidence an action weighs, and the votes it gives. *)
Effective(st, a) ==
  [c \in Channels |-> actionWeights[a][c] * ChannelsOf(st)[c].confidence]

Votes(st, a) ==
  [c \in Channels |-> ChannelsOf(st)[c].score * Effective(st, a)[c]]

LEMMA ProductOfNats ==
  ASSUME NEW a \in Nat, NEW b \in Nat
  PROVE  a * b \in Nat
OBVIOUS

LEMMA EffectiveType ==
  ASSUME NEW st \in Vectors, NEW a \in Actions, NEW c \in Channels
  PROVE  Effective(st, a)[c] \in Nat
BY ChannelReports, WeightsType, ProductOfNats DEF Effective

LEMMA TotalsType ==
  ASSUME NEW st \in Vectors, NEW a \in Actions
  PROVE  Total(Effective(st, a)) \in Nat /\ Total(Votes(st, a)) \in Nat
<1>1. \A c \in Channels : Effective(st, a)[c] \in Nat
  BY EffectiveType
<1>2. ASSUME NEW c \in Channels PROVE Votes(st, a)[c] \in Nat
  <2>1. ChannelsOf(st)[c].score * Effective(st, a)[c] \in Nat
    BY <1>1, ChannelReports, ProductOfNats
  <2> QED
    BY <2>1 DEF Votes
<1> QED
  BY <1>1, <1>2 DEF Total, Channels

LEMMA JudgeOf ==
  ASSUME NEW st, NEW a
  PROVE  /\ Judge(st, a).score = IF Total(Effective(st, a)) = 0 THEN 0
                                 ELSE Total(Votes(st, a)) \div Total(Effective(st, a))
         /\ Judge(st, a).confidence =
              AtMost(Certain, Total(Effective(st, a))
                                \div Dominant(ChannelsOf(st), actionWeights[a]))
         /\ Judge(st, a).contributing =
              Cardinality({c \in Channels : ChannelsOf(st)[c].confidence > 0})
BY DEF Judge, Effective, Votes

LEMMA ReasonsOf ==
  ASSUME NEW st, NEW a
  PROVE  /\ \A c \in Channels : ChannelsOf(st)[c].reasons \subseteq Judge(st, a).reasons
         /\ Judge(st, a).confidence < cal.min_confidence_to_challenge
              => "INSUFFICIENT_EVIDENCE" \in Judge(st, a).reasons
<1>1. Judge(st, a).reasons = (UNION {ChannelsOf(st)[c].reasons : c \in Channels})
                             \cup Doubts(Judge(st, a).confidence)
  BY DEF Judge
<1>2. \A c \in Channels : ChannelsOf(st)[c].reasons \subseteq Judge(st, a).reasons
  BY <1>1
<1>3. Judge(st, a).confidence < cal.min_confidence_to_challenge
        => "INSUFFICIENT_EVIDENCE" \in Doubts(Judge(st, a).confidence)
  BY DEF Doubts
<1>4. Doubts(Judge(st, a).confidence) \subseteq Judge(st, a).reasons
  BY <1>1
<1> QED
  BY <1>2, <1>3, <1>4

(* Somebody must accuse for a score. *)
LEMMA ScoreIsVoted ==
  ASSUME NEW st \in Vectors, NEW a \in Actions
  PROVE  /\ Judge(st, a).score \in Nat
         /\ Judge(st, a).score > 0 => \E c \in Channels : ChannelsOf(st)[c].score > 0
<1> DEFINE eff == Total(Effective(st, a))
           votes == Total(Votes(st, a))
<1>1. eff \in Nat /\ votes \in Nat
  BY TotalsType
<1>2. Judge(st, a).score = IF eff = 0 THEN 0 ELSE votes \div eff
  BY JudgeOf
<1>3. ASSUME \A c \in Channels : ~ (ChannelsOf(st)[c].score > 0)
      PROVE  votes = 0
  <2>1. ASSUME NEW c \in Channels PROVE Votes(st, a)[c] = 0
    <3>1. ChannelsOf(st)[c].score = 0
      BY <1>3, ChannelReports
    <3>2. Effective(st, a)[c] \in Nat
      BY EffectiveType
    <3>3. \A n \in Nat : 0 * n = 0
      OBVIOUS
    <3> QED
      BY <3>1, <3>2, <3>3 DEF Votes
  <2> QED
    BY <2>1 DEF Total, Channels
<1> HIDE DEF eff, votes
<1>4. CASE eff = 0
  BY <1>2, <1>4
<1>5. CASE eff # 0
  <2>1. votes \div eff \in Nat
    BY <1>1, <1>5, QuotientOfNat
  <2>2. votes = 0 => votes \div eff = 0
    BY <1>1, <1>5
  <2> QED
    BY <1>2, <1>3, <1>5, <2>1, <2>2
<1> QED
  BY <1>4, <1>5

LEMMA ConfidenceType ==
  ASSUME NEW st \in Vectors, NEW a \in Actions
  PROVE  Judge(st, a).confidence \in 0 .. Certain
<1>1. Total(Effective(st, a)) \div Dominant(ChannelsOf(st), actionWeights[a]) \in Nat
  BY TotalsType, DominantType, QuotientOfNat
<1>2. Judge(st, a).confidence =
        AtMost(Certain, Total(Effective(st, a))
                          \div Dominant(ChannelsOf(st), actionWeights[a]))
  BY JudgeOf
<1> QED
  BY <1>1, <1>2, Units DEF AtMost

(* Every channel's confidence counts for a judgement, and none against.    *)
LEMMA ConfidenceMonotone ==
  ASSUME NEW st \in Vectors, NEW su \in Vectors, NEW a \in Actions,
         \A c \in Channels : ChannelsOf(st)[c].confidence <= ChannelsOf(su)[c].confidence
  PROVE  Judge(su, a).confidence >= Judge(st, a).confidence
<1> DEFINE w == actionWeights[a]
           before == Total(Effective(st, a))
           after == Total(Effective(su, a))
           most == Dominant(ChannelsOf(st), w)
<1>1. before \in Nat /\ after \in Nat
  BY TotalsType
<1>2. before <= after
  <2>1. ASSUME NEW c \in Channels PROVE Effective(st, a)[c] <= Effective(su, a)[c]
    <3>1. w[c] * ChannelsOf(st)[c].confidence <= w[c] * ChannelsOf(su)[c].confidence
      BY ChannelReports, WeightsType, Multiply
    <3> QED
      BY <3>1 DEF Effective
  <2>2. \A c \in Channels : Effective(st, a)[c] \in Nat /\ Effective(su, a)[c] \in Nat
    BY EffectiveType
  <2> QED
    BY <2>1, <2>2 DEF Total, Channels
<1>3. most \in Nat \ {0} /\ most = Dominant(ChannelsOf(su), w)
  BY DominantType DEF Dominant
<1>4. /\ Judge(st, a).confidence = AtMost(Certain, before \div most)
      /\ Judge(su, a).confidence = AtMost(Certain, after \div most)
  BY <1>3, JudgeOf
<1> HIDE DEF before, after, most
<1>5. before \div most <= after \div most /\ before \div most \in Nat
      /\ after \div most \in Nat
  BY <1>1, <1>2, <1>3, QuotientMonotone, QuotientOfNat
<1> QED
  BY <1>4, <1>5, Units DEF AtMost

-----------------------------------------------------------------------------
(* The accumulators.                                                       *)

PointerType ==
  [net : Nat, path : Nat, segments : Nat, points : Nat, cur : SegmentType]

(* A segment is made of samples, and there is one open once any came. *)
PointerInv(p) ==
  /\ p \in PointerType
  /\ p.net <= p.path
  /\ p.points >= p.cur.count
  /\ p.cur.count = 0 => p.points = 0
  /\ p.segments > 0 => p.points >= MinSegmentPoints

KeystrokeInv(k) ==
  /\ k \in [flights : Nat, sum : Nat, sumSq : Nat, repeats : Nat,
            lastFlight : Flights \cup {None}, dwells : Nat, dwellSum : Nat,
            pending : SUBSET Keys, haveLastUp : BOOLEAN, keys : Nat]
  /\ k.repeats <= k.flights

InteractionInv(i) ==
  /\ i \in [scrolls : Nat, programmatic : Nat, focus : Nat, pastes : Nat,
            injections : Nat, injectedFields : SUBSET Fields]
  /\ i.programmatic <= i.scrolls
  /\ IsFiniteSet(i.injectedFields)

(* The inductive invariant of the accumulators. *)
IInv ==
  /\ PointerInv(pointer)
  /\ KeystrokeInv(keystroke)
  /\ InteractionInv(interaction)
  /\ course \in [heading : Steps \cup {None}, gentle : BOOLEAN]

LEMMA SquareType ==
  ASSUME NEW n \in Int
  PROVE  n * n \in Nat
<1>1. CASE n >= 0
  BY <1>1
<1>2. CASE n < 0
  BY <1>2
<1> QED
  BY <1>1, <1>2

LEMMA NetType ==
  ASSUME NEW seg \in SegmentType
  PROVE  Net(seg) \in 0 .. seg.path
<1>1. seg.x \in Int /\ seg.y \in Int /\ seg.path \in Nat
  BY DEF SegmentType
<1>2. seg.x * seg.x \in Nat /\ seg.y * seg.y \in Nat
  BY <1>1, SquareType
<1>3. Sqrt(seg.x * seg.x + seg.y * seg.y) \in Nat
  BY <1>2, SqrtType
<1> QED
  BY <1>1, <1>3 DEF Net, AtMost

LEMMA NoSegmentType ==
  /\ NoSegment \in SegmentType /\ NoSegment.count = 0
  /\ StartSegment \in SegmentType /\ StartSegment.count = 1
BY DEF NoSegment, StartSegment, SegmentType

(* What closing adds. *)
LEMMA ClosedAdds ==
  ASSUME NEW p \in PointerType
  PROVE  /\ Closed(p) \in PointerType
         /\ Closed(p).cur = NoSegment
         /\ Closed(p).points = p.points
         /\ Qualifies(p.cur) => /\ Closed(p).net = p.net + Net(p.cur)
                                /\ Closed(p).path = p.path + p.cur.path
                                /\ Closed(p).segments = p.segments + 1
         /\ ~ Qualifies(p.cur) => /\ Closed(p).net = p.net
                                  /\ Closed(p).path = p.path
                                  /\ Closed(p).segments = p.segments
<1>1. p.cur \in SegmentType /\ p.cur.path \in Nat /\ Net(p.cur) \in 0 .. p.cur.path
  BY NetType DEF PointerType, SegmentType
<1>2. Net(p.cur) \in Nat
  BY <1>1
<1>3. CASE Qualifies(p.cur)
  <2>1. Closed(p) = [net |-> p.net + Net(p.cur), path |-> p.path + p.cur.path,
                     segments |-> p.segments + 1, points |-> p.points,
                     cur |-> NoSegment]
    BY <1>3 DEF Closed, PointerType
  <2> QED
    BY <1>1, <1>2, <1>3, <2>1, NoSegmentType DEF PointerType
<1>4. CASE ~ Qualifies(p.cur)
  <2>1. Closed(p) = [net |-> p.net, path |-> p.path, segments |-> p.segments,
                     points |-> p.points, cur |-> NoSegment]
    BY <1>4 DEF Closed, PointerType
  <2> QED
    BY <1>4, <2>1, NoSegmentType DEF PointerType
<1> QED
  BY <1>3, <1>4

LEMMA ClosedKeeps ==
  ASSUME NEW p, PointerInv(p)
  PROVE  /\ Closed(p).net <= Closed(p).path
         /\ Closed(p).segments > 0 => p.points >= MinSegmentPoints
<1>1. /\ p \in PointerType /\ p.net \in Nat /\ p.path \in Nat /\ p.segments \in Nat
      /\ p.points \in Nat /\ p.cur \in SegmentType /\ p.cur.path \in Nat
      /\ p.cur.count \in Nat
  BY DEF PointerInv, PointerType, SegmentType
<1>2. Net(p.cur) \in 0 .. p.cur.path
  BY <1>1, NetType
<1>3. CASE Qualifies(p.cur)
  <2>1. p.points >= MinSegmentPoints
    BY <1>1, <1>3 DEF PointerInv, Qualifies, MinSegmentPoints
  <2> QED
    BY <1>1, <1>2, <1>3, <2>1, ClosedAdds DEF PointerInv
<1>4. CASE ~ Qualifies(p.cur)
  BY <1>1, <1>4, ClosedAdds DEF PointerInv
<1> QED
  BY <1>3, <1>4

(* The four things a sample can do. *)
LEMMA SampledCases ==
  ASSUME NEW p \in PointerType, NEW step \in Steps, NEW paused \in BOOLEAN
  PROVE  \/ /\ p.cur.count = 0
            /\ Sampled(p, step, paused) = [p EXCEPT !.cur = StartSegment]
         \/ /\ p.cur.count > 0 /\ paused
            /\ Sampled(p, step, paused) = [Closed(p) EXCEPT !.cur = StartSegment]
         \/ /\ p.cur.count > 0 /\ ~ paused /\ TurnsAway(p.cur, step)
            /\ Sampled(p, step, paused) = [Closed(p) EXCEPT !.cur = LegFrom(step)]
         \/ /\ p.cur.count > 0 /\ ~ paused /\ ~ TurnsAway(p.cur, step)
            /\ Sampled(p, step, paused) = [p EXCEPT !.cur = Extended(p.cur, step)]
<1>1. p.cur.count \in Nat
  BY DEF PointerType, SegmentType
<1> QED
  BY <1>1 DEF Sampled

LEMMA StepType ==
  ASSUME NEW step \in Steps
  PROVE  /\ step.x \in Int /\ step.y \in Int /\ step.len \in Nat
         /\ step.x * step.x + step.y * step.y = step.len * step.len
         /\ step # None
BY EvidenceAssumption

LEMMA LegType ==
  ASSUME NEW step \in Steps
  PROVE  LegFrom(step) \in SegmentType /\ LegFrom(step).count = 2
BY StepType DEF LegFrom, SegmentType

LEMMA ExtendedType ==
  ASSUME NEW seg \in SegmentType, NEW step \in Steps
  PROVE  /\ Extended(seg, step) \in SegmentType
         /\ Extended(seg, step).count = seg.count + 1
         /\ Extended(seg, step).path = seg.path + step.len
<1>1. /\ seg.count \in Nat /\ seg.path \in Nat /\ seg.x \in Int /\ seg.y \in Int
      /\ seg.dir \in Steps \cup {None}
  BY DEF SegmentType
<1> QED
  BY <1>1, StepType DEF Extended, SegmentType

(* Replacing the open segment leaves the rest of the accumulator. *)
LEMMA WithSegment ==
  ASSUME NEW p \in PointerType, NEW seg \in SegmentType
  PROVE  /\ [[p EXCEPT !.cur = seg] EXCEPT !.points = @ + 1] \in PointerType
         /\ [[p EXCEPT !.cur = seg] EXCEPT !.points = @ + 1]
              = [net |-> p.net, path |-> p.path, segments |-> p.segments,
                 points |-> p.points + 1, cur |-> seg]
<1>1. /\ p.net \in Nat /\ p.path \in Nat /\ p.segments \in Nat /\ p.points \in Nat
      /\ [p EXCEPT !.cur = seg] = [net |-> p.net, path |-> p.path, segments |-> p.segments,
                                   points |-> p.points, cur |-> seg]
  BY DEF PointerType
<1>2. [[p EXCEPT !.cur = seg] EXCEPT !.points = @ + 1]
         = [net |-> p.net, path |-> p.path, segments |-> p.segments,
            points |-> p.points + 1, cur |-> seg]
  <2> DEFINE r == [p EXCEPT !.cur = seg]
  <2>1. r = [net |-> p.net, path |-> p.path, segments |-> p.segments,
             points |-> p.points, cur |-> seg]
    BY <1>1
  <2> HIDE DEF r
  <2>2. [r EXCEPT !.points = @ + 1]
          = [net |-> p.net, path |-> p.path, segments |-> p.segments,
             points |-> p.points + 1, cur |-> seg]
    BY <2>1
  <2> QED
    BY <2>2 DEF r
<1> QED
  BY <1>1, <1>2 DEF PointerType

LEMMA PointerOf ==
  ASSUME NEW net \in Nat, NEW path \in Nat, NEW segments \in Nat, NEW points \in Nat,
         NEW cur \in SegmentType, net <= path, points >= cur.count, cur.count > 0,
         segments > 0 => points >= MinSegmentPoints
  PROVE  PointerInv([net |-> net, path |-> path, segments |-> segments,
                     points |-> points, cur |-> cur])
<1>1. cur.count \in Nat
  BY DEF SegmentType
<1> QED
  BY <1>1 DEF PointerInv, PointerType

(* The accumulator after one more sample, seg being the open segment. *)
Pointing(p, seg) ==
  [net |-> p.net, path |-> p.path, segments |-> p.segments,
   points |-> p.points + 1, cur |-> seg]

LEMMA PointingType ==
  ASSUME NEW p \in PointerType, NEW seg \in SegmentType
  PROVE  /\ Pointing(p, seg) \in PointerType
         /\ Pointing(p, seg).cur = seg
         /\ Pointing(p, seg).net = p.net /\ Pointing(p, seg).path = p.path
         /\ Pointing(p, seg).segments = p.segments
BY DEF Pointing, PointerType

AfterSample(p, step, paused) == [Sampled(p, step, paused) EXCEPT !.points = @ + 1]

LEMMA AfterSampleCases ==
  ASSUME NEW p \in PointerType, NEW step \in Steps, NEW paused \in BOOLEAN
  PROVE  \/ /\ p.cur.count = 0
            /\ AfterSample(p, step, paused) = Pointing(p, StartSegment)
         \/ /\ p.cur.count > 0 /\ paused
            /\ AfterSample(p, step, paused) = Pointing(Closed(p), StartSegment)
         \/ /\ p.cur.count > 0 /\ ~ paused /\ TurnsAway(p.cur, step)
            /\ AfterSample(p, step, paused) = Pointing(Closed(p), LegFrom(step))
         \/ /\ p.cur.count > 0 /\ ~ paused /\ ~ TurnsAway(p.cur, step)
            /\ AfterSample(p, step, paused) = Pointing(p, Extended(p.cur, step))
<1>1. Closed(p) \in PointerType /\ p.cur \in SegmentType
  BY ClosedAdds DEF PointerType
<1>2. \A r \in PointerType, seg \in SegmentType :
        [[r EXCEPT !.cur = seg] EXCEPT !.points = @ + 1] = Pointing(r, seg)
  BY WithSegment DEF Pointing
<1>3. CASE p.cur.count = 0 /\ Sampled(p, step, paused) = [p EXCEPT !.cur = StartSegment]
  BY <1>2, <1>3, NoSegmentType DEF AfterSample
<1>4. CASE /\ p.cur.count > 0 /\ paused
           /\ Sampled(p, step, paused) = [Closed(p) EXCEPT !.cur = StartSegment]
  BY <1>1, <1>2, <1>4, NoSegmentType DEF AfterSample
<1>5. CASE /\ p.cur.count > 0 /\ ~ paused /\ TurnsAway(p.cur, step)
           /\ Sampled(p, step, paused) = [Closed(p) EXCEPT !.cur = LegFrom(step)]
  BY <1>1, <1>2, <1>5, LegType DEF AfterSample
<1>6. CASE /\ p.cur.count > 0 /\ ~ paused /\ ~ TurnsAway(p.cur, step)
           /\ Sampled(p, step, paused) = [p EXCEPT !.cur = Extended(p.cur, step)]
  BY <1>1, <1>2, <1>6, ExtendedType DEF AfterSample
<1> QED
  BY <1>3, <1>4, <1>5, <1>6, SampledCases

LEMMA SampleKeeps ==
  ASSUME NEW p, PointerInv(p), NEW step \in Steps, NEW paused \in BOOLEAN
  PROVE  PointerInv(AfterSample(p, step, paused))
<1> DEFINE c == Closed(p)
<1>1. /\ p \in PointerType /\ p.net \in Nat /\ p.path \in Nat /\ p.segments \in Nat
      /\ p.points \in Nat /\ p.cur \in SegmentType /\ p.cur.count \in Nat
      /\ p.net <= p.path
      /\ p.points >= p.cur.count
      /\ p.segments > 0 => p.points >= MinSegmentPoints
  BY DEF PointerInv, PointerType, SegmentType
<1>2. /\ c \in PointerType /\ c.points = p.points /\ c.net <= c.path
      /\ c.net \in Nat /\ c.path \in Nat /\ c.segments \in Nat
      /\ c.segments > 0 => p.points >= MinSegmentPoints
  BY <1>1, ClosedAdds, ClosedKeeps DEF PointerType
<1> HIDE DEF c
<1>3. ASSUME NEW base \in {p, c}, NEW seg \in SegmentType,
             seg.count > 0, seg.count <= p.points + 1
      PROVE  PointerInv(Pointing(base, seg))
  <2>1. /\ base.net \in Nat /\ base.path \in Nat /\ base.segments \in Nat
        /\ base.points = p.points /\ base.net <= base.path
        /\ base.segments > 0 => p.points >= MinSegmentPoints
    BY <1>1, <1>2
  <2>2. seg.count \in Nat
    BY DEF SegmentType
  <2>3. /\ base.points + 1 \in Nat /\ base.points + 1 >= seg.count
        /\ base.segments > 0 => base.points + 1 >= MinSegmentPoints
    BY <1>1, <1>3, <2>1, <2>2 DEF MinSegmentPoints
  <2> QED
    BY <1>3, <2>1, <2>3, PointerOf DEF Pointing
<1>4. PointerInv(Pointing(p, StartSegment)) /\ PointerInv(Pointing(c, StartSegment))
  BY <1>1, <1>3, NoSegmentType
<1>5. ASSUME p.cur.count > 0 PROVE PointerInv(Pointing(c, LegFrom(step)))
  <2>1. p.points >= 1
    BY <1>1, <1>5
  <2> QED
    BY <1>1, <1>3, <2>1, LegType
<1>6. PointerInv(Pointing(p, Extended(p.cur, step)))
  BY <1>1, <1>3, ExtendedType
<1> QED
  BY <1>1, <1>4, <1>5, <1>6, AfterSampleCases DEF c

LEMMA InitEstablishes == Init => IInv
<1> SUFFICES ASSUME Init PROVE IInv
  OBVIOUS
<1>1. PointerInv(pointer)
  BY NoSegmentType DEF Init, PointerInv, PointerType
<1>2. KeystrokeInv(keystroke)
  BY DEF Init, KeystrokeInv
<1>3. InteractionInv(interaction)
  BY FS_EmptySet DEF Init, InteractionInv
<1> QED
  BY <1>1, <1>2, <1>3 DEF Init, IInv

LEMMA NextKeeps == IInv /\ [Next]_vars => IInv'
<1> SUFFICES ASSUME IInv, [Next]_vars PROVE IInv'
  OBVIOUS
<1> USE DEF IInv
<1>1. ASSUME NEW step \in Steps, NEW paused \in BOOLEAN, AddSample(step, paused)
      PROVE  IInv'
  <2>1. PointerInv(pointer')
    BY <1>1, SampleKeeps DEF AddSample, AfterSample
  <2>2. course' \in [heading : Steps \cup {None}, gentle : BOOLEAN]
    <3>1. course'.gentle \in BOOLEAN
      BY <1>1 DEF AddSample
    <3>2. course'.heading \in Steps \cup {None}
      BY <1>1 DEF AddSample, Heads
    <3> QED
      BY <1>1, <3>1, <3>2 DEF AddSample, Heads
  <2> QED
    BY <1>1, <2>1, <2>2 DEF AddSample
<1>2. CASE AddModifier
  BY <1>2 DEF AddModifier, KeystrokeInv
<1>3. ASSUME NEW key \in Keys, NEW flight \in Flights \cup {None}, AddKeyDown(key, flight)
      PROVE  IInv'
  <2>1. CASE flight = None
    <3>1. keystroke' = [keystroke EXCEPT !.keys = @ + 1, !.pending = @ \cup {key}]
      BY <1>3, <2>1 DEF AddKeyDown
    <3>2. keystroke' =
            [flights |-> keystroke.flights, sum |-> keystroke.sum,
             sumSq |-> keystroke.sumSq, repeats |-> keystroke.repeats,
             lastFlight |-> keystroke.lastFlight, dwells |-> keystroke.dwells,
             dwellSum |-> keystroke.dwellSum, pending |-> keystroke.pending \cup {key},
             haveLastUp |-> keystroke.haveLastUp, keys |-> keystroke.keys + 1]
      BY <3>1 DEF KeystrokeInv
    <3>3. KeystrokeInv(keystroke')
      BY <1>3, <3>2 DEF KeystrokeInv
    <3> QED
      BY <1>3, <3>3 DEF AddKeyDown
  <2>2. CASE flight # None
    <3>1. flight \in Nat /\ flight * flight \in Nat
      BY <2>2, EvidenceAssumption
    <3> DEFINE repeats == IF keystroke.lastFlight = flight THEN keystroke.repeats + 1
                          ELSE keystroke.repeats
               square == flight * flight
    <3>3. keystroke' =
            [flights |-> keystroke.flights + 1, sum |-> keystroke.sum + flight,
             sumSq |-> keystroke.sumSq + square, repeats |-> repeats,
             lastFlight |-> flight, dwells |-> keystroke.dwells,
             dwellSum |-> keystroke.dwellSum, pending |-> keystroke.pending \cup {key},
             haveLastUp |-> keystroke.haveLastUp, keys |-> keystroke.keys + 1]
      BY <1>3, <2>2 DEF AddKeyDown, KeystrokeInv
    <3>4. repeats \in Nat /\ repeats <= keystroke.flights + 1
      BY DEF KeystrokeInv
    <3>5. square \in Nat
      BY <3>1
    <3> HIDE DEF repeats, square
    <3>2. KeystrokeInv(keystroke')
      BY <1>3, <2>2, <3>1, <3>3, <3>4, <3>5 DEF KeystrokeInv
    <3> QED
      BY <1>3, <3>2 DEF AddKeyDown
  <2> QED
    BY <2>1, <2>2
<1>4. ASSUME NEW key \in Keys, NEW dwell \in Dwells \cup {None}, AddKeyUp(key, dwell)
      PROVE  IInv'
  <2>1. dwell \in DwellRange => dwell \in Nat
    BY DEF DwellRange
  <2> DEFINE pending == IF dwell # None THEN keystroke.pending \ {key}
                        ELSE keystroke.pending
             dwells == IF dwell \in DwellRange THEN keystroke.dwells + 1
                       ELSE keystroke.dwells
             dwellSum == IF dwell \in DwellRange THEN keystroke.dwellSum + dwell
                         ELSE keystroke.dwellSum
  <2>3. keystroke' =
          [flights |-> keystroke.flights, sum |-> keystroke.sum,
           sumSq |-> keystroke.sumSq, repeats |-> keystroke.repeats,
           lastFlight |-> keystroke.lastFlight, dwells |-> dwells,
           dwellSum |-> dwellSum, pending |-> pending,
           haveLastUp |-> TRUE, keys |-> keystroke.keys + 1]
    BY <1>4 DEF AddKeyUp, KeystrokeInv
  <2>4. dwells \in Nat /\ dwellSum \in Nat /\ pending \in SUBSET Keys
    BY <2>1 DEF KeystrokeInv
  <2> HIDE DEF pending, dwells, dwellSum
  <2>2. KeystrokeInv(keystroke')
    BY <2>3, <2>4 DEF KeystrokeInv
  <2> QED
    BY <1>4, <2>2 DEF AddKeyUp
<1>5. ASSUME NEW programmatic \in BOOLEAN, AddScroll(programmatic)
      PROVE  IInv'
  <2> DEFINE sent == IF programmatic THEN interaction.programmatic + 1
                     ELSE interaction.programmatic
  <2>1. interaction' =
          [scrolls |-> interaction.scrolls + 1, programmatic |-> sent,
           focus |-> interaction.focus, pastes |-> interaction.pastes,
           injections |-> interaction.injections,
           injectedFields |-> interaction.injectedFields]
    BY <1>5 DEF AddScroll, InteractionInv
  <2>2. sent \in Nat /\ sent <= interaction.scrolls + 1
    BY DEF InteractionInv
  <2> HIDE DEF sent
  <2>3. InteractionInv(interaction')
    BY <2>1, <2>2 DEF InteractionInv
  <2> QED
    BY <1>5, <2>3 DEF AddScroll
<1>6. CASE AddFocus
  BY <1>6 DEF AddFocus, InteractionInv
<1>7. CASE AddPaste
  BY <1>7 DEF AddPaste, InteractionInv
<1>8. ASSUME NEW target \in {{}} \cup {{f} : f \in Fields}, AddInjection(target)
      PROVE  IInv'
  <2>1. target \in SUBSET Fields /\ IsFiniteSet(target)
    <3>1. CASE target = {}
      BY <3>1, FS_EmptySet
    <3>2. CASE \E f \in Fields : target = {f}
      BY <3>2, FS_Singleton
    <3> QED
      BY <1>8, <3>1, <3>2
  <2>2. IsFiniteSet(interaction.injectedFields \cup target)
    BY <2>1, FS_Union DEF InteractionInv
  <2>3. InteractionInv(interaction')
    <3>1. interaction' =
            [scrolls |-> interaction.scrolls, programmatic |-> interaction.programmatic,
             focus |-> interaction.focus, pastes |-> interaction.pastes,
             injections |-> interaction.injections + 1,
             injectedFields |-> interaction.injectedFields \cup target]
      BY <1>8 DEF AddInjection, InteractionInv
    <3> QED
      BY <2>1, <2>2, <3>1 DEF InteractionInv
  <2> QED
    BY <1>8, <2>3 DEF AddInjection
<1>9. CASE UNCHANGED vars
  BY <1>9 DEF vars
<1> QED
  BY <1>1, <1>2, <1>3, <1>4, <1>5, <1>6, <1>7, <1>8, <1>9 DEF Next

(* The accumulators keep their invariant whatever arrives, in whatever     *)
(* order (the adders of libs/feature).                                     *)
THEOREM Invariance == Spec => []IInv
BY InitEstablishes, NextKeeps, PTL DEF Spec

(* The accumulators keep their types, and no part of a ratio outgrows its  *)
(* whole: net displacement stays within the path, repeats within the       *)
(* intervals, programmatic scrolls within the scrolls.                     *)
THEOREM TypeCorrect == Spec => []TypeOK
<1>1. IInv => TypeOK
  BY DEF IInv, PointerInv, PointerType, KeystrokeInv, InteractionInv, TypeOK
<1> QED
  BY <1>1, Invariance, PTL

-----------------------------------------------------------------------------
(* The feature vectors.                                                    *)

PointerVectorOf(p) ==
  [segments     |-> Closed(p).segments,
   path         |-> Closed(p).path,
   straightness |-> IF Closed(p).path = 0 THEN 0
                    ELSE (Full * Closed(p).net) \div Closed(p).path]

KeystrokeVectorOf(k) ==
  [intervals   |-> k.flights,
   flightCV    |-> IF k.flights >= MinIntervalsForRhythm
                   THEN CV(k.sum, k.sumSq, k.flights) ELSE 0,
   repeatRatio |-> IF k.flights >= MinIntervalsForRhythm
                   THEN RoundedUp(Full * k.repeats, k.flights) ELSE 0,
   meanDwell   |-> IF k.dwells >= MinIntervalsForRhythm
                   THEN k.dwellSum \div k.dwells ELSE 0]

InteractionVectorOf(i) ==
  [focus |-> i.focus, scrolls |-> i.scrolls, pastes |-> i.pastes,
   injections |-> i.injections, injectedFields |-> Cardinality(i.injectedFields),
   programmaticRatio |-> IF i.scrolls = 0 THEN 0
                         ELSE RoundedUp(Full * i.programmatic, i.scrolls)]

LEMMA StateIs ==
  State = [pointer     |-> PointerVectorOf(pointer),
           keystroke   |-> KeystrokeVectorOf(keystroke),
           interaction |-> InteractionVectorOf(interaction)]
BY DEF State, PointerState, KeystrokeState, InteractionState,
       PointerVectorOf, KeystrokeVectorOf, InteractionVectorOf

LEMMA PointerVectorType ==
  ASSUME NEW p, PointerInv(p)
  PROVE  PointerVectorOf(p) \in PointerVector
<1> DEFINE net == Closed(p).net
           path == Closed(p).path
           straightness == IF path = 0 THEN 0 ELSE (Full * net) \div path
<1>1. net \in Nat /\ path \in Nat /\ Closed(p).segments \in Nat /\ net <= path
  BY ClosedAdds, ClosedKeeps DEF PointerInv, PointerType
<1> HIDE DEF net, path
<1>2. straightness \in 0 .. Full
  <2>1. CASE path = 0
    BY <2>1, Units
  <2>2. CASE path # 0
    <3>1. Full * net <= Full * path /\ Full * net \in Nat /\ Full * path \in Nat
      BY <1>1, Units, Multiply, ProductOfNats
    <3>2. (Full * net) \div path <= (Full * path) \div path
      BY <1>1, <2>2, <3>1, QuotientMonotone
    <3>3. (Full * path) \div path = Full
      BY <1>1, <2>2 DEF Full
    <3>4. (Full * net) \div path \in Nat
      BY <1>1, <2>2, <3>1, QuotientOfNat
    <3> QED
      BY <2>2, <3>2, <3>3, <3>4, Units
  <2> QED
    BY <2>1, <2>2
<1> HIDE DEF straightness
<1>3. PointerVectorOf(p) = [segments |-> Closed(p).segments, path |-> path,
                            straightness |-> straightness]
  BY DEF PointerVectorOf, net, path, straightness
<1> QED
  BY <1>1, <1>2, <1>3 DEF PointerVector

LEMMA CVType ==
  ASSUME NEW sum \in Nat, NEW sumSq \in Nat, NEW n \in Nat
  PROVE  CV(sum, sumSq, n) \in Nat
<1> DEFINE v == n * sumSq - sum * sum
           variance == Max({0, v})
<1>1. v \in Int
  <2>1. n * sumSq \in Nat /\ sum * sum \in Nat
    BY ProductOfNats
  <2> QED
    BY <2>1
<1> HIDE DEF v
<1>2. variance \in Nat
  <2>1. \A a, b \in Int : Max({a, b}) \in {a, b} /\ a <= Max({a, b})
    BY GreatestOfTwo
  <2>2. variance \in {0, v} /\ 0 <= variance
    BY <1>1, <2>1
  <2> HIDE DEF variance
  <2> QED
    BY <1>1, <2>2
<1> HIDE DEF variance
<1>3. CV(sum, sumSq, n) = IF sum = 0 THEN 0 ELSE (Full * Sqrt(variance)) \div sum
  BY DEF CV, variance, v
<1>4. Full * Sqrt(variance) \in Nat
  BY <1>2, SqrtType, Units, ProductOfNats
<1>5. sum # 0 => (Full * Sqrt(variance)) \div sum \in Nat
  BY <1>4, QuotientOfNat
<1> QED
  BY <1>3, <1>5

LEMMA KeystrokeVectorType ==
  ASSUME NEW k, KeystrokeInv(k)
  PROVE  KeystrokeVectorOf(k) \in KeystrokeVector
<1>1. /\ k.flights \in Nat /\ k.sum \in Nat /\ k.sumSq \in Nat /\ k.repeats \in Nat
      /\ k.dwells \in Nat /\ k.dwellSum \in Nat /\ k.repeats <= k.flights
  BY DEF KeystrokeInv
<1>2. CV(k.sum, k.sumSq, k.flights) \in Nat
  BY <1>1, CVType
<1>3. k.flights >= MinIntervalsForRhythm => RoundedUp(Full * k.repeats, k.flights) \in 0 .. Full
  BY <1>1, Units, RoundedUpShare DEF MinIntervalsForRhythm
<1>4. k.dwells >= MinIntervalsForRhythm => k.dwellSum \div k.dwells \in Nat
  BY <1>1, QuotientOfNat DEF MinIntervalsForRhythm
<1> QED
  BY <1>1, <1>2, <1>3, <1>4, Units DEF KeystrokeVectorOf, KeystrokeVector

LEMMA InteractionVectorType ==
  ASSUME NEW i, InteractionInv(i)
  PROVE  InteractionVectorOf(i) \in InteractionVector
<1>1. /\ i.focus \in Nat /\ i.scrolls \in Nat /\ i.pastes \in Nat /\ i.injections \in Nat
      /\ i.programmatic \in Nat /\ i.programmatic <= i.scrolls
  BY DEF InteractionInv
<1>2. Cardinality(i.injectedFields) \in Nat
  BY FS_CardinalityType DEF InteractionInv
<1>3. i.scrolls # 0 => RoundedUp(Full * i.programmatic, i.scrolls) \in 0 .. Full
  BY <1>1, Units, RoundedUpShare
<1> QED
  BY <1>1, <1>2, <1>3, Units DEF InteractionVectorOf, InteractionVector

LEMMA StateType ==
  ASSUME IInv
  PROVE  State \in Vectors
<1>1. /\ PointerVectorOf(pointer) \in PointerVector
      /\ KeystrokeVectorOf(keystroke) \in KeystrokeVector
      /\ InteractionVectorOf(interaction) \in InteractionVector
  BY PointerVectorType, KeystrokeVectorType, InteractionVectorType DEF IInv
<1> QED
  BY <1>1, StateIs DEF Vectors

-----------------------------------------------------------------------------
(* What a verdict rests on.                                                *)

LEMMA VerdictIs ==
  ASSUME NEW j
  PROVE  /\ Enforced(j) \in {"allow", "challenge", "block"}
         /\ Enforced(j) = "block" <=> MayBlock(j)
         /\ Enforced(j) = "challenge" <=> MayChallenge(j) /\ ~ MayBlock(j)
         /\ Enforced(j) = "allow" <=> ~ MayChallenge(j) /\ ~ MayBlock(j)
BY DEF Enforced

LEMMA AccusersAreNamed ==
  ASSUME NEW st \in Vectors, NEW a \in Actions, Judge(st, a).score > 0
  PROVE  Accusing(Judge(st, a)) # {}
<1>1. PICK c \in Channels : ChannelsOf(st)[c].score > 0
  BY ScoreIsVoted
<1>2. /\ ChannelsOf(st)[c].reasons # {}
      /\ ChannelsOf(st)[c].reasons \subseteq Codes
  BY <1>1, ChannelReports DEF Reports
<1>3. PICK r \in ChannelsOf(st)[c].reasons : r \in Codes
  BY <1>2
<1>4. r \in Judge(st, a).reasons
  BY <1>3, ReasonsOf
<1>5. r # "INSUFFICIENT_EVIDENCE"
  BY <1>3 DEF Codes
<1> QED
  BY <1>4, <1>5 DEF Accusing

(* Every verdict against a session names an accusing reason, and every     *)
(* allow of a bot-like score names the insufficient evidence, of any       *)
(* session and any calibration whose thresholds are not zero (Judge and    *)
(* enforced in libs/policy).                                               *)
THEOREM VerdictsExplained ==
  ASSUME cal.score_to_challenge > 0, cal.score_to_block > 0
  PROVE  Spec => []VerdictsAreExplained
<1>1. ASSUME IInv PROVE VerdictsAreExplained
  <2> DEFINE st == State
  <2>1. st \in Vectors
    BY <1>1, StateType
  <2> HIDE DEF st
  <2>2. ASSUME NEW a \in Actions
        PROVE  LET j == Judge(st, a)
               IN  /\ Enforced(j) # "allow" => Accusing(j) # {}
                   /\ Enforced(j) = "allow" /\ j.score >= cal.score_to_challenge
                        => "INSUFFICIENT_EVIDENCE" \in j.reasons
    <3> DEFINE j == Judge(st, a)
    <3>1. j.score \in Nat /\ j.confidence \in Nat
      BY <2>1, ScoreIsVoted, ConfidenceType
    <3>2. j.score > 0 => Accusing(j) # {}
      BY <2>1, AccusersAreNamed
    <3>3. j.confidence < cal.min_confidence_to_challenge
            => "INSUFFICIENT_EVIDENCE" \in j.reasons
      BY ReasonsOf
    <3> HIDE DEF j
    <3>4. Enforced(j) # "allow" => j.score > 0
      BY <3>1, Calibration, VerdictIs DEF MayBlock, MayChallenge
    <3>5. Enforced(j) = "allow" /\ j.score >= cal.score_to_challenge
            => j.confidence < cal.min_confidence_to_challenge
      BY <3>1, Calibration, VerdictIs DEF MayChallenge
    <3>6. /\ Enforced(j) # "allow" => Accusing(j) # {}
          /\ Enforced(j) = "allow" /\ j.score >= cal.score_to_challenge
               => "INSUFFICIENT_EVIDENCE" \in j.reasons
      BY <3>2, <3>3, <3>4, <3>5
    <3> QED
      BY <3>6 DEF j
  <2> QED
    BY <2>2 DEF VerdictsAreExplained, st
<1> QED
  BY <1>1, Invariance, PTL

LEMMA ThreeChannels == IsFiniteSet(Channels)
<1>1. Channels = {"pointer", "keystroke"} \cup {"interaction"}
  BY DEF Channels
<1>2. IsFiniteSet({"pointer"}) /\ IsFiniteSet({"keystroke"}) /\ IsFiniteSet({"interaction"})
  BY FS_Singleton
<1>3. {"pointer", "keystroke"} = {"pointer"} \cup {"keystroke"}
  OBVIOUS
<1> QED
  BY <1>1, <1>2, <1>3, FS_Union

(* A channel that is confident has seen events of its own. *)
LEMMA ConfidentHasSeen ==
  ASSUME IInv
  PROVE  /\ ChannelsOf(State)["pointer"].confidence > 0
              => pointer.points >= MinSegmentPoints
         /\ ChannelsOf(State)["keystroke"].confidence > 0 => keystroke.flights > 0
         /\ ChannelsOf(State)["interaction"].confidence > 0 => Structural > 0
<1>1. /\ PointerVectorOf(pointer) \in PointerVector
      /\ KeystrokeVectorOf(keystroke) \in KeystrokeVector
      /\ InteractionVectorOf(interaction) \in InteractionVector
  BY PointerVectorType, KeystrokeVectorType, InteractionVectorType DEF IInv
<1>2. /\ ChannelsOf(State)["pointer"] = PointerChannel(PointerVectorOf(pointer))
      /\ ChannelsOf(State)["keystroke"] = KeystrokeChannel(KeystrokeVectorOf(keystroke))
      /\ ChannelsOf(State)["interaction"]
           = InteractionChannel(InteractionVectorOf(interaction))
  BY StateIs DEF ChannelsOf
<1>3. PointerVectorOf(pointer).segments > 0 => pointer.points >= MinSegmentPoints
  BY ClosedKeeps DEF PointerVectorOf, IInv
<1>4. KeystrokeVectorOf(keystroke).intervals = keystroke.flights
  BY DEF KeystrokeVectorOf
<1>5. Spoke(InteractionVectorOf(interaction)) => Structural > 0
  BY DEF Spoke, InteractionVectorOf, Structural, IInv, InteractionInv
<1> QED
  BY <1>1, <1>2, <1>3, <1>4, <1>5, PointerReport, KeystrokeReport, InteractionReport

(* However damning the events of one channel, and whatever the action, a   *)
(* block takes events of two, under every calibration that asks for two    *)
(* channels (min_channels_to_block in enforced; the shipped one does).     *)
THEOREM BlockTakesTwoChannels ==
  ASSUME cal.min_channels_to_block >= 2
  PROVE  Spec => []OneChannelNeverBlocks
<1>1. ASSUME IInv PROVE OneChannelNeverBlocks
  <2> DEFINE st == State
             Seen == {c \in Channels :
                        CASE c = "pointer"     -> pointer.points >= MinSegmentPoints
                          [] c = "keystroke"   -> keystroke.flights > 0
                          [] c = "interaction" -> Structural > 0}
             Sure == {c \in Channels : ChannelsOf(st)[c].confidence > 0}
  <2>1. Sure \subseteq Seen
    <3>1. ASSUME NEW c \in Sure PROVE c \in Seen
      <4>1. CASE c = "pointer"
        BY <1>1, <4>1, ConfidentHasSeen DEF Channels
      <4>2. CASE c = "keystroke"
        BY <1>1, <4>2, ConfidentHasSeen DEF Channels
      <4>3. CASE c = "interaction"
        BY <1>1, <4>3, ConfidentHasSeen DEF Channels
      <4> QED
        BY <4>1, <4>2, <4>3 DEF Channels
    <3> QED
      BY <3>1
  <2>2. IsFiniteSet(Seen)
    BY ThreeChannels, FS_Subset
  <2> HIDE DEF Seen
  <2>3. Cardinality(Sure) <= Cardinality(Seen) /\ Cardinality(Seen) \in Nat
        /\ Cardinality(Sure) \in Nat
    BY <2>1, <2>2, FS_Subset, FS_CardinalityType
  <2>4. ASSUME NEW a \in Actions, Enforced(Judge(st, a)) = "block"
        PROVE  Cardinality(Seen) >= 2
    <3>1. Judge(st, a).contributing >= cal.min_channels_to_block
      BY <2>4, VerdictIs DEF MayBlock
    <3>2. Judge(st, a).contributing = Cardinality(Sure)
      BY JudgeOf
    <3> HIDE DEF Sure
    <3> QED
      BY <2>3, <3>1, <3>2, Calibration
  <2> QED
    BY <2>4 DEF OneChannelNeverBlocks, Seen
<1> QED
  BY <1>1, Invariance, PTL

(* The straightness ramp runs up, as it does in the shipped calibration. *)
RisingStraightness == cal.straightness_floor <= cal.straightness_ceil

(* A session that looks human is allowed in enforce mode, and monitor mode *)
(* does not report that it would not be, for sessions of any length and    *)
(* every calibration whose ramps run the way the shipped one's do and      *)
(* whose thresholds are not zero (Judge, enforced and Apply).              *)
THEOREM HumansAllowed ==
  ASSUME RisingStraightness, FallingRhythm,
         cal.score_to_challenge > 0, cal.score_to_block > 0
  PROVE  Spec => []HumanIsAllowed
<1>1. ASSUME IInv PROVE HumanIsAllowed
  <2> DEFINE st == State
  <2>1. st \in Vectors
    BY <1>1, StateType
  <2>2. ASSUME LooksHuman(st), NEW c \in Channels
        PROVE  ChannelsOf(st)[c].score = 0
    <3>1. /\ PointerVectorOf(pointer) \in PointerVector
          /\ KeystrokeVectorOf(keystroke) \in KeystrokeVector
          /\ InteractionVectorOf(interaction) \in InteractionVector
      BY <1>1, PointerVectorType, KeystrokeVectorType, InteractionVectorType DEF IInv
    <3>2. /\ st.pointer = PointerVectorOf(pointer)
          /\ st.keystroke = KeystrokeVectorOf(keystroke)
          /\ st.interaction = InteractionVectorOf(interaction)
      BY StateIs
    <3>3. /\ ChannelsOf(st)["pointer"] = PointerChannel(st.pointer)
          /\ ChannelsOf(st)["keystroke"] = KeystrokeChannel(st.keystroke)
          /\ ChannelsOf(st)["interaction"] = InteractionChannel(st.interaction)
      BY DEF ChannelsOf
    <3>4. OrdinaryForm(st.interaction)
      <4>1. Structural = 0 => ~ Spoke(st.interaction)
        BY <1>1, <3>2 DEF Structural, Spoke, InteractionVectorOf, IInv, InteractionInv
      <4> QED
        BY <2>2, <4>1 DEF LooksHuman, OrdinaryForm
    <3>5. IrregularTyping(st.keystroke)
      BY <2>2 DEF LooksHuman, IrregularTyping
    <3>6. st.pointer.straightness <= cal.straightness_floor
      BY <2>2 DEF LooksHuman
    <3> HIDE DEF st
    <3>7. CASE c = "pointer"
      BY <3>1, <3>2, <3>3, <3>6, <3>7, PointerReport DEF RisingStraightness
    <3>8. CASE c = "keystroke"
      BY <3>1, <3>2, <3>3, <3>5, <3>8, KeystrokeReport
    <3>9. CASE c = "interaction"
      BY <3>1, <3>2, <3>3, <3>4, <3>9, InteractionReport
    <3> QED
      BY <3>7, <3>8, <3>9 DEF Channels
  <2> HIDE DEF st
  <2>3. ASSUME LooksHuman(st), NEW a \in Actions, NEW mode \in Modes
        PROVE  /\ Apply(Judge(st, a), mode).decision = "allow"
               /\ Apply(Judge(st, a), mode).shadow \in {"", "allow"}
    <3>1. Judge(st, a).score = 0
      BY <2>1, <2>2, <2>3, ScoreIsVoted
    <3>2. Enforced(Judge(st, a)) = "allow"
      BY <3>1, Calibration, VerdictIs DEF MayBlock, MayChallenge
    <3> QED
      BY <3>2 DEF Apply
  <2> QED
    BY <2>3 DEF HumanIsAllowed, st
<1> QED
  BY <1>1, Invariance, PTL

-----------------------------------------------------------------------------
(* Evidence adds up.                                                       *)

LEMMA PointerConfidence ==
  ASSUME NEW p \in PointerVector, NEW q \in PointerVector,
         p.segments <= q.segments, p.path <= q.path
  PROVE  PointerChannel(p).confidence <= PointerChannel(q).confidence
<1> DEFINE part(v) == Portion(v.segments, cal.confidence_segments)
                      + Portion(v.path, cal.confidence_path_px)
<1>1. /\ p.segments \in Nat /\ p.path \in Nat /\ q.segments \in Nat /\ q.path \in Nat
  BY DEF PointerVector
<1>2. part(p) \in Nat /\ part(q) \in Nat /\ part(p) <= part(q)
  <2>1. Portion(p.segments, cal.confidence_segments)
          <= Portion(q.segments, cal.confidence_segments)
    BY <1>1, Calibration, PortionMonotone
  <2>2. Portion(p.path, cal.confidence_path_px) <= Portion(q.path, cal.confidence_path_px)
    BY <1>1, Calibration, PortionMonotone
  <2>3. \A n \in Nat : /\ Portion(n, cal.confidence_segments) \in Nat
                       /\ Portion(n, cal.confidence_path_px) \in Nat
    BY Calibration, PortionType, Units
  <2> QED
    BY <1>1, <2>1, <2>2, <2>3
<1>3. \A v : PointerChannel(v).confidence =
               IF v.segments = 0 THEN 0 ELSE RoundedUp(part(v), 2)
  BY DEF PointerChannel, Silent
<1> HIDE DEF part
<1>4. /\ RoundedUp(part(p), 2) \in Nat /\ RoundedUp(part(q), 2) \in Nat
      /\ RoundedUp(part(p), 2) <= RoundedUp(part(q), 2)
  BY <1>2, RoundedUpWhole, RoundedUpMonotone
<1> QED
  BY <1>1, <1>3, <1>4

LEMMA KeystrokeConfidence ==
  ASSUME NEW p \in KeystrokeVector, NEW q \in KeystrokeVector,
         p.intervals <= q.intervals
  PROVE  KeystrokeChannel(p).confidence <= KeystrokeChannel(q).confidence
<1>1. p.intervals \in Nat /\ q.intervals \in Nat
  BY DEF KeystrokeVector
<1>2. \A v : KeystrokeChannel(v).confidence =
               IF v.intervals = 0 THEN 0 ELSE Portion(v.intervals, cal.confidence_intervals)
  BY DEF KeystrokeChannel, Silent
<1>3. Portion(p.intervals, cal.confidence_intervals)
        <= Portion(q.intervals, cal.confidence_intervals)
  BY <1>1, Calibration, PortionMonotone
<1>4. Portion(q.intervals, cal.confidence_intervals) \in Nat
  BY <1>1, Calibration, PortionType, Units
<1> QED
  BY <1>1, <1>2, <1>3, <1>4

LEMMA InteractionConfidence ==
  ASSUME NEW p \in InteractionVector, NEW q \in InteractionVector,
         p.focus <= q.focus, p.scrolls <= q.scrolls, p.pastes <= q.pastes,
         p.injections <= q.injections,
         p.programmaticRatio > 0 => q.programmaticRatio > 0
  PROVE  InteractionChannel(p).confidence <= InteractionChannel(q).confidence
<1> DEFINE Structure(v) == (Certain * v.focus) \div 6 + (Certain * v.scrolls) \div 20
           Categorical(v) == v.injections > 0 \/ v.programmaticRatio > 0
<1>1. \A v \in InteractionVector :
        /\ v.focus \in Nat /\ v.scrolls \in Nat /\ v.pastes \in Nat
        /\ v.injections \in Nat /\ v.programmaticRatio \in Nat
  BY Units DEF InteractionVector
<1>2. \A v \in InteractionVector :
        InteractionChannel(v).confidence =
          IF ~ Spoke(v) THEN 0
          ELSE IF Categorical(v) THEN Certain ELSE AtMost(Certain, Structure(v))
  BY <1>1 DEF InteractionChannel, Silent, Spoke
<1>3. ASSUME NEW v \in InteractionVector PROVE Structure(v) \in Nat
  <2>1. (Certain * v.focus) \div 6 \in Nat
    BY <1>1, Units, ProductOfNats, QuotientOfNat
  <2>2. (Certain * v.scrolls) \div 20 \in Nat
    BY <1>1, Units, ProductOfNats, QuotientOfNat
  <2> QED
    BY <2>1, <2>2
<1>4. Structure(p) <= Structure(q)
  <2>1. (Certain * p.focus) \div 6 <= (Certain * q.focus) \div 6
    <3>1. Certain * p.focus <= Certain * q.focus
      BY <1>1, Units, Multiply
    <3>2. Certain * p.focus \in Nat /\ Certain * q.focus \in Nat
      BY <1>1, Units, ProductOfNats
    <3> QED
      BY <3>1, <3>2, QuotientMonotone
  <2>2. (Certain * p.scrolls) \div 20 <= (Certain * q.scrolls) \div 20
    <3>1. Certain * p.scrolls <= Certain * q.scrolls
      BY <1>1, Units, Multiply
    <3>2. Certain * p.scrolls \in Nat /\ Certain * q.scrolls \in Nat
      BY <1>1, Units, ProductOfNats
    <3> QED
      BY <3>1, <3>2, QuotientMonotone
  <2>3. \A v \in InteractionVector : /\ (Certain * v.focus) \div 6 \in Nat
                                     /\ (Certain * v.scrolls) \div 20 \in Nat
    BY <1>1, Units, ProductOfNats, QuotientOfNat
  <2>4. \A a, b, c, d \in Nat : a <= c /\ b <= d => a + b <= c + d
    OBVIOUS
  <2> QED
    BY <2>1, <2>2, <2>3, <2>4, <1>1
<1>5. Spoke(p) => Spoke(q)
  BY <1>1 DEF Spoke
<1>6. Categorical(p) => Categorical(q)
  BY <1>1
<1> HIDE DEF Structure, Categorical
<1>7. /\ AtMost(Certain, Structure(p)) <= AtMost(Certain, Structure(q))
      /\ AtMost(Certain, Structure(p)) \in 0 .. Certain
      /\ AtMost(Certain, Structure(q)) \in 0 .. Certain
  BY <1>3, <1>4, Units DEF AtMost
<1> QED
  BY <1>2, <1>5, <1>6, <1>7, Units

(* A sample takes nothing back that was shown: the open segment is counted *)
(* as it would be if it were closed now.                                   *)
LEMMA SampleAdds ==
  ASSUME NEW p, PointerInv(p), NEW step \in Steps, NEW paused \in BOOLEAN
  PROVE  /\ Closed(p).segments <= Closed(AfterSample(p, step, paused)).segments
         /\ Closed(p).path <= Closed(AfterSample(p, step, paused)).path
<1> DEFINE c == Closed(p)
           More(q) == Closed(q).segments >= c.segments /\ Closed(q).path >= c.path
<1>1. /\ p \in PointerType /\ p.path \in Nat /\ p.segments \in Nat
      /\ p.cur \in SegmentType /\ p.cur.count \in Nat /\ p.cur.path \in Nat
  BY DEF PointerInv, PointerType, SegmentType
<1>2. /\ c \in PointerType /\ c.path \in Nat /\ c.segments \in Nat
      /\ Qualifies(p.cur) => c.path = p.path + p.cur.path /\ c.segments = p.segments + 1
      /\ ~ Qualifies(p.cur) => c.path = p.path /\ c.segments = p.segments
  BY <1>1, ClosedAdds DEF PointerType
<1> HIDE DEF c
<1>3. ASSUME NEW base \in PointerType, base.path = c.path, base.segments = c.segments,
             NEW seg \in SegmentType, seg.count < MinSegmentPoints
      PROVE  More(Pointing(base, seg))
  <2>1. ~ Qualifies(seg)
    BY <1>3 DEF Qualifies, SegmentType, MinSegmentPoints
  <2>2. /\ Closed(Pointing(base, seg)).path = c.path
        /\ Closed(Pointing(base, seg)).segments = c.segments
    BY <1>3, <2>1, PointingType, ClosedAdds
  <2> QED
    BY <1>2, <2>2
<1>4. p.cur.count = 0 => ~ Qualifies(p.cur)
  BY DEF Qualifies, MinSegmentPoints
<1>5. p.cur.count = 0 => More(Pointing(p, StartSegment))
  BY <1>1, <1>2, <1>3, <1>4, NoSegmentType DEF MinSegmentPoints
<1>6. More(Pointing(c, StartSegment)) /\ More(Pointing(c, LegFrom(step)))
  BY <1>2, <1>3, NoSegmentType, LegType DEF MinSegmentPoints
<1>7. More(Pointing(p, Extended(p.cur, step)))
  <2> DEFINE longer == Extended(p.cur, step)
             q == Pointing(p, longer)
  <2>1. /\ longer \in SegmentType /\ longer.count = p.cur.count + 1
        /\ longer.path = p.cur.path + step.len /\ step.len \in Nat
    BY <1>1, ExtendedType, StepType
  <2> HIDE DEF longer
  <2>2. Qualifies(p.cur) => Qualifies(longer)
    BY <1>1, <2>1 DEF Qualifies, MinSegmentPoints, MinSegmentPathPx
  <2>3. /\ q \in PointerType /\ q.cur = longer /\ q.path = p.path
        /\ q.segments = p.segments
    BY <1>1, <2>1, PointingType
  <2> HIDE DEF q
  <2>4. /\ Qualifies(longer) => Closed(q).path = p.path + longer.path
                                /\ Closed(q).segments = p.segments + 1
        /\ ~ Qualifies(longer) => Closed(q).path = p.path /\ Closed(q).segments = p.segments
    BY <2>3, ClosedAdds
  <2>5. More(q)
    BY <1>1, <1>2, <2>1, <2>2, <2>4
  <2> QED
    BY <2>5 DEF q, longer
<1>8. More(AfterSample(p, step, paused))
  BY <1>1, <1>5, <1>6, <1>7, AfterSampleCases DEF c
<1>9. \A q \in PointerType : Closed(q).segments \in Nat /\ Closed(q).path \in Nat
  BY ClosedAdds DEF PointerType
<1>10. AfterSample(p, step, paused) \in PointerType
  BY SampleKeeps DEF PointerInv
<1> QED
  BY <1>2, <1>8, <1>9, <1>10 DEF c

LEMMA PointerAddsUp ==
  ASSUME NEW p, PointerInv(p), NEW q, PointerInv(q),
         Closed(p).segments <= Closed(q).segments, Closed(p).path <= Closed(q).path
  PROVE  PointerChannel(PointerVectorOf(p)).confidence
           <= PointerChannel(PointerVectorOf(q)).confidence
BY PointerVectorType, PointerConfidence DEF PointerVectorOf

LEMMA KeystrokeAddsUp ==
  ASSUME NEW p, KeystrokeInv(p), NEW q, KeystrokeInv(q), p.flights <= q.flights
  PROVE  KeystrokeChannel(KeystrokeVectorOf(p)).confidence
           <= KeystrokeChannel(KeystrokeVectorOf(q)).confidence
BY KeystrokeVectorType, KeystrokeConfidence DEF KeystrokeVectorOf

LEMMA InteractionAddsUp ==
  ASSUME NEW p, InteractionInv(p), NEW q, InteractionInv(q),
         p.focus <= q.focus, p.scrolls <= q.scrolls, p.pastes <= q.pastes,
         p.injections <= q.injections, p.programmatic <= q.programmatic
  PROVE  InteractionChannel(InteractionVectorOf(p)).confidence
           <= InteractionChannel(InteractionVectorOf(q)).confidence
<1>1. \A i : InteractionInv(i) =>
        /\ InteractionVectorOf(i).programmaticRatio \in Nat
        /\ InteractionVectorOf(i).programmaticRatio = 0 <=> i.programmatic = 0
        /\ i.programmatic \in Nat
  <2>1. ASSUME NEW i, InteractionInv(i)
        PROVE  /\ InteractionVectorOf(i).programmaticRatio \in Nat
               /\ InteractionVectorOf(i).programmaticRatio = 0 <=> i.programmatic = 0
               /\ i.programmatic \in Nat
    <3>1. i.programmatic \in Nat /\ i.scrolls \in Nat /\ i.programmatic <= i.scrolls
      BY <2>1 DEF InteractionInv
    <3>2. CASE i.scrolls = 0
      BY <3>1, <3>2 DEF InteractionVectorOf
    <3>3. CASE i.scrolls # 0
      <4>1. Full * i.programmatic \in Nat /\ (Full * i.programmatic = 0 <=> i.programmatic = 0)
        BY <3>1 DEF Full
      <4>2. InteractionVectorOf(i).programmaticRatio
              = RoundedUp(Full * i.programmatic, i.scrolls)
        BY <3>3 DEF InteractionVectorOf
      <4> QED
        BY <3>1, <3>3, <4>1, <4>2, RoundedUpWhole
    <3> QED
      BY <3>2, <3>3
  <2> QED
    BY <2>1
<1>2. /\ InteractionVectorOf(p).focus <= InteractionVectorOf(q).focus
      /\ InteractionVectorOf(p).scrolls <= InteractionVectorOf(q).scrolls
      /\ InteractionVectorOf(p).pastes <= InteractionVectorOf(q).pastes
      /\ InteractionVectorOf(p).injections <= InteractionVectorOf(q).injections
  BY DEF InteractionVectorOf
<1>3. InteractionVectorOf(p).programmaticRatio > 0
        => InteractionVectorOf(q).programmaticRatio > 0
  BY <1>1
<1> QED
  BY <1>2, <1>3, InteractionVectorType, InteractionConfidence

(* No event takes evidence from any channel. *)
LEMMA EventsAdd ==
  ASSUME IInv, [Next]_vars
  PROVE  /\ Closed(pointer).segments <= Closed(pointer').segments
         /\ Closed(pointer).path <= Closed(pointer').path
         /\ keystroke.flights <= keystroke'.flights
         /\ interaction.focus <= interaction'.focus
         /\ interaction.scrolls <= interaction'.scrolls
         /\ interaction.pastes <= interaction'.pastes
         /\ interaction.injections <= interaction'.injections
         /\ interaction.programmatic <= interaction'.programmatic
<1> DEFINE Kept(p) == Closed(pointer).segments <= Closed(p).segments
                      /\ Closed(pointer).path <= Closed(p).path
           Typed(k) == keystroke.flights <= k.flights
           Acted(i) == /\ interaction.focus <= i.focus
                       /\ interaction.scrolls <= i.scrolls
                       /\ interaction.pastes <= i.pastes
                       /\ interaction.injections <= i.injections
                       /\ interaction.programmatic <= i.programmatic
<1>1. Kept(pointer)
  <2>1. Closed(pointer).segments \in Nat /\ Closed(pointer).path \in Nat
    BY ClosedAdds DEF IInv, PointerInv, PointerType
  <2> QED
    BY <2>1
<1>2. Typed(keystroke) /\ Acted(interaction)
  BY DEF IInv, KeystrokeInv, InteractionInv
<1> SUFFICES Kept(pointer') /\ Typed(keystroke') /\ Acted(interaction')
  OBVIOUS
<1>3. ASSUME NEW step \in Steps, NEW paused \in BOOLEAN, AddSample(step, paused)
      PROVE  Kept(pointer') /\ Typed(keystroke') /\ Acted(interaction')
  <2>1. pointer' = AfterSample(pointer, step, paused)
    BY <1>3 DEF AddSample, AfterSample
  <2>2. Kept(pointer')
    BY <2>1, SampleAdds DEF IInv
  <2> HIDE DEF Kept, Typed, Acted
  <2> QED
    BY <1>2, <1>3, <2>2 DEF AddSample
<1>4. CASE UNCHANGED <<pointer, interaction>> /\ keystroke' = [keystroke EXCEPT !.keys = @ + 1]
  <2>1. Typed(keystroke')
    BY <1>4 DEF IInv, KeystrokeInv
  <2> HIDE DEF Kept, Typed, Acted
  <2> QED
    BY <1>1, <1>2, <1>4, <2>1
<1>5. ASSUME NEW key \in Keys, NEW flight \in Flights \cup {None}, AddKeyDown(key, flight)
      PROVE  Kept(pointer') /\ Typed(keystroke') /\ Acted(interaction')
  <2>1. Typed(keystroke')
    BY <1>5 DEF AddKeyDown, IInv, KeystrokeInv
  <2> HIDE DEF Kept, Typed, Acted
  <2> QED
    BY <1>1, <1>2, <1>5, <2>1 DEF AddKeyDown
<1>6. ASSUME NEW key \in Keys, NEW dwell \in Dwells \cup {None}, AddKeyUp(key, dwell)
      PROVE  Kept(pointer') /\ Typed(keystroke') /\ Acted(interaction')
  <2>1. Typed(keystroke')
    BY <1>6 DEF AddKeyUp, IInv, KeystrokeInv
  <2> HIDE DEF Kept, Typed, Acted
  <2> QED
    BY <1>1, <1>2, <1>6, <2>1 DEF AddKeyUp
<1>7. ASSUME NEW programmatic \in BOOLEAN, AddScroll(programmatic)
      PROVE  Kept(pointer') /\ Typed(keystroke') /\ Acted(interaction')
  <2>1. Acted(interaction')
    BY <1>7 DEF AddScroll, IInv, InteractionInv
  <2> HIDE DEF Kept, Typed, Acted
  <2> QED
    BY <1>1, <1>2, <1>7, <2>1 DEF AddScroll
<1>8. CASE AddFocus
  <2>1. Acted(interaction')
    BY <1>8 DEF AddFocus, IInv, InteractionInv
  <2> HIDE DEF Kept, Typed, Acted
  <2> QED
    BY <1>1, <1>2, <1>8, <2>1 DEF AddFocus
<1>9. CASE AddPaste
  <2>1. Acted(interaction')
    BY <1>9 DEF AddPaste, IInv, InteractionInv
  <2> HIDE DEF Kept, Typed, Acted
  <2> QED
    BY <1>1, <1>2, <1>9, <2>1 DEF AddPaste
<1>10. ASSUME NEW target, AddInjection(target)
       PROVE  Kept(pointer') /\ Typed(keystroke') /\ Acted(interaction')
  <2>1. Acted(interaction')
    BY <1>10 DEF AddInjection, IInv, InteractionInv
  <2> HIDE DEF Kept, Typed, Acted
  <2> QED
    BY <1>1, <1>2, <1>10, <2>1 DEF AddInjection
<1>11. CASE UNCHANGED vars
  <2> HIDE DEF Kept, Typed, Acted
  <2> QED
    BY <1>1, <1>2, <1>11 DEF vars
<1> QED
  BY <1>3, <1>4, <1>5, <1>6, <1>7, <1>8, <1>9, <1>10, <1>11 DEF Next, AddModifier

(* More evidence never supports a judgement less: no event of any channel  *)
(* lowers the confidence of any action, for sessions of any length and     *)
(* every calibration validate lets through (Judge's normalisation by the   *)
(* dominant channel, and the open segment counted as evidence).            *)
THEOREM EvidenceAddsUp == Spec => ConfidenceNeverFalls
<1>1. ASSUME IInv, IInv', [Next]_vars
      PROVE  \A before \in {State}, after \in {State'}, a \in Actions :
               Judge(after, a).confidence >= Judge(before, a).confidence
  <2> DEFINE before == State
             after == [pointer     |-> PointerVectorOf(pointer'),
                       keystroke   |-> KeystrokeVectorOf(keystroke'),
                       interaction |-> InteractionVectorOf(interaction')]
  <2>1. State' = after
    BY DEF State, PointerState, KeystrokeState, InteractionState,
           PointerVectorOf, KeystrokeVectorOf, InteractionVectorOf
  <2>2. before \in Vectors
    BY <1>1, StateType
  <2>3. after \in Vectors
    BY <1>1, PointerVectorType, KeystrokeVectorType, InteractionVectorType DEF IInv, Vectors
  <2>4. ASSUME NEW c \in Channels
        PROVE  ChannelsOf(before)[c].confidence <= ChannelsOf(after)[c].confidence
    <3>1. /\ PointerInv(pointer) /\ KeystrokeInv(keystroke) /\ InteractionInv(interaction)
          /\ PointerInv(pointer') /\ KeystrokeInv(keystroke') /\ InteractionInv(interaction')
      BY <1>1 DEF IInv
    <3>2. CASE c = "pointer"
      <4>1. PointerChannel(PointerVectorOf(pointer)).confidence
              <= PointerChannel(PointerVectorOf(pointer')).confidence
        BY <1>1, <3>1, EventsAdd, PointerAddsUp
      <4> QED
        BY <3>2, <4>1, StateIs DEF ChannelsOf
    <3>3. CASE c = "keystroke"
      <4>1. KeystrokeChannel(KeystrokeVectorOf(keystroke)).confidence
              <= KeystrokeChannel(KeystrokeVectorOf(keystroke')).confidence
        BY <1>1, <3>1, EventsAdd, KeystrokeAddsUp
      <4> QED
        BY <3>3, <4>1, StateIs DEF ChannelsOf
    <3>4. CASE c = "interaction"
      <4>1. InteractionChannel(InteractionVectorOf(interaction)).confidence
              <= InteractionChannel(InteractionVectorOf(interaction')).confidence
        BY <1>1, <3>1, EventsAdd, InteractionAddsUp
      <4> QED
        BY <3>4, <4>1, StateIs DEF ChannelsOf
    <3> QED
      BY <3>2, <3>3, <3>4 DEF Channels
  <2> HIDE DEF before, after
  <2>5. \A a \in Actions : Judge(after, a).confidence >= Judge(before, a).confidence
    BY <2>2, <2>3, <2>4, ConfidenceMonotone
  <2> QED
    BY <2>1, <2>5 DEF before
<1>2. IInv /\ IInv' /\ [Next]_vars =>
        [\A before \in {State}, after \in {State'}, a \in Actions :
           Judge(after, a).confidence >= Judge(before, a).confidence]_vars
  BY <1>1
<1> QED
  BY <1>2, Invariance, PTL DEF Spec, ConfidenceNeverFalls

-----------------------------------------------------------------------------
(* Straight legs.                                                          *)

LEMMA Cancel ==
  ASSUME NEW a \in Int, NEW b \in Int, NEW c \in Nat \ {0}, a * c = b * c
  PROVE  a = b
<1>1. ASSUME a + 1 <= b PROVE FALSE
  <2>1. c * (a + 1) <= c * b
    BY <1>1, Multiply
  <2>2. c * (a + 1) = a * c + c /\ c * b = b * c
    OBVIOUS
  <2> QED
    BY <2>1, <2>2
<1>2. ASSUME b + 1 <= a PROVE FALSE
  <2>1. c * (b + 1) <= c * a
    BY <1>2, Multiply
  <2>2. c * (b + 1) = b * c + c /\ c * a = a * c
    OBVIOUS
  <2> QED
    BY <2>1, <2>2
<1> QED
  BY <1>1, <1>2

(* Steps the same way are multiples of one another, by their lengths. *)
LEMMA Parallel ==
  ASSUME NEW ax \in Int, NEW ay \in Int, NEW al \in Nat \ {0},
         NEW bx \in Int, NEW by \in Int, NEW bl \in Nat,
         ax * ax + ay * ay = al * al, bx * bx + by * by = bl * bl,
         ax * by = ay * bx, ax * bx + ay * by >= 0
  PROVE  bx * al = ax * bl /\ by * al = ay * bl
<1> DEFINE dot == ax * bx + ay * by
           len == al * bl
<1>1. dot \in Nat /\ len \in Nat
  BY ProductOfNats
<1>2. dot * dot = len * len
  <2> DEFINE cross == ax * by - ay * bx
  <2>1. dot * dot + cross * cross = (ax * ax + ay * ay) * (bx * bx + by * by)
    OBVIOUS
  <2>2. cross = 0
    OBVIOUS
  <2>3. cross * cross = 0
    BY <2>2
  <2>4. (ax * ax + ay * ay) * (bx * bx + by * by) = (al * al) * (bl * bl)
    OBVIOUS
  <2>5. (al * al) * (bl * bl) = len * len
    OBVIOUS
  <2>6. dot * dot \in Int /\ cross * cross \in Int
    OBVIOUS
  <2> HIDE DEF dot, cross, len
  <2> QED
    BY <2>1, <2>3, <2>4, <2>5, <2>6
<1>3. dot = len
  <2> HIDE DEF dot, len
  <2> QED
    BY <1>1, <1>2, SqrtOfSquare
<1>4. ax * dot = bx * (al * al)
  <2>1. ax * dot = bx * (ax * ax) + ay * (ax * by)
    OBVIOUS
  <2>2. ay * (ax * by) = bx * (ay * ay)
    OBVIOUS
  <2>3. bx * (ax * ax) + bx * (ay * ay) = bx * (ax * ax + ay * ay)
    OBVIOUS
  <2> QED
    BY <2>1, <2>2, <2>3
<1>5. ay * dot = by * (al * al)
  <2>1. ay * dot = ax * (ay * bx) + by * (ay * ay)
    OBVIOUS
  <2>2. ax * (ay * bx) = by * (ax * ax)
    OBVIOUS
  <2>3. by * (ax * ax) + by * (ay * ay) = by * (ax * ax + ay * ay)
    OBVIOUS
  <2> QED
    BY <2>1, <2>2, <2>3
<1>6. ax * len = (ax * bl) * al /\ ay * len = (ay * bl) * al
  OBVIOUS
<1>7. bx * (al * al) = (bx * al) * al /\ by * (al * al) = (by * al) * al
  OBVIOUS
<1>8. bx * al \in Int /\ by * al \in Int /\ ax * bl \in Int /\ ay * bl \in Int
  OBVIOUS
<1>9. (bx * al) * al = (ax * bl) * al /\ (by * al) * al = (ay * bl) * al
  <2> HIDE DEF dot, len
  <2> QED
    BY <1>3, <1>4, <1>5, <1>6, <1>7
<1> QED
  BY <1>8, <1>9, Cancel

(* A segment along a leg: its displacement is its path, in the direction   *)
(* the leg heads.                                                          *)
OnLine(seg, heading) ==
  IF heading = None THEN seg.x = 0 /\ seg.y = 0 /\ seg.path = 0
  ELSE /\ heading.len > 0
       /\ seg.x * heading.len = seg.path * heading.x
       /\ seg.y * heading.len = seg.path * heading.y

(* The direction a corner is told against: the leg's, once it has one that *)
(* is trusted.                                                             *)
Direction(heading) ==
  IF heading # None /\ Trusted(heading) THEN heading ELSE None

(* What straight legs leave: the open segment runs along its leg, and no   *)
(* closed one has lost any of its path.                                    *)
StraightSoFar ==
  ~ course.gentle =>
    /\ pointer.cur.dir = Direction(course.heading)
    /\ OnLine(pointer.cur, course.heading)
    /\ pointer.net = pointer.path
    /\ pointer.segments > 0 => pointer.path > 0

LEMMA LineIsItsPath ==
  ASSUME NEW seg \in SegmentType, NEW heading \in Steps \cup {None}, OnLine(seg, heading)
  PROVE  Net(seg) = seg.path
<1> DEFINE x == seg.x
           y == seg.y
           path == seg.path
<1>1. x \in Int /\ y \in Int /\ path \in Nat
  BY DEF SegmentType
<1>2. x * x + y * y = path * path
  <2>1. CASE heading = None
    BY <2>1 DEF OnLine
  <2>2. CASE heading # None
    <3> DEFINE dx == heading.x
               dy == heading.y
               len == heading.len
    <3>1. dx \in Int /\ dy \in Int /\ len \in Nat /\ dx * dx + dy * dy = len * len
      BY <1>1, <2>2, StepType
    <3>2. len > 0 /\ x * len = path * dx /\ y * len = path * dy
      BY <2>2 DEF OnLine
    <3> HIDE DEF x, y, path, dx, dy, len
    <3>3. (x * len) * (x * len) = (path * dx) * (path * dx)
          /\ (y * len) * (y * len) = (path * dy) * (path * dy)
      BY <3>2
    <3>4. /\ (x * len) * (x * len) = (x * x) * (len * len)
          /\ (y * len) * (y * len) = (y * y) * (len * len)
          /\ (path * dx) * (path * dx) = (path * path) * (dx * dx)
          /\ (path * dy) * (path * dy) = (path * path) * (dy * dy)
      BY <1>1, <3>1
    <3>5. /\ (x * x) * (len * len) + (y * y) * (len * len) = (x * x + y * y) * (len * len)
          /\ (path * path) * (dx * dx) + (path * path) * (dy * dy)
               = (path * path) * (dx * dx + dy * dy)
      BY <1>1, <3>1
    <3>6. (x * x + y * y) * (len * len) = (path * path) * (len * len)
      BY <3>1, <3>3, <3>4, <3>5
    <3>7. len * len \in Nat \ {0} /\ x * x + y * y \in Int /\ path * path \in Int
      BY <1>1, <3>1, <3>2
    <3> QED
      BY <3>6, <3>7, Cancel
  <2> QED
    BY <2>1, <2>2
<1>3. Sqrt(path * path) = path
  BY <1>1, SqrtOfSquare
<1> QED
  BY <1>1, <1>2, <1>3 DEF Net, AtMost

LEMMA StartsOnLine ==
  ASSUME NEW step \in Steps
  PROVE  /\ OnLine(NoSegment, None) /\ OnLine(StartSegment, None)
         /\ NoSegment.dir = None /\ StartSegment.dir = None
         /\ Trusted(step) => OnLine(LegFrom(step), step) /\ LegFrom(step).dir = step
<1>1. /\ OnLine(NoSegment, None) /\ OnLine(StartSegment, None)
      /\ NoSegment.dir = None /\ StartSegment.dir = None
  BY DEF OnLine, NoSegment, StartSegment
<1>2. LegFrom(step).dir = step /\ LegFrom(step).x = step.x /\ LegFrom(step).y = step.y
      /\ LegFrom(step).path = step.len
  BY DEF LegFrom
<1>3. step.x * step.len = step.len * step.x /\ step.y * step.len = step.len * step.y
  BY StepType
<1> QED
  BY <1>1, <1>2, <1>3, StepType DEF OnLine, Trusted, MinTurnStepPx

(* A step of no length goes nowhere. *)
LEMMA NoLength ==
  ASSUME NEW step \in Steps, step.len = 0
  PROVE  step.x = 0 /\ step.y = 0
<1>1. ASSUME NEW a \in Int, NEW b \in Int, a * a + b * b = 0
      PROVE  a = 0
  <2>1. b * b >= 0 /\ a * a >= 0
    OBVIOUS
  <2>2. a * a = 0
    BY <1>1, <2>1
  <2> QED
    BY <2>2
<1>2. /\ step.x \in Int /\ step.y \in Int
      /\ step.x * step.x + step.y * step.y = 0 /\ step.y * step.y + step.x * step.x = 0
  BY StepType
<1> QED
  BY <1>1, <1>2

(* What a trusted step does to the direction, and any other does not.      *)
LEMMA KeepsTheDirection ==
  ASSUME NEW seg \in SegmentType, NEW heading \in Steps \cup {None}, NEW step \in Steps,
         seg.dir = Direction(heading)
  PROVE  Extended(seg, step).dir = Direction(Heads(heading, step))
<1>1. step # None /\ step.len \in Nat
  BY StepType
<1>2. Extended(seg, step).dir = IF Trusted(step) THEN step ELSE seg.dir
  BY DEF Extended
<1>3. Trusted(step) => step.len > 0
  BY <1>1 DEF Trusted, MinTurnStepPx
<1> QED
  BY <1>1, <1>2, <1>3 DEF Direction, Heads

(* A step along the leg, however small, keeps the segment on its line. *)
LEMMA ExtendsTheLine ==
  ASSUME NEW seg \in SegmentType, NEW heading \in Steps \cup {None}, OnLine(seg, heading),
         NEW step \in Steps, heading = None \/ SameWay(heading, step)
  PROVE  OnLine(Extended(seg, step), Heads(heading, step))
<1> DEFINE x == seg.x
           y == seg.y
           path == seg.path
           bx == step.x
           by == step.y
           bl == step.len
<1>1. /\ x \in Int /\ y \in Int /\ path \in Nat
      /\ bx \in Int /\ by \in Int /\ bl \in Nat /\ bx * bx + by * by = bl * bl
      /\ step # None
  BY StepType DEF SegmentType
<1>2. /\ Extended(seg, step).x = x + bx /\ Extended(seg, step).y = y + by
      /\ Extended(seg, step).path = path + bl
  BY DEF Extended
<1>3. CASE heading = None
  <2>1. x = 0 /\ y = 0 /\ path = 0
    BY <1>3 DEF OnLine
  <2>2. CASE bl = 0
    <3>1. bx = 0 /\ by = 0 /\ Heads(heading, step) = None
      BY <1>3, <2>2, NoLength DEF Heads
    <3> QED
      BY <1>2, <2>1, <2>2, <3>1 DEF OnLine
  <2>3. CASE bl > 0
    <3>1. Heads(heading, step) = step
      BY <1>3, <2>3 DEF Heads
    <3>2. (x + bx) * bl = (path + bl) * bx /\ (y + by) * bl = (path + bl) * by
      BY <1>1, <2>1
    <3> QED
      BY <1>1, <1>2, <2>3, <3>1, <3>2 DEF OnLine
  <2> QED
    BY <1>1, <2>2, <2>3
<1>4. CASE heading # None
  <2> DEFINE ax == heading.x
             ay == heading.y
             al == heading.len
  <2>1. ax \in Int /\ ay \in Int /\ al \in Nat /\ ax * ax + ay * ay = al * al
    BY <1>4, StepType
  <2>2. al > 0 /\ x * al = path * ax /\ y * al = path * ay
    BY <1>4 DEF OnLine
  <2>3. ax * by = ay * bx /\ ax * bx + ay * by >= 0
    BY <1>4 DEF SameWay, Dot
  <2> HIDE DEF x, y, path, ax, ay, al, bx, by, bl
  <2>4. bx * al = ax * bl /\ by * al = ay * bl
    BY <1>1, <2>1, <2>2, <2>3, Parallel
  <2>5. CASE Heads(heading, step) = heading
    <3>1. /\ (x + bx) * al = x * al + bx * al /\ (y + by) * al = y * al + by * al
          /\ (path + bl) * ax = path * ax + ax * bl
          /\ (path + bl) * ay = path * ay + ay * bl
      BY <1>1, <2>1
    <3>2. (x + bx) * al = (path + bl) * ax /\ (y + by) * al = (path + bl) * ay
      BY <2>2, <2>4, <3>1
    <3> QED
      BY <1>2, <1>4, <2>2, <2>5, <3>2 DEF OnLine, ax, ay, al
  <2>6. CASE Heads(heading, step) = step /\ bl > 0
    <3>1. (x * bl) * al = (x * al) * bl /\ (y * bl) * al = (y * al) * bl
      BY <1>1, <2>1
    <3>2. /\ (path * ax) * bl = path * (ax * bl) /\ (path * ay) * bl = path * (ay * bl)
          /\ (path * bx) * al = path * (bx * al) /\ (path * by) * al = path * (by * al)
      BY <1>1, <2>1
    <3>3. (x * bl) * al = (path * bx) * al /\ (y * bl) * al = (path * by) * al
      BY <2>2, <2>4, <3>1, <3>2
    <3>4. x * bl \in Int /\ y * bl \in Int /\ path * bx \in Int /\ path * by \in Int
      BY <1>1
    <3>5. al \in Nat \ {0}
      BY <2>1, <2>2
    <3>6. x * bl = path * bx /\ y * bl = path * by
      BY <3>3, <3>4, <3>5, Cancel
    <3>7. /\ (x + bx) * bl = x * bl + bx * bl /\ (y + by) * bl = y * bl + by * bl
          /\ (path + bl) * bx = path * bx + bx * bl
          /\ (path + bl) * by = path * by + by * bl
      BY <1>1
    <3>8. (x + bx) * bl = (path + bl) * bx /\ (y + by) * bl = (path + bl) * by
      BY <3>6, <3>7
    <3> QED
      BY <1>1, <1>2, <2>6, <3>8 DEF OnLine, bx, by, bl
  <2>7. Heads(heading, step) = heading \/ (Heads(heading, step) = step /\ bl > 0)
    BY DEF Heads, bl
  <2> QED
    BY <2>5, <2>6, <2>7
<1> QED
  BY <1>3, <1>4

LEMMA ClosedKeepsStraight ==
  ASSUME NEW p \in PointerType, NEW heading \in Steps \cup {None},
         OnLine(p.cur, heading), p.net = p.path,
         p.segments > 0 => p.path > 0
  PROVE  /\ Closed(p).net = Closed(p).path
         /\ Closed(p).segments > 0 => Closed(p).path > 0
<1>1. p.cur \in SegmentType /\ p.path \in Nat /\ p.segments \in Nat /\ p.cur.path \in Nat
  BY DEF PointerType, SegmentType
<1>2. Net(p.cur) = p.cur.path
  BY <1>1, LineIsItsPath
<1>3. Qualifies(p.cur) => p.cur.path > 0
  BY <1>1 DEF Qualifies, MinSegmentPathPx
<1> QED
  BY <1>1, <1>2, <1>3, ClosedAdds

(* After a sample: the leg it starts or goes on with. *)
LEMMA SampleStaysStraight ==
  ASSUME IInv, StraightSoFar, NEW step \in Steps, NEW paused \in BOOLEAN,
         AddSample(step, paused)
  PROVE  StraightSoFar'
<1> DEFINE p == pointer
           c == Closed(pointer)
           h == course.heading
           h2 == course'.heading
<1> SUFFICES ASSUME ~ course'.gentle
             PROVE  /\ pointer'.cur.dir = Direction(h2)
                    /\ OnLine(pointer'.cur, h2)
                    /\ pointer'.net = pointer'.path
                    /\ pointer'.segments > 0 => pointer'.path > 0
  BY DEF StraightSoFar, OnLine, Direction, Trusted, MinTurnStepPx
<1>1. /\ p \in PointerType /\ c \in PointerType /\ p.cur \in SegmentType
      /\ p.cur.count \in Nat /\ p.points \in Nat
      /\ p.cur.count = 0 => p.points = 0
      /\ p.cur.count > 0 => p.points > 0
  BY ClosedAdds DEF IInv, PointerInv, PointerType, SegmentType
<1>2. h \in Steps \cup {None}
  BY DEF IInv
<1>3. CASE paused \/ p.points = 0
  <2>1. h2 = None /\ ~ course.gentle
    BY <1>3 DEF AddSample, IInv
  <2>2. OnLine(p.cur, h) /\ p.net = p.path /\ (p.segments > 0 => p.path > 0)
    BY <2>1 DEF StraightSoFar
  <2>3. c.net = c.path /\ (c.segments > 0 => c.path > 0)
    BY <1>1, <1>2, <2>2, ClosedKeepsStraight
  <2>4. Direction(h2) = None
    BY <2>1 DEF Direction
  <2>5. \/ p.cur.count = 0 /\ pointer' = Pointing(p, StartSegment)
        \/ pointer' = Pointing(c, StartSegment)
    BY <1>1, <1>3, AfterSampleCases DEF AddSample, AfterSample
  <2>6. /\ StartSegment \in SegmentType /\ StartSegment.dir = Direction(h2)
        /\ OnLine(StartSegment, h2)
    BY <2>1, <2>4, StartsOnLine, NoSegmentType
  <2> HIDE DEF p, c, h, h2
  <2>7. CASE pointer' = Pointing(p, StartSegment)
    BY <1>1, <2>2, <2>6, <2>7, PointingType
  <2>8. CASE pointer' = Pointing(c, StartSegment)
    BY <1>1, <2>3, <2>6, <2>8, PointingType
  <2> QED
    BY <2>5, <2>7, <2>8
<1>4. CASE ~ paused /\ p.points > 0
  <2>0. course' = [heading |-> Heads(h, step),
                   gentle  |-> course.gentle \/ TurnsGently(h, step)]
    BY <1>1, <1>4 DEF AddSample
  <2>1. h2 = Heads(h, step) /\ ~ course.gentle /\ ~ TurnsGently(h, step)
    BY <2>0
  <2>2. /\ p.cur.dir = Direction(h) /\ OnLine(p.cur, h) /\ p.net = p.path
        /\ p.segments > 0 => p.path > 0
    BY <2>1 DEF StraightSoFar
  <2>3. c.net = c.path /\ (c.segments > 0 => c.path > 0)
    BY <1>1, <1>2, <2>2, ClosedKeepsStraight
  <2>4. CASE TurnsAway(p.cur, step)
    <3>1. pointer' = Pointing(c, LegFrom(step))
      BY <1>1, <1>4, <2>4, AfterSampleCases DEF AddSample, AfterSample
    <3>2. Trusted(step) /\ step.len > 0 /\ step # None
      BY <2>4, StepType DEF TurnsAway, Trusted, MinTurnStepPx
    <3>3. h2 = step /\ Direction(h2) = step
      BY <2>1, <3>2 DEF Heads, Direction
    <3> HIDE DEF p, c, h, h2
    <3> QED
      BY <1>1, <2>3, <3>1, <3>2, <3>3, StartsOnLine, LegType, PointingType
  <2>5. CASE ~ TurnsAway(p.cur, step)
    <3>1. pointer' = Pointing(p, Extended(p.cur, step))
      BY <1>1, <1>4, <2>5, AfterSampleCases DEF AddSample, AfterSample
    <3>2. h = None \/ SameWay(h, step)
      BY <2>1, <2>2, <2>5 DEF TurnsAway, TurnsGently, Direction
    <3>3. /\ Extended(p.cur, step) \in SegmentType
          /\ OnLine(Extended(p.cur, step), h2)
          /\ Extended(p.cur, step).dir = Direction(h2)
      BY <1>1, <1>2, <2>1, <2>2, <3>2, ExtendsTheLine, KeepsTheDirection, ExtendedType
    <3> HIDE DEF p, c, h, h2
    <3> QED
      BY <1>1, <2>2, <3>1, <3>3, PointingType
  <2> QED
    BY <2>4, <2>5
<1> QED
  BY <1>1, <1>3, <1>4

LEMMA StraightInvariance == Spec => []StraightSoFar
<1>1. Init => StraightSoFar
  BY DEF Init, StraightSoFar, OnLine, Direction, NoSegment
<1>2. IInv /\ StraightSoFar /\ [Next]_vars => StraightSoFar'
  <2> SUFFICES ASSUME IInv, StraightSoFar, [Next]_vars
               PROVE  StraightSoFar'
    OBVIOUS
  <2>1. ASSUME NEW step \in Steps, NEW paused \in BOOLEAN, AddSample(step, paused)
        PROVE  StraightSoFar'
    BY <2>1, SampleStaysStraight
  <2>2. CASE UNCHANGED <<pointer, course>>
    BY <2>2 DEF StraightSoFar, OnLine, Direction, Trusted
  <2> QED
    BY <2>1, <2>2 DEF Next, vars, AddModifier, AddKeyDown, AddKeyUp, AddScroll,
                      AddFocus, AddPaste, AddInjection
<1> QED
  BY <1>1, <1>2, Invariance, PTL DEF Spec

(* Straight legs are not taken for a curve, however the corners and pauses *)
(* fall and however small the steps along a leg: a pointer that never      *)
(* turned gently is as straight as can be (the corner detection of         *)
(* Pointer.Add).                                                           *)
THEOREM StraightLegs == Spec => []StraightLegsStayStraight
<1>1. ASSUME IInv, StraightSoFar PROVE StraightLegsStayStraight
  <2> SUFFICES ASSUME ~ course.gentle, PointerState.segments > 0
               PROVE  PointerState.straightness = Full
    BY DEF StraightLegsStayStraight
  <2> DEFINE net == Closed(pointer).net
             path == Closed(pointer).path
  <2>1. net = path /\ (Closed(pointer).segments > 0 => path > 0)
    BY <1>1, ClosedKeepsStraight DEF StraightSoFar, IInv, PointerInv
  <2>2. path \in Nat
    BY <1>1, ClosedAdds DEF IInv, PointerInv, PointerType
  <2>3. PointerState.segments = Closed(pointer).segments
        /\ PointerState.straightness = IF path = 0 THEN 0 ELSE (Full * net) \div path
    BY DEF PointerState
  <2> HIDE DEF net, path
  <2>4. path # 0 => (Full * path) \div path = Full
    BY <2>2 DEF Full
  <2> QED
    BY <2>1, <2>2, <2>3, <2>4
<1> QED
  BY <1>1, Invariance, StraightInvariance, PTL
=============================================================================

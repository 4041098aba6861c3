----------------------------- MODULE MCEvidence -----------------------------
(***************************************************************************)
(* Values for model-checking Evidence: the shipped calibration, one that   *)
(* is sure after fewer segments and intervals, so that sessions within the *)
(* bound reach every verdict, and a few events of each kind.               *)
(***************************************************************************)
EXTENDS Evidence

CONSTANTS k1, f1, f2

(* calibration.json, in the units of Policy. *)
Shipped ==
  [straightness_floor |-> 900, straightness_ceil |-> 995,
   flight_cv_floor |-> 450, flight_cv_ceil |-> 120,
   dwell_absent_ms |-> 12, identical_interval_ratio |-> 250,
   confidence_segments |-> 6, confidence_path_px |-> 1500, confidence_intervals |-> 20,
   min_confidence_to_challenge |-> 2400, min_confidence_to_block |-> 4200,
   score_to_challenge |-> 500, score_to_block |-> 800,
   min_channels_to_block |-> 2]

(* A calibration file for short sessions. *)
Brisk == [Shipped EXCEPT !.confidence_segments = 2, !.confidence_intervals = 10]

East      == [x |-> 500, y |-> 0,   len |-> 500]
NorthEast == [x |-> 400, y |-> 300, len |-> 500]
North     == [x |-> 0,   y |-> 500, len |-> 500]
Twitch    == [x |-> 3,   y |-> 0,   len |-> 3]

AllSteps == {East, NorthEast, North, Twitch}

OneKey == {k1}
TwoFields == {f1, f2}
Rhythm   == {60, 300}
Holds    == {0, 5, 90}
=============================================================================

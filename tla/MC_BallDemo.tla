------------------------------ MODULE MC_BallDemo ------------------------------
(***************************************************************************)
(* The ball demo for TLC: the number of sleep periods, and of frames in   *)
(* each, is bounded by a state constraint.                                *)
(***************************************************************************)
EXTENDS BallDemo

CONSTANTS
  MaxDemoFrames,     \* frames of one sleep period explored
  MaxSleepPeriods    \* calls of ball_demo_setup explored

DemoBound == demo_frames <= MaxDemoFrames /\ sleep_periods <= MaxSleepPeriods
================================================================================

----------------------------- MODULE MCSweepPlan -----------------------------
(* SweepPlan for TLC: the code's own band in units of 5 MHz, so that a client  *)
(* may name frequencies on, between and beside the edges of the steps, within  *)
(* and outside the band.                                                       *)
EXTENDS SweepPlan

Asked == (34..46) \cup (69..72) \cup (95..106)
==============================================================================

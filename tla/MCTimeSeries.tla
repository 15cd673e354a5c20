---------------------------- MODULE MCTimeSeries ----------------------------
(* Instances of TimeSeries for TLC. *)
EXTENDS TimeSeries
=============================================================================

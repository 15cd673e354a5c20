------------------------------ MODULE MCRealTime ------------------------------
(* Instances of RealTime for TLC. *)
EXTENDS RealTime
=============================================================================

----------------------------- MODULE MCDisruptor -----------------------------
(* Instances of Disruptor for TLC. *)
EXTENDS Disruptor
==============================================================================

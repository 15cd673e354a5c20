----------------------------- MODULE MCWaitQueue -----------------------------
(* Instances of WaitQueue for TLC. *)
EXTENDS WaitQueue
=============================================================================

------------------------------ MODULE MCMsgLog ------------------------------
(* Instances of MsgLog for TLC. *)
EXTENDS MsgLog
=============================================================================

--------------------------- MODULE MCVTableStream ---------------------------
(* Instances of VTableStream for TLC. *)
EXTENDS VTableStream
=============================================================================

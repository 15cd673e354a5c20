---------------------------- MODULE MCReaderList ----------------------------
(* Instances of ReaderList for TLC. *)
EXTENDS ReaderList
=============================================================================

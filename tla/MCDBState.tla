------------------------------ MODULE MCDBState ------------------------------
(* Instances of DBState for TLC. *)
EXTENDS DBState

(* Two fields; a second vtable that agrees with one of them and not with the
   other. *)
MCVTables == {<<<<"a", "f64">>, <<"b", "f64">>>>, <<<<"b", "f64">>, <<"a", "u8">>>>}
=============================================================================

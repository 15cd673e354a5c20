----------------------------- MODULE MCRangeQuery -----------------------------
(* Instances of RangeQuery for TLC. *)
EXTENDS RangeQuery
==============================================================================

---------------------------- MODULE BroadcastLog ----------------------------
(***************************************************************************)
(* What a ring promises to its permanent readers, without the ring: bytes  *)
(* are accepted a record at a time, and each subscriber is shown the bytes *)
(* it has not taken, in order, in runs of its own choosing.  The k-th      *)
(* accepted byte is the number k, as in Disruptor.                         *)
(***************************************************************************)
EXTENDS Integers

CONSTANTS Subscribers, Lens

VARIABLES
    total,   \* number of bytes accepted
    taken,   \* for each subscriber, the number of bytes it is done with
    view     \* for each subscriber, the run of bytes it is looking at

logvars == <<total, taken, view>>

(* The run of n bytes that begins at the from-th, and the empty run. *)
Run(from, n) == [k \in 0 .. n - 1 |-> from + k]
Nothing == [k \in {} |-> 0]

Init ==
    /\ total = 0
    /\ taken = [s \in Subscribers |-> 0]
    /\ view = [s \in Subscribers |-> Nothing]

Accept ==
    /\ \E n \in Lens : total' = total + n
    /\ UNCHANGED <<taken, view>>

Show(s) ==
    /\ view[s] = Nothing
    /\ \E n \in 1 .. total - taken[s] :
          view' = [view EXCEPT ![s] = Run(taken[s], n)]
    /\ UNCHANGED <<total, taken>>

Take(s) ==
    /\ \E n \in 1 .. total - taken[s] :
          /\ view[s] = Run(taken[s], n)
          /\ taken' = [taken EXCEPT ![s] = @ + n]
    /\ view' = [view EXCEPT ![s] = Nothing]
    /\ UNCHANGED total

Next == Accept \/ \E s \in Subscribers : Show(s) \/ Take(s)

Spec == Init /\ [][Next]_logvars
=============================================================================

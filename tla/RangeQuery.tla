------------------------------ MODULE RangeQuery ------------------------------
(***************************************************************************)
(* GetTimeSeries: TimeSeries::get_range and binary_search_nearest of       *)
(* libs/db/src/time_series_2.rs and the arm of handle_packet in lib.rs     *)
(* that copies what they find into the answer, while the persist task goes *)
(* on storing samples.                                                     *)
(*                                                                         *)
(* The query reads indexes only through the length of their committed      *)
(* part, so a node is the sequence of its timestamps.  `nodes' lists them  *)
(* oldest first: the head of the stack is the last one, and iteration over *)
(* the stack goes down.                                                    *)
(***************************************************************************)
EXTENDS Integers, Sequences, FiniteSets, SequencesExt, FiniteSetsExt

CONSTANTS
    NodeCap,     \* samples a node holds
    MinStep,     \* least distance between two samples (0: may be equal)
    MaxStamp,    \* timestamps are 1 .. MaxStamp; queries may ask for 0 and more
    MaxSamples,  \* bound on the samples stored
    MaxLate,     \* bound on the writer's steps during a query
    Limits       \* limits that are asked for

ASSUME RangeQueryAssumption ==
    /\ {NodeCap, MaxStamp} \subseteq Nat \ {0}
    /\ {MinStep, MaxSamples, MaxLate} \subseteq Nat
    /\ Limits \subseteq Nat

VARIABLES
    nodes,          \* the time series
    at,             \* where the query is
    lo, hi, limit,  \* GetTimeSeries
    start, end,     \* TimeSeriesSlice
    size,           \* range.len()
    answer,         \* timestamps of the answer; 0 is a place never written
    asked, late     \* history: nodes when the query came, and steps since

query == <<lo, hi, limit, asked>>
queryVars == <<nodes, at, query, start, end, size, answer, late>>

NoRef == [node |-> 0, index |-> 0]
NoLimit == {}     \* an Option is a set of at most one value
Monus(a, b) == IF a >= b THEN a - b ELSE 0
Dist(a, b) == IF a >= b THEN a - b ELSE b - a

QueryInit ==
    /\ nodes = <<>> /\ at = "idle"
    /\ lo = 0 /\ hi = 0 /\ limit = NoLimit
    /\ start = NoRef /\ end = NoRef /\ size = 0
    /\ answer = <<>> /\ asked = <<>> /\ late = 0

-----------------------------------------------------------------------------
(* The persist task, as in TimeSeries. *)

Full(ns) == IF ns = <<>> THEN TRUE ELSE Len(Last(ns)) >= NodeCap

WriterMay ==
    /\ Len(FlattenSeq(nodes)) < MaxSamples
    /\ at # "idle" => late < MaxLate
    /\ late' = IF at = "idle" THEN 0 ELSE late + 1

(* A node is linked, still empty. *)
Grow ==
    /\ WriterMay
    /\ Full(nodes)
    /\ nodes' = Append(nodes, <<>>)
    /\ UNCHANGED <<at, query, start, end, size, answer>>

(* A sample goes to the head node. *)
Write ==
    /\ WriterMay
    /\ ~Full(nodes)
    /\ \E t \in 1 .. MaxStamp :
        /\ \A n \in DOMAIN nodes : \A j \in DOMAIN nodes[n] : t >= nodes[n][j] + MinStep
        /\ nodes' = [nodes EXCEPT ![Len(nodes)] = Append(@, t)]
    /\ UNCHANGED <<at, query, start, end, size, answer>>

-----------------------------------------------------------------------------
(* [T]::binary_search: the index of a match, any of them, or where t would be
   inserted, counted from 0. *)
Matches(ts, t) == {i - 1 : i \in {j \in DOMAIN ts : ts[j] = t}}
Below(ts, t) == Cardinality({j \in DOMAIN ts : ts[j] < t})

(* Mutants: the index of a miss is taken down whatever `inclusive' says; it is
   one too high. *)
NearestBelow(t, inclusive) ==
    LET k == Len(nodes)
    IN IF nodes = <<>> \/ Last(nodes) = <<>> THEN {NoRef}
       ELSE {[node |-> k, index |-> Monus(Below(nodes[k], t), 1)]}
NearestAbove(t, inclusive) ==
    LET k == Len(nodes)
    IN IF nodes = <<>> \/ Last(nodes) = <<>> THEN {NoRef}
       ELSE {[node |-> k, index |-> Below(nodes[k], t) + 1]}
(* binary_search_nearest, as the set of its possible results: the walk from
   the head stops at the first node that is empty or begins at or before t. *)
Nearest(t, inclusive) ==
    LET first(n) == nodes[n][1]
        stops == {n \in DOMAIN nodes : IF nodes[n] = <<>> THEN TRUE ELSE t >= first(n)}
        k  == Max(stops)
        ts == nodes[k]
        down == IF inclusive THEN 1 ELSE 0
    IN IF nodes = <<>> THEN {NoRef}
       ELSE IF stops = {} THEN {[node |-> 1, index |-> 0]}
       ELSE IF ts = <<>> THEN {NoRef}
       ELSE IF t > Last(ts)
       THEN IF k < Len(nodes) /\ Dist(Last(nodes[k + 1]), t) < Dist(first(k), t)
            THEN {[node |-> k + 1, index |-> 0]}
            ELSE {[node |-> k, index |-> Monus(Len(ts), down)]}
       ELSE {[node |-> k, index |-> i] :
               i \in IF Matches(ts, t) # {} THEN Matches(ts, t)
                     ELSE {Monus(Below(ts, t), down)}}

(* The timestamps TimeSeriesNodeSlice has for node n; `panics' if the slice
   expression does. *)
SliceOf(n) ==
    LET from == IF n = start.node THEN start.index ELSE 0
        to   == IF n = end.node THEN end.index ELSE Monus(Len(nodes[n]), 1)
        last == IF to >= Len(nodes[n]) THEN Monus(Len(nodes[n]), 1) ELSE to
    IN [panics |-> from > last + 1 \/ last + 1 > Len(nodes[n]),
        ts     |-> SubSeq(nodes[n], from + 1, last + 1)]

(* TimeSeriesSlice::as_iter: from the start node down the stack. *)
AsIter == [i \in 1 .. start.node |-> SliceOf(start.node + 1 - i)]

(* One round of the copy loop. *)
CopySlice(acc, slice) ==
    LET n == Monus(Len(slice.ts), acc.skip)
    IN [skip   |-> Monus(acc.skip, n),
        room   |-> acc.room - n,
        panics |-> acc.panics \/ slice.panics \/ n > acc.room,
        out    |-> SubSeq(slice.ts, 1, n) \o acc.out]

Copied(len) ==
    LET acc[i \in 0 .. start.node] ==
            IF i = 0 THEN [skip |-> size - len, room |-> len, panics |-> FALSE, out |-> <<>>]
            ELSE CopySlice(acc[i - 1], AsIter[i])
    IN  acc[start.node]

-----------------------------------------------------------------------------
(* The steps of the handler. *)

Ask ==
    /\ at = "idle"
    /\ lo' \in 0 .. MaxStamp + 1 /\ hi' \in lo' .. MaxStamp + 1
    /\ limit' \in {NoLimit} \cup {{l} : l \in Limits}
    /\ asked' = nodes /\ late' = 0
    /\ at' = "start"
    /\ UNCHANGED <<nodes, start, end, size, answer>>

FindStart ==
    /\ at = "start"
    /\ start' \in Nearest(lo, FALSE)
    /\ at' = IF start' = NoRef THEN "error" ELSE "end"
    /\ UNCHANGED <<nodes, query, end, size, answer, late>>

FindEnd ==
    /\ at = "end"
    /\ end' \in Nearest(hi, TRUE)
    /\ at' = IF end' = NoRef THEN "error" ELSE "measure"
    /\ UNCHANGED <<nodes, query, start, size, answer, late>>

(* range.len(): the answer is allocated. *)
Measure ==
    /\ at = "measure"
    /\ size' = LET sum[i \in 0 .. start.node] ==
                       IF i = 0 THEN 0 ELSE sum[i - 1] + Len(AsIter[i].ts)
               IN  sum[start.node]
    /\ at' = IF \E i \in DOMAIN AsIter : AsIter[i].panics THEN "panic" ELSE "copy"
    /\ UNCHANGED <<nodes, query, start, end, answer, late>>

(* The loop that fills the answer from its end. *)
Copy ==
    /\ at = "copy"
    /\ LET res == Copied(Min({size} \cup limit))
       IN IF res.panics
          THEN at' = "panic" /\ UNCHANGED answer
          ELSE /\ answer' = [i \in 1 .. res.room |-> 0] \o res.out
               /\ at' = "done"
    /\ UNCHANGED <<nodes, query, start, end, size, late>>

(* The answer, TimeRangeOutOfBounds or the end of the connection. *)
Reply ==
    /\ at \in {"done", "error", "panic"}
    /\ at' = "idle"
    /\ start' = NoRef /\ end' = NoRef /\ size' = 0 /\ answer' = <<>>
    /\ lo' = 0 /\ hi' = 0 /\ limit' = NoLimit /\ asked' = <<>> /\ late' = 0
    /\ UNCHANGED nodes

-----------------------------------------------------------------------------
QueryNext ==
    \/ Grow \/ Write
    \/ Ask \/ FindStart \/ FindEnd \/ Measure \/ Copy \/ Reply

QuerySpec == QueryInit /\ [][QueryNext]_queryVars

(* The samples of a sequence that are in the range. *)
InRange(ts) ==
    LET sel[n \in 0 .. Len(ts)] ==
            IF n = 0 THEN <<>>
            ELSE IF lo <= ts[n] /\ ts[n] <= hi THEN Append(sel[n - 1], ts[n])
            ELSE sel[n - 1]
    IN  sel[Len(ts)]

(* What the client asked for: in a series of one node that nobody writes to
   meanwhile, the first `limit' samples of the range, for every range that
   does not end before the first sample. *)
AnswerExact ==
    (at = "done" /\ late = 0 /\ Len(asked) = 1 /\ hi >= asked[1][1]) =>
        LET found == InRange(asked[1])
        IN  answer = SubSeq(found, 1, Min({Len(found)} \cup limit))

(* Every sample of the range that was stored when the query came is in its
   answer, whatever is stored meanwhile. *)
NothingMissed ==
    (at = "done" /\ limit = NoLimit) =>
        \A n \in DOMAIN asked : \A j \in DOMAIN asked[n] :
            lo <= asked[n][j] /\ asked[n][j] <= hi => asked[n][j] \in ToSet(answer)

(* The same for a series that had one node when the query came, even if a
   second one is linked before the query ends. *)
NothingMissedInNode == Len(asked) = 1 => NothingMissed
==============================================================================

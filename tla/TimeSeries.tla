------------------------------ MODULE TimeSeries ------------------------------
(***************************************************************************)
(* How the persist task of a component stores samples:                     *)
(* libs/db/src/time_series_2.rs (TimerSeriesWriter, TimeSeriesNode,        *)
(* TimeSeries::open), over append_log.rs and the stack of arc_ring.rs, and *)
(* what is left of it when the process dies and the database is opened     *)
(* again.                                                                  *)
(*                                                                         *)
(* Records are numbered in the order the persist task takes them from the  *)
(* WAL.  The data and index logs of a node are sequences of record         *)
(* numbers: entry k of `data' holds the value of that record, entry k of   *)
(* `index' its timestamp.  An AppendLog write is one step: its bytes are   *)
(* copied before committed_len, which alone makes them visible.  The logs  *)
(* are shared file mappings, so what a dead process wrote is on file.      *)
(***************************************************************************)
EXTENDS Integers, Sequences, FiniteSets, SequencesExt

CONSTANTS
    MaxTime,     \* timestamps are 1 .. MaxTime; 0 stands for i64::MIN
    DataCaps,    \* entries that may fit the data log of a node: NODE_SIZE / element
    IndexCap,    \* entries that fit its index: NODE_SIZE / 8
    HeaderRoom,  \* entries that fit the place of a header: 24 bytes / element
    MaxRun,      \* records that may carry one timestamp
    WeakCas,     \* whether compare_exchange_weak may fail spuriously
    MaxRecords,  \* bound on the records taken
    MaxCrashes   \* bound on the crashes

ASSUME TimeSeriesAssumption ==
    /\ {MaxTime, IndexCap, MaxRun} \subseteq Nat \ {0}
    /\ DataCaps \subseteq Nat \ {0}
    /\ {HeaderRoom, MaxRecords, MaxCrashes} \subseteq Nat
    /\ WeakCas \in BOOLEAN

Times == 1 .. MaxTime

VARIABLES
    dataCap,  \* entries that fit a data log, fixed by the schema of the component
    stamp,    \* the timestamp of every record taken so far
    last,     \* Component::last_timestamp
    node,     \* node directories on disk, in the order they were made; `stage' is how far
              \* its files got: the index, an empty data file, one without header
              \* ("unset"), ready, or values where the header should be ("over")
    list,     \* AtomicStack: the open nodes, head first
    pc,       \* where the persist task is
    tardy,    \* history: records older than one taken before them, or found at the start
    failed,   \* history: records whose push ended in an error
    crashes   \* history

bounds == <<dataCap, tardy, crashes>>
history == <<bounds, failed>>
vars == <<stamp, last, node, list, pc, history>>

Current == Len(stamp)
Hd == Head(list)

Init ==
    /\ dataCap \in DataCaps
    /\ stamp = <<>> /\ last = 0 /\ node = <<>> /\ list = <<>>
    /\ pc = "idle" /\ tardy = {} /\ failed = {} /\ crashes = 0

-----------------------------------------------------------------------------
(* The persist loop takes the next record of the WAL, whatever its time, and
   hands it to TimerSeriesWriter::push_buf.  The time was checked by
   Component::push_buf on the thread of a connection, which raises
   last_timestamp only afterwards: of two pushes at once one may be late. *)
Take ==
    /\ pc = "idle" /\ Len(stamp) < MaxRecords
    /\ \E t \in Times :
        /\ Cardinality({r \in DOMAIN stamp : stamp[r] = t}) < MaxRun
        /\ stamp' = Append(stamp, t)
        /\ last' = IF t < last THEN last ELSE t
        /\ tardy' = IF t < last THEN tardy \cup {Len(stamp) + 1} ELSE tardy
    /\ pc' = "push"
    /\ UNCHANGED <<node, list, dataCap, failed, crashes>>

(* AppendLog::write starts at committed_len, which is 0 in a log without header. *)
Room(n) == IF node[n].stage = "ready" THEN dataCap ELSE dataCap + HeaderRoom

(* There is no head node, or its data log is full. *)
NoRoom ==
    IF list = <<>> THEN TRUE
    ELSE node[Hd].stage # "empty" /\ Len(node[Hd].data) >= Room(Hd)

(* Mutant: a value that has not changed is not written again. *)
WriteDataDedup ==
    /\ pc = "push" /\ list # <<>>
    /\ node[Hd].stage = "ready"
    /\ node' \in {node, [node EXCEPT ![Hd].data = Append(@, Current)]}
    /\ pc' = "index"
    /\ UNCHANGED <<stamp, last, list, history>>

(* try_push_buf: the value goes to the data log of the head node.  In a log
   without header the first ones go over it, and the result `end - HEADER_SIZE'
   overflows: a build with overflow checks panics there, the others go on. *)
WriteData ==
    /\ pc = "push" /\ list # <<>>
    /\ node[Hd].stage # "empty"
    /\ Len(node[Hd].data) < Room(Hd)
    /\ node' = [node EXCEPT ![Hd].data = Append(@, Current),
                            ![Hd].stage = IF @ = "unset" THEN "over" ELSE @]
    /\ \/ pc' = "index"
       \/ node[Hd].stage # "ready" /\ pc' = "gone"
    /\ UNCHANGED <<stamp, last, list, history>>

(* Mutant: wait for room instead of opening a node. *)
OverflowWaits == pc = "push" /\ NoRoom /\ UNCHANGED vars

(* try_push_buf without a head, or with MapOverflow from the data log: Ok(false). *)
Overflow ==
    /\ pc = "push"
    /\ NoRoom
    /\ pc' = "make_index"
    /\ UNCHANGED <<stamp, last, node, list, history>>

(* Mutants: a repeated timestamp is not written again; push_buf goes round
   its loop once more. *)
WriteIndexDedup ==
    /\ pc = "index"
    /\ node' = IF \E r \in 1 .. Current - 1 : stamp[r] = stamp[Current]
               THEN node ELSE [node EXCEPT ![Hd].index = Append(@, Current)]
    /\ pc' = "idle"
    /\ UNCHANGED <<stamp, last, list, history>>
WriteIndexAgain ==
    /\ pc = "index"
    /\ node' = [node EXCEPT ![Hd].index = Append(@, Current)]
    /\ pc' = "push"
    /\ UNCHANGED <<stamp, last, list, history>>

(* The timestamp goes to the index of the same node; MapOverflow here is an
   error that the persist loop logs.  Ok ends in data_waker.wake_all. *)
WriteIndex ==
    /\ pc = "index"
    /\ \/ /\ Len(node[Hd].index) < IndexCap
          /\ node' = [node EXCEPT ![Hd].index = Append(@, Current)]
          /\ UNCHANGED failed
       \/ /\ Len(node[Hd].index) >= IndexCap
          /\ failed' = failed \cup {Current}
          /\ UNCHANGED node
    /\ pc' = "idle"
    /\ UNCHANGED <<stamp, last, list, bounds>>

(* TimeSeriesNode::create in the directory named after the timestamp.  The
   index file is opened with create_new: if it exists, push_buf fails. *)
MakeIndex ==
    /\ pc = "make_index"
    /\ \/ /\ \E n \in DOMAIN node : node[n].dir = stamp[Current]
          /\ failed' = failed \cup {Current}
          /\ pc' = "idle"
          /\ UNCHANGED node
       \/ /\ \A n \in DOMAIN node : node[n].dir # stamp[Current]
          /\ node' = Append(node, [dir |-> stamp[Current], stage |-> "index",
                                   data |-> <<>>, index |-> <<>>])
          /\ pc' = "make_data"
          /\ UNCHANGED failed
    /\ UNCHANGED <<stamp, last, list, bounds>>

(* The data file is created ... *)
MakeData ==
    /\ pc = "make_data"
    /\ node' = [node EXCEPT ![Len(node)].stage = "empty"]
    /\ pc' = "extend"
    /\ UNCHANGED <<stamp, last, list, history>>

(* ... gets its length and is mapped ... *)
ExtendData ==
    /\ pc = "extend"
    /\ node' = [node EXCEPT ![Len(node)].stage = "unset"]
    /\ pc' = "header"
    /\ UNCHANGED <<stamp, last, list, history>>

(* ... and its header is written. *)
WriteHeader ==
    /\ pc = "header"
    /\ node' = [node EXCEPT ![Len(node)].stage = "ready"]
    /\ pc' = "link"
    /\ UNCHANGED <<stamp, last, list, history>>

(* AtomicStack::try_push, whose result push_buf ignores, and the loop again. *)
Link ==
    /\ pc = "link"
    /\ \/ list' = <<Len(node)>> \o list
       \/ WeakCas /\ UNCHANGED list
    /\ pc' = "push"
    /\ UNCHANGED <<stamp, last, node, history>>

-----------------------------------------------------------------------------
Die ==
    /\ crashes' = crashes + 1
    /\ list' = <<>>
    /\ pc' = "down"
    /\ UNCHANGED <<stamp, last, node, dataCap, tardy, failed>>

(* The process dies at any point of the above. *)
Crash == pc # "down" /\ crashes < MaxCrashes /\ Die

(* An empty data file is opened and mapped, but has no byte to load committed_len
   from: the write ends the process with a bus error. *)
Fault ==
    /\ pc = "push" /\ list # <<>>
    /\ node[Hd].stage = "empty"
    /\ Die

LatestIn(l) ==
    IF l = <<>> \/ node[Head(l)].index = <<>> THEN 0
    ELSE Last(node[Head(l)].index)

(* TimeSeries::latest: the record it returns, 0 for None. *)
Latest == LatestIn(list)

Openable == {n \in DOMAIN node : node[n].stage # "index"}

(* Mutant: last_timestamp starts from nothing after a restart. *)
ReopenForgets ==
    /\ pc = "down"
    /\ list' \in SetToSeqs(Openable)
    /\ last' = 0
    /\ pc' = "idle"
    /\ UNCHANGED <<stamp, node, history>>

(* TimeSeries::open pushes the nodes in the order read_dir yields them, which
   is any, and skips one whose files cannot be opened; Component::open takes
   last_timestamp from latest(). *)
Reopen ==
    /\ pc = "down"
    /\ list' \in SetToSeqs(Openable)
    /\ last' = IF LatestIn(list') = 0 THEN 0 ELSE stamp[LatestIn(list')]
    /\ pc' = "idle"
    /\ UNCHANGED <<stamp, node, history>>

-----------------------------------------------------------------------------
Push ==
    \/ WriteData \/ Overflow \/ WriteIndex \/ Fault
    \/ MakeIndex \/ MakeData \/ ExtendData \/ WriteHeader \/ Link

Next == Take \/ Push \/ Crash \/ Reopen

Spec == Init /\ [][Next]_vars

(* The persist task runs: it is polled again after every wake-up. *)
FairSpec == Spec /\ WF_vars(Push)

-----------------------------------------------------------------------------
(* A reader that finds entry k in an index finds the value of that record in
   the data log of the node, which is written first: in place k, or displaced
   by at most one place for every crash that fell between the two writes.  Not
   so in a node whose creation a crash cut off before its header: the values
   are written over it and read from behind it. *)
Aligned ==
    \A n \in DOMAIN node : node[n].stage # "over" =>
        \A k \in DOMAIN node[n].index : \E d \in 0 .. crashes :
            /\ k + d \in DOMAIN node[n].data
            /\ node[n].index[k] = node[n].data[k + d]

(* An index that no late record got into is sorted by time, which every binary
   search in it assumes, even when nodes are reopened in an order that makes an
   old one the head and last_timestamp goes back. *)
NodesSorted ==
    \A n \in DOMAIN node :
        (\A k \in DOMAIN node[n].index : node[n].index[k] \notin tardy) =>
            \A j, k \in DOMAIN node[n].index :
                j < k => stamp[node[n].index[j]] <= stamp[node[n].index[k]]

(* No record is indexed twice: a push that is retried after an overflow
   leaves nothing of its first try behind. *)
StoredOnce ==
    \A m, n \in DOMAIN node :
        \A j \in DOMAIN node[m].index, k \in DOMAIN node[n].index :
            node[m].index[j] = node[n].index[k] => m = n /\ j = k

(* Until a restart, latest() between two pushes is the last record whose push
   did not end in an error: every record is stored in the node that readers
   look at first, or the persist loop logs that it was not. *)
LatestIsNewest ==
    (crashes = 0 /\ pc = "idle") => Latest = Max({0} \cup (DOMAIN stamp \ failed))

(* After a restart too, when latest() finds a record no newer one is stored. *)
RestartKeepsLatest ==
    (pc = "idle" /\ Latest # 0) =>
        \A n \in DOMAIN node : \A r \in ToSet(node[n].index) : r <= Latest

(* Until a restart, a push comes to an end: the loop of push_buf does not
   create nodes for ever, although it ignores whether one was linked. *)
PushesEnd == (pc = "push" /\ crashes = 0) ~> pc \in {"idle", "down"}
==============================================================================

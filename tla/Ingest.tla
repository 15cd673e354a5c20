-------------------------------- MODULE Ingest --------------------------------
(***************************************************************************)
(* The path of a sample of one component from a connection to storage:     *)
(* handle_conn and the Table arm of handle_packet, DBSink::apply_value,    *)
(* Component::push_buf and Component::persist of libs/db/src/lib.rs, on    *)
(* the threads and executors of libs/stellarator.                          *)
(*                                                                         *)
(* Every connection is a thread with an executor of its own (struc_con::   *)
(* stellar).  insert_vtable creates the component on the thread of the     *)
(* connection that sent the vtable, and Component::create spawns the       *)
(* persist task on that thread's executor; DB::open spawns it on the main  *)
(* thread.  Tasks of one executor take turns: a push runs from its table   *)
(* to its answer in one poll, and so does the persist task until it finds  *)
(* the ring empty.                                                         *)
(*                                                                         *)
(* The WAL is a ring of whole records here, all of one size; try_grant     *)
(* with its commit, and the loads of Reader::next, are single steps:       *)
(* Disruptor has the bytes, and the steps within.  What Disruptor leaves   *)
(* out is here: try_grant loads the write position before it takes the     *)
(* lock, so that pushes of two connections may meet, and records may fill  *)
(* the ring to its last byte, as those of an f64 or of three do.           *)
(* last_updated of the database, which apply_value raises after a push, is *)
(* left out: nothing here reads it.                                        *)
(***************************************************************************)
EXTENDS Integers, Sequences, FiniteSets, SequencesExt

CONSTANTS
    Conns,      \* connections over the life of the server, one thread each
    Main,       \* the server's own thread
    None,       \* there is no component yet
    WalCap,     \* whole records that fit the ring
    MaxTime,    \* bound on timestamps
    MaxSends    \* bound on the number of tables received

ASSUME IngestAssumption ==
    /\ Main \notin Conns /\ None \notin Conns \cup {Main}
    /\ WalCap \in Nat \ {0, 1} /\ MaxTime \in Nat \ {0}
    /\ MaxSends \in Nat

VARIABLES
    conn,         \* the state of each connection
    host,         \* the thread the persist task was spawned on
    task,         \* the persist task
    batch,        \* where the ReadGrant it holds ends, 0 without one
    exact,        \* whether WalCap records fill the ring to the last byte
    ring,         \* what is written in each place of the ring
    committed,    \* WriteHead: where the committed records end
    mark,         \* WriteHead::high_water_mark
    cursor,       \* the cursor of the persist task's Reader
    stored,       \* records handed to the time series, in that order
    last,         \* Component::last_timestamp
    pc, rec, write,   \* locals of push_buf and try_grant on each connection thread
    sent, accepted,   \* history: tables received, and the samples let into the ring
    overlap,          \* history: a push began during another one
    spoilt            \* history: the ring was written where a queue would not be

wal == <<exact, ring, committed, mark, cursor>>
persistVars == <<host, task, batch, stored>>
history == <<sent, accepted, overlap, spoilt>>
vars == <<conn, persistVars, wal, last, pc, rec, write, history>>

Times == 1 .. MaxTime
NoRecord == [id |-> 0, ts |-> 0]
Larger(a, b) == IF a >= b THEN a ELSE b

(* DB::create starts without components, DB::open with the one on disk, whose
   last sample gives last_timestamp. *)
Init ==
    /\ conn = [c \in Conns |-> "new"]
    /\ \/ host = None /\ task = "none" /\ last = 0
       \/ host = Main /\ task = "queued" /\ last \in 0 .. MaxTime
    /\ exact \in BOOLEAN /\ ring = [i \in 0 .. WalCap - 1 |-> NoRecord]
    /\ committed = 0 /\ mark = 0 /\ cursor = 0
    /\ batch = 0 /\ stored = <<>>
    /\ pc = [c \in Conns |-> "idle"]
    /\ rec = [c \in Conns |-> NoRecord]
    /\ write = [c \in Conns |-> 0]
    /\ sent = 0 /\ accepted = {} /\ overlap = FALSE /\ spoilt = FALSE

-----------------------------------------------------------------------------
(* Threads and executors. *)

(* The executor the persist task belongs to still runs. *)
HostAlive == IF host \in Conns THEN conn[host] = "up" ELSE host = Main

(* Thread c is free for its connection: the persist task is not in a poll on it. *)
Free(c) == ~(host = c /\ task = "running")

(* Server::run accepts and starts a thread. *)
Accept(c) ==
    /\ conn[c] = "new"
    /\ conn' = [conn EXCEPT ![c] = "up"]
    /\ UNCHANGED <<persistVars, wal, last, pc, rec, write, history>>

(* insert_vtable under the write lock of the state: State::insert_component
   creates the component, and spawns its persist task here, unless there is
   one already. *)
Create(c) ==
    /\ conn[c] = "up" /\ Free(c) /\ \A d \in Conns : pc[d] = "idle"
    /\ host = None
    /\ host' = c /\ task' = "queued"
    /\ UNCHANGED <<conn, batch, wal, stored, last, pc, rec, write, history>>

(* handle_conn returns: Executor::run drops the tasks in its run queue, with
   the Reader in the persist task, and then the executor itself.  A sleeping
   persist task stays in the wait queue of the ring. *)
Close(c) ==
    /\ conn[c] = "up" /\ pc[c] = "idle" /\ Free(c)
    /\ conn' = [conn EXCEPT ![c] = "closed"]
    /\ task' = IF host = c /\ task = "queued" THEN "gone" ELSE task
    /\ UNCHANGED <<host, batch, stored, wal, last, pc, rec, write, history>>

-----------------------------------------------------------------------------
(* A table arrives on connection c. *)

(* Mutant: no check at all. *)
ReceiveAny(c) ==
    /\ conn[c] = "up" /\ pc[c] = "idle" /\ Free(c)
    /\ host # None /\ sent < MaxSends
    /\ \E t \in Times : rec' = [rec EXCEPT ![c] = [id |-> sent + 1, ts |-> t]]
    /\ pc' = [pc EXCEPT ![c] = "load"]
    /\ sent' = sent + 1
    /\ overlap' = (overlap \/ \E d \in Conns : pc[d] # "idle")
    /\ UNCHANGED <<conn, persistVars, wal, last, write, accepted, spoilt>>

(* DBSink stamps the table with the time of arrival or with the timestamp field
   the sender filled in: any time, for a server that sees several clocks.
   push_buf looks at last_timestamp; Error::TimeTravel ends the table, and
   changes nothing. *)
Receive(c) ==
    /\ conn[c] = "up" /\ pc[c] = "idle" /\ Free(c)
    /\ host # None /\ sent < MaxSends
    /\ \E t \in Times :
        /\ ~(t < last)
        /\ rec' = [rec EXCEPT ![c] = [id |-> sent + 1, ts |-> t]]
    /\ pc' = [pc EXCEPT ![c] = "load"]
    /\ sent' = sent + 1
    /\ overlap' = (overlap \/ \E d \in Conns : pc[d] # "idle")
    /\ UNCHANGED <<conn, persistVars, wal, last, write, accepted, spoilt>>

(* The persist task still has its Reader in the ring. *)
HasReader == task \notin {"none", "gone"}

(* The length of the ring: a whole number of records, or a part of one more. *)
End == IF exact THEN WalCap ELSE WalCap + 1

(* try_grant loads the write position ... *)
Load(c) ==
    /\ pc[c] = "load"
    /\ write' = [write EXCEPT ![c] = committed % End]
    /\ pc' = [pc EXCEPT ![c] = "grant"]
    /\ UNCHANGED <<conn, persistVars, wal, last, rec, history>>

(* ... takes the lock and looks whether a record there would overlap what the
   reader has not read (can_write). *)
CanWrite(w) ==
    LET read == cursor % End IN
    HasReader => ~(w < read /\ w + 1 >= read) /\ ~(w = WalCap /\ 1 >= read)

(* A record at the end of the ring goes to its start. *)
Place(w) == IF w = WalCap THEN 0 ELSE w

(* high_water_mark after try_grant, and after the drop of the grant that ends at e. *)
Marked(w) == IF w = WalCap THEN 0 ELSE Larger(mark, w + 1)
MarkAfter(w, e) ==
    IF e < committed /\ e # End THEN committed
    ELSE IF e > Marked(w) THEN End ELSE Marked(w)

(* The position is not where the committed records end any more; or the record
   takes the last room of a ring without a spare byte, and the cursor tells a
   full ring from an empty one no longer. *)
Spoils(w) ==
    \/ w # committed % End
    \/ exact /\ \/ cursor = 0 /\ committed = WalCap
                \/ cursor = WalCap /\ committed = WalCap - 1

Written(c) ==
    LET w == write[c] IN
    /\ ring' = [ring EXCEPT ![Place(w)] = rec[c]]
    /\ committed' = Place(w) + 1
    /\ mark' = MarkAfter(w, Place(w) + 1)
    /\ accepted' = accepted \cup {rec[c].id}
    /\ spoilt' = (spoilt \/ (HasReader /\ Spoils(w)))
    /\ pc' = [pc EXCEPT ![c] = "raise"]

(* Mutant: the ring does not wake its reader. *)
GrantSilent(c) ==
    /\ pc[c] = "grant" /\ CanWrite(write[c])
    /\ Written(c)
    /\ UNCHANGED <<conn, persistVars, exact, cursor, last, rec, write, sent, overlap>>

(* The copy into the grant, and its drop, which wakes the reader: on a live
   executor the persist task is queued, on a dead one LocalSpawner::schedule
   drops the task and its Reader leaves the ring. *)
Grant(c) ==
    /\ pc[c] = "grant" /\ CanWrite(write[c])
    /\ Written(c)
    /\ task' = IF task # "asleep" THEN task ELSE IF HostAlive THEN "queued" ELSE "gone"
    /\ UNCHANGED <<conn, host, batch, stored, exact, cursor, last, rec, write, sent, overlap>>

(* The ring is full: the sample is skipped, and push_buf returns Ok. *)
Skip(c) ==
    /\ pc[c] = "grant" /\ ~CanWrite(write[c])
    /\ pc' = [pc EXCEPT ![c] = "idle"]
    /\ rec' = [rec EXCEPT ![c] = NoRecord] /\ write' = [write EXCEPT ![c] = 0]
    /\ UNCHANGED <<conn, persistVars, wal, last, history>>

(* last_timestamp.update_max. *)
Raise(c) ==
    /\ pc[c] = "raise"
    /\ last' = Larger(last, rec[c].ts)
    /\ pc' = [pc EXCEPT ![c] = "idle"]
    /\ rec' = [rec EXCEPT ![c] = NoRecord] /\ write' = [write EXCEPT ![c] = 0]
    /\ UNCHANGED <<conn, persistVars, wal, history>>

-----------------------------------------------------------------------------
(* The persist task. *)

(* Its executor polls it, between two polls of the connection on its thread. *)
Poll ==
    /\ task = "queued" /\ HostAlive
    /\ host \in Conns => pc[host] = "idle"
    /\ task' = "running"
    /\ UNCHANGED <<conn, host, batch, wal, stored, last, pc, rec, write, history>>

(* Where Reader::next starts to read, and what it finds there in one piece. *)
From == IF cursor = mark /\ committed < cursor THEN 0 ELSE cursor
Upto == IF committed < From THEN mark ELSE committed

(* It hands out everything up to the end of the ring ... *)
Read ==
    /\ task = "running" /\ batch = 0
    /\ Upto > From
    /\ cursor' = From /\ batch' = Upto
    /\ UNCHANGED <<conn, host, task, stored, exact, ring, committed, mark,
                   last, pc, rec, write, history>>

(* The whole records in the places from a up to b. *)
Slots(a, b) == [i \in 1 .. (IF b > WalCap THEN WalCap ELSE b) - a |-> ring[a + i - 1]]

(* Mutant: the release covers what was committed meanwhile. *)
StoreReleasesAll ==
    /\ batch > 0
    /\ stored' = stored \o Slots(cursor, batch)
    /\ cursor' = committed
    /\ batch' = 0
    /\ UNCHANGED <<conn, host, task, exact, ring, committed, mark,
                   last, pc, rec, write, history>>

(* ... the parse loop stores record after record, and the drop of the
   ReadGrant gives their space back. *)
Store ==
    /\ batch > 0
    /\ stored' = stored \o Slots(cursor, batch)
    /\ cursor' = batch
    /\ batch' = 0
    /\ UNCHANGED <<conn, host, task, exact, ring, committed, mark,
                   last, pc, rec, write, history>>

(* The ring is empty: next() is pending. *)
Sleep ==
    /\ task = "running" /\ batch = 0 /\ Upto = From
    /\ cursor' = From
    /\ task' = "asleep"
    /\ UNCHANGED <<conn, host, batch, stored, exact, ring, committed, mark,
                   last, pc, rec, write, history>>

(* A spoilt ring may have its high-water mark behind the cursor: the length is
   negative, and the panic ends the thread that hosts the task. *)
Panic ==
    /\ task = "running" /\ batch = 0 /\ Upto < From
    /\ task' = "gone"
    /\ conn' = [c \in Conns |-> IF c = host THEN "closed" ELSE conn[c]]
    /\ UNCHANGED <<host, batch, stored, wal, last, pc, rec, write, history>>

-----------------------------------------------------------------------------
PushStep(c) == Load(c) \/ Grant(c) \/ Skip(c) \/ Raise(c)

Persist == Poll \/ Read \/ Store \/ Sleep \/ Panic

Next ==
    \/ \E c \in Conns : Accept(c) \/ Create(c) \/ Close(c) \/ Receive(c) \/ PushStep(c)
    \/ Persist

Spec == Init /\ [][Next]_vars

(* Threads run, and an executor that runs polls the tasks in its queue: the
   run loop does not go to sleep while a task is ready, and a wake-up from
   another thread interrupts its sleep. *)
FairSpec ==
    /\ Spec
    /\ WF_vars(Persist)
    /\ \A c \in Conns : WF_vars(PushStep(c))

-----------------------------------------------------------------------------
Ids(s) == {s[i].id : i \in DOMAIN s}

(* What the persist task has yet to read and release. *)
Unread ==
    IF committed >= cursor THEN Slots(cursor, committed)
    ELSE Slots(cursor, mark) \o Slots(0, committed)

(* While the persist task is there, every accepted sample is in storage or
   still in the ring, and in one of them once, however pushes, reads and
   releases interleave and wherever the ring wraps.  Not so when one push wrote
   to the ring between the load and the lock of another, which then writes over
   it, nor when records of a size that divides the ring filled it up. *)
NothingLost ==
    (task # "gone" /\ ~spoilt) =>
        /\ Ids(stored \o Unread) = accepted
        /\ Len(stored \o Unread) = Cardinality(accepted)

(* As long as no two connections have pushed at once, the check of push_buf
   makes storage receive samples in time order, on which the binary searches
   of the time series rest, unless a ring without a spare byte filled up. *)
StoredSorted ==
    (~overlap /\ ~spoilt) =>
        \A i, j \in DOMAIN stored : i < j => stored[i].ts <= stored[j].ts

(* Unless the thread that hosts the persist task ends or the ring is spoilt,
   the task catches up again and again: no wake-up of it is lost, and no sample
   that was accepted is left in the ring. *)
StoredWhileHosted == []<>(accepted \subseteq Ids(stored) \/ ~HostAlive \/ spoilt)

(* tests/src/lib.rs, several clients of one server: "Verify that data was
   written by all clients". *)
AcceptedStored == \A k \in 1 .. MaxSends : k \in accepted ~> k \in Ids(stored)
==============================================================================

-------------------------------- MODULE MsgLog --------------------------------
(***************************************************************************)
(* The log of the messages of one id: libs/db/src/msg_log_2.rs (MsgLog,    *)
(* MsgLogNode, BufLog) with the stream that follows it, handle_msg_stream  *)
(* of libs/db/src/lib.rs, and what a crash leaves of it.                   *)
(*                                                                         *)
(* Messages are numbered in the order they are accepted.  The three files  *)
(* of a node are sequences of message numbers; an entry of `offsets' also  *)
(* has the offset of a message too long to be stored in the entry itself.  *)
(* Every long message takes one unit of the data log.                      *)
(*                                                                         *)
(* The WAL is a queue of messages as long as the ring behaves like one.    *)
(* Pushes of several connections share it, and try_grant loads the write   *)
(* position before it takes the lock: a push that was overtaken in between *)
(* writes over others, and so does one that finds the ring full to its     *)
(* last byte (Disruptor and Ingest have the details).  From then on        *)
(* the persist task may find anything in the ring.                         *)
(***************************************************************************)
EXTENDS Integers, Sequences, FiniteSets, SequencesExt

CONSTANTS
    Conns,       \* connections that push
    Times,       \* timestamps a client may send
    WalCap,      \* messages that fit the WAL
    DataCap,     \* long messages that fit a data log: 8 GB
    OffsetCap,   \* entries that fit the offsets: half of what the timestamps hold
    OffsetMod,   \* long messages after which an offset no longer fits 32 bits
    MaxMsgs,     \* bound on the messages
    MaxCrashes   \* bound on the crashes

ASSUME MsgLogAssumption ==
    /\ {WalCap, DataCap, OffsetCap, OffsetMod} \subseteq Nat \ {0}
    /\ {MaxMsgs, MaxCrashes} \subseteq Nat

VARIABLES
    msg,      \* every message accepted: its time and whether it is long
    host,     \* whose executor runs the persist task: of the connection that created
              \* the log ("conn"), the server's ("main"), one that ended ("gone")
    wal,      \* messages in the WAL, released ones gone
    spoilt,   \* whether the ring was written where a queue would not be
    granted,  \* how many of them the persist task holds a grant of
    taken,    \* how many of those it has taken
    node,     \* node directories on disk, in the order they were made; `stage' is how far
              \* its files got: timestamps ("first"), offsets ("second"), a data log
              \* that is empty, one without header ("unset"), ready; `low' counts
              \* the messages that begin where the header should be
    list,     \* AtomicStack: the open nodes, head first
    pc,       \* where the persist task is
    push,     \* where the push of each connection is
    stream,   \* handle_msg_stream: where it is and the MsgRef it holds
    sent,     \* the message the stream sent last, 0 for none
    failed,   \* history: messages whose persist_msg ended in an error
    crashes   \* history

ring == <<host, wal, spoilt>>
files == <<node, list>>
follower == <<stream, sent>>
history == <<failed, crashes>>
vars == <<msg, ring, granted, taken, files, pc, push, follower, history>>

NoRef == [at |-> "wait", node |-> 0, index |-> 0]
Current == wal[taken]
Hd == Head(list)

Init ==
    /\ msg = <<>> /\ granted = 0 /\ taken = 0
    /\ host = "none" /\ wal = <<>> /\ spoilt = FALSE
    /\ node = <<>> /\ list = <<>> /\ pc = "next"
    /\ push = [c \in Conns |-> "idle"] /\ stream = NoRef /\ sent = 0
    /\ failed = {} /\ crashes = 0

-----------------------------------------------------------------------------
(* get_or_insert_msg_log, for the first message, a stream or metadata: MsgLog::
   create spawns the persist task on the executor of that connection. *)
Create ==
    /\ pc # "down" /\ host = "none"
    /\ host' = "conn"
    /\ UNCHANGED <<msg, wal, spoilt, granted, taken, files, pc, push, follower, history>>

(* The connection ends between two polls of the persist task, or the task
   panics on a spoilt ring: the task is dropped with its Reader. *)
HostEnds ==
    /\ host = "conn" /\ pc = "next"
    /\ taken = granted \/ spoilt
    /\ host' = "gone"
    /\ wal' = <<>> /\ granted' = 0 /\ taken' = 0
    /\ UNCHANGED <<msg, spoilt, files, pc, push, follower, history>>

Hosted == host \in {"conn", "main"}

(* push_msg, under the read lock of the state: try_grant loads the write
   position ... *)
Load(c) ==
    /\ pc # "down" /\ host # "none" /\ push[c] = "idle"
    /\ Len(msg) < MaxMsgs
    /\ push' = [push EXCEPT ![c] = "loaded"]
    /\ UNCHANGED <<msg, ring, granted, taken, files, pc, follower, history>>

(* ... and takes the lock.  WouldBlock or InsufficientCapacity: push returns
   MapOverflow. *)
Refuse(c) ==
    /\ push[c] \in {"loaded", "stale"}
    /\ push' = [push EXCEPT ![c] = "idle"]
    /\ UNCHANGED <<msg, ring, granted, taken, files, pc, follower, history>>

(* Whoever loaded the write position before this commit has an old one. *)
Committed(c) ==
    [d \in Conns |-> IF d = c THEN "wake" ELSE IF push[d] = "loaded" THEN "stale" ELSE push[d]]

(* A grant for the whole record, filled and dropped.  The times are the
   client's: push does not compare them. *)
Grant(c) ==
    /\ push[c] \in {"loaded", "stale"}
    /\ \/ /\ Hosted /\ ~spoilt
          /\ push[c] = "loaded" /\ Len(wal) < WalCap /\ Len(msg) < MaxMsgs
          /\ \E t \in Times, long \in BOOLEAN : msg' = Append(msg, [time |-> t, long |-> long])
          /\ wal' = Append(wal, Len(msg) + 1)
          /\ UNCHANGED spoilt
       \/ /\ Hosted => (push[c] = "stale" \/ Len(wal) >= WalCap - 1 \/ spoilt)
          /\ spoilt' = (spoilt \/ Hosted)
          /\ UNCHANGED <<msg, wal>>
    /\ push' = Committed(c)
    /\ UNCHANGED <<host, granted, taken, files, pc, follower, history>>

(* data_waker.wake_all, once the grant is dropped. *)
WakeStreams(c) ==
    /\ push[c] = "wake"
    /\ push' = [push EXCEPT ![c] = "idle"]
    /\ stream' = IF stream.at = "wait" THEN [stream EXCEPT !.at = "woken"] ELSE stream
    /\ UNCHANGED <<msg, ring, granted, taken, files, pc, sent, history>>

-----------------------------------------------------------------------------
(* persist: the grant of this turn is dropped, which releases its bytes, and
   reader.next() grants all that is in the WAL, or waits. *)
NextGrant ==
    /\ pc = "next" /\ taken = granted
    /\ wal # <<>> /\ ~spoilt
    /\ wal' = SubSeq(wal, granted + 1, Len(wal))
    /\ granted' = Len(wal) - granted /\ taken' = 0
    /\ UNCHANGED <<msg, host, spoilt, files, pc, push, follower, history>>

(* Mutant: one message of a grant is parsed and the rest skipped. *)
TakeFirstOnly ==
    /\ pc = "next" /\ taken = 0 /\ granted > 0 /\ ~spoilt
    /\ wal' = <<wal[1]>> \o SubSeq(wal, granted + 1, Len(wal))
    /\ granted' = 1 /\ taken' = 1
    /\ pc' = "push"
    /\ UNCHANGED <<msg, host, spoilt, files, push, follower, history>>

(* The parse loop: the next message of the grant. *)
Take ==
    /\ pc = "next" /\ taken < granted /\ ~spoilt
    /\ taken' = taken + 1
    /\ pc' = "push"
    /\ UNCHANGED <<msg, ring, granted, files, push, follower, history>>

(* In a spoilt ring it finds some time, some length and as many bytes. *)
TakeAny ==
    /\ pc = "next" /\ spoilt /\ Hosted
    /\ Len(msg) < MaxMsgs
    /\ \E t \in Times, long \in BOOLEAN : msg' = Append(msg, [time |-> t, long |-> long])
    /\ wal' = <<Len(msg) + 1>> /\ granted' = 1 /\ taken' = 1
    /\ pc' = "push"
    /\ UNCHANGED <<host, spoilt, files, push, follower, history>>

Long == msg[Current].long

(* In a data log without header the first message goes over the header, and the
   second too if the first, of more than 12 bytes, is shorter than the 16 of a
   header. *)
BeginsLow(n) ==
    IF node[n].stage # "unset" THEN {FALSE}
    ELSE CASE node[n].data = <<>>      -> {TRUE}
           [] Len(node[n].data) = 1    -> BOOLEAN
           [] OTHER                    -> {FALSE}

(* try_push and insert_msg: a long message goes to the data log first.  Where it
   goes over the header `end - size_of::<Header>()' overflows: a build with
   overflow checks panics there, the others go on. *)
WriteData ==
    /\ pc = "push" /\ list # <<>> /\ Long
    /\ node[Hd].stage # "empty" /\ Len(node[Hd].data) < DataCap
    /\ \E low \in BeginsLow(Hd) :
        /\ node' = [node EXCEPT ![Hd].data = Append(@, Current),
                                ![Hd].low = IF low THEN @ + 1 ELSE @]
        /\ pc' = "offset" \/ (low /\ pc' = "gone")
    /\ UNCHANGED <<msg, ring, granted, taken, list, push, follower, history>>

(* Mutant: the offset is taken after the data is written. *)
WriteOffsetAfter ==
    /\ pc = "offset" \/ (pc = "push" /\ list # <<>> /\ ~Long)
    /\ Len(node[Hd].offsets) < OffsetCap
    /\ node' = [node EXCEPT ![Hd].offsets =
                    Append(@, [msg |-> Current, at |-> Len(node[Hd].data) % OffsetMod])]
    /\ pc' = "time"
    /\ UNCHANGED <<msg, ring, granted, taken, list, push, follower, history>>

(* The place of the last message of the data log, cut to 32 bits: a message
   over the header gets one before the start of the log, that is past its end. *)
Offset ==
    IF Len(node[Hd].data) <= node[Hd].low THEN OffsetMod
    ELSE (Len(node[Hd].data) - 1) % OffsetMod

(* insert_msg: its entry goes to the offsets. *)
WriteOffset ==
    /\ pc = "offset" \/ (pc = "push" /\ list # <<>> /\ ~Long)
    /\ Len(node[Hd].offsets) < OffsetCap
    /\ node' = [node EXCEPT ![Hd].offsets =
                    Append(@, [msg |-> Current, at |-> IF Long THEN Offset ELSE 0])]
    /\ pc' = "time"
    /\ UNCHANGED <<msg, ring, granted, taken, list, push, follower, history>>

(* try_push: no head node, or MapOverflow from either log. *)
Overflow ==
    /\ \/ pc = "push" /\ list = <<>>
       \/ /\ pc = "push" /\ list # <<>> /\ Long
          /\ node[Hd].stage # "empty" /\ Len(node[Hd].data) >= DataCap
       \/ /\ pc = "offset" \/ (pc = "push" /\ list # <<>> /\ ~Long)
          /\ Len(node[Hd].offsets) >= OffsetCap
    /\ pc' = "create"
    /\ UNCHANGED <<msg, ring, granted, taken, files, push, follower, history>>

(* try_push: the timestamp last, in the same node. *)
WriteTime ==
    /\ pc = "time"
    /\ node' = [node EXCEPT ![Hd].times = Append(@, Current)]
    /\ pc' = "next"
    /\ UNCHANGED <<msg, ring, granted, taken, list, push, follower, history>>

(* MsgLogNode::create in the directory named after the message's time.  Its
   first file must not exist: if it does, persist_msg fails. *)
CreateNode ==
    /\ pc = "create"
    /\ \/ /\ \E n \in DOMAIN node : node[n].dir = msg[Current].time
          /\ failed' = failed \cup {Current}
          /\ pc' = "next"
          /\ UNCHANGED node
       \/ /\ \A n \in DOMAIN node : node[n].dir # msg[Current].time
          /\ node' = Append(node, [dir |-> msg[Current].time, stage |-> "first", low |-> 0,
                                   data |-> <<>>, offsets |-> <<>>, times |-> <<>>])
          /\ pc' = "files"
          /\ UNCHANGED failed
    /\ UNCHANGED <<msg, ring, granted, taken, list, push, follower, crashes>>

Stages == [first |-> "second", second |-> "empty", empty |-> "unset", unset |-> "ready"]

(* Its other two files are created; the last one gets its length, and then its
   header. *)
CreateFile ==
    /\ pc = "files"
    /\ node' = [node EXCEPT ![Len(node)].stage = Stages[@]]
    /\ pc' = IF node[Len(node)].stage = "unset" THEN "link" ELSE "files"
    /\ UNCHANGED <<msg, ring, granted, taken, list, push, follower, history>>

(* AtomicStack::try_push, whose result is ignored, and the loop again.  The
   exchange may fail spuriously. *)
Link ==
    /\ pc = "link"
    /\ list' \in {<<Len(node)>> \o list, list}
    /\ pc' = "push"
    /\ UNCHANGED <<msg, ring, granted, taken, node, push, follower, history>>

-----------------------------------------------------------------------------
(* BufLog::get_msg: the message whose bytes entry k of node n yields, 0 for
   None. *)
GetMsg(n, k) ==
    IF k \notin DOMAIN node[n].offsets THEN 0
    ELSE LET e == node[n].offsets[k]
         IN  IF ~msg[e.msg].long THEN e.msg
             ELSE IF e.at + 1 \in DOMAIN node[n].data THEN node[n].data[e.at + 1] ELSE 0

(* handle_msg_stream, woken: latest(), or wait again. *)
StreamLatest ==
    /\ stream.at = "woken"
    /\ stream' = IF list = <<>> THEN NoRef
                 ELSE IF node[Hd].times = <<>> THEN NoRef
                 ELSE [at |-> "send", node |-> Hd, index |-> Len(node[Hd].times)]
    /\ UNCHANGED <<msg, ring, granted, taken, files, pc, push, sent, history>>

(* The sink is locked, the message copied and sent; what is pushed until the
   stream waits again wakes nobody. *)
StreamSend ==
    /\ stream.at = "send"
    /\ sent' = IF GetMsg(stream.node, stream.index) = 0 THEN sent
               ELSE GetMsg(stream.node, stream.index)
    /\ stream' = NoRef
    /\ UNCHANGED <<msg, ring, granted, taken, files, pc, push, history>>

-----------------------------------------------------------------------------
Die ==
    /\ crashes' = crashes + 1
    /\ pc' = "down" /\ list' = <<>> /\ host' = "none"
    /\ wal' = <<>> /\ spoilt' = FALSE /\ granted' = 0 /\ taken' = 0
    /\ push' = [c \in Conns |-> "idle"] /\ stream' = NoRef
    /\ UNCHANGED <<msg, node, sent, failed>>

(* The process dies at any point: the files stay, the WAL does not. *)
Crash == pc # "down" /\ crashes < MaxCrashes /\ Die

(* An empty data log is opened and mapped, but has no byte to load committed_len
   from: the write ends the process with a bus error. *)
Fault ==
    /\ pc = "push" /\ list # <<>> /\ Long
    /\ node[Hd].stage = "empty"
    /\ Die

(* MsgLogNode::open needs all three files. *)
Openable == {n \in DOMAIN node : node[n].stage \notin {"first", "second"}}

(* DB::open on the server's thread, if the log left a directory; MsgLog::open:
   the nodes that open, in the order of the directory. *)
Reopen ==
    /\ pc = "down"
    /\ list' \in SetToSeqs(Openable)
    /\ host' \in (IF node = <<>> THEN {"none", "main"} ELSE {"main"})
    /\ pc' = "next"
    /\ UNCHANGED <<msg, wal, spoilt, granted, taken, node, push, follower, history>>

-----------------------------------------------------------------------------
Persist ==
    \/ NextGrant \/ Take \/ TakeAny \/ WriteData \/ WriteOffset \/ Overflow \/ WriteTime
    \/ CreateNode \/ CreateFile \/ Link \/ Fault

Next ==
    \/ \E c \in Conns : Load(c) \/ Refuse(c) \/ Grant(c) \/ WakeStreams(c)
    \/ Create \/ HostEnds \/ Persist
    \/ StreamLatest \/ StreamSend
    \/ Crash \/ Reopen

Spec == Init /\ [][Next]_vars

(* The executor that hosts the persist task polls it whenever the WAL has
   something for it; it may end first. *)
FairSpec == Spec /\ WF_vars(Persist)

-----------------------------------------------------------------------------
(* A message that begins in the header of a data log whose creation a crash cut
   off before that header. *)
OverHeader(n, m) == \E i \in 1 .. node[n].low : node[n].data[i] = m

(* Whoever finds a timestamp finds the message it belongs to, whatever the ring
   handed over: in the same place, or displaced by at most one place for every
   crash that fell between offsets and timestamps; whole, in the data log of
   the same node, as long as that log has not outgrown 32 bits, and unless the
   message begins in the header of a log that a crash left without. *)
ReadBack ==
    \A n \in DOMAIN node : \A k \in DOMAIN node[n].times : \E d \in 0 .. crashes :
        /\ k + d \in DOMAIN node[n].offsets
        /\ node[n].offsets[k + d].msg = node[n].times[k]
        /\ (Len(node[n].data) <= OffsetMod /\ ~OverHeader(n, node[n].times[k])) =>
                GetMsg(n, k + d) = node[n].times[k]

(* Until a restart, and while the ring is a queue, a stream never goes back:
   what it sends was accepted no earlier than what it sent before, across full
   nodes and failed messages. *)
StreamForward ==
    [][(crashes' = 0 /\ ~spoilt /\ \A n \in DOMAIN node : Len(node[n].data) <= OffsetMod)
            => sent <= sent']_sent

Settled(m) == m \in failed \/ \E n \in DOMAIN node : m \in ToSet(node[n].times)

(* Until a restart, and unless the connection that hosts the persist task ends
   or the ring is spoilt, every message that push accepted is stored, or the
   error that kept it out is logged: the persist task catches up. *)
AcceptedSettled ==
    []<>(crashes > 0 \/ host = "gone" \/ spoilt \/ \A m \in DOMAIN msg : Settled(m))

(* MsgLogNode::push: "Check if timestamp is greater than the last timestamp to
   ensure ordering". *)
TimesSorted ==
    \A n \in DOMAIN node : \A j, k \in DOMAIN node[n].times :
        j < k => msg[node[n].times[j]].time <= msg[node[n].times[k]].time
=============================================================================

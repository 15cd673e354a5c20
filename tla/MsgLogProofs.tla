----------------------------- MODULE MsgLogProofs -----------------------------
(***************************************************************************)
(* Safety of the message log for any number of pushing connections, of     *)
(* messages and of crashes, any times, any sizes of the WAL and of the     *)
(* logs, and any width of an offset.                                       *)
(*                                                                         *)
(* Node by node, the timestamps follow the offsets: each crash leaves at   *)
(* most one entry more without its timestamp, and the message at hand has  *)
(* one entry more between the two writes.  Until a crash, and as long as   *)
(* the ring is a queue, the messages go from the WAL to the nodes in the   *)
(* order they were accepted, and no node is written before it is ready.    *)
(***************************************************************************)
EXTENDS MsgLog, FiniteSetTheorems, SequenceTheorems, TLAPS

Messages == [time : Times, long : BOOLEAN]
Entries == [msg : Nat, at : Nat]
Begun == {"first", "second", "empty", "unset"}
NodeDirs == [dir : Times, stage : Begun \cup {"ready"}, low : Nat,
             data : Seq(Nat), offsets : Seq(Entries), times : Seq(Nat)]
Refs == [at : {"wait", "woken", "send"}, node : Nat, index : Nat]
Places == {"next", "push", "offset", "time", "create", "files", "link", "gone", "down"}
Pushes == [Conns -> {"idle", "loaded", "stale", "wake"}]

Types ==
    /\ msg \in Seq(Messages)
    /\ wal \in Seq(Nat) /\ granted \in Nat /\ taken \in Nat
    /\ taken <= granted /\ granted <= Len(wal)
    /\ node \in Seq(NodeDirs) /\ list \in Seq(DOMAIN node)
    /\ pc \in Places /\ push \in Pushes /\ spoilt \in BOOLEAN
    /\ stream \in Refs /\ sent \in Nat
    /\ crashes \in Nat

(* What the WAL holds was accepted, in this order. *)
Accepted ==
    /\ \A i \in DOMAIN wal : wal[i] \in DOMAIN msg
    /\ \A i, j \in DOMAIN wal : i < j => wal[i] < wal[j]

(* What the persist task relies on between its steps. *)
AtHand ==
    /\ pc \notin {"next", "down"} => taken > 0
    /\ pc = "down" => crashes > 0
    /\ pc \in {"offset", "time"} => list # <<>>
    /\ pc = "offset" => node[Hd].data # <<>> /\ Last(node[Hd].data) = Current
    /\ pc = "time" => /\ Len(node[Hd].times) < Len(node[Hd].offsets)
                      /\ Last(node[Hd].offsets).msg = Current
    /\ pc \in {"files", "link"} => node # <<>> /\ Last(node).times = <<>>

(* How far the files of the nodes are: until a crash only those of the newest
   node are unfinished, and that one is not linked yet. *)
Staged ==
    /\ pc = "files" => Last(node).stage \in Begun
    /\ pc = "link" => Last(node).stage = "ready"
    /\ crashes = 0 => /\ \A n \in DOMAIN node : node[n].low = 0
                      /\ list # <<>> => node[Hd].stage = "ready"

(* Whether node n has an entry that waits for its timestamp. *)
Waiting(n) == IF pc = "time" /\ n = Hd THEN 1 ELSE 0

(* The data log has neither outgrown an offset nor does message m begin in its
   header. *)
Sound(r, m) == Len(r.data) <= OffsetMod /\ \A i \in 1 .. r.low : r.data[i] # m

(* The entries of a node lead to their messages. *)
Entry(r, k) ==
    /\ r.offsets[k].msg \in DOMAIN msg
    /\ (msg[r.offsets[k].msg].long /\ Sound(r, r.offsets[k].msg)) =>
        /\ r.offsets[k].at + 1 \in DOMAIN r.data
        /\ r.data[r.offsets[k].at + 1] = r.offsets[k].msg

Whole(r) ==
    /\ r.low <= Len(r.data)
    /\ \A k \in DOMAIN r.offsets : Entry(r, k)

(* The timestamps of a node follow its offsets, c places behind at most. *)
Matched(r, c) ==
    \A k \in DOMAIN r.times : \E d \in 0 .. c :
        k + d \in DOMAIN r.offsets /\ r.offsets[k + d].msg = r.times[k]

Lag(r, c) ==
    /\ Len(r.times) <= Len(r.offsets)
    /\ Len(r.offsets) <= Len(r.times) + c

Nodes ==
    \A n \in DOMAIN node :
        /\ Whole(node[n])
        /\ Matched(node[n], crashes)
        /\ Lag(node[n], crashes + Waiting(n))

(* The stream refers to a message that has its timestamp. *)
Refers ==
    stream.at = "send" =>
        stream.node \in DOMAIN node /\ stream.index \in DOMAIN node[stream.node].times

Fits == \A n \in DOMAIN node : Len(node[n].data) <= OffsetMod

(* Messages of the WAL that have yet to be stored or to fail. *)
Pending(i) == i \in DOMAIN wal /\ (i > taken \/ (i = taken /\ pc # "next"))

(* Until a crash, while the ring is a queue, the nodes hold what came before the WAL, the head node ends
   with the newest of it, and the stream is not ahead of what it refers to. *)
Ordered ==
    /\ \A n \in DOMAIN node : \A k \in DOMAIN node[n].times :
        \A i \in DOMAIN wal : Pending(i) => node[n].times[k] < wal[i]
    /\ (list # <<>> /\ node[Hd].times # <<>>) =>
        \A n \in DOMAIN node : \A k \in DOMAIN node[n].times :
            node[n].times[k] <= Last(node[Hd].times)
    /\ sent = 0 \/ \E n \in DOMAIN node : \E k \in DOMAIN node[n].times : sent = node[n].times[k]
    /\ stream.at = "send" => sent <= node[stream.node].times[stream.index]

InOrder == (crashes = 0 /\ ~spoilt /\ Fits) => Ordered

(* The inductive invariant. *)
IInv == Types /\ Accepted /\ AtHand /\ Staged /\ Nodes /\ Refers /\ InOrder

-----------------------------------------------------------------------------
LEMMA SeqFacts ==
    ASSUME NEW S, NEW q \in Seq(S)
    PROVE  /\ Len(q) \in Nat /\ DOMAIN q = 1 .. Len(q)
           /\ \A i \in DOMAIN q : q[i] \in S
BY LenProperties, ElementOfSeq

LEMMA AppendFacts ==
    ASSUME NEW S, NEW q \in Seq(S), NEW e \in S
    PROVE  /\ Append(q, e) \in Seq(S)
           /\ Len(q) \in Nat /\ DOMAIN q = 1 .. Len(q)
           /\ Len(Append(q, e)) = Len(q) + 1
           /\ DOMAIN Append(q, e) = 1 .. Len(q) + 1
           /\ Append(q, e)[Len(q) + 1] = e
           /\ \A i \in 1 .. Len(q) : Append(q, e)[i] = q[i]
BY AppendProperties, LenProperties

LEMMA ReplaceFacts ==
    ASSUME NEW q \in Seq(NodeDirs), NEW i \in DOMAIN q, NEW r \in NodeDirs,
           NEW p, p = [q EXCEPT ![i] = r]
    PROVE  /\ p \in Seq(NodeDirs) /\ Len(p) = Len(q) /\ DOMAIN p = DOMAIN q
           /\ p[i] = r /\ \A n \in DOMAIN q : n # i => p[n] = q[n]
<1>1. DOMAIN q = 1 .. Len(q) /\ i \in 1 .. Len(q)
  BY SeqFacts
<1>2. p \in Seq(NodeDirs) /\ Len(p) = Len(q)
  BY <1>1, ExceptSeq
<1> QED
  BY <1>1, <1>2, SeqFacts

LEMMA NodeFacts ==
    ASSUME Types, NEW n \in DOMAIN node
    PROVE  /\ node[n] \in NodeDirs
           /\ node[n].data \in Seq(Nat) /\ node[n].offsets \in Seq(Entries) /\ node[n].times \in Seq(Nat)
           /\ Len(node[n].data) \in Nat /\ DOMAIN node[n].data = 1 .. Len(node[n].data)
           /\ Len(node[n].offsets) \in Nat /\ DOMAIN node[n].offsets = 1 .. Len(node[n].offsets)
           /\ Len(node[n].times) \in Nat /\ DOMAIN node[n].times = 1 .. Len(node[n].times)
           /\ Waiting(n) \in {0, 1}
<1>1. node[n] \in NodeDirs
  BY DEF Types
<1>2. node[n].data \in Seq(Nat) /\ node[n].offsets \in Seq(Entries) /\ node[n].times \in Seq(Nat)
  BY <1>1 DEF NodeDirs
<1> QED
  BY <1>1, <1>2, SeqFacts DEF Waiting

(* The head of a list that is not empty is a node. *)
LEMMA HeadIsNode ==
    ASSUME Types, list # <<>>
    PROVE  Hd \in DOMAIN node
BY DEF Types, Hd

(* The message at hand was accepted. *)
LEMMA CurrentAccepted ==
    ASSUME IInv, pc \notin {"next", "down"}
    PROVE  /\ taken \in DOMAIN wal /\ DOMAIN wal = 1 .. Len(wal)
           /\ Current \in DOMAIN msg /\ Current \in Nat /\ msg[Current] \in Messages
<1>1. taken \in Nat /\ taken > 0 /\ taken <= Len(wal) /\ Len(wal) \in Nat /\ DOMAIN wal = 1 .. Len(wal)
  BY SeqFacts DEF IInv, Types, AtHand
<1>2. taken \in DOMAIN wal
  BY <1>1
<1>3. Current \in DOMAIN msg
  BY <1>2 DEF IInv, Accepted, Current
<1> QED
  BY <1>1, <1>2, <1>3, SeqFacts DEF IInv, Types

(* A timestamp belongs to a message that was accepted. *)
LEMMA TimesAccepted ==
    ASSUME IInv, NEW n \in DOMAIN node, NEW k \in DOMAIN node[n].times
    PROVE  node[n].times[k] \in DOMAIN msg
BY DEF IInv, Nodes, Matched, Whole, Entry

LEMMA MsgFacts ==
    ASSUME IInv
    PROVE  Len(msg) \in Nat /\ DOMAIN msg = 1 .. Len(msg)
BY SeqFacts DEF IInv, Types

LEMMA InitIInv == Init => IInv
<1> SUFFICES ASSUME Init PROVE IInv
  OBVIOUS
<1>1. /\ msg = <<>> /\ wal = <<>> /\ granted = 0 /\ taken = 0
      /\ node = <<>> /\ list = <<>> /\ pc = "next"
      /\ push = [c \in Conns |-> "idle"] /\ spoilt = FALSE /\ stream = NoRef /\ sent = 0 /\ crashes = 0
  BY DEF Init
<1>2. stream \in Refs /\ stream.at = "wait"
  BY <1>1 DEF Refs, NoRef
<1>3. Types
  <2>1. \A S : <<>> \in Seq(S)
    BY EmptySeq
  <2>2. msg \in Seq(Messages) /\ wal \in Seq(Nat) /\ node \in Seq(NodeDirs) /\ list \in Seq(DOMAIN node)
    BY <1>1, <2>1, Zenon
  <2>3. Len(wal) = 0
    BY <1>1
  <2>4. /\ granted \in Nat /\ taken \in Nat /\ taken <= granted /\ granted <= Len(wal)
        /\ sent \in Nat /\ crashes \in Nat
    BY <1>1, <2>3
  <2>5. pc \in Places /\ push \in Pushes /\ spoilt \in BOOLEAN
    BY <1>1 DEF Places, Pushes
  <2> QED
    BY <1>2, <2>2, <2>4, <2>5, Zenon DEF Types
<1>4. Accepted /\ AtHand /\ Staged /\ Nodes /\ Refers
  BY <1>1, <1>2 DEF Accepted, AtHand, Staged, Nodes, Refers
<1>5. InOrder
  BY <1>1, <1>2 DEF InOrder, Ordered
<1> QED
  BY <1>3, <1>4, <1>5 DEF IInv

-----------------------------------------------------------------------------
(* Nodes that a step leaves as they are stay sound; the step has to answer for
   node h only. *)
LEMMA NodesKept ==
    ASSUME IInv, crashes' = crashes, NEW h,
           \A m \in DOMAIN msg : m \in DOMAIN msg' /\ msg'[m] = msg[m],
           \A n \in DOMAIN node' : n # h =>
                n \in DOMAIN node /\ node'[n] = node[n] /\ Waiting(n)' = Waiting(n),
           h \in DOMAIN node' => /\ Whole(node[h])' /\ Matched(node[h], crashes)'
                                 /\ Lag(node[h], crashes + Waiting(h))'
    PROVE  Nodes'
<1> SUFFICES ASSUME NEW n \in DOMAIN node', n # h
             PROVE  /\ Whole(node[n])' /\ Matched(node[n], crashes)'
                    /\ Lag(node[n], crashes + Waiting(n))'
  BY DEF Nodes
<1>1. n \in DOMAIN node /\ node'[n] = node[n] /\ Waiting(n)' = Waiting(n)
  OBVIOUS
<1>2. Whole(node[n]) /\ Matched(node[n], crashes) /\ Lag(node[n], crashes + Waiting(n))
  BY <1>1 DEF IInv, Nodes
<1>3. Whole(node[n])'
  BY <1>1, <1>2 DEF Whole, Entry, Sound
<1> QED
  BY <1>1, <1>2, <1>3 DEF Matched, Lag

(* So they do when no node changes. *)
LEMMA SameNodes ==
    ASSUME IInv, UNCHANGED <<node, crashes>>,
           \A m \in DOMAIN msg : m \in DOMAIN msg' /\ msg'[m] = msg[m],
           UNCHANGED <<pc, list>> \/ (pc # "time" /\ pc' # "time")
    PROVE  Nodes'
<1>1. \A n \in DOMAIN node' : n \in DOMAIN node /\ node'[n] = node[n] /\ Waiting(n)' = Waiting(n)
  BY DEF Waiting, Hd
<1>2. 0 \notin DOMAIN node'
  BY SeqFacts DEF IInv, Types
<1> QED
  BY <1>1, <1>2, NodesKept

(* The files of the nodes are as far as they were. *)
LEMMA StagesKept ==
    ASSUME IInv, UNCHANGED <<list, crashes>>, pc' \in {"files", "link"} => pc' = pc,
           Len(node') = Len(node), DOMAIN node' = DOMAIN node,
           \A n \in DOMAIN node : node'[n].stage = node[n].stage /\ node'[n].low = node[n].low
    PROVE  Staged'
<1>1. pc \in {"files", "link"} => Last(node)'.stage = Last(node).stage
  <2> SUFFICES ASSUME pc \in {"files", "link"} PROVE Last(node)'.stage = Last(node).stage
    OBVIOUS
  <2>1. node # <<>> /\ node \in Seq(NodeDirs)
    BY DEF IInv, AtHand, Types
  <2>2. Len(node) \in DOMAIN node
    BY <2>1, EmptySeq, LenProperties
  <2> QED
    BY <2>2 DEF Last
<1>2. crashes' = 0 => /\ \A n \in DOMAIN node' : node'[n].low = 0
                      /\ list' # <<>> => node'[Hd'].stage = "ready"
  <2>1. list # <<>> => Hd \in DOMAIN node
    BY HeadIsNode DEF IInv
  <2> QED
    BY <2>1 DEF IInv, Staged, Hd
<1> QED
  BY <1>1, <1>2 DEF IInv, Staged

(* The order holds as long as no timestamp is written and the stream neither
   chooses nor sends a message. *)
LEMMA OrderKept ==
    ASSUME IInv, crashes' = crashes, sent' = sent, spoilt => spoilt',
           stream' = stream \/ stream'.at # "send",
           \A n \in DOMAIN node : /\ n \in DOMAIN node' /\ node'[n].times = node[n].times
                                  /\ Len(node'[n].data) \in Nat
                                  /\ Len(node[n].data) <= Len(node'[n].data),
           \A n \in DOMAIN node' : n \notin DOMAIN node => node'[n].times = <<>>,
           list' = list \/ (list' # <<>> /\ node'[Head(list')].times = <<>>),
           \A i \in DOMAIN wal' : Pending(i)' =>
                wal'[i] = Len(msg) + 1 \/ \E j \in DOMAIN wal : Pending(j) /\ wal'[i] = wal[j]
    PROVE  InOrder'
<1> SUFFICES ASSUME crashes' = 0, ~spoilt', Fits' PROVE Ordered'
  BY DEF InOrder
<1>1. Fits
  <2> SUFFICES ASSUME NEW n \in DOMAIN node PROVE Len(node[n].data) <= OffsetMod
    BY DEF Fits
  <2>1. Len(node[n].data) \in Nat /\ Len(node'[n].data) \in Nat /\ Len(node'[n].data) <= OffsetMod
    BY NodeFacts DEF IInv, Fits
  <2> QED
    BY <2>1, MsgLogAssumption
<1>2. Ordered
  BY <1>1 DEF IInv, InOrder
<1>3. \A n \in DOMAIN node' : \A k \in DOMAIN node'[n].times :
        /\ n \in DOMAIN node /\ k \in DOMAIN node[n].times
        /\ node'[n].times[k] = node[n].times[k]
        /\ node[n].times[k] \in DOMAIN msg
  BY TimesAccepted
<1>4. ASSUME NEW n \in DOMAIN node', NEW k \in DOMAIN node'[n].times,
             NEW i \in DOMAIN wal', Pending(i)'
      PROVE  node'[n].times[k] < wal'[i]
  <2>1. n \in DOMAIN node /\ k \in DOMAIN node[n].times /\ node'[n].times[k] = node[n].times[k]
        /\ node[n].times[k] \in 1 .. Len(msg) /\ Len(msg) \in Nat
    BY <1>3, MsgFacts
  <2>2. CASE wal'[i] = Len(msg) + 1
    <3>1. \A a \in 1 .. Len(msg) : a < Len(msg) + 1
      BY <2>1
    <3> QED
      BY <2>1, <2>2
  <2>3. CASE \E j \in DOMAIN wal : Pending(j) /\ wal'[i] = wal[j]
    BY <1>2, <2>1, <2>3 DEF Ordered
  <2> QED
    BY <1>4, <2>2, <2>3
<1>5. (list' # <<>> /\ node'[Hd'].times # <<>>) =>
        \A n \in DOMAIN node' : \A k \in DOMAIN node'[n].times :
            node'[n].times[k] <= Last(node'[Hd'].times)
  <2> SUFFICES ASSUME list' # <<>>, node'[Hd'].times # <<>>,
                      NEW n \in DOMAIN node', NEW k \in DOMAIN node'[n].times
               PROVE  node'[n].times[k] <= Last(node'[Hd'].times)
    OBVIOUS
  <2>1. list' = list /\ Hd' = Hd
    BY DEF Hd
  <2>2. Hd \in DOMAIN node
    BY <2>1, HeadIsNode DEF IInv
  <2>3. node'[Hd'].times = node[Hd].times
    BY <2>1, <2>2
  <2> QED
    BY <1>2, <1>3, <2>1, <2>3 DEF Ordered
<1>6. sent' = 0 \/ \E n \in DOMAIN node' : \E k \in DOMAIN node'[n].times : sent' = node'[n].times[k]
  BY <1>2 DEF Ordered
<1>7. stream'.at = "send" => sent' <= node'[stream'.node].times[stream'.index]
  BY <1>2 DEF Ordered, IInv, Refers
<1> QED
  BY <1>4, <1>5, <1>6, <1>7 DEF Ordered

(* Steps of the persist task that write nothing. *)
LEMMA IdleOrder ==
    ASSUME IInv, UNCHANGED <<node, wal, stream, sent, crashes>>, spoilt => spoilt',
           list' = list \/ (list' # <<>> /\ node'[Head(list')].times = <<>>),
           \A i \in DOMAIN wal : Pending(i)' => Pending(i)
    PROVE  InOrder'
<1>1. \A n \in DOMAIN node : Len(node[n].data) \in Nat /\ Len(node[n].data) <= Len(node[n].data)
  BY NodeFacts DEF IInv
<1> QED
  BY <1>1, OrderKept

-----------------------------------------------------------------------------
(* A message that is accepted goes to the end of the WAL. *)
LEMMA AppendStep ==
    ASSUME IInv, NEW t \in Times, NEW l \in BOOLEAN,
           msg' = Append(msg, [time |-> t, long |-> l]), wal' = Append(wal, Len(msg) + 1),
           UNCHANGED <<spoilt, granted, taken, node, list, pc, stream, sent, crashes>>,
           push' \in Pushes
    PROVE  IInv'
<1>3. /\ Len(msg) \in Nat /\ DOMAIN msg = 1 .. Len(msg) /\ msg' \in Seq(Messages)
      /\ DOMAIN msg' = 1 .. Len(msg) + 1 /\ \A m \in 1 .. Len(msg) : msg'[m] = msg[m]
  <2>1. [time |-> t, long |-> l] \in Messages
    BY DEF Messages
  <2> QED
    BY <2>1, AppendFacts DEF IInv, Types
<1>4. /\ Len(wal) \in Nat /\ DOMAIN wal = 1 .. Len(wal) /\ wal' \in Seq(Nat)
      /\ Len(wal') = Len(wal) + 1 /\ DOMAIN wal' = 1 .. Len(wal) + 1
      /\ wal'[Len(wal) + 1] = Len(msg) + 1 /\ \A i \in 1 .. Len(wal) : wal'[i] = wal[i]
  BY <1>3, AppendFacts DEF IInv, Types
<1>5. taken \in Nat /\ granted \in Nat /\ taken <= granted /\ granted <= Len(wal)
  BY DEF IInv, Types
<1>6. Types'
  BY <1>3, <1>4, <1>5 DEF IInv, Types
<1>7. Accepted'
  <2>1. \A i \in 1 .. Len(wal) : wal[i] \in 1 .. Len(msg)
    BY <1>3, <1>4 DEF IInv, Accepted
  <2>2. \A i \in DOMAIN wal' : wal'[i] \in DOMAIN msg'
    BY <1>3, <1>4, <2>1
  <2>3. ASSUME NEW i \in 1 .. Len(wal) + 1, NEW j \in 1 .. Len(wal) + 1, i < j
        PROVE  wal'[i] < wal'[j]
    <3>1. i \in 1 .. Len(wal) /\ wal'[i] = wal[i] /\ wal[i] \in 1 .. Len(msg)
      BY <1>4, <2>1, <2>3
    <3>2. CASE j \in 1 .. Len(wal)
      BY <1>4, <2>3, <3>1, <3>2 DEF IInv, Accepted
    <3>3. CASE j = Len(wal) + 1
      BY <1>3, <1>4, <3>1, <3>3
    <3> QED
      BY <1>4, <3>2, <3>3
  <2> QED
    BY <1>4, <2>2, <2>3 DEF Accepted
<1>8. pc \notin {"next", "down"} => taken \in DOMAIN wal /\ Current' = Current
  BY <1>4, CurrentAccepted DEF Current
<1>9. AtHand' /\ Staged'
  BY <1>8, StagesKept DEF IInv, AtHand, Hd
<1>10. Nodes'
  BY <1>3, SameNodes
<1>11. Refers'
  BY DEF IInv, Refers
<1>12. InOrder'
  <2>1. ASSUME NEW i \in DOMAIN wal', Pending(i)'
        PROVE  wal'[i] = Len(msg) + 1 \/ \E j \in DOMAIN wal : Pending(j) /\ wal'[i] = wal[j]
    <3>1. CASE i \in 1 .. Len(wal)
      BY <1>4, <2>1, <3>1 DEF Pending
    <3>2. CASE i = Len(wal) + 1
      BY <1>4, <3>2
    <3> QED
      BY <1>4, <3>1, <3>2
  <2>2. \A n \in DOMAIN node : Len(node[n].data) \in Nat /\ Len(node[n].data) <= Len(node[n].data)
    BY NodeFacts DEF IInv
  <2> QED
    BY <2>1, <2>2, OrderKept
<1> QED
  BY <1>6, <1>7, <1>9, <1>10, <1>11, <1>12 DEF IInv

(* Steps that touch neither the persist task nor the stream. *)
LEMMA ElsewhereStep ==
    ASSUME IInv, UNCHANGED <<msg, wal, granted, taken, node, list, pc, stream, sent, crashes>>,
           push' \in Pushes, spoilt' \in BOOLEAN, spoilt => spoilt'
    PROVE  IInv'
<1>1. Types' /\ Accepted' /\ AtHand' /\ Refers'
  BY DEF IInv, Types, Accepted, AtHand, Refers, Hd, Current
<1>2. Staged' /\ Nodes'
  BY StagesKept, SameNodes
<1>3. InOrder'
  BY IdleOrder DEF Pending
<1> QED
  BY <1>1, <1>2, <1>3 DEF IInv

LEMMA CreateStep == ASSUME IInv, Create PROVE IInv'
<1>1. /\ UNCHANGED <<msg, wal, granted, taken, node, list, pc, stream, sent, crashes>>
      /\ UNCHANGED <<push, spoilt>>
  BY DEF Create, files, follower, history
<1> QED
  BY <1>1, ElsewhereStep DEF IInv, Types

LEMMA LoadRefuseStep == ASSUME IInv, NEW c \in Conns, Load(c) \/ Refuse(c) PROVE IInv'
<1>1. UNCHANGED <<msg, wal, spoilt, granted, taken, node, list, pc, stream, sent, crashes>>
  BY DEF Load, Refuse, ring, files, follower, history
<1>2. push' \in Pushes
  BY DEF Load, Refuse, IInv, Types, Pushes
<1> QED
  BY <1>1, <1>2, ElsewhereStep DEF IInv, Types

LEMMA GrantStep == ASSUME IInv, NEW c \in Conns, Grant(c) PROVE IInv'
<1>1. UNCHANGED <<granted, taken, node, list, pc, stream, sent, crashes>>
  BY DEF Grant, files, follower, history
<1>2. push' \in Pushes
  BY DEF Grant, Committed, IInv, Types, Pushes
<1>3. CASE \E t \in Times, l \in BOOLEAN : /\ msg' = Append(msg, [time |-> t, long |-> l])
                                          /\ wal' = Append(wal, Len(msg) + 1) /\ UNCHANGED spoilt
  BY <1>1, <1>2, <1>3, AppendStep
<1>4. CASE spoilt' = (spoilt \/ Hosted) /\ UNCHANGED <<msg, wal>>
  <2>1. spoilt' \in BOOLEAN /\ (spoilt => spoilt')
    BY <1>4, Zenon DEF IInv, Types
  <2> QED
    BY <1>1, <1>2, <1>4, <2>1, ElsewhereStep
<1> QED
  BY <1>3, <1>4 DEF Grant

LEMMA WakeStreamsStep == ASSUME IInv, NEW c \in Conns, WakeStreams(c) PROVE IInv'
<1>1. /\ UNCHANGED <<msg, wal, spoilt, granted, taken, node, list, pc, sent, crashes>>
      /\ push' = [push EXCEPT ![c] = "idle"]
      /\ stream' = IF stream.at = "wait" THEN [stream EXCEPT !.at = "woken"] ELSE stream
  BY DEF WakeStreams, ring, files, history
<1>2. stream' \in Refs /\ (stream' = stream \/ stream'.at # "send")
  BY <1>1 DEF IInv, Types, Refs
<1>3. Types' /\ Accepted' /\ AtHand'
  <2>1. push' \in Pushes
    BY <1>1 DEF IInv, Types, Pushes
  <2> QED
    BY <1>1, <1>2, <2>1 DEF IInv, Types, Accepted, AtHand, Hd, Current
<1>4. Staged' /\ Nodes'
  BY <1>1, SameNodes, StagesKept
<1>5. Refers'
  BY <1>1, <1>2 DEF IInv, Refers
<1>6. InOrder'
  <2>1. \A n \in DOMAIN node : Len(node[n].data) \in Nat /\ Len(node[n].data) <= Len(node[n].data)
    BY NodeFacts DEF IInv
  <2>2. \A i \in DOMAIN wal' : Pending(i)' => Pending(i) /\ i \in DOMAIN wal
    BY <1>1 DEF Pending
  <2> QED
    BY <1>1, <1>2, <2>1, <2>2, OrderKept
<1> QED
  BY <1>3, <1>4, <1>5, <1>6 DEF IInv

LEMMA HostEndsStep == ASSUME IInv, HostEnds PROVE IInv'
<1>1. /\ UNCHANGED <<msg, spoilt, node, list, pc, push, stream, sent, crashes>> /\ pc = "next"
      /\ wal' = <<>> /\ granted' = 0 /\ taken' = 0
  BY DEF HostEnds, files, follower, history
<1>2. Types'
  <2>1. wal' \in Seq(Nat) /\ Len(wal') = 0
    BY <1>1
  <2>2. granted' \in Nat /\ taken' \in Nat /\ taken' <= granted' /\ granted' <= Len(wal')
    BY <1>1, <2>1
  <2> QED
    BY <1>1, <2>1, <2>2, Zenon DEF IInv, Types
<1>3. Accepted' /\ AtHand' /\ Refers'
  BY <1>1 DEF IInv, Accepted, AtHand, Refers
<1>4. Staged' /\ Nodes'
  BY <1>1, StagesKept, SameNodes
<1>5. InOrder'
  <2>1. \A n \in DOMAIN node : Len(node[n].data) \in Nat /\ Len(node[n].data) <= Len(node[n].data)
    BY NodeFacts DEF IInv
  <2>2. DOMAIN wal' = {}
    BY <1>1
  <2> QED
    BY <1>1, <2>1, <2>2, OrderKept
<1> QED
  BY <1>2, <1>3, <1>4, <1>5 DEF IInv

LEMMA NextGrantStep == ASSUME IInv, NextGrant PROVE IInv'
<1>1. /\ UNCHANGED <<msg, node, list, pc, push, spoilt, stream, sent, crashes>>
      /\ pc = "next" /\ taken = granted
      /\ wal' = SubSeq(wal, granted + 1, Len(wal)) /\ granted' = Len(wal) - granted /\ taken' = 0
  BY DEF NextGrant, files, follower, history
<1>2. Len(wal) \in Nat /\ DOMAIN wal = 1 .. Len(wal) /\ granted \in Nat /\ granted <= Len(wal)
  BY SeqFacts DEF IInv, Types
<1>3. /\ wal' \in Seq(Nat) /\ Len(wal') = Len(wal) - granted /\ DOMAIN wal' = 1 .. Len(wal) - granted
      /\ \A i \in DOMAIN wal' : granted + i \in DOMAIN wal /\ wal'[i] = wal[granted + i]
  <2>1. granted + 1 \in Int /\ Len(wal) \in Int /\ \A i \in granted + 1 .. Len(wal) : wal[i] \in Nat
    BY <1>2, SeqFacts DEF IInv, Types
  <2>2. /\ wal' \in Seq(Nat) /\ Len(wal') = IF granted + 1 <= Len(wal) THEN Len(wal) - (granted + 1) + 1 ELSE 0
        /\ \A i \in 1 .. Len(wal) - (granted + 1) + 1 : wal'[i] = wal[granted + 1 + i - 1]
    BY <1>1, <2>1, SubSeqProperties
  <2>3. Len(wal') = Len(wal) - granted
    <3>1. \A a, b \in Nat : b <= a => (IF b + 1 <= a THEN a - (b + 1) + 1 ELSE 0) = a - b
      OBVIOUS
    <3> QED
      BY <1>2, <2>2, <3>1, Zenon
  <2>4. DOMAIN wal' = 1 .. Len(wal')
    BY <2>2, SeqFacts
  <2>5. \A i \in 1 .. Len(wal) - granted :
            /\ i \in 1 .. Len(wal) - (granted + 1) + 1
            /\ granted + 1 + i - 1 = granted + i /\ granted + i \in 1 .. Len(wal)
    BY <1>2
  <2> QED
    BY <1>2, <2>2, <2>3, <2>4, <2>5
<1>4. Types'
  <2>1. granted' \in Nat /\ taken' \in Nat /\ taken' <= granted' /\ granted' <= Len(wal')
    <3>1. \A a, b \in Nat : b <= a => a - b \in Nat /\ 0 <= a - b /\ a - b <= a - b /\ 0 \in Nat
      OBVIOUS
    <3> QED
      BY <1>1, <1>2, <1>3, <3>1, Zenon
  <2> QED
    BY <1>1, <1>3, <2>1 DEF IInv, Types
<1>5. Accepted'
  <2>1. \A i \in DOMAIN wal' : wal'[i] \in DOMAIN msg'
    BY <1>1, <1>3 DEF IInv, Accepted
  <2>2. \A i, j \in DOMAIN wal' : i < j => granted + i < granted + j
    BY <1>2, <1>3
  <2> QED
    BY <1>3, <2>1, <2>2 DEF IInv, Accepted
<1>6. AtHand'
  BY <1>1 DEF AtHand
<1>7. Staged' /\ Nodes'
  BY <1>1, SameNodes, StagesKept
<1>8. Refers'
  BY <1>1 DEF IInv, Refers
<1>9. InOrder'
  <2>1. \A n \in DOMAIN node : Len(node[n].data) \in Nat /\ Len(node[n].data) <= Len(node[n].data)
    BY NodeFacts DEF IInv
  <2>2. ASSUME NEW i \in DOMAIN wal' PROVE \E j \in DOMAIN wal : Pending(j) /\ wal'[i] = wal[j]
    <3>1. i \in Nat /\ i > 0 /\ granted + i > taken
      <4>1. i \in 1 .. Len(wal) - granted
        BY <1>3
      <4>2. \A a, b \in Nat : \A n \in 1 .. a - b : n \in Nat /\ n > 0 /\ b + n > b
        OBVIOUS
      <4> QED
        BY <1>1, <1>2, <4>1, <4>2, Zenon
    <3>2. Pending(granted + i)
      BY <1>3, <3>1 DEF Pending
    <3> QED
      BY <1>3, <3>2
  <2> QED
    BY <1>1, <2>1, <2>2, OrderKept
<1> QED
  BY <1>4, <1>5, <1>6, <1>7, <1>8, <1>9 DEF IInv

LEMMA TakeStep == ASSUME IInv, Take PROVE IInv'
<1>1. /\ UNCHANGED <<msg, wal, granted, node, list, push, spoilt, stream, sent, crashes>>
      /\ pc = "next" /\ pc' = "push" /\ taken < granted /\ taken' = taken + 1
  BY DEF Take, ring, files, follower, history
<1>2. taken \in Nat /\ granted \in Nat /\ granted <= Len(wal) /\ Len(wal) \in Nat /\ DOMAIN wal = 1 .. Len(wal)
  BY SeqFacts DEF IInv, Types
<1>3. Types'
  BY <1>1, <1>2 DEF IInv, Types, Places
<1>4. Accepted' /\ Refers'
  BY <1>1 DEF IInv, Accepted, Refers
<1>5. AtHand'
  BY <1>1, <1>2 DEF AtHand
<1>6. Staged' /\ Nodes'
  BY <1>1, SameNodes, StagesKept
<1>7. InOrder'
  <2>1. ASSUME NEW i \in DOMAIN wal, Pending(i)' PROVE Pending(i)
    <3>1. i \in Nat /\ (i > taken + 1 \/ i = taken + 1)
      BY <1>1, <1>2, <2>1 DEF Pending
    <3>2. i > taken
      BY <1>2, <3>1
    <3> QED
      BY <3>2 DEF Pending
  <2> QED
    BY <1>1, <2>1, IdleOrder
<1> QED
  BY <1>3, <1>4, <1>5, <1>6, <1>7 DEF IInv

LEMMA TakeAnyStep == ASSUME IInv, TakeAny PROVE IInv'
<1>1. /\ UNCHANGED <<spoilt, node, list, push, stream, sent, crashes>> /\ spoilt
      /\ pc = "next" /\ pc' = "push"
      /\ wal' = <<Len(msg) + 1>> /\ granted' = 1 /\ taken' = 1
  BY DEF TakeAny, files, follower, history
<1>2. PICK t \in Times, l \in BOOLEAN : msg' = Append(msg, [time |-> t, long |-> l])
  BY DEF TakeAny
<1>3. /\ Len(msg) \in Nat /\ DOMAIN msg = 1 .. Len(msg) /\ msg' \in Seq(Messages)
      /\ DOMAIN msg' = 1 .. Len(msg) + 1 /\ \A m \in 1 .. Len(msg) : msg'[m] = msg[m]
  <2>1. [time |-> t, long |-> l] \in Messages
    BY DEF Messages
  <2> QED
    BY <1>2, <2>1, AppendFacts DEF IInv, Types
<1>4. wal' \in Seq(Nat) /\ Len(wal') = 1 /\ DOMAIN wal' = {1} /\ wal'[1] = Len(msg) + 1
  BY <1>1, <1>3
<1>5. Types'
  BY <1>1, <1>3, <1>4 DEF IInv, Types, Places
<1>6. Accepted' /\ AtHand' /\ Refers'
  BY <1>1, <1>3, <1>4 DEF IInv, Accepted, AtHand, Refers
<1>7. Staged' /\ Nodes'
  BY <1>1, <1>3, StagesKept, SameNodes
<1>8. InOrder'
  BY <1>1 DEF InOrder
<1> QED
  BY <1>5, <1>6, <1>7, <1>8 DEF IInv

LEMMA OverflowStep == ASSUME IInv, Overflow PROVE IInv'
<1>1. /\ UNCHANGED <<msg, wal, granted, taken, node, list, push, spoilt, stream, sent, crashes>>
      /\ pc \in {"push", "offset"} /\ pc' = "create"
  BY DEF Overflow, ring, files, follower, history
<1>2. Types' /\ Accepted' /\ Refers'
  BY <1>1 DEF IInv, Types, Accepted, Refers, Places
<1>3. AtHand'
  BY <1>1 DEF IInv, AtHand
<1>4. Staged' /\ Nodes'
  BY <1>1, SameNodes, StagesKept
<1>5. InOrder'
  <2>1. \A i \in DOMAIN wal : Pending(i)' => Pending(i)
    BY <1>1 DEF Pending
  <2> QED
    BY <1>1, <2>1, IdleOrder
<1> QED
  BY <1>2, <1>3, <1>4, <1>5 DEF IInv

LEMMA LinkStep == ASSUME IInv, Link PROVE IInv'
<1>1. /\ UNCHANGED <<msg, wal, granted, taken, node, push, spoilt, stream, sent, crashes>>
      /\ pc = "link" /\ pc' = "push" /\ list' \in {<<Len(node)>> \o list, list}
  BY DEF Link, ring, follower, history
<1>2. node # <<>> /\ node[Len(node)].times = <<>> /\ Len(node) \in DOMAIN node /\ list \in Seq(DOMAIN node)
  <2>1. node # <<>> /\ node[Len(node)].times = <<>>
    BY <1>1 DEF IInv, AtHand, Last
  <2>2. node \in Seq(NodeDirs) /\ list \in Seq(DOMAIN node)
    BY DEF IInv, Types
  <2>3. Len(node) \in Nat /\ Len(node) # 0 /\ DOMAIN node = 1 .. Len(node)
    BY <2>1, <2>2, EmptySeq, LenProperties
  <2> QED
    BY <2>1, <2>2, <2>3
<1>3. list' \in Seq(DOMAIN node) /\ (list' = list \/ (list' # <<>> /\ Head(list') = Len(node)))
  <2>1. CASE list' = list
    BY <1>2, <2>1
  <2>2. CASE list' = <<Len(node)>> \o list
    <3>1. <<Len(node)>> \in Seq(DOMAIN node) /\ Len(<<Len(node)>>) = 1 /\ <<Len(node)>>[1] = Len(node)
      BY <1>2
    <3>2. /\ list' \in Seq(DOMAIN node) /\ Len(list') = 1 + Len(list)
          /\ \A i \in 1 .. 1 + Len(list) : list'[i] = IF i <= 1 THEN <<Len(node)>>[i] ELSE list[i - 1]
      BY <1>2, <2>2, <3>1, ConcatProperties
    <3>3. Len(list) \in Nat
      BY <1>2
    <3>4. Len(list') # 0 /\ list'[1] = Len(node)
      BY <3>1, <3>2, <3>3
    <3> QED
      BY <3>2, <3>4
  <2> QED
    BY <1>1, <2>1, <2>2
<1>4. Types' /\ Accepted' /\ Refers'
  BY <1>1, <1>3 DEF IInv, Types, Accepted, Refers, Places
<1>5. AtHand'
  BY <1>1 DEF IInv, AtHand
<1>6. Staged' /\ Nodes'
  <2>1. node[Len(node)].stage = "ready"
    BY <1>1 DEF IInv, Staged, Last
  <2>2. Staged'
    BY <1>1, <1>3, <2>1 DEF IInv, Staged, Hd
  <2> QED
    BY <1>1, <2>2, SameNodes
<1>7. InOrder'
  <2>1. \A i \in DOMAIN wal : Pending(i)' => Pending(i)
    BY <1>1 DEF Pending
  <2> QED
    BY <1>1, <1>2, <1>3, <2>1, IdleOrder
<1> QED
  BY <1>4, <1>5, <1>6, <1>7 DEF IInv

LEMMA ReopenStep == ASSUME IInv, Reopen PROVE IInv'
<1>1. /\ UNCHANGED <<msg, wal, granted, taken, node, push, spoilt, stream, sent, crashes>>
      /\ pc = "down" /\ pc' = "next" /\ list' \in SetToSeqs(Openable)
  BY DEF Reopen, follower, history
<1>2. list' \in Seq(DOMAIN node)
  <2>1. IsFiniteSet(DOMAIN node)
    <3>1. DOMAIN node = 1 .. Len(node) /\ Len(node) \in Nat
      BY SeqFacts DEF IInv, Types
    <3> QED
      BY <3>1, FS_Interval
  <2>2. Cardinality(Openable) \in Nat
    BY <2>1, FS_Subset, FS_CardinalityType DEF Openable
  <2>3. list' \in [1 .. Cardinality(Openable) -> DOMAIN node]
    BY <1>1 DEF SetToSeqs, Openable
  <2> QED
    BY <2>2, <2>3, IsASeq
<1>3. Types' /\ Accepted' /\ Refers'
  BY <1>1, <1>2 DEF IInv, Types, Accepted, Refers, Places
<1>4. AtHand'
  BY <1>1 DEF AtHand
<1>5. Staged' /\ Nodes'
  <2>1. Staged'
    BY <1>1 DEF IInv, AtHand, Staged, Types
  <2> QED
    BY <1>1, <2>1, SameNodes
<1>6. InOrder'
  BY <1>1 DEF IInv, AtHand, InOrder, Types
<1> QED
  BY <1>3, <1>4, <1>5, <1>6 DEF IInv

LEMMA DieStep == ASSUME IInv, Die PROVE IInv'
<1>1. /\ UNCHANGED <<msg, node, sent>> /\ crashes' = crashes + 1 /\ pc' = "down" /\ list' = <<>>
      /\ wal' = <<>> /\ granted' = 0 /\ taken' = 0 /\ stream' = NoRef
      /\ push' = [c \in Conns |-> "idle"] /\ spoilt' = FALSE
  BY DEF Die
<1>2. crashes \in Nat /\ stream' \in Refs /\ stream'.at = "wait"
  BY <1>1 DEF IInv, Types, NoRef, Refs
<1>3. Types'
  <2>1. wal' \in Seq(Nat) /\ Len(wal') = 0 /\ list' \in Seq(DOMAIN node)
    BY <1>1
  <2>2. granted' \in Nat /\ taken' \in Nat /\ taken' <= granted' /\ granted' <= Len(wal') /\ crashes' \in Nat
    BY <1>1, <1>2, <2>1
  <2>3. pc' \in Places /\ push' \in Pushes /\ spoilt' \in BOOLEAN
    BY <1>1 DEF Places, Pushes
  <2> QED
    BY <1>1, <1>2, <2>1, <2>2, <2>3, Zenon DEF IInv, Types
<1>4. Accepted' /\ Refers' /\ AtHand' /\ Staged' /\ InOrder'
  BY <1>1, <1>2 DEF Accepted, Refers, AtHand, Staged, InOrder
<1>5. Nodes'
  <2> SUFFICES ASSUME NEW n \in DOMAIN node
               PROVE  /\ Whole(node[n])' /\ Matched(node[n], crashes)'
                      /\ Lag(node[n], crashes + Waiting(n))'
    BY <1>1 DEF Nodes
  <2>1. Whole(node[n]) /\ Matched(node[n], crashes) /\ Lag(node[n], crashes + Waiting(n))
    BY DEF IInv, Nodes
  <2>2. Whole(node[n])'
    BY <1>1, <2>1 DEF Whole, Entry, Sound
  <2>3. Matched(node[n], crashes)'
    BY <1>1, <1>2, <2>1 DEF Matched
  <2>4. Lag(node[n], crashes + Waiting(n))'
    <3>1. Waiting(n)' = 0
      BY <1>1 DEF Waiting
    <3>2. \A a, b, c \in Nat : \A w \in {0, 1} : b <= a + (c + w) => b <= a + (c + 1 + 0)
      OBVIOUS
    <3>3. Len(node[n].offsets) <= Len(node[n].times) + (crashes + 1 + 0)
      BY <1>2, <2>1, <3>2, NodeFacts, Zenon DEF IInv, Lag
    <3> QED
      BY <1>1, <2>1, <3>1, <3>3 DEF Lag
  <2> QED
    BY <2>2, <2>3, <2>4
<1> QED
  BY <1>3, <1>4, <1>5 DEF IInv

-----------------------------------------------------------------------------
(* Steps that write to the node h: the other nodes and the places of the list
   stay what they are. *)
LEMMA Rewritten ==
    ASSUME IInv, NEW h \in DOMAIN node, NEW r \in NodeDirs,
           node' = [node EXCEPT ![h] = r], UNCHANGED <<msg, wal, granted, taken, list, stream, sent, crashes>>,
           pc' \in Places, push' \in Pushes /\ spoilt' \in BOOLEAN
    PROVE  /\ Types' /\ Accepted'
           /\ Len(node') = Len(node) /\ DOMAIN node' = DOMAIN node /\ node'[h] = r
           /\ \A n \in DOMAIN node : n # h => node'[n] = node[n]
           /\ Hd' = Hd /\ Current' = Current
<1>1. /\ node' \in Seq(NodeDirs) /\ Len(node') = Len(node) /\ DOMAIN node' = DOMAIN node
      /\ node'[h] = r /\ \A n \in DOMAIN node : n # h => node'[n] = node[n]
  BY ReplaceFacts DEF IInv, Types
<1>2. Types'
  BY <1>1 DEF IInv, Types
<1> QED
  BY <1>1, <1>2 DEF IInv, Accepted, Hd, Current

LEMMA CreateFileStep == ASSUME IInv, CreateFile PROVE IInv'
<1>1. PICK h : h = Len(node)
  OBVIOUS
<1>2. /\ UNCHANGED <<msg, wal, granted, taken, list, push, spoilt, stream, sent, crashes>>
      /\ pc = "files" /\ pc' = (IF node[h].stage = "unset" THEN "link" ELSE "files")
      /\ node' = [node EXCEPT ![h].stage = Stages[@]]
  BY <1>1 DEF CreateFile, ring, follower, history
<1>3. h \in DOMAIN node /\ node[h].times = <<>>
  <2>1. node # <<>> /\ node[h].times = <<>> /\ node \in Seq(NodeDirs)
    BY <1>1, <1>2 DEF IInv, AtHand, Last, Types
  <2>2. h \in Nat /\ h # 0 /\ DOMAIN node = 1 .. h
    BY <1>1, <2>1, EmptySeq, LenProperties
  <2> QED
    BY <2>1, <2>2
<1>4. PICK r : r = [node[h] EXCEPT !.stage = Stages[node[h].stage]]
  OBVIOUS
<1>5. /\ r \in NodeDirs /\ r.data = node[h].data /\ r.offsets = node[h].offsets /\ r.times = node[h].times
      /\ node' = [node EXCEPT ![h] = r]
      /\ node[h].stage \in Begun /\ r.low = node[h].low
      /\ IF node[h].stage = "unset" THEN r.stage = "ready" ELSE r.stage \in Begun
  <2>1. node[h] \in NodeDirs
    BY <1>3, NodeFacts DEF IInv
  <2>2. node[h].stage \in Begun
    BY <1>1, <1>2 DEF IInv, Staged, Last
  <2>3. /\ Stages[node[h].stage] \in Begun \cup {"ready"}
        /\ IF node[h].stage = "unset" THEN Stages[node[h].stage] = "ready" ELSE Stages[node[h].stage] \in Begun
    BY <2>2 DEF Begun, Stages
  <2>4. /\ r \in NodeDirs /\ r.data = node[h].data /\ r.offsets = node[h].offsets /\ r.times = node[h].times
        /\ r.stage = Stages[node[h].stage] /\ r.low = node[h].low
    BY <1>4, <2>1, <2>3 DEF NodeDirs
  <2>5. node' = [node EXCEPT ![h] = r]
    BY <1>2, <1>3, <1>4, <2>1
  <2> QED
    BY <2>2, <2>3, <2>4, <2>5 DEF Begun
<1>6. /\ Types' /\ Accepted'
      /\ Len(node') = Len(node) /\ DOMAIN node' = DOMAIN node /\ node'[h] = r
      /\ \A n \in DOMAIN node : n # h => node'[n] = node[n]
      /\ Hd' = Hd /\ Current' = Current
  <2>1. pc' \in Places /\ push' \in Pushes /\ spoilt' \in BOOLEAN
    BY <1>2 DEF Places, IInv, Types
  <2> QED
    BY <1>2, <1>3, <1>5, <2>1, Rewritten
<1>7. AtHand'
  <2>1. node' # <<>> /\ Last(node)'.times = <<>> /\ taken > 0
    <3>1. Last(node') = r
      BY <1>1, <1>6 DEF Last
    <3>2. node' # <<>>
      BY <1>3, <1>6
    <3> QED
      BY <1>2, <1>3, <1>5, <3>1, <3>2 DEF IInv, AtHand
  <2> QED
    BY <1>2, <2>1 DEF AtHand
<1>8. Nodes' /\ Staged'
  <2>1. \A n \in DOMAIN node : Waiting(n) = 0 /\ Waiting(n)' = 0
    BY <1>2 DEF Waiting
  <2>2. Whole(node[h]) /\ Matched(node[h], crashes) /\ Lag(node[h], crashes + Waiting(h))
    BY <1>3 DEF IInv, Nodes
  <2>3. Whole(node[h])' /\ Matched(node[h], crashes)' /\ Lag(node[h], crashes + Waiting(h))'
    <3>1. Whole(node[h])'
      <4>1. /\ node'[h].data = node[h].data /\ node'[h].offsets = node[h].offsets
            /\ node'[h].low = node[h].low /\ msg' = msg
        BY <1>2, <1>5, <1>6
      <4> QED
        BY <4>1, <2>2, SMTT(30) DEF Whole, Entry, Sound
    <3> QED
      BY <1>2, <1>3, <1>5, <1>6, <2>1, <2>2, <3>1 DEF Matched, Lag
  <2>4. Staged'
    <3>1. Last(node') = r
      BY <1>1, <1>6 DEF Last
    <3>2. crashes = 0 => /\ \A n \in DOMAIN node : node[n].low = 0
                         /\ list # <<>> => node[Hd].stage = "ready" /\ Hd \in DOMAIN node
      BY HeadIsNode DEF IInv, Staged
    <3>3. crashes = 0 /\ list # <<>> => Hd # h
      BY <1>5, <3>2 DEF Begun
    <3> QED
      BY <1>2, <1>5, <1>6, <3>1, <3>2, <3>3 DEF Staged
  <2> QED
    BY <1>2, <1>6, <2>1, <2>3, <2>4, NodesKept
<1>9. Refers'
  BY <1>2, <1>5, <1>6 DEF IInv, Refers
<1>10. InOrder'
  <2>1. \A i \in DOMAIN wal : Pending(i)' => Pending(i)
    BY <1>2 DEF Pending
  <2>2. \A n \in DOMAIN node : /\ node'[n].times = node[n].times
                               /\ Len(node'[n].data) \in Nat /\ Len(node[n].data) <= Len(node'[n].data)
    BY <1>5, <1>6, NodeFacts DEF IInv
  <2> QED
    BY <1>2, <1>6, <2>1, <2>2, OrderKept
<1> QED
  BY <1>6, <1>7, <1>8, <1>9, <1>10 DEF IInv

LEMMA WriteDataStep == ASSUME IInv, WriteData PROVE IInv'
<1>1. PICK h, q, m : h = Hd /\ q = node[h].data /\ m = Len(q)
  OBVIOUS
<1>2. PICK g \in {node[h].low, node[h].low + 1} :
      /\ UNCHANGED <<msg, wal, granted, taken, list, push, spoilt, stream, sent, crashes>>
      /\ pc = "push" /\ pc' \in {"offset", "gone"} /\ list # <<>>
      /\ node' = [node EXCEPT ![h].data = Append(@, Current), ![h].low = g]
      /\ node[h].stage = "ready" => g = node[h].low
  <2>1. PICK low \in BeginsLow(Hd) :
            /\ node' = [node EXCEPT ![Hd].data = Append(@, Current),
                                    ![Hd].low = IF low THEN @ + 1 ELSE @]
            /\ pc' = "offset" \/ (low /\ pc' = "gone")
    BY DEF WriteData
  <2>2. PICK g : g = IF low THEN node[h].low + 1 ELSE node[h].low
    OBVIOUS
  <2>3. node[h].stage = "ready" => low = FALSE
    BY <1>1, <2>1 DEF BeginsLow
  <2>4. node' = [node EXCEPT ![h].data = Append(@, Current), ![h].low = g]
    BY <1>1, <2>1, <2>2
  <2>5. /\ UNCHANGED <<msg, wal, granted, taken, list, push, spoilt, stream, sent, crashes>>
        /\ pc = "push" /\ list # <<>>
    BY DEF WriteData, ring, follower, history
  <2>6. g \in {node[h].low, node[h].low + 1} /\ (node[h].stage = "ready" => g = node[h].low)
    BY <2>2, <2>3
  <2>7. pc' \in {"offset", "gone"}
    BY <2>1
  <2> QED
    BY <2>4, <2>5, <2>6, <2>7, Zenon
<1>3. h \in DOMAIN node /\ Current \in DOMAIN msg /\ Current \in Nat /\ node[h] \in NodeDirs /\ q \in Seq(Nat)
  BY <1>1, <1>2, HeadIsNode, CurrentAccepted, NodeFacts DEF IInv
<1>4. PICK r : r = [node[h] EXCEPT !.data = Append(q, Current), !.low = g]
  OBVIOUS
<1>5. /\ Append(q, Current) \in Seq(Nat) /\ m \in Nat /\ DOMAIN q = 1 .. m
      /\ Len(Append(q, Current)) = m + 1 /\ DOMAIN Append(q, Current) = 1 .. m + 1
      /\ Append(q, Current)[m + 1] = Current
      /\ \A i \in 1 .. m : Append(q, Current)[i] = q[i]
  BY <1>1, <1>3, AppendFacts
<1>6. /\ r \in NodeDirs /\ r.data = Append(q, Current) /\ r.offsets = node[h].offsets /\ r.times = node[h].times
      /\ r.low = g /\ r.stage = node[h].stage /\ node' = [node EXCEPT ![h] = r]
  <2>1. g \in Nat
    BY <1>2, <1>3 DEF NodeDirs
  <2>2. /\ r \in NodeDirs /\ r.data = Append(q, Current) /\ r.offsets = node[h].offsets
        /\ r.times = node[h].times /\ r.low = g /\ r.stage = node[h].stage
    BY <1>3, <1>4, <1>5, <2>1 DEF NodeDirs
  <2>3. node' = [node EXCEPT ![h] = r]
    BY <1>1, <1>2, <1>3, <1>4 DEF NodeDirs
  <2> QED
    BY <2>2, <2>3
<1>7. /\ Types' /\ Accepted'
      /\ Len(node') = Len(node) /\ DOMAIN node' = DOMAIN node /\ node'[h] = r
      /\ \A n \in DOMAIN node : n # h => node'[n] = node[n]
      /\ Hd' = h /\ Current' = Current
  <2>1. pc' \in Places /\ push' \in Pushes /\ spoilt' \in BOOLEAN
    BY <1>2 DEF Places, IInv, Types
  <2> QED
    BY <1>1, <1>2, <1>3, <1>6, <2>1, Rewritten, ZenonT(60)
<1>8. AtHand'
  <2>1. node'[h].data # <<>> /\ Last(node'[h].data) = Current /\ taken > 0
    <3>1. Len(node'[h].data) = m + 1 /\ node'[h].data[m + 1] = Current
      BY <1>5, <1>6, <1>7
    <3> QED
      BY <1>2, <1>5, <3>1 DEF Last, IInv, AtHand
  <2> QED
    BY <1>2, <1>7, <2>1 DEF AtHand
<1>9. Nodes' /\ Staged'
  <2>1. \A n \in DOMAIN node : Waiting(n) = 0 /\ Waiting(n)' = 0
    BY <1>2 DEF Waiting
  <2>2. Whole(node[h]) /\ Matched(node[h], crashes) /\ Lag(node[h], crashes + Waiting(h))
    BY <1>3 DEF IInv, Nodes
  <2>3. Matched(node[h], crashes)' /\ Lag(node[h], crashes + Waiting(h))'
    <3>1. /\ node'[h].times = node[h].times /\ node'[h].offsets = node[h].offsets
          /\ crashes' = crashes /\ Waiting(h)' = Waiting(h)
      BY <1>2, <1>3, <1>6, <1>7, <2>1, Zenon
    <3> QED
      BY <2>2, <3>1 DEF Matched, Lag
  <2>4. Whole(node[h])'
    <3>1. ASSUME NEW k \in DOMAIN r.offsets PROVE Entry(r, k)
      <4>1. Entry(node[h], k) /\ r.offsets[k] = node[h].offsets[k]
        BY <1>1, <1>6, <2>2 DEF Whole
      <4>2. ASSUME NEW x, Sound(r, x) PROVE Sound(node[h], x)
        <5>1. m <= OffsetMod
          BY <1>5, <1>6, <4>2, MsgLogAssumption DEF Sound
        <5>2. node[h].low \in Nat /\ node[h].low <= m /\ g \in {node[h].low, node[h].low + 1}
          BY <1>1, <1>2, <1>3, <2>2 DEF Whole, NodeDirs
        <5>3. \A i \in 1 .. node[h].low : i \in 1 .. m /\ i \in 1 .. g
          BY <1>5, <5>2
        <5>4. \A i \in 1 .. node[h].low : q[i] # x
          BY <1>5, <1>6, <4>2, <5>3 DEF Sound
        <5> QED
          BY <1>1, <5>1, <5>4 DEF Sound
      <4>3. \A i \in DOMAIN q : i \in DOMAIN r.data /\ r.data[i] = q[i]
        BY <1>5, <1>6
      <4> QED
        BY <1>1, <4>1, <4>2, <4>3 DEF Entry
    <3>2. r.low <= Len(r.data)
      <4>1. node[h].low \in Nat /\ node[h].low <= m
        BY <1>1, <1>3, <2>2 DEF Whole, NodeDirs
      <4>2. g = node[h].low \/ g = node[h].low + 1
        BY <1>2
      <4>3. Len(r.data) = m + 1 /\ r.low = g /\ m \in Nat
        BY <1>5, <1>6
      <4> QED
        BY <4>1, <4>2, <4>3
    <3>3. \A k \in DOMAIN r.offsets : Entry(r, k)'
      BY <1>2, <3>1 DEF Entry, Sound
    <3> QED
      BY <1>7, <3>2, <3>3 DEF Whole
  <2>5. Staged'
    <3>1. crashes = 0 => /\ \A n \in DOMAIN node : node[n].low = 0
                         /\ node[h].stage = "ready" /\ r.stage = "ready" /\ r.low = 0
      BY <1>1, <1>2, <1>3, <1>6 DEF IInv, Staged
    <3> QED
      BY <1>2, <1>7, <3>1 DEF Staged
  <2> QED
    BY <1>2, <1>7, <2>1, <2>3, <2>4, <2>5, NodesKept
<1>10. Refers'
  BY <1>2, <1>6, <1>7 DEF IInv, Refers
<1>11. InOrder'
  <2>1. \A i \in DOMAIN wal : Pending(i)' => Pending(i)
    BY <1>2 DEF Pending
  <2>2. ASSUME NEW n \in DOMAIN node
        PROVE  /\ node'[n].times = node[n].times
               /\ Len(node'[n].data) \in Nat /\ Len(node[n].data) <= Len(node'[n].data)
    <3>1. CASE n = h
      BY <1>1, <1>5, <1>6, <1>7, <3>1
    <3>2. CASE n # h
      BY <1>7, <3>2, NodeFacts DEF IInv
    <3> QED
      BY <3>1, <3>2
  <2> QED
    BY <1>2, <1>7, <2>1, <2>2, OrderKept
<1> QED
  BY <1>7, <1>8, <1>9, <1>10, <1>11 DEF IInv

LEMMA WriteOffsetStep == ASSUME IInv, WriteOffset PROVE IInv'
<1>1. PICK h, q, m, e : /\ h = Hd /\ q = node[h].offsets /\ m = Len(q)
                        /\ e = [msg |-> Current,
                                at |-> IF Long THEN Offset ELSE 0]
  OBVIOUS
<1>2. /\ UNCHANGED <<msg, wal, granted, taken, list, push, spoilt, stream, sent, crashes>>
      /\ pc = "offset" \/ (pc = "push" /\ list # <<>> /\ ~Long)
      /\ node' = [node EXCEPT ![h].offsets = Append(q, e)]
  BY <1>1 DEF WriteOffset, ring, follower, history
<1>3. pc' = "time" /\ pc \in {"push", "offset"} /\ list # <<>>
  BY <1>2 DEF WriteOffset, IInv, AtHand
<1>4. h \in DOMAIN node /\ Current \in DOMAIN msg /\ Current \in Nat /\ node[h] \in NodeDirs /\ q \in Seq(Entries)
  BY <1>1, <1>3, HeadIsNode, CurrentAccepted, NodeFacts DEF IInv
<1>5. /\ e \in Entries /\ e.msg = Current
      /\ (Long /\ Sound(node[h], Current)) =>
            e.at + 1 \in DOMAIN node[h].data /\ node[h].data[e.at + 1] = Current
  <2>1. Len(node[h].data) \in Nat /\ DOMAIN node[h].data = 1 .. Len(node[h].data)
    BY <1>4, NodeFacts DEF IInv
  <2>2. CASE ~Long
    BY <1>1, <1>4, <2>2 DEF Entries
  <2>3. CASE Long
    <3>1. pc = "offset"
      BY <1>2, <2>3
    <3>2. node[h].data # <<>> /\ Last(node[h].data) = Current
      BY <1>1, <3>1 DEF IInv, AtHand
    <3>3. Len(node[h].data) # 0 /\ node[h].data[Len(node[h].data)] = Current
      BY <1>4, <3>2, NodeFacts, EmptySeq DEF Last, IInv
    <3>4. PICK a : a = Len(node[h].data) - 1
      OBVIOUS
    <3>5. a \in Nat /\ a + 1 = Len(node[h].data) /\ OffsetMod \in Nat /\ OffsetMod > 0
      BY <2>1, <3>3, <3>4, MsgLogAssumption
    <3>6. a % OffsetMod \in Nat /\ (a < OffsetMod => a % OffsetMod = a)
      BY <3>5
    <3>7. Offset \in Nat /\ (~(Len(node[h].data) <= node[h].low) => Offset = a % OffsetMod)
      BY <1>1, <3>4, <3>5, <3>6 DEF Offset
    <3>8. e \in Entries /\ e.msg = Current /\ e.at = Offset
      BY <1>1, <1>4, <2>3, <3>7 DEF Entries
    <3>9. Sound(node[h], Current) => e.at = a
      <4> SUFFICES ASSUME Sound(node[h], Current) PROVE e.at = a
        OBVIOUS
      <4>1. node[h].low \in Nat
        BY <1>4 DEF NodeDirs
      <4>2. ~(Len(node[h].data) <= node[h].low)
        BY <2>1, <3>3, <4>1 DEF Sound
      <4> QED
        BY <3>5, <3>6, <3>7, <3>8, <4>2 DEF Sound
    <3> QED
      BY <2>1, <3>3, <3>5, <3>8, <3>9
  <2> QED
    BY <2>2, <2>3
<1>6. PICK r : r = [node[h] EXCEPT !.offsets = Append(q, e)]
  OBVIOUS
<1>7. /\ Append(q, e) \in Seq(Entries) /\ m \in Nat /\ DOMAIN q = 1 .. m
      /\ Len(Append(q, e)) = m + 1 /\ DOMAIN Append(q, e) = 1 .. m + 1
      /\ Append(q, e)[m + 1] = e
      /\ \A i \in 1 .. m : Append(q, e)[i] = q[i]
  BY <1>1, <1>4, <1>5, AppendFacts
<1>8. /\ r \in NodeDirs /\ r.offsets = Append(q, e) /\ r.data = node[h].data /\ r.times = node[h].times
      /\ r.stage = node[h].stage /\ r.low = node[h].low /\ node' = [node EXCEPT ![h] = r]
  BY <1>2, <1>4, <1>6, <1>7 DEF NodeDirs
<1>9. /\ Types' /\ Accepted'
      /\ Len(node') = Len(node) /\ DOMAIN node' = DOMAIN node /\ node'[h] = r
      /\ \A n \in DOMAIN node : n # h => node'[n] = node[n]
      /\ Hd' = h /\ Current' = Current
  <2>1. pc' \in Places /\ push' \in Pushes /\ spoilt' \in BOOLEAN
    BY <1>2, <1>3 DEF Places, IInv, Types
  <2> QED
    BY <1>1, <1>2, <1>4, <1>8, <2>1, Rewritten
<1>10. /\ Len(node[h].times) \in Nat /\ Len(node[h].times) <= m /\ crashes \in Nat
       /\ m <= Len(node[h].times) + (crashes + 0)
  <2>1. Waiting(h) = 0
    BY <1>3 DEF Waiting
  <2> QED
    BY <1>1, <1>4, <2>1, NodeFacts DEF IInv, Nodes, Lag, Types
<1>11. AtHand'
  <2>1. Len(node'[h].times) < Len(node'[h].offsets) /\ Last(node'[h].offsets).msg = Current /\ taken > 0
    <3>1. Len(node'[h].offsets) = m + 1 /\ node'[h].offsets[m + 1] = e /\ node'[h].times = node[h].times
      BY <1>7, <1>8, <1>9
    <3> QED
      BY <1>3, <1>5, <1>7, <1>10, <3>1 DEF Last, IInv, AtHand
  <2> QED
    BY <1>2, <1>3, <1>9, <2>1 DEF AtHand
<1>12. Nodes' /\ Staged'
  <2>1. /\ Waiting(h) = 0 /\ Waiting(h)' = 1
        /\ \A n \in DOMAIN node : n # h => Waiting(n) = 0 /\ Waiting(n)' = 0
    BY <1>3, <1>9 DEF Waiting
  <2>2. Whole(node[h]) /\ Matched(node[h], crashes)
    BY <1>4 DEF IInv, Nodes
  <2>3. Whole(node[h])'
    <3>1. ASSUME NEW k \in 1 .. m + 1 PROVE Entry(r, k)
      <4>1. \A x : Sound(r, x) = Sound(node[h], x)
        BY <1>8 DEF Sound
      <4>2. CASE k = m + 1
        <5>1. r.offsets[k] = e
          BY <1>7, <1>8, <4>2
        <5> QED
          BY <1>4, <1>5, <1>8, <4>1, <5>1 DEF Long, Entry
      <4>3. CASE k \in 1 .. m
        <5>1. k \in DOMAIN node[h].offsets /\ r.offsets[k] = node[h].offsets[k] /\ r.data = node[h].data
          BY <1>1, <1>7, <1>8, <4>3, Zenon
        <5>2. Entry(node[h], k)
          BY <2>2, <5>1, Zenon DEF Whole
        <5> QED
          BY <4>1, <5>1, <5>2, Zenon DEF Entry
      <4> QED
        BY <1>7, <4>2, <4>3
    <3>2. DOMAIN r.offsets = 1 .. m + 1
      BY <1>7, <1>8
    <3>3. \A k \in DOMAIN r.offsets : Entry(r, k)'
      BY <1>2, <3>1, <3>2 DEF Entry, Sound
    <3>4. r.low <= Len(r.data)
      BY <1>8, <2>2 DEF Whole
    <3> QED
      BY <1>9, <3>3, <3>4 DEF Whole
  <2>4. Matched(node[h], crashes)'
    <3>1. \A i \in DOMAIN node[h].offsets : i \in DOMAIN r.offsets /\ r.offsets[i] = node[h].offsets[i]
      BY <1>1, <1>7, <1>8
    <3> QED
      BY <1>2, <1>8, <1>9, <2>2, <3>1 DEF Matched
  <2>5. Lag(node[h], crashes + Waiting(h))'
    <3>1. \A a, b, c \in Nat : a <= b /\ b <= a + (c + 0) => a <= b + 1 /\ b + 1 <= a + (c + 1)
      OBVIOUS
    <3>2. Len(node[h].times) <= m + 1 /\ m + 1 <= Len(node[h].times) + (crashes + 1)
      BY <1>7, <1>10, <3>1, Zenon
    <3> QED
      BY <1>2, <1>7, <1>8, <1>9, <2>1, <3>2 DEF Lag
  <2> QED
    <3>1. Staged'
      BY <1>2, <1>3, <1>8, <1>9, StagesKept
    <3> QED
      BY <1>2, <1>9, <2>1, <2>3, <2>4, <2>5, <3>1, NodesKept
<1>13. Refers'
  BY <1>2, <1>8, <1>9 DEF IInv, Refers
<1>14. InOrder'
  <2>1. \A i \in DOMAIN wal : Pending(i)' => Pending(i)
    BY <1>2, <1>3 DEF Pending
  <2>2. \A n \in DOMAIN node : /\ node'[n].times = node[n].times
                               /\ Len(node'[n].data) \in Nat /\ Len(node[n].data) <= Len(node'[n].data)
    BY <1>8, <1>9, NodeFacts DEF IInv
  <2> QED
    BY <1>2, <1>9, <2>1, <2>2, OrderKept
<1> QED
  BY <1>9, <1>11, <1>12, <1>13, <1>14 DEF IInv

(* The entry that waited for its timestamp has it now. *)
LEMMA WriteTimeStep == ASSUME IInv, WriteTime PROVE IInv'
<1>1. PICK h, q, m : h = Hd /\ q = node[h].times /\ m = Len(q)
  OBVIOUS
<1>2. /\ UNCHANGED <<msg, wal, granted, taken, list, push, spoilt, stream, sent, crashes>>
      /\ pc = "time" /\ pc' = "next"
      /\ node' = [node EXCEPT ![h].times = Append(q, Current)]
  BY <1>1 DEF WriteTime, ring, follower, history
<1>3. list # <<>> /\ m < Len(node[h].offsets) /\ Last(node[h].offsets).msg = Current
  BY <1>1, <1>2 DEF IInv, AtHand
<1>4. /\ h \in DOMAIN node /\ Current \in DOMAIN msg /\ Current \in Nat /\ node[h] \in NodeDirs /\ q \in Seq(Nat)
      /\ taken \in DOMAIN wal /\ Current = wal[taken]
  BY <1>1, <1>2, <1>3, HeadIsNode, CurrentAccepted, NodeFacts DEF IInv, Current
<1>5. PICK r : r = [node[h] EXCEPT !.times = Append(q, Current)]
  OBVIOUS
<1>6. /\ Append(q, Current) \in Seq(Nat) /\ m \in Nat /\ DOMAIN q = 1 .. m
      /\ Len(Append(q, Current)) = m + 1 /\ DOMAIN Append(q, Current) = 1 .. m + 1
      /\ Append(q, Current)[m + 1] = Current
      /\ \A i \in 1 .. m : Append(q, Current)[i] = q[i]
  BY <1>1, <1>4, AppendFacts
<1>7. /\ r \in NodeDirs /\ r.times = Append(q, Current) /\ r.offsets = node[h].offsets /\ r.data = node[h].data
      /\ r.stage = node[h].stage /\ r.low = node[h].low /\ node' = [node EXCEPT ![h] = r]
  BY <1>2, <1>4, <1>5, <1>6 DEF NodeDirs
<1>8. /\ Types' /\ Accepted'
      /\ Len(node') = Len(node) /\ DOMAIN node' = DOMAIN node /\ node'[h] = r
      /\ \A n \in DOMAIN node : n # h => node'[n] = node[n]
      /\ Hd' = h /\ Current' = Current
  <2>1. pc' \in Places /\ push' \in Pushes /\ spoilt' \in BOOLEAN
    BY <1>2 DEF Places, IInv, Types
  <2> QED
    BY <1>1, <1>2, <1>4, <1>7, <2>1, Rewritten, ZenonT(60)
<1>9. AtHand' /\ Staged'
  BY <1>2, <1>7, <1>8, StagesKept DEF AtHand
<1>10. Nodes'
  <2>1. /\ Waiting(h) = 1 /\ Waiting(h)' = 0
        /\ \A n \in DOMAIN node : n # h => Waiting(n) = 0 /\ Waiting(n)' = 0
    BY <1>1, <1>2, <1>8 DEF Waiting
  <2>2. Whole(node[h]) /\ Matched(node[h], crashes) /\ Lag(node[h], crashes + Waiting(h))
    BY <1>4 DEF IInv, Nodes
  <2>3. Whole(node[h])'
    BY <1>2, <1>7, <1>8, <2>2 DEF Whole, Entry, Sound
  <2>4. PICK o : o = Len(node[h].offsets)
    OBVIOUS
  <2>5. o \in Nat /\ DOMAIN node[h].offsets = 1 .. o /\ crashes \in Nat /\ m < o /\ o <= m + (crashes + 1)
    BY <1>1, <1>3, <1>4, <2>1, <2>2, <2>4, NodeFacts DEF IInv, Types, Lag
  <2>6. PICK d : d = o - (m + 1)
    OBVIOUS
  <2>7. d \in 0 .. crashes /\ m + 1 + d = o /\ o \in 1 .. o
    BY <1>6, <2>5, <2>6
  <2>8. Matched(node[h], crashes)'
    <3>1. ASSUME NEW k \in 1 .. m + 1
          PROVE  \E x \in 0 .. crashes : k + x \in DOMAIN r.offsets /\ r.offsets[k + x].msg = r.times[k]
      <4>1. CASE k = m + 1
        <5>1. r.offsets[k + d].msg = Current /\ k + d \in DOMAIN r.offsets /\ r.times[k] = Current
          BY <1>3, <1>6, <1>7, <2>4, <2>5, <2>7, <4>1 DEF Last
        <5> QED
          BY <2>7, <5>1
      <4>2. CASE k \in 1 .. m
        <5>1. k \in DOMAIN node[h].times /\ r.times[k] = node[h].times[k]
          BY <1>1, <1>6, <1>7, <4>2
        <5> QED
          BY <1>7, <2>2, <5>1 DEF Matched
      <4> QED
        BY <1>6, <4>1, <4>2
    <3>2. DOMAIN r.times = 1 .. m + 1
      BY <1>6, <1>7
    <3>3. node'[h] = r /\ crashes' = crashes
      BY <1>2, <1>8
    <3> QED
      BY <3>1, <3>2, <3>3 DEF Matched
  <2>9. Lag(node[h], crashes + Waiting(h))'
    <3>1. m + 1 <= o /\ o <= m + 1 + (crashes + 0)
      BY <1>6, <2>5
    <3> QED
      BY <1>2, <1>6, <1>7, <1>8, <2>1, <2>4, <3>1 DEF Lag
  <2> QED
    BY <1>2, <1>8, <2>1, <2>3, <2>8, <2>9, NodesKept
<1>11. Refers'
  <2>1. \A n \in DOMAIN node : DOMAIN node[n].times \subseteq DOMAIN node'[n].times
    BY <1>1, <1>6, <1>7, <1>8
  <2> QED
    BY <1>2, <1>8, <2>1 DEF IInv, Refers
<1>12. InOrder'
  <2> SUFFICES ASSUME crashes' = 0, ~spoilt', Fits' PROVE Ordered'
    BY DEF InOrder
  <2>1. Ordered
    BY <1>2, <1>7, <1>8 DEF IInv, InOrder, Fits
  <2>2. \A n \in DOMAIN node : \A k \in DOMAIN node[n].times :
            k \in DOMAIN node'[n].times /\ node'[n].times[k] = node[n].times[k]
    <3>1. \A k \in 1 .. m : k \in 1 .. m + 1
      BY <1>6
    <3>2. \A k \in DOMAIN node[h].times :
            k \in DOMAIN node'[h].times /\ node'[h].times[k] = node[h].times[k]
      BY <1>1, <1>6, <1>7, <1>8, <3>1
    <3> QED
      BY <1>8, <3>2
  <2>3. \A n \in DOMAIN node : \A k \in DOMAIN node[n].times : node[n].times[k] < Current
    BY <1>2, <1>4, <2>1 DEF Ordered, Pending
  <2>4. ASSUME NEW n \in DOMAIN node', NEW k \in DOMAIN node'[n].times
        PROVE  node'[n].times[k] = Current \/ (k \in DOMAIN node[n].times /\ node'[n].times[k] = node[n].times[k])
    <3>1. CASE n # h
      BY <1>8, <3>1
    <3>2. CASE n = h
      <4>1. k \in 1 .. m + 1 /\ node'[n].times = Append(q, Current)
        BY <1>6, <1>7, <1>8, <2>4, <3>2
      <4> QED
        BY <1>1, <1>6, <3>2, <4>1
    <3> QED
      BY <3>1, <3>2
  <2>5. ASSUME NEW n \in DOMAIN node', NEW k \in DOMAIN node'[n].times
        PROVE  node'[n].times[k] \in Nat /\ node'[n].times[k] <= Current
    <3>1. CASE node'[n].times[k] = Current
      BY <1>4, <3>1
    <3>2. CASE k \in DOMAIN node[n].times /\ node'[n].times[k] = node[n].times[k]
      BY <1>4, <1>8, <2>3, <3>2, NodeFacts, SeqFacts DEF IInv
    <3> QED
      BY <2>4, <3>1, <3>2
  <2>6. ASSUME NEW n \in DOMAIN node', NEW k \in DOMAIN node'[n].times,
               NEW i \in DOMAIN wal', Pending(i)'
        PROVE  node'[n].times[k] < wal'[i]
    <3>1. i \in DOMAIN wal /\ wal'[i] = wal[i] /\ wal[i] \in Nat /\ taken < i
      BY <1>2, <2>6, SeqFacts DEF Pending, IInv, Types
    <3>2. Current < wal[i]
      BY <1>4, <3>1 DEF IInv, Accepted
    <3> QED
      BY <1>4, <2>5, <3>1, <3>2
  <2>7. Last(node'[Hd'].times) = Current
    BY <1>6, <1>7, <1>8 DEF Last
  <2>8. sent' = 0 \/ \E n \in DOMAIN node' : \E k \in DOMAIN node'[n].times : sent' = node'[n].times[k]
    BY <1>2, <1>8, <2>1, <2>2 DEF Ordered
  <2>9. stream'.at = "send" => sent' <= node'[stream'.node].times[stream'.index]
    BY <1>2, <2>1, <2>2 DEF Ordered, IInv, Refers
  <2> QED
    BY <2>5, <2>6, <2>7, <2>8, <2>9 DEF Ordered
<1> QED
  BY <1>8, <1>9, <1>10, <1>11, <1>12 DEF IInv

LEMMA CreateNodeStep == ASSUME IInv, CreateNode PROVE IInv'
<1>1. /\ UNCHANGED <<msg, wal, granted, taken, list, push, spoilt, stream, sent, crashes>>
      /\ pc = "create"
  BY DEF CreateNode, ring, follower
<1>2. CASE pc' = "next" /\ UNCHANGED node
  <2>1. Types' /\ Accepted' /\ Refers'
    BY <1>1, <1>2 DEF IInv, Types, Accepted, Refers, Places
  <2>2. AtHand'
    BY <1>2 DEF AtHand
  <2>3. Staged' /\ Nodes'
    BY <1>1, <1>2, SameNodes, StagesKept
  <2>4. InOrder'
    <3>1. \A i \in DOMAIN wal : Pending(i)' => Pending(i)
      BY <1>1, <1>2 DEF Pending
    <3> QED
      BY <1>1, <1>2, <3>1, IdleOrder
  <2> QED
    BY <2>1, <2>2, <2>3, <2>4 DEF IInv
<1>3. CASE /\ pc' = "files"
           /\ node' = Append(node, [dir |-> msg[Current].time, stage |-> "first", low |-> 0,
                                    data |-> <<>>, offsets |-> <<>>, times |-> <<>>])
  <2>1. PICK r, h : /\ r = [dir |-> msg[Current].time, stage |-> "first", low |-> 0,
                            data |-> <<>>, offsets |-> <<>>, times |-> <<>>]
                    /\ h = Len(node) + 1
    OBVIOUS
  <2>2. r \in NodeDirs /\ r.stage = "first" /\ r.low = 0 /\ r.data = <<>> /\ r.offsets = <<>> /\ r.times = <<>>
    <3>1. msg[Current].time \in Times
      BY <1>1, CurrentAccepted DEF Messages
    <3>2. <<>> \in Seq(Nat) /\ <<>> \in Seq(Entries)
      OBVIOUS
    <3> QED
      BY <2>1, <3>1, <3>2 DEF NodeDirs, Begun
  <2>3. /\ node' \in Seq(NodeDirs) /\ Len(node) \in Nat /\ DOMAIN node = 1 .. Len(node)
        /\ Len(node') = h /\ DOMAIN node' = 1 .. h /\ node'[h] = r
        /\ \A n \in 1 .. Len(node) : node'[n] = node[n]
    BY <1>3, <2>1, <2>2, AppendFacts DEF IInv, Types
  <2>4. list \in Seq(DOMAIN node')
    <3>1. DOMAIN node \subseteq DOMAIN node'
      BY <2>1, <2>3
    <3> QED
      BY <3>1, SeqMonotonic DEF IInv, Types
  <2>5. Types' /\ Accepted'
    BY <1>1, <1>3, <2>3, <2>4 DEF IInv, Types, Accepted, Places
  <2>6. AtHand' /\ Staged'
    <3>1. node' # <<>> /\ Last(node)'.times = <<>> /\ taken > 0
      BY <1>1, <2>1, <2>2, <2>3 DEF Last, IInv, AtHand
    <3>2. Last(node)'.stage = "first"
      BY <2>2, <2>3 DEF Last
    <3>3. crashes = 0 => /\ \A n \in DOMAIN node : node[n].low = 0
                         /\ list # <<>> => node[Hd].stage = "ready" /\ Hd \in DOMAIN node
      BY HeadIsNode DEF IInv, Staged
    <3>4. crashes = 0 => \A n \in DOMAIN node' : node'[n].low = 0
      BY <2>1, <2>2, <2>3, <3>3
    <3>5. crashes = 0 /\ list # <<>> => node'[Hd].stage = "ready"
      BY <2>3, <3>3
    <3>6. Staged'
      BY <1>1, <1>3, <3>2, <3>4, <3>5 DEF Staged, Begun, Hd
    <3> QED
      BY <1>1, <1>3, <3>1, <3>6 DEF AtHand
  <2>7. \A n \in DOMAIN node' : (n # h => n \in DOMAIN node) /\ (n \notin DOMAIN node => n = h)
    BY <2>1, <2>3
  <2>8. Nodes'
    <3>1. \A n \in DOMAIN node' : Waiting(n) = 0 /\ Waiting(n)' = 0
      BY <1>1, <1>3 DEF Waiting
    <3>2. DOMAIN r.offsets = {} /\ DOMAIN r.times = {} /\ Len(r.offsets) = 0 /\ Len(r.times) = 0
      BY <2>2
    <3>3. Whole(node[h])' /\ Matched(node[h], crashes)'
      BY <2>2, <2>3, <3>2 DEF Whole, Matched
    <3>4. h \in DOMAIN node' => Lag(node[h], crashes + Waiting(h))'
      BY <1>1, <2>3, <3>1, <3>2 DEF Lag, IInv, Types
    <3> QED
      BY <1>1, <2>3, <2>7, <3>1, <3>3, <3>4, NodesKept
  <2>9. Refers'
    BY <1>1, <2>1, <2>3 DEF IInv, Refers
  <2>10. InOrder'
    <3>1. \A i \in DOMAIN wal : Pending(i)' => Pending(i)
      BY <1>1, <1>3 DEF Pending
    <3>2. \A n \in DOMAIN node : /\ n \in DOMAIN node' /\ node'[n] = node[n]
                                 /\ Len(node'[n].data) \in Nat /\ Len(node[n].data) <= Len(node'[n].data)
      BY <2>1, <2>3, NodeFacts DEF IInv
    <3>3. \A n \in DOMAIN node' : n \notin DOMAIN node => node'[n].times = <<>>
      BY <2>2, <2>3, <2>7
    <3> QED
      BY <1>1, <3>1, <3>2, <3>3, OrderKept
  <2> QED
    BY <2>5, <2>6, <2>8, <2>9, <2>10 DEF IInv
<1> QED
  BY <1>2, <1>3 DEF CreateNode

-----------------------------------------------------------------------------
(* What an entry with a timestamp yields. *)
LEMMA EntryRead ==
    ASSUME IInv, NEW n \in DOMAIN node, NEW k \in DOMAIN node[n].offsets,
           Sound(node[n], node[n].offsets[k].msg)
    PROVE  GetMsg(n, k) = node[n].offsets[k].msg
BY DEF IInv, Nodes, Whole, Entry, GetMsg

(* Until a crash, entry and timestamp are at the same place. *)
LEMMA TimeRead ==
    ASSUME IInv, crashes = 0, NEW n \in DOMAIN node, NEW k \in DOMAIN node[n].times,
           Len(node[n].data) <= OffsetMod
    PROVE  GetMsg(n, k) = node[n].times[k]
<1>1. PICK d \in 0 .. 0 : k + d \in DOMAIN node[n].offsets /\ node[n].offsets[k + d].msg = node[n].times[k]
  BY DEF IInv, Nodes, Matched
<1>2. k \in Nat /\ k + d = k
  BY <1>1, NodeFacts DEF IInv
<1>3. Sound(node[n], node[n].offsets[k].msg)
  BY DEF Sound, IInv, Staged
<1> QED
  BY <1>1, <1>2, <1>3, EntryRead

LEMMA StreamLatestStep == ASSUME IInv, StreamLatest PROVE IInv'
<1>1. /\ UNCHANGED <<msg, wal, granted, taken, node, list, pc, push, spoilt, sent, crashes>>
      /\ stream' = IF list = <<>> THEN NoRef
                   ELSE IF node[Hd].times = <<>> THEN NoRef
                   ELSE [at |-> "send", node |-> Hd, index |-> Len(node[Hd].times)]
  BY DEF StreamLatest, ring, files, history
<1>2. \/ stream' = NoRef
      \/ /\ list # <<>> /\ node[Hd].times # <<>>
         /\ stream' = [at |-> "send", node |-> Hd, index |-> Len(node[Hd].times)]
  BY <1>1
<1>3. NoRef \in Refs /\ NoRef.at # "send"
  BY DEF NoRef, Refs
<1>4. ASSUME list # <<>>, node[Hd].times # <<>>
      PROVE  Hd \in DOMAIN node /\ Hd \in Nat /\ Len(node[Hd].times) \in DOMAIN node[Hd].times
             /\ Len(node[Hd].times) \in Nat
  <2>1. Hd \in DOMAIN node
    BY <1>4, HeadIsNode DEF IInv
  <2>2. node[Hd].times \in Seq(Nat) /\ Len(node[Hd].times) \in Nat /\ DOMAIN node[Hd].times = 1 .. Len(node[Hd].times)
    BY <2>1, NodeFacts DEF IInv
  <2>3. Len(node[Hd].times) # 0
    BY <1>4, <2>2, EmptySeq
  <2> QED
    BY <2>1, <2>2, <2>3, SeqFacts DEF IInv, Types
<1>5. stream' \in Refs
  BY <1>2, <1>3, <1>4 DEF Refs
<1>6. Types' /\ Accepted' /\ AtHand'
  BY <1>1, <1>5 DEF IInv, Types, Accepted, AtHand, Hd, Current
<1>7. Staged' /\ Nodes'
  BY <1>1, SameNodes, StagesKept
<1>8. Refers'
  BY <1>1, <1>2, <1>3, <1>4 DEF Refers
<1>9. InOrder'
  <2> SUFFICES ASSUME crashes' = 0, ~spoilt', Fits' PROVE Ordered'
    BY DEF InOrder
  <2>1. Ordered
    BY <1>1 DEF IInv, InOrder, Fits
  <2>2. stream'.at = "send" => sent' <= node'[stream'.node].times[stream'.index]
    <3>1. CASE stream' = NoRef
      BY <1>3, <3>1
    <3>2. CASE /\ list # <<>> /\ node[Hd].times # <<>>
               /\ stream' = [at |-> "send", node |-> Hd, index |-> Len(node[Hd].times)]
      <4>1. node'[stream'.node].times[stream'.index] = Last(node[Hd].times)
        BY <1>1, <3>2 DEF Last
      <4>2. Last(node[Hd].times) \in Nat
        BY <1>4, <3>2, NodeFacts, SeqFacts DEF IInv, Last
      <4>3. CASE sent = 0
        BY <1>1, <4>1, <4>2, <4>3
      <4>4. CASE sent # 0
        BY <1>1, <2>1, <3>2, <4>1, <4>4 DEF Ordered
      <4> QED
        BY <4>3, <4>4
    <3> QED
      BY <1>2, <3>1, <3>2
  <2> QED
    BY <1>1, <2>1, <2>2 DEF Ordered, Pending, Hd
<1> QED
  BY <1>6, <1>7, <1>8, <1>9 DEF IInv

LEMMA StreamSendStep == ASSUME IInv, StreamSend PROVE IInv' /\ (crashes = 0 /\ ~spoilt /\ Fits => sent <= sent')
<1>1. /\ UNCHANGED <<msg, wal, granted, taken, node, list, pc, push, spoilt, crashes>>
      /\ stream.at = "send" /\ stream' = NoRef
      /\ sent' = IF GetMsg(stream.node, stream.index) = 0 THEN sent
                 ELSE GetMsg(stream.node, stream.index)
  BY DEF StreamSend, ring, files, history
<1>2. stream' \in Refs /\ stream'.at # "send"
  BY <1>1 DEF NoRef, Refs
<1>3. PICK n, k : n = stream.node /\ k = stream.index
  OBVIOUS
<1>4. n \in DOMAIN node /\ k \in DOMAIN node[n].times
  BY <1>1, <1>3 DEF IInv, Refers
<1>5. GetMsg(n, k) \in Nat
  <2>1. CASE k \notin DOMAIN node[n].offsets
    BY <2>1 DEF GetMsg
  <2>2. CASE k \in DOMAIN node[n].offsets
    <3>1. node[n].offsets[k].msg \in Nat /\ \A i \in DOMAIN node[n].data : node[n].data[i] \in Nat
      <4>1. node[n].offsets \in Seq(Entries) /\ node[n].data \in Seq(Nat)
        BY <1>4, NodeFacts DEF IInv
      <4>2. node[n].offsets[k] \in Entries /\ \A i \in DOMAIN node[n].data : node[n].data[i] \in Nat
        BY <2>2, <4>1, SeqFacts
      <4> QED
        BY <4>2 DEF Entries
    <3> QED
      BY <2>2, <3>1 DEF GetMsg
  <2> QED
    BY <2>1, <2>2
<1>6. sent' \in Nat
  BY <1>1, <1>3, <1>5 DEF IInv, Types
<1>7. Types' /\ Accepted' /\ AtHand'
  BY <1>1, <1>2, <1>6 DEF IInv, Types, Accepted, AtHand, Hd, Current
<1>8. Staged' /\ Nodes' /\ Refers'
  BY <1>1, <1>2, SameNodes, StagesKept DEF Refers
<1>9. ASSUME crashes = 0, ~spoilt, Fits
      PROVE  Ordered /\ sent <= sent' /\ (sent' = sent \/ sent' = node[n].times[k])
  <2>1. Ordered
    BY <1>9 DEF IInv, InOrder
  <2>2. GetMsg(n, k) = node[n].times[k]
    BY <1>4, <1>9, TimeRead DEF Fits
  <2>3. sent <= node[n].times[k]
    BY <1>1, <1>3, <2>1 DEF Ordered
  <2>4. sent <= sent
    BY DEF IInv, Types
  <2> QED
    BY <1>1, <1>3, <2>1, <2>2, <2>3, <2>4
<1>10. InOrder'
  <2> SUFFICES ASSUME crashes' = 0, ~spoilt', Fits' PROVE Ordered'
    BY DEF InOrder
  <2>1. Ordered /\ (sent' = sent \/ sent' = node[n].times[k])
    BY <1>1, <1>9 DEF Fits
  <2>2. sent' = 0 \/ \E a \in DOMAIN node' : \E b \in DOMAIN node'[a].times : sent' = node'[a].times[b]
    BY <1>1, <1>4, <2>1 DEF Ordered
  <2> QED
    BY <1>1, <1>2, <2>1, <2>2 DEF Ordered, Pending, Hd
<1> QED
  BY <1>7, <1>8, <1>9, <1>10 DEF IInv

-----------------------------------------------------------------------------
LEMMA IInvStep == IInv /\ [Next]_vars => IInv'
<1> SUFFICES ASSUME IInv, [Next]_vars PROVE IInv'
  OBVIOUS
<1>1. CASE Persist
  BY <1>1, NextGrantStep, TakeStep, TakeAnyStep, WriteDataStep, WriteOffsetStep, OverflowStep,
     WriteTimeStep, CreateNodeStep, CreateFileStep, LinkStep, DieStep DEF Persist, Fault
<1>2. CASE Create \/ HostEnds \/ StreamLatest \/ StreamSend \/ Crash \/ Reopen
  BY <1>2, CreateStep, HostEndsStep, StreamLatestStep, StreamSendStep, DieStep, ReopenStep DEF Crash
<1>3. CASE \E c \in Conns : Load(c) \/ Refuse(c) \/ Grant(c) \/ WakeStreams(c)
  BY <1>3, LoadRefuseStep, GrantStep, WakeStreamsStep
<1>4. CASE UNCHANGED vars
  <2>1. UNCHANGED <<msg, wal, spoilt, granted, taken, node, list, pc, push, stream, sent, crashes>>
    BY <1>4 DEF vars, ring, files, follower, history
  <2> QED
    BY <2>1, ElsewhereStep DEF IInv, Types
<1> QED
  BY <1>1, <1>2, <1>3, <1>4 DEF Next

LEMMA Invariance == Spec => []IInv
BY InitIInv, IInvStep, PTL DEF Spec

(* Through any number of crashes, between any two steps of try_push and of
   MsgLogNode::create, and whatever a ring that several connections spoilt hands
   over, a timestamp leads to the message it belongs to: displaced by no more
   places than there were crashes, and whole as long as the data log has not
   outgrown the 32 bits of an offset and the message does not begin in a header
   that a crash left unset, for every size of the logs. *)
THEOREM MessagesReadBack == Spec => []ReadBack
<1>1. ASSUME IInv PROVE ReadBack
  <2> SUFFICES ASSUME NEW n \in DOMAIN node, NEW k \in DOMAIN node[n].times
               PROVE  \E d \in 0 .. crashes :
                        /\ k + d \in DOMAIN node[n].offsets
                        /\ node[n].offsets[k + d].msg = node[n].times[k]
                        /\ (Len(node[n].data) <= OffsetMod /\ ~OverHeader(n, node[n].times[k])) =>
                                GetMsg(n, k + d) = node[n].times[k]
    BY DEF ReadBack
  <2>1. PICK d \in 0 .. crashes : k + d \in DOMAIN node[n].offsets /\ node[n].offsets[k + d].msg = node[n].times[k]
    BY <1>1 DEF IInv, Nodes, Matched
  <2>2. (Len(node[n].data) <= OffsetMod /\ ~OverHeader(n, node[n].times[k])) =>
            Sound(node[n], node[n].times[k])
    BY DEF Sound, OverHeader
  <2> QED
    BY <1>1, <2>1, <2>2, EntryRead
<1> QED
  BY <1>1, Invariance, PTL

(* Until a restart, and as long as the ring is a queue, handle_msg_stream never
   sends an older message after a newer one, whatever is pushed, persisted,
   refused or moved to a new node between latest() and the send. *)
THEOREM StreamsForward == Spec => StreamForward
<1>1. ASSUME IInv, [Next]_vars
      PROVE  [(crashes' = 0 /\ ~spoilt /\ \A n \in DOMAIN node : Len(node[n].data) <= OffsetMod)
                 => sent <= sent']_sent
  <2> SUFFICES ASSUME sent' # sent, crashes' = 0, ~spoilt, Fits PROVE sent <= sent'
    BY DEF Fits
  <2>1. CASE StreamSend
    <3>1. crashes = 0
      BY <2>1 DEF StreamSend, history
    <3> QED
      BY <1>1, <2>1, <3>1, StreamSendStep
  <2>2. ~Persist
    BY DEF Persist, follower, NextGrant, Take, TakeAny, WriteData, WriteOffset, Overflow, WriteTime,
       CreateNode, CreateFile, Link, Fault, Die
  <2>3. \A c \in Conns : ~Load(c) /\ ~Refuse(c) /\ ~Grant(c) /\ ~WakeStreams(c)
    BY DEF follower, Load, Refuse, Grant, WakeStreams
  <2>4. ~Create /\ ~HostEnds /\ ~StreamLatest /\ ~Crash /\ ~Reopen /\ ~UNCHANGED vars
    BY DEF vars, follower, Create, HostEnds, StreamLatest, Crash, Die, Reopen
  <2> QED
    BY <1>1, <2>1, <2>2, <2>3, <2>4 DEF Next
<1> QED
  BY <1>1, Invariance, PTL DEF Spec, StreamForward
=============================================================================

--------------------------- MODULE TimeSeriesProofs ---------------------------
(***************************************************************************)
(* Safety of the time series through any number of crashes and restarts,   *)
(* for every size of the two logs and any number of records.               *)
(*                                                                         *)
(* A record is written to the data log and then to the index of the head   *)
(* node, whichever node that is: so the properties of single nodes rest on *)
(* what the head node and the record being pushed have to do with each     *)
(* other, and survive reopening the nodes in any order.                    *)
(*                                                                         *)
(* The second half is about range queries over such nodes, whose samples   *)
(* ascend: what the two binary searches return brackets the samples of the *)
(* range, and goes on doing so while the persist task stores more.         *)
(***************************************************************************)
EXTENDS TimeSeries, RangeQuery, FiniteSetTheorems, SequenceTheorems,
        NaturalsInduction, WellFoundedInduction, TLAPS

NodeDirs == [dir : Nat, stage : {"index", "empty", "unset", "ready", "over"}, data : Seq(Nat), index : Seq(Nat)]

Types ==
    /\ stamp \in Seq(Nat) /\ last \in Nat
    /\ node \in Seq(NodeDirs)
    /\ list \in Seq(DOMAIN node)
    /\ pc \in {"idle", "push", "index", "make_index", "make_data", "extend", "header", "link",
               "gone", "down"}
    /\ crashes \in Nat

(* A record is between the WAL and the index. *)
Pushing == pc \notin {"idle", "gone", "down"}

(* The record being pushed is the last one taken, and it set last_timestamp or
   is late; a value in a data log waits for its timestamp; a node is linked empty. *)
AtHand ==
    /\ Pushing => /\ stamp # <<>> /\ stamp[Current] <= last
                  /\ Current \notin tardy => stamp[Current] = last
    /\ pc = "index" =>
        /\ list # <<>>
        /\ Len(node[Hd].index) < Len(node[Hd].data)
        /\ node[Hd].data[Len(node[Hd].data)] = Current
    /\ pc \in {"make_data", "extend", "header", "link"} => node # <<>> /\ node[Len(node)].index = <<>>

(* What is indexed was taken before the record being pushed. *)
Indexed ==
    \A n \in DOMAIN node : \A k \in DOMAIN node[n].index :
        /\ node[n].index[k] \in 1 .. Len(stamp)
        /\ Pushing => node[n].index[k] # Len(stamp)

(* No late record got into the index of node n. *)
InTime(n) == \A k \in DOMAIN node[n].index : node[n].index[k] \notin tardy

(* The node that is written to holds nothing newer than last_timestamp. *)
HeadBehind ==
    (list # <<>> /\ InTime(Hd)) => \A k \in DOMAIN node[Hd].index : stamp[node[Hd].index[k]] <= last

Waiting(n) == IF pc \in {"index", "gone"} /\ n = Hd THEN 1 ELSE 0

(* Values and timestamps are written in step, whatever the header says. *)
Paired ==
    \A n \in DOMAIN node : \A k \in DOMAIN node[n].index : \E d \in 0 .. crashes :
        /\ k + d \in DOMAIN node[n].data
        /\ node[n].index[k] = node[n].data[k + d]

(* A data log is ahead of an index with room left by the crashes between the two
   writes and the value that waits. *)
Ahead ==
    \A n \in DOMAIN node :
        /\ Len(node[n].index) <= Len(node[n].data)
        /\ Len(node[n].index) < IndexCap =>
              Len(node[n].data) <= Len(node[n].index) + crashes + Waiting(n)

(* The inductive invariant. *)
IInv ==
    /\ Types /\ AtHand /\ Indexed /\ HeadBehind /\ Ahead
    /\ Paired /\ NodesSorted /\ StoredOnce

(* x is the last of the records S, or 0 when there are none. *)
IsNewest(x, S) == x \in {0} \cup S /\ \A y \in S : y <= x

(* The head was made for the record being pushed and has room for it. *)
Fresh ==
    /\ pc \in {"push", "index"} /\ list # <<>>
    /\ node[Hd].index = <<>>
    /\ pc = "push" => node[Hd].data = <<>>

(* Until a crash, latest() is the last record stored, except while the head is
   a new node, which then takes the record being pushed. *)
Newest ==
    /\ dataCap \in DataCaps
    /\ failed \in SUBSET (1 .. Len(stamp))
    /\ pc = "down" => crashes # 0
    /\ crashes = 0 =>
        /\ pc = "idle" => IsNewest(Latest, (1 .. Len(stamp)) \ failed)
        /\ Pushing =>
            /\ Current \notin failed
            /\ IsNewest(Latest, (1 .. Current - 1) \ failed) \/ Fresh

-----------------------------------------------------------------------------
LEMMA SeqFacts ==
    ASSUME NEW S, NEW q \in Seq(S)
    PROVE  /\ Len(q) \in Nat /\ DOMAIN q = 1 .. Len(q)
           /\ \A i \in DOMAIN q : q[i] \in S
BY LenProperties, ElementOfSeq

LEMMA AppendFacts ==
    ASSUME NEW S, NEW q \in Seq(S), NEW e \in S
    PROVE  /\ Append(q, e) \in Seq(S)
           /\ Len(q) \in Nat /\ DOMAIN q = 1 .. Len(q)
           /\ Len(Append(q, e)) = Len(q) + 1
           /\ DOMAIN Append(q, e) = 1 .. Len(q) + 1
           /\ Append(q, e)[Len(q) + 1] = e
           /\ \A i \in 1 .. Len(q) : Append(q, e)[i] = q[i]
BY AppendProperties, LenProperties

(* The head of a list that is not empty is a node. *)
LEMMA HeadIsNode ==
    ASSUME Types, list # <<>>
    PROVE  Hd \in DOMAIN node
BY DEF Types, Hd

LEMMA ReplaceFacts ==
    ASSUME NEW q \in Seq(NodeDirs), NEW i \in DOMAIN q, NEW r \in NodeDirs,
           NEW p, p = [q EXCEPT ![i] = r]
    PROVE  /\ p \in Seq(NodeDirs) /\ Len(p) = Len(q) /\ DOMAIN p = DOMAIN q
           /\ p[i] = r /\ \A n \in DOMAIN q : n # i => p[n] = q[n]
<1>1. DOMAIN q = 1 .. Len(q) /\ i \in 1 .. Len(q)
  BY SeqFacts
<1>2. p \in Seq(NodeDirs) /\ Len(p) = Len(q)
  BY <1>1, ExceptSeq
<1> QED
  BY <1>1, <1>2, SeqFacts

LEMMA NodeFacts ==
    ASSUME Types, NEW n \in DOMAIN node
    PROVE  /\ node[n] \in NodeDirs
           /\ node[n].index \in Seq(Nat) /\ node[n].data \in Seq(Nat)
           /\ Len(node[n].index) \in Nat /\ DOMAIN node[n].index = 1 .. Len(node[n].index)
           /\ Len(node[n].data) \in Nat /\ DOMAIN node[n].data = 1 .. Len(node[n].data)
           /\ Waiting(n) \in {0, 1}
<1>1. node[n] \in NodeDirs
  BY DEF Types
<1>2. node[n].index \in Seq(Nat) /\ node[n].data \in Seq(Nat)
  BY <1>1 DEF NodeDirs
<1> QED
  BY <1>1, <1>2, SeqFacts DEF Waiting

LEMMA InitIInv == Init => IInv
<1> SUFFICES ASSUME Init PROVE IInv
  OBVIOUS
<1>1. node = <<>> /\ list = <<>> /\ stamp = <<>> /\ last = 0 /\ crashes = 0 /\ pc = "idle"
  BY DEF Init
<1>2. Types
  BY <1>1 DEF Types
<1> QED
  BY <1>1, <1>2 DEF IInv, AtHand, Pushing, Indexed, HeadBehind, InTime, Ahead, Paired, NodesSorted, StoredOnce

(* Steps that leave the logs of every node as they are, and the list or its head. *)
LEMMA SameLogs ==
    ASSUME IInv, UNCHANGED <<node, stamp, tardy>>, crashes' >= crashes, crashes' \in Nat
    PROVE  Paired' /\ NodesSorted' /\ StoredOnce'
<1>1. Paired'
  <2>1. 0 .. crashes \subseteq 0 .. crashes'
    BY DEF IInv, Types
  <2> QED
    BY <2>1 DEF IInv, Paired
<1>2. NodesSorted' /\ StoredOnce'
  BY DEF IInv, NodesSorted, StoredOnce
<1> QED
  BY <1>1, <1>2

LEMMA OverflowStep ==
    ASSUME IInv, Overflow
    PROVE  IInv'
<1>1. UNCHANGED <<stamp, last, node, list, tardy, crashes>> /\ pc = "push" /\ pc' = "make_index"
  BY DEF Overflow, history, bounds
<1>2. Types'
  BY <1>1 DEF IInv, Types
<1>3. AtHand' /\ Indexed' /\ HeadBehind'
  BY <1>1 DEF IInv, AtHand, Indexed, HeadBehind, InTime, Pushing, Current, Hd
<1>4. Ahead'
  BY <1>1 DEF IInv, Ahead, Waiting, Hd
<1>5. Paired' /\ NodesSorted' /\ StoredOnce'
  BY <1>1, SameLogs DEF IInv, Types
<1> QED
  BY <1>2, <1>3, <1>4, <1>5 DEF IInv

LEMMA CrashStep ==
    ASSUME IInv, Die
    PROVE  IInv'
<1>1. /\ UNCHANGED <<stamp, last, node, tardy>> /\ list' = <<>> /\ pc' = "down"
      /\ crashes' = crashes + 1
  BY DEF Die
<1>2. Types'
  BY <1>1 DEF IInv, Types
<1>3. AtHand' /\ Indexed' /\ HeadBehind'
  BY <1>1 DEF IInv, AtHand, Indexed, HeadBehind, InTime, Pushing
<1>4. Ahead'
  <2>1. ASSUME NEW n \in DOMAIN node
        PROVE  /\ Len(node[n].index) <= Len(node[n].data)
               /\ Len(node[n].index) < IndexCap =>
                      Len(node[n].data) <= Len(node[n].index) + (crashes + 1) + 0
    <3>1. crashes \in Nat /\ Waiting(n) \in {0, 1}
          /\ Len(node[n].index) \in Nat /\ Len(node[n].data) \in Nat
      BY NodeFacts DEF IInv, Types
    <3>2. /\ Len(node[n].index) <= Len(node[n].data)
          /\ Len(node[n].index) < IndexCap =>
                Len(node[n].data) <= Len(node[n].index) + crashes + Waiting(n)
      BY DEF IInv, Ahead
    <3>3. \A a, b, c \in Nat : \A w \in {0, 1} : b <= a + c + w => b <= a + (c + 1) + 0
      OBVIOUS
    <3>4. Len(node[n].index) < IndexCap =>
            Len(node[n].data) <= Len(node[n].index) + (crashes + 1) + 0
      BY <3>1, <3>2, <3>3, Zenon
    <3> QED
      BY <3>2, <3>4
  <2>2. \A n : Waiting(n)' = 0
    BY <1>1 DEF Waiting
  <2> QED
    BY <1>1, <2>1, <2>2 DEF Ahead
<1>5. Paired' /\ NodesSorted' /\ StoredOnce'
  BY <1>1, SameLogs DEF IInv, Types
<1> QED
  BY <1>2, <1>3, <1>4, <1>5 DEF IInv

(* The nodes are reopened in any order; last_timestamp is what the head has last. *)
LEMMA ReopenStep ==
    ASSUME IInv, Reopen
    PROVE  IInv'
<1>1. /\ UNCHANGED <<stamp, node, tardy, crashes>> /\ pc = "down" /\ pc' = "idle"
      /\ list' \in SetToSeqs(Openable)
      /\ last' = IF LatestIn(list') = 0 THEN 0 ELSE stamp[LatestIn(list')]
  BY DEF Reopen, history, bounds
<1>2. list' \in Seq(DOMAIN node)
  <2>1. IsFiniteSet(DOMAIN node)
    <3>1. DOMAIN node = 1 .. Len(node) /\ Len(node) \in Nat
      BY SeqFacts DEF IInv, Types
    <3> QED
      BY <3>1, FS_Interval
  <2>2. Cardinality(Openable) \in Nat
    BY <2>1, FS_Subset, FS_CardinalityType DEF Openable
  <2>3. list' \in [1 .. Cardinality(Openable) -> DOMAIN node]
    BY <1>1 DEF SetToSeqs, Openable
  <2> QED
    BY <2>2, <2>3, IsASeq
<1>3. list' # <<>> => Head(list') \in DOMAIN node
  BY <1>2
<1>4. ASSUME NEW h \in DOMAIN node, h = Head(list'), list' # <<>>
      PROVE  /\ last' \in Nat
             /\ InTime(h) => \A k \in DOMAIN node[h].index : stamp[node[h].index[k]] <= last'
  <2> DEFINE q == node[h].index
             m == Len(q)
  <2>1. q \in Seq(Nat) /\ m \in Nat /\ DOMAIN q = 1 .. m
    BY NodeFacts DEF IInv
  <2>2. \A k \in 1 .. m : q[k] \in 1 .. Len(stamp) /\ q[k] # 0 /\ stamp[q[k]] \in Nat
    <3>1. \A k \in 1 .. m : q[k] \in 1 .. Len(stamp)
      BY <2>1 DEF IInv, Indexed
    <3>2. Len(stamp) \in Nat /\ \A i \in 1 .. Len(stamp) : stamp[i] \in Nat
      BY SeqFacts DEF IInv, Types
    <3> QED
      BY <3>1, <3>2
  <2>3. InTime(h) => \A j, k \in 1 .. m : j < k => stamp[q[j]] <= stamp[q[k]]
    BY <2>1 DEF IInv, NodesSorted, InTime
  <2> HIDE DEF q, m
  <2>4. CASE q = <<>>
    <3>1. m = 0
      BY <2>4 DEF m
    <3>2. LatestIn(list') = 0
      BY <1>1, <1>4, <2>4 DEF LatestIn, q
    <3>3. last' = 0
      BY <1>1, <3>2
    <3> QED
      BY <2>1, <3>1, <3>3 DEF q
  <2>5. CASE q # <<>>
    <3>1. m \in 1 .. m
      BY <2>1, <2>5, EmptySeq DEF m
    <3>2. LatestIn(list') = q[m]
      BY <1>1, <1>4, <2>5 DEF LatestIn, q, m, Last
    <3>3. last' = stamp[q[m]]
      BY <1>1, <2>2, <3>1, <3>2
    <3>4. InTime(h) => \A k \in 1 .. m : stamp[q[k]] <= stamp[q[m]]
      <4> HAVE InTime(h)
      <4> TAKE k \in 1 .. m
      <4>1. k = m \/ k < m
        BY <2>1
      <4> QED
        BY <2>2, <2>3, <3>1, <4>1
    <3> QED
      BY <2>1, <2>2, <3>1, <3>3, <3>4 DEF q
  <2> QED
    BY <2>4, <2>5
<1>5. Types'
  <2>1. last' \in Nat
    <3>1. CASE list' = <<>>
      BY <1>1, <3>1 DEF LatestIn
    <3>2. CASE list' # <<>>
      BY <1>3, <1>4, <3>2
    <3> QED
      BY <3>1, <3>2
  <2> QED
    BY <1>1, <1>2, <2>1 DEF IInv, Types
<1>6. HeadBehind'
  BY <1>1, <1>3, <1>4 DEF HeadBehind, InTime, Hd
<1>7. AtHand' /\ Indexed'
  BY <1>1 DEF IInv, AtHand, Indexed, Pushing
<1>8. Ahead'
  BY <1>1 DEF IInv, Ahead, Waiting
<1>9. Paired' /\ NodesSorted' /\ StoredOnce'
  BY <1>1, SameLogs DEF IInv, Types
<1> QED
  BY <1>5, <1>6, <1>7, <1>8, <1>9 DEF IInv

(* A record is taken from the WAL. *)
LEMMA TakeStep ==
    ASSUME IInv, Take
    PROVE  IInv'
<1> USE TimeSeriesAssumption
<1>1. PICK t \in Times :
        /\ stamp' = Append(stamp, t)
        /\ last' = IF t < last THEN last ELSE t
        /\ tardy' = IF t < last THEN tardy \cup {Len(stamp) + 1} ELSE tardy
  BY DEF Take
<1>2. UNCHANGED <<node, list, crashes>> /\ pc = "idle" /\ pc' = "push" /\ t \in Nat
  BY DEF Take, Times
<1> DEFINE m == Len(stamp)
<1>3. /\ stamp' \in Seq(Nat) /\ m \in Nat /\ DOMAIN stamp = 1 .. m
      /\ Len(stamp') = m + 1 /\ stamp'[m + 1] = t
      /\ \A i \in 1 .. m : stamp'[i] = stamp[i] /\ stamp[i] \in Nat
  BY <1>1, <1>2, AppendFacts, SeqFacts, SMTT(40) DEF IInv, Types
<1> HIDE DEF m
<1>4. \A n \in DOMAIN node : \A k \in DOMAIN node[n].index : node[n].index[k] \in 1 .. m
  BY DEF IInv, Indexed, m
<1>5. 1 .. m \subseteq 1 .. m + 1 /\ m + 1 \notin 1 .. m
  BY <1>3
<1>6. Types'
  BY <1>1, <1>2, <1>3 DEF IInv, Types
<1>7. AtHand'
  <2>1. stamp' # <<>> /\ stamp'[Len(stamp')] <= last'
    <3>1. stamp'[Len(stamp')] = t /\ last \in Nat
      BY <1>3 DEF IInv, Types
    <3>2. Len(stamp') # 0
      BY <1>3
    <3>3. t <= last'
      BY <1>1, <1>2, <3>1
    <3>4. stamp' # <<>>
      BY <3>2
    <3> QED
      BY <3>1, <3>3, <3>4
  <2>2. Len(stamp') \notin tardy' => stamp'[Len(stamp')] = last'
    BY <1>1, <1>3 DEF m
  <2> QED
    BY <1>2, <2>1, <2>2 DEF AtHand, Current, Pushing
<1>8. Indexed'
  BY <1>2, <1>3, <1>4, <1>5 DEF Indexed, Pushing
<1>9. HeadBehind'
  <2>1. ASSUME list # <<>>, InTime(Hd), NEW k \in DOMAIN node[Hd].index
        PROVE  stamp'[node[Hd].index[k]] <= last'
    <3>1. Hd \in DOMAIN node
      BY <2>1, HeadIsNode DEF IInv
    <3>2. node[Hd].index[k] \in 1 .. m
      BY <1>4, <2>1, <3>1
    <3>3. stamp[node[Hd].index[k]] <= last /\ last \in Nat
      BY <2>1 DEF IInv, HeadBehind, InTime, Types
    <3> QED
      BY <1>1, <1>2, <1>3, <3>2, <3>3, SMTT(40)
  <2>2. list # <<>> /\ InTime(Hd)' => InTime(Hd)
    <3>1. list # <<>> => Hd \in DOMAIN node
      BY HeadIsNode DEF IInv
    <3> QED
      BY <1>1, <1>2, <3>1 DEF InTime, Hd
  <2> QED
    BY <1>2, <2>1, <2>2 DEF HeadBehind, Hd
<1>10. Ahead'
  BY <1>2 DEF IInv, Ahead, Waiting
<1>11. Paired' /\ StoredOnce'
  BY <1>2 DEF IInv, Paired, StoredOnce
<1>12. NodesSorted'
  <2>1. ASSUME NEW n \in DOMAIN node, InTime(n), NEW j \in DOMAIN node[n].index,
               NEW k \in DOMAIN node[n].index, j < k
        PROVE  stamp'[node[n].index[j]] <= stamp'[node[n].index[k]]
    <3>1. stamp[node[n].index[j]] <= stamp[node[n].index[k]]
      BY <2>1 DEF IInv, NodesSorted, InTime
    <3>2. /\ stamp'[node[n].index[j]] = stamp[node[n].index[j]]
          /\ stamp'[node[n].index[k]] = stamp[node[n].index[k]]
      BY <1>3, <1>4
    <3> QED
      BY <3>1, <3>2
  <2>2. \A n \in DOMAIN node : InTime(n)' => InTime(n)
    BY <1>1, <1>2 DEF InTime
  <2> QED
    BY <1>2, <2>1, <2>2 DEF NodesSorted, InTime
<1> QED
  BY <1>6, <1>7, <1>8, <1>9, <1>10, <1>11, <1>12 DEF IInv

(* A node directory is created, or exists already and the push fails. *)
LEMMA MakeIndexStep ==
    ASSUME IInv, MakeIndex
    PROVE  IInv'
<1> USE TimeSeriesAssumption
<1>1. UNCHANGED <<stamp, last, list, tardy, crashes>> /\ pc = "make_index"
  BY DEF MakeIndex, bounds
<1>2. CASE UNCHANGED node /\ pc' = "idle"
  <2>1. Types'
    BY <1>1, <1>2 DEF IInv, Types
  <2>2. AtHand' /\ Indexed' /\ HeadBehind'
    BY <1>1, <1>2 DEF IInv, AtHand, Indexed, HeadBehind, InTime, Pushing, Hd
  <2>3. Ahead'
    BY <1>1, <1>2 DEF IInv, Ahead, Waiting
  <2>4. Paired' /\ NodesSorted' /\ StoredOnce'
    BY <1>1, <1>2, SameLogs DEF IInv, Types
  <2> QED
    BY <2>1, <2>2, <2>3, <2>4 DEF IInv
<1> DEFINE new == [dir |-> stamp[Current], stage |-> "index", data |-> <<>>, index |-> <<>>]
<1>3. CASE node' = Append(node, new) /\ pc' = "make_data"
  <2> DEFINE m == Len(node)
  <2>1. new \in NodeDirs
    <3>1. stamp \in Seq(Nat) /\ stamp # <<>>
      BY <1>1 DEF IInv, Types, AtHand, Pushing
    <3>2. stamp[Current] \in Nat
      BY <3>1, SeqFacts, EmptySeq DEF Current
    <3> QED
      BY <3>2 DEF NodeDirs
  <2>2. new.index = <<>> /\ new.data = <<>>
    OBVIOUS
  <2> HIDE DEF new
  <2>3. /\ node' \in Seq(NodeDirs) /\ m \in Nat /\ DOMAIN node = 1 .. m
        /\ Len(node') = m + 1 /\ DOMAIN node' = 1 .. m + 1 /\ node'[m + 1] = new
        /\ \A n \in 1 .. m : node'[n] = node[n]
    BY <1>3, <2>1, AppendFacts DEF IInv, Types
  <2> HIDE DEF m
  <2>4. \A n \in DOMAIN node' : n \in DOMAIN node \/ n = m + 1
    BY <2>3
  <2>5. DOMAIN node \subseteq DOMAIN node' /\ \A n \in DOMAIN node : node'[n] = node[n]
    BY <2>3
  <2>6. node'[m + 1].index = <<>> /\ node'[m + 1].data = <<>>
        /\ DOMAIN node'[m + 1].index = {} /\ Len(node'[m + 1].index) = 0 /\ Len(node'[m + 1].data) = 0
    BY <2>2, <2>3
  <2>7. Types'
    <3>1. list \in Seq(DOMAIN node')
      BY <2>5, SeqMonotonic DEF IInv, Types
    <3> QED
      BY <1>1, <1>3, <2>3, <3>1 DEF IInv, Types
  <2>8. AtHand'
    <3>1. node' # <<>>
      BY <2>3, EmptySeq
    <3> QED
      BY <1>1, <1>3, <2>3, <2>6, <3>1 DEF IInv, AtHand, Pushing, Current
  <2>9. Indexed'
    BY <1>1, <1>3, <2>4, <2>5, <2>6 DEF IInv, Indexed, Pushing
  <2>10. HeadBehind'
    <3>1. list # <<>> => Hd \in DOMAIN node
      BY HeadIsNode DEF IInv
    <3> QED
      BY <1>1, <2>5, <3>1 DEF IInv, HeadBehind, InTime, Hd
  <2>11. Ahead'
    <3>1. \A n : Waiting(n)' = 0 /\ Waiting(n) = 0
      BY <1>1, <1>3 DEF Waiting
    <3>2. crashes \in Nat
      BY DEF IInv, Types
    <3>3. ASSUME NEW n \in DOMAIN node'
          PROVE  /\ Len(node'[n].index) <= Len(node'[n].data)
                 /\ Len(node'[n].index) < IndexCap =>
                      Len(node'[n].data) <= Len(node'[n].index) + crashes + 0
      <4>1. CASE n \in DOMAIN node
        BY <2>5, <3>1, <4>1 DEF IInv, Ahead
      <4>2. CASE n = m + 1
        BY <2>6, <3>2, <4>2
      <4> QED
        BY <2>4, <4>1, <4>2
    <3> QED
      BY <1>1, <3>1, <3>3 DEF Ahead
  <2>12. Paired'
    BY <1>1, <2>4, <2>5, <2>6 DEF IInv, Paired
  <2>13. NodesSorted'
    BY <1>1, <2>4, <2>5, <2>6 DEF IInv, NodesSorted
  <2>14. StoredOnce'
    BY <1>1, <2>4, <2>5, <2>6 DEF IInv, StoredOnce
  <2> QED
    BY <2>7, <2>8, <2>9, <2>10, <2>11, <2>12, <2>13, <2>14 DEF IInv
<1> QED
  BY <1>2, <1>3 DEF MakeIndex

(* The data file and its header change how far a node is, not its logs. *)
LEMMA StageStep ==
    ASSUME IInv, MakeData \/ ExtendData \/ WriteHeader
    PROVE  IInv'
<1> USE TimeSeriesAssumption
<1> DEFINE m == Len(node)
<1>1. PICK s \in {"empty", "unset", "ready"} : node' = [node EXCEPT ![m].stage = s]
  BY DEF MakeData, ExtendData, WriteHeader
<1>2. /\ UNCHANGED <<stamp, last, list, tardy, crashes>>
      /\ pc \in {"make_data", "extend", "header"} /\ pc' \in {"extend", "header", "link"}
  BY DEF MakeData, ExtendData, WriteHeader, history, bounds
<1>3. node # <<>> /\ node \in Seq(NodeDirs) /\ node[m].index = <<>>
  BY <1>2 DEF IInv, AtHand, Types
<1>4. m \in DOMAIN node /\ DOMAIN node = 1 .. m
  BY <1>3, SeqFacts, EmptySeq
<1>5. /\ DOMAIN node' = DOMAIN node /\ node' \in Seq(NodeDirs) /\ Len(node') = m
      /\ \A n \in DOMAIN node : node'[n].index = node[n].index /\ node'[n].data = node[n].data
  <2>1. [node[m] EXCEPT !.stage = s] \in NodeDirs
    <3>1. node[m] \in NodeDirs
      BY <1>3, <1>4, SeqFacts
    <3> QED
      BY <3>1 DEF NodeDirs
  <2>2. node' = [node EXCEPT ![m] = [node[m] EXCEPT !.stage = s]]
    BY <1>1, <1>4
  <2>3. node' \in Seq(NodeDirs) /\ Len(node') = m
    BY <1>3, <1>4, <2>1, <2>2, ExceptSeq
  <2> QED
    BY <1>3, <1>4, <2>2, <2>3
<1> HIDE DEF m
<1>6. Types'
  BY <1>2, <1>5 DEF IInv, Types
<1>7. AtHand'
  <2>1. node' # <<>>
    BY <1>4, <1>5
  <2> QED
    BY <1>2, <1>3, <1>4, <1>5, <2>1 DEF IInv, AtHand, Pushing, Current
<1>8. Indexed'
  BY <1>2, <1>5 DEF IInv, Indexed, Pushing
<1>9. HeadBehind'
  <2>1. list # <<>> => Hd \in DOMAIN node
    BY HeadIsNode DEF IInv
  <2> QED
    BY <1>2, <1>5, <2>1 DEF IInv, HeadBehind, InTime, Hd
<1>10. Ahead'
  BY <1>2, <1>5 DEF IInv, Ahead, Waiting
<1>11. Paired' /\ NodesSorted' /\ StoredOnce'
  BY <1>2, <1>5, SMTT(40) DEF IInv, Paired, NodesSorted, StoredOnce
<1> QED
  BY <1>6, <1>7, <1>8, <1>9, <1>10, <1>11 DEF IInv

(* The new node becomes the head, or the exchange fails. *)
LEMMA LinkStep ==
    ASSUME IInv, Link
    PROVE  IInv'
<1> USE TimeSeriesAssumption
<1> DEFINE m == Len(node)
<1>1. /\ UNCHANGED <<stamp, last, node, tardy, crashes>> /\ pc = "link" /\ pc' = "push"
      /\ list' = <<m>> \o list \/ list' = list
  BY DEF Link, history, bounds
<1>2. node # <<>> /\ node[m].index = <<>> /\ list \in Seq(DOMAIN node)
  BY <1>1 DEF IInv, AtHand, Types
<1>3. m \in DOMAIN node
  BY <1>2, SeqFacts, EmptySeq DEF IInv, Types
<1> HIDE DEF m
<1>4. /\ <<m>> \o list \in Seq(DOMAIN node) /\ <<m>> \o list # <<>>
      /\ Head(<<m>> \o list) = m
  BY <1>2, <1>3
<1>5. Types'
  BY <1>1, <1>2, <1>4 DEF IInv, Types
<1>6. AtHand' /\ Indexed'
  BY <1>1 DEF IInv, AtHand, Indexed, Pushing, Current
<1>7. HeadBehind'
  <2>1. CASE list' = list
    BY <1>1, <2>1 DEF IInv, HeadBehind, InTime, Hd
  <2>2. CASE list' = <<m>> \o list
    BY <1>1, <1>2, <1>4, <2>2 DEF HeadBehind, InTime, Hd
  <2> QED
    BY <1>1, <2>1, <2>2
<1>8. Ahead'
  BY <1>1 DEF IInv, Ahead, Waiting
<1>9. Paired' /\ NodesSorted' /\ StoredOnce'
  BY <1>1, SameLogs DEF IInv, Types
<1> QED
  BY <1>5, <1>6, <1>7, <1>8, <1>9 DEF IInv

(* The value is written, and waits for its timestamp. *)
LEMMA WriteDataStep ==
    ASSUME IInv, WriteData
    PROVE  IInv'
<1> USE TimeSeriesAssumption
<1> DEFINE h == Hd
           q == node[h].data
           m == Len(q)
<1>1. /\ UNCHANGED <<stamp, last, list, tardy, crashes>> /\ pc = "push" /\ pc' \in {"index", "gone"}
      /\ list # <<>> /\ node' = [node EXCEPT ![h].data = Append(q, Current),
                                            ![h].stage = IF @ = "unset" THEN "over" ELSE @]
  BY DEF WriteData, history, bounds
<1>2. h \in DOMAIN node /\ node \in Seq(NodeDirs)
  BY <1>1, HeadIsNode DEF IInv, Types
<1>3. Current \in Nat /\ q \in Seq(Nat) /\ node[h] \in NodeDirs
  BY <1>2, NodeFacts, SeqFacts DEF IInv, Types, Current
<1>4. /\ Append(q, Current) \in Seq(Nat) /\ m \in Nat /\ DOMAIN q = 1 .. m
      /\ Len(Append(q, Current)) = m + 1 /\ DOMAIN Append(q, Current) = 1 .. m + 1
      /\ Append(q, Current)[m + 1] = Current
      /\ \A i \in 1 .. m : Append(q, Current)[i] = q[i]
  BY <1>3, AppendFacts, SMTT(40)
<1>5. /\ DOMAIN node' = DOMAIN node /\ node' \in Seq(NodeDirs) /\ Len(node') = Len(node)
      /\ \A n \in DOMAIN node : node'[n].index = node[n].index
      /\ \A n \in DOMAIN node : n # h => node'[n].data = node[n].data
      /\ node'[h].data = Append(q, Current)
  <2> HIDE DEF h, q, m
  <2> DEFINE r == [node[h] EXCEPT !.data = Append(q, Current),
                                  !.stage = IF @ = "unset" THEN "over" ELSE @]
  <2>1. r \in NodeDirs
    BY <1>3, <1>4 DEF NodeDirs
  <2>2. node' = [node EXCEPT ![h] = r]
    BY <1>1, <1>2
  <2>3. r.data = Append(q, Current) /\ r.index = node[h].index
    BY <1>3 DEF NodeDirs
  <2> HIDE DEF r
  <2>4. /\ node' \in Seq(NodeDirs) /\ Len(node') = Len(node) /\ DOMAIN node' = DOMAIN node
        /\ node'[h] = r /\ \A n \in DOMAIN node : n # h => node'[n] = node[n]
    BY <1>2, <2>1, <2>2, ReplaceFacts DEF r
  <2> QED
    BY <2>3, <2>4
<1>6. Hd' = h
  BY <1>1 DEF Hd
<1> HIDE DEF h, q, m
<1>7. Types'
  BY <1>1, <1>5 DEF IInv, Types
<1>8. Len(node[h].index) \in Nat /\ Len(node[h].index) <= m /\ Waiting(h) = 0 /\ crashes \in Nat
  BY <1>1, <1>2, NodeFacts DEF IInv, Ahead, Waiting, Types, q, m
<1>9. AtHand'
  <2>1. Len(node'[h].data) = m + 1 /\ node'[h].data[m + 1] = Current /\ Len(node'[h].index) < m + 1
    BY <1>2, <1>4, <1>5, <1>8
  <2> QED
    BY <1>1, <1>6, <2>1 DEF IInv, AtHand, Pushing, Current
<1>10. Indexed'
  BY <1>1, <1>5 DEF IInv, Indexed, Pushing
<1>11. HeadBehind'
  <2>1. node'[h].index = node[h].index
    BY <1>2, <1>5
  <2>2. (\A k \in DOMAIN node[h].index : node[h].index[k] \notin tardy) =>
           \A k \in DOMAIN node[h].index : stamp[node[h].index[k]] <= last
    BY <1>1 DEF IInv, HeadBehind, InTime, h
  <2>3. HeadBehind' <=> (list' # <<>> /\ InTime(Hd)' =>
           \A k \in DOMAIN node'[Hd'].index : stamp'[node'[Hd'].index[k]] <= last')
    BY DEF HeadBehind
  <2>4. InTime(Hd)' <=> \A k \in DOMAIN node[h].index : node[h].index[k] \notin tardy
    BY <1>1, <1>6, <2>1 DEF InTime
  <2> QED
    BY <1>1, <1>6, <2>1, <2>2, <2>3, <2>4
<1>12. Ahead'
  <2>1. ASSUME NEW n \in DOMAIN node
        PROVE  /\ Len(node'[n].index) <= Len(node'[n].data)
               /\ Len(node'[n].index) < IndexCap =>
                    Len(node'[n].data) <= Len(node'[n].index) + crashes + Waiting(n)'
    <3>1. CASE n = h
      <4>1. Waiting(n)' = 1
        BY <1>1, <1>6, <3>1 DEF Waiting
      <4>2. Len(node[h].index) < IndexCap => m <= Len(node[h].index) + crashes + 0
        BY <1>2, <1>8 DEF IInv, Ahead, q, m
      <4>3. Len(node'[h].index) = Len(node[h].index) /\ Len(node'[h].data) = m + 1
        BY <1>2, <1>4, <1>5
      <4>4. \A a, b, c \in Nat : b <= a + c + 0 => b + 1 <= a + c + 1
        OBVIOUS
      <4>5. Len(node[h].index) < IndexCap => m + 1 <= Len(node[h].index) + crashes + 1
        BY <1>4, <1>8, <4>2, <4>4, Zenon
      <4>6. Len(node[h].index) <= m + 1
        BY <1>4, <1>8
      <4> QED
        BY <3>1, <4>1, <4>3, <4>5, <4>6
    <3>2. CASE n # h
      <4>1. Waiting(n)' = 0 /\ Waiting(n) = 0
        BY <1>1, <1>6, <3>2 DEF Waiting
      <4> QED
        BY <1>5, <3>2, <4>1 DEF IInv, Ahead
    <3> QED
      BY <3>1, <3>2
  <2> QED
    BY <1>1, <1>5, <2>1 DEF Ahead
<1>13. Paired'
  <2>1. ASSUME NEW n \in DOMAIN node, NEW k \in DOMAIN node[n].index
        PROVE  \E d \in 0 .. crashes : /\ k + d \in DOMAIN node'[n].data
                                       /\ node[n].index[k] = node'[n].data[k + d]
    <3>1. PICK d \in 0 .. crashes : /\ k + d \in DOMAIN node[n].data
                                    /\ node[n].index[k] = node[n].data[k + d]
      BY DEF IInv, Paired
    <3>2. CASE n = h
      <4>1. k + d \in 1 .. m /\ node[h].index[k] = q[k + d]
        BY <1>4, <3>1, <3>2 DEF q
      <4>2. k + d \in 1 .. m + 1 /\ Append(q, Current)[k + d] = q[k + d]
        BY <1>4, <4>1
      <4> QED
        BY <1>4, <1>5, <3>2, <4>1, <4>2
    <3>3. CASE n # h
      BY <1>5, <3>1, <3>3
    <3> QED
      BY <3>2, <3>3
  <2>2. \A n \in DOMAIN node : node'[n].index = node[n].index
    BY <1>5, Zenon
  <2>3. DOMAIN node' = DOMAIN node /\ crashes' = crashes
    BY <1>1, <1>5
  <2>4. ASSUME NEW n \in DOMAIN node', NEW k \in DOMAIN node'[n].index
        PROVE  \E d \in 0 .. crashes' : /\ k + d \in DOMAIN node'[n].data
                                        /\ node'[n].index[k] = node'[n].data[k + d]
    <3>1. n \in DOMAIN node /\ k \in DOMAIN node[n].index
      BY <2>2, <2>3, <2>4
    <3>2. PICK d \in 0 .. crashes : k + d \in DOMAIN node'[n].data /\ node[n].index[k] = node'[n].data[k + d]
      BY <2>1, <3>1
    <3> QED
      BY <2>2, <2>3, <3>1, <3>2
  <2> QED
    BY <2>4 DEF Paired
<1>14. NodesSorted' /\ StoredOnce'
  BY <1>1, <1>5 DEF IInv, NodesSorted, StoredOnce
<1> QED
  BY <1>7, <1>9, <1>10, <1>11, <1>12, <1>13, <1>14 DEF IInv

(* The timestamp is written to the index of the same node. *)
LEMMA IndexWritten ==
    ASSUME IInv, WriteIndex, Len(node[Hd].index) < IndexCap
    PROVE  IInv'
<1> USE TimeSeriesAssumption
<1> DEFINE h == Hd
           q == node[h].index
           m == Len(q)
           p == Append(q, Current)
           e == Len(node[h].data)
<1>0. /\ pc = "index" /\ pc' = "idle" /\ UNCHANGED <<stamp, last, list, tardy, crashes>>
  BY DEF WriteIndex, bounds
<1>1. /\ list # <<>> /\ m < e /\ node[h].data[e] = Current
      /\ Pushing /\ stamp # <<>> /\ stamp[Current] <= last
      /\ Current \notin tardy => stamp[Current] = last
  BY <1>0 DEF IInv, AtHand, Pushing
<1>2. h \in DOMAIN node /\ node \in Seq(NodeDirs)
  BY <1>1, HeadIsNode DEF IInv, Types
<1>3. /\ q \in Seq(Nat) /\ node[h] \in NodeDirs /\ Waiting(h) = 1
      /\ e \in Nat /\ DOMAIN node[h].data = 1 .. e /\ m \in Nat
  BY <1>0, <1>2, NodeFacts DEF IInv, Waiting
<1>4. node' = [node EXCEPT ![h].index = p]
  BY <1>3 DEF WriteIndex
<1>7. /\ Len(stamp) \in Nat /\ Current = Len(stamp) /\ Current \in Nat
      /\ Current \in 1 .. Len(stamp)
      /\ \A i \in 1 .. Len(stamp) : stamp[i] \in Nat
  <2>1. stamp \in Seq(Nat) /\ stamp # <<>>
    BY <1>1 DEF IInv, Types
  <2> QED
    BY <2>1, SeqFacts, EmptySeq DEF Current
<1>9. InTime(h) => \A k \in DOMAIN q : stamp[q[k]] <= last
  BY <1>1 DEF IInv, HeadBehind
<1>a. e <= m + crashes + 1 /\ crashes \in Nat
  BY <1>2, <1>3 DEF IInv, Ahead, Types
<1>b. \A k \in DOMAIN q : \E d \in 0 .. crashes :
         k + d \in DOMAIN node[h].data /\ q[k] = node[h].data[k + d]
  BY <1>2 DEF IInv, Paired
<1>c. InTime(h) => \A j, k \in DOMAIN q : j < k => stamp[q[j]] <= stamp[q[k]]
  BY <1>2 DEF IInv, NodesSorted, InTime
<1>d. Hd' = h /\ Hd = h
  BY <1>0 DEF Hd
<1>e. p = Append(q, Current) /\ q = node[h].index
  OBVIOUS
<1> HIDE DEF h, q, m, p, e
<1>f. /\ p \in Seq(Nat) /\ DOMAIN q = 1 .. m
      /\ Len(p) = m + 1 /\ DOMAIN p = 1 .. m + 1
      /\ p[m + 1] = Current
      /\ \A i \in 1 .. m : p[i] = q[i]
  <2>1. m = Len(q) /\ q \in Seq(Nat) /\ Current \in Nat /\ p = Append(q, Current)
    BY <1>3, <1>7, <1>e DEF m
  <2> QED
    BY ONLY <2>1, AppendFacts
<1>5. /\ DOMAIN node' = DOMAIN node /\ node' \in Seq(NodeDirs) /\ Len(node') = Len(node)
      /\ \A n \in DOMAIN node : node'[n].data = node[n].data
      /\ \A n \in DOMAIN node : n # h => node'[n].index = node[n].index
      /\ node'[h].index = p
  <2> DEFINE r == [node[h] EXCEPT !.index = p]
  <2>1. r \in NodeDirs /\ r.index = p /\ r.data = node[h].data
    BY <1>3, <1>f DEF NodeDirs
  <2>2. node' = [node EXCEPT ![h] = r]
    BY <1>2, <1>4
  <2> HIDE DEF r
  <2>3. /\ node' \in Seq(NodeDirs) /\ Len(node') = Len(node) /\ DOMAIN node' = DOMAIN node
        /\ node'[h] = r /\ \A n \in DOMAIN node : n # h => node'[n] = node[n]
    BY <1>2, <2>1, <2>2, ReplaceFacts
  <2> QED
    BY <2>1, <2>3
<1>6. \A k \in 1 .. m + 1 : k \in 1 .. m \/ k = m + 1
  BY <1>3
<1>8. \A n \in DOMAIN node : \A k \in DOMAIN node[n].index :
         node[n].index[k] \in 1 .. Len(stamp) /\ node[n].index[k] # Current
  BY <1>1, <1>7 DEF IInv, Indexed
<1>10. Types'
  BY <1>0, <1>5 DEF IInv, Types
<1>11. AtHand'
  BY <1>0 DEF AtHand, Pushing
<1>12. Indexed'
  <2>1. ASSUME NEW n \in DOMAIN node, NEW k \in DOMAIN node'[n].index
        PROVE  node'[n].index[k] \in 1 .. Len(stamp)
    <3>1. CASE n = h
      <4>1. k \in 1 .. m + 1
        BY <1>f, <1>5, <2>1, <3>1
      <4>2. k \in 1 .. m => p[k] = q[k] /\ q[k] \in 1 .. Len(stamp)
        BY <1>2, <1>f, <1>8 DEF q
      <4> QED
        BY <1>f, <1>5, <1>6, <1>7, <3>1, <4>1, <4>2
    <3>2. CASE n # h
      BY <1>5, <1>8, <3>2
    <3> QED
      BY <3>1, <3>2
  <2> QED
    BY <1>0, <1>5, <2>1 DEF Indexed, Pushing
<1>g. (\A k \in 1 .. m + 1 : p[k] \notin tardy) => InTime(h) /\ Current \notin tardy
  <2>1. \A k \in 1 .. m : k \in 1 .. m + 1
    BY <1>3
  <2>2. m + 1 \in 1 .. m + 1
    BY <1>3
  <2> QED
    BY <1>f, <2>1, <2>2 DEF InTime, q
<1>h. node'[h].index = p /\ DOMAIN node'[h].index = 1 .. m + 1
  BY <1>5, <1>f
<1>13. HeadBehind'
  <2>1. ASSUME InTime(h), NEW k \in 1 .. m + 1 PROVE stamp[p[k]] <= last
    <3>1. last \in Nat
      BY DEF IInv, Types
    <3>2. CASE k \in 1 .. m
      BY <1>9, <1>f, <2>1, <3>2
    <3>3. CASE k = m + 1
      BY <1>1, <1>f, <3>3
    <3> QED
      BY <1>6, <3>2, <3>3
  <2> QED
    BY <1>0, <1>g, <1>d, <1>h, <2>1 DEF HeadBehind, InTime
<1>14. Ahead'
  <2>1. ASSUME NEW n \in DOMAIN node
        PROVE  /\ Len(node'[n].index) <= Len(node[n].data)
               /\ Len(node'[n].index) < IndexCap =>
                    Len(node[n].data) <= Len(node'[n].index) + crashes + 0
    <3>1. CASE n = h
      <4>1. Len(node'[h].index) = m + 1
        BY <1>f, <1>5
      <4>2. m + 1 <= e /\ e <= (m + 1) + crashes + 0
        BY <1>1, <1>3, <1>a
      <4> QED
        BY <3>1, <4>1, <4>2 DEF e
    <3>2. CASE n # h
      <4>1. Waiting(n) = 0
        BY <1>d, <3>2 DEF Waiting
      <4> QED
        BY <1>5, <3>2, <4>1 DEF IInv, Ahead
    <3> QED
      BY <3>1, <3>2
  <2>2. \A n : Waiting(n)' = 0
    BY <1>0 DEF Waiting
  <2> QED
    BY <1>0, <1>5, <2>1, <2>2 DEF Ahead
<1>15. Paired'
  <2>1. ASSUME NEW n \in DOMAIN node, NEW k \in DOMAIN node'[n].index
        PROVE  \E d \in 0 .. crashes : /\ k + d \in DOMAIN node[n].data
                                       /\ node'[n].index[k] = node[n].data[k + d]
    <3>1. CASE n = h
      <4>1. k \in 1 .. m + 1
        BY <1>f, <1>5, <2>1, <3>1
      <4>2. CASE k \in 1 .. m
        <5>1. node'[n].index[k] = q[k]
          BY <1>5, <1>f, <3>1, <4>2
        <5> QED
          BY <1>b, <1>f, <3>1, <4>2, <5>1
      <4>3. CASE k = m + 1
        <5>1. e - k \in 0 .. crashes /\ k + (e - k) = e /\ e \in 1 .. e
          BY <1>1, <1>3, <1>a, <4>3
        <5>2. node'[h].index[k] = Current
          BY <1>5, <1>f, <4>3
        <5>3. k + (e - k) \in DOMAIN node[h].data /\ node'[h].index[k] = node[h].data[k + (e - k)]
          BY <1>1, <1>3, <5>1, <5>2
        <5> QED
          BY <3>1, <5>1, <5>3
      <4> QED
        BY <1>6, <4>1, <4>2, <4>3
    <3>2. CASE n # h
      BY <1>5, <3>2 DEF IInv, Paired
    <3> QED
      BY <3>1, <3>2
  <2> QED
    BY <1>0, <1>5, <2>1 DEF Paired
<1>16. NodesSorted'
  <2>1. ASSUME \A i \in 1 .. m + 1 : p[i] \notin tardy,
               NEW j \in 1 .. m + 1, NEW k \in 1 .. m + 1, j < k
        PROVE  stamp[p[j]] <= stamp[p[k]]
    <3>1. j \in 1 .. m
      BY <1>3, <2>1
    <3>2. CASE k \in 1 .. m
      BY <1>f, <1>g, <1>c, <2>1, <3>1, <3>2
    <3>3. CASE k = m + 1
      BY <1>1, <1>f, <1>g, <1>9, <2>1, <3>1, <3>3
    <3> QED
      BY <1>6, <3>2, <3>3
  <2>2. ASSUME NEW n \in DOMAIN node,
               \A i \in DOMAIN node'[n].index : node'[n].index[i] \notin tardy,
               NEW j \in DOMAIN node'[n].index, NEW k \in DOMAIN node'[n].index, j < k
        PROVE  stamp[node'[n].index[j]] <= stamp[node'[n].index[k]]
    <3>1. CASE n = h
      BY <1>h, <2>1, <2>2, <3>1
    <3>2. CASE n # h
      BY <1>5, <2>2, <3>2 DEF IInv, NodesSorted
    <3> QED
      BY <3>1, <3>2
  <2> QED
    BY <1>0, <1>5, <2>2 DEF NodesSorted
<1>17. StoredOnce'
  <2>1. ASSUME NEW n \in DOMAIN node, NEW k \in DOMAIN node'[n].index
        PROVE  \/ /\ k \in DOMAIN node[n].index /\ node'[n].index[k] = node[n].index[k]
                  /\ node'[n].index[k] # Current
               \/ n = h /\ k = m + 1 /\ node'[n].index[k] = Current
    <3>1. CASE n = h
      <4>1. k \in 1 .. m + 1
        BY <1>f, <1>5, <2>1, <3>1
      <4>2. k \in 1 .. m => k \in DOMAIN node[h].index /\ p[k] = node[h].index[k] /\ p[k] # Current
        BY <1>2, <1>f, <1>8 DEF q
      <4> QED
        BY <1>f, <1>5, <1>6, <3>1, <4>1, <4>2
    <3>2. CASE n # h
      BY <1>5, <1>8, <2>1, <3>2
    <3> QED
      BY <3>1, <3>2
  <2>2. ASSUME NEW a \in DOMAIN node, NEW b \in DOMAIN node,
               NEW j \in DOMAIN node'[a].index, NEW k \in DOMAIN node'[b].index,
               node'[a].index[j] = node'[b].index[k]
        PROVE  a = b /\ j = k
    <3>1. CASE node'[a].index[j] = Current
      BY <2>1, <2>2, <3>1
    <3>2. CASE node'[a].index[j] # Current
      BY <2>1, <2>2, <3>2 DEF IInv, StoredOnce
    <3> QED
      BY <3>1, <3>2
  <2> QED
    BY <1>0, <1>5, <2>2 DEF StoredOnce
<1> QED
  BY <1>10, <1>11, <1>12, <1>13, <1>14, <1>15, <1>16, <1>17 DEF IInv

(* The index is full: the value stays without a timestamp, in a node that gets no
   more of them. *)
LEMMA IndexFull ==
    ASSUME IInv, WriteIndex, ~(Len(node[Hd].index) < IndexCap)
    PROVE  IInv'
<1> USE TimeSeriesAssumption
<1>0. pc = "index" /\ pc' = "idle" /\ UNCHANGED <<stamp, last, node, list, tardy, crashes>>
  BY DEF WriteIndex, bounds
<1>1. Types'
  BY <1>0 DEF IInv, Types
<1>2. AtHand' /\ Indexed' /\ HeadBehind'
  BY <1>0 DEF IInv, AtHand, Indexed, HeadBehind, InTime, Pushing, Hd
<1>3. Ahead'
  <2>1. ASSUME NEW n \in DOMAIN node
        PROVE  /\ Len(node[n].index) <= Len(node[n].data)
               /\ Len(node[n].index) < IndexCap =>
                    Len(node[n].data) <= Len(node[n].index) + crashes + 0
    <3>1. CASE n = Hd
      BY <3>1 DEF IInv, Ahead
    <3>2. CASE n # Hd
      <4>1. Waiting(n) = 0
        BY <3>2 DEF Waiting
      <4> QED
        BY <4>1 DEF IInv, Ahead
    <3> QED
      BY <3>1, <3>2
  <2>2. \A n : Waiting(n)' = 0
    BY <1>0 DEF Waiting
  <2> QED
    BY <1>0, <2>1, <2>2 DEF Ahead
<1>4. Paired' /\ NodesSorted' /\ StoredOnce'
  BY <1>0, SameLogs DEF IInv, Types
<1> QED
  BY <1>1, <1>2, <1>3, <1>4 DEF IInv

-----------------------------------------------------------------------------
LEMMA IInvStep == IInv /\ [Next]_vars => IInv'
<1> SUFFICES ASSUME IInv, [Next]_vars PROVE IInv'
  OBVIOUS
<1>1. CASE WriteIndex
  BY <1>1, IndexWritten, IndexFull
<1>2. CASE Push
  BY <1>1, <1>2, WriteDataStep, OverflowStep, MakeIndexStep, StageStep, LinkStep, CrashStep DEF Push, Fault
<1>3. CASE Take \/ Crash \/ Reopen
  BY <1>3, TakeStep, CrashStep, ReopenStep DEF Crash
<1>4. CASE UNCHANGED vars
  <2>1. UNCHANGED <<stamp, last, node, list, pc, tardy, crashes>>
    BY <1>4 DEF vars, history, bounds
  <2>2. Types' /\ AtHand' /\ Indexed' /\ HeadBehind'
    BY <2>1 DEF IInv, Types, AtHand, Indexed, HeadBehind, InTime, Pushing, Current, Hd
  <2>3. Ahead'
    BY <2>1 DEF IInv, Ahead, Waiting, Hd
  <2>4. Paired' /\ NodesSorted' /\ StoredOnce'
    BY <2>1, SameLogs DEF IInv, Types
  <2> QED
    BY <2>2, <2>3, <2>4 DEF IInv
<1> QED
  BY <1>2, <1>3, <1>4 DEF Next

LEMMA Invariance == Spec => []IInv
BY InitIInv, IInvStep, PTL DEF Spec

(* Through any number of crashes, between any two steps of push_buf and of
   TimeSeriesNode::create, the value of an index entry is in the data log of its
   node, displaced by no more places than there were crashes, unless the node's
   creation ended before its header: for every size of the logs. *)
THEOREM ValuesAligned == Spec => []Aligned
<1>1. IInv => Aligned
  BY DEF IInv, Paired, Aligned
<1> QED
  BY <1>1, Invariance, PTL

(* An index without late records is sorted by time, on which binary_search rests,
   also when TimeSeries::open makes an old node the head and last_timestamp goes
   back, and whatever other nodes hold. *)
THEOREM IndexesSorted == Spec => []NodesSorted
<1>1. IInv => NodesSorted
  BY DEF IInv
<1> QED
  BY <1>1, Invariance, PTL

(* The retry of push_buf after an overflow, a node that was not linked, a crash
   or a restart never index a record twice. *)
THEOREM IndexedOnce == Spec => []StoredOnce
<1>1. IInv => StoredOnce
  BY DEF IInv
<1> QED
  BY <1>1, Invariance, PTL

-----------------------------------------------------------------------------
(* latest() is read from the index of the head. *)
LEMMA LatestKept ==
    ASSUME list' = list, list # <<>> => node'[Hd].index = node[Hd].index
    PROVE  Latest' = Latest
BY DEF Latest, LatestIn, Hd

LEMMA InitNewest == Init => Newest
<1> SUFFICES ASSUME Init PROVE Newest
  OBVIOUS
<1>1. dataCap \in DataCaps /\ Len(stamp) = 0 /\ failed = {} /\ pc = "idle" /\ Latest = 0
  BY DEF Init, Latest, LatestIn
<1>2. IsNewest(Latest, (1 .. Len(stamp)) \ failed)
  BY <1>1 DEF IsNewest
<1> QED
  BY <1>1, <1>2 DEF Newest, Pushing

LEMMA NewestTake ==
    ASSUME IInv, Newest, Take
    PROVE  Newest'
<1>1. /\ pc = "idle" /\ pc' = "push" /\ UNCHANGED <<node, list, dataCap, crashes, failed>>
      /\ \E t \in Times : stamp' = Append(stamp, t)
  BY DEF Take, history, bounds
<1>2. Len(stamp) \in Nat /\ Len(stamp') = Len(stamp) + 1
  <2>1. Times \subseteq Nat
    BY TimeSeriesAssumption DEF Times
  <2> QED
    BY <1>1, <2>1, AppendFacts DEF IInv, Types
<1>3. Latest' = Latest
  BY <1>1, LatestKept
<1>4. Current' - 1 = Len(stamp) /\ Current' \notin failed
  BY <1>2 DEF Current, Newest
<1>5. failed \in SUBSET (1 .. Len(stamp'))
  BY <1>2 DEF Newest
<1> QED
  BY <1>1, <1>3, <1>4, <1>5 DEF Newest, Pushing

(* A step of a push that leaves the record in hand, and latest() as it is. *)
LEMMA NewestPushing ==
    ASSUME IInv, Newest, Pushing, Pushing', UNCHANGED <<stamp, dataCap, crashes, failed>>,
           Fresh => Fresh', Latest' = Latest
    PROVE  Newest'
<1>1. Current' = Current
  BY DEF Current
<1> QED
  BY <1>1 DEF Newest, Pushing

LEMMA NewestWriteData ==
    ASSUME IInv, Newest, WriteData
    PROVE  Newest'
<1>1. /\ pc = "push" /\ list # <<>> /\ pc' \in {"index", "gone"}
      /\ node' = [node EXCEPT ![Hd].data = Append(@, Current),
                              ![Hd].stage = IF @ = "unset" THEN "over" ELSE @]
      /\ UNCHANGED <<stamp, list, dataCap, crashes, failed>>
  BY DEF WriteData, history, bounds
<1>2. Hd \in DOMAIN node
  BY <1>1, HeadIsNode DEF IInv
<1>3. node'[Hd].index = node[Hd].index
  BY <1>1, <1>2, NodeFacts DEF IInv, NodeDirs
<1>4. Latest' = Latest
  BY <1>1, <1>3, LatestKept
<1>5. CASE pc' = "index"
  <2>1. Fresh => Fresh'
    BY <1>1, <1>3, <1>5 DEF Fresh, Hd
  <2> QED
    BY <1>1, <1>4, <1>5, <2>1, NewestPushing DEF Pushing
<1>6. CASE pc' = "gone"
  BY <1>1, <1>6 DEF Newest, Pushing
<1> QED
  BY <1>1, <1>5, <1>6

(* A new node is not full. *)
LEMMA NewestOverflow ==
    ASSUME IInv, Newest, Overflow
    PROVE  Newest'
<1>1. pc = "push" /\ pc' = "make_index" /\ UNCHANGED <<stamp, node, list, dataCap, crashes, failed>>
  BY DEF Overflow, history, bounds
<1>2. Latest' = Latest
  BY <1>1, LatestKept
<1>3. ~Fresh
  <2>1. list # <<>> => Room(Hd) \in Nat /\ Room(Hd) > 0
    BY TimeSeriesAssumption DEF Newest, Room
  <2> QED
    BY <2>1 DEF Overflow, NoRoom, Fresh
<1> QED
  BY <1>1, <1>2, <1>3, NewestPushing DEF Pushing


LEMMA NewestMakeIndex ==
    ASSUME IInv, Newest, MakeIndex
    PROVE  Newest'
<1>1. pc = "make_index" /\ UNCHANGED <<stamp, list, dataCap, crashes>>
  BY DEF MakeIndex, bounds
<1>2. ~Fresh /\ Pushing
  BY <1>1 DEF Fresh, Pushing
<1>3. CASE failed' = failed \cup {Current} /\ pc' = "idle" /\ UNCHANGED node
  <2>1. Latest' = Latest
    BY <1>1, <1>3, LatestKept
  <2>2. Len(stamp) \in Nat /\ Len(stamp) # 0 /\ Current = Len(stamp)
    BY <1>2, SeqFacts, EmptySeq DEF IInv, AtHand, Types, Current
  <2>3. (1 .. Len(stamp)) \ (failed \cup {Current}) = (1 .. Current - 1) \ failed
    BY <2>2
  <2>4. failed \cup {Current} \in SUBSET (1 .. Len(stamp))
    <3>1. failed \in SUBSET (1 .. Len(stamp))
      BY DEF Newest
    <3>2. Current \in 1 .. Len(stamp)
      BY <2>2
    <3> QED
      BY <3>1, <3>2
  <2> QED
    BY <1>1, <1>2, <1>3, <2>1, <2>3, <2>4 DEF Newest, Pushing
<1>4. CASE /\ failed' = failed /\ pc' = "make_data"
           /\ node' = Append(node, [dir |-> stamp[Current], stage |-> "index",
                                   data |-> <<>>, index |-> <<>>])
  <2>1. ASSUME list # <<>> PROVE node'[Hd] = node[Hd]
    <3>1. Hd \in DOMAIN node
      BY <2>1, HeadIsNode DEF IInv
    <3>2. DOMAIN node = 1 .. Len(node) /\ Len(node) \in Nat
      BY SeqFacts DEF IInv, Types
    <3> QED
      BY <1>4, <3>1, <3>2 DEF IInv, Types
  <2>2. Latest' = Latest
    BY <1>1, <2>1, LatestKept
  <2> QED
    BY <1>1, <1>2, <1>4, <2>2, NewestPushing DEF Pushing
<1> QED
  BY <1>3, <1>4 DEF MakeIndex

LEMMA NewestStage ==
    ASSUME IInv, Newest, MakeData \/ ExtendData \/ WriteHeader
    PROVE  Newest'
<1>1. /\ pc \in {"make_data", "extend", "header"} /\ pc' \in {"extend", "header", "link"}
      /\ \E g \in {"empty", "unset", "ready"} : node' = [node EXCEPT ![Len(node)].stage = g]
      /\ UNCHANGED <<stamp, list, dataCap, crashes, failed>>
  BY DEF MakeData, ExtendData, WriteHeader, history, bounds
<1>2. ~Fresh /\ Pushing /\ Pushing'
  BY <1>1 DEF Fresh, Pushing
<1>3. ASSUME list # <<>> PROVE node'[Hd].index = node[Hd].index
  <2>1. Hd \in DOMAIN node
    BY <1>3, HeadIsNode DEF IInv
  <2> QED
    BY <1>1, <2>1, NodeFacts DEF IInv, NodeDirs
<1>4. Latest' = Latest
  BY <1>1, <1>3, LatestKept
<1> QED
  BY <1>1, <1>2, <1>4, NewestPushing

(* A node is linked without values: no crash has left one behind. *)
LEMMA NewestLink ==
    ASSUME IInv, Newest, Link
    PROVE  Newest'
<1>1. pc = "link" /\ pc' = "push" /\ UNCHANGED <<stamp, node, dataCap, crashes, failed>>
  BY DEF Link, history, bounds
<1>2. ~Fresh /\ Pushing /\ Pushing'
  BY <1>1 DEF Fresh, Pushing
<1>3. CASE UNCHANGED list
  <2>1. Latest' = Latest
    BY <1>1, <1>3, LatestKept
  <2> QED
    BY <1>1, <1>2, <2>1, NewestPushing
<1>4. CASE list' = <<Len(node)>> \o list
  <2>1. node # <<>> /\ node[Len(node)].index = <<>>
    BY <1>1 DEF IInv, AtHand
  <2>2. Len(node) \in DOMAIN node
    BY <2>1, SeqFacts, EmptySeq DEF IInv, Types
  <2>3. list' # <<>> /\ Hd' = Len(node)
    BY <1>4, <2>2, SeqFacts DEF Hd, IInv, Types
  <2>4. ASSUME crashes = 0 PROVE node[Len(node)].data = <<>>
    <3> DEFINE d == node[Len(node)]
    <3>1. Len(d.index) = 0 /\ Waiting(Len(node)) = 0
      BY <1>1, <2>1 DEF Waiting
    <3>2. IndexCap \in Nat /\ IndexCap > 0
      BY TimeSeriesAssumption
    <3>3. Len(d.data) <= Len(d.index) + crashes + Waiting(Len(node))
      BY <2>2, <3>1, <3>2 DEF IInv, Ahead
    <3>4. d.data \in Seq(Nat) /\ Len(d.data) \in Nat
      BY <2>2, NodeFacts DEF IInv
    <3> HIDE DEF d
    <3>5. Len(d.data) = 0
      BY <2>4, <3>1, <3>3, <3>4
    <3> QED
      BY <3>4, <3>5, EmptySeq DEF d
  <2>5. crashes = 0 => Fresh'
    BY <1>1, <2>1, <2>3, <2>4 DEF Fresh
  <2>6. Current' = Current
    BY <1>1 DEF Current
  <2> QED
    BY <1>1, <1>2, <2>5, <2>6 DEF Newest, Pushing
<1> QED
  BY <1>3, <1>4 DEF Link

(* The index takes the record, which is then the newest; when it is full the
   head was not a new node, and the record has failed. *)
LEMMA NewestWriteIndex ==
    ASSUME IInv, Newest, WriteIndex
    PROVE  Newest'
<1>1. pc = "index" /\ pc' = "idle" /\ UNCHANGED <<stamp, list, dataCap, crashes>>
  BY DEF WriteIndex, bounds
<1>2. Pushing
  BY <1>1 DEF Pushing
<1>3. list # <<>> /\ Hd \in DOMAIN node
  BY <1>1, HeadIsNode DEF IInv, AtHand
<1>4. Len(stamp) \in Nat /\ Len(stamp) # 0 /\ Current = Len(stamp)
  BY <1>2, SeqFacts, EmptySeq DEF IInv, AtHand, Types, Current
<1>5. node[Hd].index \in Seq(Nat)
  BY <1>3, NodeFacts DEF IInv
<1>6. CASE node' = [node EXCEPT ![Hd].index = Append(@, Current)] /\ failed' = failed
  <2>1. node'[Hd].index = Append(node[Hd].index, Current)
    BY <1>3, <1>6, NodeFacts DEF IInv, NodeDirs
  <2>2. Latest' = Current
    <3> DEFINE q == Append(node[Hd].index, Current)
    <3>1. Len(q) = Len(node[Hd].index) + 1 /\ q[Len(node[Hd].index) + 1] = Current /\ q \in Seq(Nat)
      BY <1>4, <1>5, AppendFacts
    <3>2. q # <<>> /\ Last(q) = Current
      BY <1>5, <3>1, SeqFacts, EmptySeq DEF Last
    <3> HIDE DEF q
    <3>3. node'[Head(list')].index = q /\ list' # <<>>
      BY <1>1, <1>3, <2>1 DEF Hd, q
    <3> QED
      BY <3>2, <3>3 DEF Latest, LatestIn
  <2>3. crashes = 0 => IsNewest(Current, (1 .. Len(stamp)) \ failed)
    BY <1>2, <1>4 DEF Newest, IsNewest
  <2> QED
    BY <1>1, <1>2, <1>6, <2>2, <2>3 DEF Newest, Pushing
<1>7. CASE /\ Len(node[Hd].index) >= IndexCap
           /\ failed' = failed \cup {Current} /\ UNCHANGED node
  <2>1. ~Fresh
    <3>1. IndexCap \in Nat /\ IndexCap > 0
      BY TimeSeriesAssumption
    <3>2. Len(node[Hd].index) # 0
      BY <1>5, <1>7, <3>1, SeqFacts
    <3> QED
      BY <3>2 DEF Fresh
  <2>2. Latest' = Latest
    BY <1>1, <1>7, LatestKept
  <2>3. (1 .. Len(stamp)) \ (failed \cup {Current}) = (1 .. Current - 1) \ failed
    BY <1>4
  <2>4. failed \cup {Current} \in SUBSET (1 .. Len(stamp))
    <3>1. failed \in SUBSET (1 .. Len(stamp))
      BY DEF Newest
    <3>2. Current \in 1 .. Len(stamp)
      BY <1>4
    <3> QED
      BY <3>1, <3>2
  <2> QED
    BY <1>1, <1>2, <1>7, <2>1, <2>2, <2>3, <2>4 DEF Newest, Pushing
<1> QED
  BY <1>6, <1>7 DEF WriteIndex

LEMMA NewestStep == IInv /\ Newest /\ [Next]_vars => Newest'
<1> SUFFICES ASSUME IInv, Newest, [Next]_vars PROVE Newest'
  OBVIOUS
<1>1. CASE Take
  BY <1>1, NewestTake
<1>2. CASE Push /\ ~Fault
  BY <1>2, NewestWriteData, NewestOverflow, NewestWriteIndex, NewestMakeIndex, NewestStage,
     NewestLink DEF Push
<1>3. CASE Fault \/ Crash
  <2>1. crashes' # 0 /\ pc' = "down" /\ UNCHANGED <<stamp, dataCap, failed>>
    BY <1>3 DEF Fault, Crash, Die, IInv, Types
  <2> QED
    BY <2>1 DEF Newest
<1>4. CASE Reopen
  <2>1. crashes' # 0 /\ pc' = "idle" /\ UNCHANGED <<stamp, dataCap, failed>>
    BY <1>4 DEF Reopen, Newest, history, bounds
  <2> QED
    BY <2>1 DEF Newest
<1>5. CASE UNCHANGED vars
  <2>1. UNCHANGED <<stamp, node, list, pc, dataCap, crashes, failed>>
    BY <1>5 DEF vars, history, bounds
  <2>2. Latest' = Latest
    BY <2>1, LatestKept
  <2>3. Fresh' <=> Fresh
    BY <2>1 DEF Fresh, Hd
  <2> QED
    BY <2>1, <2>2, <2>3 DEF Newest, Pushing, Current
<1> QED
  BY <1>1, <1>2, <1>3, <1>4, <1>5 DEF Next

(* Until a restart, for every size of the logs and although a new node may fail
   to be made or to be linked, latest() between two pushes is the last record
   whose push_buf did not end in an error. *)
THEOREM NewestFound == Spec => []LatestIsNewest
<1>1. Spec => []Newest
  BY InitNewest, NewestStep, Invariance, PTL DEF Spec
<1>2. IInv /\ Newest => LatestIsNewest
  <2> SUFFICES ASSUME IInv, Newest, crashes = 0, pc = "idle"
               PROVE  Latest = Max({0} \cup (DOMAIN stamp \ failed))
    BY DEF LatestIsNewest
  <2> DEFINE G == DOMAIN stamp \ failed
  <2>1. G \subseteq Nat /\ IsNewest(Latest, G)
    <3>1. DOMAIN stamp = 1 .. Len(stamp)
      BY SeqFacts DEF IInv, Types
    <3>2. IsNewest(Latest, (1 .. Len(stamp)) \ failed)
      BY DEF Newest
    <3> QED
      BY <3>1, <3>2
  <2> HIDE DEF G
  <2>2. Latest \in {0} \cup G /\ \A y \in {0} \cup G : Latest >= y
    BY <2>1 DEF IsNewest
  <2>3. \A x \in {0} \cup G : (\A y \in {0} \cup G : x >= y) => x = Latest
    BY <2>1, <2>2
  <2>4. Max({0} \cup G) = Latest
    BY <2>2, <2>3 DEF Max
  <2> QED
    BY <2>4 DEF G
<1> QED
  BY <1>1, <1>2, Invariance, PTL

-----------------------------------------------------------------------------
(* Range queries. *)

Stamps == Seq(Nat)
Refs == [node : Nat, index : Nat]

(* Samples are stored in the order of their timestamps. *)
Increasing(ns) ==
    \A m, n \in DOMAIN ns : \A i \in DOMAIN ns[m], j \in DOMAIN ns[n] :
        m < n \/ (m = n /\ i < j) => ns[m][i] < ns[n][j]

QueryTypes ==
    /\ nodes \in Seq(Stamps) /\ Increasing(nodes) /\ asked \in Seq(Stamps)
    /\ at \in {"idle", "start", "end", "measure", "copy", "done", "error", "panic"}
    /\ lo \in Nat /\ hi \in Nat /\ lo <= hi /\ late \in Nat
    /\ limit \in SUBSET Nat /\ \A k, l \in limit : k = l

(* What the query was asked about is still there, and nothing else unless
   something was stored since. *)
Remains ==
    /\ Len(nodes) >= 1 /\ Len(asked[1]) <= Len(nodes[1])
    /\ \A j \in DOMAIN asked[1] : nodes[1][j] = asked[1][j]
    /\ late = 0 => nodes = asked

(* The start is at or before every sample that is not below the range, and at
   the first of them if nothing was stored since; likewise the end. *)
StartFits ==
    /\ start \in Refs
    /\ \A j \in DOMAIN asked[1] : asked[1][j] >= lo => start.node = 1 /\ start.index < j
    /\ late = 0 =>
        /\ start.node = 1 /\ start.index <= Len(asked[1])
        /\ \A j \in DOMAIN asked[1] : start.index < j => asked[1][j] >= lo
EndFits ==
    /\ end \in Refs
    /\ end.node = 1 => \A j \in DOMAIN asked[1] : asked[1][j] <= hi => j <= end.index + 1
    /\ late = 0 /\ hi >= asked[1][1] =>
        /\ end.node = 1 /\ end.index < Len(asked[1])
        /\ \A j \in DOMAIN asked[1] : j <= end.index + 1 => asked[1][j] <= hi
SizeFits ==
    start.node = 1 => size \in Nat /\ (late = 0 => size = Len(SliceOf(1).ts))

QueryIInv ==
    /\ QueryTypes
    /\ at # "idle" /\ Len(asked) = 1 =>
        /\ Remains
        /\ at \in {"end", "measure", "copy"} => StartFits
        /\ at \in {"measure", "copy"} => EndFits
        /\ at = "copy" => SizeFits
        /\ at = "done" => AnswerExact /\ NothingMissedInNode

(* A set of naturals that is not empty has a smallest element. *)
LEMMA SmallestExists ==
    ASSUME NEW S \in SUBSET Nat, S # {}
    PROVE  Min(S) \in S /\ \A e \in S : Min(S) <= e
<1> DEFINE R == OpToRel(<, Nat)
<1>1. IsWellFoundedOn(R, Nat)
  BY NatLessThanWellFounded
<1>2. PICK d \in S : \A e \in S : ~(<<e, d>> \in R)
  <2> HIDE DEF R
  <2> QED
    BY <1>1, WFMin
<1>3. \A e \in S : ~(e < d)
  BY <1>2 DEF OpToRel
<1>4. \A e \in S : d <= e
  BY <1>3
<1> QED
  BY <1>4 DEF Min

(* Induction up to N, for a set of numbers. *)
LEMMA Upward ==
    ASSUME NEW N \in Nat, NEW T, 0 \in T, \A n \in 0 .. N - 1 : n \in T => n + 1 \in T
    PROVE  \A n \in 0 .. N : n \in T
<1> DEFINE U == {n \in 0 .. N : n \notin T}
<1> SUFFICES ASSUME U # {} PROVE FALSE
  OBVIOUS
<1> DEFINE R == OpToRel(<, Nat)
<1>1. IsWellFoundedOn(R, Nat)
  BY NatLessThanWellFounded
<1>2. U \in SUBSET Nat
  OBVIOUS
<1>3. PICK d \in U : \A e \in U : ~(<<e, d>> \in R)
  <2> HIDE DEF R, U
  <2> QED
    BY <1>1, <1>2, WFMin
<1>4. \A e \in U : ~(e < d)
  BY <1>2, <1>3 DEF OpToRel
<1>5. d # 0 /\ d \in 0 .. N
  OBVIOUS
<1>6. d - 1 \in 0 .. N - 1 /\ d - 1 \notin U
  BY <1>4, <1>5
<1>7. d - 1 \in T
  BY <1>6
<1>8. d \in T
  BY <1>6, <1>7
<1> QED
  BY <1>8

LEMMA LargestExists ==
    ASSUME NEW N \in Nat, NEW S \in SUBSET (0 .. N), S # {}
    PROVE  Max(S) \in S /\ \A n \in S : n <= Max(S)
<1> DEFINE D == {N - n : n \in S}
<1>1. D \in SUBSET Nat
  <2>1. \A n \in S : N - n \in Nat
    OBVIOUS
  <2> QED
    BY <2>1
<1>1a. D # {}
  OBVIOUS
<1>2. Min(D) \in D /\ \A d \in D : Min(D) <= d
  BY <1>1, <1>1a, SmallestExists
<1>3. PICK m \in S : Min(D) = N - m
  BY <1>2
<1>4. \A n \in S : N - m <= N - n
  BY <1>2, <1>3
<1>5. \A n \in S : m >= n
  BY <1>4
<1> QED
  BY <1>5 DEF Max

(* A set of positions that has all before each of its own is as long as it has
   elements. *)
LEMMA Prefix ==
    ASSUME NEW N \in Nat, NEW D \in SUBSET (1 .. N),
           \A j \in D : \A i \in 1 .. N : i < j => i \in D
    PROVE  Cardinality(D) \in 0 .. N /\ D = 1 .. Cardinality(D)
<1>1. PICK b \in 0 .. N : D = 1 .. b
  <2>1. CASE D = {}
    BY <2>1
  <2>2. CASE D # {}
    <3>1. D \in SUBSET (0 .. N)
      OBVIOUS
    <3>2. Max(D) \in D /\ \A n \in D : n <= Max(D)
      BY <2>2, <3>1, LargestExists
    <3> DEFINE b == Max(D)
    <3> HIDE DEF b
    <3>3. b \in D /\ \A n \in D : n <= b
      BY <3>2 DEF b
    <3>4. b \in 1 .. N /\ \A n \in D : n \in 1 .. b
      BY <3>3
    <3>5. \A n \in 1 .. b : n \in D
      <4> TAKE n \in 1 .. b
      <4>1. n = b \/ (n \in 1 .. N /\ n < b)
        BY <3>4
      <4> QED
        BY <3>3, <4>1
    <3>6. D = 1 .. b
      BY <3>4, <3>5
    <3> QED
      BY <3>4, <3>6
  <2> QED
    BY <2>1, <2>2
<1>2. Cardinality(1 .. b) = b
  BY FS_Interval
<1> QED
  BY <1>1, <1>2

Ascending(ts) == \A i, j \in DOMAIN ts : i < j => ts[i] < ts[j]

LEMMA BelowFacts ==
    ASSUME NEW ts \in Stamps, Ascending(ts), NEW t \in Nat
    PROVE  /\ Below(ts, t) \in 0 .. Len(ts)
           /\ \A j \in DOMAIN ts : ts[j] < t <=> j <= Below(ts, t)
<1> DEFINE D == {j \in DOMAIN ts : ts[j] < t}
<1>1. Len(ts) \in Nat /\ DOMAIN ts = 1 .. Len(ts) /\ \A i \in DOMAIN ts : ts[i] \in Nat
  BY SeqFacts DEF Stamps
<1>2. D \in SUBSET (1 .. Len(ts)) /\ \A j \in D : \A i \in 1 .. Len(ts) : i < j => i \in D
  BY <1>1 DEF Ascending
<1> HIDE DEF D
<1>3. Cardinality(D) \in 0 .. Len(ts) /\ D = 1 .. Cardinality(D)
  BY <1>1, <1>2, Prefix
<1>4. Below(ts, t) = Cardinality(D)
  BY DEF Below, D
<1>5. \A j \in DOMAIN ts : ts[j] < t <=> j \in D
  BY DEF D
<1> QED
  BY <1>1, <1>3, <1>4, <1>5

(* From the first node's point of view: no sample of it that is not below t
   comes before the place r, or none that is not above t comes after; and with
   no other node, r is exactly there. *)
StartsAt(r, t) ==
    /\ \A j \in DOMAIN nodes[1] : nodes[1][j] >= t => r.node = 1 /\ r.index < j
    /\ Len(nodes) = 1 =>
        /\ r.node = 1 /\ r.index <= Len(nodes[1])
        /\ \A j \in DOMAIN nodes[1] : r.index < j => nodes[1][j] >= t
EndsAt(r, t) ==
    /\ r.node = 1 => \A j \in DOMAIN nodes[1] : nodes[1][j] <= t => j <= r.index + 1
    /\ Len(nodes) = 1 /\ t >= nodes[1][1] =>
        /\ r.node = 1 /\ r.index < Len(nodes[1])
        /\ \A j \in DOMAIN nodes[1] : j <= r.index + 1 => nodes[1][j] <= t

LEMMA NearestFacts ==
    ASSUME QueryTypes, NEW t \in Nat, NEW inclusive \in BOOLEAN,
           NEW r \in Nearest(t, inclusive), r # NoRef
    PROVE  /\ r \in Refs /\ Len(nodes) >= 1
           /\ ~inclusive => StartsAt(r, t)
           /\ inclusive => EndsAt(r, t)
<1> DEFINE first(n) == nodes[n][1]
           stops == {n \in DOMAIN nodes : IF nodes[n] = <<>> THEN TRUE ELSE t >= first(n)}
           k == Max(stops)
           ts == nodes[k]
           down == IF inclusive THEN 1 ELSE 0
<1>1. /\ Len(nodes) \in Nat /\ DOMAIN nodes = 1 .. Len(nodes) /\ Increasing(nodes)
      /\ \A n \in DOMAIN nodes : nodes[n] \in Stamps
  BY SeqFacts DEF QueryTypes
<1>2. \A n \in DOMAIN nodes :
        /\ Len(nodes[n]) \in Nat /\ DOMAIN nodes[n] = 1 .. Len(nodes[n])
        /\ \A j \in DOMAIN nodes[n] : nodes[n][j] \in Nat
        /\ nodes[n] # <<>> => Len(nodes[n]) >= 1
        /\ Ascending(nodes[n])
  <2> TAKE n \in DOMAIN nodes
  <2>1. nodes[n] \in Stamps
    BY <1>1
  <2>2. /\ Len(nodes[n]) \in Nat /\ DOMAIN nodes[n] = 1 .. Len(nodes[n])
        /\ \A j \in DOMAIN nodes[n] : nodes[n][j] \in Nat
    BY <2>1, SeqFacts DEF Stamps
  <2>3. nodes[n] # <<>> => Len(nodes[n]) # 0
    BY <2>1, EmptySeq DEF Stamps
  <2>4. Ascending(nodes[n])
    BY <1>1, <2>2 DEF Increasing, Ascending
  <2> QED
    BY <2>2, <2>3, <2>4
<1>3. nodes # <<>>
  BY DEF Nearest
<1>4. Len(nodes) >= 1 /\ 1 \in DOMAIN nodes
  <2>1. Len(nodes) # 0
    BY <1>3, EmptySeq DEF QueryTypes
  <2> QED
    BY <1>1, <2>1
<1>5. CASE stops = {}
  <2>1. r = [node |-> 1, index |-> 0]
    BY <1>3, <1>5 DEF Nearest
  <2>2. nodes[1] # <<>> /\ ~(t >= nodes[1][1])
    BY <1>4, <1>5
  <2>3. Len(nodes[1]) >= 1 /\ 1 \in DOMAIN nodes[1]
    BY <1>2, <1>4, <2>2
  <2>4. \A j \in DOMAIN nodes[1] : nodes[1][j] \in Nat /\ nodes[1][j] > t /\ j >= 1
    <3> TAKE j \in DOMAIN nodes[1]
    <3>1. j = 1 \/ 1 < j
      BY <1>2, <1>4
    <3>2. nodes[1][1] \in Nat /\ nodes[1][j] \in Nat
      BY <1>2, <1>4, <2>3
    <3>3. 1 < j => nodes[1][1] < nodes[1][j]
      BY <1>2, <1>4, <2>3 DEF Ascending
    <3> QED
      BY <1>2, <1>4, <2>2, <3>1, <3>2, <3>3
  <2>5. r \in Refs /\ r.node = 1 /\ r.index = 0
    BY <2>1 DEF Refs
  <2> HIDE DEF stops
  <2> QED
    BY <1>2, <1>4, <2>2, <2>3, <2>4, <2>5 DEF StartsAt, EndsAt
<1>6. CASE stops # {}
  <2>1. stops \in SUBSET (0 .. Len(nodes))
    BY <1>1
  <2>2. k \in stops
    BY <1>1, <1>6, <2>1, LargestExists
  <2>3. k \in DOMAIN nodes /\ (nodes[k] = <<>> \/ t >= nodes[k][1])
    BY <2>2
  <2>4. nodes[k] # <<>>
    BY <1>3, <1>6 DEF Nearest
  <2> DEFINE m == k
  <2>5. m \in 1 .. Len(nodes) /\ m \in DOMAIN nodes /\ nodes[m] # <<>> /\ t >= nodes[m][1]
    BY <1>1, <2>3, <2>4
  <2>6. \/ t > Last(nodes[m]) /\ r = [node |-> m + 1, index |-> 0] /\ m < Len(nodes)
        \/ t > Last(nodes[m]) /\ r = [node |-> m, index |-> Monus(Len(nodes[m]), down)]
        \/ \E i \in Matches(nodes[m], t) : r = [node |-> m, index |-> i]
        \/ /\ ~(t > Last(nodes[m])) /\ Matches(nodes[m], t) = {}
           /\ r = [node |-> m, index |-> Monus(Below(nodes[m], t), down)]
    BY <1>3, <1>6, <2>4 DEF Nearest
  <2> HIDE DEF m, stops, k, ts
  <2> DEFINE L == Len(nodes[m])
             b == Below(nodes[m], t)
  <2>7. /\ L \in Nat /\ L >= 1 /\ DOMAIN nodes[m] = 1 .. L /\ 1 \in DOMAIN nodes[m]
        /\ L \in DOMAIN nodes[m]
        /\ \A j \in DOMAIN nodes[m] : nodes[m][j] \in Nat
        /\ Ascending(nodes[m]) /\ Last(nodes[m]) = nodes[m][L]
    BY <1>2, <2>5 DEF Last
  <2>8. b \in 0 .. L /\ \A j \in DOMAIN nodes[m] : nodes[m][j] < t <=> j <= b
    <3>1. nodes[m] \in Stamps
      BY <1>1, <2>5
    <3> QED
      BY <2>7, <3>1, BelowFacts
  <2>9. m # 1 => \A j \in DOMAIN nodes[1] : nodes[1][j] \in Nat /\ nodes[1][j] < t
    <3> SUFFICES ASSUME m # 1, NEW j \in DOMAIN nodes[1] PROVE nodes[1][j] \in Nat /\ nodes[1][j] < t
      OBVIOUS
    <3>1. 1 < m
      BY <1>1, <2>5
    <3>2. nodes[1][j] < nodes[m][1]
      BY <1>1, <1>4, <2>5, <2>7, <3>1 DEF Increasing
    <3> QED
      BY <1>2, <1>4, <2>5, <2>7, <3>2
  <2>10. Len(nodes) = 1 => m = 1
    BY <2>5
  <2> HIDE DEF L, b
  <2>11. CASE t > Last(nodes[m])
    <3>1. \A j \in DOMAIN nodes[m] : nodes[m][j] < t
      <4> TAKE j \in DOMAIN nodes[m]
      <4>1. j = L \/ j < L
        BY <2>7
      <4>2. nodes[m][j] <= nodes[m][L]
        BY <2>7, <4>1 DEF Ascending
      <4> QED
        BY <2>7, <2>11, <4>2
    <3>2. \A j \in DOMAIN nodes[1] : nodes[1][j] \in Nat /\ nodes[1][j] < t
      BY <2>7, <2>9, <3>1
    <3>3. CASE r = [node |-> m + 1, index |-> 0] /\ m < Len(nodes)
      <4>1. r \in Refs /\ r.node = m + 1 /\ r.node # 1 /\ Len(nodes) # 1
        BY <1>1, <2>5, <3>3 DEF Refs
      <4>2. \A j \in DOMAIN nodes[1] : ~(nodes[1][j] >= t)
        BY <3>2
      <4>3. StartsAt(r, t)
        BY <4>1, <4>2 DEF StartsAt
      <4>4. EndsAt(r, t)
        BY <4>1 DEF EndsAt
      <4> QED
        BY <1>4, <4>1, <4>3, <4>4
    <3>4. CASE r = [node |-> m, index |-> Monus(Len(nodes[m]), down)]
      <4> DEFINE i == Monus(L, down)
      <4>4. i \in Nat /\ i = IF inclusive THEN L - 1 ELSE L
        BY <2>7 DEF Monus
      <4>5. r = [node |-> m, index |-> i]
        BY <3>4 DEF L
      <4> HIDE DEF i
      <4>1. r \in Refs /\ r.node = m /\ r.index = IF inclusive THEN L - 1 ELSE L
        BY <2>5, <4>4, <4>5 DEF Refs
      <4>2. m = 1 => L = Len(nodes[1]) /\ \A j \in DOMAIN nodes[1] : j \in Nat /\ j <= L
        BY <2>7 DEF L
      <4>3. r.index \in Nat
        BY <4>1 DEF Refs
      <4> QED
        BY <1>4, <2>7, <2>10, <3>2, <4>1, <4>2, <4>3 DEF StartsAt, EndsAt
    <3>5. ASSUME NEW i \in Matches(nodes[m], t) PROVE FALSE
      BY <2>7, <3>1, <3>5 DEF Matches
    <3> QED
      BY <2>6, <2>11, <3>3, <3>4, <3>5
  <2>12. ASSUME NEW i \in Matches(nodes[m], t), r = [node |-> m, index |-> i]
         PROVE  r \in Refs /\ StartsAt(r, t) /\ EndsAt(r, t)
    <3>1. PICK n \in DOMAIN nodes[m] : nodes[m][n] = t /\ i = n - 1
      BY <2>12 DEF Matches
    <3>2. /\ r \in Refs /\ r.node = m /\ r.index = n - 1 /\ n \in Nat /\ r.index < L
      BY <1>1, <2>5, <2>7, <2>12, <3>1 DEF Refs
    <3>3. \A j \in DOMAIN nodes[m] : /\ nodes[m][j] >= t <=> n - 1 < j
                                     /\ nodes[m][j] <= t <=> j <= n - 1 + 1
      <4> TAKE j \in DOMAIN nodes[m]
      <4>1. j \in Nat /\ nodes[m][j] \in Nat /\ n \in Nat
        BY <2>7, <3>2
      <4>2. (j < n => nodes[m][j] < t) /\ (n < j => t < nodes[m][j])
        BY <2>7, <3>1 DEF Ascending
      <4> QED
        BY <3>1, <4>1, <4>2
    <3>4. CASE m = 1
      BY <1>4, <3>2, <3>3, <3>4 DEF L, StartsAt, EndsAt
    <3>5. CASE m # 1
      BY <1>4, <2>9, <2>10, <3>2, <3>5 DEF StartsAt, EndsAt
    <3> QED
      BY <3>4, <3>5
  <2>13. CASE /\ ~(t > Last(nodes[m])) /\ Matches(nodes[m], t) = {}
              /\ r = [node |-> m, index |-> Monus(Below(nodes[m], t), down)]
    <3>1. \A j \in DOMAIN nodes[m] : nodes[m][j] # t
      BY <2>13 DEF Matches
    <3>2. b >= 1
      BY <2>5, <2>7, <2>8, <3>1
    <3>3. /\ r \in Refs /\ r.node = m /\ (~inclusive => r.index = b)
          /\ (inclusive => r.index = b - 1) /\ r.index \in Nat
      <4> DEFINE i == Monus(b, down)
      <4>1. i \in Nat /\ i = IF inclusive THEN b - 1 ELSE b
        BY <2>8, <3>2 DEF Monus
      <4>2. r = [node |-> m, index |-> i]
        BY <2>13 DEF b
      <4> HIDE DEF i
      <4> QED
        BY <2>5, <4>1, <4>2 DEF Refs
    <3>4. \A j \in DOMAIN nodes[m] : /\ j \in Nat /\ nodes[m][j] \in Nat
                                     /\ nodes[m][j] >= t <=> b < j
                                     /\ nodes[m][j] <= t <=> j <= b
      BY <2>7, <2>8, <3>1
    <3>5. CASE m = 1
      <4>1. L = Len(nodes[1])
        BY <3>5 DEF L
      <4>2. r.node = 1 /\ b \in Nat /\ b <= L /\ L \in Nat
        BY <2>7, <2>8, <3>3, <3>5
      <4>3. \A j \in DOMAIN nodes[1] : /\ j \in Nat /\ (nodes[1][j] >= t <=> b < j)
                                       /\ nodes[1][j] <= t <=> j <= b
        BY <3>4, <3>5
      <4>4. ~inclusive => StartsAt(r, t)
        BY <3>3, <4>1, <4>2, <4>3 DEF StartsAt
      <4>5. inclusive => EndsAt(r, t)
        <5> SUFFICES ASSUME inclusive PROVE EndsAt(r, t)
          OBVIOUS
        <5>1. r.index + 1 = b /\ r.index < L
          BY <3>2, <3>3, <4>2
        <5> QED
          BY <4>1, <4>2, <4>3, <5>1 DEF EndsAt
      <4> QED
        BY <1>4, <3>3, <4>4, <4>5
    <3>6. CASE m # 1
      BY <1>4, <2>9, <2>10, <3>3, <3>6 DEF StartsAt, EndsAt
    <3> QED
      BY <3>5, <3>6
  <2> QED
    BY <1>4, <2>6, <2>11, <2>12, <2>13
<1> QED
  BY <1>5, <1>6

-----------------------------------------------------------------------------
(* as_iter has one slice if the start is in the first node: range.len() is its
   length, and the copy loop goes round once. *)
LEMMA OneSlice ==
    ASSUME start \in Refs, start.node = 1
    PROVE  AsIter = [i \in 1 .. 1 |-> SliceOf(1 + 1 - i)] /\ AsIter[1] = SliceOf(1)
<1>1. AsIter = [i \in 1 .. 1 |-> SliceOf(1 + 1 - i)]
  BY DEF AsIter
<1>2. AsIter[1] = SliceOf(1 + 1 - 1)
  BY <1>1
<1>3. 1 + 1 - 1 = 1
  OBVIOUS
<1> QED
  BY <1>1, <1>2, <1>3

LEMMA OneMeasured ==
    ASSUME start \in Refs, start.node = 1, Measure, Len(SliceOf(1).ts) \in Nat
    PROVE  size' = Len(SliceOf(1).ts)
<1> DEFINE n == Len(SliceOf(1).ts)
           H(f) == [i \in 0 .. start.node |-> IF i = 0 THEN 0 ELSE f[i - 1] + Len(AsIter[i].ts)]
           h == CHOOSE f : f = H(f)
           g == [i \in 0 .. 1 |-> IF i = 0 THEN 0 ELSE n]
<1>1. size' = h[1]
  BY DEF Measure
<1>2. Len(AsIter[1].ts) = n
  BY OneSlice
<1>3. g = H(g)
  <2> HIDE DEF n
  <2>1. \A i \in 0 .. 1 : g[i] = IF i = 0 THEN 0 ELSE n
    OBVIOUS
  <2>2. n = 0 + n
    BY DEF n
  <2>3. \A i \in 0 .. 1 : i # 0 => i = 1 /\ i - 1 = 0
    OBVIOUS
  <2>4. \A i \in 0 .. 1 : g[i] = IF i = 0 THEN 0 ELSE g[i - 1] + Len(AsIter[i].ts)
    BY <1>2, <2>1, <2>2, <2>3
  <2>5. g \in [0 .. 1 -> {0, n}]
    OBVIOUS
  <2>6. 0 .. start.node = 0 .. 1
    OBVIOUS
  <2> QED
    BY <2>1, <2>4, <2>6
<1>4. h = H(h)
  BY <1>3
<1> HIDE DEF h, n, g
<1>5. \A i \in 0 .. 1 : h[i] = IF i = 0 THEN 0 ELSE h[i - 1] + Len(AsIter[i].ts)
  <2>1. h = [i \in 0 .. start.node |-> IF i = 0 THEN 0 ELSE h[i - 1] + Len(AsIter[i].ts)]
    BY <1>4
  <2>2. h = [i \in 0 .. 1 |-> IF i = 0 THEN 0 ELSE h[i - 1] + Len(AsIter[i].ts)]
    BY <2>1
  <2> QED
    BY <2>2, Zenon
<1>6. h[0] = 0 /\ h[1] = h[1 - 1] + Len(AsIter[1].ts)
  BY <1>5
<1>7. 1 - 1 = 0
  OBVIOUS
<1> QED
  BY <1>1, <1>2, <1>6, <1>7 DEF n

LEMMA OneCopied ==
    ASSUME start \in Refs, start.node = 1, NEW len
    PROVE  Copied(len) = CopySlice([skip |-> size - len, room |-> len, panics |-> FALSE,
                                    out |-> <<>>], SliceOf(1))
<1> DEFINE c == [skip |-> size - len, room |-> len, panics |-> FALSE, out |-> <<>>]
           H(f) == [i \in 0 .. start.node |-> IF i = 0 THEN c ELSE CopySlice(f[i - 1], AsIter[i])]
           h == CHOOSE f : f = H(f)
           g == [i \in 0 .. 1 |-> IF i = 0 THEN c ELSE CopySlice(c, SliceOf(1))]
<1>1. Copied(len) = h[1]
  BY DEF Copied
<1> HIDE DEF c
<1>2. g = H(g)
  <2>1. \A i \in 0 .. 1 : g[i] = IF i = 0 THEN c ELSE CopySlice(c, SliceOf(1))
    OBVIOUS
  <2>2. \A i \in 0 .. 1 : i # 0 => i = 1 /\ i - 1 = 0
    OBVIOUS
  <2>3. \A i \in 0 .. 1 : g[i] = IF i = 0 THEN c ELSE CopySlice(g[i - 1], AsIter[i])
    BY <2>1, <2>2, OneSlice
  <2>4. 0 .. start.node = 0 .. 1
    OBVIOUS
  <2> QED
    BY <2>1, <2>3, <2>4
<1>3. h = H(h)
  BY <1>2
<1> HIDE DEF h, g
<1>4. \A i \in 0 .. 1 : h[i] = IF i = 0 THEN c ELSE CopySlice(h[i - 1], AsIter[i])
  <2>1. h = [i \in 0 .. 1 |-> IF i = 0 THEN c ELSE CopySlice(h[i - 1], AsIter[i])]
    BY <1>3
  <2> QED
    BY <2>1, Zenon
<1>5. h[0] = c /\ h[1] = CopySlice(h[1 - 1], AsIter[1])
  BY <1>4
<1>6. 1 - 1 = 0
  OBVIOUS
<1> QED
  BY <1>1, <1>5, <1>6, OneSlice DEF c

(* The slice of the first node goes from the start to the end, or to the last
   sample there is. *)
LEMMA SliceFacts ==
    ASSUME QueryTypes, Len(nodes) >= 1, start \in Refs, end \in Refs, start.node = 1,
           ~SliceOf(1).panics
    PROVE  \E b \in Nat :
             /\ start.index <= b /\ b <= Len(nodes[1])
             /\ SliceOf(1).ts = SubSeq(nodes[1], start.index + 1, b)
             /\ SliceOf(1).ts \in Stamps /\ Len(SliceOf(1).ts) = b - start.index
             /\ \A i \in 1 .. b - start.index : SliceOf(1).ts[i] = nodes[1][start.index + i]
             /\ end.node # 1 => b = Len(nodes[1])
             /\ end.node = 1 => b = Len(nodes[1]) \/ b = end.index + 1
             /\ end.node = 1 /\ end.index < Len(nodes[1]) => b = end.index + 1
<1> DEFINE L == Len(nodes[1])
           a == start.index
           to == IF 1 = end.node THEN end.index ELSE Monus(L, 1)
           tail == IF to >= L THEN Monus(L, 1) ELSE to
           b == tail + 1
<1>1. L \in Nat /\ DOMAIN nodes[1] = 1 .. L /\ \A i \in 1 .. L : nodes[1][i] \in Nat
  <2>1. 1 \in DOMAIN nodes /\ \A n \in DOMAIN nodes : nodes[n] \in Stamps
    BY SeqFacts DEF QueryTypes
  <2>2. nodes[1] \in Stamps
    BY <2>1
  <2> QED
    BY <2>2, SeqFacts DEF Stamps
<1>2. a \in Nat /\ end.index \in Nat
  BY DEF Refs
<1> DEFINE e == a > b \/ b > L
           p == SubSeq(nodes[1], a + 1, b)
<1>3. SliceOf(1) = [panics |-> e, ts |-> p]
  BY DEF SliceOf
<1>4. ~e /\ SliceOf(1).ts = p
  <2> HIDE DEF e, p
  <2>1. SliceOf(1).ts = p
    BY <1>3
  <2>2. SliceOf(1).panics = e
    BY <1>3
  <2> QED
    BY <2>1, <2>2
<1>5. b \in Nat /\ a <= b /\ b <= L
  BY <1>1, <1>2, <1>4 DEF Monus
<1>6. /\ end.node # 1 => b = L
      /\ end.node = 1 => b = L \/ b = end.index + 1
      /\ end.node = 1 /\ end.index < L => b = end.index + 1
  BY <1>1, <1>2, <1>5 DEF Monus
<1> HIDE DEF b, to, tail, a, L
<1>7. \A i \in a + 1 .. b : nodes[1][i] \in Nat
  BY <1>1, <1>2, <1>5
<1>8. /\ SubSeq(nodes[1], a + 1, b) \in Seq(Nat)
      /\ Len(SubSeq(nodes[1], a + 1, b)) = IF a + 1 <= b THEN b - (a + 1) + 1 ELSE 0
      /\ \A i \in 1 .. b - (a + 1) + 1 : SubSeq(nodes[1], a + 1, b)[i] = nodes[1][a + 1 + i - 1]
  BY <1>2, <1>5, <1>7, SubSeqProperties
<1> HIDE DEF p
<1>9. p \in Stamps /\ Len(p) = b - a /\ \A i \in 1 .. b - a : p[i] = nodes[1][a + i]
  <2>1. b - (a + 1) + 1 = b - a /\ \A i \in Int : a + 1 + i - 1 = a + i
    BY <1>2, <1>5
  <2>2. (IF a + 1 <= b THEN b - (a + 1) + 1 ELSE 0) = b - a
    BY <1>2, <1>5
  <2>3. p \in Seq(Nat) /\ Len(p) = b - a
    BY <1>8, <2>2 DEF p
  <2>4. \A i \in 1 .. b - a : p[i] = nodes[1][a + 1 + i - 1]
    BY <1>8, <2>1 DEF p
  <2>5. \A i \in 1 .. b - a : i \in Int
    OBVIOUS
  <2> QED
    BY <2>1, <2>3, <2>4, <2>5 DEF Stamps
<1>10. SliceOf(1).ts = p /\ p = SubSeq(nodes[1], a + 1, b)
  BY <1>4 DEF p
<1> QED
  BY <1>5, <1>6, <1>9, <1>10 DEF a, L

(* The samples in the range, when it begins after the first a and ends with the
   b-th: by induction on how many were looked at. *)
LEMMA InRangeFacts ==
    ASSUME NEW q \in Stamps, NEW a \in 0 .. Len(q), NEW b \in a .. Len(q),
           \A j \in DOMAIN q : (lo <= q[j] <=> a < j) /\ (q[j] <= hi <=> j <= b)
    PROVE  InRange(q) = SubSeq(q, a + 1, b)
<1> DEFINE N == Len(q)
           cut(n) == IF n <= b THEN n ELSE b
           g == [n \in 0 .. N |-> SubSeq(q, a + 1, cut(n))]
           H(f) == [n \in 0 .. N |->
                      IF n = 0 THEN <<>>
                      ELSE IF lo <= q[n] /\ q[n] <= hi THEN Append(f[n - 1], q[n]) ELSE f[n - 1]]
           h == CHOOSE f : f = H(f)
<1>1. N \in Nat /\ DOMAIN q = 1 .. N /\ \A i \in 1 .. N : q[i] \in Nat
  BY SeqFacts DEF Stamps
<1>2. a \in Nat /\ b \in Nat /\ a <= b /\ b <= N
  BY <1>1
<1>3. InRange(q) = h[N]
  BY DEF InRange
<1>4. \A n \in 0 .. N : SubSeq(q, a + 1, cut(n)) \in Seq(Nat)
  <2> TAKE n \in 0 .. N
  <2>1. cut(n) \in 0 .. N /\ \A i \in a + 1 .. cut(n) : q[i] \in Nat
    BY <1>1, <1>2
  <2> HIDE DEF cut
  <2> QED
    BY <1>2, <2>1, SubSeqProperties
<1>5. \A n \in 1 .. N :
        SubSeq(q, a + 1, cut(n)) =
          IF lo <= q[n] /\ q[n] <= hi THEN Append(SubSeq(q, a + 1, cut(n - 1)), q[n])
          ELSE SubSeq(q, a + 1, cut(n - 1))
  <2> TAKE n \in 1 .. N
  <2>1. n \in DOMAIN q /\ (lo <= q[n] <=> a < n) /\ (q[n] <= hi <=> n <= b)
    BY <1>1
  <2>2. CASE a < n /\ n <= b
    <3>1. cut(n) = n /\ cut(n - 1) = n - 1 /\ n - 1 \in Nat /\ n \in Nat
      BY <1>1, <1>2, <2>2
    <3>2. \A i \in a + 1 .. n : q[i] \in Nat
      BY <1>1, <1>2
    <3>3. \A i \in a + 1 .. n - 1 : q[i] \in Nat
      BY <1>1, <1>2
    <3> DEFINE u == SubSeq(q, a + 1, n)
               v == SubSeq(q, a + 1, n - 1)
    <3>4. /\ u \in Seq(Nat) /\ Len(u) = IF a + 1 <= n THEN n - (a + 1) + 1 ELSE 0
          /\ \A i \in 1 .. n - (a + 1) + 1 : u[i] = q[a + 1 + i - 1]
      BY <1>2, <3>1, <3>2, SubSeqProperties
    <3>5. /\ v \in Seq(Nat) /\ Len(v) = IF a + 1 <= n - 1 THEN (n - 1) - (a + 1) + 1 ELSE 0
          /\ \A i \in 1 .. (n - 1) - (a + 1) + 1 : v[i] = q[a + 1 + i - 1]
      BY <1>2, <3>1, <3>3, SubSeqProperties
    <3> HIDE DEF u, v
    <3>6. Len(u) = n - a /\ Len(v) = n - a - 1
      BY <1>2, <2>2, <3>1, <3>4, <3>5
    <3>7. q[n] \in Nat
      BY <1>1
    <3> DEFINE w == Append(v, q[n])
    <3>8. /\ w \in Seq(Nat) /\ Len(w) = Len(v) + 1 /\ w[Len(v) + 1] = q[n]
          /\ \A i \in 1 .. Len(v) : w[i] = v[i]
      BY <3>5, <3>7, AppendFacts, SMTT(40)
    <3> HIDE DEF w
    <3>9. \A i \in 1 .. Len(u) : u[i] = w[i]
      <4> TAKE i \in 1 .. Len(u)
      <4>1. u[i] = q[a + 1 + i - 1]
        BY <1>2, <3>1, <3>4, <3>6
      <4>2. CASE i = n - a
        <5>1. a + 1 + i - 1 = n /\ i = Len(v) + 1
          BY <1>2, <3>1, <3>6, <4>2
        <5> QED
          BY <3>8, <4>1, <5>1
      <4>3. CASE i # n - a
        <5>1. i \in 1 .. Len(v) /\ i \in 1 .. (n - 1) - (a + 1) + 1
          BY <1>2, <3>1, <3>6, <4>3
        <5> QED
          BY <3>5, <3>8, <4>1, <5>1
      <4> QED
        BY <4>2, <4>3
    <3>10. Len(u) = Len(w)
      BY <1>2, <3>1, <3>6, <3>8
    <3>11. u = w
      BY <3>4, <3>8, <3>9, <3>10, SeqEqual
    <3>12. u = SubSeq(q, a + 1, cut(n)) /\ v = SubSeq(q, a + 1, cut(n - 1))
      BY <3>1 DEF u, v
    <3> HIDE DEF cut
    <3> QED
      BY <2>1, <2>2, <3>11, <3>12 DEF w
  <2>3. CASE n <= a
    <3>1. cut(n) < a + 1 /\ cut(n - 1) < a + 1 /\ cut(n) \in Int /\ cut(n - 1) \in Int
      BY <1>1, <1>2, <2>3
    <3>2. ~(a < n)
      BY <1>1, <1>2, <2>3
    <3> HIDE DEF cut
    <3>3. SubSeq(q, a + 1, cut(n)) = <<>> /\ SubSeq(q, a + 1, cut(n - 1)) = <<>>
      BY <1>2, <3>1, SubSeqEmpty
    <3> QED
      BY <2>1, <3>2, <3>3
  <2>4. CASE b < n
    <3>1. cut(n) = b /\ cut(n - 1) = b /\ ~(n <= b)
      BY <1>1, <1>2, <2>4
    <3> QED
      BY <2>1, <3>1
  <2> QED
    BY <1>1, <1>2, <2>2, <2>3, <2>4
<1>6. SubSeq(q, a + 1, cut(0)) = <<>> /\ cut(N) = b
  <2>1. cut(0) = 0
    BY <1>2
  <2>3. cut(N) = b
    <3> HIDE DEF N
    <3>1. N \in Nat /\ b \in Nat /\ b <= N
      BY <1>1, <1>2
    <3>2. N <= b => N = b
      BY <3>1
    <3> QED
      BY <3>2
  <2>2. SubSeq(q, a + 1, 0) = <<>>
    BY <1>2, SubSeqEmpty
  <2> QED
    BY <2>1, <2>2, <2>3
<1>7. g = H(g)
  <2>1. \A n \in 0 .. N : g[n] = SubSeq(q, a + 1, cut(n))
    OBVIOUS
  <2> HIDE DEF cut
  <2>2. \A n \in 0 .. N :
          g[n] = IF n = 0 THEN <<>>
                 ELSE IF lo <= q[n] /\ q[n] <= hi THEN Append(g[n - 1], q[n]) ELSE g[n - 1]
    <3> HIDE DEF g
    <3> TAKE n \in 0 .. N
    <3>1. CASE n = 0
      BY <1>6, <2>1, <3>1
    <3>2. CASE n # 0
      <4>1. n \in 1 .. N /\ n - 1 \in 0 .. N
        BY <1>1, <3>2
      <4> QED
        BY <1>5, <2>1, <3>2, <4>1
    <3> QED
      BY <3>1, <3>2
  <2> QED
    BY <2>1, <2>2
<1>8. h = H(h)
  BY <1>7
<1> HIDE DEF h
<1>9. h[0] = <<>> /\ \A n \in 1 .. N :
        h[n] = IF lo <= q[n] /\ q[n] <= hi THEN Append(h[n - 1], q[n]) ELSE h[n - 1]
  <2>1. h = [n \in 0 .. N |->
              IF n = 0 THEN <<>>
              ELSE IF lo <= q[n] /\ q[n] <= hi THEN Append(h[n - 1], q[n]) ELSE h[n - 1]]
    BY <1>8
  <2>2. \A n \in 0 .. N :
          h[n] = IF n = 0 THEN <<>>
                 ELSE IF lo <= q[n] /\ q[n] <= hi THEN Append(h[n - 1], q[n]) ELSE h[n - 1]
    BY <2>1, Zenon
  <2>3. 0 \in 0 .. N /\ \A n \in 1 .. N : n \in 0 .. N /\ n # 0
    BY <1>1
  <2> QED
    BY <2>2, <2>3
<1> HIDE DEF H, g
<1> DEFINE T == {n \in 0 .. N : h[n] = SubSeq(q, a + 1, cut(n))}
<1>10. \A n \in 0 .. N : n \in T
  <2>1. 0 \in T
    <3>1. h[0] = SubSeq(q, a + 1, cut(0))
      <4> HIDE DEF cut
      <4> QED
        BY <1>6, <1>9
    <3>2. 0 \in 0 .. N
      BY <1>1
    <3> HIDE DEF cut
    <3> QED
      BY <3>1, <3>2
  <2>2. ASSUME NEW n \in 0 .. N - 1, n \in T PROVE n + 1 \in T
    <3>1. n + 1 \in 1 .. N /\ n + 1 \in 0 .. N /\ n + 1 - 1 = n
      BY <1>1
    <3>2. h[n] = SubSeq(q, a + 1, cut(n))
      BY <2>2
    <3> HIDE DEF cut
    <3>3. h[n + 1] = IF lo <= q[n + 1] /\ q[n + 1] <= hi THEN Append(h[n], q[n + 1]) ELSE h[n]
      BY <1>9, <3>1
    <3>4. SubSeq(q, a + 1, cut(n + 1)) =
            IF lo <= q[n + 1] /\ q[n + 1] <= hi THEN Append(SubSeq(q, a + 1, cut(n)), q[n + 1])
            ELSE SubSeq(q, a + 1, cut(n))
      <4> DEFINE k == n + 1
      <4>1. k \in 1 .. N /\ k - 1 = n
        BY <3>1
      <4> HIDE DEF k
      <4>2. SubSeq(q, a + 1, cut(k)) =
              IF lo <= q[k] /\ q[k] <= hi THEN Append(SubSeq(q, a + 1, cut(k - 1)), q[k])
              ELSE SubSeq(q, a + 1, cut(k - 1))
        BY <1>5, <4>1
      <4>3. cut(k - 1) = cut(n)
        BY <4>1
      <4> QED
        BY <4>2, <4>3 DEF k
    <3> QED
      BY <3>1, <3>2, <3>3, <3>4
  <2> HIDE DEF T
  <2> QED
    BY <1>1, <2>1, <2>2, Upward
<1>11. h[N] = SubSeq(q, a + 1, cut(N))
  <2>1. N \in 0 .. N
    BY <1>1
  <2> HIDE DEF cut
  <2> QED
    BY <1>10, <2>1
<1> QED
  <2> HIDE DEF cut
  <2> QED
    BY <1>3, <1>6, <1>11

-----------------------------------------------------------------------------
LEMMA QueryInitIInv == QueryInit => QueryIInv
<1> SUFFICES ASSUME QueryInit PROVE QueryIInv
  OBVIOUS
<1>1. nodes = <<>> /\ asked = <<>> /\ at = "idle" /\ lo = 0 /\ hi = 0 /\ late = 0 /\ limit = {}
  BY DEF QueryInit, NoLimit
<1>2. nodes \in Seq(Stamps) /\ asked \in Seq(Stamps) /\ Increasing(nodes)
  BY <1>1 DEF Increasing
<1> QED
  BY <1>1, <1>2 DEF QueryIInv, QueryTypes

(* What the persist task does: nodes are added, and samples to the last one. *)
LEMMA StoreFacts ==
    ASSUME QueryTypes, MinStep # 0, Grow \/ Write
    PROVE  /\ nodes' \in Seq(Stamps) /\ (Increasing(nodes))'
           /\ Len(nodes) \in Nat /\ Len(nodes') >= Len(nodes)
           /\ Len(nodes) >= 1 =>
                /\ Len(nodes'[1]) >= Len(nodes[1])
                /\ \A j \in DOMAIN nodes[1] : nodes'[1][j] = nodes[1][j]
<1>1. /\ Len(nodes) \in Nat /\ DOMAIN nodes = 1 .. Len(nodes) /\ nodes \in Seq(Stamps)
      /\ \A n \in DOMAIN nodes : nodes[n] \in Stamps
      /\ Increasing(nodes)
  BY SeqFacts DEF QueryTypes
<1>2. \A n \in DOMAIN nodes :
        /\ Len(nodes[n]) \in Nat /\ DOMAIN nodes[n] = 1 .. Len(nodes[n])
        /\ \A j \in DOMAIN nodes[n] : nodes[n][j] \in Nat
  <2> TAKE n \in DOMAIN nodes
  <2>1. nodes[n] \in Stamps
    BY <1>1
  <2> QED
    BY <2>1, SeqFacts DEF Stamps
<1>3. CASE Grow
  <2>1. nodes' = Append(nodes, <<>>) /\ <<>> \in Stamps
    BY <1>3 DEF Grow, Stamps
  <2>2. /\ nodes' \in Seq(Stamps) /\ Len(nodes') = Len(nodes) + 1
        /\ DOMAIN nodes' = 1 .. Len(nodes) + 1 /\ nodes'[Len(nodes) + 1] = <<>>
        /\ \A i \in 1 .. Len(nodes) : nodes'[i] = nodes[i]
    BY <1>1, <2>1, AppendFacts
  <2>3. \A n \in DOMAIN nodes' : n \notin DOMAIN nodes => nodes'[n] = <<>>
    BY <1>1, <2>2
  <2>4. \A n \in DOMAIN nodes' : \A j \in DOMAIN nodes'[n] : n \in DOMAIN nodes /\ nodes'[n] = nodes[n]
    BY <1>1, <2>2, <2>3
  <2>5. (Increasing(nodes))'
    BY <1>1, <2>4 DEF Increasing
  <2>6. Len(nodes) >= 1 => nodes'[1] = nodes[1] /\ Len(nodes[1]) \in Nat
    BY <1>1, <1>2, <2>2
  <2> QED
    BY <1>1, <2>2, <2>5, <2>6
<1>4. CASE Write
  <2> DEFINE K == Len(nodes)
             e == nodes[K]
  <2>1. PICK t \in 1 .. MaxStamp :
            /\ \A n \in DOMAIN nodes : \A j \in DOMAIN nodes[n] : t >= nodes[n][j] + MinStep
            /\ nodes' = [nodes EXCEPT ![K] = Append(e, t)]
    BY <1>4 DEF Write
  <2>2. nodes # <<>>
    BY <1>4 DEF Write, Full
  <2>3. K \in 1 .. Len(nodes) /\ K \in DOMAIN nodes
    <3>1. Len(nodes) # 0
      BY <1>1, <2>2, EmptySeq
    <3> QED
      BY <1>1, <3>1
  <2> HIDE DEF K
  <2>4. t \in Nat /\ MinStep \in Nat /\ MinStep > 0
    BY RangeQueryAssumption
  <2> DEFINE p == Append(e, t)
  <2>5. e \in Seq(Nat)
    BY <1>1, <2>3 DEF Stamps
  <2>6. /\ p \in Stamps /\ Len(e) \in Nat /\ DOMAIN e = 1 .. Len(e) /\ Len(p) = Len(e) + 1
        /\ DOMAIN p = 1 .. Len(e) + 1 /\ p[Len(e) + 1] = t
        /\ \A i \in 1 .. Len(e) : p[i] = e[i]
    BY <2>4, <2>5, AppendFacts DEF Stamps
  <2>7. nodes' = [nodes EXCEPT ![K] = p]
    BY <2>1
  <2> HIDE DEF p, e
  <2>8. /\ nodes' \in Seq(Stamps) /\ Len(nodes') = Len(nodes)
        /\ DOMAIN nodes' = DOMAIN nodes /\ nodes'[K] = p
        /\ \A n \in DOMAIN nodes : n # K => nodes'[n] = nodes[n]
    <3>1. nodes' \in Seq(Stamps) /\ Len(nodes') = Len(nodes)
      BY <1>1, <2>3, <2>6, <2>7, ExceptSeq
    <3>2. DOMAIN nodes' = DOMAIN nodes /\ nodes'[K] = p
          /\ \A n \in DOMAIN nodes : n # K => nodes'[n] = nodes[n]
      BY <2>3, <2>7
    <3> QED
      BY <3>1, <3>2
  <2>9. \A n \in DOMAIN nodes : \A j \in DOMAIN nodes[n] : nodes[n][j] < t /\ nodes[n][j] \in Nat
    <3> TAKE n \in DOMAIN nodes
    <3> TAKE j \in DOMAIN nodes[n]
    <3>1. nodes[n][j] \in Nat /\ t >= nodes[n][j] + MinStep
      BY <1>2, <2>1
    <3> QED
      BY <2>4, <3>1
  <2>10. \A n \in DOMAIN nodes : \A j \in DOMAIN nodes'[n] :
            \/ j \in DOMAIN nodes[n] /\ nodes'[n][j] = nodes[n][j]
            \/ n = K /\ j = Len(e) + 1 /\ nodes'[n][j] = t
    <3> TAKE n \in DOMAIN nodes
    <3>1. CASE n # K
      BY <2>8, <3>1
    <3>2. CASE n = K
      BY <2>6, <2>8, <3>2 DEF e
    <3> QED
      BY <3>1, <3>2
  <2>11. (Increasing(nodes))'
    <3> SUFFICES ASSUME NEW m \in DOMAIN nodes, NEW n \in DOMAIN nodes,
                        NEW i \in DOMAIN nodes'[m], NEW j \in DOMAIN nodes'[n],
                        m < n \/ (m = n /\ i < j)
                 PROVE  nodes'[m][i] < nodes'[n][j]
      BY <2>8 DEF Increasing
    <3>1. CASE i \in DOMAIN nodes[m] /\ nodes'[m][i] = nodes[m][i]
      <4>1. CASE j \in DOMAIN nodes[n] /\ nodes'[n][j] = nodes[n][j]
        BY <1>1, <3>1, <4>1 DEF Increasing
      <4>2. CASE nodes'[n][j] = t
        BY <2>9, <3>1, <4>2
      <4> QED
        BY <2>10, <4>1, <4>2
    <3>2. CASE m = K /\ i = Len(e) + 1
      <4>1. n \in 1 .. Len(nodes) /\ K = Len(nodes)
        BY <1>1 DEF K
      <4>2. m = n /\ i < j
        BY <3>2, <4>1, <1>1
      <4>3. j \in 1 .. Len(e) + 1
        BY <2>6, <2>8, <3>2, <4>2
      <4> QED
        BY <2>6, <3>2, <4>2, <4>3
    <3> QED
      BY <2>10, <3>1, <3>2
  <2>12. 1 \in DOMAIN nodes => Len(nodes'[1]) >= Len(nodes[1])
                               /\ \A j \in DOMAIN nodes[1] : nodes'[1][j] = nodes[1][j]
    <3> SUFFICES ASSUME 1 \in DOMAIN nodes
                 PROVE  Len(nodes'[1]) >= Len(nodes[1])
                        /\ \A j \in DOMAIN nodes[1] : nodes'[1][j] = nodes[1][j]
      OBVIOUS
    <3>1. CASE K # 1
      BY <1>2, <2>8, <3>1
    <3>2. CASE K = 1
      BY <2>6, <2>8, <3>2 DEF e
    <3> QED
      BY <3>1, <3>2
  <2> QED
    BY <1>1, <2>8, <2>11, <2>12
<1> QED
  BY <1>3, <1>4

(* Samples stored during a query disturb nothing it relies on. *)
LEMMA StoreStep ==
    ASSUME QueryIInv, MinStep # 0, Grow \/ Write
    PROVE  QueryIInv'
<1>1. /\ UNCHANGED <<at, lo, hi, limit, asked, start, end, size, answer>>
      /\ late \in Nat /\ late' = IF at = "idle" THEN 0 ELSE late + 1
  BY DEF Grow, Write, WriterMay, query, QueryIInv, QueryTypes
<1>2. /\ nodes' \in Seq(Stamps) /\ (Increasing(nodes))'
      /\ Len(nodes) \in Nat /\ Len(nodes') >= Len(nodes) /\ Len(nodes') \in Nat
      /\ Len(nodes) >= 1 =>
           /\ Len(nodes'[1]) >= Len(nodes[1])
           /\ \A j \in DOMAIN nodes[1] : nodes'[1][j] = nodes[1][j]
  BY StoreFacts, SeqFacts DEF QueryIInv
<1>3. QueryTypes'
  BY <1>1, <1>2 DEF QueryIInv, QueryTypes, NoLimit
<1>4. ASSUME at # "idle", Len(asked) = 1
      PROVE  (/\ Remains
              /\ at \in {"end", "measure", "copy"} => StartFits
              /\ at \in {"measure", "copy"} => EndFits
              /\ at = "copy" => SizeFits
              /\ at = "done" => AnswerExact /\ NothingMissedInNode)'
  <2>1. late' # 0
    BY <1>1, <1>4
  <2>2. Remains'
    <3>1. /\ 1 \in DOMAIN nodes /\ 1 \in DOMAIN nodes' /\ 1 \in DOMAIN asked
          /\ asked[1] \in Stamps /\ nodes[1] \in Stamps /\ nodes'[1] \in Stamps
      <4>1. Len(nodes) >= 1 /\ nodes \in Seq(Stamps) /\ asked \in Seq(Stamps)
        BY <1>4 DEF QueryIInv, Remains, QueryTypes
      <4>2. /\ DOMAIN nodes = 1 .. Len(nodes) /\ DOMAIN nodes' = 1 .. Len(nodes')
            /\ DOMAIN asked = 1 .. Len(asked)
        BY <1>2, <4>1, SeqFacts
      <4>3. 1 \in DOMAIN nodes /\ 1 \in DOMAIN nodes' /\ 1 \in DOMAIN asked
        BY <1>2, <1>4, <4>1, <4>2
      <4> QED
        BY <1>2, <4>1, <4>3, SeqFacts
    <3>2. /\ Len(asked[1]) \in Nat /\ DOMAIN asked[1] = 1 .. Len(asked[1])
          /\ Len(nodes[1]) \in Nat /\ DOMAIN nodes[1] = 1 .. Len(nodes[1])
          /\ Len(nodes'[1]) \in Nat
      BY <3>1, SeqFacts DEF Stamps
    <3>3. /\ Len(nodes) >= 1 /\ Len(asked[1]) <= Len(nodes[1])
          /\ \A j \in DOMAIN asked[1] : nodes[1][j] = asked[1][j]
      BY <1>4 DEF QueryIInv, Remains
    <3>4. \A j \in DOMAIN asked[1] : j \in DOMAIN nodes[1]
      BY <3>2, <3>3
    <3> QED
      BY <1>1, <1>2, <2>1, <3>2, <3>3, <3>4 DEF Remains
  <2>3. at \in {"end", "measure", "copy"} => StartFits'
    BY <1>1, <1>4, <2>1 DEF QueryIInv, StartFits
  <2>4. at \in {"measure", "copy"} => EndFits'
    BY <1>1, <1>4, <2>1 DEF QueryIInv, EndFits
  <2>5. at = "copy" => SizeFits'
    BY <1>1, <1>4, <2>1 DEF QueryIInv, SizeFits
  <2>6. at = "done" => AnswerExact' /\ NothingMissedInNode'
    BY <1>1, <1>4, <2>1 DEF QueryIInv, AnswerExact, NothingMissedInNode, NothingMissed
  <2> QED
    BY <1>1, <2>2, <2>3, <2>4, <2>5, <2>6
<1> QED
  BY <1>1, <1>3, <1>4 DEF QueryIInv

LEMMA AskStep == QueryIInv /\ Ask => QueryIInv'
<1> SUFFICES ASSUME QueryIInv, Ask PROVE QueryIInv'
  OBVIOUS
<1>1. /\ at' = "start" /\ asked' = nodes /\ late' = 0 /\ nodes' = nodes
      /\ lo' \in 0 .. MaxStamp + 1 /\ hi' \in lo' .. MaxStamp + 1
      /\ limit' \in {NoLimit} \cup {{l} : l \in Limits}
  BY DEF Ask
<1>2. nodes \in Seq(Stamps) /\ Increasing(nodes)
  BY DEF QueryIInv, QueryTypes
<1>3. lo' \in Nat /\ hi' \in Nat /\ lo' <= hi'
  BY <1>1, RangeQueryAssumption
<1>4. limit' \in SUBSET Nat /\ \A k, l \in limit' : k = l
  BY <1>1, RangeQueryAssumption DEF NoLimit
<1>5. (Increasing(nodes))'
  BY <1>1, <1>2 DEF Increasing
<1>6. QueryTypes'
  BY <1>1, <1>2, <1>3, <1>4, <1>5 DEF QueryTypes
<1>7. Len(asked') = 1 => Remains'
  <2> SUFFICES ASSUME Len(nodes) = 1 PROVE Remains'
    BY <1>1
  <2>1. 1 \in DOMAIN nodes /\ \A n \in DOMAIN nodes : nodes[n] \in Stamps
    BY <1>2, SeqFacts
  <2>2. nodes[1] \in Stamps
    BY <2>1
  <2>3. Len(nodes[1]) \in Nat
    BY <2>2, SeqFacts DEF Stamps
  <2> QED
    BY <1>1, <2>3 DEF Remains
<1> QED
  BY <1>1, <1>6, <1>7 DEF QueryIInv

(* What the first node is while a query about it is under way. *)
LEMMA FirstNode ==
    ASSUME QueryIInv, at # "idle", Len(asked) = 1
    PROVE  /\ QueryTypes /\ Remains /\ asked[1] \in Stamps /\ nodes[1] \in Stamps
           /\ Len(asked[1]) \in Nat /\ DOMAIN asked[1] = 1 .. Len(asked[1])
           /\ \A j \in DOMAIN asked[1] : asked[1][j] \in Nat
           /\ Len(nodes[1]) \in Nat /\ DOMAIN nodes[1] = 1 .. Len(nodes[1])
           /\ DOMAIN asked[1] \subseteq DOMAIN nodes[1]
           /\ \A j \in DOMAIN asked[1] : nodes[1][j] = asked[1][j]
           /\ Len(nodes) >= 1
           /\ late = 0 => nodes = asked
<1>1. QueryTypes /\ Remains
  BY DEF QueryIInv
<1>2. nodes \in Seq(Stamps) /\ asked \in Seq(Stamps) /\ Len(nodes) >= 1
  BY <1>1 DEF QueryTypes, Remains
<1>3. 1 \in DOMAIN nodes /\ 1 \in DOMAIN asked
  BY <1>2, SeqFacts
<1>4. asked[1] \in Stamps /\ nodes[1] \in Stamps
  BY <1>2, <1>3, SeqFacts
<1>5. /\ Len(asked[1]) \in Nat /\ DOMAIN asked[1] = 1 .. Len(asked[1])
      /\ \A j \in DOMAIN asked[1] : asked[1][j] \in Nat
      /\ Len(nodes[1]) \in Nat /\ DOMAIN nodes[1] = 1 .. Len(nodes[1])
  BY <1>4, SeqFacts DEF Stamps
<1>6. Len(asked[1]) <= Len(nodes[1])
  BY <1>1 DEF Remains
<1>7. DOMAIN asked[1] \subseteq DOMAIN nodes[1]
  BY <1>5, <1>6
<1> QED
  BY <1>1, <1>2, <1>4, <1>5, <1>7 DEF Remains

LEMMA FindStartStep == QueryIInv /\ FindStart => QueryIInv'
<1> SUFFICES ASSUME QueryIInv, FindStart PROVE QueryIInv'
  OBVIOUS
<1>1. /\ at = "start" /\ start' \in Nearest(lo, FALSE)
      /\ at' = IF start' = NoRef THEN "error" ELSE "end"
      /\ UNCHANGED <<nodes, lo, hi, limit, asked, end, size, answer, late>>
  BY DEF FindStart, query
<1>2. QueryTypes /\ lo \in Nat
  BY DEF QueryIInv, QueryTypes
<1>3. QueryTypes'
  BY <1>1, <1>2 DEF QueryTypes, Increasing
<1>4. ASSUME Len(asked) = 1 PROVE Remains' /\ (at' = "end" => StartFits')
  <2>1. /\ Remains /\ DOMAIN asked[1] \subseteq DOMAIN nodes[1]
        /\ \A j \in DOMAIN asked[1] : nodes[1][j] = asked[1][j]
        /\ late = 0 => nodes = asked
    BY <1>1, <1>4, FirstNode
  <2>2. Remains'
    BY <1>1, <2>1 DEF Remains
  <2>3. ASSUME start' # NoRef PROVE StartFits'
    <3> DEFINE r == start'
    <3>1. r \in Refs /\ StartsAt(r, lo)
      <4>1. r \in Nearest(lo, FALSE) /\ r # NoRef
        BY <1>1, <2>3
      <4> HIDE DEF r
      <4> QED
        BY <1>2, <4>1, NearestFacts
    <3>2. \A j \in DOMAIN asked[1] : asked[1][j] >= lo => r.node = 1 /\ r.index < j
      BY <2>1, <3>1 DEF StartsAt
    <3>3. late = 0 => /\ r.node = 1 /\ r.index <= Len(asked[1])
                      /\ \A j \in DOMAIN asked[1] : r.index < j => asked[1][j] >= lo
      BY <1>4, <2>1, <3>1 DEF StartsAt
    <3> QED
      BY <1>1, <3>1, <3>2, <3>3 DEF StartFits
  <2> QED
    BY <1>1, <2>2, <2>3
<1> QED
  BY <1>1, <1>3, <1>4 DEF QueryIInv

LEMMA FindEndStep == QueryIInv /\ FindEnd => QueryIInv'
<1> SUFFICES ASSUME QueryIInv, FindEnd PROVE QueryIInv'
  OBVIOUS
<1>1. /\ at = "end" /\ end' \in Nearest(hi, TRUE)
      /\ at' = IF end' = NoRef THEN "error" ELSE "measure"
      /\ UNCHANGED <<nodes, lo, hi, limit, asked, start, size, answer, late>>
  BY DEF FindEnd, query
<1>2. QueryTypes /\ hi \in Nat
  BY DEF QueryIInv, QueryTypes
<1>3. QueryTypes'
  BY <1>1, <1>2 DEF QueryTypes, Increasing
<1>4. ASSUME Len(asked) = 1 PROVE Remains' /\ StartFits' /\ (at' = "measure" => EndFits')
  <2>1. /\ Remains /\ DOMAIN asked[1] \subseteq DOMAIN nodes[1]
        /\ \A j \in DOMAIN asked[1] : nodes[1][j] = asked[1][j]
        /\ late = 0 => nodes = asked
    BY <1>1, <1>4, FirstNode
  <2>2. Remains'
    BY <1>1, <2>1 DEF Remains
  <2>3. StartFits'
    BY <1>1, <1>4 DEF QueryIInv, StartFits
  <2>4. ASSUME end' # NoRef PROVE EndFits'
    <3> DEFINE r == end'
    <3>1. r \in Refs /\ EndsAt(r, hi)
      <4>1. r \in Nearest(hi, TRUE) /\ r # NoRef
        BY <1>1, <2>4
      <4> HIDE DEF r
      <4> QED
        BY <1>2, <4>1, NearestFacts
    <3>2. r.node = 1 => \A j \in DOMAIN asked[1] : asked[1][j] <= hi => j <= r.index + 1
      BY <2>1, <3>1 DEF EndsAt
    <3>3. late = 0 /\ hi >= asked[1][1] =>
            /\ r.node = 1 /\ r.index < Len(asked[1])
            /\ \A j \in DOMAIN asked[1] : j <= r.index + 1 => asked[1][j] <= hi
      BY <1>4, <2>1, <3>1 DEF EndsAt
    <3> QED
      BY <1>1, <3>1, <3>2, <3>3 DEF EndFits
  <2> QED
    BY <1>1, <2>2, <2>3, <2>4
<1> QED
  BY <1>1, <1>3, <1>4 DEF QueryIInv

LEMMA MeasureStep == QueryIInv /\ Measure => QueryIInv'
<1> SUFFICES ASSUME QueryIInv, Measure PROVE QueryIInv'
  OBVIOUS
<1>1. /\ at = "measure"
      /\ at' = IF \E i \in DOMAIN AsIter : AsIter[i].panics THEN "panic" ELSE "copy"
      /\ UNCHANGED <<nodes, lo, hi, limit, asked, start, end, answer, late>>
  BY DEF Measure, query
<1>2. QueryTypes
  BY DEF QueryIInv
<1>3. QueryTypes'
  BY <1>1, <1>2 DEF QueryTypes, Increasing
<1>4. ASSUME Len(asked) = 1
      PROVE  Remains' /\ StartFits' /\ EndFits' /\ (at' = "copy" => SizeFits')
  <2>1. Remains /\ StartFits /\ EndFits
    BY <1>1, <1>4 DEF QueryIInv
  <2>2. Remains'
    BY <1>1, <2>1 DEF Remains
  <2>3. StartFits'
    BY <1>1, <2>1 DEF StartFits
  <2>4. EndFits'
    BY <1>1, <2>1 DEF EndFits
  <2>5. ASSUME at' = "copy", start.node = 1 PROVE size' = Len(SliceOf(1).ts) /\ size' \in Nat
    <3>1. start \in Refs /\ end \in Refs /\ Len(nodes) >= 1
      BY <2>1 DEF StartFits, EndFits, Remains
    <3>2. AsIter = [i \in 1 .. 1 |-> SliceOf(1 + 1 - i)] /\ AsIter[1] = SliceOf(1)
      BY <2>5, <3>1, OneSlice
    <3>3. 1 \in DOMAIN AsIter
      BY <3>2
    <3>4. ~SliceOf(1).panics
      BY <1>1, <2>5, <3>2, <3>3
    <3>5. SliceOf(1).ts \in Stamps
      BY <1>2, <2>5, <3>1, <3>4, SliceFacts
    <3>6. Len(SliceOf(1).ts) \in Nat
      BY <3>5, SeqFacts DEF Stamps
    <3> QED
      BY <2>5, <3>1, <3>6, OneMeasured
  <2>6. at' = "copy" => SizeFits'
    BY <1>1, <2>5 DEF SizeFits, SliceOf
  <2> QED
    BY <2>2, <2>3, <2>4, <2>6
<1> QED
  BY <1>1, <1>3, <1>4 DEF QueryIInv

LEMMA ReplyStep == QueryIInv /\ Reply => QueryIInv'
<1> SUFFICES ASSUME QueryIInv, Reply PROVE QueryIInv'
  OBVIOUS
<1>1. /\ at' = "idle" /\ lo' = 0 /\ hi' = 0 /\ limit' = {} /\ asked' = <<>> /\ late' = 0
      /\ nodes' = nodes
  BY DEF Reply, NoLimit
<1>2. nodes \in Seq(Stamps) /\ Increasing(nodes) /\ <<>> \in Seq(Stamps)
  BY DEF QueryIInv, QueryTypes
<1>3. QueryTypes'
  BY <1>1, <1>2 DEF QueryTypes, Increasing
<1> QED
  BY <1>1, <1>3 DEF QueryIInv

(* What the loop writes, when it goes round once and does not panic. *)
LEMMA CopiedFacts ==
    ASSUME start \in Refs, start.node = 1, NEW len \in Nat, size \in Nat, len <= size,
           Len(SliceOf(1).ts) \in Nat, ~Copied(len).panics
    PROVE  LET n == Monus(Len(SliceOf(1).ts), size - len)
           IN  /\ ~SliceOf(1).panics /\ n \in 0 .. len
               /\ Copied(len).room = len - n
               /\ Copied(len).out = SubSeq(SliceOf(1).ts, 1, n) \o <<>>
<1> DEFINE S == SliceOf(1)
           c == [skip |-> size - len, room |-> len, panics |-> FALSE, out |-> <<>>]
           n == Monus(Len(S.ts), size - len)
<1>1. Copied(len) = CopySlice(c, S)
  BY OneCopied
<1> HIDE DEF S
<1>2. c.skip = size - len /\ c.room = len /\ c.panics = FALSE /\ c.out = <<>>
  OBVIOUS
<1> HIDE DEF c
<1>3. n \in Nat
  BY DEF Monus, S
<1> DEFINE k == Monus(c.skip, n)
           e == c.panics \/ S.panics \/ n > c.room
           o == SubSeq(S.ts, 1, n) \o c.out
           m == c.room - n
<1>4. CopySlice(c, S) = [skip |-> k, room |-> m, panics |-> e, out |-> o]
  BY <1>2 DEF CopySlice
<1> HIDE DEF n, k, e, o, m
<1>5. CopySlice(c, S).panics = e
  BY <1>4
<1>6. CopySlice(c, S).room = m
  BY <1>4
<1>7. CopySlice(c, S).out = o
  BY <1>4
<1>8. ~e
  BY <1>1, <1>5
<1>9. ~S.panics /\ ~(n > len)
  BY <1>2, <1>8 DEF e
<1>10. n \in 0 .. len
  BY <1>3, <1>9
<1>11. m = len - n /\ o = SubSeq(S.ts, 1, n) \o <<>>
  BY <1>2 DEF m, o
<1> QED
  BY <1>1, <1>6, <1>7, <1>9, <1>10, <1>11 DEF S, n

(* Without a limit every sample of the first node's slice is in the answer. *)
LEMMA AllCopied ==
    ASSUME NEW q \in Stamps, NEW room \in Nat, NEW ans,
           ans = [i \in 1 .. room |-> 0] \o (SubSeq(q, 1, Len(q)) \o <<>>),
           NEW i \in DOMAIN q
    PROVE  q[i] \in ToSet(ans)
<1> DEFINE z == [k \in 1 .. room |-> 0]
<1>1. Len(q) \in Nat /\ DOMAIN q = 1 .. Len(q) /\ \A j \in DOMAIN q : q[j] \in Nat /\ q \in Seq(Nat)
  BY SeqFacts DEF Stamps
<1>2. SubSeq(q, 1, Len(q)) = q
  BY <1>1, SubSeqFull
<1>3. q \o <<>> = q
  BY <1>1, ConcatEmptySeq
<1>4. z \in Seq(Nat) /\ Len(z) = room
  <2>1. z \in [1 .. room -> Nat]
    OBVIOUS
  <2> HIDE DEF z
  <2>2. z \in Seq(Nat)
    BY <2>1, SeqDef
  <2>3. Len(z) \in Nat /\ 1 .. Len(z) = 1 .. room
    BY <2>1, <2>2, LenProperties
  <2>4. Len(z) <= room
    <3>1. Len(z) # 0 => Len(z) \in 1 .. Len(z)
      BY <2>3
    <3> QED
      BY <2>3, <3>1
  <2>5. room <= Len(z)
    <3>1. room # 0 => room \in 1 .. room
      OBVIOUS
    <3> QED
      BY <2>3, <3>1
  <2> QED
    BY <2>2, <2>3, <2>4, <2>5
<1>5. ans = z \o q
  BY <1>2, <1>3
<1> HIDE DEF z
<1>6. /\ ans \in Seq(Nat) /\ Len(ans) = room + Len(q)
      /\ \A k \in 1 .. Len(ans) : ans[k] = IF k <= room THEN z[k] ELSE q[k - room]
  <2>1. /\ z \o q \in Seq(Nat) /\ Len(z \o q) = Len(z) + Len(q)
        /\ \A k \in 1 .. Len(z) + Len(q) : (z \o q)[k] = IF k <= Len(z) THEN z[k] ELSE q[k - Len(z)]
    BY <1>1, <1>4, ConcatProperties
  <2> QED
    BY <1>4, <1>5, <2>1
<1>7. room + i \in 1 .. Len(ans) /\ ~(room + i <= room) /\ room + i - room = i
  BY <1>1, <1>6
<1>8. DOMAIN ans = 1 .. Len(ans)
  BY <1>6, SeqFacts
<1>9. ans[room + i] = q[i]
  BY <1>6, <1>7
<1> QED
  BY <1>7, <1>8, <1>9 DEF ToSet

LEMMA CopyStep == QueryIInv /\ Copy => QueryIInv'
<1> SUFFICES ASSUME QueryIInv, Copy PROVE QueryIInv'
  OBVIOUS
<1> DEFINE len == Min({size} \cup limit)
           res == Copied(len)
<1>1. /\ at = "copy" /\ at' \in {"panic", "done"}
      /\ UNCHANGED <<nodes, lo, hi, limit, asked, start, end, size, late>>
      /\ at' = "done" => ~res.panics /\ answer' = [i \in 1 .. res.room |-> 0] \o res.out
  BY DEF Copy, query
<1> HIDE DEF res
<1>2. QueryTypes
  BY DEF QueryIInv
<1>3. QueryTypes'
  BY <1>1, <1>2 DEF QueryTypes, Increasing
<1>4. ASSUME Len(asked) = 1
      PROVE  Remains' /\ (at' = "done" => AnswerExact' /\ NothingMissedInNode')
  <2>1. Remains /\ StartFits /\ EndFits /\ SizeFits
    BY <1>1, <1>4 DEF QueryIInv
  <2>2. Remains'
    BY <1>1, <2>1 DEF Remains
  <2> SUFFICES ASSUME at' = "done" PROVE AnswerExact' /\ NothingMissedInNode'
    BY <2>2
  <2>3. /\ asked[1] \in Stamps /\ nodes[1] \in Stamps
        /\ Len(asked[1]) \in Nat /\ DOMAIN asked[1] = 1 .. Len(asked[1])
        /\ \A j \in DOMAIN asked[1] : asked[1][j] \in Nat
        /\ Len(nodes[1]) \in Nat /\ DOMAIN nodes[1] = 1 .. Len(nodes[1])
        /\ DOMAIN asked[1] \subseteq DOMAIN nodes[1]
        /\ \A j \in DOMAIN asked[1] : nodes[1][j] = asked[1][j]
        /\ Len(nodes) >= 1
        /\ late = 0 => nodes = asked
    BY <1>1, <1>4, FirstNode
  <2>4. start \in Refs /\ end \in Refs /\ start.index \in Nat /\ end.index \in Nat
    BY <2>1 DEF StartFits, EndFits, Refs
  <2>5. CASE start.node # 1
    <3>1. late # 0 /\ \A j \in DOMAIN asked[1] : ~(asked[1][j] >= lo)
      BY <2>1, <2>5 DEF StartFits
    <3>2. AnswerExact'
      BY <1>1, <3>1 DEF AnswerExact
    <3>3. lo \in Nat /\ \A j \in DOMAIN asked[1] : ~(lo <= asked[1][j])
      BY <1>2, <2>3, <3>1 DEF QueryTypes
    <3>4. \A n \in DOMAIN asked : n = 1
      BY <1>2, <1>4, SeqFacts DEF QueryTypes
    <3>5. NothingMissedInNode'
      BY <1>1, <3>3, <3>4 DEF NothingMissedInNode, NothingMissed
    <3> QED
      BY <3>2, <3>5
  <2>6. CASE start.node = 1
    <3>1. size \in Nat /\ (late = 0 => size = Len(SliceOf(1).ts))
      BY <2>1, <2>6 DEF SizeFits
    <3>2. /\ {size} \cup limit \in SUBSET Nat /\ {size} \cup limit # {} /\ size \in {size} \cup limit
          /\ limit = NoLimit => {size} \cup limit = {size}
      BY <1>2, <3>1 DEF QueryTypes, NoLimit
    <3>3. len \in Nat /\ len <= size /\ (limit = NoLimit => len = size)
      BY <3>2, SmallestExists
    <3> HIDE DEF len
    <3>4. ~SliceOf(1).panics
      <4> DEFINE c == [skip |-> size - len, room |-> len, panics |-> FALSE, out |-> <<>>]
      <4>1. res = CopySlice(c, SliceOf(1))
        BY <2>4, <2>6, OneCopied DEF res
      <4> HIDE DEF c
      <4>2. (SliceOf(1).panics) => CopySlice(c, SliceOf(1)).panics
        BY DEF CopySlice
      <4> QED
        BY <1>1, <4>1, <4>2
    <3> DEFINE q == SliceOf(1).ts
               a == start.index
    <3>5. PICK b \in Nat :
             /\ a <= b /\ b <= Len(nodes[1])
             /\ q = SubSeq(nodes[1], a + 1, b)
             /\ q \in Stamps /\ Len(q) = b - a
             /\ \A i \in 1 .. b - a : q[i] = nodes[1][a + i]
             /\ end.node # 1 => b = Len(nodes[1])
             /\ end.node = 1 => b = Len(nodes[1]) \/ b = end.index + 1
             /\ end.node = 1 /\ end.index < Len(nodes[1]) => b = end.index + 1
      BY <1>2, <2>3, <2>4, <2>6, <3>4, SliceFacts
    <3>6. Len(q) \in Nat /\ q \in Seq(Nat) /\ DOMAIN q = 1 .. Len(q)
      BY <3>5, SeqFacts DEF Stamps
    <3> DEFINE n == Monus(Len(q), size - len)
    <3>7. n \in 0 .. len /\ res.room = len - n /\ res.out = SubSeq(q, 1, n) \o <<>>
      BY <1>1, <2>4, <2>6, <3>1, <3>3, <3>6, CopiedFacts DEF res
    <3>8. answer' = [i \in 1 .. len - n |-> 0] \o (SubSeq(q, 1, n) \o <<>>)
      BY <1>1, <3>7
    <3>9. limit = NoLimit => n = Len(q)
      BY <3>1, <3>3, <3>6 DEF Monus
    <3>10. late = 0 => n = len
      BY <3>1, <3>3, <3>6 DEF Monus
    <3> HIDE DEF n, q, a
    <3>11. NothingMissedInNode'
      <4> SUFFICES ASSUME limit = NoLimit, NEW j \in DOMAIN asked[1],
                          lo <= asked[1][j], asked[1][j] <= hi
                   PROVE  asked[1][j] \in ToSet(answer')
        <5>1. \A m \in DOMAIN asked : m = 1
          BY <1>2, <1>4, SeqFacts DEF QueryTypes
        <5> QED
          BY <1>1, <5>1 DEF NothingMissedInNode, NothingMissed
      <4>1. lo \in Nat /\ asked[1][j] \in Nat /\ j \in Nat /\ j <= Len(nodes[1])
        BY <1>2, <2>3 DEF QueryTypes
      <4>2. asked[1][j] >= lo
        BY <4>1
      <4>3. a < j
        BY <2>1, <4>2 DEF StartFits, a
      <4>4. end.node = 1 => j <= end.index + 1
        BY <2>1 DEF EndFits
      <4>5. j <= b
        BY <3>5, <4>1, <4>4
      <4>6. a \in Nat
        BY <2>4 DEF a
      <4>7. j - a \in 1 .. b - a /\ a + (j - a) = j
        BY <3>5, <4>1, <4>3, <4>5, <4>6
      <4>8. q[j - a] = asked[1][j] /\ j - a \in DOMAIN q
        BY <2>3, <3>5, <3>6, <4>7
      <4>9. len - n \in Nat
        BY <3>3, <3>7
      <4>10. answer' = [i \in 1 .. len - n |-> 0] \o (SubSeq(q, 1, Len(q)) \o <<>>)
        BY <3>8, <3>9
      <4>11. q[j - a] \in ToSet(answer')
        <5> DEFINE room == len - n
                   i == j - a
                   ans == answer'
        <5>1. room \in Nat /\ ans = [k \in 1 .. room |-> 0] \o (SubSeq(q, 1, Len(q)) \o <<>>)
          BY <4>9, <4>10
        <5>2. i \in DOMAIN q
          BY <4>8
        <5> HIDE DEF room, i, ans
        <5>3. q[i] \in ToSet(ans)
          BY <3>5, <5>1, <5>2, AllCopied
        <5> QED
          BY <5>3 DEF i, ans
      <4> QED
        BY <4>8, <4>11
    <3>12. AnswerExact'
      <4> SUFFICES ASSUME late = 0, hi >= asked[1][1]
                   PROVE  answer' = SubSeq(InRange(asked[1]), 1,
                                           Min({Len(InRange(asked[1]))} \cup limit))
        <5>1. (InRange(asked[1]))' = InRange(asked[1])
          BY <1>1 DEF InRange
        <5> QED
          BY <1>1, <5>1 DEF AnswerExact
      <4>1. nodes = asked /\ size = Len(q) /\ n = len
        BY <2>3, <3>1, <3>10 DEF q
      <4>2. /\ a \in Nat /\ a <= Len(asked[1])
            /\ \A j \in DOMAIN asked[1] : (asked[1][j] >= lo => a < j) /\ (a < j => asked[1][j] >= lo)
        BY <2>1, <2>4 DEF StartFits, a
      <4>3. /\ end.node = 1 /\ end.index < Len(asked[1])
            /\ \A j \in DOMAIN asked[1] :
                 /\ asked[1][j] <= hi => j <= end.index + 1
                 /\ j <= end.index + 1 => asked[1][j] <= hi
        BY <2>1 DEF EndFits
      <4>4. b = end.index + 1 /\ b <= Len(asked[1])
        BY <3>5, <4>1, <4>3
      <4>5. a \in 0 .. Len(asked[1]) /\ b \in a .. Len(asked[1])
        BY <2>3, <3>5, <4>2, <4>4
      <4>6. \A j \in DOMAIN asked[1] : (lo <= asked[1][j] <=> a < j) /\ (asked[1][j] <= hi <=> j <= b)
        <5> TAKE j \in DOMAIN asked[1]
        <5>1. lo \in Nat /\ asked[1][j] \in Nat
          BY <1>2, <2>3 DEF QueryTypes
        <5>2. lo <= asked[1][j] <=> asked[1][j] >= lo
          BY <5>1
        <5> QED
          BY <4>2, <4>3, <4>4, <5>2
      <4>7. InRange(asked[1]) = SubSeq(asked[1], a + 1, b)
        <5> DEFINE x == asked[1]
        <5>1. /\ x \in Stamps /\ a \in 0 .. Len(x) /\ b \in a .. Len(x)
              /\ \A j \in DOMAIN x : (lo <= x[j] <=> a < j) /\ (x[j] <= hi <=> j <= b)
          BY <2>3, <4>5, <4>6
        <5> HIDE DEF x
        <5>2. InRange(x) = SubSeq(x, a + 1, b)
          BY <5>1, InRangeFacts
        <5> QED
          BY <5>2 DEF x
      <4>8. InRange(asked[1]) = q
        BY <3>5, <4>1, <4>7
      <4>9. Min({Len(InRange(asked[1]))} \cup limit) = len
        BY <4>1, <4>8 DEF len
      <4>10. answer' = [i \in 1 .. 0 |-> 0] \o (SubSeq(q, 1, len) \o <<>>)
        <5>1. len - n = 0
          BY <3>3, <4>1
        <5> QED
          BY <3>8, <4>1, <5>1
      <4>11. SubSeq(q, 1, len) \in Seq(Nat)
        <5>1. \A i \in 1 .. len : q[i] \in Nat
          <6>1. \A i \in 1 .. Len(q) : q[i] \in Nat
            BY <3>6, SeqFacts
          <6>2. \A i \in 1 .. len : i \in 1 .. Len(q)
            <7>1. len \in Nat /\ len <= Len(q) /\ Len(q) \in Nat
              BY <3>3, <3>6, <4>1
            <7> QED
              BY <7>1
          <6> QED
            BY <6>1, <6>2
        <5> QED
          BY <3>3, <5>1, SubSeqProperties
      <4>12. [i \in 1 .. 0 |-> 0] = <<>>
        OBVIOUS
      <4> DEFINE s == SubSeq(q, 1, len)
      <4>13. <<>> \o (s \o <<>>) = s
        <5> HIDE DEF s
        <5>1. s \in Seq(Nat)
          BY <4>11 DEF s
        <5> QED
          BY <5>1, ConcatEmptySeq
      <4> QED
        BY <4>8, <4>9, <4>10, <4>12, <4>13
    <3> QED
      BY <3>11, <3>12
  <2> QED
    BY <2>5, <2>6
<1> QED
  BY <1>1, <1>3, <1>4 DEF QueryIInv

LEMMA QueryIInvStep ==
    ASSUME MinStep # 0
    PROVE  QueryIInv /\ [QueryNext]_queryVars => QueryIInv'
<1> SUFFICES ASSUME QueryIInv, [QueryNext]_queryVars PROVE QueryIInv'
  OBVIOUS
<1>1. CASE Grow \/ Write
  BY <1>1, StoreStep
<1>2. CASE UNCHANGED queryVars
  <2>1. UNCHANGED <<nodes, at, lo, hi, limit, asked, start, end, size, answer, late>>
    BY <1>2 DEF queryVars, query
  <2>2. QueryTypes'
    BY <2>1 DEF QueryIInv, QueryTypes, Increasing
  <2>3. (Remains => Remains') /\ (StartFits => StartFits') /\ (EndFits => EndFits')
    BY <2>1 DEF Remains, StartFits, EndFits
  <2>4. SizeFits => SizeFits'
    BY <2>1 DEF SizeFits, SliceOf
  <2>5. AnswerExact /\ NothingMissedInNode => (AnswerExact /\ NothingMissedInNode)'
    <3>1. (InRange(asked[1]))' = InRange(asked[1])
      BY <2>1 DEF InRange
    <3>2. AnswerExact => AnswerExact'
      BY <2>1, <3>1 DEF AnswerExact
    <3>3. NothingMissedInNode => NothingMissedInNode'
      BY <2>1 DEF NothingMissedInNode, NothingMissed
    <3> QED
      BY <3>2, <3>3
  <2> QED
    BY <2>1, <2>2, <2>3, <2>4, <2>5 DEF QueryIInv
<1> QED
  BY <1>1, <1>2, AskStep, FindStartStep, FindEndStep, MeasureStep, CopyStep, ReplyStep
  DEF QueryNext

(* A query about one node: QueryIInv holds before and after its answer too. *)
LEMMA QueryIInvImplies == QueryIInv => AnswerExact /\ NothingMissedInNode
<1> SUFFICES ASSUME QueryIInv PROVE AnswerExact /\ NothingMissedInNode
  OBVIOUS
<1>1. CASE at = "done" /\ Len(asked) = 1
  BY <1>1 DEF QueryIInv
<1>2. CASE ~(at = "done" /\ Len(asked) = 1)
  BY <1>2 DEF AnswerExact, NothingMissedInNode, NothingMissed
<1> QED
  BY <1>1, <1>2

(* GetTimeSeries answers a query about a series of one node with exactly the
   samples of the range, the first `limit' of them in the order they were
   stored, if nothing is stored meanwhile.  Samples must differ in their
   timestamps: a binary search may land on any of several equal ones. *)
THEOREM RangeAnswered == MinStep # 0 => (QuerySpec => []AnswerExact)
<1> SUFFICES ASSUME MinStep # 0 PROVE QuerySpec => []AnswerExact
  OBVIOUS
<1>1. QueryIInv /\ [QueryNext]_queryVars => QueryIInv'
  BY QueryIInvStep
<1>2. QuerySpec => []QueryIInv
  BY <1>1, QueryInitIInv, PTL DEF QuerySpec
<1> QED
  BY <1>2, QueryIInvImplies, PTL

(* Without a limit, no sample of the range that was stored in the one node when
   the query came is missing from the answer, even if the persist task fills the
   node and links another between the steps of get_range and the copy. *)
THEOREM RangeComplete == MinStep # 0 => (QuerySpec => []NothingMissedInNode)
<1> SUFFICES ASSUME MinStep # 0 PROVE QuerySpec => []NothingMissedInNode
  OBVIOUS
<1>1. QueryIInv /\ [QueryNext]_queryVars => QueryIInv'
  BY QueryIInvStep
<1>2. QuerySpec => []QueryIInv
  BY <1>1, QueryInitIInv, PTL DEF QuerySpec
<1> QED
  BY <1>2, QueryIInvImplies, PTL
=============================================================================

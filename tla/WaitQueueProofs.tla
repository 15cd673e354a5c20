---------------------------- MODULE WaitQueueProofs ----------------------------
(***************************************************************************)
(* Safety of the wait queue for any number of tasks and threads, of        *)
(* stores, wakes, closes and dropped waits, and any size of a wake batch.  *)
(*                                                                         *)
(* A node is in the list from the moment its task subscribed until it is   *)
(* woken or dropped, and whoever takes it out holds its waker until the    *)
(* waker is called.  Only the holder of the lock moves nodes, and what it  *)
(* read of the state word stays true of a word that says "waiting".        *)
(***************************************************************************)
EXTENDS WaitQueue, SequenceTheorems, TLAPS

States == {"Empty", "Waiting", "Woken", "Closed"}
Waits == [state : {"Start", "Waiting", "Woken"}, seen : Nat,
          node : {"Empty", "Waiting", "One", "All", "Closed"}, goal : Nat]
Outside == {"idle", "start", "enqueue", "check", "poll", "asleep", "drop", "wake", "wake_all",
            "more_all", "more_closed", "panic"}
Holding == {"enqueuing", "dropping", "waking", "waking_all"}
Calling == {"call", "call_all", "call_closed"}
Places == Outside \cup Holding \cup Calling
Subscribed == {"check", "poll", "asleep", "drop", "dropping"}

Types ==
    /\ state \in States /\ wakeAlls \in Nat /\ queue \in Seq(Waiters)
    /\ lock \in Actors \cup {NoOne} /\ curr \in States
    /\ pc \in [Actors -> Places]
    /\ wait \in [Waiters -> Waits]
    /\ batch \in [Actors -> SUBSET Waiters] /\ woken \in SUBSET Waiters
    /\ value \in Nat /\ owed \in BOOLEAN
    /\ calls \in [wake : Nat, close : Nat, drop : Nat]

(* No task is in the list twice. *)
Once(q) == \A i, j \in DOMAIN q : i # j => q[i] # q[j]

(* Where a task is, what its Waiter says, and whether it is in the list. *)
WaiterOf(w) ==
    /\ wait[w].state = "Waiting" => pc[w] \in Subscribed
    /\ wait[w].state # "Waiting" => wait[w].node = "Empty"
    /\ pc[w] \in {"asleep", "drop", "dropping"} => wait[w].state = "Waiting"
    /\ pc[w] \in {"poll", "check"} => wait[w].state \in {"Waiting", "Woken"}
    /\ pc[w] = "asleep" => wait[w].node # "Empty"
    /\ w \in ToSet(queue) <=>
        wait[w].state = "Waiting" /\ wait[w].node \in {"Empty", "Waiting"}

(* A task that sleeps can be woken. *)
ReachOf(w) ==
    pc[w] = "asleep" =>
        \/ w \in ToSet(queue) /\ wait[w].node = "Waiting"
        \/ w \in woken
        \/ \E p \in Actors : w \in batch[p]

(* Only the holder of the lock is in a critical section. *)
LockOf(p) == pc[p] \in Holding <=> lock = p

(* Wakers are held only until they are called. *)
BatchOf(p) == pc[p] \notin Calling => batch[p] = {}

Waiting == \A w \in Waiters : WaiterOf(w) /\ ReachOf(w)
Acting == \A p \in Actors : LockOf(p) /\ BatchOf(p)

(* Nobody but the holder of the lock, and close, ends "waiting". *)
Word ==
    /\ (lock # NoOne /\ curr = "Waiting") => state \in {"Waiting", "Closed"}
    /\ calls.close = 0 => state # "Closed"

(* The inductive invariant. *)
IInv == Types /\ Once(queue) /\ Waiting /\ Acting /\ Word /\ WakeKept

-----------------------------------------------------------------------------
(* The list. *)
LEMMA SeqFacts ==
    ASSUME NEW S, NEW q \in Seq(S)
    PROVE  /\ Len(q) \in Nat /\ DOMAIN q = 1 .. Len(q)
           /\ \A i \in DOMAIN q : q[i] \in S
           /\ ToSet(q) \subseteq S
BY LenProperties, ElementOfSeq DEF ToSet

LEMMA PutLast ==
    ASSUME NEW S, NEW q \in Seq(S), Once(q), NEW e \in S, e \notin ToSet(q)
    PROVE  Append(q, e) \in Seq(S) /\ Once(Append(q, e)) /\ ToSet(Append(q, e)) = ToSet(q) \cup {e}
<1>1. /\ Append(q, e) \in Seq(S) /\ Len(q) \in Nat /\ DOMAIN q = 1 .. Len(q)
      /\ DOMAIN Append(q, e) = 1 .. Len(q) + 1 /\ Append(q, e)[Len(q) + 1] = e
      /\ \A i \in 1 .. Len(q) : Append(q, e)[i] = q[i]
  BY AppendProperties, LenProperties
<1>2. \A i \in 1 .. Len(q) + 1 : i \in 1 .. Len(q) \/ i = Len(q) + 1
  BY <1>1
<1>3. ToSet(Append(q, e)) = ToSet(q) \cup {e}
  <2>1. \A i \in 1 .. Len(q) : i \in 1 .. Len(q) + 1
    BY <1>1
  <2>2. Len(q) + 1 \in 1 .. Len(q) + 1
    BY <1>1
  <2> QED
    BY <1>1, <1>2, <2>1, <2>2, Zenon DEF ToSet
<1>4. \A i \in 1 .. Len(q) : q[i] # e
  BY <1>1 DEF ToSet
<1> QED
  BY <1>1, <1>2, <1>3, <1>4 DEF Once

(* The first n places of a sequence, and those after them. *)
LEMMA Parts ==
    ASSUME NEW S, NEW q \in Seq(S), NEW n \in Nat, n <= Len(q)
    PROVE  /\ SubSeq(q, 1, n) \in Seq(S) /\ Len(SubSeq(q, 1, n)) = n
           /\ \A i \in 1 .. n : SubSeq(q, 1, n)[i] = q[i]
           /\ SubSeq(q, n + 1, Len(q)) \in Seq(S) /\ Len(SubSeq(q, n + 1, Len(q))) = Len(q) - n
           /\ \A i \in 1 .. Len(q) - n : SubSeq(q, n + 1, Len(q))[i] = q[n + i]
<1>1. Len(q) \in Nat /\ DOMAIN q = 1 .. Len(q) /\ \A i \in 1 .. Len(q) : q[i] \in S
  BY SeqFacts
<1>2. PICK a, b : a = SubSeq(q, 1, n) /\ b = SubSeq(q, n + 1, Len(q))
  OBVIOUS
<1>3. a \in Seq(S) /\ Len(a) = n /\ \A i \in 1 .. n : a[i] = q[i]
  <2>1. \A i \in 1 .. n : q[i] \in S
    BY <1>1
  <2>2. /\ a \in Seq(S) /\ Len(a) = (IF 1 <= n THEN n - 1 + 1 ELSE 0)
        /\ \A i \in 1 .. n - 1 + 1 : a[i] = q[1 + i - 1]
    BY <1>2, <2>1, SubSeqProperties
  <2>3. (IF 1 <= n THEN n - 1 + 1 ELSE 0) = n /\ n - 1 + 1 = n /\ \A i \in 1 .. n : 1 + i - 1 = i
    OBVIOUS
  <2> QED
    BY <2>2, <2>3
<1>4. b \in Seq(S) /\ Len(b) = Len(q) - n /\ \A i \in 1 .. Len(q) - n : b[i] = q[n + i]
  <2>1. \A i \in n + 1 .. Len(q) : q[i] \in S
    BY <1>1
  <2>2. /\ b \in Seq(S) /\ Len(b) = (IF n + 1 <= Len(q) THEN Len(q) - (n + 1) + 1 ELSE 0)
        /\ \A i \in 1 .. Len(q) - (n + 1) + 1 : b[i] = q[n + 1 + i - 1]
    BY <1>1, <1>2, <2>1, SubSeqProperties
  <2>3. \A l, k \in Nat : k <= l => (IF k + 1 <= l THEN l - (k + 1) + 1 ELSE 0) = l - k
    OBVIOUS
  <2>4. Len(b) = Len(q) - n
    BY <1>1, <2>2, <2>3, Zenon
  <2>5. Len(q) - (n + 1) + 1 = Len(q) - n /\ \A i \in 1 .. Len(q) - n : n + 1 + i - 1 = n + i
    BY <1>1
  <2> QED
    BY <2>2, <2>4, <2>5
<1> QED
  BY <1>2, <1>3, <1>4

(* Cutting the list after n places. *)
LEMMA CutAt ==
    ASSUME NEW S, NEW q \in Seq(S), Once(q), NEW n \in 0 .. Len(q)
    PROVE  /\ SubSeq(q, n + 1, Len(q)) \in Seq(S) /\ Once(SubSeq(q, n + 1, Len(q)))
           /\ ToSet(SubSeq(q, n + 1, Len(q))) = ToSet(q) \ ToSet(SubSeq(q, 1, n))
           /\ ToSet(SubSeq(q, 1, n)) \subseteq ToSet(q)
<1>1. Len(q) \in Nat /\ DOMAIN q = 1 .. Len(q) /\ \A i \in 1 .. Len(q) : q[i] \in S
  BY SeqFacts
<1>2. n \in Nat /\ n <= Len(q)
  BY <1>1
<1>3. PICK a, b : a = SubSeq(q, 1, n) /\ b = SubSeq(q, n + 1, Len(q))
  OBVIOUS
<1>4. a \in Seq(S) /\ Len(a) = n /\ \A i \in 1 .. n : a[i] = q[i]
  BY <1>2, <1>3, Parts
<1>5. b \in Seq(S) /\ Len(b) = Len(q) - n /\ \A i \in 1 .. Len(q) - n : b[i] = q[n + i]
  BY <1>2, <1>3, Parts
<1>6. DOMAIN a = 1 .. n /\ DOMAIN b = 1 .. Len(q) - n
  BY <1>4, <1>5, LenProperties
<1>7. \A i \in 1 .. Len(q) - n : n + i \in 1 .. Len(q) /\ n + i \notin 1 .. n
  BY <1>1, <1>2
<1>8. \A i, j \in 1 .. Len(q) - n : i # j => n + i # n + j
  BY <1>1, <1>2
<1>9. Once(b)
  <2>1. ASSUME NEW i \in 1 .. Len(q) - n, NEW j \in 1 .. Len(q) - n, i # j PROVE b[i] # b[j]
    <3>1. n + i \in DOMAIN q /\ n + j \in DOMAIN q /\ n + i # n + j
      BY <1>1, <1>7, <1>8, <2>1, Zenon
    <3>2. b[i] = q[n + i] /\ b[j] = q[n + j]
      BY <1>5, Zenon
    <3> QED
      BY <3>1, <3>2, Zenon DEF Once
  <2> QED
    BY <1>6, <2>1, Zenon DEF Once
<1>10. \A i \in 1 .. n : i \in 1 .. Len(q)
  BY <1>1, <1>2
<1>11. ToSet(a) \subseteq ToSet(q)
  BY <1>1, <1>4, <1>6, <1>10 DEF ToSet
<1>12. ASSUME NEW x \in ToSet(b) PROVE x \in ToSet(q) /\ x \notin ToSet(a)
  <2>1. PICK i \in 1 .. Len(q) - n : x = q[n + i]
    BY <1>5, <1>6 DEF ToSet
  <2>2. n + i \in 1 .. Len(q) /\ \A j \in 1 .. n : j # n + i
    BY <1>7
  <2>3. \A j \in 1 .. n : q[j] # x
    BY <1>1, <1>10, <2>1, <2>2 DEF Once
  <2> QED
    BY <1>1, <1>4, <1>6, <2>1, <2>2, <2>3 DEF ToSet
<1>13. ASSUME NEW x \in ToSet(q), x \notin ToSet(a) PROVE x \in ToSet(b)
  <2>1. PICK i \in 1 .. Len(q) : x = q[i]
    BY <1>1 DEF ToSet
  <2>2. i \notin 1 .. n
    BY <1>4, <1>6, <1>13, <2>1 DEF ToSet
  <2>3. i - n \in 1 .. Len(q) - n /\ n + (i - n) = i
    BY <1>1, <1>2, <2>2
  <2>4. b[i - n] = x
    BY <1>5, <2>1, <2>3
  <2> QED
    BY <1>6, <2>3, <2>4 DEF ToSet
<1>14. ToSet(b) = ToSet(q) \ ToSet(a)
  BY <1>12, <1>13
<1> QED
  BY <1>3, <1>5, <1>9, <1>11, <1>14

LEMMA TakeHead ==
    ASSUME NEW S, NEW q \in Seq(S), Once(q), q # <<>>
    PROVE  /\ Tail(q) \in Seq(S) /\ Once(Tail(q)) /\ Head(q) \in ToSet(q) /\ Head(q) \in S
           /\ ToSet(Tail(q)) = ToSet(q) \ {Head(q)}
<1>1. /\ Len(q) \in Nat /\ Len(q) # 0 /\ DOMAIN q = 1 .. Len(q) /\ Head(q) = q[1]
      /\ \A i \in 1 .. Len(q) : q[i] \in S
  BY EmptySeq, SeqFacts
<1>2. 1 \in 0 .. Len(q) /\ 1 \in 1 .. Len(q)
  BY <1>1
<1>3. Tail(q) = SubSeq(q, 2, Len(q)) /\ 1 + 1 = 2
  BY TailIsSubSeq
<1>4. ToSet(SubSeq(q, 1, 1)) = {Head(q)}
  <2>1. \A i \in 1 .. 1 : q[i] \in S
    BY <1>1, <1>2
  <2>2. SubSeq(q, 1, 1) \in Seq(S) /\ Len(SubSeq(q, 1, 1)) = 1 /\ SubSeq(q, 1, 1)[1] = q[1]
    BY <2>1, SubSeqProperties
  <2>3. DOMAIN SubSeq(q, 1, 1) = 1 .. 1 /\ 1 .. 1 = {1}
    BY <2>2, LenProperties
  <2> QED
    BY <1>1, <2>2, <2>3 DEF ToSet
<1>5. /\ SubSeq(q, 2, Len(q)) \in Seq(S) /\ Once(SubSeq(q, 2, Len(q)))
      /\ ToSet(SubSeq(q, 2, Len(q))) = ToSet(q) \ ToSet(SubSeq(q, 1, 1))
  BY <1>2, <1>3, CutAt
<1>6. Head(q) \in ToSet(q) /\ Head(q) \in S
  BY <1>1, <1>2 DEF ToSet
<1> QED
  BY <1>3, <1>4, <1>5, <1>6

(* Removing the node of w. *)
LEMMA Removed ==
    ASSUME NEW S, NEW q \in Seq(S), Once(q), NEW w
    PROVE  /\ RemoveFirst(q, w) \in Seq(S) /\ Once(RemoveFirst(q, w))
           /\ ToSet(RemoveFirst(q, w)) = ToSet(q) \ {w}
<1>1. Len(q) \in Nat /\ DOMAIN q = 1 .. Len(q) /\ \A i \in 1 .. Len(q) : q[i] \in S
  BY SeqFacts
<1>2. CASE ~ \E i \in 1 .. Len(q) : q[i] = w
  <2>1. RemoveFirst(q, w) = q
    BY <1>2 DEF RemoveFirst
  <2>2. w \notin ToSet(q)
    BY <1>1, <1>2 DEF ToSet
  <2> QED
    BY <2>1, <2>2
<1>3. CASE \E i \in 1 .. Len(q) : q[i] = w
  <2>1. PICK n \in 1 .. Len(q) : q[n] = w
    BY <1>3
  <2>2. {i \in 1 .. Len(q) : q[i] = w} = {n}
    BY <1>1, <2>1 DEF Once
  <2>3. Min({n}) = n
    BY <1>1, <2>1 DEF Min
  <2>4. SelectInSeq(q, LAMBDA v : v = w) = n
    BY <2>2, <2>3 DEF SelectInSeq
  <2>5. RemoveFirst(q, w) = SubSeq(q, 1, n - 1) \o SubSeq(q, n + 1, Len(q))
    BY <1>3, <2>4 DEF RemoveFirst, RemoveAt
  <2>6. PICK a, b, r : /\ a = SubSeq(q, 1, n - 1) /\ b = SubSeq(q, n + 1, Len(q))
                       /\ r = RemoveFirst(q, w)
    OBVIOUS
  <2>7. n \in Nat /\ n - 1 \in Nat /\ n - 1 <= Len(q) /\ n <= Len(q)
    BY <1>1
  <2>8. a \in Seq(S) /\ Len(a) = n - 1 /\ \A i \in 1 .. n - 1 : a[i] = q[i]
    BY <2>6, <2>7, Parts
  <2>9. b \in Seq(S) /\ Len(b) = Len(q) - n /\ \A i \in 1 .. Len(q) - n : b[i] = q[n + i]
    BY <2>6, <2>7, Parts
  <2>10. /\ r \in Seq(S) /\ Len(r) = Len(a) + Len(b)
         /\ \A i \in 1 .. Len(a) + Len(b) : r[i] = IF i <= Len(a) THEN a[i] ELSE b[i - Len(a)]
    <3>1. r = a \o b /\ a \in Seq(S) /\ b \in Seq(S)
      BY <2>5, <2>6, <2>8, <2>9
    <3> QED
      BY <3>1, ConcatProperties
  <2>11. Len(a) + Len(b) = Len(q) - 1
    BY <1>1, <2>7, <2>8, <2>9
  <2>12. DOMAIN r = 1 .. Len(q) - 1
    BY <2>10, <2>11, LenProperties
  <2>13. \A i \in 1 .. Len(q) - 1 : i < n => r[i] = q[i]
    <3> TAKE i \in 1 .. Len(q) - 1
    <3> HAVE i < n
    <3>1. i <= Len(a) /\ i \in 1 .. n - 1
      BY <1>1, <2>7, <2>8
    <3> QED
      BY <2>8, <2>10, <2>11, <3>1
  <2>14. \A i \in 1 .. Len(q) - 1 : ~(i < n) => r[i] = q[i + 1]
    <3> TAKE i \in 1 .. Len(q) - 1
    <3> HAVE ~(i < n)
    <3>1. ~(i <= Len(a)) /\ i - Len(a) \in 1 .. Len(q) - n /\ n + (i - Len(a)) = i + 1
      BY <1>1, <2>7, <2>8
    <3> QED
      BY <2>9, <2>10, <2>11, <3>1
  <2>15. \A i \in 1 .. Len(q) - 1 : i \in 1 .. Len(q) /\ i + 1 \in 1 .. Len(q) /\ (~(i < n) => i + 1 # n)
    BY <1>1, <2>7
  <2>16. ASSUME NEW i \in 1 .. Len(q) - 1, NEW j \in 1 .. Len(q) - 1, i # j PROVE r[i] # r[j]
    <3>1. PICK x, y \in 1 .. Len(q) : x # y /\ r[i] = q[x] /\ r[j] = q[y]
      <4>1. CASE i < n /\ j < n
        BY <2>13, <2>15, <2>16, <4>1
      <4>2. CASE i < n /\ ~(j < n)
        <5>1. i # j + 1
          BY <1>1, <2>7, <4>2
        <5> QED
          BY <2>13, <2>14, <2>15, <4>2, <5>1
      <4>3. CASE ~(i < n) /\ j < n
        <5>1. i + 1 # j
          BY <1>1, <2>7, <4>3
        <5> QED
          BY <2>13, <2>14, <2>15, <4>3, <5>1
      <4>4. CASE ~(i < n) /\ ~(j < n)
        <5>1. i + 1 # j + 1
          BY <1>1, <2>16
        <5> QED
          BY <2>14, <2>15, <4>4, <5>1
      <4> QED
        BY <4>1, <4>2, <4>3, <4>4
    <3> QED
      BY <1>1, <3>1 DEF Once
  <2>17. Once(r)
    BY <2>12, <2>16 DEF Once
  <2>18. ASSUME NEW x \in ToSet(r) PROVE x \in ToSet(q) \ {w}
    <3>1. PICK i \in 1 .. Len(q) - 1 : x = r[i]
      BY <2>12 DEF ToSet
    <3>2. PICK j \in 1 .. Len(q) : x = q[j] /\ j # n
      <4>1. CASE i < n
        BY <1>1, <2>7, <2>13, <2>15, <3>1, <4>1
      <4>2. CASE ~(i < n)
        BY <2>14, <2>15, <3>1, <4>2
      <4> QED
        BY <4>1, <4>2
    <3> QED
      BY <1>1, <2>1, <3>2 DEF ToSet, Once
  <2>19. ASSUME NEW x \in ToSet(q), x # w PROVE x \in ToSet(r)
    <3>1. PICK j \in 1 .. Len(q) : x = q[j]
      BY <1>1 DEF ToSet
    <3>2. j # n
      BY <2>1, <2>19, <3>1
    <3>3. PICK i \in 1 .. Len(q) - 1 : r[i] = x
      <4>1. CASE j < n
        <5>1. j \in 1 .. Len(q) - 1
          BY <1>1, <2>7, <4>1
        <5> QED
          BY <2>13, <3>1, <4>1, <5>1
      <4>2. CASE ~(j < n)
        <5>1. j - 1 \in 1 .. Len(q) - 1 /\ ~(j - 1 < n) /\ j - 1 + 1 = j
          BY <1>1, <2>7, <3>2, <4>2
        <5> QED
          BY <2>14, <3>1, <5>1
      <4> QED
        BY <4>1, <4>2
    <3> QED
      BY <2>12, <3>3 DEF ToSet
  <2> QED
    BY <2>6, <2>10, <2>17, <2>18, <2>19
<1> QED
  BY <1>2, <1>3

-----------------------------------------------------------------------------
LEMMA InitIInv == Init => IInv
<1> SUFFICES ASSUME Init PROVE IInv
  OBVIOUS
<1>1. /\ state = "Empty" /\ wakeAlls = 0 /\ queue = <<>> /\ lock = NoOne /\ curr = "Empty"
      /\ pc = [p \in Actors |-> "idle"] /\ wait = [w \in Waiters |-> NoWait]
      /\ batch = [p \in Actors |-> {}] /\ woken = {} /\ value = 0
      /\ owed = FALSE /\ calls = [wake |-> 0, close |-> 0, drop |-> 0]
  BY DEF Init
<1>2. NoWait \in Waits /\ NoWait.state = "Woken" /\ NoWait.node = "Empty"
  BY DEF NoWait, Waits
<1>3. Types
  <2>1. queue \in Seq(Waiters) /\ state \in States /\ curr \in States /\ wakeAlls \in Nat /\ value \in Nat
    BY <1>1 DEF States
  <2>2. pc \in [Actors -> Places] /\ calls \in [wake : Nat, close : Nat, drop : Nat]
    BY <1>1 DEF Places, Outside
  <2>3. wait \in [Waiters -> Waits] /\ batch \in [Actors -> SUBSET Waiters] /\ woken \in SUBSET Waiters
    BY <1>1, <1>2
  <2> QED
    BY <1>1, <2>1, <2>2, <2>3, Zenon DEF Types
<1>4. Once(queue) /\ ToSet(queue) = {}
  BY <1>1 DEF Once, ToSet
<1>5. Waiting
  BY <1>1, <1>2, <1>4 DEF Waiting, WaiterOf, ReachOf, Subscribed, Waiters, Actors
<1>6. Acting
  BY <1>1, WaitQueueAssumption DEF Acting, LockOf, BatchOf, Holding
<1>7. Word /\ WakeKept
  BY <1>1 DEF Word, WakeKept
<1> QED
  BY <1>3, <1>4, <1>5, <1>6, <1>7 DEF IInv

-----------------------------------------------------------------------------
(* What a step of p leaves to the others. *)
Alone(p) ==
    /\ \A x \in Actors \ {p} : pc'[x] = pc[x] /\ batch'[x] = batch[x]
    /\ \/ lock' = lock
       \/ lock = NoOne /\ lock' = p
       \/ lock = p /\ lock' = NoOne
    /\ \A w \in Waiters \ {p} : w \in woken => w \in woken'

(* What happens to a waiter when somebody else takes its node. *)
Left(p, w) ==
    /\ w \in ToSet(queue) /\ w \notin ToSet(queue')
    /\ wait'[w].state = wait[w].state
    /\ wait'[w].node \in {"One", "All", "Closed"}
    /\ wait[w].node = "Waiting" => w \in batch'[p]

LEMMA WaiterKept ==
    ASSUME IInv, NEW p \in Actors, Alone(p), NEW w \in Waiters, w # p,
           (wait'[w] = wait[w] /\ (w \in ToSet(queue') <=> w \in ToSet(queue))) \/ Left(p, w),
           pc[w] = "asleep" /\ w \in batch[p] => w \in batch'[p] \/ w \in woken'
    PROVE  WaiterOf(w)' /\ ReachOf(w)'
<1>1. WaiterOf(w) /\ ReachOf(w) /\ w \in Actors /\ pc'[w] = pc[w]
  BY DEF IInv, Waiting, Alone, Actors
<1>2. ASSUME pc[w] = "asleep", (w \in woken \/ \E x \in Actors : w \in batch[x])
      PROVE  w \in woken' \/ \E x \in Actors : w \in batch'[x]
  BY <1>2 DEF Alone
<1>3. CASE wait'[w] = wait[w] /\ (w \in ToSet(queue') <=> w \in ToSet(queue))
  BY <1>1, <1>2, <1>3 DEF WaiterOf, ReachOf
<1>4. CASE Left(p, w)
  <2>1. WaiterOf(w)'
    BY <1>1, <1>4 DEF WaiterOf, Left
  <2>2. ReachOf(w)'
    BY <1>1, <1>2, <1>4 DEF WaiterOf, ReachOf, Left
  <2> QED
    BY <2>1, <2>2
<1> QED
  BY <1>3, <1>4

LEMMA ActorsKept ==
    ASSUME IInv, NEW p \in Actors, Alone(p), LockOf(p)', BatchOf(p)'
    PROVE  Acting'
<1> SUFFICES ASSUME NEW x \in Actors, x # p PROVE LockOf(x)' /\ BatchOf(x)'
  BY DEF Acting
<1>1. LockOf(x) /\ BatchOf(x) /\ pc'[x] = pc[x] /\ batch'[x] = batch[x] /\ x # NoOne
  BY WaitQueueAssumption DEF IInv, Acting, Alone
<1>2. lock' = x <=> lock = x
  BY <1>1 DEF Alone
<1> QED
  BY <1>1, <1>2 DEF LockOf, BatchOf

LEMMA WakeupKept ==
    ASSUME IInv, NEW p \in Actors, Alone(p), pc[p] # "panic",
           owed' => owed, calls'.close = 0 => calls.close = 0,
           calls.close = 0 /\ state = "Woken" => state' = "Woken",
           \A w \in Waiters : wait[w].node = "One" => wait'[w].node = "One"
    PROVE  WakeKept'
<1>1. Panicked => Panicked'
  BY DEF Panicked, Alone
<1> QED
  BY <1>1 DEF IInv, WakeKept

LEMMA Gone ==
    ASSUME IInv, NEW p \in Actors, NEW l \in Places, Goto(p, l)
    PROVE  /\ pc' \in [Actors -> Places] /\ pc'[p] = l
           /\ \A x \in Actors : x # p => pc'[x] = pc[x]
BY DEF IInv, Types, Goto

LEMMA WaitSet ==
    ASSUME IInv, NEW w \in Waiters, NEW r \in Waits, wait' = [wait EXCEPT ![w] = r]
    PROVE  /\ wait' \in [Waiters -> Waits] /\ wait'[w] = r
           /\ \A v \in Waiters : v # w => wait'[v] = wait[v]
BY DEF IInv, Types

LEMMA Made ==
    ASSUME IInv, NEW g \in Nat
    PROVE  /\ NoWait \in Waits /\ NoWait.state = "Woken" /\ NoWait.node = "Empty"
           /\ Fresh(g) \in Waits /\ Fresh(g).state = "Start" /\ Fresh(g).node = "Empty"
BY DEF NoWait, Fresh, Waits, IInv, Types

-----------------------------------------------------------------------------
(* A step that leaves the list, the wakers and the word to the others, and at
   most rewrites the Waiter of its own task. *)
LEMMA OwnStep ==
    ASSUME IInv, NEW p \in Actors, pc[p] \notin {"panic"} \cup Calling,
           pc' \in [Actors -> Places], \A x \in Actors : x # p => pc'[x] = pc[x],
           pc'[p] \notin Calling,
           wait' \in [Waiters -> Waits], \A w \in Waiters : w # p => wait'[w] = wait[w],
           \A w \in Waiters : wait[w].node = "One" => wait'[w].node = "One",
           UNCHANGED <<wakeAlls, queue, batch, woken, value, calls, state, owed>>,
           curr' \in States,
           \/ lock' = lock /\ curr' = curr /\ pc[p] \notin Holding /\ pc'[p] \notin Holding
           \/ lock = NoOne /\ lock' = p /\ curr' = state /\ pc'[p] \in Holding
           \/ lock = p /\ lock' = NoOne /\ pc'[p] \notin Holding
           \/ lock = p /\ lock' = p /\ curr' = state /\ pc'[p] \in Holding,
           p \in Waiters => WaiterOf(p)' /\ ReachOf(p)'
    PROVE  IInv'
<1>1. Alone(p)
  BY DEF Alone
<1>2. Types' /\ Once(queue)'
  BY <1>1 DEF IInv, Types, Once, Alone
<1>3. Waiting'
  BY <1>1, WaiterKept DEF Waiting
<1>4. LockOf(p)' /\ BatchOf(p)'
  <2>1. p # NoOne /\ LockOf(p) /\ BatchOf(p)
    BY WaitQueueAssumption DEF IInv, Acting
  <2> QED
    BY <2>1 DEF LockOf, BatchOf
<1>5. Acting'
  BY <1>1, <1>4, ActorsKept
<1>6. Word'
  BY DEF IInv, Word
<1>7. WakeKept'
  BY <1>1, WakeupKept
<1> QED
  BY <1>2, <1>3, <1>5, <1>6, <1>7 DEF IInv

LEMMA AcquireStep ==
    ASSUME IInv, NEW p \in Actors, NEW from \in Outside, NEW to \in Holding,
           Acquire(p, from, to), from # "panic",
           p \in Waiters => (from = "enqueue" /\ to = "enqueuing") \/ (from = "drop" /\ to = "dropping")
    PROVE  IInv'
<1>1. /\ pc[p] = from /\ lock = NoOne /\ lock' = p /\ curr' = state /\ Goto(p, to)
      /\ UNCHANGED <<state, wakeAlls, queue, wait, batch, woken, value, owed, calls>>
  BY DEF Acquire, wakeVars, history
<1>2. /\ pc' \in [Actors -> Places] /\ pc'[p] = to
      /\ \A x \in Actors : x # p => pc'[x] = pc[x]
  BY <1>1, Gone DEF Places
<1>3. from \notin Calling /\ to \notin Calling /\ curr' \in States /\ wait' \in [Waiters -> Waits]
  BY <1>1 DEF Calling, Outside, Holding, IInv, Types
<1>4. ASSUME p \in Waiters PROVE WaiterOf(p)' /\ ReachOf(p)'
  <2>1. WaiterOf(p)
    BY <1>4 DEF IInv, Waiting
  <2> QED
    BY <1>1, <1>2, <1>4, <2>1 DEF WaiterOf, ReachOf, Subscribed
<1> QED
  BY <1>1, <1>2, <1>3, <1>4, OwnStep

LEMMA BeginStep == ASSUME IInv, NEW w \in Waiters, Begin(w) PROVE IInv'
<1>1. /\ pc[w] = "idle" /\ wait' = [wait EXCEPT ![w] = Fresh(value + 1)] /\ Goto(w, "start")
      /\ UNCHANGED <<state, wakeAlls, queue, lock, curr, batch, woken, value, owed, calls>>
  BY DEF Begin, queueVars, wakeVars, history
<1>2. w \in Actors /\ value + 1 \in Nat /\ "start" \in Places
  BY DEF Actors, IInv, Types, Places, Outside
<1>3. /\ pc' \in [Actors -> Places] /\ pc'[w] = "start"
      /\ \A x \in Actors : x # w => pc'[x] = pc[x]
  BY <1>1, <1>2, Gone
<1>4. Fresh(value + 1) \in Waits /\ Fresh(value + 1).state = "Start" /\ Fresh(value + 1).node = "Empty"
  BY <1>2, Made
<1>5. /\ wait' \in [Waiters -> Waits] /\ wait'[w] = Fresh(value + 1)
      /\ \A v \in Waiters : v # w => wait'[v] = wait[v]
  BY <1>1, <1>4, WaitSet
<1>6. WaiterOf(w)
  BY DEF IInv, Waiting
<1>7. wait[w].node # "One" /\ w \notin ToSet(queue)
  BY <1>1, <1>6 DEF WaiterOf, Subscribed
<1>8. WaiterOf(w)' /\ ReachOf(w)'
  BY <1>1, <1>3, <1>4, <1>5, <1>7 DEF WaiterOf, ReachOf
<1>9. pc[w] \notin {"panic"} \cup Calling /\ pc[w] \notin Holding /\ pc'[w] \notin Calling \cup Holding
  BY <1>1, <1>3 DEF Calling, Holding
<1>10. curr' \in States /\ UNCHANGED curr
  BY <1>1 DEF IInv, Types
<1> QED
  BY <1>1, <1>2, <1>3, <1>5, <1>7, <1>8, <1>9, <1>10, OwnStep

LEMMA CheckStep == ASSUME IInv, NEW w \in Waiters, Check(w) PROVE IInv'
<1>1. pc[w] = "check" /\ UNCHANGED <<state, wakeAlls, queue, lock, curr, batch, woken, value, owed, calls>>
  BY DEF Check, queueVars, wakeVars, history
<1>2. PICK l \in {"poll", "drop", "idle"} :
        /\ Goto(w, l)
        /\ \/ l = "poll" /\ UNCHANGED wait
           \/ l = "drop" /\ wait[w].state = "Waiting" /\ UNCHANGED wait
           \/ l = "idle" /\ wait[w].state = "Woken" /\ wait' = [wait EXCEPT ![w] = NoWait]
  BY DEF Check, Return
<1>3. w \in Actors /\ l \in Places /\ l \notin Calling \cup Holding
  BY DEF Actors, Places, Outside, Calling, Holding
<1>4. /\ pc' \in [Actors -> Places] /\ pc'[w] = l
      /\ \A x \in Actors : x # w => pc'[x] = pc[x]
  BY <1>2, <1>3, Gone
<1>5. NoWait \in Waits /\ NoWait.state = "Woken" /\ NoWait.node = "Empty"
  BY Made
<1>6. WaiterOf(w)
  BY DEF IInv, Waiting
<1>7. /\ wait' \in [Waiters -> Waits] /\ \A v \in Waiters : v # w => wait'[v] = wait[v]
      /\ UNCHANGED wait \/ wait'[w] = NoWait
  <2>1. CASE UNCHANGED wait
    BY <2>1 DEF IInv, Types
  <2>2. CASE wait' = [wait EXCEPT ![w] = NoWait]
    BY <1>5, <2>2, WaitSet
  <2> QED
    BY <1>2, <2>1, <2>2
<1>8. WaiterOf(w)' /\ ReachOf(w)' /\ (wait[w].node = "One" => wait'[w].node = "One")
  <2>1. CASE l = "poll" /\ UNCHANGED wait
    BY <1>1, <1>4, <1>6, <2>1 DEF WaiterOf, ReachOf, Subscribed
  <2>2. CASE l = "drop" /\ wait[w].state = "Waiting" /\ UNCHANGED wait
    BY <1>1, <1>4, <1>6, <2>2 DEF WaiterOf, ReachOf, Subscribed
  <2>3. CASE l = "idle" /\ wait[w].state = "Woken" /\ wait' = [wait EXCEPT ![w] = NoWait]
    <3>1. wait'[w] = NoWait
      BY <1>5, <2>3, WaitSet
    <3> QED
      BY <1>1, <1>4, <1>5, <1>6, <2>3, <3>1 DEF WaiterOf, ReachOf
  <2> QED
    BY <1>2, <2>1, <2>2, <2>3
<1>9. pc[w] \notin {"panic"} \cup Calling /\ pc[w] \notin Holding /\ curr' \in States
  BY <1>1 DEF Calling, Holding, IInv, Types
<1>10. \A v \in Waiters : wait[v].node = "One" => wait'[v].node = "One"
  BY <1>7, <1>8
<1> QED
  BY <1>1, <1>3, <1>4, <1>7, <1>8, <1>9, <1>10, OwnStep

-----------------------------------------------------------------------------
(* A step of p preserves the invariant when it answers for p, for the word and
   for the wakeups. *)
LEMMA AnyStep ==
    ASSUME IInv, NEW p \in Actors, Alone(p), Types', Once(queue'),
           \A w \in Waiters : w # p =>
                (wait'[w] = wait[w] /\ (w \in ToSet(queue') <=> w \in ToSet(queue))) \/ Left(p, w),
           \A w \in batch[p] : pc[w] = "asleep" => w \in batch'[p] \/ w \in woken',
           p \in Waiters => WaiterOf(p)' /\ ReachOf(p)',
           LockOf(p)', BatchOf(p)', Word', WakeKept'
    PROVE  IInv'
<1>1. Waiting'
  BY WaiterKept DEF Waiting
<1>2. Acting'
  BY ActorsKept
<1> QED
  BY <1>1, <1>2 DEF IInv

LEMMA StoreStep == ASSUME IInv, NEW k \in Callers, Store(k) PROVE IInv'
<1>1. /\ pc[k] = "idle" /\ value' = value + 1 /\ Goto(k, "wake_all")
      /\ UNCHANGED <<state, wakeAlls, queue, lock, curr, wait, batch, woken, owed, calls>>
  BY DEF Store, queueVars, wakeVars, history
<1>2. k \in Actors /\ k \notin Waiters /\ "wake_all" \in Places
  BY WaitQueueAssumption DEF Actors, Places, Outside
<1>3. /\ pc' \in [Actors -> Places] /\ pc'[k] = "wake_all"
      /\ \A x \in Actors : x # k => pc'[x] = pc[x]
  BY <1>1, <1>2, Gone
<1>4. Alone(k)
  BY <1>1, <1>3 DEF Alone
<1>5. Types' /\ Once(queue')
  BY <1>1, <1>3 DEF IInv, Types, Once
<1>6. LockOf(k)' /\ BatchOf(k)'
  <2>1. LockOf(k) /\ BatchOf(k)
    BY <1>2 DEF IInv, Acting
  <2> QED
    BY <1>1, <1>3, <2>1 DEF LockOf, BatchOf, Holding, Calling
<1>7. Word' /\ WakeKept'
  BY <1>1, <1>2, <1>4, WakeupKept DEF IInv, Word
<1> QED
  BY <1>1, <1>2, <1>4, <1>5, <1>6, <1>7, AnyStep

LEMMA WakeStepKept == ASSUME IInv, NEW k \in Callers, Wake(k) PROVE IInv'
<1>1. /\ pc[k] = "idle" /\ calls' = [calls EXCEPT !.wake = @ + 1]
      /\ UNCHANGED <<wakeAlls, queue, lock, curr, wait, batch, woken, value>>
  BY DEF Wake, wakeVars
<1>2. k \in Actors /\ k \notin Waiters /\ "wake" \in Places
  BY WaitQueueAssumption DEF Actors, Places, Outside
<1>3. calls' \in [wake : Nat, close : Nat, drop : Nat] /\ calls'.close = calls.close
  BY <1>1 DEF IInv, Types
<1>4. \/ UNCHANGED <<state, owed>>
      \/ state \in {"Empty", "Woken"} /\ state' = "Woken" /\ owed' = TRUE
  BY DEF Wake
<1>5. /\ pc' \in [Actors -> Places] /\ pc'[k] \in {"idle", "wake"}
      /\ \A x \in Actors : x # k => pc'[x] = pc[x]
  <2>1. CASE UNCHANGED pc
    BY <1>1, <2>1 DEF IInv, Types
  <2>2. CASE Goto(k, "wake")
    BY <1>2, <2>2, Gone
  <2> QED
    BY <2>1, <2>2 DEF Wake
<1>6. Alone(k)
  BY <1>1, <1>5 DEF Alone
<1>7. Types' /\ Once(queue')
  BY <1>1, <1>3, <1>4, <1>5 DEF IInv, Types, Once, States
<1>8. LockOf(k)' /\ BatchOf(k)'
  <2>1. LockOf(k) /\ BatchOf(k)
    BY <1>2 DEF IInv, Acting
  <2> QED
    BY <1>1, <1>5, <2>1 DEF LockOf, BatchOf, Holding, Calling
<1>9. Word'
  BY <1>1, <1>3, <1>4 DEF IInv, Word
<1>10. WakeKept'
  <2>1. CASE UNCHANGED <<state, owed>>
    BY <1>1, <1>2, <1>3, <1>6, <2>1, WakeupKept
  <2>2. CASE state' = "Woken"
    BY <2>2 DEF WakeKept
  <2> QED
    BY <1>4, <2>1, <2>2
<1> QED
  BY <1>1, <1>2, <1>6, <1>7, <1>8, <1>9, <1>10, AnyStep

LEMMA CloseStep == ASSUME IInv, NEW k \in Callers, Close(k) PROVE IInv'
<1>1. /\ pc[k] = "idle" /\ calls' = [calls EXCEPT !.close = @ + 1] /\ state' = "Closed"
      /\ UNCHANGED <<wakeAlls, queue, lock, curr, wait, batch, woken, value, owed>>
  BY DEF Close, wakeVars
<1>2. k \in Actors /\ k \notin Waiters
  BY WaitQueueAssumption DEF Actors
<1>3. calls' \in [wake : Nat, close : Nat, drop : Nat] /\ calls'.close # 0
  BY <1>1 DEF IInv, Types
<1>4. PICK l \in {"more_closed", "idle"} : Goto(k, l)
  BY DEF Close
<1>5. /\ pc' \in [Actors -> Places] /\ pc'[k] = l
      /\ \A x \in Actors : x # k => pc'[x] = pc[x]
  <2>1. l \in Places
    BY DEF Places, Outside
  <2> QED
    BY <1>2, <1>4, <2>1, Gone
<1>6. Alone(k)
  BY <1>1, <1>5 DEF Alone
<1>7. Types' /\ Once(queue')
  BY <1>1, <1>3, <1>5 DEF IInv, Types, Once, States
<1>8. LockOf(k)' /\ BatchOf(k)'
  <2>1. LockOf(k) /\ BatchOf(k)
    BY <1>2 DEF IInv, Acting
  <2> QED
    BY <1>1, <1>5, <2>1 DEF LockOf, BatchOf, Holding, Calling
<1>9. Word' /\ WakeKept'
  BY <1>1, <1>3 DEF Word, WakeKept
<1> QED
  BY <1>1, <1>2, <1>6, <1>7, <1>8, <1>9, AnyStep

(* The wakers of a batch are called: who sleeps is woken. *)
LEMMA CallStep ==
    ASSUME IInv, NEW p \in Actors, NEW from \in Calling, NEW to \in {"idle", "more_all", "more_closed"},
           CallWakers(p, from, to), p \in Waiters => to = "idle"
    PROVE  IInv'
<1>1. /\ pc[p] = from /\ woken' = woken \cup {w \in batch[p] : pc[w] \in {"poll", "asleep"}}
      /\ batch' = [batch EXCEPT ![p] = {}] /\ Goto(p, to)
      /\ UNCHANGED <<state, wakeAlls, queue, lock, curr, wait, value, owed, calls>>
  BY DEF CallWakers, queueVars, history
<1>2. /\ pc' \in [Actors -> Places] /\ pc'[p] = to
      /\ \A x \in Actors : x # p => pc'[x] = pc[x]
  BY <1>1, Gone DEF Places, Outside
<1>3. /\ batch' \in [Actors -> SUBSET Waiters] /\ batch'[p] = {} /\ woken' \in SUBSET Waiters
      /\ \A x \in Actors : x # p => batch'[x] = batch[x]
  BY <1>1 DEF IInv, Types
<1>4. Alone(p)
  BY <1>1, <1>2, <1>3 DEF Alone
<1>5. Types' /\ Once(queue')
  BY <1>1, <1>2, <1>3 DEF IInv, Types, Once
<1>6. LockOf(p)' /\ BatchOf(p)'
  <2>1. LockOf(p)
    BY DEF IInv, Acting
  <2> QED
    BY <1>1, <1>2, <1>3, <2>1 DEF LockOf, BatchOf, Holding, Calling
<1>7. Word' /\ WakeKept'
  <2>1. pc[p] # "panic"
    BY <1>1 DEF Calling
  <2> QED
    BY <1>1, <1>4, <2>1, WakeupKept DEF IInv, Word
<1>8. \A w \in batch[p] : pc[w] = "asleep" => w \in woken'
  BY <1>1
<1>9. ASSUME p \in Waiters PROVE WaiterOf(p)' /\ ReachOf(p)'
  <2>1. WaiterOf(p)
    BY <1>9 DEF IInv, Waiting
  <2> QED
    BY <1>1, <1>2, <1>9, <2>1 DEF WaiterOf, ReachOf, Calling, Subscribed
<1> QED
  BY <1>1, <1>4, <1>5, <1>6, <1>7, <1>8, <1>9, AnyStep

-----------------------------------------------------------------------------
(* A wait that is over before its task was in the list. *)
LEMMA ReadyFacts ==
    ASSUME IInv, NEW w \in Waiters, pc[w] \in {"start", "enqueuing"}, queue' = queue,
           Ready(w) \/ Return(w)
    PROVE  /\ w \in Actors
           /\ pc' \in [Actors -> Places] /\ pc'[w] \in {"idle", "check"}
           /\ \A x \in Actors : x # w => pc'[x] = pc[x]
           /\ wait' \in [Waiters -> Waits] /\ \A v \in Waiters : v # w => wait'[v] = wait[v]
           /\ wait[w].node = "Empty" /\ wait'[w].node = "Empty"
           /\ WaiterOf(w)' /\ ReachOf(w)'
<1>1. w \in Actors /\ "idle" \in Places /\ "check" \in Places
  BY DEF Actors, Places, Outside
<1>2. wait[w].node = "Empty" /\ wait[w].state # "Waiting" /\ w \notin ToSet(queue) /\ wait[w] \in Waits
  <2>1. WaiterOf(w)
    BY DEF IInv, Waiting
  <2> QED
    BY <2>1 DEF WaiterOf, Subscribed, IInv, Types
<1>3. PICK l \in {"idle", "check"}, r \in Waits :
        /\ Goto(w, l) /\ wait' = [wait EXCEPT ![w] = r]
        /\ r.state = "Woken" /\ r.node = "Empty"
  <2>1. NoWait \in Waits /\ NoWait.state = "Woken" /\ NoWait.node = "Empty"
    BY Made
  <2>2. CASE Return(w) \/ w \in Plain
    BY <2>1, <2>2 DEF Ready, Return
  <2>3. CASE Ready(w) /\ w \notin Plain
    <3>1. Goto(w, "check") /\ wait' = [wait EXCEPT ![w] = [wait[w] EXCEPT !.state = "Woken"]]
      BY <2>3 DEF Ready
    <3>2. /\ [wait[w] EXCEPT !.state = "Woken"] \in Waits
          /\ [wait[w] EXCEPT !.state = "Woken"].state = "Woken"
          /\ [wait[w] EXCEPT !.state = "Woken"].node = "Empty"
      BY <1>2 DEF Waits
    <3> QED
      BY <3>1, <3>2
  <2> QED
    BY <2>2, <2>3
<1>4. /\ pc' \in [Actors -> Places] /\ pc'[w] = l
      /\ \A x \in Actors : x # w => pc'[x] = pc[x]
  BY <1>1, <1>3, Gone
<1>5. /\ wait' \in [Waiters -> Waits] /\ wait'[w] = r
      /\ \A v \in Waiters : v # w => wait'[v] = wait[v]
  BY <1>3, WaitSet
<1>6. WaiterOf(w)' /\ ReachOf(w)'
  BY <1>2, <1>3, <1>4, <1>5 DEF WaiterOf, ReachOf
<1> QED
  BY <1>1, <1>2, <1>3, <1>4, <1>5, <1>6

LEMMA ConsumeStep == ASSUME IInv, NEW w \in Waiters, Consume(w) PROVE IInv'
<1>1. pc[w] = "start" /\ UNCHANGED <<wakeAlls, queue, lock, curr, batch, woken, value, calls>>
  BY DEF Consume, wakeVars
<1>2. w \in Actors /\ "enqueue" \in Places
  BY DEF Actors, Places, Outside
<1>3. LockOf(w) /\ BatchOf(w) /\ WaiterOf(w)
  BY <1>2 DEF IInv, Acting, Waiting
<1>4. CASE state = "Woken" /\ state' = "Empty" /\ owed' = FALSE /\ Ready(w)
  <2>1. /\ pc' \in [Actors -> Places] /\ pc'[w] \in {"idle", "check"}
        /\ \A x \in Actors : x # w => pc'[x] = pc[x]
        /\ wait' \in [Waiters -> Waits] /\ \A v \in Waiters : v # w => wait'[v] = wait[v]
        /\ WaiterOf(w)' /\ ReachOf(w)'
    BY <1>1, <1>4, ReadyFacts
  <2>2. Alone(w)
    BY <1>1, <2>1 DEF Alone
  <2>3. Types' /\ Once(queue')
    BY <1>1, <1>4, <2>1 DEF IInv, Types, Once, States
  <2>4. LockOf(w)' /\ BatchOf(w)'
    BY <1>1, <1>3, <2>1 DEF LockOf, BatchOf, Holding, Calling
  <2>5. Word' /\ WakeKept'
    BY <1>1, <1>4 DEF IInv, Word, WakeKept
  <2> QED
    BY <1>1, <1>2, <2>1, <2>2, <2>3, <2>4, <2>5, AnyStep
<1>5. CASE Goto(w, "enqueue") /\ UNCHANGED <<state, owed, wait>>
  <2>1. /\ pc' \in [Actors -> Places] /\ pc'[w] = "enqueue"
        /\ \A x \in Actors : x # w => pc'[x] = pc[x]
    BY <1>2, <1>5, Gone
  <2>2. WaiterOf(w)' /\ ReachOf(w)'
    BY <1>1, <1>3, <1>5, <2>1 DEF WaiterOf, ReachOf, Subscribed
  <2>3. /\ pc[w] \notin {"panic"} \cup Calling /\ pc[w] \notin Holding /\ pc'[w] \notin Calling \cup Holding
        /\ curr' \in States /\ wait' \in [Waiters -> Waits]
    BY <1>1, <1>5, <2>1 DEF Calling, Holding, IInv, Types
  <2> QED
    BY <1>1, <1>2, <1>5, <2>1, <2>2, <2>3, OwnStep
<1> QED
  BY <1>4, <1>5 DEF Consume

LEMMA CancelStep == ASSUME IInv, NEW w \in Waiters, Cancel(w) PROVE IInv'
<1>1. /\ pc[w] = "asleep" /\ calls' = [calls EXCEPT !.drop = @ + 1] /\ woken' = woken \ {w}
      /\ Goto(w, "drop") /\ UNCHANGED <<state, wakeAlls, queue, lock, curr, wait, batch, value, owed>>
  BY DEF Cancel, queueVars
<1>2. w \in Actors /\ "drop" \in Places
  BY DEF Actors, Places, Outside
<1>3. LockOf(w) /\ BatchOf(w) /\ WaiterOf(w)
  BY <1>2 DEF IInv, Acting, Waiting
<1>4. /\ pc' \in [Actors -> Places] /\ pc'[w] = "drop"
      /\ \A x \in Actors : x # w => pc'[x] = pc[x]
  BY <1>1, <1>2, Gone
<1>5. calls' \in [wake : Nat, close : Nat, drop : Nat] /\ calls'.close = calls.close
  BY <1>1 DEF IInv, Types
<1>6. Alone(w)
  BY <1>1, <1>4 DEF Alone
<1>7. Types' /\ Once(queue')
  BY <1>1, <1>4, <1>5 DEF IInv, Types, Once
<1>8. LockOf(w)' /\ BatchOf(w)' /\ WaiterOf(w)' /\ ReachOf(w)'
  BY <1>1, <1>3, <1>4 DEF LockOf, BatchOf, Holding, Calling, WaiterOf, ReachOf, Subscribed
<1>9. Word' /\ WakeKept'
  BY <1>1, <1>2, <1>5, <1>6, WakeupKept DEF IInv, Word
<1> QED
  BY <1>1, <1>2, <1>6, <1>7, <1>8, <1>9, AnyStep

LEMMA PollStep == ASSUME IInv, NEW w \in Waiters, Poll(w) PROVE IInv'
<1>1. /\ pc[w] \in {"poll", "asleep"} /\ woken' = woken \ {w}
      /\ UNCHANGED <<state, wakeAlls, queue, lock, curr, batch, value, calls>>
  BY DEF Poll, CanPoll, queueVars
<1>2. w \in Actors /\ {"asleep", "idle", "start"} \subseteq Places
  BY DEF Actors, Places, Outside
<1>3. LockOf(w) /\ BatchOf(w) /\ WaiterOf(w) /\ wait[w] \in Waits
  BY <1>2 DEF IInv, Acting, Waiting, Types
<1>4. NoWait \in Waits /\ NoWait.state = "Woken" /\ NoWait.node = "Empty"
  BY Made
<1>5. PICK l \in {"asleep", "idle", "start"}, r \in Waits :
        /\ Goto(w, l) /\ wait' = [wait EXCEPT ![w] = r]
        /\ \/ /\ wait[w].state = "Waiting" /\ wait[w].node \in {"Empty", "Waiting"} /\ owed' = owed
              /\ l = "asleep" /\ r.state = "Waiting" /\ r.node = "Waiting"
           \/ /\ r.state # "Waiting" /\ r.node = "Empty" /\ l # "asleep"
              /\ ~(wait[w].state = "Waiting" /\ wait[w].node \in {"Empty", "Waiting"})
              /\ owed' \in BOOLEAN
              /\ owed' => owed /\ wait[w].node # "One"
  <2>1. CASE /\ wait[w].state = "Waiting" /\ wait[w].node \in {"Empty", "Waiting"}
             /\ wait' = [wait EXCEPT ![w].node = "Waiting"] /\ Goto(w, "asleep") /\ UNCHANGED owed
    <3>1. PICK r : r = [wait[w] EXCEPT !.node = "Waiting"]
      OBVIOUS
    <3>2. r \in Waits /\ r.state = "Waiting" /\ r.node = "Waiting" /\ wait' = [wait EXCEPT ![w] = r]
      BY <1>3, <2>1, <3>1 DEF Waits
    <3> QED
      BY <2>1, <3>2
  <2>2. CASE wait[w].state = "Waiting" /\ wait[w].node = "Closed" /\ Return(w) /\ UNCHANGED owed
    BY <1>4, <2>2 DEF Return, IInv, Types
  <2>3. CASE /\ wait[w].state = "Woken" \/ wait[w].node \in {"One", "All"}
             /\ owed' = (owed /\ (wait[w].state = "Woken" \/ wait[w].node # "One"))
             /\ IF w \in Plain THEN Return(w)
                ELSE wait' = [wait EXCEPT ![w] = Fresh(@.goal)] /\ Goto(w, "start")
    <3>1. owed' \in BOOLEAN /\ (owed' => owed /\ (wait[w].state = "Woken" \/ wait[w].node # "One"))
      BY <2>3 DEF IInv, Types
    <3>2. wait[w].state = "Woken" => wait[w].node = "Empty"
      BY <1>3 DEF WaiterOf
    <3>3. CASE w \in Plain
      BY <1>4, <2>3, <3>1, <3>2, <3>3 DEF Return
    <3>4. CASE w \notin Plain
      <4>1. wait[w].goal \in Nat
        BY <1>3 DEF Waits
      <4>2. /\ Fresh(wait[w].goal) \in Waits /\ Fresh(wait[w].goal).state = "Start"
            /\ Fresh(wait[w].goal).node = "Empty"
        BY <4>1, Made
      <4>3. wait' = [wait EXCEPT ![w] = Fresh(wait[w].goal)] /\ Goto(w, "start")
        BY <2>3, <3>4
      <4> QED
        BY <2>3, <3>1, <3>2, <4>2, <4>3
    <3> QED
      BY <3>3, <3>4
  <2> QED
    BY <2>1, <2>2, <2>3 DEF Poll
<1>6. /\ pc' \in [Actors -> Places] /\ pc'[w] = l
      /\ \A x \in Actors : x # w => pc'[x] = pc[x]
  BY <1>2, <1>5, Gone
<1>7. /\ wait' \in [Waiters -> Waits] /\ wait'[w] = r
      /\ \A v \in Waiters : v # w => wait'[v] = wait[v]
  BY <1>5, WaitSet
<1>8. Alone(w)
  BY <1>1, <1>6 DEF Alone
<1>9. Types' /\ Once(queue')
  BY <1>1, <1>5, <1>6, <1>7 DEF IInv, Types, Once
<1>10. LockOf(w)' /\ BatchOf(w)'
  BY <1>1, <1>3, <1>5, <1>6 DEF LockOf, BatchOf, Holding, Calling
<1>11. WaiterOf(w)' /\ ReachOf(w)'
  BY <1>1, <1>3, <1>5, <1>6, <1>7 DEF WaiterOf, ReachOf, Subscribed
<1>12. Word'
  BY <1>1 DEF IInv, Word
<1>13. WakeKept'
  <2>1. CASE owed'
    <3>1. owed /\ wait[w].node # "One"
      BY <1>5, <2>1
    <3> QED
      BY <1>1, <1>2, <1>7, <1>8, <3>1, WakeupKept
  <2>2. CASE ~owed'
    BY <2>2 DEF WakeKept
  <2> QED
    BY <2>1, <2>2
<1> QED
  BY <1>1, <1>2, <1>7, <1>8, <1>9, <1>10, <1>11, <1>12, <1>13, AnyStep

(* The node goes to the list. *)
LEMMA PushFrontStep ==
    ASSUME IInv, NEW w \in Waiters, pc[w] = "enqueuing", PushFront(w),
           state' = state \/ (state = "Empty" /\ state' = "Waiting"),
           UNCHANGED <<owed, wakeAlls, batch, woken, value, calls>>
    PROVE  IInv'
<1>1. w \in Actors /\ {"asleep", "check"} \subseteq Places
  BY DEF Actors, Places, Outside
<1>2. LockOf(w) /\ BatchOf(w) /\ WaiterOf(w) /\ wait[w] \in Waits
  BY <1>1 DEF IInv, Acting, Waiting, Types
<1>3. lock = w /\ w \notin ToSet(queue) /\ wait[w].node = "Empty" /\ w # NoOne
  BY <1>2, WaitQueueAssumption DEF LockOf, Holding, WaiterOf, Subscribed, Actors
<1>4. PICK l \in {"asleep", "check"}, r \in Waits :
        /\ Goto(w, l) /\ wait' = [wait EXCEPT ![w] = r]
        /\ r.state = "Waiting" /\ r.node = IF l = "asleep" THEN "Waiting" ELSE "Empty"
  <2>1. PICK n \in {"Waiting", "Empty"}, l \in {"asleep", "check"} :
          /\ n = IF l = "asleep" THEN "Waiting" ELSE "Empty"
          /\ Goto(w, l) /\ wait' = [wait EXCEPT ![w].state = "Waiting", ![w].node = n]
    BY DEF PushFront
  <2>2. PICK r : r = [wait[w] EXCEPT !.state = "Waiting", !.node = n]
    OBVIOUS
  <2>3. r \in Waits /\ r.state = "Waiting" /\ r.node = n
    BY <1>2, <2>2 DEF Waits
  <2>4. wait' = [wait EXCEPT ![w] = r]
    BY <1>2, <2>1, <2>2 DEF IInv, Types, Waits
  <2> QED
    BY <2>1, <2>3, <2>4
<1>5. /\ pc' \in [Actors -> Places] /\ pc'[w] = l
      /\ \A x \in Actors : x # w => pc'[x] = pc[x]
  BY <1>1, <1>4, Gone
<1>6. /\ wait' \in [Waiters -> Waits] /\ wait'[w] = r
      /\ \A v \in Waiters : v # w => wait'[v] = wait[v]
  BY <1>4, WaitSet
<1>7. queue' \in Seq(Waiters) /\ Once(queue') /\ ToSet(queue') = ToSet(queue) \cup {w}
  BY <1>3, PutLast DEF PushFront, IInv, Types
<1>8. lock' = NoOne /\ curr' = "Empty"
  BY DEF PushFront, Release
<1>9. Alone(w)
  BY <1>3, <1>5, <1>8 DEF Alone
<1>10. Types'
  BY <1>5, <1>6, <1>7, <1>8 DEF IInv, Types, States
<1>11. LockOf(w)' /\ BatchOf(w)'
  BY <1>2, <1>3, <1>4, <1>5, <1>8 DEF LockOf, BatchOf, Holding, Calling
<1>12. WaiterOf(w)' /\ ReachOf(w)'
  BY <1>4, <1>5, <1>6, <1>7 DEF WaiterOf, ReachOf, Subscribed
<1>13. Word'
  BY <1>8 DEF IInv, Word
<1>14. WakeKept'
  BY <1>1, <1>3, <1>6, <1>9, WakeupKept
<1>15. \A v \in Waiters : v # w => wait'[v] = wait[v] /\ (v \in ToSet(queue') <=> v \in ToSet(queue))
  BY <1>6, <1>7
<1> QED
  BY <1>1, <1>7, <1>9, <1>10, <1>11, <1>12, <1>13, <1>14, <1>15, AnyStep

LEMMA EnqueueStep == ASSUME IInv, NEW w \in Waiters, Enqueue(w) PROVE IInv'
<1>1. pc[w] = "enqueuing" /\ UNCHANGED <<wakeAlls, batch, woken, value, calls>>
  BY DEF Enqueue, wakeVars
<1>2. w \in Actors /\ w # NoOne
  BY WaitQueueAssumption DEF Actors
<1>3. LockOf(w) /\ BatchOf(w) /\ WaiterOf(w) /\ lock = w /\ ReachOf(w)
  BY <1>1, <1>2 DEF IInv, Acting, Waiting, LockOf, Holding
<1>4. CASE Release /\ (Ready(w) \/ Return(w)) /\ UNCHANGED <<state, queue, owed>>
  <2>1. /\ pc' \in [Actors -> Places] /\ pc'[w] \in {"idle", "check"}
        /\ \A x \in Actors : x # w => pc'[x] = pc[x]
        /\ wait' \in [Waiters -> Waits] /\ \A v \in Waiters : v # w => wait'[v] = wait[v]
        /\ wait[w].node = "Empty"
        /\ WaiterOf(w)' /\ ReachOf(w)'
    BY <1>1, <1>4, ReadyFacts
  <2>2. lock' = NoOne /\ curr' \in States
    BY <1>4 DEF Release, States
  <2>3. pc[w] \notin {"panic"} \cup Calling /\ pc'[w] \notin Calling \cup Holding
    BY <1>1, <2>1 DEF Calling, Holding
  <2>4. \A v \in Waiters : wait[v].node = "One" => wait'[v].node = "One"
    BY <2>1
  <2> QED
    BY <1>1, <1>2, <1>3, <1>4, <2>1, <2>2, <2>3, <2>4, OwnStep
<1>5. CASE /\ (state = "Empty" /\ state' = "Waiting") \/ UNCHANGED state
           /\ PushFront(w) /\ UNCHANGED owed
  BY <1>1, <1>5, PushFrontStep
<1>6. CASE state = "Woken" /\ state' = "Empty" /\ owed' = FALSE /\ Release /\ Ready(w) /\ UNCHANGED queue
  <2>1. /\ pc' \in [Actors -> Places] /\ pc'[w] \in {"idle", "check"}
        /\ \A x \in Actors : x # w => pc'[x] = pc[x]
        /\ wait' \in [Waiters -> Waits] /\ \A v \in Waiters : v # w => wait'[v] = wait[v]
        /\ WaiterOf(w)' /\ ReachOf(w)'
    BY <1>1, <1>6, ReadyFacts
  <2>2. lock' = NoOne /\ curr' \in States
    BY <1>6 DEF Release, States
  <2>3. Alone(w)
    BY <1>1, <1>3, <2>1, <2>2 DEF Alone
  <2>4. Types' /\ Once(queue')
    BY <1>1, <1>6, <2>1, <2>2 DEF IInv, Types, Once, States
  <2>5. LockOf(w)' /\ BatchOf(w)'
    BY <1>1, <1>2, <1>3, <2>1, <2>2 DEF LockOf, BatchOf, Holding, Calling
  <2>6. Word' /\ WakeKept'
    BY <1>1, <1>6, <2>2 DEF IInv, Word, WakeKept
  <2> QED
    BY <1>1, <1>2, <1>6, <2>1, <2>3, <2>4, <2>5, <2>6, AnyStep
<1>7. CASE curr' = state /\ UNCHANGED <<state, queue, lock, pc, wait, owed>>
  <2>1. /\ pc' \in [Actors -> Places] /\ wait' \in [Waiters -> Waits] /\ curr' \in States
        /\ pc[w] \notin {"panic"} \cup Calling /\ pc'[w] \in Holding /\ pc'[w] \notin Calling
    BY <1>1, <1>7 DEF IInv, Types, Calling, Holding
  <2>2. WaiterOf(w)' /\ ReachOf(w)'
    BY <1>1, <1>3, <1>7 DEF WaiterOf, ReachOf
  <2> QED
    BY <1>1, <1>2, <1>3, <1>7, <2>1, <2>2, OwnStep
<1>8. \/ Release /\ (Ready(w) \/ Return(w)) /\ UNCHANGED <<state, queue, owed>>
      \/ /\ (state = "Empty" /\ state' = "Waiting") \/ UNCHANGED state
         /\ PushFront(w) /\ UNCHANGED owed
      \/ state = "Woken" /\ state' = "Empty" /\ owed' = FALSE /\ Release /\ Ready(w) /\ UNCHANGED queue
      \/ curr' = state /\ UNCHANGED <<state, queue, lock, pc, wait, owed>>
  BY Zenon DEF Enqueue
<1> QED
  BY <1>4, <1>5, <1>6, <1>7, <1>8

-----------------------------------------------------------------------------
(* wake_locked by the holder p of the lock, whose own node is out of the list. *)
LEMMA WakeLockedStep ==
    ASSUME IInv, NEW p \in Actors, pc[p] \in Holding,
           NEW st \in States, NEW q \in Seq(Waiters), NEW wt \in [Waiters -> Waits],
           Once(q), ToSet(q) = ToSet(queue) \ {p},
           \A w \in Waiters : w # p => wt[w] = wait[w],
           p \in Waiters => wt[p].state = "Woken" /\ wt[p].node = "Empty",
           calls.close = 0 => st # "Closed",
           WakeLocked(p, st, q, wt), Release, UNCHANGED <<wakeAlls, woken, value, calls>>,
           owed' \in BOOLEAN
    PROVE  IInv'
<1>1. lock = p /\ batch[p] = {} /\ p # NoOne /\ lock' = NoOne /\ curr' = "Empty"
  BY WaitQueueAssumption DEF IInv, Acting, LockOf, BatchOf, Holding, Calling, Release
<1>2. PICK l \in {"call", "panic"} : Goto(p, l) /\ (l = "panic" => batch' = batch)
  BY DEF WakeLocked
<1>3. /\ pc' \in [Actors -> Places] /\ pc'[p] = l
      /\ \A x \in Actors : x # p => pc'[x] = pc[x]
  <2>1. l \in Places
    BY DEF Places, Outside, Calling
  <2> QED
    BY <1>2, <2>1, Gone
<1>4. /\ queue' \in Seq(Waiters) /\ Once(queue') /\ state' \in States
      /\ wait' \in [Waiters -> Waits]
      /\ batch' \in [Actors -> SUBSET Waiters] /\ \A x \in Actors : x # p => batch'[x] = batch[x]
      /\ \A w \in Waiters : w # p =>
            (wait'[w] = wait[w] /\ (w \in ToSet(queue') <=> w \in ToSet(queue))) \/ Left(p, w)
      /\ p \in Waiters => wait'[p] = wt[p] /\ p \notin ToSet(queue')
      /\ calls.close = 0 => state' # "Closed"
      /\ pc'[p] = "panic" \/ state' = "Woken" \/ \E w \in Waiters : wait'[w].node = "One"
  <2>1. CASE queue' = q /\ wait' = wt /\ UNCHANGED batch /\ (state' = "Woken" \/ (state' = st /\ pc'[p] = "panic"))
    BY <2>1 DEF IInv, Types, States
  <2>2. CASE /\ q # <<>> /\ queue' = Tail(q)
             /\ wait' = [wt EXCEPT ![Head(q)].node = "One"]
             /\ batch' = [batch EXCEPT ![p] = {w \in {Head(q)} : wt[w].node = "Waiting"}]
             /\ state' = IF Tail(q) = <<>> THEN "Empty" ELSE st
    <3>1. PICK h, r : h = Head(q) /\ r = [wt[h] EXCEPT !.node = "One"]
      OBVIOUS
    <3>2. /\ queue' \in Seq(Waiters) /\ Once(queue') /\ h \in ToSet(q) /\ h \in Waiters
          /\ ToSet(queue') = ToSet(q) \ {h}
      BY <2>2, <3>1, TakeHead
    <3>3. h # p /\ h \in ToSet(queue) /\ wt[h] = wait[h]
      BY <3>2
    <3>4. r \in Waits /\ r.node = "One" /\ r.state = wt[h].state /\ wait' = [wt EXCEPT ![h] = r]
      BY <2>2, <3>1, <3>2, ZenonT(40) DEF Waits
    <3>5. wait' \in [Waiters -> Waits] /\ wait'[h] = r /\ \A w \in Waiters : w # h => wait'[w] = wt[w]
      BY <3>2, <3>4
    <3>6. /\ batch' \in [Actors -> SUBSET Waiters] /\ batch'[p] = {w \in {h} : wt[w].node = "Waiting"}
          /\ \A x \in Actors : x # p => batch'[x] = batch[x]
      BY <2>2, <3>1, <3>2 DEF IInv, Types
    <3>7. Left(p, h)
      BY <3>2, <3>3, <3>4, <3>5, <3>6 DEF Left
    <3>8. \A w \in Waiters : w # p =>
            (wait'[w] = wait[w] /\ (w \in ToSet(queue') <=> w \in ToSet(queue))) \/ Left(p, w)
      BY <3>2, <3>5, <3>7
    <3>9. state' \in States /\ (calls.close = 0 => state' # "Closed")
      BY <2>2 DEF States
    <3> QED
      BY <3>2, <3>3, <3>4, <3>5, <3>6, <3>8, <3>9
  <2>3. Goto(p, "panic") => pc'[p] = "panic"
    BY DEF Goto, IInv, Types
  <2> QED
    BY <2>1, <2>2, <2>3 DEF WakeLocked
<1>5. Alone(p)
  BY <1>1, <1>3, <1>4 DEF Alone
<1>6. Types'
  BY <1>1, <1>3, <1>4 DEF IInv, Types, States
<1>7. LockOf(p)' /\ BatchOf(p)'
  BY <1>1, <1>2, <1>3 DEF LockOf, BatchOf, Holding, Calling
<1>8. ASSUME p \in Waiters PROVE WaiterOf(p)' /\ ReachOf(p)'
  BY <1>2, <1>3, <1>4, <1>8 DEF WaiterOf, ReachOf
<1>9. Word'
  BY <1>1, <1>4 DEF Word
<1>10. WakeKept'
  BY <1>4 DEF WakeKept, Panicked
<1> QED
  BY <1>1, <1>4, <1>5, <1>6, <1>7, <1>8, <1>9, <1>10, AnyStep

LEMMA WakeOneStep == ASSUME IInv, NEW k \in Callers, WakeOne(k) PROVE IInv'
<1>1. /\ pc[k] = "waking" /\ WakeLocked(k, state, queue, wait) /\ Release /\ owed' = TRUE
      /\ UNCHANGED <<wakeAlls, woken, value, calls>>
  BY DEF WakeOne
<1>2. PICK st, q, wt : st = state /\ q = queue /\ wt = wait
  OBVIOUS
<1>3. k \in Actors /\ k \notin Waiters /\ pc[k] \in Holding
  BY <1>1, WaitQueueAssumption DEF Actors, Holding
<1>4. /\ st \in States /\ q \in Seq(Waiters) /\ wt \in [Waiters -> Waits] /\ Once(q)
      /\ ToSet(queue) \subseteq Waiters /\ (calls.close = 0 => st # "Closed")
  BY <1>2, SeqFacts DEF IInv, Types, Word
<1>5. ToSet(q) = ToSet(queue) \ {k}
  BY <1>2, <1>3, <1>4
<1>6. WakeLocked(k, st, q, wt)
  BY <1>1, <1>2
<1> QED
  BY <1>1, <1>2, <1>3, <1>4, <1>5, <1>6, WakeLockedStep

LEMMA DropStep == ASSUME IInv, NEW w \in Waiters, Drop(w) PROVE IInv'
<1>1. PICK st, q, wt : /\ q = RemoveFirst(queue, w)
                       /\ st = IF q = <<>> /\ curr = "Waiting" THEN "Empty" ELSE state
                       /\ wt = [wait EXCEPT ![w] = NoWait]
  OBVIOUS
<1>2. /\ pc[w] = "dropping" /\ Release /\ UNCHANGED <<wakeAlls, woken, value, owed, calls>>
      /\ IF wait[w].node = "One" THEN WakeLocked(w, st, q, wt)
         ELSE queue' = q /\ state' = st /\ wait' = wt /\ Goto(w, "call") /\ UNCHANGED batch
  BY <1>1 DEF Drop, history
<1>3. w \in Actors /\ pc[w] \in Holding /\ w # NoOne
  BY <1>2, WaitQueueAssumption DEF Actors, Holding
<1>4. lock = w /\ LockOf(w) /\ BatchOf(w)
  BY <1>3 DEF IInv, Acting, LockOf
<1>5. q \in Seq(Waiters) /\ Once(q) /\ ToSet(q) = ToSet(queue) \ {w}
  BY <1>1, Removed DEF IInv, Types
<1>6. NoWait \in Waits /\ NoWait.state = "Woken" /\ NoWait.node = "Empty"
  BY Made
<1>7. wt \in [Waiters -> Waits] /\ wt[w] = NoWait /\ \A v \in Waiters : v # w => wt[v] = wait[v]
  BY <1>1, <1>6 DEF IInv, Types
<1>8. /\ st \in States /\ (calls.close = 0 => st # "Closed")
      /\ calls.close = 0 /\ state = "Woken" => st = "Woken"
  BY <1>1, <1>3, <1>4 DEF IInv, Types, Word, States
<1>9. CASE wait[w].node = "One"
  <2>1. WakeLocked(w, st, q, wt) /\ owed' \in BOOLEAN
    BY <1>2, <1>9 DEF IInv, Types
  <2> QED
    BY <1>2, <1>3, <1>5, <1>6, <1>7, <1>8, <2>1, WakeLockedStep
<1>10. CASE wait[w].node # "One"
  <2>1. queue' = q /\ state' = st /\ wait' = wt /\ Goto(w, "call") /\ UNCHANGED batch
    BY <1>2, <1>10
  <2>2. lock' = NoOne /\ curr' = "Empty"
    BY <1>2 DEF Release
  <2>3. /\ pc' \in [Actors -> Places] /\ pc'[w] = "call"
        /\ \A x \in Actors : x # w => pc'[x] = pc[x]
    BY <1>3, <2>1, Gone DEF Places, Calling
  <2>4. Alone(w)
    BY <1>2, <1>4, <2>1, <2>2, <2>3 DEF Alone
  <2>5. Types'
    BY <1>2, <1>5, <1>7, <1>8, <2>1, <2>2, <2>3 DEF IInv, Types, States
  <2>6. LockOf(w)' /\ BatchOf(w)'
    BY <1>3, <2>2, <2>3 DEF LockOf, BatchOf, Holding, Calling
  <2>7. WaiterOf(w)' /\ ReachOf(w)'
    BY <1>5, <1>6, <1>7, <2>1, <2>3 DEF WaiterOf, ReachOf
  <2>8. Word'
    BY <1>2, <1>8, <2>1, <2>2 DEF Word
  <2>9. WakeKept'
    <3>1. \A v \in Waiters : wait[v].node = "One" => wait'[v].node = "One"
      BY <1>7, <1>10, <2>1
    <3>2. pc[w] # "panic"
      BY <1>2
    <3> QED
      BY <1>2, <1>3, <1>8, <2>1, <2>4, <3>1, <3>2, WakeupKept
  <2>10. \A v \in Waiters : v # w => wait'[v] = wait[v] /\ (v \in ToSet(queue') <=> v \in ToSet(queue))
    BY <1>5, <1>7, <2>1
  <2> QED
    BY <1>3, <1>5, <2>1, <2>4, <2>5, <2>6, <2>7, <2>8, <2>9, <2>10, AnyStep
<1> QED
  BY <1>9, <1>10

-----------------------------------------------------------------------------
(* A batch leaves the list with its wakers, whatever its size. *)
LEMMA DrainFacts ==
    ASSUME IInv, NEW k \in Callers, NEW wakeup \in {"All", "Closed"}, Drain(k, wakeup)
    PROVE  /\ queue' \in Seq(Waiters) /\ Once(queue')
           /\ wait' \in [Waiters -> Waits]
           /\ batch' \in [Actors -> SUBSET Waiters] /\ \A x \in Actors : x # k => batch'[x] = batch[x]
           /\ \A w \in Waiters :
                (wait'[w] = wait[w] /\ (w \in ToSet(queue') <=> w \in ToSet(queue))) \/ Left(k, w)
           /\ \A w \in Waiters : wait[w].node = "One" => wait'[w].node = "One"
<1>1. PICK n \in 0 .. Len(queue) :
        /\ queue' = SubSeq(queue, n + 1, Len(queue))
        /\ wait' = [w \in Waiters |-> IF w \in ToSet(SubSeq(queue, 1, n))
                                      THEN [wait[w] EXCEPT !.node = wakeup] ELSE wait[w]]
        /\ batch' = [batch EXCEPT ![k] = {w \in ToSet(SubSeq(queue, 1, n)) : wait[w].node = "Waiting"}]
  BY DEF Drain
<1>2. PICK T : T = ToSet(SubSeq(queue, 1, n))
  OBVIOUS
<1>3. /\ queue' \in Seq(Waiters) /\ Once(queue') /\ ToSet(queue') = ToSet(queue) \ T
      /\ T \subseteq ToSet(queue) /\ T \subseteq Waiters
  BY <1>1, <1>2, CutAt, SeqFacts DEF IInv, Types
<1>4. \A w \in Waiters : wait'[w] = IF w \in T THEN [wait[w] EXCEPT !.node = wakeup] ELSE wait[w]
  BY <1>1, <1>2
<1>5. ASSUME NEW w \in Waiters
      PROVE  /\ [wait[w] EXCEPT !.node = wakeup] \in Waits
             /\ [wait[w] EXCEPT !.node = wakeup].node = wakeup
             /\ [wait[w] EXCEPT !.node = wakeup].state = wait[w].state
             /\ wait[w] \in Waits
  BY DEF IInv, Types, Waits
<1>6. wait' \in [Waiters -> Waits]
  BY <1>1, <1>5
<1>7. /\ batch' \in [Actors -> SUBSET Waiters] /\ \A x \in Actors : x # k => batch'[x] = batch[x]
      /\ batch'[k] = {w \in T : wait[w].node = "Waiting"}
  BY <1>1, <1>2, <1>3 DEF IInv, Types, Actors
<1>8. \A w \in T : Left(k, w)
  BY <1>3, <1>4, <1>5, <1>7 DEF Left
<1>9. \A w \in Waiters : w \notin T => wait'[w] = wait[w] /\ (w \in ToSet(queue') <=> w \in ToSet(queue))
  BY <1>3, <1>4
<1>10. \A w \in T : wait[w].node # "One"
  BY <1>3 DEF IInv, Waiting, WaiterOf
<1> QED
  BY <1>3, <1>6, <1>7, <1>8, <1>9, <1>10

LEMMA DrainStep ==
    ASSUME IInv, NEW k \in Callers, NEW from \in {"waking_all", "more_all", "more_closed"},
           NEW to \in Calling, NEW wakeup \in {"All", "Closed"},
           pc[k] = from, Goto(k, to), Drain(k, wakeup),
           \/ from = "waking_all" /\ state = "Waiting" /\ state' = "Empty" /\ Release
           \/ from # "waking_all" /\ UNCHANGED <<state, lock, curr>>,
           wakeAlls' \in Nat, UNCHANGED <<woken, value, owed, calls>>
    PROVE  IInv'
<1>1. k \in Actors /\ k \notin Waiters /\ k # NoOne
  BY WaitQueueAssumption DEF Actors
<1>2. LockOf(k) /\ BatchOf(k) /\ batch[k] = {}
  BY <1>1 DEF IInv, Acting, BatchOf, Calling
<1>3. /\ pc' \in [Actors -> Places] /\ pc'[k] = to
      /\ \A x \in Actors : x # k => pc'[x] = pc[x]
  BY <1>1, Gone DEF Places
<1>4. /\ queue' \in Seq(Waiters) /\ Once(queue')
      /\ wait' \in [Waiters -> Waits]
      /\ batch' \in [Actors -> SUBSET Waiters] /\ \A x \in Actors : x # k => batch'[x] = batch[x]
      /\ \A w \in Waiters :
           (wait'[w] = wait[w] /\ (w \in ToSet(queue') <=> w \in ToSet(queue))) \/ Left(k, w)
      /\ \A w \in Waiters : wait[w].node = "One" => wait'[w].node = "One"
  BY DrainFacts
<1>5. /\ state' \in States /\ curr' \in States /\ lock' \in Actors \cup {NoOne}
      /\ (lock = k /\ lock' = NoOne) \/ (lock # k /\ lock' = lock)
      /\ lock' = NoOne \/ UNCHANGED <<state, lock, curr>>
      /\ calls.close = 0 /\ state = "Woken" => state' = "Woken"
      /\ calls.close = 0 => state' # "Closed"
  BY <1>2 DEF IInv, Types, LockOf, Holding, Release, States, Word
<1>6. Alone(k)
  BY <1>3, <1>4, <1>5 DEF Alone
<1>7. Types'
  BY <1>3, <1>4, <1>5 DEF IInv, Types
<1>8. LockOf(k)' /\ BatchOf(k)'
  BY <1>1, <1>3, <1>5 DEF LockOf, BatchOf, Holding, Calling
<1>9. Word'
  BY <1>5 DEF IInv, Word
<1>10. WakeKept'
  <2>1. pc[k] # "panic"
    OBVIOUS
  <2> QED
    BY <1>1, <1>4, <1>5, <1>6, <2>1, WakeupKept
<1> QED
  BY <1>1, <1>2, <1>4, <1>6, <1>7, <1>8, <1>9, <1>10, AnyStep

LEMMA WakeAllStep == ASSUME IInv, NEW k \in Callers, WakeAll(k) PROVE IInv'
<1>1. pc[k] = "waking_all" /\ Release /\ UNCHANGED <<woken, value, owed, calls>>
  BY DEF WakeAll, history
<1>2. k \in Actors /\ k \notin Waiters /\ k # NoOne
  BY WaitQueueAssumption DEF Actors
<1>3. LockOf(k) /\ BatchOf(k) /\ lock = k /\ lock' = NoOne /\ curr' \in States
  BY <1>1, <1>2 DEF IInv, Acting, LockOf, Holding, Release, States
<1>4. CASE /\ Goto(k, "idle") \/ Goto(k, "panic")
           /\ wakeAlls' \in {wakeAlls, wakeAlls + 1}
           /\ UNCHANGED <<state, queue, wait, batch>>
  <2>1. PICK l \in {"idle", "panic"} : Goto(k, l)
    BY <1>4
  <2>2. /\ pc' \in [Actors -> Places] /\ pc'[k] = l
        /\ \A x \in Actors : x # k => pc'[x] = pc[x]
    BY <1>2, <2>1, Gone DEF Places, Outside
  <2>3. Alone(k)
    BY <1>1, <1>3, <1>4, <2>2 DEF Alone
  <2>4. Types' /\ Once(queue')
    BY <1>1, <1>3, <1>4, <2>2 DEF IInv, Types, Once
  <2>5. LockOf(k)' /\ BatchOf(k)'
    BY <1>1, <1>2, <1>3, <1>4, <2>2 DEF LockOf, BatchOf, Holding, Calling
  <2>6. Word' /\ WakeKept'
    BY <1>1, <1>2, <1>3, <1>4, <2>3, WakeupKept DEF IInv, Word
  <2> QED
    BY <1>2, <1>4, <2>3, <2>4, <2>5, <2>6, AnyStep
<1>5. CASE /\ curr = "Waiting" /\ state = curr /\ state' = "Empty" /\ wakeAlls' = wakeAlls + 1
           /\ Drain(k, "All") /\ Goto(k, IF queue' = <<>> THEN "call" ELSE "call_all")
  <2>1. PICK l \in Calling : Goto(k, l)
    BY <1>5 DEF Calling
  <2>2. wakeAlls' \in Nat
    BY <1>5 DEF IInv, Types
  <2> QED
    BY <1>1, <1>5, <2>1, <2>2, DrainStep
<1>6. \/ /\ Goto(k, "idle") \/ Goto(k, "panic")
         /\ wakeAlls' \in {wakeAlls, wakeAlls + 1}
         /\ UNCHANGED <<state, queue, wait, batch>>
      \/ /\ curr = "Waiting" /\ state = curr /\ state' = "Empty" /\ wakeAlls' = wakeAlls + 1
         /\ Drain(k, "All") /\ Goto(k, IF queue' = <<>> THEN "call" ELSE "call_all")
  BY Zenon DEF WakeAll
<1> QED
  BY <1>4, <1>5, <1>6

LEMMA DrainMoreStep ==
    ASSUME IInv, NEW k \in Callers,
           \/ DrainMore(k, "more_all", "All", "call_all")
           \/ DrainMore(k, "more_closed", "Closed", "call_closed")
    PROVE  IInv'
<1>1. PICK from \in {"more_all", "more_closed"}, wakeup \in {"All", "Closed"}, again \in Calling :
        DrainMore(k, from, wakeup, again)
  BY DEF Calling
<1>2. PICK l \in Calling : Goto(k, l)
  BY <1>1 DEF DrainMore, Calling
<1>3. wakeAlls' \in Nat
  BY <1>1 DEF DrainMore, IInv, Types
<1> QED
  BY <1>1, <1>2, <1>3, DrainStep DEF DrainMore, history

-----------------------------------------------------------------------------
LEMMA WaitersStep ==
    ASSUME IInv, NEW w \in Waiters, Begin(w) \/ Cancel(w) \/ WaitStep(w)
    PROVE  IInv'
<1>1. w \in Actors
  BY DEF Actors
<1>2. CASE LockEnqueue(w)
  BY <1>1, <1>2, AcquireStep DEF LockEnqueue, Outside, Holding
<1>3. CASE LockDrop(w)
  BY <1>1, <1>3, AcquireStep DEF LockDrop, Outside, Holding
<1>4. CASE Called(w)
  BY <1>1, <1>4, CallStep DEF Called, Calling
<1> QED
  BY <1>2, <1>3, <1>4, BeginStep, CancelStep, ConsumeStep, EnqueueStep, CheckStep, PollStep, DropStep
  DEF WaitStep

LEMMA CallersStep ==
    ASSUME IInv, NEW k \in Callers, Wake(k) \/ Store(k) \/ Close(k) \/ WakeStep(k)
    PROVE  IInv'
<1>1. k \in Actors /\ k \notin Waiters
  BY WaitQueueAssumption DEF Actors
<1>2. CASE LockWake(k)
  BY <1>1, <1>2, AcquireStep DEF LockWake, Outside, Holding
<1>3. CASE LockWakeAll(k)
  BY <1>1, <1>3, AcquireStep DEF LockWakeAll, Outside, Holding
<1>4. CASE Called(k) \/ CalledAll(k) \/ CalledClosed(k)
  BY <1>1, <1>4, CallStep DEF Called, CalledAll, CalledClosed, Calling
<1>5. CASE MoreAll(k) \/ MoreClosed(k)
  BY <1>5, DrainMoreStep DEF MoreAll, MoreClosed
<1> QED
  BY <1>2, <1>3, <1>4, <1>5, WakeStepKept, StoreStep, CloseStep, WakeOneStep, WakeAllStep
  DEF WakeStep

LEMMA IInvStep == IInv /\ [Next]_vars => IInv'
<1> SUFFICES ASSUME IInv, [Next]_vars PROVE IInv'
  OBVIOUS
<1>1. CASE Next
  BY <1>1, WaitersStep, CallersStep DEF Next
<1>2. CASE UNCHANGED vars
  <2>1. UNCHANGED <<state, wakeAlls, queue, lock, curr, pc, wait, batch, woken, value, owed, calls>>
    BY <1>2 DEF vars, queueVars, wakeVars, history
  <2>2. Types' /\ Once(queue)' /\ Word' /\ WakeKept'
    BY <2>1 DEF IInv, Types, Once, Word, WakeKept, Panicked
  <2>3. Waiting' /\ Acting'
    BY <2>1 DEF IInv, Waiting, WaiterOf, ReachOf, Acting, LockOf, BatchOf
  <2> QED
    BY <2>2, <2>3 DEF IInv
<1> QED
  BY <1>1, <1>2

LEMMA Invariance == Spec => []IInv
BY InitIInv, IInvStep, PTL DEF Spec

(* However wait, wait_for, wake, wake_all, close and the drop of a Wait
   interleave, a sleeping task's waker is in the list or in the hands of a thread
   that is going to call it, and the list has no node of a waiter that was woken
   or dropped: for any number of tasks and any size of a wake batch. *)
THEOREM TasksReachable == Spec => []SleepersReachable
<1>1. ASSUME IInv PROVE SleepersReachable
  <2>1. \A w \in ToSet(queue) : w \in Waiters
    BY <1>1, SeqFacts DEF IInv, Types
  <2> QED
    BY <1>1, <2>1 DEF IInv, Waiting, WaiterOf, ReachOf, SleepersReachable
<1> QED
  BY <1>1, Invariance, PTL

(* wake is not lost between the exchange of the state word, the locked list and
   the drop of the waiter that was chosen: release passes the wakeup on. *)
THEOREM WakesKept == Spec => []WakeKept
<1>1. IInv => WakeKept
  BY DEF IInv
<1> QED
  BY <1>1, Invariance, PTL
=============================================================================

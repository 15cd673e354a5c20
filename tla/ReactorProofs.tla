---------------------------- MODULE ReactorProofs ----------------------------
(***************************************************************************)
(* Operations stay apart, for any number of tasks, operations and events,  *)
(* any size of the submission queue and of a tick.                         *)
(*                                                                         *)
(* A slot belongs to one operation from the moment it is taken until the   *)
(* result is, or until the completion of a dropped operation comes; the    *)
(* kernel has the number of a slot only on behalf of the operation it      *)
(* belongs to.  Slot 0 is shared with the cancels, once there was one.     *)
(***************************************************************************)
EXTENDS Reactor, SequenceTheorems, FiniteSetTheorems, NaturalsInduction, WellFoundedInduction,
        TLAPS

Operations == [slot : Slots, buf : {"task", "slab", "freed", "out"},
               kernel : {"queued", "in", "asked", "over"}]
Entries == [kind : {"op", "cancel", "nop", "timeout"}, arg : Nat, slot : Int]
Completions == [user : Int, op : Nat]
States == [st : {"vacant", "waiting", "done", "ignored"}, op : Nat, res : Nat, task : Tasks]
Futures == [at : {"ready", "io", "event", "sleep", "done"}, op : Nat, event : BOOLEAN,
            woken : BOOLEAN, polling : BOOLEAN]
Places == {"turn", "process", "reap", "tick", "poll", "end", "ticked", "look", "arm",
           "wait", "asleep", "ended", "panic"}

Types ==
    /\ pc \in Places /\ cur \in Tasks /\ reap \in Int
    /\ task \in [Tasks -> Futures] /\ queue \in Seq(Tasks)
    /\ op \in Seq(Operations) /\ slab \in [Slots -> States] /\ free \in Seq(Slots)
    /\ sq \in Seq(Entries) /\ cq \in Seq(Completions)
    /\ alarm \in SUBSET Nat /\ now \in Nat /\ timer \in [Tasks -> Nat]
    /\ other \in [at : {"idle", "count", "queue", "nop", "submit"}, task : Tasks]
    /\ cancelled \in BOOLEAN
    /\ pc = "reap" => reap \in 1 .. Len(cq)
    /\ pc = "arm" => Armed # {}

(* The slots whose completions are those of their operations. *)
Own(s) == s # 0 \/ ~cancelled

(* The free slots are vacant, each is listed once, and there is one for every
   operation that may yet come. *)
Free ==
    /\ \A k \in DOMAIN free : slab[free[k]].st = "vacant"
    /\ \A j, k \in DOMAIN free : free[j] = free[k] => j = k
    /\ Len(free) >= MaxOps - Len(op)

(* A slot that is taken and the operation that has its buffer are each other's;
   the task that waits for it has that operation. *)
Taken(s) ==
    slab[s].st # "vacant" =>
        /\ slab[s].op \in DOMAIN op
        /\ op[slab[s].op].slot = s /\ op[slab[s].op].buf # "out"
        /\ op[slab[s].op].buf = "task" =>
            /\ task[slab[s].task].at = "io"
            /\ task[slab[s].task].op = slab[s].op
Held(i) ==
    op[i].buf # "out" => slab[op[i].slot].st # "vacant" /\ slab[op[i].slot].op = i
Awaited(t) ==
    task[t].at = "io" =>
        /\ task[t].op \in DOMAIN op
        /\ slab[SlotOf(t)].st \in {"waiting", "done"}
        /\ slab[SlotOf(t)].op = task[t].op /\ slab[SlotOf(t)].task = t

(* What is completed is over, and until then its buffer stays. *)
Finished(s) ==
    Own(s) /\ slab[s].st = "done" =>
        slab[s].res = slab[s].op /\ op[slab[s].op].kernel = "over"
Kept(i) ==
    Own(op[i].slot) /\ op[i].kernel # "over" => op[i].buf # "out"

(* An operation is queued once, and before the kernel has it. *)
QueuedIn(q, o) ==
    /\ \A j \in DOMAIN q : q[j].kind = "op" =>
        q[j].arg \in DOMAIN o /\ o[q[j].arg].kernel = "queued"
    /\ \A j, l \in DOMAIN q : q[j].kind = "op" /\ q[l].kind = "op" /\ q[j].arg = q[l].arg
        => j = l
    /\ \A j \in DOMAIN q : q[j].kind = "cancel" => cancelled

(* A completion is that of the operation whose slot it names, which is over and
   waits for nothing else: there is one at most. *)
Answers(c) ==
    c.user \in Slots /\ Own(c.user) =>
        /\ c.op \in DOMAIN op
        /\ op[c.op].slot = c.user /\ op[c.op].kernel = "over" /\ op[c.op].buf # "out"
        /\ slab[c.user].st \in {"waiting", "ignored"}
Completed(q) ==
    /\ \A j \in DOMAIN q : Answers(q[j])
    /\ \A j, l \in DOMAIN q : q[j].user \in Slots /\ Own(q[j].user) /\ q[j].user = q[l].user
        => j = l

Apart ==
    /\ Free
    /\ \A s \in Slots : Taken(s) /\ Finished(s)
    /\ \A i \in DOMAIN op : Held(i) /\ Kept(i)
    /\ \A t \in Tasks : Awaited(t)
    /\ QueuedIn(sq, op) /\ Completed(cq)

(* The inductive invariant. *)
IInv == Types /\ (~Over => Apart)

-----------------------------------------------------------------------------
(* What the kernel may make of the operations o and the completions d: nothing
   becomes or stops being over, and what is added to the completions is of no
   slot, or of slot 0 and comes from a cancel. *)
Kernels == [op : Seq(Operations), cq : Seq(Completions), alarm : SUBSET Nat]

SameOps(o, p) ==
    /\ DOMAIN p = DOMAIN o
    /\ \A i \in DOMAIN o :
        /\ p[i].slot = o[i].slot /\ p[i].buf = o[i].buf
        /\ p[i].kernel = "over" <=> o[i].kernel = "over"

Longer(d, q) ==
    /\ Len(q) >= Len(d)
    /\ \A j \in DOMAIN d : q[j] = d[j]
    /\ \A j \in DOMAIN q : j > Len(d) => q[j].user = NoSlot \/ (cancelled /\ q[j].user = 0)

Reached(o, d, k) == k \in Kernels /\ SameOps(o, k.op) /\ Longer(d, k.cq)

LEMMA SeqFacts ==
    ASSUME NEW S, NEW q \in Seq(S)
    PROVE  /\ Len(q) \in Nat /\ DOMAIN q = 1 .. Len(q)
           /\ \A i \in DOMAIN q : q[i] \in S
BY LenProperties, ElementOfSeq

LEMMA AppendFacts ==
    ASSUME NEW S, NEW q \in Seq(S), NEW e \in S
    PROVE  /\ Append(q, e) \in Seq(S)
           /\ Len(q) \in Nat /\ DOMAIN q = 1 .. Len(q)
           /\ Len(Append(q, e)) = Len(q) + 1
           /\ DOMAIN Append(q, e) = 1 .. Len(q) + 1
           /\ Append(q, e)[Len(q) + 1] = e
           /\ \A i \in 1 .. Len(q) : Append(q, e)[i] = q[i]
BY AppendProperties, LenProperties

LEMMA TailFacts ==
    ASSUME NEW S, NEW q \in Seq(S), q # <<>>
    PROVE  /\ Head(q) = q[1] /\ Head(q) \in S
           /\ Tail(q) \in Seq(S) /\ Len(Tail(q)) = Len(q) - 1
           /\ DOMAIN Tail(q) = 1 .. Len(q) - 1
           /\ \A i \in 1 .. Len(q) - 1 : Tail(q)[i] = q[i + 1]
BY HeadTailProperties, LenProperties

LEMMA ReplaceFacts ==
    ASSUME NEW S, NEW q \in Seq(S), NEW i \in DOMAIN q, NEW r \in S,
           NEW p, p = [q EXCEPT ![i] = r]
    PROVE  /\ p \in Seq(S) /\ Len(p) = Len(q) /\ DOMAIN p = DOMAIN q
           /\ p[i] = r /\ \A n \in DOMAIN q : n # i => p[n] = q[n]
<1>1. DOMAIN q = 1 .. Len(q) /\ i \in 1 .. Len(q)
  BY SeqFacts
<1>2. p \in Seq(S) /\ Len(p) = Len(q)
  BY <1>1, ExceptSeq
<1> QED
  BY <1>1, <1>2, SeqFacts

(* A set of naturals that is not empty has a smallest element. *)
LEMMA SmallestExists ==
    ASSUME NEW S \in SUBSET Nat, S # {}
    PROVE  Min(S) \in S
<1> DEFINE R == OpToRel(<, Nat)
<1>1. IsWellFoundedOn(R, Nat)
  BY NatLessThanWellFounded
<1>2. PICK d \in S : \A e \in S : ~(<<e, d>> \in R)
  <2> HIDE DEF R
  <2> QED
    BY <1>1, WFMin
<1>3. \A e \in S : ~(e < d)
  BY <1>2 DEF OpToRel
<1>4. \A e \in S : d <= e
  BY <1>3
<1> QED
  BY <1>4 DEF Min

(* Induction up to N, for a set of numbers. *)
LEMMA Upward ==
    ASSUME NEW N \in Nat, NEW T, 0 \in T, \A n \in 0 .. N - 1 : n \in T => n + 1 \in T
    PROVE  \A n \in 0 .. N : n \in T
<1> DEFINE U == {n \in 0 .. N : n \notin T}
<1> SUFFICES ASSUME U # {} PROVE FALSE
  OBVIOUS
<1> DEFINE R == OpToRel(<, Nat)
<1>1. IsWellFoundedOn(R, Nat)
  BY NatLessThanWellFounded
<1>2. U \in SUBSET Nat
  OBVIOUS
<1>3. PICK d \in U : \A e \in U : ~(<<e, d>> \in R)
  <2> HIDE DEF R, U
  <2> QED
    BY <1>1, <1>2, WFMin
<1>4. \A e \in U : ~(e < d)
  BY <1>2, <1>3 DEF OpToRel
<1>5. d # 0 /\ d \in 0 .. N
  OBVIOUS
<1>6. d - 1 \in 0 .. N - 1 /\ d - 1 \notin U
  BY <1>4, <1>5
<1>7. d - 1 \in T
  BY <1>6
<1>8. d \in T
  BY <1>6, <1>7
<1> QED
  BY <1>8

(* One completion more that is of no slot, or comes from a cancel. *)
LEMMA PostFacts ==
    ASSUME NEW d \in Seq(Completions), NEW q \in Seq(Completions), Longer(d, q),
           NEW c \in Completions, c.user = NoSlot \/ (cancelled /\ c.user = 0)
    PROVE  Post(q, c) \in Seq(Completions) /\ Longer(d, Post(q, c))
<1>1. CASE Post(q, c) = q
  BY <1>1
<1>2. CASE Post(q, c) = Append(q, c)
  <2>1. /\ Append(q, c) \in Seq(Completions) /\ Len(Append(q, c)) = Len(q) + 1
        /\ DOMAIN Append(q, c) = 1 .. Len(q) + 1 /\ Append(q, c)[Len(q) + 1] = c
        /\ \A j \in 1 .. Len(q) : Append(q, c)[j] = q[j]
        /\ Len(q) \in Nat /\ DOMAIN q = 1 .. Len(q) /\ Len(d) \in Nat /\ DOMAIN d = 1 .. Len(d)
    BY AppendFacts, SeqFacts
  <2> DEFINE p == Append(q, c)
  <2>2. Longer(d, p)
    <3> HIDE DEF p
    <3> QED
      BY <2>1 DEF Longer, p
  <2> QED
    BY <1>2, <2>1, <2>2
<1> QED
  BY <1>1, <1>2 DEF Post

(* The kernel takes one entry. *)
LEMMA EnterFacts ==
    ASSUME NEW o \in Seq(Operations), NEW d \in Seq(Completions), NEW k, Reached(o, d, k),
           NEW e \in Entries,
           e.kind = "op" => e.arg \in DOMAIN o /\ k.op[e.arg].kernel = "queued",
           e.kind = "cancel" => cancelled
    PROVE  /\ Reached(o, d, Enter(k, e))
           /\ \A i \in DOMAIN o : k.op[i].kernel = "queued" /\ ~(e.kind = "op" /\ e.arg = i)
                => Enter(k, e).op[i].kernel = "queued"
<1>1. /\ k \in Kernels /\ SameOps(o, k.op) /\ Longer(d, k.cq)
      /\ k.op \in Seq(Operations) /\ k.cq \in Seq(Completions) /\ k.alarm \in SUBSET Nat
      /\ k = [op |-> k.op, cq |-> k.cq, alarm |-> k.alarm]
      /\ DOMAIN k.op = DOMAIN o
  BY DEF Reached, Kernels, SameOps
<1>2. \A i \in DOMAIN o : k.op[i] \in Operations
  BY <1>1, SeqFacts
<1>3. ASSUME NEW i \in DOMAIN o, NEW w \in {"in", "asked"}, k.op[i].kernel # "over",
             NEW p, p = [k.op EXCEPT ![i].kernel = w]
      PROVE  /\ p \in Seq(Operations) /\ SameOps(o, p)
             /\ \A j \in DOMAIN o : j # i => p[j] = k.op[j]
  <2> DEFINE r == [k.op[i] EXCEPT !.kernel = w]
  <2>1. r \in Operations /\ r.slot = k.op[i].slot /\ r.buf = k.op[i].buf /\ r.kernel = w
    BY <1>2 DEF Operations
  <2>2. p = [k.op EXCEPT ![i] = r]
    BY <1>3
  <2> HIDE DEF r
  <2>3. /\ p \in Seq(Operations) /\ DOMAIN p = DOMAIN k.op
        /\ p[i] = r /\ \A j \in DOMAIN k.op : j # i => p[j] = k.op[j]
    BY <1>1, <2>1, <2>2, ReplaceFacts
  <2>4. SameOps(o, p)
    BY <1>1, <1>3, <2>1, <2>3 DEF SameOps
  <2> QED
    BY <1>1, <2>3, <2>4
<1>4. CASE e.kind = "op"
  <2> DEFINE p == [k.op EXCEPT ![e.arg].kernel = "in"]
  <2>1. Enter(k, e) = [k EXCEPT !.op[e.arg].kernel = "in"]
    BY <1>4 DEF Enter
  <2>2. Enter(k, e) = [op |-> p, cq |-> k.cq, alarm |-> k.alarm]
    BY <1>1, <2>1
  <2>3. /\ p \in Seq(Operations) /\ SameOps(o, p)
        /\ \A j \in DOMAIN o : j # e.arg => p[j] = k.op[j]
    BY <1>3, <1>4
  <2> HIDE DEF p
  <2> QED
    BY <1>1, <1>4, <2>2, <2>3 DEF Reached, Kernels
<1>5. CASE e.kind = "cancel"
  <2> DEFINE hit == {i \in DOMAIN k.op : k.op[i].kernel = "in" /\ k.op[i].slot = e.slot}
             p == IF hit = {} THEN k.op ELSE [k.op EXCEPT ![Min(hit)].kernel = "asked"]
             q == Post(k.cq, Cqe(0, 0))
  <2>1. Enter(k, e) = [k EXCEPT !.op = p, !.cq = q]
    BY <1>5 DEF Enter
  <2>2. Enter(k, e) = [op |-> p, cq |-> q, alarm |-> k.alarm]
    BY <1>1, <2>1
  <2>3. q \in Seq(Completions) /\ Longer(d, q)
    <3>1. Cqe(0, 0) \in Completions /\ Cqe(0, 0).user = 0
      BY DEF Cqe, Completions
    <3> QED
      BY <1>1, <1>5, <3>1, PostFacts
  <2>4. /\ p \in Seq(Operations) /\ SameOps(o, p)
        /\ \A j \in DOMAIN o : k.op[j].kernel = "queued" => p[j].kernel = "queued"
    <3>1. CASE hit = {}
      BY <1>1, <3>1
    <3>2. CASE hit # {}
      <4>1. hit \in SUBSET Nat
        BY <1>1, SeqFacts
      <4>2. Min(hit) \in hit
        BY <3>2, <4>1, SmallestExists
      <4>3. Min(hit) \in DOMAIN o /\ k.op[Min(hit)].kernel = "in"
        BY <1>1, <4>2
      <4> DEFINE n == Min(hit)
      <4>4. p = [k.op EXCEPT ![n].kernel = "asked"]
        BY <3>2
      <4> HIDE DEF n, p, hit
      <4>5. n \in DOMAIN o /\ k.op[n].kernel = "in"
        BY <4>3 DEF n
      <4>6. /\ p \in Seq(Operations) /\ SameOps(o, p)
            /\ \A j \in DOMAIN o : j # n => p[j] = k.op[j]
        BY <1>3, <4>4, <4>5, ZenonT(40)
      <4> QED
        BY <4>5, <4>6
    <3> QED
      BY <3>1, <3>2
  <2> HIDE DEF p, q, hit
  <2> QED
    BY <1>1, <2>2, <2>3, <2>4 DEF Reached, Kernels
<1>6. CASE e.kind = "nop"
  <2> DEFINE q == Post(k.cq, Cqe(NoSlot, 0))
  <2>1. Enter(k, e) = [k EXCEPT !.cq = q]
    BY <1>6 DEF Enter
  <2>2. Enter(k, e) = [op |-> k.op, cq |-> q, alarm |-> k.alarm]
    BY <1>1, <2>1
  <2>3. q \in Seq(Completions) /\ Longer(d, q)
    <3>1. Cqe(NoSlot, 0) \in Completions /\ Cqe(NoSlot, 0).user = NoSlot
      BY DEF Cqe, Completions, NoSlot
    <3> QED
      BY <1>1, <3>1, PostFacts
  <2> HIDE DEF q
  <2> QED
    BY <1>1, <2>2, <2>3 DEF Reached, Kernels
<1>7. CASE e.kind = "timeout"
  <2>1. Enter(k, e) = [k EXCEPT !.alarm = @ \cup {e.arg}]
    BY <1>7 DEF Enter
  <2>2. Enter(k, e) = [op |-> k.op, cq |-> k.cq, alarm |-> k.alarm \cup {e.arg}]
    BY <1>1, <2>1
  <2>3. k.alarm \cup {e.arg} \in SUBSET Nat
    BY <1>1 DEF Entries
  <2> QED
    BY <1>1, <2>2, <2>3 DEF Reached, Kernels
<1> QED
  BY <1>4, <1>5, <1>6, <1>7 DEF Entries
(* The kernel takes all entries of a queue: by induction on how many it has
   taken, first that the recursion defines something at all. *)
LEMMA EnteredFacts ==
    ASSUME NEW q \in Seq(Entries), NEW o \in Seq(Operations), NEW d \in Seq(Completions),
           NEW a \in SUBSET Nat, QueuedIn(q, o)
    PROVE  Reached(o, d, Entered(q, [op |-> o, cq |-> d, alarm |-> a]))
<1> DEFINE N == Len(q)
           k0 == [op |-> o, cq |-> d, alarm |-> a]
           Left(k, n) == \A m \in n + 1 .. N : q[m].kind = "op" => k.op[q[m].arg].kernel = "queued"
           G(n) == {k \in Kernels : Reached(o, d, k) /\ Left(k, n)}
<1>1. N \in Nat /\ DOMAIN q = 1 .. N /\ \A n \in 1 .. N : q[n] \in Entries
  BY SeqFacts
<1>2. k0 \in G(0)
  <2>1. k0 \in Kernels
    BY DEF Kernels
  <2>2. Reached(o, d, k0)
    BY <2>1, SeqFacts DEF Reached, SameOps, Longer
  <2>3. Left(k0, 0)
    BY <1>1 DEF QueuedIn
  <2> QED
    BY <2>1, <2>2, <2>3
<1>3. ASSUME NEW n \in 1 .. N, NEW k \in G(n - 1) PROVE Enter(k, q[n]) \in G(n)
  <2>1. Reached(o, d, k) /\ Left(k, n - 1)
    BY <1>3
  <2>2. q[n] \in Entries /\ n \in DOMAIN q /\ n \in (n - 1) + 1 .. N
    BY <1>1
  <2>3. q[n].kind = "op" => q[n].arg \in DOMAIN o /\ k.op[q[n].arg].kernel = "queued"
    BY <2>1, <2>2 DEF QueuedIn
  <2>4. q[n].kind = "cancel" => cancelled
    BY <2>2 DEF QueuedIn
  <2>5. /\ Reached(o, d, Enter(k, q[n]))
        /\ \A i \in DOMAIN o : k.op[i].kernel = "queued" /\ ~(q[n].kind = "op" /\ q[n].arg = i)
             => Enter(k, q[n]).op[i].kernel = "queued"
    BY <2>1, <2>2, <2>3, <2>4, EnterFacts
  <2>6. Left(Enter(k, q[n]), n)
    <3> SUFFICES ASSUME NEW m \in n + 1 .. N, q[m].kind = "op"
                 PROVE  Enter(k, q[n]).op[q[m].arg].kernel = "queued"
      OBVIOUS
    <3>1. m \in DOMAIN q /\ m # n /\ m \in (n - 1) + 1 .. N
      BY <1>1
    <3>2. q[m].arg \in DOMAIN o /\ k.op[q[m].arg].kernel = "queued"
      BY <2>1, <3>1 DEF QueuedIn
    <3>3. ~(q[n].kind = "op" /\ q[n].arg = q[m].arg)
      BY <2>2, <3>1 DEF QueuedIn
    <3> QED
      BY <2>5, <3>2, <3>3
  <2>7. Enter(k, q[n]) \in Kernels
    BY <2>5 DEF Reached
  <2> QED
    BY <2>5, <2>6, <2>7
<1> HIDE DEF G, k0
<1> DEFINE Def(f, m) ==
             /\ f \in [0 .. m -> Kernels] /\ f[0] = k0
             /\ \A n \in 1 .. m : f[n] = Enter(f[n - 1], q[n])
             /\ \A n \in 0 .. m : f[n] \in G(n)
           T == {m \in 0 .. N : \E f \in [0 .. m -> Kernels] : Def(f, m)}
<1>4. \A m \in 0 .. N : m \in T
  <2>1. 0 \in T
    <3> DEFINE f == [n \in 0 .. 0 |-> k0]
    <3>1. k0 \in Kernels
      BY <1>2 DEF G
    <3>2. f \in [0 .. 0 -> Kernels] /\ Def(f, 0)
      BY <1>2, <3>1
    <3>3. 0 \in 0 .. N
      BY <1>1
    <3> HIDE DEF f, Def
    <3> QED
      BY <3>2, <3>3
  <2>2. ASSUME NEW m \in 0 .. N - 1, m \in T PROVE m + 1 \in T
    <3>1. PICK f \in [0 .. m -> Kernels] : Def(f, m)
      BY <2>2
    <3> DEFINE e == Enter(f[m], q[m + 1])
               g == [n \in 0 .. m + 1 |-> IF n = m + 1 THEN e ELSE f[n]]
    <3>2. m \in Nat /\ m + 1 \in 1 .. N /\ m + 1 - 1 = m
      BY <1>1
    <3>3. e \in G(m + 1)
      BY <1>3, <3>1, <3>2
    <3>4. e \in Kernels
      BY <3>3 DEF G
    <3>5. g \in [0 .. m + 1 -> Kernels]
      BY <3>1, <3>2, <3>4
    <3>6. \A n \in 0 .. m : g[n] = f[n]
      BY <3>2
    <3>7. g[m + 1] = e
      BY <3>2
    <3>8. \A n \in 1 .. m + 1 : g[n] = Enter(g[n - 1], q[n])
      <4> TAKE n \in 1 .. m + 1
      <4>1. n - 1 \in 0 .. m
        BY <3>2
      <4>2. CASE n = m + 1
        BY <3>2, <3>6, <3>7, <4>1, <4>2
      <4>3. CASE n # m + 1
        <5>1. n \in 1 .. m /\ n \in 0 .. m
          BY <3>2, <4>3
        <5> QED
          BY <3>1, <3>6, <4>1, <5>1
      <4> QED
        BY <4>2, <4>3
    <3>9. \A n \in 0 .. m + 1 : g[n] \in G(n)
      BY <3>1, <3>2, <3>3, <3>6, <3>7
    <3>10. g[0] = k0
      BY <3>1, <3>2, <3>6
    <3> HIDE DEF g, e
    <3>11. Def(g, m + 1)
      <4> DEFINE l == m + 1
      <4>1. g \in [0 .. l -> Kernels] /\ g[0] = k0
        BY <3>5, <3>10
      <4>2. \A n \in 1 .. l : g[n] = Enter(g[n - 1], q[n])
        BY <3>8
      <4>3. \A n \in 0 .. l : g[n] \in G(n)
        BY <3>9
      <4> HIDE DEF l
      <4>4. Def(g, l)
        BY <4>1, <4>2, <4>3, Zenon
      <4> HIDE DEF Def
      <4> QED
        BY <4>4 DEF l
    <3>12. m + 1 \in 0 .. N
      BY <1>1, <3>2
    <3> HIDE DEF Def
    <3>13. \E p \in [0 .. m + 1 -> Kernels] : Def(p, m + 1)
      BY <3>5, <3>11, Zenon
    <3> QED
      BY <3>12, <3>13, Zenon
  <2> HIDE DEF T
  <2> QED
    BY <1>1, <2>1, <2>2, Upward
<1>5. PICK f \in [0 .. N -> Kernels] : Def(f, N)
  <2>1. N \in T
    <3>1. N \in 0 .. N
      BY <1>1
    <3> HIDE DEF T
    <3> QED
      BY <1>4, <3>1
  <2> HIDE DEF Def
  <2> QED
    BY <2>1
<1> DEFINE H(k) == [n \in 0 .. N |-> IF n = 0 THEN k0 ELSE Enter(k[n - 1], q[n])]
           h == CHOOSE k : k = H(k)
<1>6. f = H(f)
  BY <1>1, <1>5
<1>7. h = H(h)
  BY <1>6
<1>8. Entered(q, k0) = h[N]
  BY DEF Entered
<1> HIDE DEF h
<1>9. h[0] = k0 /\ \A n \in 1 .. N : h[n] = Enter(h[n - 1], q[n])
  <2>1. 0 \in 0 .. N /\ \A n \in 1 .. N : n \in 0 .. N /\ n # 0
    BY <1>1
  <2>2. h = [n \in 0 .. N |-> IF n = 0 THEN k0 ELSE Enter(h[n - 1], q[n])]
    BY <1>7
  <2>3. \A n \in 0 .. N : h[n] = IF n = 0 THEN k0 ELSE Enter(h[n - 1], q[n])
    BY <2>2, Zenon
  <2> QED
    BY <2>1, <2>3
<1> HIDE DEF H
<1>10. h[N] \in G(N)
  <2> DEFINE V == {n \in 0 .. N : h[n] \in G(n)}
  <2>1. 0 \in V
    BY <1>1, <1>2, <1>9
  <2>2. ASSUME NEW n \in 0 .. N - 1, n \in V PROVE n + 1 \in V
    <3>1. n + 1 \in 1 .. N /\ n + 1 \in 0 .. N /\ n + 1 - 1 = n
      BY <1>1
    <3>2. h[n + 1] = Enter(h[n], q[n + 1])
      BY <1>9, <3>1
    <3> QED
      BY <1>3, <2>2, <3>1, <3>2
  <2> HIDE DEF V
  <2>3. \A n \in 0 .. N : n \in V
    BY <1>1, <2>1, <2>2, Upward
  <2> QED
    BY <1>1, <2>3 DEF V
<1> QED
  BY <1>8, <1>10 DEF G, k0
-----------------------------------------------------------------------------
LEMMA SubmitFacts ==
    ASSUME Types, NEW q \in Seq(Entries), NEW d \in Seq(Completions), QueuedIn(q, op),
           Submit(q, d)
    PROVE  /\ op' \in Seq(Operations) /\ cq' \in Seq(Completions) /\ alarm' \in SUBSET Nat
           /\ sq' = <<>> /\ SameOps(op, op') /\ Longer(d, cq')
<1> DEFINE k == Entered(q, [op |-> op, cq |-> d, alarm |-> alarm])
<1>1. sq' = <<>> /\ op' = k.op /\ cq' = k.cq /\ alarm' = k.alarm
  BY DEF Submit
<1>2. Reached(op, d, k)
  BY EnteredFacts DEF Types
<1> HIDE DEF k
<1> QED
  BY <1>1, <1>2 DEF Reached, Kernels

(* A queue with one entry more that is no operation. *)
LEMMA QueuedMore ==
    ASSUME NEW q \in Seq(Entries), NEW o, QueuedIn(q, o), NEW e \in Entries,
           e.kind # "op", e.kind = "cancel" => cancelled
    PROVE  QueuedIn(Append(q, e), o) /\ Append(q, e) \in Seq(Entries)
<1> DEFINE p == Append(q, e)
<1>1. /\ p \in Seq(Entries) /\ DOMAIN p = 1 .. Len(q) + 1 /\ p[Len(q) + 1] = e
      /\ \A i \in 1 .. Len(q) : p[i] = q[i]
      /\ Len(q) \in Nat /\ DOMAIN q = 1 .. Len(q)
  BY AppendFacts
<1> HIDE DEF p
<1>2. \A j \in DOMAIN p : (j \in DOMAIN q /\ p[j] = q[j]) \/ p[j] = e
  BY <1>1
<1>3. \A j \in DOMAIN p : p[j].kind = "op" => j \in DOMAIN q /\ p[j] = q[j]
  BY <1>2
<1> QED
  BY <1>1, <1>2, <1>3 DEF QueuedIn, p

(* What the tasks wait for. *)
SameWaits ==
    \A t \in Tasks :
        /\ task'[t].at = "io" <=> task[t].at = "io"
        /\ task[t].at = "io" => task'[t].op = task[t].op

LEMMA MarkedFacts ==
    ASSUME Types, NEW t \in Tasks
    PROVE  /\ Marked(t) \in [Tasks -> Futures]
           /\ \A u \in Tasks : Marked(t)[u].at = task[u].at /\ Marked(t)[u].op = task[u].op
<1>1. task \in [Tasks -> Futures]
  BY DEF Types
<1>2. [task EXCEPT ![t].woken = TRUE] = [task EXCEPT ![t] = [task[t] EXCEPT !.woken = TRUE]]
  BY <1>1
<1>3. [task[t] EXCEPT !.woken = TRUE] \in Futures
  BY <1>1 DEF Futures
<1> QED
  BY <1>1, <1>2, <1>3 DEF Marked, Futures

LEMMA WakeFacts ==
    ASSUME Types, QueuedIn(sq, op), NEW t \in Tasks, NEW d \in Seq(Completions), WakeOwn(t, d)
    PROVE  /\ task' \in [Tasks -> Futures] /\ SameWaits
           /\ queue' \in Seq(Tasks)
           /\ op' \in Seq(Operations) /\ cq' \in Seq(Completions) /\ alarm' \in SUBSET Nat
           /\ sq' \in Seq(Entries)
           /\ SameOps(op, op') /\ Longer(d, cq') /\ QueuedIn(sq', op')
<1>1. task' \in [Tasks -> Futures] /\ SameWaits
  <2>1. task' = Marked(t)
    BY DEF WakeOwn
  <2> QED
    BY <2>1, MarkedFacts DEF SameWaits
<1>2. CASE Enqueues(t)
  <2>1. queue' \in Seq(Tasks)
    <3>1. queue' = Append(queue, t) /\ queue \in Seq(Tasks)
      BY <1>2 DEF WakeOwn, Types
    <3> QED
      BY <3>1, AppendFacts
  <2>2. PICK q \in Seq(Entries) : QueuedIn(q, op) /\ Submit(q, d)
    <3>1. Nop \in Entries /\ Nop.kind = "nop"
      BY DEF Nop, Entries, NoSlot
    <3>2. QueuedIn(Append(sq, Nop), op) /\ Append(sq, Nop) \in Seq(Entries)
      BY <3>1, QueuedMore DEF Types
    <3>3. CASE Len(sq) < SqCap
      <4>1. Submit(Append(sq, Nop), d)
        BY <1>2, <3>3 DEF WakeOwn
      <4> QED
        BY <3>2, <4>1
    <3>4. CASE ~(Len(sq) < SqCap)
      <4>1. Submit(sq, d)
        BY <1>2, <3>4 DEF WakeOwn
      <4> QED
        BY <4>1 DEF Types
    <3> QED
      BY <3>3, <3>4
  <2>3. /\ op' \in Seq(Operations) /\ cq' \in Seq(Completions) /\ alarm' \in SUBSET Nat
        /\ sq' = <<>> /\ SameOps(op, op') /\ Longer(d, cq')
    BY <2>2, SubmitFacts
  <2>4. QueuedIn(sq', op') /\ sq' \in Seq(Entries)
    BY <2>3 DEF QueuedIn
  <2> QED
    BY <1>1, <2>1, <2>3, <2>4
<1>3. CASE ~Enqueues(t)
  <2>1. cq' = d /\ UNCHANGED <<queue, op, sq, alarm>>
    BY <1>3 DEF WakeOwn
  <2>2. SameOps(op, op') /\ Longer(d, cq')
    BY <2>1, SeqFacts DEF SameOps, Longer, Types
  <2> QED
    BY <1>1, <2>1, <2>2 DEF Types
<1> QED
  BY <1>2, <1>3

LEMMA SameLength ==
    ASSUME NEW a \in Nat, NEW b \in Nat, 1 .. a = 1 .. b
    PROVE  a = b
<1>1. a = 0 \/ a \in 1 .. b
  OBVIOUS
<1>2. b = 0 \/ b \in 1 .. a
  OBVIOUS
<1> QED
  BY <1>1, <1>2

(* A step that leaves the slots, what the tasks wait for and the operations as
   they are, but for how far the kernel is, and adds completions of no slot. *)
LEMMA Calm ==
    ASSUME Types, Apart, op' \in Seq(Operations), cq' \in Seq(Completions),
           SameOps(op, op'), SameWaits, Longer(cq, cq'), QueuedIn(sq', op'),
           UNCHANGED <<slab, free, cancelled>>
    PROVE  Apart'
<1>1. Len(op') = Len(op)
  <2>1. DOMAIN op = 1 .. Len(op) /\ DOMAIN op' = 1 .. Len(op') /\ Len(op) \in Nat /\ Len(op') \in Nat
    BY SeqFacts DEF Types
  <2>2. 1 .. Len(op) = 1 .. Len(op')
    BY <2>1 DEF SameOps
  <2> QED
    BY <2>1, <2>2, SameLength
<1>2. Free'
  BY <1>1 DEF Apart, Free
<1>3. ASSUME NEW s \in Slots PROVE Taken(s)' /\ Finished(s)'
  <2>1. slab[s] \in States
    BY DEF Types
  <2>2. slab[s].task \in Tasks
    BY <2>1 DEF States
  <2>3. Taken(s) /\ Finished(s)
    BY DEF Apart
  <2>4. Taken(s)'
    BY <2>2, <2>3 DEF Taken, SameOps, SameWaits
  <2>5. Finished(s)'
    BY <2>3 DEF Finished, Taken, SameOps, Own
  <2> QED
    BY <2>4, <2>5
<1>4. ASSUME NEW i \in DOMAIN op' PROVE Held(i)' /\ Kept(i)'
  <2>1. i \in DOMAIN op
    BY DEF SameOps
  <2>2. Held(i) /\ Kept(i)
    BY <2>1 DEF Apart
  <2> QED
    BY <2>1, <2>2 DEF Held, Kept, SameOps, Own
<1>5. ASSUME NEW t \in Tasks PROVE Awaited(t)'
  BY DEF Apart, Awaited, SameOps, SameWaits, SlotOf
<1>6. (QueuedIn(sq, op))'
  BY DEF QueuedIn
<1>7. (Completed(cq))'
  <2>1. \A j \in DOMAIN cq : cq'[j] = cq[j] /\ Answers(cq[j])
    BY DEF Apart, Completed, Longer
  <2>2. \A j \in DOMAIN cq' : j \in DOMAIN cq \/ cq'[j].user = NoSlot \/ (cancelled /\ cq'[j].user = 0)
    <3>1. DOMAIN cq = 1 .. Len(cq) /\ DOMAIN cq' = 1 .. Len(cq') /\ Len(cq) \in Nat /\ Len(cq') \in Nat
      BY SeqFacts DEF Types
    <3> QED
      BY <3>1 DEF Longer
  <2>3. NoSlot \notin Slots
    BY ReactorAssumption DEF NoSlot, Slots
  <2>4. \A j \in DOMAIN cq' : cq'[j].user \in Slots /\ Own(cq'[j].user) => j \in DOMAIN cq
    BY <2>2, <2>3 DEF Own
  <2>5. \A j \in DOMAIN cq' : (Answers(cq[j]))' \/ ~(cq'[j].user \in Slots /\ Own(cq'[j].user))
    <3> TAKE j \in DOMAIN cq'
    <3>1. CASE j \in DOMAIN cq
      <4>1. cq'[j] = cq[j] /\ Answers(cq[j])
        BY <3>1, <2>1
      <4> QED
        BY <4>1 DEF Answers, SameOps, Own
    <3>2. CASE j \notin DOMAIN cq
      BY <3>2, <2>4
    <3> QED
      BY <3>1, <3>2
  <2>6. \A j \in DOMAIN cq' : (Answers(cq[j]))'
    BY <2>5 DEF Answers, Own
  <2>7. \A j, l \in DOMAIN cq' :
            cq'[j].user \in Slots /\ Own(cq'[j].user) /\ cq'[j].user = cq'[l].user => j = l
    <3> SUFFICES ASSUME NEW j \in DOMAIN cq', NEW l \in DOMAIN cq',
                        cq'[j].user \in Slots, Own(cq'[j].user), cq'[j].user = cq'[l].user
                 PROVE  j = l
      OBVIOUS
    <3>1. j \in DOMAIN cq /\ l \in DOMAIN cq
      BY <2>4
    <3>2. cq[j].user \in Slots /\ Own(cq[j].user) /\ cq[j].user = cq[l].user
      BY <2>1, <3>1
    <3> QED
      BY <3>1, <3>2 DEF Apart, Completed
  <2> QED
    BY <2>6, <2>7 DEF Completed, Own
<1> QED
  BY <1>2, <1>3, <1>4, <1>5, <1>6, <1>7 DEF Apart
(* A step that touches neither the slots nor the ring. *)
LEMMA Quiet ==
    ASSUME Types, Apart, SameWaits, UNCHANGED <<op, slab, free, sq, cq, cancelled>>
    PROVE  Apart'
<1>1. SameOps(op, op') /\ Longer(cq, cq') /\ QueuedIn(sq', op')
  BY SeqFacts DEF SameOps, Longer, Apart, Types
<1> QED
  BY <1>1, Calm DEF Types

LEMMA OtherStep ==
    ASSUME Types, Apart, Count \/ Enqueue \/ TimePasses \/ \E t \in Tasks : SetEvent(t)
    PROVE  Types' /\ Apart'
<1>1. CASE Count
  <2>1. Types' /\ SameWaits
    BY <1>1 DEF Count, Types, loop, ring, history, SameWaits, Armed
  <2> QED
    BY <1>1, <2>1, Quiet DEF Count, ring, history
<1>2. CASE Enqueue
  <2>1. queue' \in Seq(Tasks)
    <3>1. queue' = Append(queue, other.task) /\ queue \in Seq(Tasks) /\ other.task \in Tasks
      BY <1>2 DEF Enqueue, Types
    <3> QED
      BY <3>1, AppendFacts
  <2>2. Types' /\ SameWaits
    BY <1>2, <2>1 DEF Enqueue, Types, loop, ring, history, SameWaits, Armed
  <2> QED
    BY <1>2, <2>2, Quiet DEF Enqueue, ring, history
<1>3. CASE TimePasses
  <2>1. Types' /\ SameWaits
    BY <1>3 DEF TimePasses, Types, loop, ring, history, SameWaits, Armed
  <2> QED
    BY <1>3, <2>1, Quiet DEF TimePasses, ring, history
<1>4. ASSUME NEW t \in Tasks, SetEvent(t) PROVE Types' /\ Apart'
  <2> DEFINE m == Marked(t)
  <2>1. /\ m \in [Tasks -> Futures]
        /\ \A u \in Tasks : m[u].at = task[u].at /\ m[u].op = task[u].op
    BY MarkedFacts
  <2>2. task' = [m EXCEPT ![t].event = TRUE]
    BY <1>4 DEF SetEvent
  <2> HIDE DEF m
  <2>3. task' = [m EXCEPT ![t] = [m[t] EXCEPT !.event = TRUE]]
    BY <2>2
  <2>4. [m[t] EXCEPT !.event = TRUE] \in Futures
    BY <2>1 DEF Futures
  <2>5. task' \in [Tasks -> Futures] /\ SameWaits
    BY <2>1, <2>3, <2>4 DEF SameWaits, Futures
  <2>6. Types'
    BY <1>4, <2>5 DEF SetEvent, Types, loop, ring, Armed
  <2> QED
    BY <1>4, <2>5, <2>6, Quiet DEF SetEvent, ring
<1> QED
  BY <1>1, <1>2, <1>3, <1>4

(* A step that changes none of what Types says of the tasks and the timers. *)
LEMMA PlainStep ==
    ASSUME Types, Apart,
           PushNop \/ SubmitNop \/ FireTimeout \/ Process \/ Wait
    PROVE  Types' /\ Apart'
<1>1. /\ op \in Seq(Operations) /\ cq \in Seq(Completions) /\ sq \in Seq(Entries)
      /\ QueuedIn(sq, op)
  BY DEF Types, Apart
<1>2. SameOps(op, op) /\ Longer(cq, cq)
  BY <1>1, SeqFacts DEF SameOps, Longer
<1>3. UNCHANGED task => SameWaits
  BY DEF SameWaits
<1>4. ASSUME Submit(sq, cq)
      PROVE  /\ op' \in Seq(Operations) /\ cq' \in Seq(Completions) /\ alarm' \in SUBSET Nat
             /\ sq' \in Seq(Entries) /\ SameOps(op, op') /\ Longer(cq, cq')
             /\ QueuedIn(sq', op') /\ Len(cq) \in Nat /\ Len(cq') \in Nat /\ Len(cq') >= Len(cq)
  <2>1. /\ op' \in Seq(Operations) /\ cq' \in Seq(Completions) /\ alarm' \in SUBSET Nat
        /\ sq' = <<>> /\ SameOps(op, op') /\ Longer(cq, cq')
    BY <1>1, <1>4, SubmitFacts
  <2> QED
    BY <1>1, <2>1, SeqFacts DEF QueuedIn, Longer
<1>5. CASE PushNop
  <2>1. sq' = Append(sq, Nop) \/ sq' = sq
    BY <1>5 DEF PushNop
  <2>2. Nop \in Entries /\ Nop.kind = "nop"
    BY DEF Nop, Entries, NoSlot
  <2>3. QueuedIn(sq', op) /\ sq' \in Seq(Entries)
    BY <1>1, <2>1, <2>2, QueuedMore
  <2>4. UNCHANGED <<loop, task, queue, op, slab, free, cq, alarm, now, timer, cancelled>>
    BY <1>5 DEF PushNop
  <2>5. other' \in [at : {"idle", "count", "queue", "nop", "submit"}, task : Tasks]
    BY <1>5 DEF PushNop, Types
  <2>6. Types'
    BY <2>3, <2>4, <2>5 DEF Types, loop, Armed
  <2> QED
    BY <1>1, <1>2, <1>3, <2>3, <2>4, <2>6, Calm
<1>6. CASE SubmitNop
  <2>1. Submit(sq, cq) /\ UNCHANGED <<loop, task, queue, slab, free, now, timer, cancelled>>
    BY <1>6 DEF SubmitNop, history
  <2>2. other' \in [at : {"idle", "count", "queue", "nop", "submit"}, task : Tasks]
    BY <1>6, ReactorAssumption DEF SubmitNop
  <2>3. Types'
    BY <1>4, <2>1, <2>2 DEF Types, loop, Armed
  <2> QED
    BY <1>3, <1>4, <2>1, <2>3, Calm
<1>7. CASE FireTimeout
  <2>1. UNCHANGED <<loop, task, queue, op, slab, free, sq, now, timer, other, cancelled>>
    BY <1>7 DEF FireTimeout, history
  <2>2. cq' \in Seq(Completions) /\ Longer(cq, cq')
    <3>1. Cqe(NoSlot, 0) \in Completions /\ Cqe(NoSlot, 0).user = NoSlot
      BY DEF Cqe, Completions, NoSlot
    <3>2. cq' = Post(cq, Cqe(NoSlot, 0))
      BY <1>7 DEF FireTimeout
    <3> QED
      BY <1>1, <1>2, <3>1, <3>2, PostFacts
  <2>3. alarm' \in SUBSET Nat
    BY <1>7 DEF FireTimeout, Types
  <2>4. Len(cq) \in Nat /\ Len(cq') \in Nat /\ Len(cq') >= Len(cq)
    BY <1>1, <2>2, SeqFacts DEF Longer
  <2>5. Types'
    BY <2>1, <2>2, <2>3, <2>4 DEF Types, loop, Armed
  <2> QED
    BY <1>1, <1>2, <1>3, <2>1, <2>2, <2>5, Calm
<1>8. CASE Process
  <2>1. /\ Submit(sq, cq) /\ UNCHANGED <<cur, task, queue, slab, free, now, timer, other, cancelled>>
        /\ reap' = Len(cq') /\ pc' = IF cq' = <<>> THEN "tick" ELSE "reap"
    BY <1>8 DEF Process, history
  <2>2. pc' = "reap" => reap' \in 1 .. Len(cq')
    <3>1. cq' # <<>> => Len(cq') # 0
      BY <1>4, <2>1, EmptySeq
    <3> QED
      BY <1>4, <2>1, <3>1
  <2>3. Types'
    BY <1>4, <2>1, <2>2 DEF Types, Places, Armed
  <2> QED
    BY <1>3, <1>4, <2>1, <2>3, Calm
<1>9. CASE Wait
  <2>1. /\ Submit(sq, cq) /\ pc' = "asleep"
        /\ UNCHANGED <<cur, reap, task, queue, slab, free, now, timer, other, cancelled>>
    BY <1>9 DEF Wait, history
  <2>2. Types'
    BY <1>4, <2>1 DEF Types, Places, Armed
  <2> QED
    BY <1>3, <1>4, <2>1, <2>2, Calm
<1> QED
  BY <1>5, <1>6, <1>7, <1>8, <1>9

(* The deadline the loop waits for is pushed; or run() fails. *)
LEMMA ArmStep ==
    ASSUME Types, Apart, Arm
    PROVE  Types' /\ (~Over' => Apart')
<1>1. /\ op \in Seq(Operations) /\ cq \in Seq(Completions) /\ sq \in Seq(Entries)
      /\ QueuedIn(sq, op)
  BY DEF Types, Apart
<1>2. UNCHANGED <<cur, reap, task, queue, slab, free, now, timer, other, cancelled>>
  BY DEF Arm, history
<1>3. CASE Len(sq) < SqCap
  <2> DEFINE d == Min({timer[t] : t \in Armed})
  <2>1. Submit(Append(sq, Timeout(d)), cq) /\ pc' = "wait"
    BY <1>3 DEF Arm
  <2>2. d \in Nat
    <3>1. {timer[t] : t \in Armed} \in SUBSET Nat /\ Armed # {}
      BY DEF Types, Armed, Arm
    <3>2. {timer[t] : t \in Armed} # {}
      BY <3>1
    <3> QED
      BY <3>1, <3>2, SmallestExists
  <2> HIDE DEF d
  <2>3. Timeout(d) \in Entries /\ Timeout(d).kind = "timeout"
    BY <2>2 DEF Timeout, Entries, NoSlot
  <2>4. QueuedIn(Append(sq, Timeout(d)), op) /\ Append(sq, Timeout(d)) \in Seq(Entries)
    BY <1>1, <2>3, QueuedMore
  <2>5. /\ op' \in Seq(Operations) /\ cq' \in Seq(Completions) /\ alarm' \in SUBSET Nat
        /\ sq' = <<>> /\ SameOps(op, op') /\ Longer(cq, cq')
    BY <1>1, <2>1, <2>4, SubmitFacts
  <2>6. QueuedIn(sq', op') /\ sq' \in Seq(Entries)
    BY <2>5 DEF QueuedIn
  <2>7. Types'
    BY <1>2, <2>1, <2>5, <2>6 DEF Types, Places, Armed
  <2>8. SameWaits
    BY <1>2 DEF SameWaits
  <2> QED
    BY <1>2, <2>5, <2>6, <2>7, <2>8, Calm
<1>4. CASE ~(Len(sq) < SqCap)
  <2>1. pc' = "panic" /\ UNCHANGED <<op, sq, cq, alarm>>
    BY <1>4 DEF Arm, ring
  <2> QED
    BY <1>2, <2>1 DEF Types, Places, Armed, Over
<1> QED
  BY <1>3, <1>4

(* The timers are turned, twice in a round of the loop. *)
LEMMA ExpireStep ==
    ASSUME Types, Apart, NEW t \in Tasks, Expire(t)
    PROVE  /\ Apart'
           /\ pc' \in Places \ {"reap", "arm"} /\ cur' \in Tasks /\ reap' \in Int => Types'
<1>1. WakeOwn(t, cq) /\ UNCHANGED <<slab, free, now, other, cancelled>>
  BY DEF Expire
<1>2. /\ task' \in [Tasks -> Futures] /\ SameWaits
      /\ queue' \in Seq(Tasks)
      /\ op' \in Seq(Operations) /\ cq' \in Seq(Completions) /\ alarm' \in SUBSET Nat
      /\ sq' \in Seq(Entries)
      /\ SameOps(op, op') /\ Longer(cq, cq') /\ QueuedIn(sq', op')
  BY <1>1, WakeFacts DEF Types, Apart
<1>3. timer' \in [Tasks -> Nat]
  BY DEF Expire, Types
<1>4. Apart'
  BY <1>1, <1>2, Calm
<1> QED
  BY <1>1, <1>2, <1>3, <1>4 DEF Types

LEMMA TurnStep ==
    ASSUME Types, Apart, Turn \/ Look
    PROVE  Types' /\ Apart'
<1>1. CASE \E t \in Tasks : Expire(t) /\ (Turn \/ Look) /\ pc' \in {"turn", "look"}
                                /\ UNCHANGED <<cur, reap>>
  <2>1. PICK t \in Tasks : Expire(t)
    BY <1>1
  <2>2. pc' \in Places \ {"reap", "arm"} /\ cur' \in Tasks /\ reap' \in Int
    BY <1>1 DEF Types, Places
  <2> QED
    BY <2>1, <2>2, ExpireStep
<1>2. CASE /\ UNCHANGED <<cur, reap, task, queue, op, slab, free, ring, now, timer, other, history>>
           /\ pc' \in {"process", "turn", "wait"} \/ (pc' = "arm" /\ Armed # {})
  <2>1. SameWaits
    BY <1>2 DEF SameWaits
  <2>2. Types'
    BY <1>2 DEF Types, Places, Armed, ring, history
  <2> QED
    BY <1>2, <2>1, <2>2, Quiet DEF ring, history
<1> QED
  BY <1>1, <1>2 DEF Turn, Look

(* The loop and the futures that touch no slot. *)
LEMMA FutureStep ==
    ASSUME Types, Apart,
           \/ StartPoll \/ TickOver \/ HasRemaining
           \/ Await \/ Arrived \/ Pending \/ Finish \/ EndPoll
    PROVE  Types' /\ Apart'
<1>1. ASSUME NEW t \in Tasks, NEW r \in Futures, task' = [task EXCEPT ![t] = r],
             r.op = task[t].op, r.at = "io" <=> task[t].at = "io"
      PROVE  task' \in [Tasks -> Futures] /\ SameWaits
  <2>1. /\ task' \in [Tasks -> Futures] /\ task'[t] = r
        /\ \A u \in Tasks : u # t => task'[u] = task[u]
    BY <1>1 DEF Types
  <2> QED
    BY <1>1, <2>1 DEF SameWaits
<1>2. UNCHANGED task => task' \in [Tasks -> Futures] /\ SameWaits
  BY DEF Types, SameWaits
<1>3. ASSUME task' \in [Tasks -> Futures] /\ SameWaits, queue' \in Seq(Tasks),
             pc' \in Places \ {"reap", "arm"}, cur' \in Tasks, timer' \in [Tasks -> Nat],
             UNCHANGED <<reap, op, slab, free, ring, now, other, history>>
      PROVE  Types' /\ Apart'
  <2>1. UNCHANGED <<reap, op, slab, free, sq, cq, alarm, now, other, cancelled>>
    BY <1>3 DEF ring, history
  <2>2. Types'
    BY <1>3, <2>1 DEF Types
  <2> QED
    BY <1>3, <2>1, <2>2, Quiet
<1>4. /\ cur \in Tasks /\ task[cur] \in Futures /\ task \in [Tasks -> Futures]
      /\ queue \in Seq(Tasks) /\ timer \in [Tasks -> Nat] /\ pc \in Places /\ now \in Nat
  BY DEF Types
<1>5. CASE StartPoll
  <2> DEFINE t == Head(queue)
             r == [task[t] EXCEPT !.polling = TRUE, !.woken = FALSE]
  <2>1. t \in Tasks /\ Tail(queue) \in Seq(Tasks)
    BY <1>4, <1>5, TailFacts DEF StartPoll
  <2> HIDE DEF t
  <2>2. task[t] \in Futures
    BY <1>4, <2>1
  <2>3. r \in Futures /\ r.op = task[t].op /\ r.at = task[t].at
    BY <2>2 DEF Futures
  <2>4. task' = [task EXCEPT ![t] = r]
    <3>1. task' = [task EXCEPT ![t].polling = TRUE, ![t].woken = FALSE]
      BY <1>5 DEF StartPoll, t
    <3> QED
      BY <1>4, <2>1, <3>1
  <2> HIDE DEF r
  <2>5. task' \in [Tasks -> Futures] /\ SameWaits
    BY <1>1, <2>1, <2>3, <2>4
  <2> QED
    BY <1>3, <1>4, <1>5, <2>1, <2>5 DEF StartPoll, Places, t
<1>6. CASE TickOver
  BY <1>2, <1>3, <1>4, <1>6 DEF TickOver, Places
<1>7. CASE HasRemaining
  BY <1>2, <1>3, <1>4, <1>7 DEF HasRemaining, Places
<1>8. CASE Await
  <2>1. PICK a \in {"event", "sleep"} : task' = [task EXCEPT ![cur].at = a]
    BY <1>8 DEF Await
  <2> DEFINE r == [task[cur] EXCEPT !.at = a]
  <2>2. r \in Futures /\ r.op = task[cur].op /\ r.at # "io"
    BY <1>4 DEF Futures
  <2>3. task' = [task EXCEPT ![cur] = r] /\ task[cur].at = "ready"
    BY <1>4, <1>8, <2>1 DEF Await, Polls
  <2> HIDE DEF r
  <2>4. task' \in [Tasks -> Futures] /\ SameWaits
    BY <1>1, <1>4, <2>2, <2>3
  <2>5. timer' \in [Tasks -> Nat]
    <3>1. timer' = timer \/ timer' = [timer EXCEPT ![cur] = now + 1]
      BY <1>8 DEF Await
    <3>2. now + 1 \in Nat
      BY <1>4
    <3> QED
      BY <1>4, <3>1, <3>2
  <2> QED
    BY <1>3, <1>4, <1>8, <2>4, <2>5 DEF Await, Places
<1>9. CASE Arrived
  <2>1. PICK r \in Futures : task' = [task EXCEPT ![cur] = r] /\ r.op = task[cur].op /\ r.at = "ready"
    <3>1. CASE task' = [task EXCEPT ![cur].at = "ready", ![cur].event = FALSE]
      <4> DEFINE r == [task[cur] EXCEPT !.at = "ready", !.event = FALSE]
      <4>1. r \in Futures /\ r.op = task[cur].op /\ r.at = "ready"
        BY <1>4 DEF Futures
      <4>2. task' = [task EXCEPT ![cur] = r]
        BY <1>4, <3>1
      <4> HIDE DEF r
      <4> QED
        BY <4>1, <4>2
    <3>2. CASE task' = [task EXCEPT ![cur].at = "ready"]
      <4> DEFINE r == [task[cur] EXCEPT !.at = "ready"]
      <4>1. r \in Futures /\ r.op = task[cur].op /\ r.at = "ready"
        BY <1>4 DEF Futures
      <4>2. task' = [task EXCEPT ![cur] = r]
        BY <1>4, <3>2
      <4> HIDE DEF r
      <4> QED
        BY <4>1, <4>2
    <3> QED
      BY <1>9, <3>1, <3>2 DEF Arrived
  <2>2. task[cur].at # "io" /\ pc = "poll"
    BY <1>9 DEF Arrived, Polls
  <2>3. task' \in [Tasks -> Futures] /\ SameWaits
    BY <1>1, <1>4, <2>1, <2>2
  <2> QED
    BY <1>3, <1>4, <1>9, <2>2, <2>3 DEF Arrived, Places, loop
<1>10. CASE Pending
  BY <1>2, <1>3, <1>4, <1>10 DEF Pending, Places
<1>11. CASE Finish
  <2> DEFINE r == [task[cur] EXCEPT !.at = "done"]
  <2>1. r \in Futures /\ r.op = task[cur].op /\ r.at # "io"
    BY <1>4 DEF Futures
  <2>2. task' = [task EXCEPT ![cur] = r] /\ task[cur].at = "ready"
    BY <1>4, <1>11 DEF Finish, Polls
  <2> HIDE DEF r
  <2>3. task' \in [Tasks -> Futures] /\ SameWaits
    BY <1>1, <1>4, <2>1, <2>2
  <2> QED
    BY <1>3, <1>4, <1>11, <2>3 DEF Finish, Places
<1>12. CASE EndPoll
  <2> DEFINE r == [task[cur] EXCEPT !.polling = FALSE]
  <2>1. r \in Futures /\ r.op = task[cur].op /\ r.at = task[cur].at
    BY <1>4 DEF Futures
  <2>2. task' = [task EXCEPT ![cur] = r]
    BY <1>4, <1>12 DEF EndPoll
  <2> HIDE DEF r
  <2>3. task' \in [Tasks -> Futures] /\ SameWaits
    BY <1>1, <1>4, <2>1, <2>2
  <2>4. queue' \in Seq(Tasks)
    <3>1. queue' = Append(queue, cur) \/ queue' = queue
      BY <1>12 DEF EndPoll
    <3>2. Append(queue, cur) \in Seq(Tasks)
      BY <1>4, AppendFacts
    <3> QED
      BY <1>4, <3>1, <3>2
  <2> QED
    BY <1>3, <1>4, <1>12, <2>3, <2>4, ReactorAssumption DEF EndPoll, Places
<1> QED
  BY <1>5, <1>6, <1>7, <1>8, <1>9, <1>10, <1>11, <1>12

-----------------------------------------------------------------------------
(* The operation that has a slot is the one of any completion for it. *)
LEMMA OwnerFacts ==
    ASSUME Types, Apart, NEW i \in DOMAIN op, op[i].buf # "out"
    PROVE  /\ op[i].slot \in Slots /\ slab[op[i].slot].st # "vacant" /\ slab[op[i].slot].op = i
<1>1. op[i] \in Operations /\ Held(i)
  BY SeqFacts DEF Types, Apart
<1> QED
  BY <1>1 DEF Held, Operations

(* The kernel is done with an operation. *)
LEMMA CompleteStep ==
    ASSUME Types, Apart, NEW i \in DOMAIN op, Complete(i)
    PROVE  Types' /\ Apart'
<1> DEFINE s == op[i].slot
           c == Cqe(s, i)
           r == [op[i] EXCEPT !.kernel = "over"]
<1>1. /\ op \in Seq(Operations) /\ cq \in Seq(Completions) /\ op[i] \in Operations
      /\ i \in Nat /\ DOMAIN op = 1 .. Len(op) /\ Len(op) \in Nat
  BY SeqFacts DEF Types
<1>2. r \in Operations /\ r.slot = s /\ r.buf = op[i].buf /\ r.kernel = "over"
  BY <1>1 DEF Operations
<1>3. s \in Slots /\ s \in Int /\ s # NoSlot
  BY <1>1, ReactorAssumption DEF Operations, Slots, NoSlot
<1>4. c \in Completions /\ c.user = s /\ c.op = i
  BY <1>1, <1>3 DEF Cqe, Completions
<1>5. op' = [op EXCEPT ![i] = r] /\ op[i].kernel \in {"in", "asked"}
  BY DEF Complete
<1>6. cq' = Append(cq, c)
  BY <1>3, <1>4 DEF Complete, Post
<1>7. UNCHANGED <<loop, task, queue, slab, free, sq, alarm, now, timer, other, cancelled>>
  BY DEF Complete, history
<1> HIDE DEF r, c, s
<1>8. /\ op' \in Seq(Operations) /\ Len(op') = Len(op) /\ DOMAIN op' = DOMAIN op
      /\ op'[i] = r /\ \A n \in DOMAIN op : n # i => op'[n] = op[n]
  BY <1>1, <1>2, <1>5, ReplaceFacts
<1>9. /\ cq' \in Seq(Completions)
      /\ Len(cq) \in Nat /\ DOMAIN cq = 1 .. Len(cq)
      /\ Len(cq') = Len(cq) + 1
      /\ DOMAIN cq' = 1 .. Len(cq) + 1
      /\ cq'[Len(cq) + 1] = c
      /\ \A j \in 1 .. Len(cq) : cq'[j] = cq[j]
  BY <1>1, <1>4, <1>6, AppendFacts
<1>10. Types'
  BY <1>7, <1>8, <1>9 DEF Types, loop, Armed
<1>11. \A n \in DOMAIN op : /\ op'[n].slot = op[n].slot /\ op'[n].buf = op[n].buf
                            /\ op[n].kernel = "over" => op'[n].kernel = "over"
                            /\ n # i => op'[n] = op[n]
  BY <1>2, <1>8 DEF s
<1>12. Free'
  BY <1>7, <1>8 DEF Apart, Free
<1>13. ASSUME NEW x \in Slots PROVE Taken(x)' /\ Finished(x)'
  <2>1. Taken(x) /\ Finished(x)
    BY DEF Apart
  <2>2. Taken(x)'
    BY <1>7, <1>8, <1>11, <2>1 DEF Taken
  <2>3. Finished(x)'
    BY <1>7, <1>8, <1>11, <2>1 DEF Finished, Taken, Own
  <2> QED
    BY <2>2, <2>3
<1>14. ASSUME NEW n \in DOMAIN op' PROVE Held(n)' /\ Kept(n)'
  <2>1. n \in DOMAIN op /\ Held(n) /\ Kept(n)
    BY <1>8 DEF Apart
  <2> QED
    BY <1>2, <1>7, <1>8, <1>11, <2>1 DEF Held, Kept, Own
<1>15. ASSUME NEW t \in Tasks PROVE Awaited(t)'
  <2>1. Awaited(t) /\ slab' = slab /\ task' = task
    BY <1>7 DEF Apart
  <2>2. \A n \in DOMAIN op : n \in DOMAIN op' /\ op'[n].slot = op[n].slot
    BY <1>8, <1>11, Zenon
  <2> QED
    BY <2>1, <2>2 DEF Awaited, SlotOf
<1>16. (QueuedIn(sq, op))'
  BY <1>5, <1>7, <1>8, <1>11 DEF Apart, QueuedIn
<1>17. (Completed(cq))'
  <2>1. \A j \in DOMAIN cq : Answers(cq[j])
    BY DEF Apart, Completed
  <2>2. Own(s) => /\ op[i].buf # "out" /\ slab[s].op = i
                  /\ slab[s].st \in {"waiting", "ignored"}
    <3> SUFFICES ASSUME Own(s)
                 PROVE  op[i].buf # "out" /\ slab[s].op = i /\ slab[s].st \in {"waiting", "ignored"}
      OBVIOUS
    <3>1. op[i].buf # "out"
      BY <1>5 DEF Apart, Kept, s
    <3>2. slab[s].st # "vacant" /\ slab[s].op = i
      BY <3>1, OwnerFacts DEF s
    <3>3. slab[s].st # "done"
      BY <1>3, <1>5, <3>2 DEF Apart, Finished
    <3>4. slab[s] \in States
      BY <1>3 DEF Types
    <3> QED
      BY <3>1, <3>2, <3>3, <3>4 DEF States
  <2>3. \A j \in DOMAIN cq : ~(Own(s) /\ cq[j].user = s)
    <3> SUFFICES ASSUME NEW j \in DOMAIN cq, Own(s), cq[j].user = s PROVE FALSE
      OBVIOUS
    <3>1. /\ cq[j].op \in DOMAIN op /\ op[cq[j].op].slot = s
          /\ op[cq[j].op].kernel = "over" /\ op[cq[j].op].buf # "out"
      BY <1>3, <2>1 DEF Answers
    <3>2. slab[s].op = cq[j].op
      BY <3>1, OwnerFacts
    <3> QED
      BY <1>5, <2>2, <3>1, <3>2
  <2>4. \A j \in DOMAIN cq : (Answers(cq[j]))'
    <3> TAKE j \in DOMAIN cq
    <3>1. cq'[j] = cq[j] /\ Answers(cq[j])
      BY <1>9, <2>1
    <3> QED
      BY <1>7, <1>8, <1>11, <3>1 DEF Answers, Own
  <2>5. \A j \in DOMAIN cq' : j \notin DOMAIN cq => cq'[j] = c /\ j = Len(cq) + 1
    BY <1>9
  <2>6. \A j \in DOMAIN cq' : j \notin DOMAIN cq => (Answers(cq[j]))'
    BY <1>2, <1>4, <1>7, <1>8, <2>2, <2>5 DEF Answers, Own
  <2>7. \A j, l \in DOMAIN cq' :
            cq'[j].user \in Slots /\ Own(cq'[j].user) /\ cq'[j].user = cq'[l].user => j = l
    <3> SUFFICES ASSUME NEW j \in DOMAIN cq', NEW l \in DOMAIN cq',
                        cq'[j].user \in Slots, Own(cq'[j].user), cq'[j].user = cq'[l].user
                 PROVE  j = l
      OBVIOUS
    <3>1. \A n \in DOMAIN cq : cq'[n] = cq[n]
      BY <1>9
    <3>2. CASE j \in DOMAIN cq /\ l \in DOMAIN cq
      BY <3>1, <3>2 DEF Apart, Completed
    <3>3. CASE j \in DOMAIN cq <=> l \notin DOMAIN cq
      BY <1>4, <2>3, <2>5, <3>1, <3>3
    <3>4. CASE j \notin DOMAIN cq /\ l \notin DOMAIN cq
      BY <2>5, <3>4
    <3> QED
      BY <3>2, <3>3, <3>4
  <2> QED
    BY <1>7, <2>4, <2>6, <2>7 DEF Completed, Own
<1> QED
  BY <1>10, <1>12, <1>13, <1>14, <1>15, <1>16, <1>17 DEF Apart

(* The first completion is taken away: no other one is for its slot. *)
LEMMA TailCompleted ==
    ASSUME Types, Completed(cq), cq # <<>>
    PROVE  /\ Completed(Tail(cq)) /\ Head(cq) \in Completions /\ Answers(Head(cq))
           /\ Tail(cq) \in Seq(Completions) /\ Len(Tail(cq)) = Len(cq) - 1 /\ Len(cq) \in Nat
           /\ Head(cq).user \in Slots /\ Own(Head(cq).user) =>
                \A j \in DOMAIN Tail(cq) : Tail(cq)[j].user # Head(cq).user
<1> DEFINE p == Tail(cq)
<1>1. /\ Head(cq) = cq[1] /\ Head(cq) \in Completions
      /\ p \in Seq(Completions) /\ Len(p) = Len(cq) - 1
      /\ DOMAIN p = 1 .. Len(cq) - 1
      /\ \A i \in 1 .. Len(cq) - 1 : p[i] = cq[i + 1]
      /\ Len(cq) \in Nat /\ DOMAIN cq = 1 .. Len(cq)
  BY TailFacts, SeqFacts DEF Types
<1>2. Len(cq) # 0
  BY EmptySeq DEF Types
<1>3. 1 \in DOMAIN cq /\ \A j \in DOMAIN p : j + 1 \in DOMAIN cq /\ j + 1 # 1 /\ p[j] = cq[j + 1]
  BY <1>1, <1>2
<1> HIDE DEF p
<1>4. \A j \in DOMAIN p : Answers(p[j])
  BY <1>3 DEF Completed
<1>5. \A j, l \in DOMAIN p : p[j].user \in Slots /\ Own(p[j].user) /\ p[j].user = p[l].user => j = l
  <2> SUFFICES ASSUME NEW j \in DOMAIN p, NEW l \in DOMAIN p,
                      p[j].user \in Slots, Own(p[j].user), p[j].user = p[l].user
               PROVE  j = l
    OBVIOUS
  <2>1. j + 1 = l + 1
    BY <1>3 DEF Completed
  <2> QED
    BY <1>1, <2>1
<1>6. Completed(p) /\ Answers(Head(cq))
  BY <1>1, <1>3, <1>4, <1>5 DEF Completed
<1>7. Head(cq).user \in Slots /\ Own(Head(cq).user) => \A j \in DOMAIN p : p[j].user # Head(cq).user
  BY <1>1, <1>3 DEF Completed
<1> QED
  BY <1>1, <1>6, <1>7 DEF p

LEMMA PrependFacts ==
    ASSUME NEW S, NEW q \in Seq(S), NEW e \in S
    PROVE  /\ <<e>> \o q \in Seq(S) /\ Len(q) \in Nat /\ DOMAIN q = 1 .. Len(q)
           /\ Len(<<e>> \o q) = Len(q) + 1 /\ DOMAIN (<<e>> \o q) = 1 .. Len(q) + 1
           /\ (<<e>> \o q)[1] = e
           /\ \A k \in 2 .. Len(q) + 1 : (<<e>> \o q)[k] = q[k - 1]
<1>1. <<e>> \in Seq(S) /\ Len(<<e>>) = 1 /\ <<e>>[1] = e
  OBVIOUS
<1>2. <<e>> \o q \in Seq(S) /\ Len(<<e>> \o q) = Len(<<e>>) + Len(q)
      /\ \A k \in 1 .. Len(<<e>>) + Len(q) :
            (<<e>> \o q)[k] = IF k <= Len(<<e>>) THEN <<e>>[k] ELSE q[k - Len(<<e>>)]
  BY <1>1, ConcatProperties
<1> QED
  BY <1>1, <1>2, SeqFacts

Returned(i) == op' = [op EXCEPT ![i].buf = "out"]

(* A slot is given up, with the buffer of its operation i: it was the last use
   of the slot, for its completion is gone and the kernel is done with i. *)
LEMMA Vacated ==
    ASSUME Types, Apart, NEW s \in Slots, NEW i \in DOMAIN op, slab[s].st # "vacant", slab[s].op = i,
           Own(s) => op[i].kernel = "over",
           Release(s), Returned(i), UNCHANGED <<sq, cancelled>>,
           Completed(cq'), Own(s) => \A j \in DOMAIN cq' : cq'[j].user # s,
           \A t \in Tasks : task'[t].at = "io" =>
                /\ task[t].at = "io" /\ task'[t].op = task[t].op
                /\ slab[s].st \in {"waiting", "done"} => t # slab[s].task,
           \A t \in Tasks : task[t].at = "io" /\ task[t].op # i =>
                task'[t].at = "io" /\ task'[t].op = task[t].op
    PROVE  /\ Apart'
           /\ op' \in Seq(Operations) /\ slab' \in [Slots -> States] /\ free' \in Seq(Slots)
<1>1. /\ op \in Seq(Operations) /\ slab \in [Slots -> States] /\ free \in Seq(Slots)
      /\ slab[s] \in States
  BY DEF Types
<1>2. Taken(s) /\ i \in DOMAIN op /\ op[i].slot = s /\ op[i].buf # "out"
  BY DEF Apart, Taken
<1>6. /\ op' \in Seq(Operations) /\ Len(op') = Len(op) /\ DOMAIN op' = DOMAIN op
      /\ op'[i].buf = "out" /\ \A n \in DOMAIN op : n # i => op'[n] = op[n]
      /\ \A n \in DOMAIN op : op'[n].slot = op[n].slot /\ op'[n].kernel = op[n].kernel
  <2> DEFINE r == [op[i] EXCEPT !.buf = "out"]
  <2>1. op[i] \in Operations
    BY <1>1, SeqFacts
  <2>2. r \in Operations /\ r.slot = op[i].slot /\ r.kernel = op[i].kernel /\ r.buf = "out"
    BY <2>1 DEF Operations
  <2>3. op' = [op EXCEPT ![i] = r]
    BY DEF Returned
  <2> HIDE DEF r
  <2>4. /\ op' \in Seq(Operations) /\ Len(op') = Len(op) /\ DOMAIN op' = DOMAIN op
        /\ op'[i] = r /\ \A n \in DOMAIN op : n # i => op'[n] = op[n]
    BY <1>1, <2>2, <2>3, ReplaceFacts
  <2> QED
    BY <2>2, <2>4
<1>7. /\ slab' \in [Slots -> States] /\ slab'[s] = Vacant /\ Vacant.st = "vacant"
      /\ \A x \in Slots : x # s => slab'[x] = slab[x]
  <2>1. Vacant \in States
    BY ReactorAssumption DEF Vacant, States
  <2>2. slab' = [slab EXCEPT ![s] = Vacant]
    BY DEF Release
  <2> QED
    BY <1>1, <2>1, <2>2 DEF Vacant
<1>9. /\ free' \in Seq(Slots) /\ Len(free) \in Nat /\ DOMAIN free = 1 .. Len(free)
      /\ Len(free') = Len(free) + 1 /\ DOMAIN free' = 1 .. Len(free) + 1
      /\ free'[1] = s
      /\ \A k \in 2 .. Len(free) + 1 : free'[k] = free[k - 1]
  <2>1. free' = <<s>> \o free
    BY DEF Release
  <2> QED
    BY <1>1, <2>1, PrependFacts
<1>10. Free'
  <2>1. \A k \in DOMAIN free : free[k] \in Slots /\ slab[free[k]].st = "vacant" /\ free[k] # s
    BY <1>1, SeqFacts DEF Apart, Free
  <2>2. \A k \in DOMAIN free' : k = 1 \/ (k - 1 \in DOMAIN free /\ free'[k] = free[k - 1])
    BY <1>9
  <2>3. \A k \in DOMAIN free' : slab'[free'[k]].st = "vacant"
    BY <1>7, <1>9, <2>1, <2>2
  <2>4. \A j, k \in DOMAIN free' : free'[j] = free'[k] => j = k
    <3> SUFFICES ASSUME NEW j \in DOMAIN free', NEW k \in DOMAIN free', free'[j] = free'[k]
                 PROVE  j = k
      OBVIOUS
    <3>1. CASE j = 1 \/ k = 1
      BY <1>9, <2>1, <2>2, <3>1
    <3>2. CASE j # 1 /\ k # 1
      <4>1. j - 1 = k - 1
        BY <2>2, <3>2 DEF Apart, Free
      <4> QED
        BY <1>9, <4>1
    <3> QED
      BY <3>1, <3>2
  <2>5. Len(free') >= MaxOps - Len(op')
    <3>1. Len(op) \in Nat /\ MaxOps \in Nat
      BY <1>1, SeqFacts, ReactorAssumption
    <3> QED
      BY <1>6, <1>9, <3>1 DEF Apart, Free
  <2> QED
    BY <2>3, <2>4, <2>5 DEF Free
<1>11. ASSUME NEW x \in Slots PROVE Taken(x)' /\ Finished(x)'
  <2>1. CASE x = s
    BY <1>7, <2>1 DEF Taken, Finished
  <2>2. CASE x # s
    <3>1. Taken(x) /\ Finished(x) /\ slab'[x] = slab[x]
      BY <1>7, <2>2 DEF Apart
    <3>2. slab[x].st # "vacant" => slab[x].op \in DOMAIN op /\ slab[x].op # i
      BY <1>2, <2>2, <3>1 DEF Taken
    <3>3. slab[x].st # "vacant" => op'[slab[x].op] = op[slab[x].op] /\ slab[x].op \in DOMAIN op'
      BY <1>6, <3>2
    <3>4. slab[x] \in States /\ slab[x].task \in Tasks
      BY <1>1 DEF States
    <3>5. Taken(x)'
      BY <3>1, <3>2, <3>3, <3>4 DEF Taken
    <3>6. Finished(x)'
      BY <3>1, <3>3 DEF Finished, Own
    <3> QED
      BY <3>5, <3>6
  <2> QED
    BY <2>1, <2>2
<1>12. ASSUME NEW n \in DOMAIN op' PROVE Held(n)' /\ Kept(n)'
  <2>1. n \in DOMAIN op /\ Held(n) /\ Kept(n)
    BY <1>6 DEF Apart
  <2>2. CASE n = i
    BY <1>2, <1>6, <2>2 DEF Held, Kept, Own
  <2>3. CASE n # i
    <3>1. op[n] \in Operations
      BY <1>1, <2>1, SeqFacts
    <3>4. op[n].slot \in Slots
      BY <3>1 DEF Operations
    <3>2. op'[n] = op[n]
      BY <1>6, <2>1, <2>3
    <3>3. op[n].buf # "out" => op[n].slot # s
      BY <2>1, <2>3 DEF Held
    <3> QED
      BY <1>7, <2>1, <3>2, <3>3, <3>4 DEF Held, Kept, Own
  <2> QED
    BY <2>2, <2>3
<1>13. ASSUME NEW t \in Tasks PROVE Awaited(t)'
  <2> SUFFICES ASSUME task'[t].at = "io"
               PROVE  /\ task'[t].op \in DOMAIN op'
                      /\ slab'[op'[task'[t].op].slot].st \in {"waiting", "done"}
                      /\ slab'[op'[task'[t].op].slot].op = task'[t].op
                      /\ slab'[op'[task'[t].op].slot].task = t
    BY DEF Awaited, SlotOf
  <2> DEFINE n == task[t].op
  <2>1. task'[t].op = n
    OBVIOUS
  <2>2. /\ n \in DOMAIN op /\ slab[op[n].slot].st \in {"waiting", "done"}
        /\ slab[op[n].slot].op = n /\ slab[op[n].slot].task = t
    BY DEF Apart, Awaited, SlotOf
  <2>3. slab[s].st \in {"waiting", "done"} => t # slab[s].task
    OBVIOUS
  <2> HIDE DEF n
  <2>4. op[n].slot # s /\ op[n].slot \in Slots
    <3>1. op[n] \in Operations
      BY <1>1, <2>2, SeqFacts
    <3> QED
      BY <2>2, <2>3, <3>1 DEF Operations
  <2> QED
    BY <1>6, <1>7, <2>1, <2>2, <2>4
<1>14. (QueuedIn(sq, op))'
  BY <1>6 DEF Apart, QueuedIn
<1>15. (Completed(cq))'
  <2>1. ASSUME NEW j \in DOMAIN cq' PROVE (Answers(cq[j]))'
    <3> SUFFICES ASSUME cq'[j].user \in Slots, Own(cq'[j].user)
                 PROVE  (/\ cq[j].op \in DOMAIN op
                         /\ op[cq[j].op].slot = cq[j].user /\ op[cq[j].op].kernel = "over"
                         /\ op[cq[j].op].buf # "out"
                         /\ slab[cq[j].user].st \in {"waiting", "ignored"})'
      BY DEF Answers, Own
    <3>1. Answers(cq'[j])
      BY DEF Completed
    <3>2. cq'[j].user # s
      OBVIOUS
    <3>3. /\ cq'[j].op \in DOMAIN op /\ cq'[j].op # i
          /\ op[cq'[j].op].slot = cq'[j].user /\ op[cq'[j].op].kernel = "over"
          /\ op[cq'[j].op].buf # "out" /\ slab[cq'[j].user].st \in {"waiting", "ignored"}
      BY <1>2, <3>1, <3>2 DEF Answers
    <3> QED
      BY <1>6, <1>7, <3>2, <3>3
  <2> QED
    BY <2>1 DEF Completed, Own
<1> QED
  BY <1>6, <1>7, <1>9, <1>10, <1>11, <1>12, <1>13, <1>14, <1>15 DEF Apart

(* A completion is taken, and its slot, if the operation has one that was not
   dropped, gets the result. *)
LEMMA Answered ==
    ASSUME Types, Apart, cq # <<>>, op' \in Seq(Operations), cq' \in Seq(Completions),
           SameOps(op, op'), SameWaits, Longer(Tail(cq), cq'), QueuedIn(sq', op'),
           UNCHANGED <<free, cancelled>>,
           \/ UNCHANGED slab
           \/ \E r \in States :
                /\ Head(cq).user \in Slots /\ slab[Head(cq).user].st \in {"waiting", "done"}
                /\ slab' = [slab EXCEPT ![Head(cq).user] = r]
                /\ r.st = "done" /\ r.res = Head(cq).op
                /\ r.op = slab[Head(cq).user].op /\ r.task = slab[Head(cq).user].task
    PROVE  Apart' /\ slab' \in [Slots -> States]
<1> DEFINE c == Head(cq)
           p == Tail(cq)
<1>1. /\ Completed(p) /\ c \in Completions /\ Answers(c) /\ p \in Seq(Completions)
      /\ c.user \in Slots /\ Own(c.user) => \A j \in DOMAIN p : p[j].user # c.user
  BY TailCompleted DEF Apart
<1>2. /\ slab' \in [Slots -> States]
      /\ \A x \in Slots : /\ slab'[x].op = slab[x].op /\ slab'[x].task = slab[x].task
                          /\ slab'[x].st = "vacant" <=> slab[x].st = "vacant"
                          /\ slab'[x].st \in {"waiting", "done"} <=> slab[x].st \in {"waiting", "done"}
                          /\ \/ slab'[x] = slab[x]
                             \/ x = c.user /\ slab'[x].st = "done" /\ slab'[x].res = c.op
  BY DEF Types
<1> HIDE DEF c, p
<1>3. Longer(p, cq')
  BY DEF p
<1>4. Len(op') = Len(op)
  <2>1. DOMAIN op = 1 .. Len(op) /\ DOMAIN op' = 1 .. Len(op') /\ Len(op) \in Nat /\ Len(op') \in Nat
    BY SeqFacts DEF Types
  <2>2. 1 .. Len(op) = 1 .. Len(op')
    BY <2>1 DEF SameOps
  <2> QED
    BY <2>1, <2>2, SameLength
<1>5. Free'
  <2>1. \A k \in DOMAIN free : free[k] \in Slots
    BY SeqFacts DEF Types
  <2> QED
    BY <1>2, <1>4, <2>1 DEF Apart, Free
<1>6. ASSUME NEW x \in Slots PROVE Taken(x)' /\ Finished(x)'
  <2>1. Taken(x) /\ Finished(x)
    BY DEF Apart
  <2>2. slab[x] \in States /\ slab[x].task \in Tasks
    BY DEF Types, States
  <2>3. Taken(x)'
    BY <1>2, <2>1, <2>2 DEF Taken, SameOps, SameWaits
  <2>4. Finished(x)'
    <3>1. CASE slab'[x] = slab[x]
      BY <2>1, <3>1 DEF Finished, Taken, SameOps, Own
    <3>2. CASE slab'[x] # slab[x]
      <4> SUFFICES ASSUME Own(x) PROVE slab'[x].res = slab'[x].op /\ op'[slab'[x].op].kernel = "over"
        BY DEF Finished, Own
      <4>1. x = c.user /\ slab'[x].res = c.op
        BY <1>2, <3>2
      <4>2. c.op \in DOMAIN op /\ op[c.op].slot = x /\ op[c.op].kernel = "over" /\ op[c.op].buf # "out"
        BY <1>1, <4>1 DEF Answers
      <4>3. slab[x].op = c.op
        BY <4>2, OwnerFacts
      <4> QED
        BY <1>2, <4>1, <4>2, <4>3 DEF SameOps
    <3> QED
      BY <3>1, <3>2
  <2> QED
    BY <2>3, <2>4
<1>7. ASSUME NEW i \in DOMAIN op' PROVE Held(i)' /\ Kept(i)'
  <2>1. i \in DOMAIN op
    BY DEF SameOps
  <2>2. Held(i) /\ Kept(i)
    BY <2>1 DEF Apart
  <2>3. op[i] \in Operations
    BY <2>1, SeqFacts DEF Types
  <2>4. op[i].slot \in Slots
    BY <2>3 DEF Operations
  <2> QED
    BY <1>2, <2>1, <2>2, <2>4 DEF Held, Kept, SameOps, Own
<1>8. ASSUME NEW t \in Tasks PROVE Awaited(t)'
  <2>1. \A i \in DOMAIN op : op[i] \in Operations
    BY SeqFacts DEF Types
  <2>2. \A i \in DOMAIN op : op[i].slot \in Slots
    BY <2>1 DEF Operations
  <2>3. Awaited(t)
    BY DEF Apart
  <2> SUFFICES ASSUME task'[t].at = "io"
               PROVE  /\ task'[t].op \in DOMAIN op'
                      /\ slab'[op'[task'[t].op].slot].st \in {"waiting", "done"}
                      /\ slab'[op'[task'[t].op].slot].op = task'[t].op
                      /\ slab'[op'[task'[t].op].slot].task = t
    BY DEF Awaited, SlotOf
  <2>4. task[t].at = "io" /\ task'[t].op = task[t].op
    BY DEF SameWaits
  <2>5. /\ task[t].op \in DOMAIN op
        /\ slab[op[task[t].op].slot].st \in {"waiting", "done"}
        /\ slab[op[task[t].op].slot].op = task[t].op /\ slab[op[task[t].op].slot].task = t
    BY <2>3, <2>4, Zenon DEF Awaited, SlotOf
  <2>6. task[t].op \in DOMAIN op' /\ op'[task[t].op].slot = op[task[t].op].slot
    BY <2>5, Zenon DEF SameOps
  <2>7. PICK s \in Slots : s = op[task[t].op].slot
    BY <2>2, <2>5, Zenon
  <2>8. slab'[s].st \in {"waiting", "done"} /\ slab'[s].op = task[t].op /\ slab'[s].task = t
    <3>1. slab[s].st \in {"waiting", "done"} /\ slab[s].op = task[t].op /\ slab[s].task = t
      BY <2>5, <2>7, Zenon
    <3>2. /\ slab'[s].st \in {"waiting", "done"} <=> slab[s].st \in {"waiting", "done"}
          /\ slab'[s].op = slab[s].op /\ slab'[s].task = slab[s].task
      BY <1>2, Zenon
    <3> QED
      BY <3>1, <3>2, Zenon
  <2> QED
    BY <2>4, <2>6, <2>7, <2>8, Zenon
<1>9. (QueuedIn(sq, op))'
  BY DEF QueuedIn
<1>10. (Completed(cq))'
  <2>1. \A j \in DOMAIN p : cq'[j] = p[j] /\ Answers(p[j])
    BY <1>1, <1>3 DEF Completed, Longer
  <2>2. \A j \in DOMAIN cq' : j \in DOMAIN p \/ cq'[j].user = NoSlot \/ (cancelled /\ cq'[j].user = 0)
    <3>1. DOMAIN p = 1 .. Len(p) /\ DOMAIN cq' = 1 .. Len(cq') /\ Len(p) \in Nat /\ Len(cq') \in Nat
      BY <1>1, SeqFacts DEF Types
    <3> QED
      BY <1>3, <3>1 DEF Longer
  <2>3. NoSlot \notin Slots
    BY ReactorAssumption DEF NoSlot, Slots
  <2>4. \A j \in DOMAIN cq' : cq'[j].user \in Slots /\ Own(cq'[j].user) => j \in DOMAIN p
    BY <2>2, <2>3 DEF Own
  <2>5. ASSUME NEW j \in DOMAIN cq', cq'[j].user \in Slots, Own(cq'[j].user)
        PROVE  (Answers(cq[j]))'
    <3>1. j \in DOMAIN p /\ cq'[j] = p[j] /\ Answers(p[j])
      BY <2>1, <2>4, <2>5
    <3>2. p[j].user # c.user
      BY <1>1, <2>5, <3>1
    <3>3. slab'[p[j].user] = slab[p[j].user]
      BY <1>2, <2>5, <3>1, <3>2
    <3> QED
      BY <3>1, <3>3 DEF Answers, SameOps, Own
  <2>6. \A j \in DOMAIN cq' : (Answers(cq[j]))'
    BY <2>5 DEF Answers, Own
  <2>7. \A j, l \in DOMAIN cq' :
            cq'[j].user \in Slots /\ Own(cq'[j].user) /\ cq'[j].user = cq'[l].user => j = l
    <3> SUFFICES ASSUME NEW j \in DOMAIN cq', NEW l \in DOMAIN cq',
                        cq'[j].user \in Slots, Own(cq'[j].user), cq'[j].user = cq'[l].user
                 PROVE  j = l
      OBVIOUS
    <3>1. j \in DOMAIN p /\ l \in DOMAIN p
      BY <2>4
    <3>2. p[j].user \in Slots /\ Own(p[j].user) /\ p[j].user = p[l].user
      BY <2>1, <3>1
    <3> QED
      BY <1>1, <3>1, <3>2 DEF Completed
  <2> QED
    BY <2>6, <2>7 DEF Completed, Own
<1> QED
  BY <1>2, <1>5, <1>6, <1>7, <1>8, <1>9, <1>10 DEF Apart

LEMMA ReapStep ==
    ASSUME Types, Apart, Reap
    PROVE  Types' /\ Apart'
<1> DEFINE c == Head(cq)
           s == Head(cq).user
           p == Tail(cq)
<1>1. /\ op \in Seq(Operations) /\ cq \in Seq(Completions) /\ sq \in Seq(Entries)
      /\ slab \in [Slots -> States] /\ task \in [Tasks -> Futures] /\ queue \in Seq(Tasks)
      /\ free \in Seq(Slots) /\ alarm \in SUBSET Nat /\ QueuedIn(sq, op) /\ SameOps(op, op)
  BY DEF Types, Apart, SameOps
<1>2. cq # <<>> /\ reap \in 1 .. Len(cq) /\ Len(cq) \in Nat
  <2>1. reap \in 1 .. Len(cq) /\ Len(cq) \in Nat
    BY <1>1, SeqFacts DEF Types, Reap
  <2>2. Len(cq) # 0
    BY <2>1
  <2> QED
    BY <1>1, <2>1, <2>2, EmptySeq
<1>3. /\ Completed(p) /\ c \in Completions /\ Answers(c) /\ p \in Seq(Completions)
      /\ Len(p) = Len(cq) - 1
      /\ s \in Slots /\ Own(s) => \A j \in DOMAIN p : p[j].user # s
  BY <1>2, TailCompleted DEF Apart
<1>4. Longer(p, p)
  BY <1>3, SeqFacts DEF Longer
<1>5. /\ reap' = reap - 1 /\ pc' = IF reap = 1 THEN "tick" ELSE "reap"
      /\ UNCHANGED <<cur, now, timer, other, cancelled>>
  BY DEF Reap
<1>6. ASSUME task' \in [Tasks -> Futures], queue' \in Seq(Tasks), op' \in Seq(Operations),
             slab' \in [Slots -> States], free' \in Seq(Slots), sq' \in Seq(Entries),
             cq' \in Seq(Completions), alarm' \in SUBSET Nat, Longer(p, cq')
      PROVE  Types'
  <2>1. Len(cq') \in Nat /\ Len(cq') >= Len(cq) - 1
    BY <1>2, <1>3, <1>6, SeqFacts DEF Longer
  <2>2. pc' = "reap" => reap' \in 1 .. Len(cq')
    BY <1>2, <1>5, <2>1
  <2>3. pc' \in Places /\ pc' # "arm" /\ reap' \in Int
    BY <1>2, <1>5 DEF Places
  <2> QED
    BY <1>5, <1>6, <2>2, <2>3 DEF Types
<1>7. CASE ReapSkipped
  <2>1. cq' = p /\ UNCHANGED <<task, queue, op, slab, free, sq, alarm>>
    BY <1>7 DEF ReapSkipped
  <2>2. SameWaits
    BY <2>1 DEF SameWaits
  <2> HIDE DEF c, s
  <2>3. op' \in Seq(Operations) /\ cq' \in Seq(Completions) /\ SameOps(op, op')
        /\ Longer(Tail(cq), cq') /\ QueuedIn(sq', op')
    BY <1>1, <1>3, <1>4, <2>1
  <2>4. Apart'
    BY <1>2, <1>5, <2>1, <2>2, <2>3, Answered
  <2> HIDE DEF p
  <2> QED
    BY <1>1, <1>3, <1>4, <1>6, <2>1, <2>4
<1>8. ASSUME s \in Slots PROVE slab[s] \in States /\ slab[s].task \in Tasks
  BY <1>1, <1>8 DEF States
<1>9. CASE ReapWaiting
  <2> DEFINE r == [slab[s] EXCEPT !.st = "done", !.res = c.op]
  <2>1. s \in Slots /\ slab[s].st = "waiting"
    BY <1>9 DEF ReapWaiting, StateOf
  <2>2. slab' = [slab EXCEPT ![s] = r] /\ WakeOwn(slab[s].task, p) /\ UNCHANGED free
    BY <1>9 DEF ReapWaiting
  <2>3. /\ r \in States /\ r.st = "done" /\ r.res = c.op
        /\ r.op = slab[s].op /\ r.task = slab[s].task
    <3>1. c.op \in Nat
      BY <1>3 DEF Completions
    <3> HIDE DEF s, c
    <3> QED
      BY <1>8, <2>1, <3>1 DEF States
  <2>4. /\ task' \in [Tasks -> Futures] /\ SameWaits
        /\ queue' \in Seq(Tasks)
        /\ op' \in Seq(Operations) /\ cq' \in Seq(Completions) /\ alarm' \in SUBSET Nat
        /\ sq' \in Seq(Entries)
        /\ SameOps(op, op') /\ Longer(p, cq') /\ QueuedIn(sq', op')
    BY <1>1, <1>3, <1>8, <2>1, <2>2, WakeFacts
  <2> HIDE DEF r
  <2>5. \E x \in States :
            /\ Head(cq).user \in Slots /\ slab[Head(cq).user].st \in {"waiting", "done"}
            /\ slab' = [slab EXCEPT ![Head(cq).user] = x]
            /\ x.st = "done" /\ x.res = Head(cq).op
            /\ x.op = slab[Head(cq).user].op /\ x.task = slab[Head(cq).user].task
    BY <2>1, <2>2, <2>3
  <2>6. Apart' /\ slab' \in [Slots -> States]
    BY <1>2, <1>5, <2>2, <2>4, <2>5, Answered
  <2> HIDE DEF p, s, c
  <2> QED
    BY <1>1, <1>6, <2>2, <2>4, <2>6
<1>10. CASE ReapAgain
  <2> DEFINE r == [slab[s] EXCEPT !.res = c.op]
  <2>1. s \in Slots /\ slab[s].st = "done"
    BY <1>10 DEF ReapAgain, StateOf
  <2>2. /\ slab' = [slab EXCEPT ![s] = r] /\ cq' = p
        /\ UNCHANGED <<task, queue, op, sq, alarm, free>>
    BY <1>10 DEF ReapAgain
  <2>3. /\ r \in States /\ r.st = "done" /\ r.res = c.op
        /\ r.op = slab[s].op /\ r.task = slab[s].task
    <3>1. c.op \in Nat
      BY <1>3 DEF Completions
    <3> HIDE DEF s, c
    <3> QED
      BY <1>8, <2>1, <3>1 DEF States
  <2>4. SameWaits
    BY <2>2 DEF SameWaits
  <2> HIDE DEF r
  <2>5. \E x \in States :
            /\ Head(cq).user \in Slots /\ slab[Head(cq).user].st \in {"waiting", "done"}
            /\ slab' = [slab EXCEPT ![Head(cq).user] = x]
            /\ x.st = "done" /\ x.res = Head(cq).op
            /\ x.op = slab[Head(cq).user].op /\ x.task = slab[Head(cq).user].task
    BY <2>1, <2>2, <2>3
  <2>6. /\ op' \in Seq(Operations) /\ cq' \in Seq(Completions) /\ SameOps(op, op')
        /\ Longer(Tail(cq), cq') /\ QueuedIn(sq', op')
    <3> HIDE DEF s, c
    <3> QED
      BY <1>1, <1>3, <1>4, <2>2
  <2>7. Apart' /\ slab' \in [Slots -> States]
    BY <1>2, <1>5, <2>2, <2>4, <2>5, <2>6, Answered
  <2> HIDE DEF p, s, c
  <2> QED
    BY <1>1, <1>3, <1>4, <1>6, <2>2, <2>7
<1>11. CASE ReapIgnored
  <2> DEFINE i == slab[s].op
  <2>1. s \in Slots /\ slab[s].st = "ignored"
    BY <1>11 DEF ReapIgnored, StateOf
  <2>2. Release(s) /\ cq' = p /\ UNCHANGED <<task, queue, sq, alarm>> /\ Returned(i)
    BY <1>11 DEF ReapIgnored, Returned
  <2>3. i \in DOMAIN op
    BY <2>1 DEF Apart, Taken
  <2>4. Own(s) => op[i].kernel = "over"
    <3> SUFFICES ASSUME Own(s) PROVE op[i].kernel = "over"
      OBVIOUS
    <3>1. c.op \in DOMAIN op /\ op[c.op].slot = s /\ op[c.op].kernel = "over" /\ op[c.op].buf # "out"
      BY <1>3, <2>1 DEF Answers
    <3>2. i = c.op
      BY <3>1, OwnerFacts
    <3> QED
      BY <3>1, <3>2
  <2> HIDE DEF c, s, p, i
  <2>5. slab[s].op = i
    BY DEF i
  <2>6. Completed(cq') /\ (Own(s) => \A j \in DOMAIN cq' : cq'[j].user # s)
    BY <1>3, <2>1, <2>2
  <2>7. /\ Apart'
        /\ op' \in Seq(Operations) /\ slab' \in [Slots -> States] /\ free' \in Seq(Slots)
    BY <1>5, <2>1, <2>2, <2>3, <2>4, <2>5, <2>6, Vacated
  <2> QED
    BY <1>1, <1>3, <1>4, <1>6, <2>2, <2>7
<1> QED
  BY <1>7, <1>9, <1>10, <1>11 DEF Reap

-----------------------------------------------------------------------------
(* The operation the task being polled waits for. *)
LEMMA PolledFacts ==
    ASSUME Types, Apart, Polls("io")
    PROVE  /\ pc = "poll" /\ cur \in Tasks /\ task[cur] \in Futures /\ task[cur].at = "io"
           /\ task[cur].op \in DOMAIN op /\ SlotOf(cur) \in Slots
           /\ op[task[cur].op].slot = SlotOf(cur)
           /\ slab[SlotOf(cur)].st \in {"waiting", "done"}
           /\ slab[SlotOf(cur)].op = task[cur].op /\ slab[SlotOf(cur)].task = cur
<1>1. cur \in Tasks /\ task[cur] \in Futures /\ op \in Seq(Operations) /\ Awaited(cur)
  BY DEF Types, Apart
<1>2. task[cur].op \in DOMAIN op
  BY <1>1 DEF Awaited, Polls
<1>3. op[task[cur].op] \in Operations
  BY <1>1, <1>2, SeqFacts
<1> QED
  BY <1>1, <1>2, <1>3 DEF Awaited, Polls, SlotOf, Operations

LEMMA TakeResultStep ==
    ASSUME Types, Apart, TakeResult
    PROVE  Types' /\ Apart'
<1> DEFINE i == task[cur].op
           s == SlotOf(cur)
           r == [task[cur] EXCEPT !.at = "ready", !.op = 0]
<1>1. /\ pc = "poll" /\ cur \in Tasks /\ task[cur] \in Futures /\ task[cur].at = "io"
      /\ i \in DOMAIN op /\ s \in Slots /\ op[i].slot = s
      /\ slab[s].op = i /\ slab[s].task = cur
  BY PolledFacts DEF TakeResult
<1>2. /\ slab[s].st = "done" /\ Release(s) /\ Returned(i)
      /\ task' = [task EXCEPT ![cur].at = "ready", ![cur].op = 0]
      /\ UNCHANGED <<loop, queue, sq, cq, alarm, now, timer, other, cancelled>>
  BY DEF TakeResult, Returned, ring, history
<1> HIDE DEF i, s
<1>3. task' = [task EXCEPT ![cur] = r]
  BY <1>2 DEF Types
<1>4. r \in Futures /\ r.at = "ready"
  BY <1>1 DEF Futures
<1> HIDE DEF r
<1>5. /\ task' \in [Tasks -> Futures] /\ task'[cur].at = "ready"
      /\ \A t \in Tasks : t # cur => task'[t] = task[t]
  BY <1>1, <1>3, <1>4 DEF Types
<1>6. Own(s) => op[i].kernel = "over"
  BY <1>1, <1>2 DEF Apart, Finished
<1>7. Completed(cq') /\ (Own(s) => \A j \in DOMAIN cq' : cq'[j].user # s)
  <2>1. Completed(cq)
    BY DEF Apart
  <2>2. Own(s) => \A j \in DOMAIN cq : cq[j].user # s
    BY <1>1, <1>2, <2>1 DEF Completed, Answers
  <2> QED
    BY <1>2, <2>1, <2>2
<1>8. \A t \in Tasks : task'[t].at = "io" =>
            /\ task[t].at = "io" /\ task'[t].op = task[t].op
            /\ slab[s].st \in {"waiting", "done"} => t # slab[s].task
  BY <1>1, <1>5
<1>9. \A t \in Tasks : task[t].at = "io" /\ task[t].op # i =>
            task'[t].at = "io" /\ task'[t].op = task[t].op
  BY <1>5 DEF i
<1>10. /\ Apart'
       /\ op' \in Seq(Operations) /\ slab' \in [Slots -> States] /\ free' \in Seq(Slots)
  BY <1>1, <1>2, <1>6, <1>7, <1>8, <1>9, Vacated
<1>11. Types'
  BY <1>1, <1>2, <1>5, <1>10 DEF Types, loop
<1> QED
  BY <1>10, <1>11

Dropped(i, memory) == op' = [op EXCEPT ![i].buf = memory]

(* The operation is dropped: its slot is ignored from now on, or, with a buffer
   that is too large, stays as it is. *)
LEMMA DropOpStep ==
    ASSUME Types, Apart, DropOp \/ DropLarge
    PROVE  Types' /\ Apart'
<1> DEFINE i == task[cur].op
           s == SlotOf(cur)
           r == [task[cur] EXCEPT !.at = "ready", !.op = 0, !.event = FALSE]
           y == [slab[s] EXCEPT !.st = "ignored"]
<1>1. /\ pc = "poll" /\ cur \in Tasks /\ task[cur] \in Futures /\ task[cur].at = "io"
      /\ i \in DOMAIN op /\ s \in Slots /\ op[i].slot = s
      /\ slab[s].st \in {"waiting", "done"}
      /\ slab[s].op = i /\ slab[s].task = cur
  BY PolledFacts DEF DropOp, DropLarge
<1>2. PICK z \in {y, slab[s]}, memory \in {"slab", "freed"} :
          /\ slab' = [slab EXCEPT ![s] = z] /\ Dropped(i, memory)
          /\ task' = [task EXCEPT ![cur].at = "ready", ![cur].op = 0, ![cur].event = FALSE]
          /\ sq' = sq \/ (sq' = Append(sq, Cancel(s)) /\ cancelled')
          /\ cancelled => cancelled'
          /\ cancelled' \in BOOLEAN
          /\ UNCHANGED <<loop, queue, free, cq, alarm, now, timer, other>>
  <2>1. CASE DropOp
    <3>1. /\ \E memory \in {"slab", "freed"} : Dropped(i, memory)
          /\ slab' = [slab EXCEPT ![s].st = "ignored"]
          /\ task' = [task EXCEPT ![cur].at = "ready", ![cur].op = 0, ![cur].event = FALSE]
          /\ sq' = sq \/ (sq' = Append(sq, Cancel(s)) /\ cancelled')
          /\ cancelled => cancelled'
          /\ cancelled' \in BOOLEAN
          /\ UNCHANGED <<loop, queue, free, cq, alarm, now, timer, other>>
      BY <2>1 DEF DropOp, Dropped, Types
    <3>2. slab' = [slab EXCEPT ![s] = y]
      BY <3>1
    <3> QED
      BY <3>1, <3>2
  <2>2. CASE DropLarge
    <3>1. slab' = [slab EXCEPT ![s] = slab[s]]
      BY <2>2 DEF DropLarge, Types
    <3>2. /\ Dropped(i, "freed") /\ sq' = sq /\ cancelled' = cancelled
          /\ task' = [task EXCEPT ![cur].at = "ready", ![cur].op = 0, ![cur].event = FALSE]
          /\ UNCHANGED <<loop, queue, free, cq, alarm, now, timer, other>>
      BY <2>2 DEF DropLarge, Dropped, ring, history
    <3> QED
      BY <3>1, <3>2 DEF Types
  <2> QED
    BY <2>1, <2>2
<1> DEFINE o == [op[i] EXCEPT !.buf = memory]
<1> HIDE DEF i, s
<1>3. task' = [task EXCEPT ![cur] = r]
  BY <1>2 DEF Types
<1>4. r \in Futures /\ r.at = "ready"
  BY <1>1 DEF Futures
<1> HIDE DEF r
<1>5. /\ task' \in [Tasks -> Futures] /\ task'[cur].at = "ready"
      /\ \A t \in Tasks : t # cur => task'[t] = task[t]
  BY <1>1, <1>3, <1>4 DEF Types
<1>6. slab[s] \in States /\ op[i] \in Operations /\ op \in Seq(Operations)
  BY <1>1, SeqFacts DEF Types
<1>7. /\ z \in States /\ z.op = i /\ z.st # "vacant"
      /\ z.st = "done" => z = slab[s]
      /\ slab[s].st = "waiting" => z.st \in {"waiting", "ignored"}
  BY <1>1, <1>2, <1>6 DEF States
<1> HIDE DEF y
<1>8. /\ slab' \in [Slots -> States] /\ slab'[s] = z
      /\ \A x \in Slots : x # s => slab'[x] = slab[x]
  BY <1>1, <1>2, <1>7 DEF Types
<1>9. o \in Operations /\ o.slot = s /\ o.kernel = op[i].kernel /\ o.buf \in {"slab", "freed"}
  BY <1>1, <1>2, <1>6 DEF Operations
<1>10. op' = [op EXCEPT ![i] = o]
  BY <1>2 DEF Dropped
<1> HIDE DEF o
<1>11. /\ op' \in Seq(Operations) /\ Len(op') = Len(op) /\ DOMAIN op' = DOMAIN op
       /\ op'[i] = o /\ \A n \in DOMAIN op : n # i => op'[n] = op[n]
  BY <1>1, <1>6, <1>9, <1>10, ReplaceFacts
<1>12. \A n \in DOMAIN op : /\ op'[n].slot = op[n].slot /\ op'[n].kernel = op[n].kernel
                            /\ op[n].buf # "out" => op'[n].buf # "out"
                            /\ n # i => op'[n].buf = op[n].buf
  BY <1>1, <1>9, <1>11
<1>13. \A x : Own(x)' => Own(x)
  BY <1>2 DEF Own
<1>14. sq' \in Seq(Entries) /\ (QueuedIn(sq, op))'
  <2>1. CASE sq' = sq
    <3>1. QueuedIn(sq, op) /\ sq \in Seq(Entries)
      BY DEF Apart, Types
    <3> QED
      BY <1>2, <1>11, <1>12, <2>1, <3>1 DEF QueuedIn
  <2>2. CASE sq' = Append(sq, Cancel(s)) /\ cancelled'
    <3>1. Cancel(s) \in Entries /\ Cancel(s).kind = "cancel"
      BY <1>1 DEF Cancel, Entries, Slots
    <3>2. /\ sq' \in Seq(Entries)
          /\ Len(sq) \in Nat /\ DOMAIN sq = 1 .. Len(sq)
          /\ DOMAIN sq' = 1 .. Len(sq) + 1
          /\ sq'[Len(sq) + 1] = Cancel(s)
          /\ \A j \in 1 .. Len(sq) : sq'[j] = sq[j]
      BY <2>2, <3>1, AppendFacts DEF Types
    <3>3. \A j \in DOMAIN sq' : sq'[j].kind = "op" => j \in DOMAIN sq /\ sq'[j] = sq[j]
      BY <3>1, <3>2
    <3>4. QueuedIn(sq, op)
      BY DEF Apart
    <3> QED
      BY <1>11, <1>12, <2>2, <3>2, <3>3, <3>4 DEF QueuedIn
  <2> QED
    BY <1>2, <2>1, <2>2
<1>15. Types'
  BY <1>1, <1>2, <1>5, <1>8, <1>11, <1>14 DEF Types, loop
<1>16. Free'
  <2>1. \A k \in DOMAIN free : free[k] \in Slots /\ slab[free[k]].st = "vacant" /\ free[k] # s
    BY <1>1, SeqFacts DEF Apart, Free, Types
  <2> QED
    BY <1>2, <1>8, <1>11, <2>1 DEF Apart, Free
<1>17. ASSUME NEW x \in Slots PROVE Taken(x)' /\ Finished(x)'
  <2>1. CASE x = s
    <3>1. Taken(x)'
      BY <1>1, <1>7, <1>8, <1>9, <1>11, <2>1 DEF Taken
    <3>2. Finished(x)'
      <4>1. Finished(s)
        BY <1>1 DEF Apart
      <4> QED
        BY <1>1, <1>7, <1>8, <1>12, <1>13, <2>1, <4>1 DEF Finished
    <3> QED
      BY <3>1, <3>2
  <2>2. CASE x # s
    <3>1. Taken(x) /\ Finished(x) /\ slab'[x] = slab[x]
      BY <1>8, <2>2 DEF Apart
    <3>2. slab[x].st # "vacant" => slab[x].op \in DOMAIN op /\ slab[x].op # i
      BY <1>1, <2>2, <3>1 DEF Taken
    <3>3. slab[x] \in States /\ slab[x].task \in Tasks
      BY DEF States, Types
    <3>4. slab[x].st # "vacant" /\ op[slab[x].op].buf = "task" => slab[x].task # cur
      BY <3>1, <3>2 DEF Taken, i
    <3>5. Taken(x)'
      BY <1>5, <1>11, <1>12, <3>1, <3>2, <3>3, <3>4 DEF Taken
    <3>6. Finished(x)'
      BY <1>12, <1>13, <3>1, <3>2 DEF Finished
    <3> QED
      BY <3>5, <3>6
  <2> QED
    BY <2>1, <2>2
<1>18. ASSUME NEW n \in DOMAIN op' PROVE Held(n)' /\ Kept(n)'
  <2>1. n \in DOMAIN op /\ Held(n) /\ Kept(n)
    BY <1>11 DEF Apart
  <2>2. CASE n = i
    BY <1>1, <1>7, <1>8, <1>9, <1>11, <2>2 DEF Held, Kept
  <2>3. CASE n # i
    <3>1. op[n] \in Operations
      BY <1>6, <2>1, SeqFacts
    <3>2. op[n].slot \in Slots
      BY <3>1 DEF Operations
    <3>3. op[n].buf # "out" => op[n].slot # s
      BY <1>1, <2>1, <2>3 DEF Held
    <3> QED
      BY <1>8, <1>11, <1>13, <2>1, <2>3, <3>2, <3>3 DEF Held, Kept
  <2> QED
    BY <2>2, <2>3
<1>19. ASSUME NEW t \in Tasks PROVE Awaited(t)'
  <2> SUFFICES ASSUME task'[t].at = "io"
               PROVE  /\ task'[t].op \in DOMAIN op'
                      /\ slab'[op'[task'[t].op].slot].st \in {"waiting", "done"}
                      /\ slab'[op'[task'[t].op].slot].op = task'[t].op
                      /\ slab'[op'[task'[t].op].slot].task = t
    BY DEF Awaited, SlotOf
  <2> DEFINE n == task[t].op
  <2>1. t # cur /\ task'[t] = task[t]
    BY <1>5
  <2>2. /\ n \in DOMAIN op /\ slab[op[n].slot].st \in {"waiting", "done"}
        /\ slab[op[n].slot].op = n /\ slab[op[n].slot].task = t
    BY <2>1 DEF Apart, Awaited, SlotOf
  <2> HIDE DEF n
  <2>3. op[n].slot # s /\ op[n].slot \in Slots
    <3>1. op[n] \in Operations
      BY <1>6, <2>2, SeqFacts
    <3> QED
      BY <1>1, <2>1, <2>2, <3>1 DEF Operations
  <2> QED
    BY <1>8, <1>11, <1>12, <2>1, <2>2, <2>3 DEF n
<1>20. (Completed(cq))'
  <2>1. Completed(cq) /\ cq' = cq
    BY <1>2 DEF Apart
  <2>2. ASSUME NEW j \in DOMAIN cq' PROVE (Answers(cq[j]))'
    <3>1. Answers(cq[j])
      BY <2>1 DEF Completed
    <3> QED
      BY <1>1, <1>7, <1>8, <1>11, <1>12, <1>13, <2>1, <3>1 DEF Answers
  <2> QED
    BY <1>13, <2>1, <2>2 DEF Completed
<1> QED
  BY <1>14, <1>15, <1>16, <1>17, <1>18, <1>19, <1>20 DEF Apart

LEMMA SubmitOpStep ==
    ASSUME Types, Apart, SubmitOp
    PROVE  Types' /\ Apart'
<1> DEFINE i == Len(op) + 1
           s == Head(free)
           e == Operation(i, s)
           o == [slot |-> s, buf |-> "task", kernel |-> "queued"]
           z == [st |-> "waiting", op |-> i, res |-> 0, task |-> cur]
           r == [task[cur] EXCEPT !.at = "io", !.op = i]
<1>1. /\ op \in Seq(Operations) /\ cq \in Seq(Completions) /\ sq \in Seq(Entries)
      /\ slab \in [Slots -> States] /\ task \in [Tasks -> Futures] /\ free \in Seq(Slots)
      /\ cur \in Tasks /\ task[cur] \in Futures
      /\ Len(op) \in Nat /\ DOMAIN op = 1 .. Len(op) /\ i \in Nat
  BY SeqFacts DEF Types
<1>2. free # <<>>
  <2>1. Len(free) \in Nat /\ Len(free) >= MaxOps - Len(op) /\ Len(op) < MaxOps /\ MaxOps \in Nat
    BY <1>1, SeqFacts, ReactorAssumption DEF Apart, Free, SubmitOp
  <2>2. Len(free) # 0
    BY <1>1, <2>1
  <2> QED
    BY <1>1, <2>2, EmptySeq
<1>3. /\ s = free[1] /\ s \in Slots
      /\ Tail(free) \in Seq(Slots) /\ Len(Tail(free)) = Len(free) - 1
      /\ DOMAIN Tail(free) = 1 .. Len(free) - 1
      /\ \A k \in 1 .. Len(free) - 1 : Tail(free)[k] = free[k + 1]
      /\ Len(free) \in Nat /\ DOMAIN free = 1 .. Len(free) /\ 1 \in DOMAIN free
  <2>1. Len(free) # 0
    BY <1>1, <1>2, EmptySeq
  <2> QED
    BY <1>1, <1>2, <2>1, TailFacts, SeqFacts
<1>4. /\ task[cur].at = "ready" /\ pc' = "end" /\ free' = Tail(free)
      /\ op' = Append(op, o) /\ sq' = Append(sq, e) /\ slab' = [slab EXCEPT ![s] = z]
      /\ task' = [task EXCEPT ![cur].at = "io", ![cur].op = i]
      /\ UNCHANGED <<cur, reap, queue, cq, alarm, now, timer, other, cancelled>>
  BY DEF SubmitOp, Polls, history
<1>5. slab[s].st = "vacant"
  BY <1>3 DEF Apart, Free
<1> HIDE DEF s, i
<1>6. /\ o \in Operations /\ o.slot = s /\ o.buf = "task" /\ o.kernel = "queued"
      /\ z \in States /\ z.st = "waiting" /\ z.op = i /\ z.task = cur
      /\ e \in Entries /\ e.kind = "op" /\ e.arg = i
  BY <1>1, <1>3 DEF Operations, States, Entries, Operation, Slots
<1>7. r \in Futures /\ r.at = "io" /\ r.op = i /\ task' = [task EXCEPT ![cur] = r]
  BY <1>1, <1>4 DEF Futures
<1> HIDE DEF o, z, e, r
<1>8. /\ task' \in [Tasks -> Futures] /\ task'[cur] = r
      /\ \A t \in Tasks : t # cur => task'[t] = task[t]
  BY <1>1, <1>7
<1>9. /\ slab' \in [Slots -> States] /\ slab'[s] = z
      /\ \A x \in Slots : x # s => slab'[x] = slab[x]
  BY <1>1, <1>3, <1>4, <1>6
<1>10. /\ op' \in Seq(Operations) /\ Len(op') = i /\ DOMAIN op' = 1 .. i
       /\ i \notin DOMAIN op /\ op'[i] = o /\ i \in DOMAIN op'
       /\ \A n \in DOMAIN op : n \in DOMAIN op' /\ op'[n] = op[n]
       /\ \A n \in DOMAIN op' : n \in DOMAIN op \/ n = i
  BY <1>1, <1>4, <1>6, AppendFacts DEF i
<1>11. /\ sq' \in Seq(Entries)
       /\ Len(sq) \in Nat /\ DOMAIN sq = 1 .. Len(sq)
       /\ DOMAIN sq' = 1 .. Len(sq) + 1
       /\ sq'[Len(sq) + 1] = e
       /\ \A j \in 1 .. Len(sq) : sq'[j] = sq[j]
  BY <1>1, <1>4, <1>6, AppendFacts
<1>12. Types'
  BY <1>3, <1>4, <1>8, <1>9, <1>10, <1>11 DEF Types, Places
<1>13. Free'
  <2>1. \A k \in DOMAIN free' : k \in Int /\ k + 1 \in DOMAIN free /\ k + 1 # 1 /\ free'[k] = free[k + 1]
    BY <1>3, <1>4
  <2>2. \A k \in DOMAIN free : free[k] \in Slots /\ slab[free[k]].st = "vacant"
    BY <1>1, SeqFacts DEF Apart, Free
  <2>3. \A k \in DOMAIN free' : free'[k] # s
    BY <1>3, <2>1 DEF Apart, Free
  <2>4. \A k \in DOMAIN free' : slab'[free'[k]].st = "vacant"
    BY <1>9, <2>1, <2>2, <2>3
  <2>5. \A j, k \in DOMAIN free' : free'[j] = free'[k] => j = k
    <3> SUFFICES ASSUME NEW j \in DOMAIN free', NEW k \in DOMAIN free', free'[j] = free'[k]
                 PROVE  j = k
      OBVIOUS
    <3>1. j + 1 = k + 1
      BY <2>1 DEF Apart, Free
    <3> QED
      BY <2>1, <3>1
  <2>6. Len(free') >= MaxOps - Len(op')
    <3>1. Len(free) >= MaxOps - Len(op) /\ MaxOps \in Nat
      BY ReactorAssumption DEF Apart, Free
    <3> QED
      BY <1>1, <1>3, <1>4, <1>10, <3>1 DEF i
  <2> QED
    BY <2>4, <2>5, <2>6 DEF Free
<1>14. ASSUME NEW x \in Slots PROVE Taken(x)' /\ Finished(x)'
  <2>1. CASE x = s
    BY <1>1, <1>6, <1>7, <1>8, <1>9, <1>10, <2>1 DEF Taken, Finished
  <2>2. CASE x # s
    <3>1. Taken(x) /\ Finished(x) /\ slab'[x] = slab[x]
      BY <1>9, <2>2 DEF Apart
    <3>2. slab[x].st # "vacant" =>
            /\ slab[x].op \in DOMAIN op' /\ op'[slab[x].op] = op[slab[x].op]
      BY <1>10, <3>1 DEF Taken
    <3>3. slab[x] \in States /\ slab[x].task \in Tasks
      BY <1>1 DEF States
    <3>4. slab[x].st # "vacant" /\ op[slab[x].op].buf = "task" => slab[x].task # cur
      BY <1>4, <3>1 DEF Taken
    <3>5. Taken(x)'
      BY <1>8, <3>1, <3>2, <3>3, <3>4 DEF Taken
    <3>6. Finished(x)'
      BY <1>4, <3>1, <3>2 DEF Finished, Own
    <3> QED
      BY <3>5, <3>6
  <2> QED
    BY <2>1, <2>2
<1>15. ASSUME NEW n \in DOMAIN op' PROVE Held(n)' /\ Kept(n)'
  <2>1. CASE n = i
    BY <1>6, <1>9, <1>10, <2>1 DEF Held, Kept
  <2>2. CASE n \in DOMAIN op
    <3>1. Held(n) /\ Kept(n) /\ op'[n] = op[n]
      BY <1>10, <2>2 DEF Apart
    <3>2. op[n].buf # "out" => op[n].slot \in Slots /\ op[n].slot # s
      BY <1>5, <2>2, OwnerFacts
    <3> QED
      BY <1>4, <1>9, <3>1, <3>2 DEF Held, Kept, Own
  <2> QED
    BY <1>10, <2>1, <2>2
<1>16. ASSUME NEW t \in Tasks PROVE Awaited(t)'
  <2> SUFFICES ASSUME task'[t].at = "io"
               PROVE  /\ task'[t].op \in DOMAIN op'
                      /\ slab'[op'[task'[t].op].slot].st \in {"waiting", "done"}
                      /\ slab'[op'[task'[t].op].slot].op = task'[t].op
                      /\ slab'[op'[task'[t].op].slot].task = t
    BY DEF Awaited, SlotOf
  <2>1. CASE t = cur
    BY <1>6, <1>7, <1>8, <1>9, <1>10, <2>1
  <2>2. CASE t # cur
    <3> DEFINE n == task[t].op
    <3>1. task'[t] = task[t]
      BY <1>8, <2>2
    <3>2. /\ n \in DOMAIN op /\ slab[op[n].slot].st \in {"waiting", "done"}
          /\ slab[op[n].slot].op = n /\ slab[op[n].slot].task = t
      BY <3>1 DEF Apart, Awaited, SlotOf
    <3> HIDE DEF n
    <3>3. op[n].slot # s /\ op[n].slot \in Slots
      <4>1. op[n] \in Operations
        BY <1>1, <3>2, SeqFacts
      <4> QED
        BY <1>5, <3>2, <4>1 DEF Operations
    <3> QED
      BY <1>9, <1>10, <3>1, <3>2, <3>3 DEF n
  <2> QED
    BY <2>1, <2>2
<1>17. (QueuedIn(sq, op))'
  <2>1. QueuedIn(sq, op)
    BY DEF Apart
  <2>2. \A j \in DOMAIN sq' : (j \in DOMAIN sq /\ sq'[j] = sq[j]) \/ (sq'[j] = e /\ j = Len(sq) + 1)
    BY <1>11
  <2>3. \A j \in DOMAIN sq' : sq'[j].kind = "op" =>
            sq'[j].arg \in DOMAIN op' /\ op'[sq'[j].arg].kernel = "queued"
    BY <1>6, <1>10, <2>1, <2>2 DEF QueuedIn
  <2>4. \A j \in DOMAIN sq : sq[j].kind = "op" => sq[j].arg # i
    BY <1>10, <2>1 DEF QueuedIn
  <2>5. \A j, l \in DOMAIN sq' :
            sq'[j].kind = "op" /\ sq'[l].kind = "op" /\ sq'[j].arg = sq'[l].arg => j = l
    BY <1>6, <2>1, <2>2, <2>4 DEF QueuedIn
  <2>6. \A j \in DOMAIN sq' : sq'[j].kind = "cancel" => cancelled'
    BY <1>4, <1>6, <2>1, <2>2 DEF QueuedIn
  <2> QED
    BY <2>3, <2>5, <2>6 DEF QueuedIn
<1>18. (Completed(cq))'
  <2>1. Completed(cq) /\ cq' = cq
    BY <1>4 DEF Apart
  <2>2. ASSUME NEW j \in DOMAIN cq' PROVE (Answers(cq[j]))'
    <3>1. Answers(cq[j])
      BY <2>1 DEF Completed
    <3> QED
      BY <1>4, <1>5, <1>9, <1>10, <2>1, <3>1 DEF Answers, Own
  <2> QED
    BY <1>4, <2>1, <2>2 DEF Completed, Own
<1> QED
  BY <1>12, <1>13, <1>14, <1>15, <1>16, <1>17, <1>18 DEF Apart

(* When run() ends nothing is promised any more. *)
LEMMA EndStep ==
    ASSUME Types, End
    PROVE  Types' /\ Over'
<1>1. /\ op \in Seq(Operations) /\ Len(op) \in Nat /\ DOMAIN op = 1 .. Len(op)
      /\ \A i \in DOMAIN op : op[i] \in Operations
  BY SeqFacts DEF Types
<1>2. op' = [i \in 1 .. Len(op) |-> [op[i] EXCEPT !.buf = "out"]]
  BY <1>1 DEF End
<1>3. \A i \in 1 .. Len(op) : [op[i] EXCEPT !.buf = "out"] \in Operations
  BY <1>1 DEF Operations
<1>4. op' \in Seq(Operations)
  BY <1>1, <1>2, <1>3
<1>5. slab' \in [Slots -> States]
  <2>1. Vacant \in States
    BY ReactorAssumption DEF Vacant, States
  <2> QED
    BY <2>1 DEF End
<1>6. queue' \in Seq(Tasks) /\ pc' = "ended"
  BY DEF End
<1>7. UNCHANGED <<cur, reap, task, free, sq, cq, alarm, now, timer, other, cancelled>>
  BY DEF End, ring, history
<1> QED
  BY <1>4, <1>5, <1>6, <1>7 DEF Types, Places, Over

LEMMA InitIInv == Init => IInv
<1> SUFFICES ASSUME Init PROVE IInv
  OBVIOUS
<1>1. Vacant \in States /\ Vacant.st = "vacant" /\ MaxOps \in Nat /\ Main \in Tasks
  BY ReactorAssumption DEF Vacant, States
<1>2. /\ slab \in [Slots -> States] /\ \A s \in Slots : slab[s] = Vacant
      /\ op = <<>> /\ sq = <<>> /\ cq = <<>>
  BY <1>1 DEF Init
<1>3. /\ task \in [Tasks -> Futures] /\ \A t \in Tasks : task[t].at = "ready"
  BY DEF Init, Futures
<1>4. queue \in Seq(Tasks)
  <2>1. Cardinality(Tasks) \in Nat
    BY ReactorAssumption, FS_CardinalityType
  <2>2. queue \in [1 .. Cardinality(Tasks) -> Tasks]
    BY DEF Init, SetToSeqs
  <2> QED
    BY <2>1, <2>2
<1>5. /\ free \in Seq(Slots) /\ Len(free) = MaxOps /\ DOMAIN free = 1 .. MaxOps
      /\ \A k \in 1 .. MaxOps : free[k] = k - 1 /\ free[k] \in Slots
  <2>1. \A k \in 1 .. MaxOps : k - 1 \in Slots
    BY <1>1 DEF Slots
  <2>2. free = [k \in 1 .. MaxOps |-> k - 1]
    BY DEF Init
  <2> QED
    BY <1>1, <2>1, <2>2
<1>6. Types
  <2>1. /\ pc = "turn" /\ cur = Main /\ reap = 0 /\ alarm = {} /\ now = 0
        /\ timer = [t \in Tasks |-> 0] /\ other = [at |-> "idle", task |-> Main]
        /\ cancelled = FALSE
    BY DEF Init
  <2>2. op \in Seq(Operations) /\ sq \in Seq(Entries) /\ cq \in Seq(Completions)
    BY <1>2
  <2>3. timer \in [Tasks -> Nat] /\ alarm \in SUBSET Nat
    BY <2>1
  <2>4. other \in [at : {"idle", "count", "queue", "nop", "submit"}, task : Tasks]
    BY <1>1, <2>1
  <2>5. pc \in Places /\ cur \in Tasks /\ reap \in Int /\ now \in Nat
    BY <1>1, <2>1 DEF Places
  <2>6. cancelled \in BOOLEAN
    BY <2>1
  <2>7. pc # "reap" /\ pc # "arm"
    BY <2>1
  <2>8. slab \in [Slots -> States] /\ task \in [Tasks -> Futures] /\ free \in Seq(Slots)
    BY <1>2, <1>3, <1>5
  <2> QED
    BY <1>4, <2>2, <2>3, <2>4, <2>5, <2>6, <2>7, <2>8 DEF Types
<1>7. Free
  <2>1. Len(op) = 0
    BY <1>2
  <2>2. \A j, k \in DOMAIN free : free[j] = free[k] => j = k
    BY <1>5
  <2> QED
    BY <1>1, <1>2, <1>5, <2>1, <2>2 DEF Free
<1>8. Apart
  BY <1>1, <1>2, <1>3, <1>7 DEF Apart, Taken, Finished, Held, Kept, Awaited, QueuedIn, Completed
<1> QED
  BY <1>6, <1>8 DEF IInv

LEMMA IInvStep == IInv /\ [Next]_vars => IInv'
<1> SUFFICES ASSUME IInv, [Next]_vars PROVE IInv'
  OBVIOUS
<1>1. CASE UNCHANGED vars
  <2>1. UNCHANGED <<pc, polled, cur, remains, reap, task, queue, op, slab, free, sq, cq, alarm,
                    now, timer, other, cancelled>>
    BY <1>1 DEF vars, loop, ring, history
  <2>2. Types'
    BY <2>1 DEF IInv, Types, Armed
  <2>3. SameWaits
    BY <2>1 DEF SameWaits
  <2>4. Apart => Apart'
    BY <2>1, <2>3, Quiet DEF IInv
  <2> QED
    BY <2>1, <2>2, <2>4 DEF IInv, Over
<1>2. CASE Next
  <2>1. ~Over
    BY <1>2 DEF Next, Run, Over, Turn, Process, Reap, StartPoll, TickOver, HasRemaining, SubmitOp,
         TakeResult, DropOp, DropLarge, Await, Arrived, Pending, Finish, EndPoll, End, Look, Arm, Wait, Polls
  <2>2. Types /\ Apart
    BY <2>1 DEF IInv
  <2>3. CASE Turn \/ Look
    BY <2>2, <2>3, TurnStep DEF IInv
  <2>4. CASE Process \/ Wait \/ PushNop \/ SubmitNop \/ FireTimeout
    BY <2>2, <2>4, PlainStep DEF IInv
  <2>5. CASE Reap
    BY <2>2, <2>5, ReapStep DEF IInv
  <2>6. CASE \/ StartPoll \/ TickOver \/ HasRemaining
             \/ Await \/ Arrived \/ Pending \/ Finish \/ EndPoll
    BY <2>2, <2>6, FutureStep DEF IInv
  <2>7. CASE SubmitOp
    BY <2>2, <2>7, SubmitOpStep DEF IInv
  <2>8. CASE TakeResult
    BY <2>2, <2>8, TakeResultStep DEF IInv
  <2>9. CASE DropOp \/ DropLarge
    BY <2>2, <2>9, DropOpStep DEF IInv
  <2>10. CASE End
    BY <2>2, <2>10, EndStep DEF IInv
  <2>11. CASE Arm
    BY <2>2, <2>11, ArmStep DEF IInv
  <2>12. CASE Count \/ Enqueue \/ TimePasses \/ \E t \in Tasks : SetEvent(t)
    BY <2>2, <2>12, OtherStep DEF IInv
  <2>13. CASE \E i \in DOMAIN op : Complete(i)
    BY <2>2, <2>13, CompleteStep DEF IInv
  <2> QED
    BY <1>2, <2>3, <2>4, <2>5, <2>6, <2>7, <2>8, <2>9, <2>10, <2>11, <2>12, <2>13
       DEF Next, Run, OtherThread
<1> QED
  BY <1>1, <1>2

LEMMA Invariance == Spec => []IInv
BY InitIInv, IInvStep, PTL DEF Spec

(* A completion is kept for the operation it belongs to, and what the kernel
   holds keeps its slot and no buffer of it leaves through poll_completion or
   process_io, however many operations are submitted, dropped, cancelled and
   completed, in whatever order, and however slots are reused: until run() ends,
   and except in slot 0 once drop_completion has pushed an AsyncCancel, whose
   completion carries that number.  Nothing is said of what drop_completion frees
   itself: a buffer that is too large for the slot, and what Open and SendTo do
   not return from into_buf. *)
THEOREM OperationsApart == Spec => []OpsIsolated
<1>1. IInv => OpsIsolated
  <2> SUFFICES ASSUME Apart PROVE OpsIsolated
    BY DEF IInv, OpsIsolated
  <2>1. \A s \in Slots : Own(s) /\ slab[s].st = "done" => slab[s].res = slab[s].op
    BY DEF Apart, Finished
  <2>2. \A i \in DOMAIN op : Own(op[i].slot) /\ op[i].kernel # "over" =>
            /\ slab[op[i].slot].st # "vacant" /\ slab[op[i].slot].op = i
            /\ op[i].buf # "out"
    BY DEF Apart, Kept, Held
  <2> QED
    BY <2>1, <2>2 DEF OpsIsolated, Own
<1> QED
  BY <1>1, Invariance, PTL
=============================================================================

------------------------------ MODULE WaitQueue ------------------------------
(***************************************************************************)
(* The queue every task of the database sleeps on: WaitQueue, Waiter and   *)
(* Wait of libs/stellarator/maitake/sync/src/wait_queue.rs, used the two   *)
(* ways the program uses it: AtomicCell and CancelToken (a value is        *)
(* stored, then wake_all; tasks wait_for a value or just wait) and oneshot *)
(* (wake).                                                                 *)
(*                                                                         *)
(* The state word is read and exchanged with and without the queue's lock. *)
(* A critical section is two steps, so that what runs without the lock can *)
(* fall between its load of the word and its exchange or store.            *)
(***************************************************************************)
EXTENDS Integers, Sequences, FiniteSets, SequencesExt

CONSTANTS
    Plain,      \* tasks that wait
    Watchers,   \* tasks that wait_for a value
    Callers,    \* threads that wake
    NoOne,      \* the owner of a free lock
    MaxWakers,  \* MAX_WAKERS: wakers that fit a WakeBatch
    MaxStores,  \* bound on the values stored
    MaxWakes,   \* bound on the calls of wake
    MaxCloses,  \* bound on the calls of close
    MaxDrops    \* bound on the Wait futures dropped while they wait

Waiters == Plain \cup Watchers
Actors == Waiters \cup Callers

ASSUME WaitQueueAssumption ==
    /\ NoOne \notin Actors
    /\ Plain \cap Watchers = {} /\ Waiters \cap Callers = {}
    /\ MaxWakers \in Nat \ {0}
    /\ {MaxStores, MaxWakes, MaxCloses, MaxDrops} \subseteq Nat

VARIABLES
    state,     \* QueueState::STATE
    wakeAlls,  \* QueueState::WAKE_ALLS
    queue,     \* the linked list, next to be woken first
    lock,      \* who holds the mutex around the list
    curr,      \* the state the holder of the lock read
    pc,        \* where every actor is
    wait,      \* the Waiter of every task: its state, the WAKE_ALLS it saw,
               \* its Wakeup, and the value its task waits for
    batch,     \* wakers an actor took from the list and has yet to call
    woken,     \* tasks whose waker was called since they went to sleep
    value,     \* AtomicCell::value
    owed,      \* history: a wake() ended and no wait consumed it yet
    calls      \* history: calls of wake and close, futures dropped

queueVars == <<state, wakeAlls, queue, lock, curr>>
wakeVars == <<batch, woken>>
history == <<owed, calls>>
vars == <<queueVars, pc, wait, wakeVars, value, history>>

(* A task that is not waiting. *)
NoWait == [state |-> "Woken", seen |-> 0, node |-> "Empty", goal |-> 0]

Init ==
    /\ state = "Empty" /\ wakeAlls = 0 /\ queue = <<>>
    /\ lock = NoOne /\ curr = "Empty"
    /\ pc = [p \in Actors |-> "idle"]
    /\ wait = [w \in Waiters |-> NoWait]
    /\ batch = [p \in Actors |-> {}] /\ woken = {}
    /\ value = 0
    /\ owed = FALSE /\ calls = [wake |-> 0, close |-> 0, drop |-> 0]

Goto(p, l) == pc' = [pc EXCEPT ![p] = l]

(* with_lock: take the lock and read the state word ... *)
Acquire(p, from, to) ==
    /\ pc[p] = from /\ lock = NoOne
    /\ lock' = p /\ curr' = state
    /\ Goto(p, to)
    /\ UNCHANGED <<state, wakeAlls, queue, wait, wakeVars, value, history>>

(* ... and give it back. *)
Release == lock' = NoOne /\ curr' = "Empty"

-----------------------------------------------------------------------------
(* A waiter as WaitQueue::waiter makes it. *)
Fresh(goal) == [state |-> "Start", seen |-> wakeAlls, node |-> "Empty", goal |-> goal]

(* A task calls wait, or wait_for the next value. *)
Begin(w) ==
    /\ pc[w] = "idle"
    /\ w \in Watchers => value < MaxStores
    /\ wait' = [wait EXCEPT ![w] = Fresh(value + 1)]
    /\ Goto(w, "start")
    /\ UNCHANGED <<queueVars, wakeVars, value, history>>

(* The wait is over: wait returns, wait_for goes on to its condition, which
   it evaluates once it is subscribed. *)
Ready(w) ==
    IF w \in Plain
    THEN wait' = [wait EXCEPT ![w] = NoWait] /\ Goto(w, "idle")
    ELSE wait' = [wait EXCEPT ![w].state = "Woken"] /\ Goto(w, "check")

(* The wait ends in Closed, or its future is gone. *)
Return(w) ==
    /\ wait' = [wait EXCEPT ![w] = NoWait]
    /\ Goto(w, "idle")

(* poll_wait from Start: try to consume a stored wakeup.  The exchange also
   fails when a wake_all was counted since the word was read. *)
Consume(w) ==
    /\ pc[w] = "start"
    /\ \/ /\ state = "Woken"
          /\ state' = "Empty"
          /\ owed' = FALSE
          /\ Ready(w)
       \/ /\ state # "Woken" \/ wakeAlls # wait[w].seen
          /\ Goto(w, "enqueue")
          /\ UNCHANGED <<state, owed, wait>>
    /\ UNCHANGED <<wakeAlls, queue, lock, curr, wakeVars, value, calls>>

LockEnqueue(w) == Acquire(w, "enqueue", "enqueuing")

(* The node goes to the list, with a waker only if the task is polling. *)
PushFront(w) ==
    /\ wait' = [wait EXCEPT ![w].state = "Waiting",
                            ![w].node = IF w \in Plain THEN "Waiting" ELSE "Empty"]
    /\ queue' = Append(queue, w)
    /\ Release
    /\ Goto(w, IF w \in Plain THEN "asleep" ELSE "check")

(* Mutant: the generation is not compared. *)
EnqueueNoGeneration(w) ==
    /\ pc[w] = "enqueuing"
    /\ state' = IF state = "Empty" THEN "Waiting" ELSE state
    /\ PushFront(w)
    /\ UNCHANGED <<wakeAlls, wakeVars, value, history>>

(* poll_wait from Start, under the lock. *)
Enqueue(w) ==
    /\ pc[w] = "enqueuing"
    /\ \/ /\ wakeAlls # wait[w].seen
          /\ Release /\ Ready(w)
          /\ UNCHANGED <<state, queue, owed>>
       \/ /\ wakeAlls = wait[w].seen
          /\ \/ curr = "Empty" /\ state = curr /\ state' = "Waiting"
             \/ curr = "Waiting" /\ UNCHANGED state
          /\ PushFront(w)
          /\ UNCHANGED owed
       \/ /\ wakeAlls = wait[w].seen /\ curr = "Woken" /\ state = curr
          /\ state' = "Empty"
          /\ owed' = FALSE
          /\ Release /\ Ready(w)
          /\ UNCHANGED queue
       \/ /\ wakeAlls = wait[w].seen /\ curr = "Closed"
          /\ Release /\ Return(w)
          /\ UNCHANGED <<state, queue, owed>>
       \/ /\ wakeAlls = wait[w].seen /\ curr \in {"Empty", "Woken"} /\ state # curr
          /\ curr' = state
          /\ UNCHANGED <<state, queue, lock, pc, wait, owed>>
    /\ UNCHANGED <<wakeAlls, wakeVars, value, calls>>

(* wait_for: when the condition holds the Wait is dropped, else awaited. *)
Check(w) ==
    /\ pc[w] = "check"
    /\ \/ value < wait[w].goal /\ Goto(w, "poll") /\ UNCHANGED wait
       \/ value >= wait[w].goal /\ wait[w].state = "Waiting" /\ Goto(w, "drop") /\ UNCHANGED wait
       \/ value >= wait[w].goal /\ wait[w].state = "Woken" /\ Return(w)
    /\ UNCHANGED <<queueVars, wakeVars, value, history>>

CanPoll(w) ==
    /\ pc[w] \in {"poll", "asleep"} /\ lock = NoOne
    /\ pc[w] = "asleep" => w \in woken

(* Await: poll_wait of a waiter that is enqueued, or that is woken already.
   A sleeping task is polled again once its waker was called.  When the wait
   is over, wait_for makes another one. *)
Poll(w) ==
    /\ CanPoll(w)
    /\ woken' = woken \ {w}
    /\ \/ /\ wait[w].state = "Waiting" /\ wait[w].node \in {"Empty", "Waiting"}
          /\ wait' = [wait EXCEPT ![w].node = "Waiting"]
          /\ Goto(w, "asleep")
          /\ UNCHANGED owed
       \/ /\ wait[w].state = "Waiting" /\ wait[w].node = "Closed"
          /\ Return(w)
          /\ UNCHANGED owed
       \/ /\ wait[w].state = "Woken" \/ wait[w].node \in {"One", "All"}
          /\ owed' = (owed /\ (wait[w].state = "Woken" \/ wait[w].node # "One"))
          /\ IF w \in Plain THEN Return(w)
             ELSE wait' = [wait EXCEPT ![w] = Fresh(@.goal)] /\ Goto(w, "start")
    /\ UNCHANGED <<queueVars, batch, value, calls>>

(* The future of a sleeping task is dropped: it lost a race, or its task was
   cancelled. *)
Cancel(w) ==
    /\ pc[w] = "asleep" /\ calls.drop < MaxDrops
    /\ calls' = [calls EXCEPT !.drop = @ + 1]
    /\ woken' = woken \ {w}
    /\ Goto(w, "drop")
    /\ UNCHANGED <<queueVars, wait, batch, value, owed>>

LockDrop(w) == Acquire(w, "drop", "dropping")

-----------------------------------------------------------------------------
(* wake_locked, on the state st, the list q and the waiters wt: store the
   wakeup, or give it to the next waiter, as what was read under the lock
   tells.  An empty list in state Waiting is a panic. *)
WakeLocked(p, st, q, wt) ==
    \/ /\ curr # "Waiting"
       /\ state' = "Woken" /\ queue' = q /\ wait' = wt
       /\ Goto(p, "call")
       /\ UNCHANGED batch
    \/ /\ curr = "Waiting" /\ q # <<>>
       /\ queue' = Tail(q)
       /\ wait' = [wt EXCEPT ![Head(q)].node = "One"]
       /\ batch' = [batch EXCEPT ![p] = {w \in {Head(q)} : wt[w].node = "Waiting"}]
       /\ state' = IF Tail(q) = <<>> THEN "Empty" ELSE st
       /\ Goto(p, "call")
    \/ /\ curr = "Waiting" /\ q = <<>>
       /\ state' = st /\ queue' = q /\ wait' = wt
       /\ Goto(p, "panic")
       /\ UNCHANGED batch

(* Mutants: a wakeup given to a waiter that is dropped is lost; the dropped
   node stays in the list. *)
DropLosesWakeup(w) ==
    /\ pc[w] = "dropping"
    /\ queue' = RemoveFirst(queue, w)
    /\ state' = IF queue' = <<>> /\ curr = "Waiting" THEN "Empty" ELSE state
    /\ wait' = [wait EXCEPT ![w] = NoWait]
    /\ Release /\ Goto(w, "call")
    /\ UNCHANGED <<wakeAlls, wakeVars, value, history>>
DropLeavesNode(w) ==
    /\ pc[w] = "dropping"
    /\ wait' = [wait EXCEPT ![w] = NoWait]
    /\ Release /\ Goto(w, "call")
    /\ UNCHANGED <<state, queue, wakeAlls, wakeVars, value, history>>

(* Waiter::release: leave the list, and pass an unconsumed wakeup on. *)
Drop(w) ==
    /\ pc[w] = "dropping"
    /\ LET q == RemoveFirst(queue, w)
           st == IF q = <<>> /\ curr = "Waiting" THEN "Empty" ELSE state
           wt == [wait EXCEPT ![w] = NoWait]
       IN  IF wait[w].node = "One" THEN WakeLocked(w, st, q, wt)
           ELSE /\ queue' = q /\ state' = st /\ wait' = wt
                /\ Goto(w, "call")
                /\ UNCHANGED batch
    /\ Release
    /\ UNCHANGED <<wakeAlls, woken, value, history>>

(* The wakers taken under the lock are called after it is released. *)
CallWakers(p, from, to) ==
    /\ pc[p] = from
    /\ woken' = woken \cup {w \in batch[p] : pc[w] \in {"poll", "asleep"}}
    /\ batch' = [batch EXCEPT ![p] = {}]
    /\ Goto(p, to)
    /\ UNCHANGED <<queueVars, wait, value, history>>

Called(p) == CallWakers(p, "call", "idle")

-----------------------------------------------------------------------------
(* wake: without waiters the wakeup is stored by an exchange; else the list
   is locked. *)
Wake(k) ==
    /\ pc[k] = "idle" /\ calls.wake < MaxWakes
    /\ calls' = [calls EXCEPT !.wake = @ + 1]
    /\ \/ state = "Closed" /\ UNCHANGED <<state, pc, owed>>
       \/ state = "Waiting" /\ Goto(k, "wake") /\ UNCHANGED <<state, owed>>
       \/ state \in {"Empty", "Woken"} /\ state' = "Woken" /\ owed' = TRUE /\ UNCHANGED pc
    /\ UNCHANGED <<wakeAlls, queue, lock, curr, wait, wakeVars, value>>

LockWake(k) == Acquire(k, "wake", "waking")

WakeOne(k) ==
    /\ pc[k] = "waking"
    /\ WakeLocked(k, state, queue, wait)
    /\ Release
    /\ owed' = TRUE
    /\ UNCHANGED <<wakeAlls, woken, value, calls>>

(* AtomicCell::store and CancelTokenInner::cancel: the value first. *)
Store(k) ==
    /\ pc[k] = "idle" /\ value < MaxStores
    /\ value' = value + 1
    /\ Goto(k, "wake_all")
    /\ UNCHANGED <<queueVars, wait, wakeVars, history>>

LockWakeAll(k) == Acquire(k, "wake_all", "waking_all")

(* drain_to_wake_batch takes n nodes: until MaxWakers of them had a waker or
   the list is empty; a node that was subscribed without takes no place. *)
IsBatch(n) ==
    LET room(m) == Cardinality({i \in 1 .. m : wait[queue[i]].node = "Waiting"}) < MaxWakers
    IN  (\A m \in 0 .. n - 1 : room(m)) /\ (n = Len(queue) \/ ~room(n))

Drain(k, wakeup) ==
    \E n \in 0 .. Len(queue) :
        LET taken == ToSet(SubSeq(queue, 1, n))
        IN  /\ IsBatch(n)
            /\ queue' = SubSeq(queue, n + 1, Len(queue))
            /\ wait' = [w \in Waiters |-> IF w \in taken THEN [wait[w] EXCEPT !.node = wakeup]
                                          ELSE wait[w]]
            /\ batch' = [batch EXCEPT ![k] = {w \in taken : wait[w].node = "Waiting"}]

(* wake_all, under the lock: count the call and take the first batch.  The
   exchange is expected not to fail. *)
WakeAll(k) ==
    /\ pc[k] = "waking_all"
    /\ \/ /\ curr \in {"Empty", "Woken"}
          /\ wakeAlls' = wakeAlls + 1
          /\ Goto(k, "idle")
          /\ UNCHANGED <<state, queue, wait, batch>>
       \/ /\ curr = "Closed"
          /\ Goto(k, "idle")
          /\ UNCHANGED <<state, wakeAlls, queue, wait, batch>>
       \/ /\ curr = "Waiting" /\ state = curr
          /\ state' = "Empty" /\ wakeAlls' = wakeAlls + 1
          /\ Drain(k, "All")
          /\ Goto(k, IF queue' = <<>> THEN "call" ELSE "call_all")
       \/ /\ curr = "Waiting" /\ state # curr
          /\ Goto(k, "panic")
          /\ UNCHANGED <<state, wakeAlls, queue, wait, batch>>
    /\ Release
    /\ UNCHANGED <<woken, value, history>>

CalledAll(k) == CallWakers(k, "call_all", "more_all")

(* The next batch of wake_all, or a batch of close. *)
DrainMore(k, from, wakeup, again) ==
    /\ pc[k] = from /\ lock = NoOne
    /\ Drain(k, wakeup)
    /\ Goto(k, IF queue' = <<>> THEN "call" ELSE again)
    /\ UNCHANGED <<state, wakeAlls, lock, curr, woken, value, history>>

MoreAll(k) == DrainMore(k, "more_all", "All", "call_all")

(* close: the word becomes Closed without the lock. *)
Close(k) ==
    /\ pc[k] = "idle" /\ calls.close < MaxCloses
    /\ calls' = [calls EXCEPT !.close = @ + 1]
    /\ state' = "Closed"
    /\ Goto(k, IF state = "Waiting" THEN "more_closed" ELSE "idle")
    /\ UNCHANGED <<wakeAlls, queue, lock, curr, wait, wakeVars, value, owed>>

MoreClosed(k) == DrainMore(k, "more_closed", "Closed", "call_closed")
CalledClosed(k) == CallWakers(k, "call_closed", "more_closed")

-----------------------------------------------------------------------------
(* What a task does once it waits, and what a caller does once it called. *)
WaitStep(w) ==
    \/ Consume(w) \/ LockEnqueue(w) \/ Enqueue(w) \/ Check(w)
    \/ Poll(w) \/ LockDrop(w) \/ Drop(w) \/ Called(w)

WakeStep(k) ==
    \/ LockWake(k) \/ WakeOne(k) \/ Called(k)
    \/ LockWakeAll(k) \/ WakeAll(k) \/ CalledAll(k) \/ MoreAll(k)
    \/ MoreClosed(k) \/ CalledClosed(k)

Next ==
    \/ \E w \in Waiters : Begin(w) \/ Cancel(w) \/ WaitStep(w)
    \/ \E k \in Callers : Wake(k) \/ Store(k) \/ Close(k) \/ WakeStep(k)

Spec == Init /\ [][Next]_vars

(* Threads run, the lock is granted to whoever keeps asking, and a task whose
   waker was called is polled. *)
FairSpec ==
    /\ Spec
    /\ \A w \in Waiters : SF_vars(WaitStep(w))
    /\ \A k \in Callers : SF_vars(WakeStep(k))

-----------------------------------------------------------------------------
Panicked == \E p \in Actors : pc[p] = "panic"

(* A task that sleeps can be woken: its node is in the list with its waker, or
   the waker was called, or whoever took the node is about to call it.  And
   every node of the list belongs to a waiter that was neither woken nor
   dropped: no dangling pointer. *)
SleepersReachable ==
    /\ \A w \in Waiters : pc[w] = "asleep" =>
        \/ w \in ToSet(queue) /\ wait[w].node = "Waiting"
        \/ w \in woken
        \/ \E p \in Actors : w \in batch[p]
    /\ \A w \in ToSet(queue) :
        wait[w].state = "Waiting" /\ wait[w].node \in {"Empty", "Waiting"}

(* A wake() is not lost: until some wait consumes it, it is stored in the
   queue or held by a waiter, and passed on when that waiter is dropped.  A
   close may end it. *)
WakeKept ==
    (owed /\ calls.close = 0 /\ ~Panicked) =>
        state = "Woken" \/ \E w \in Waiters : wait[w].node = "One"

(* wake_locked: "if we are in the Waiting state, there must be waiters in the
   queue", and wake_all: "state should not have transitioned while locked". *)
NoPanic == ~Panicked

(* close: "Once a queue is closed, all wait() calls (current or future) will
   return an error". *)
StaysClosed == [][state = "Closed" => state' = "Closed"]_state

(* AtomicCell::wait_for and CancelToken::wait return once the value they wait
   for is stored, however store, subscription, other wake-ups and dropped
   waits interleave. *)
WaitForReturns ==
    \A w \in Watchers :
        (pc[w] # "idle" /\ value >= wait[w].goal) ~> (pc[w] = "idle" \/ Panicked)
=============================================================================

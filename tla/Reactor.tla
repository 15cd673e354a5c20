------------------------------- MODULE Reactor -------------------------------
(***************************************************************************)
(* One executor thread: Executor::run of libs/stellarator/src/lib.rs, the  *)
(* io_uring reactor of uring/mod.rs, the wake bits and the run queue of    *)
(* the maitake scheduler, and another thread that wakes its tasks.  The    *)
(* kernel's side of the ring is external.                                  *)
(*                                                                         *)
(* A task waits for an operation, for an event that another thread sets,   *)
(* or for a deadline.  One that waits for an operation may be racing it    *)
(* with an event: when the event is first, the operation is dropped.       *)
(***************************************************************************)
EXTENDS Integers, Sequences, FiniteSets, FiniteSetsExt, SequencesExt

CONSTANTS
    Tasks,      \* tasks spawned on the executor
    Main,       \* the one that run() was given
    Sleepers,   \* those that sleep
    SqCap,      \* entries of the submission queue: 256
    TickSize,   \* DEFAULT_TICK_SIZE: polls of one tick, 256
    MaxOps,     \* bound on the operations
    MaxEvents,  \* bound on the events of other threads
    MaxTime     \* bound on the clock

ASSUME ReactorAssumption ==
    /\ Main \in Tasks /\ Sleepers \subseteq Tasks /\ IsFiniteSet(Tasks)
    /\ {SqCap, TickSize, MaxOps} \subseteq Nat \ {0}
    /\ {MaxEvents, MaxTime} \subseteq Nat

VARIABLES
    pc,         \* where the loop of run() is
    polled,     \* tasks polled in this tick, the last one in progress
    cur,        \* the task being polled
    remains,    \* Tick::has_remaining
    reap,       \* completions left of those process_io found
    task,       \* the bits of each task's state word and where its future is
    queue,      \* run_queue
    op,         \* every operation: its slot, who has its buffer, how far the kernel is
    slab,       \* UringReactor::states
    free,       \* vacant slots of the slab, the next one first
    sq, cq,     \* the ring
    now, timer, \* the clock and the deadline each task sleeps to, 0 for none
    alarm,      \* deadlines of the timeouts the kernel holds
    other,      \* the wake in progress on another thread
    events,     \* history: events set
    cancelled,  \* history: an AsyncCancel was pushed
    lost        \* history: a Nop found the submission queue full

loop == <<pc, polled, cur, remains, reap>>
ring == <<sq, cq, alarm>>
history == <<events, cancelled, lost>>
vars == <<loop, task, queue, op, slab, free, ring, now, timer, other, history>>

Slots == 0 .. MaxOps - 1
Vacant == [st |-> "vacant", op |-> 0, res |-> 0, task |-> Main]

Init ==
    /\ pc = "turn" /\ polled = 0 /\ cur = Main /\ remains = FALSE /\ reap = 0
    /\ task = [t \in Tasks |-> [at |-> "ready", op |-> 0, event |-> FALSE,
                                woken |-> TRUE, polling |-> FALSE]]
    /\ queue \in SetToSeqs(Tasks)
    /\ op = <<>>
    /\ slab = [s \in Slots |-> Vacant]
    /\ free = [k \in 1 .. MaxOps |-> k - 1]
    /\ sq = <<>> /\ cq = <<>> /\ alarm = {}
    /\ now = 0 /\ timer = [t \in Tasks |-> 0]
    /\ other = [at |-> "idle", task |-> Main]
    /\ events = 0 /\ cancelled = FALSE /\ lost = FALSE

-----------------------------------------------------------------------------
(* The kernel (external).  A completion carries the user_data of its entry:
   the slot for an operation, u64::MAX for Nop and Timeout.  AsyncCancel is
   built without one, which is 0. *)
NoSlot == -1
Operation(i, s) == [kind |-> "op", arg |-> i, slot |-> s]
Cancel(s) == [kind |-> "cancel", arg |-> 0, slot |-> s]
Nop == [kind |-> "nop", arg |-> 0, slot |-> NoSlot]
Timeout(d) == [kind |-> "timeout", arg |-> d, slot |-> NoSlot]
Cqe(user, i) == [user |-> user, op |-> i]

(* The completion queue with one more: those of no slot only end a wait, and
   several of them in a row do no more than one. *)
Post(done, c) ==
    IF c.user = NoSlot /\ pc # "reap" /\ done # <<>> /\ Last(done).user = NoSlot
    THEN done ELSE Append(done, c)

(* One entry of the submission queue taken by the kernel: a cancel marks the
   first operation in flight with that user_data. *)
Enter(k, e) ==
    LET hit == {i \in DOMAIN k.op : k.op[i].kernel = "in" /\ k.op[i].slot = e.slot}
    IN  CASE e.kind = "op" -> [k EXCEPT !.op[e.arg].kernel = "in"]
          [] e.kind = "cancel" ->
               [k EXCEPT !.op = IF hit = {} THEN @
                                ELSE [@ EXCEPT ![Min(hit)].kernel = "asked"],
                         !.cq = Post(@, Cqe(0, 0))]
          [] e.kind = "nop" -> [k EXCEPT !.cq = Post(@, Cqe(NoSlot, 0))]
          [] e.kind = "timeout" -> [k EXCEPT !.alarm = @ \cup {e.arg}]

(* Submitter::submit: all that is queued, one entry after another. *)
Entered(entries, k0) ==
    LET k[n \in 0 .. Len(entries)] == IF n = 0 THEN k0 ELSE Enter(k[n - 1], entries[n])
    IN  k[Len(entries)]

Submit(entries, done) ==
    LET k == Entered(entries, [op |-> op, cq |-> done, alarm |-> alarm])
    IN  /\ sq' = <<>>
        /\ op' = k.op /\ cq' = k.cq /\ alarm' = k.alarm

(* An operation ends by itself, or because it was asked to. *)
Complete(i) ==
    /\ op[i].kernel \in {"in", "asked"}
    /\ op' = [op EXCEPT ![i].kernel = "over"]
    /\ cq' = Post(cq, Cqe(op[i].slot, i))
    /\ UNCHANGED <<loop, task, queue, slab, free, sq, alarm, now, timer, other, history>>

FireTimeout ==
    /\ \E d \in alarm : d <= now /\ alarm' = alarm \ {d}
    /\ cq' = Post(cq, Cqe(NoSlot, 0))
    /\ UNCHANGED <<loop, task, queue, op, slab, free, sq, now, timer, other, history>>

(* The clock matters only to those who sleep. *)
TimePasses ==
    /\ now < MaxTime /\ \E t \in Tasks : timer[t] # 0
    /\ now' = now + 1
    /\ UNCHANGED <<loop, task, queue, op, slab, free, ring, timer, other, history>>

-----------------------------------------------------------------------------
(* wake_by_ref and wake_by_val: whether the task is put in the run queue. *)
Enqueues(t) == ~task[t].woken /\ ~task[t].polling /\ task[t].at # "done"

Marked(t) ==
    IF task[t].at = "done" THEN task ELSE [task EXCEPT ![t].woken = TRUE]

(* LocalScheduler::schedule on the executor's own thread: the task is queued
   and the reactor's waker pushes a Nop, if there is room, and submits. *)
WakeOwn(t, done) ==
    /\ task' = Marked(t)
    /\ IF Enqueues(t)
       THEN /\ queue' = Append(queue, t)
            /\ lost' = (lost \/ Len(sq) >= SqCap)
            /\ Submit(IF Len(sq) < SqCap THEN Append(sq, Nop) ELSE sq, done)
       ELSE /\ cq' = done
            /\ UNCHANGED <<queue, lost, op, sq, alarm>>

-----------------------------------------------------------------------------
(* Another thread sets the event a task may wait for and wakes the task:
   state word, counter, run queue, Nop and submission, one after another. *)
SetEvent(t) ==
    /\ other.at = "idle" /\ events < MaxEvents
    /\ events' = events + 1
    /\ task' = [Marked(t) EXCEPT ![t].event = TRUE]
    /\ other' = IF Enqueues(t) THEN [at |-> "count", task |-> t] ELSE other
    /\ UNCHANGED <<loop, queue, op, slab, free, ring, now, timer, cancelled, lost>>

Count ==
    /\ other.at = "count"
    /\ other' = [other EXCEPT !.at = "queue"]
    /\ UNCHANGED <<loop, task, queue, op, slab, free, ring, now, timer, history>>

Enqueue ==
    /\ other.at = "queue"
    /\ queue' = Append(queue, other.task)
    /\ other' = [other EXCEPT !.at = "nop"]
    /\ UNCHANGED <<loop, task, op, slab, free, ring, now, timer, history>>

(* Mutant: the run queue is enough. *)
PushNopSkipped ==
    /\ other.at = "nop"
    /\ other' = [other EXCEPT !.at = "idle"]
    /\ UNCHANGED <<loop, task, queue, op, slab, free, ring, now, timer, history>>

(* ExternalWaker::wake: the Nop, under the submission lock. *)
PushNop ==
    /\ other.at = "nop"
    /\ sq' = IF Len(sq) < SqCap THEN Append(sq, Nop) ELSE sq
    /\ lost' = (lost \/ Len(sq) >= SqCap)
    /\ other' = [other EXCEPT !.at = "submit"]
    /\ UNCHANGED <<loop, task, queue, op, slab, free, cq, alarm, now, timer, events, cancelled>>

SubmitNop ==
    /\ other.at = "submit"
    /\ Submit(sq, cq)
    /\ other' = [at |-> "idle", task |-> Main]
    /\ UNCHANGED <<loop, task, queue, slab, free, now, timer, history>>

OtherThread == Count \/ Enqueue \/ PushNop \/ SubmitNop
-----------------------------------------------------------------------------
(* timer.try_turn: the sleeper of a deadline that has passed is woken. *)
Armed == {t \in Tasks : timer[t] # 0}
Due == {t \in Armed : timer[t] <= now}

Expire(t) ==
    /\ t \in Due
    /\ timer' = [timer EXCEPT ![t] = 0]
    /\ WakeOwn(t, cq)
    /\ UNCHANGED <<slab, free, now, other, events, cancelled>>

Turn ==
    /\ pc = "turn" \/ (pc = "asleep" /\ cq # <<>>)
    /\ \/ /\ \E t \in Tasks : Expire(t)
          /\ pc' = "turn"
          /\ UNCHANGED <<polled, cur, remains, reap>>
       \/ /\ Due = {}
          /\ pc' = "process"
          /\ UNCHANGED <<polled, cur, remains, reap, task, queue, op, slab, free, ring,
                         now, timer, other, history>>

(* process_io: what is queued is submitted, then what is completed by now is
   gone through. *)
Process ==
    /\ pc = "process"
    /\ Submit(sq, cq)
    /\ reap' = Len(cq')
    /\ pc' = IF cq' = <<>> THEN "tick" ELSE "reap"
    /\ UNCHANGED <<polled, cur, remains, task, queue, slab, free, now, timer, other, history>>

StateOf(user) == IF user \in Slots THEN slab[user].st ELSE "vacant"

(* A completion for no slot is skipped. *)
ReapSkipped ==
    /\ StateOf(Head(cq).user) = "vacant"
    /\ cq' = Tail(cq)
    /\ UNCHANGED <<task, queue, op, slab, free, sq, alarm, lost>>

(* One for a slot that is waited for: the result is kept and the task woken.
   The Nop of that wake is not among the completions found. *)
ReapWaiting ==
    /\ StateOf(Head(cq).user) = "waiting"
    /\ slab' = [slab EXCEPT ![Head(cq).user] = [@ EXCEPT !.st = "done", !.res = Head(cq).op]]
    /\ WakeOwn(slab[Head(cq).user].task, Tail(cq))
    /\ UNCHANGED free

(* One more for a slot that is completed replaces the first. *)
ReapAgain ==
    /\ StateOf(Head(cq).user) = "done"
    /\ slab' = [slab EXCEPT ![Head(cq).user].res = Head(cq).op]
    /\ cq' = Tail(cq)
    /\ UNCHANGED <<task, queue, op, sq, alarm, free, lost>>

Release(s) ==
    /\ slab' = [slab EXCEPT ![s] = Vacant]
    /\ free' = <<s>> \o free

(* One for a slot whose operation was dropped frees the slot and the buffer. *)
ReapIgnored ==
    /\ StateOf(Head(cq).user) = "ignored"
    /\ Release(Head(cq).user)
    /\ op' = [op EXCEPT ![slab[Head(cq).user].op].buf = "out"]
    /\ cq' = Tail(cq)
    /\ UNCHANGED <<task, queue, sq, alarm, lost>>

Reap ==
    /\ pc = "reap"
    /\ reap' = reap - 1
    /\ pc' = IF reap = 1 THEN "tick" ELSE "reap"
    /\ ReapSkipped \/ ReapWaiting \/ ReapAgain \/ ReapIgnored
    /\ UNCHANGED <<polled, cur, remains, now, timer, other, events, cancelled>>

-----------------------------------------------------------------------------
(* tick_n: the next task of the run queue; start_poll takes its wake. *)
StartPoll ==
    /\ pc = "tick" /\ polled < TickSize /\ queue # <<>>
    /\ cur' = Head(queue) /\ queue' = Tail(queue)
    /\ polled' = polled + 1
    /\ task' = [task EXCEPT ![Head(queue)].polling = TRUE, ![Head(queue)].woken = FALSE]
    /\ pc' = "poll"
    /\ UNCHANGED <<remains, reap, op, slab, free, ring, now, timer, other, history>>

(* Nothing to poll, or enough for this tick. *)
TickOver ==
    /\ pc = "tick" /\ (polled = TickSize \/ queue = <<>>)
    /\ pc' = "ticked" /\ polled' = 0
    /\ UNCHANGED <<cur, remains, reap, task, queue, op, slab, free, ring,
                   now, timer, other, history>>

(* has_remaining, by a counter that goes up before a task is in the queue, and
   the poll of the main task's handle. *)
HasRemaining ==
    /\ pc = "ticked" /\ task[Main].at # "done"
    /\ remains' = (queue # <<>> \/ other.at = "queue")
    /\ pc' = "look"
    /\ UNCHANGED <<polled, cur, reap, task, queue, op, slab, free, ring,
                   now, timer, other, history>>

Polls(at) == pc = "poll" /\ task[cur].at = at

(* Completion::run: a slot is taken and the entry queued; the first poll
   leaves the task's waker in the slot.  With the queue full the operation
   fails and the task goes on. *)
SubmitOp ==
    /\ Polls("ready") /\ Len(op) < MaxOps /\ Len(sq) < SqCap
    /\ LET i == Len(op) + 1
           s == Head(free)
       IN  /\ op' = Append(op, [slot |-> s, buf |-> "task", kernel |-> "queued"])
           /\ sq' = Append(sq, Operation(i, s))
           /\ slab' = [slab EXCEPT ![s] = [st |-> "waiting", op |-> i, res |-> 0, task |-> cur]]
           /\ task' = [task EXCEPT ![cur].at = "io", ![cur].op = i]
    /\ free' = Tail(free)
    /\ pc' = "end"
    /\ UNCHANGED <<polled, cur, remains, reap, queue, cq, alarm, now, timer, other, history>>

SlotOf(t) == op[task[t].op].slot

(* poll_completion, completed: the slot is vacated and the buffer goes back to
   the caller with the result. *)
TakeResult ==
    /\ Polls("io") /\ slab[SlotOf(cur)].st = "done"
    /\ Release(SlotOf(cur))
    /\ op' = [op EXCEPT ![task[cur].op].buf = "out"]
    /\ task' = [task EXCEPT ![cur].at = "ready", ![cur].op = 0]
    /\ UNCHANGED <<loop, queue, ring, now, timer, other, history>>

(* Mutant: the slot is given up with the operation, the buffer leaked. *)
DropOpForgotten ==
    /\ Polls("io") /\ task[cur].event
    /\ Release(SlotOf(cur))
    /\ op' = [op EXCEPT ![task[cur].op].buf = "slab"]
    /\ task' = [task EXCEPT ![cur].at = "ready", ![cur].op = 0, ![cur].event = FALSE]
    /\ UNCHANGED <<loop, queue, ring, now, timer, other, history>>

(* drop_completion, when the event is first: the slot keeps what into_buf
   returns; unless the operation is completed it is cancelled, if there is room
   for that.  Open and SendTo return less than their entry points to: the path,
   or the header, the slice and the address, are freed here. *)
DropOp ==
    /\ Polls("io") /\ task[cur].event
    /\ LET s == SlotOf(cur)
           cancels == slab[s].st = "waiting" /\ Len(sq) < SqCap
       IN  /\ slab' = [slab EXCEPT ![s].st = "ignored"]
           /\ sq' = IF cancels THEN Append(sq, Cancel(s)) ELSE sq
           /\ cancelled' = (cancelled \/ cancels)
    /\ \E memory \in {"slab", "freed"} : op' = [op EXCEPT ![task[cur].op].buf = memory]
    /\ task' = [task EXCEPT ![cur].at = "ready", ![cur].op = 0, ![cur].event = FALSE]
    /\ UNCHANGED <<loop, queue, free, cq, alarm, now, timer, other, events, lost>>

(* A buffer of more words than a Ptr8 holds is freed, and that is all: nothing
   is cancelled, and the slot stays as it is, for good. *)
DropLarge ==
    /\ Polls("io") /\ task[cur].event
    /\ op' = [op EXCEPT ![task[cur].op].buf = "freed"]
    /\ task' = [task EXCEPT ![cur].at = "ready", ![cur].op = 0, ![cur].event = FALSE]
    /\ UNCHANGED <<loop, queue, slab, free, ring, now, timer, other, history>>

(* The task awaits an event that has not come, or a deadline. *)
Await ==
    /\ Polls("ready")
    /\ \/ /\ ~task[cur].event
          /\ task' = [task EXCEPT ![cur].at = "event"]
          /\ UNCHANGED timer
       \/ /\ cur \in Sleepers /\ now < MaxTime
          /\ task' = [task EXCEPT ![cur].at = "sleep"]
          /\ timer' = [timer EXCEPT ![cur] = now + 1]
    /\ pc' = "end"
    /\ UNCHANGED <<polled, cur, remains, reap, queue, op, slab, free, ring, now, other, history>>

(* What it awaited has come. *)
Arrived ==
    /\ \/ /\ Polls("event") \/ Polls("ready")
          /\ task[cur].event
          /\ task' = [task EXCEPT ![cur].at = "ready", ![cur].event = FALSE]
       \/ /\ Polls("sleep") /\ timer[cur] = 0
          /\ task' = [task EXCEPT ![cur].at = "ready"]
    /\ UNCHANGED <<loop, queue, op, slab, free, ring, now, timer, other, history>>

(* Nothing has come: the future is pending. *)
Pending ==
    /\ \/ Polls("io") /\ slab[SlotOf(cur)].st = "waiting" /\ ~task[cur].event
       \/ Polls("event") /\ ~task[cur].event
       \/ Polls("sleep") /\ timer[cur] # 0
    /\ pc' = "end"
    /\ UNCHANGED <<polled, cur, remains, reap, task, queue, op, slab, free, ring,
                   now, timer, other, history>>

Finish ==
    /\ Polls("ready")
    /\ task' = [task EXCEPT ![cur].at = "done"]
    /\ pc' = "end"
    /\ UNCHANGED <<polled, cur, remains, reap, queue, op, slab, free, ring,
                   now, timer, other, history>>

(* end_poll: a task woken during its poll is queued again. *)
EndPoll ==
    /\ pc = "end"
    /\ task' = [task EXCEPT ![cur].polling = FALSE]
    /\ queue' = IF task[cur].woken /\ task[cur].at # "done" THEN Append(queue, cur) ELSE queue
    /\ pc' = "tick" /\ cur' = Main
    /\ UNCHANGED <<polled, remains, reap, op, slab, free, ring,
                   now, timer, other, history>>

-----------------------------------------------------------------------------
(* The end of run(): queued tasks are dropped, the states drained and dropped
   with every buffer they keep, and then the ring. *)
End ==
    /\ pc = "ticked" /\ task[Main].at = "done"
    /\ pc' = "ended"
    /\ op' = [i \in DOMAIN op |-> [op[i] EXCEPT !.buf = "out"]]
    /\ slab' = [s \in Slots |-> Vacant] /\ queue' = <<>>
    /\ UNCHANGED <<polled, cur, remains, reap, task, free, ring, now, timer, other, history>>

(* The second turn; if it expired a timer the loop does not sleep. *)
Look ==
    /\ pc = "look"
    /\ \/ /\ \E t \in Tasks : Expire(t)
          /\ remains' = TRUE
          /\ UNCHANGED <<pc, polled, cur, reap>>
       \/ /\ Due = {}
          /\ pc' = IF remains THEN "turn" ELSE IF Armed = {} THEN "wait" ELSE "arm"
          /\ remains' = FALSE
          /\ UNCHANGED <<polled, cur, reap, task, queue, op, slab, free, ring,
                         now, timer, other, history>>

(* Mutant: the deadline is left to whatever completes next. *)
ArmNothing ==
    /\ pc = "arm"
    /\ pc' = "wait"
    /\ UNCHANGED <<polled, cur, remains, reap, task, queue, op, slab, free, ring,
                   now, timer, other, history>>

(* wait_for_io with a deadline: a Timeout is pushed and submitted; with the
   queue full run() fails, and its caller unwraps that. *)
Arm ==
    /\ pc = "arm"
    /\ IF Len(sq) < SqCap
       THEN /\ Submit(Append(sq, Timeout(Min({timer[t] : t \in Armed}))), cq)
            /\ pc' = "wait"
       ELSE /\ pc' = "panic"
            /\ UNCHANGED <<op, ring>>
    /\ UNCHANGED <<polled, cur, remains, reap, task, queue, slab, free, now, timer, other, history>>

(* submit_and_wait(1): until there is a completion. *)
Wait ==
    /\ pc = "wait"
    /\ Submit(sq, cq)
    /\ pc' = "asleep"
    /\ UNCHANGED <<polled, cur, remains, reap, task, queue, slab, free, now, timer, other, history>>

-----------------------------------------------------------------------------
Over == pc \in {"ended", "panic"}

Run ==
    \/ Turn \/ Process \/ Reap
    \/ StartPoll \/ TickOver \/ HasRemaining
    \/ SubmitOp \/ TakeResult \/ DropOp \/ DropLarge \/ Await \/ Arrived \/ Pending \/ Finish \/ EndPoll
    \/ End \/ Look \/ Arm \/ Wait

Next ==
    \/ Run
    \/ ~Over /\ ((\E t \in Tasks : SetEvent(t)) \/ OtherThread)
    \/ ~Over /\ ((\E i \in DOMAIN op : Complete(i)) \/ FireTimeout \/ TimePasses)

Spec == Init /\ [][Next]_vars

(* Both threads are scheduled, time passes, and the kernel fires the timeouts
   it holds.  Nothing is assumed of the operations: one may never complete. *)
FairSpec ==
    /\ Spec
    /\ WF_vars(Run) /\ WF_vars(~Over /\ OtherThread)
    /\ WF_vars(~Over /\ FireTimeout) /\ WF_vars(~Over /\ TimePasses)

-----------------------------------------------------------------------------
(* Operations do not get into each other's way, however they are dropped and
   slots reused: a completion is kept for the operation it belongs to, and what
   the kernel holds keeps its slot, and no buffer of it was given back to a task
   or freed on a completion.  (What DropOp and DropLarge free themselves is freed
   under the kernel.)  Until run() ends, and not in slot 0 once an operation was
   cancelled: the completion of an AsyncCancel carries that number. *)
OpsIsolated ==
    ~Over =>
        /\ \A s \in Slots :
              (s # 0 \/ ~cancelled) /\ slab[s].st = "done" => slab[s].res = slab[s].op
        /\ \A i \in DOMAIN op :
              (op[i].slot # 0 \/ ~cancelled) /\ op[i].kernel # "over" =>
                  /\ slab[op[i].slot].st # "vacant" /\ slab[op[i].slot].op = i
                  /\ op[i].buf # "out"

(* A task that is woken, by whatever thread and at whatever point of the loop,
   is polled: the executor does not sleep on it.  Unless the Nop that was to
   wake the executor found the submission queue full. *)
WokenPolled ==
    \A t \in Tasks : task[t].woken ~> (~task[t].woken \/ task[t].at = "done" \/ Over \/ lost)

(* Nobody waits in vain: the task of an operation that has completed gets the
   result, or has dropped the operation, and a sleeping task is woken although
   nothing else happens on its executor. *)
WaitsEnd ==
    /\ \A i \in 1 .. MaxOps :
          LET Unseen == i \in DOMAIN op /\ op[i].kernel = "over" /\ op[i].buf = "task"
          IN  Unseen ~> (~Unseen \/ Over)
    /\ \A t \in Sleepers : timer[t] # 0 ~> (timer[t] = 0 \/ Over)

-----------------------------------------------------------------------------
(* take_completion_op_code: "Since we have completed the operation, we can now
   move that buffer safely." *)
MovedWhenOver ==
    ~Over => \A i \in DOMAIN op : op[i].buf = "out" => op[i].kernel = "over"

(* ExternalWaker: "Typically this will wake the currently sleeping reactor". *)
AlwaysWoken ==
    \A t \in Tasks : task[t].woken ~> (~task[t].woken \/ task[t].at = "done" \/ Over)
=============================================================================

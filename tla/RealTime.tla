------------------------------- MODULE RealTime -------------------------------
(***************************************************************************)
(* A real-time stream: handle_real_time_stream of libs/db/src/lib.rs and   *)
(* the handle_real_time_component task it spawns for every component.      *)
(* Both run on the executor of one connection and follow what other        *)
(* threads do through bare waits: wait() looks at nothing before it sleeps *)
(* and notices the wake_alls that come after it was called (module         *)
(* WaitQueue), so what happens between two waits is noticed only with the  *)
(* next wake_all.                                                          *)
(***************************************************************************)
EXTENDS Integers, FiniteSets

CONSTANTS
    Components,
    MaxSamples,  \* bound on the samples of a component
    MaxTables    \* bound on the other times vtable_gen is raised

ASSUME RealTimeAssumption == {MaxSamples, MaxTables} \subseteq Nat

VARIABLES
    inserted,  \* State::components
    latest,    \* samples in every time series
    waking,    \* the persist task has stored a sample and not yet woken
    stream,    \* handle_real_time_stream: visiting, between, or in vtable_gen.wait
    visited,   \* visited_ids
    task,      \* where the task of every component is
    packet,    \* the sample it sends
    sent,      \* the sample it sent last
    open,      \* whether the client is there
    tables,    \* how often it was raised for a component that was there
    unseen,    \* history: inserted while the stream was not waiting
    unsent,    \* history: the latest sample was stored while the task was not waiting
    failed     \* history: the send of the sample the task looked at last failed

series == <<inserted, latest, waking>>
tasks == <<stream, visited, task, packet, sent, open>>
history == <<unseen, unsent, failed>>
vars == <<series, tasks, tables, history>>

Init ==
    /\ inserted = {} /\ latest = [c \in Components |-> 0] /\ waking = {}
    /\ stream = "visit" /\ visited = {}
    /\ task = [c \in Components |-> "none"]
    /\ packet = [c \in Components |-> 0] /\ sent = [c \in Components |-> 0]
    /\ open = TRUE /\ tables = 0
    /\ unseen = {} /\ unsent = {} /\ failed = {}

-----------------------------------------------------------------------------
(* vtable_gen.fetch_add wakes the stream, if it waits. *)
Bumped == IF stream = "wait" THEN "visit" ELSE stream

(* Mutant: only the first sample of a component raises vtable_gen. *)
InsertSilent(c) ==
    /\ c \notin inserted
    /\ inserted' = inserted \cup {c}
    /\ unseen' = IF stream = "between" THEN unseen \cup {c} ELSE unseen
    /\ UNCHANGED <<latest, waking, stream, visited, task, packet, sent, open, tables, unsent, failed>>

(* insert_vtable on another connection, for a component that is new: both
   under the lock that the visit takes. *)
Insert(c) ==
    /\ c \notin inserted
    /\ inserted' = inserted \cup {c}
    /\ stream' = Bumped
    /\ unseen' = IF stream = "between" THEN unseen \cup {c} ELSE unseen
    /\ UNCHANGED <<latest, waking, visited, task, packet, sent, open, tables, unsent, failed>>

(* A table for a series that is still empty, or another vtable with the
   component, raises vtable_gen again. *)
Bump(c) ==
    /\ c \in inserted /\ tables < MaxTables
    /\ tables' = tables + 1
    /\ stream' = Bumped
    /\ UNCHANGED <<series, visited, task, packet, sent, open, history>>

(* The persist task stores a sample: the index, then data_waker.wake_all. *)
Store(c) ==
    /\ c \in inserted \ waking /\ latest[c] < MaxSamples
    /\ latest' = [latest EXCEPT ![c] = @ + 1]
    /\ waking' = waking \cup {c}
    /\ UNCHANGED <<inserted, tasks, tables, history>>

(* Mutant: wake in place of wake_all, and another stream of the component was
   there first. *)
StoreWakesOther(c) ==
    /\ c \in waking
    /\ waking' = waking \ {c}
    /\ UNCHANGED <<inserted, latest, tasks, tables, history>>

(* A wake_all is of no use to a task that has looked at latest() and not called
   wait() yet. *)
StoreWakes(c) ==
    /\ c \in waking
    /\ waking' = waking \ {c}
    /\ task' = [task EXCEPT ![c] = IF @ = "wait" THEN "woken" ELSE @]
    /\ unsent' = IF task[c] \in {"none", "announce", "sending"} /\ packet[c] < latest[c]
                 THEN unsent \cup {c} ELSE unsent \ {c}
    /\ UNCHANGED <<inserted, latest, stream, visited, packet, sent, open, tables, unseen, failed>>

-----------------------------------------------------------------------------
(* The visit, under the read lock, spawns a task for every component that has
   none. *)
Visit ==
    /\ stream = "visit" /\ open
    /\ visited' = visited \cup inserted
    /\ task' = [c \in Components |-> IF c \in inserted \ visited THEN "announce" ELSE task[c]]
    /\ unseen' = unseen \ inserted
    /\ stream' = "between"
    /\ UNCHANGED <<series, packet, sent, open, tables, unsent, failed>>

(* vtable_gen.wait() *)
WaitGeneration ==
    /\ stream = "between" /\ open
    /\ stream' = "wait"
    /\ UNCHANGED <<series, visited, task, packet, sent, open, tables, history>>

(* The vtable of the component is sent; then waiter.wait(). *)
Announce(c) ==
    /\ task[c] = "announce" /\ open
    /\ task' = [task EXCEPT ![c] = "wait"]
    /\ UNCHANGED <<series, stream, visited, packet, sent, open, tables, history>>

(* Any error of that send, a closed stream or not, returns from the task.  The
   component stays in visited_ids, so that no other task is spawned for it. *)
AnnounceFails(c) ==
    /\ task[c] = "announce"
    /\ task' = [task EXCEPT ![c] = "ended"]
    /\ UNCHANGED <<series, stream, visited, packet, sent, open, tables, history>>

(* time_series.latest().  (A head node that is linked and still empty sends the
   task back to wait(), and the sample it was linked for wakes it.) *)
Latest(c) ==
    /\ task[c] = "woken"
    /\ packet' = [packet EXCEPT ![c] = latest[c]]
    /\ task' = [task EXCEPT ![c] = "sending"]
    /\ failed' = failed \ {c}
    /\ UNCHANGED <<series, stream, visited, sent, open, tables, unseen, unsent>>

(* The table is sent; then waiter.wait() again. *)
Send(c) ==
    /\ task[c] = "sending" /\ open
    /\ sent' = [sent EXCEPT ![c] = packet[c]]
    /\ task' = [task EXCEPT ![c] = "wait"]
    /\ UNCHANGED <<series, stream, visited, packet, open, tables, history>>

(* The send fails, and not with an error that is_stream_closed knows (a datagram
   that is refused, a full queue): the table is cleared and the task waits for
   the next sample. *)
SendFails(c) ==
    /\ task[c] = "sending"
    /\ task' = [task EXCEPT ![c] = "wait"]
    /\ failed' = failed \cup {c}
    /\ UNCHANGED <<series, stream, visited, packet, sent, open, tables, unseen, unsent>>

(* The send finds the stream closed: the task returns. *)
SendClosed(c) ==
    /\ task[c] = "sending" /\ ~open
    /\ task' = [task EXCEPT ![c] = "ended"]
    /\ UNCHANGED <<series, stream, visited, packet, sent, open, tables, history>>

(* The client is gone: every send fails from now on. *)
Close ==
    /\ open
    /\ open' = FALSE
    /\ UNCHANGED <<series, stream, visited, task, packet, sent, tables, history>>

-----------------------------------------------------------------------------
Step(c) ==
    \/ Announce(c) \/ AnnounceFails(c)
    \/ Latest(c) \/ Send(c) \/ SendFails(c) \/ SendClosed(c)

Next ==
    \/ \E c \in Components : Insert(c) \/ Bump(c) \/ Store(c) \/ StoreWakes(c) \/ Step(c)
    \/ Visit \/ WaitGeneration \/ Close

Spec == Init /\ [][Next]_vars

(* The executor polls what is woken, the client reads or is gone, and the
   persist tasks of the components run on. *)
FairSpec ==
    /\ Spec
    /\ WF_vars(Visit \/ WaitGeneration)
    /\ \A c \in Components : WF_vars(Step(c)) /\ WF_vars(StoreWakes(c))

-----------------------------------------------------------------------------
(* Every component gets its task, unless it was inserted between a visit and the
   wait that follows it and nothing has raised vtable_gen since. *)
AllFollowed == []<>(~open \/ inserted \subseteq visited \cup unseen)

(* The client is sent the newest sample of every component, unless that sample
   was stored while the task had no wait or its own send failed: the last sample
   of a burst, or one that was not delivered, is made good only by the next one.
   A component whose vtable could not be sent is never followed. *)
NewestSent ==
    []<>(~open \/ \A c \in visited :
                     \/ sent[c] = latest[c]
                     \/ c \in unsent
                     \/ c \in failed /\ packet[c] = latest[c]
                     \/ task[c] = "ended" /\ packet[c] = 0)
=============================================================================

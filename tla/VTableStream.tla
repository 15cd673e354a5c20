----------------------------- MODULE VTableStream -----------------------------
(***************************************************************************)
(* A stream of tables: libs/db/src/vtable_stream.rs.  One task per field   *)
(* (handle_plan) reads the WAL of its component, averages if its plan says *)
(* so, and writes its part of one shared table; the sender                 *)
(* (handle_vtable_stream) takes the table once all parts are filled, sends *)
(* it and gives it back.  All of them run on the executor of one           *)
(* connection, so they interleave only where they await; the components'   *)
(* writers are other threads.                                              *)
(*                                                                         *)
(* Samples of a component are numbered.  The value of a field is the set   *)
(* of the samples it was made from.                                        *)
(***************************************************************************)
EXTENDS Integers, Sequences, FiniteSets, FiniteSetsExt

CONSTANTS
    FieldCount,  \* fields of the vtable
    Mean,        \* the fields whose plan has a MeanStage
    Window,      \* its window
    RingCap,     \* samples that fit a WAL
    MaxSamples   \* bound on the samples of a component

Fields == 1 .. FieldCount

ASSUME VTableStreamAssumption ==
    /\ FieldCount \in Nat \ {0} /\ Mean \subseteq Fields
    /\ {Window, RingCap} \subseteq Nat \ {0}
    /\ MaxSamples \in Nat

VARIABLES
    produced,  \* samples pushed to every component so far
    ring,      \* samples in the WAL that the field's reader has not read
    pc,        \* every field task: none, reading, waiting to write, or dropped
    acc,       \* MeanStage: the samples accumulated
    filled,    \* filled_fields
    table,     \* FieldTableInner::table, or Taken
    sender,    \* where handle_vtable_stream is
    packet,    \* the table it sends
    hosted,    \* whether the executor of the connection runs
    used,      \* history: the newest sample of every field in a table sent
    refused    \* history: components that skipped a sample

stores == <<filled, table, packet>>
history == <<used, refused>>
vars == <<produced, ring, pc, acc, stores, sender, hosted, history>>

Taken == <<>>
Blank == [f \in Fields |-> {}]

Init ==
    /\ produced = [f \in Fields |-> 0] /\ ring = [f \in Fields |-> <<>>]
    /\ pc = [f \in Fields |-> "none"] /\ acc = Blank
    /\ filled = [f \in Fields |-> FALSE] /\ table = Blank /\ packet = Taken
    /\ sender = "setup" /\ hosted = TRUE
    /\ used = [f \in Fields |-> 0] /\ refused = {}

-----------------------------------------------------------------------------
(* handle_vtable_stream spawns one task after the other, without an await; a
   field without component or of another schema ends it there. *)
Setup ==
    /\ sender = "setup"
    /\ \E k \in 0 .. FieldCount :
        /\ pc' = [f \in Fields |-> IF f <= k THEN "read" ELSE "none"]
        /\ sender' = IF k = FieldCount THEN "announce" ELSE "ended"
    /\ UNCHANGED <<produced, ring, acc, stores, hosted, history>>

(* The vtable is sent first. *)
Announce ==
    /\ sender = "announce"
    /\ sender' = "ready"
    /\ UNCHANGED <<produced, ring, pc, acc, stores, hosted, history>>

(* The client is gone: a send fails and the task ends, with what it holds. *)
SendFails ==
    /\ sender \in {"announce", "sending"}
    /\ sender' = "ended"
    /\ UNCHANGED <<produced, ring, pc, acc, stores, hosted, history>>

HasReader(f) == pc[f] \in {"read", "wait"}

(* Component::push_buf on another thread: a full ring skips the sample.  The
   task that sleeps in reader.next() is woken; without its executor that
   drops it, and its reader. *)
Push(f) ==
    /\ produced[f] < MaxSamples
    /\ produced' = [produced EXCEPT ![f] = @ + 1]
    /\ \/ /\ HasReader(f) /\ Len(ring[f]) < RingCap
          /\ ring' = [ring EXCEPT ![f] = Append(@, produced'[f])]
          /\ pc' = [pc EXCEPT ![f] = IF hosted \/ @ = "wait" THEN @ ELSE "dropped"]
          /\ UNCHANGED refused
       \/ /\ HasReader(f) /\ Len(ring[f]) = RingCap
          /\ refused' = refused \cup {f}
          /\ UNCHANGED <<ring, pc>>
       \/ /\ ~HasReader(f)
          /\ UNCHANGED <<ring, pc, refused>>
    /\ UNCHANGED <<acc, stores, sender, hosted, used>>

-----------------------------------------------------------------------------
(* handle_plan: wait_writeable returns once the bit is clear. *)
Writeable(f) ==
    /\ hosted /\ pc[f] = "wait"
    /\ ~filled[f]
    /\ pc' = [pc EXCEPT ![f] = "read"]
    /\ UNCHANGED <<produced, ring, acc, stores, sender, hosted, history>>

(* RealTimeStage::next: the first record of the grant; the rest is dropped. *)
FirstOf(f) == ring[f][1]

(* MeanStage::next adds it up, and is finished once the window is full. *)
Summed(f) == acc[f] \cup {FirstOf(f)}
Finished(f) == f \in Mean => Cardinality(Summed(f)) >= Window

(* with_buf: what the stages leave in the table. *)
Written(f) == IF f \in Mean /\ Finished(f) THEN Summed(f) ELSE {FirstOf(f)}

(* One round of handle_plan, from reader.next() to the next await; when every
   stage is finished, set_written.  There is no table to write to while the
   sender has it: with_buf would panic. *)
Fill(f) ==
    /\ hosted /\ pc[f] = "read" /\ ring[f] # <<>>
    /\ ring' = [ring EXCEPT ![f] = <<>>]
    /\ IF table = Taken
       THEN pc' = [pc EXCEPT ![f] = "panic"] /\ UNCHANGED <<acc, filled, table>>
       ELSE /\ acc' = [acc EXCEPT ![f] = IF Finished(f) THEN {} ELSE Summed(f)]
            /\ table' = [table EXCEPT ![f] = Written(f)]
            /\ filled' = [filled EXCEPT ![f] = Finished(f)]
            /\ pc' = [pc EXCEPT ![f] = IF Finished(f) THEN "wait" ELSE "read"]
    /\ UNCHANGED <<produced, packet, sender, hosted, history>>

-----------------------------------------------------------------------------
(* Mutant: the fields are never all there. *)
NeverSet == FALSE

(* AtomicBitVec::all_set *)
AllSet == \A f \in Fields : filled[f]

(* Mutant: the writers are let in as soon as the table is taken. *)
TakeNotifies ==
    /\ hosted /\ sender = "ready"
    /\ AllSet
    /\ packet' = table /\ table' = Taken
    /\ filled' = [f \in Fields |-> FALSE]
    /\ sender' = "sending"
    /\ UNCHANGED <<produced, ring, pc, acc, hosted, history>>

(* wait_ready and take. *)
Take ==
    /\ hosted /\ sender = "ready"
    /\ AllSet
    /\ packet' = table /\ table' = Taken
    /\ sender' = "sending"
    /\ UNCHANGED <<produced, ring, pc, acc, filled, hosted, history>>

Newest == [f \in Fields |-> Max({used[f]} \cup packet[f])]

(* Mutant: the bits are not cleared. *)
SentKeepsBits ==
    /\ hosted /\ sender = "sending"
    /\ table' = packet /\ packet' = Taken
    /\ sender' = "ready"
    /\ used' = Newest
    /\ UNCHANGED <<produced, ring, pc, acc, filled, hosted, refused>>

(* The table is sent: replace_pkt and notify_writers. *)
Sent ==
    /\ hosted /\ sender = "sending"
    /\ table' = packet /\ packet' = Taken
    /\ filled' = [f \in Fields |-> FALSE]
    /\ sender' = "ready"
    /\ used' = Newest
    /\ UNCHANGED <<produced, ring, pc, acc, hosted, refused>>

(* The connection ends and its executor with it: tasks in its run queue are
   dropped, tasks that sleep stay until something wakes them. *)
HostEnds ==
    /\ hosted /\ sender # "setup"
    /\ hosted' = FALSE /\ sender' = "ended"
    /\ pc' = [f \in Fields |->
                 IF \/ pc[f] = "read" /\ ring[f] # <<>>
                    \/ pc[f] = "wait" /\ ~filled[f]
                 THEN "dropped" ELSE pc[f]]
    /\ UNCHANGED <<produced, ring, acc, stores, history>>

-----------------------------------------------------------------------------
FieldStep(f) == Writeable(f) \/ Fill(f)
SenderStep == Setup \/ Announce \/ Take \/ Sent

Next ==
    \/ \E f \in Fields : Push(f) \/ FieldStep(f)
    \/ SenderStep \/ SendFails \/ HostEnds

Spec == Init /\ [][Next]_vars

(* The executor polls every task that is woken, and the client reads what it
   is sent or its connection fails. *)
FairSpec ==
    /\ Spec
    /\ \A f \in Fields : WF_vars(FieldStep(f))
    /\ WF_vars(SenderStep)

-----------------------------------------------------------------------------
(* No field writes, and the sender takes, only while the table is there:
   "missing inner table" is never reached. *)
NoMissingTable ==
    /\ \A f \in Fields : pc[f] # "panic"
    /\ sender = "ready" => table # Taken

(* A table that is sent is made of new samples only: every field has a value
   from exactly as many samples as its plan asks for, all of them newer than
   those of the tables before. *)
FreshTable ==
    sender = "sending" => \A f \in Fields :
        /\ Cardinality(packet[f]) = IF f \in Mean THEN Window ELSE 1
        /\ \A s \in packet[f] : s > used[f]

(* Once every field has a sample of its own, or one to read that completes
   it, a table is sent, as long as the connection is there. *)
TableSent ==
    (sender = "ready" /\ \A f \in Fields :
        filled[f] \/ (ring[f] # <<>> /\ (f \in Mean => Cardinality(acc[f]) + 1 >= Window)))
        ~> sender \in {"sending", "ended"}

(* push_buf skips a sample when the ring is full and says "we should probably
   wait here": once the stream is over, a ring it left full is read or freed. *)
FullPasses ==
    \A f \in Fields : (Len(ring[f]) = RingCap /\ HasReader(f))
        ~> (Len(ring[f]) < RingCap \/ ~HasReader(f) \/ (hosted /\ sender # "ended"))
=============================================================================

------------------------------ MODULE ReaderList ------------------------------
(***************************************************************************)
(* The linked list of readers of libs/db/src/disruptor.rs, which module    *)
(* Disruptor treats as a set: Readers::push, the unlinking loop of         *)
(* Reader::drop, and the walk of can_write.                                *)
(*                                                                         *)
(* A reader owns one node, so a node also names the thread that pushes it  *)
(* and later unlinks it.  The head is a node without a reader.  Every load *)
(* and every exchange of a `next' pointer is a step.  Reference counts are *)
(* left out: unlinking leaks one count, so a node that was unlinked stays  *)
(* allocated and may still be walked through.                              *)
(***************************************************************************)
EXTENDS Naturals, FiniteSets

CONSTANTS
    Nodes,   \* nodes of readers
    Head,    \* Readers.0
    Null,    \* the null pointer
    MaxOps   \* pushes and drops in progress at a time

ASSUME ReaderListAssumption ==
    /\ Head \notin Nodes /\ Null \notin Nodes \cup {Head}
    /\ MaxOps \in Nat \ {0}

VARIABLES
    next,           \* ReadNode.next
    pc,             \* where the owner of a node is
    at, seen, succ, \* locals of Reader::drop: cursor, reader, new
    wcur, wmet,     \* can_write: the node in hand, the nodes it has checked
    owed,           \* history: readers registered during the whole walk
    clash           \* history: a push or a drop began during another one

drops == <<at, seen, succ>>
walk  == <<wcur, wmet, owed>>
listVars == <<next, pc, drops, walk, clash>>

(* Pushed, and not yet unlinked by its owner. *)
Registered == {n \in Nodes : pc[n] \in {"live", "find", "next", "unlink", "advance"}}

Busy == {n \in Nodes : pc[n] \in {"pushing", "find", "next", "unlink", "advance"}}

Walking == wcur # Head

ListInit ==
    /\ next = [n \in Nodes \cup {Head} |-> Null]
    /\ pc = [n \in Nodes |-> "new"]
    /\ at = [n \in Nodes |-> Head]
    /\ seen = [n \in Nodes |-> Null]
    /\ succ = [n \in Nodes |-> Null]
    /\ wcur = Head /\ wmet = {} /\ owed = {}
    /\ clash = FALSE

-----------------------------------------------------------------------------
(* A thread starts a push or a drop of its own. *)
Begin ==
    /\ Cardinality(Busy) < MaxOps
    /\ clash' = (clash \/ Busy # {})

(* Readers::push copies the head pointer into the new node ... *)
PushClone(n) ==
    /\ pc[n] = "new"
    /\ Begin
    /\ next' = [next EXCEPT ![n] = next[Head]]
    /\ pc' = [pc EXCEPT ![n] = "pushing"]
    /\ UNCHANGED <<drops, walk>>

(* Mutant: the head pointer is copied after the swap. *)
PushSwapEarly(n) ==
    /\ pc[n] = "pushing"
    /\ next' = [next EXCEPT ![Head] = n, ![n] = n]
    /\ pc' = [pc EXCEPT ![n] = "live"]
    /\ UNCHANGED <<drops, walk, clash>>

(* ... and swaps the node in, whatever the head is by then. *)
PushSwap(n) ==
    /\ pc[n] = "pushing"
    /\ next' = [next EXCEPT ![Head] = n]
    /\ pc' = [pc EXCEPT ![n] = "live"]
    /\ UNCHANGED <<drops, walk, clash>>

(* Reader::drop starts at the head. *)
DropStart(n) ==
    /\ pc[n] = "live"
    /\ Begin
    /\ at' = [at EXCEPT ![n] = Head]
    /\ pc' = [pc EXCEPT ![n] = "find"]
    /\ owed' = owed \ {n}
    /\ UNCHANGED <<next, seen, succ, wcur, wmet>>

(* The load at the top of the loop; at the end of the list a debug build
   panics and a release build returns. *)
DropLoad(n) ==
    /\ pc[n] = "find"
    /\ seen' = [seen EXCEPT ![n] = next[at[n]]]
    /\ pc' = [pc EXCEPT ![n] = IF next[at[n]] = Null THEN "detached" ELSE "next"]
    /\ UNCHANGED <<next, at, succ, walk, clash>>

DropLoadNext(n) ==
    /\ pc[n] = "next"
    /\ succ' = [succ EXCEPT ![n] = next[seen[n]]]
    /\ pc' = [pc EXCEPT ![n] = IF seen[n] = n THEN "unlink" ELSE "advance"]
    /\ UNCHANGED <<next, at, seen, walk, clash>>

(* Mutants: the exchange that stores the node itself, or the end of the list. *)
DropCasSame(n) ==
    /\ pc[n] = "unlink"
    /\ pc' = [pc EXCEPT ![n] = "gone"]
    /\ UNCHANGED <<next, drops, walk, clash>>
DropCasCut(n) ==
    /\ pc[n] = "unlink"
    /\ next' = [next EXCEPT ![at[n]] = Null]
    /\ pc' = [pc EXCEPT ![n] = "gone"]
    /\ UNCHANGED <<drops, walk, clash>>

(* The compare_exchange that unlinks the node, or another turn of the loop. *)
DropCas(n) ==
    /\ pc[n] = "unlink"
    /\ \/ /\ next[at[n]] = seen[n]
          /\ next' = [next EXCEPT ![at[n]] = succ[n]]
          /\ pc' = [pc EXCEPT ![n] = "gone"]
       \/ /\ next[at[n]] # seen[n]
          /\ pc' = [pc EXCEPT ![n] = "find"]
          /\ UNCHANGED next
    /\ UNCHANGED <<drops, walk, clash>>

(* Another node's turn: the pointer is loaded a second time to step over it. *)
DropAdvance(n) ==
    /\ pc[n] = "advance"
    /\ \/ /\ next[at[n]] = Null
          /\ pc' = [pc EXCEPT ![n] = "gone"]
          /\ UNCHANGED at
       \/ /\ next[at[n]] # Null
          /\ at' = [at EXCEPT ![n] = next[at[n]]]
          /\ pc' = [pc EXCEPT ![n] = "find"]
    /\ UNCHANGED <<next, seen, succ, walk, clash>>

-----------------------------------------------------------------------------
(* can_write, under the writer's mutex: Readers::first ... *)
WalkFirst ==
    /\ ~Walking /\ next[Head] # Null
    /\ wcur' = next[Head]
    /\ wmet' = {}
    /\ owed' = {n \in Nodes : pc[n] = "live"}
    /\ UNCHANGED <<next, pc, drops, clash>>

(* ... then each node: its next pointer is loaded, its cursor is checked. *)
WalkNext ==
    /\ Walking /\ wcur # Null
    /\ wmet' = wmet \cup {wcur}
    /\ wcur' = next[wcur]
    /\ UNCHANGED <<next, pc, drops, owed, clash>>

WalkEnd ==
    /\ wcur = Null
    /\ wcur' = Head /\ wmet' = {} /\ owed' = {}
    /\ UNCHANGED <<next, pc, drops, clash>>

-----------------------------------------------------------------------------
DropStep(n) == DropLoad(n) \/ DropLoadNext(n) \/ DropCas(n) \/ DropAdvance(n)

WalkStep == WalkFirst \/ WalkNext \/ WalkEnd

ListNext ==
    \/ \E n \in Nodes : PushClone(n) \/ PushSwap(n) \/ DropStart(n) \/ DropStep(n)
    \/ WalkStep

ListSpec == ListInit /\ [][ListNext]_listVars

(* A thread inside a push, a drop or the walk is running; nothing obliges one
   to open or close a reader. *)
ListFairness ==
    /\ \A n \in Nodes : WF_listVars(PushSwap(n)) /\ WF_listVars(DropStep(n))
    /\ WF_listVars(WalkNext)

ListFairSpec == ListSpec /\ ListFairness

-----------------------------------------------------------------------------
(* The nodes on the list: the least set closed under `next'. *)
Linked ==
    LET Closed(S) == \A n \in S \cup {Head} : next[n] \in S \cup {Null}
    IN  {n \in Nodes : \A S \in SUBSET Nodes : Closed(S) => n \in S}

(* As long as no two threads have opened or closed readers at once, the list
   holds the registered readers and no others, and the panic of the unlinking
   loop is unreachable.  A reader that is missing is overrun by writers; a
   dropped one that is back on the list has a cursor that never moves again,
   and refuses every push from then on. *)
ListIsRegistered ==
    ~clash => /\ Linked = Registered
              /\ \A n \in Nodes : pc[n] # "detached"

(* As long as no two threads have opened or closed readers at once, a reader
   registered before the walk of can_write began and still open when it ends
   has had its cursor checked, whatever was pushed and unlinked meanwhile. *)
WalkMeetsAll == ~clash /\ wcur = Null => owed \subseteq wmet

(* The unlinking loop ends, however the list changes under it and although a
   failed exchange starts it over. *)
DropsEnd == \A n \in Nodes : pc[n] = "find" ~> pc[n] \in {"gone", "detached"}

(* The walk of can_write, which holds the writers' mutex, ends: pushes and
   unlinks that overtake one another never close a cycle. *)
WalksEnd == Walking ~> wcur = Null

(* Closing a reader and checking a push both come to an end, through every
   overlap of the two with other threads' pushes and unlinks. *)
ListWorkEnds == DropsEnd /\ WalksEnd
==============================================================================

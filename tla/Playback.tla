------------------------------- MODULE Playback -------------------------------
(***************************************************************************)
(* Fixed-rate streams: FixedRateStreamState of libs/db/src/lib.rs and the  *)
(* three kinds of task that share one.  handle_fixed_stream (Tables) makes *)
(* a new state and puts it in State::streams; handle_fixed_rate_msg_stream *)
(* (Messages) and the FixedRateStage of a vtable stream (Stages) take the  *)
(* one that is there, or make it.  SetStreamState pauses, resumes, scrubs  *)
(* and sets the frequency of the state that is registered.                 *)
(*                                                                         *)
(* A task runs alone on the thread of its connection between two awaits;   *)
(* tasks of other connections interleave at every atomic access.  The      *)
(* position is counted in time steps.  The wait queue is that of module    *)
(* WaitQueue: a wake_all after the look of a wait_for ends its sleep.      *)
(***************************************************************************)
EXTENDS Integers, Sequences, FiniteSets

CONSTANTS
    Tables, Messages, Stages,  \* the tasks, by kind
    Conn,        \* the connection of every task
    Control,     \* the connection that sends SetStreamState
    Requests,    \* the SetStreamState messages it may send
    MaxTick,     \* bound on the position
    MaxSets,     \* bound on the requests
    MaxTasks     \* bound on the tasks that are started

Tasks == Tables \cup Messages \cup Stages

ASSUME PlaybackAssumption ==
    /\ DOMAIN Conn = Tasks /\ IsFiniteSet(Tasks)
    /\ {MaxTick, MaxSets, MaxTasks} \subseteq Nat
    /\ Requests \subseteq [playing : SUBSET BOOLEAN, timestamp : SUBSET (0 .. MaxTick),
                           frequency : SUBSET {0, 1}]

States == 1 .. Cardinality(Tables) + 1

(* An Option is a set of at most one value. *)
None == {}
The(option) == CHOOSE v \in option : TRUE

VARIABLES
    state,       \* every FixedRateStreamState
    streams,     \* State::streams: the one registered, or 0
    made,        \* how many were made
    of,          \* the state every task holds
    task,          \* where every task is
    seen,        \* the position it read last
    held,        \* the task that does not leave the thread of its connection
    data,        \* the Messages and Stages that have something to show
    quiet,       \* the Stages whose vtable has a field that gets no more samples
    set, req,    \* SetStreamState: the statements left, and the request
    sets,        \* requests so far
    owed         \* history: states paused on a position no task has looked at

handler == <<set, req, sets>>
supply == <<data, quiet>>
playbackVars == <<state, streams, made, of, task, seen, held, supply, handler, owed>>

NoRequest == [playing |-> None, timestamp |-> None, frequency |-> None]

PlaybackInit ==
    /\ state = [i \in States |->
                   [playing |-> TRUE, scrubbed |-> FALSE, tick |-> 0, frequency |-> 1]]
    /\ streams = 0 /\ made = 0
    /\ of = [s \in Tasks |-> 0] /\ task = [s \in Tasks |-> "none"]
    /\ seen = [s \in Tasks |-> 0]
    /\ held = [s \in Tasks |-> FALSE]
    /\ data \in {{}, Messages \cup Stages} /\ quiet = {}
    /\ set = <<>> /\ req = NoRequest /\ sets = 0
    /\ owed = {}

(* The thread of s is free for s: nothing else runs on it. *)
Runs(s) ==
    /\ \A t \in Tasks : Conn[t] = Conn[s] /\ held[t] => t = s
    /\ Conn[s] = Control => set = <<>>

-----------------------------------------------------------------------------
(* handle_stream inserts a new state, whatever is registered. *)
MakesState(s) == s \in Tables \/ streams = 0

(* The others call get_or_insert_fixed_rate_state.  Both need the lock of
   State, which SetStreamState holds. *)
Start(s) ==
    /\ task[s] = "none" /\ Runs(s) /\ set = <<>>
    /\ Cardinality({t \in Tasks : of[t] # 0}) < MaxTasks
    /\ made' = IF MakesState(s) THEN made + 1 ELSE made
    /\ streams' = IF MakesState(s) THEN made' ELSE streams
    /\ of' = [of EXCEPT ![s] = streams']
    /\ task' = [task EXCEPT ![s] = IF s \in Stages THEN "sleep_time" ELSE "check"]
    /\ UNCHANGED <<state, seen, held, supply, handler, owed>>

(* A stage looks at the condition after its sleep. *)
Checks(s) == task[s] = "check" \/ (s \in Stages /\ task[s] = "sleep")

(* Mutant: the flag of a scrub is read and left. *)
CheckKeepsFlag(s) ==
    /\ Checks(s) /\ Runs(s)
    /\ LET pass == state[of[s]].playing \/ state[of[s]].scrubbed
       IN  /\ task' = [task EXCEPT ![s] = IF pass THEN "read" ELSE "asleep"]
           /\ held' = [held EXCEPT ![s] = pass]
    /\ UNCHANGED <<state, streams, made, of, seen, supply, handler, owed>>

(* The condition of wait_for: is_playing() || is_scrubbed(), and is_scrubbed
   takes the flag. *)
Check(s) ==
    /\ Checks(s) /\ Runs(s)
    /\ LET now == state[of[s]]
           pass == now.playing \/ now.scrubbed
       IN  /\ task' = [task EXCEPT ![s] = IF pass THEN "read" ELSE "asleep"]
           /\ held' = [held EXCEPT ![s] = pass]
           /\ state' = [state EXCEPT ![of[s]].scrubbed = @ /\ now.playing]
    /\ UNCHANGED <<streams, made, of, seen, supply, handler, owed>>

(* A task reads current_timestamp and looks up what there is at that position,
   without an await. *)
Look(s, shown, then, stays) ==
    /\ task[s] = "read" /\ Runs(s)
    /\ seen' = [seen EXCEPT ![s] = IF shown THEN state[of[s]].tick ELSE 0]
    /\ task' = [task EXCEPT ![s] = then]
    /\ held' = [held EXCEPT ![s] = stays]
    /\ owed' = owed \ {of[s]}
    /\ UNCHANGED <<state, streams, made, of, supply, handler>>

(* A stream whose send fails is over. *)
Sends == {"sleep_time", "over"}

(* handle_fixed_stream sends the table whatever it finds. *)
ReadTable(s) == s \in Tables /\ \E then \in Sends : Look(s, TRUE, then, FALSE)

(* A message stream whose log is empty goes round its loop on the spot. *)
ReadMessage(s) ==
    /\ s \in Messages
    /\ \/ s \in data /\ \E then \in Sends : Look(s, TRUE, then, FALSE)
       \/ s \notin data /\ Look(s, FALSE, "check", TRUE)

(* Where a turn of handle_plan ends: with the field written, or, while the mean
   behind the stage is not complete, in the next turn. *)
TurnEnds == {"written", "sleep_time"}

(* The stage of an empty series is done with its turn at once. *)
ReadStage(s) ==
    /\ s \in Stages
    /\ \/ s \in data /\ Look(s, TRUE, "advance", FALSE)
       \/ s \notin data /\ \E end \in TurnEnds : Look(s, FALSE, end, FALSE)

(* wait_writeable: a field that is written gets its next turn when the other
   fields of the vtable are written as well and the table is sent. *)
WaitWriteable(s) ==
    /\ task[s] = "written" /\ s \notin quiet /\ Runs(s)
    /\ task' = [task EXCEPT ![s] = "sleep_time"]
    /\ UNCHANGED <<state, streams, made, of, seen, held, supply, handler, owed>>

(* sleep_time divides by the frequency, before the race of the timer against
   wait_for_change.  The panic takes the thread, and its other tasks. *)
SleepTime(s) ==
    /\ task[s] = "sleep_time" /\ Runs(s)
    /\ IF state[of[s]].frequency = 0
       THEN /\ task' = [t \in Tasks |-> IF Conn[t] = Conn[s] THEN "dead" ELSE task[t]]
            /\ held' = [t \in Tasks |-> held[t] /\ Conn[t] # Conn[s]]
       ELSE /\ task' = [task EXCEPT ![s] = "sleep"]
            /\ UNCHANGED held
    /\ UNCHANGED <<state, streams, made, of, seen, supply, handler, owed>>

(* A stream advances after its sleep, a stage as soon as it has written. *)
Advances(s) == task[s] = IF s \in Stages THEN "advance" ELSE "sleep"

(* Mutant: a store instead of the compare_exchange. *)
TryIncrementStores(s) ==
    /\ Advances(s) /\ Runs(s) /\ seen[s] < MaxTick
    /\ state' = [state EXCEPT ![of[s]].tick = seen[s] + 1]
    /\ \E end \in TurnEnds : task' = [task EXCEPT ![s] = IF s \in Stages THEN end ELSE "check"]
    /\ seen' = [seen EXCEPT ![s] = 0]
    /\ UNCHANGED <<streams, made, of, held, supply, handler, owed>>

(* The timer fired, or a wake_all: try_increment_tick.  At the bound the
   position stays. *)
TryIncrement(s) ==
    /\ Advances(s) /\ Runs(s)
    /\ state' = [state EXCEPT ![of[s]].tick =
                     IF @ = seen[s] /\ @ < MaxTick THEN @ + 1 ELSE @]
    /\ \E end \in TurnEnds : task' = [task EXCEPT ![s] = IF s \in Stages THEN end ELSE "check"]
    /\ seen' = [seen EXCEPT ![s] = 0]
    /\ UNCHANGED <<streams, made, of, held, supply, handler, owed>>

(* The first message or sample of a task arrives. *)
DataArrives(s) ==
    /\ s \in (Messages \cup Stages) \ data
    /\ data' = data \cup {s}
    /\ UNCHANGED <<state, streams, made, of, task, seen, held, quiet, handler, owed>>

(* A field beside the stage s, say of a component nobody sends, gets no sample
   any more, or the stream that sends the table is over. *)
FallsQuiet(s) ==
    /\ s \in Stages \ quiet /\ of[s] # 0
    /\ quiet' = quiet \cup {s}
    /\ UNCHANGED <<state, streams, made, of, task, seen, held, data, handler, owed>>

-----------------------------------------------------------------------------
(* Mutant: nobody is woken. *)
WakesNone(i) == task

(* wake_all of the playing_cell of state i. *)
WakeAll(i) ==
    [s \in Tasks |-> IF of[s] = i /\ task[s] = "asleep" THEN "check" ELSE task[s]]

(* The statements of the SetStreamState arm that a request reaches: set_playing,
   the three of set_timestamp, set_frequency. *)
Statements(r) ==
    (IF r.playing = None THEN <<>> ELSE <<"playing">>)
    \o (IF r.timestamp = None THEN <<>> ELSE <<"scrubbed", "tick", "wake">>)
    \o (IF r.frequency = None THEN <<>> ELSE <<"frequency">>)

(* A request for a stream that is not registered is refused. *)
SetStreamState ==
    /\ set = <<>> /\ sets < MaxSets /\ streams # 0
    /\ \A t \in Tasks : Conn[t] = Control => ~held[t] /\ task[t] # "dead"
    /\ req' \in Requests
    /\ set' = Statements(req')
    /\ sets' = sets + 1
    /\ UNCHANGED <<state, streams, made, of, task, seen, held, supply, owed>>

At(statement) ==
    /\ set # <<>> /\ Head(set) = statement
    /\ set' = Tail(set)
    /\ req' = IF Tail(set) = <<>> THEN NoRequest ELSE req
    /\ UNCHANGED <<streams, made, of, seen, held, supply, sets>>

(* The store and the wake_all of PlayingCell::set_playing. *)
SetPlaying ==
    /\ At("playing")
    /\ state' = [state EXCEPT ![streams].playing = The(req.playing)]
    /\ task' = WakeAll(streams)
    /\ owed' = owed \ {streams}

(* set_timestamp stores the flag first. *)
SetScrubbed ==
    /\ At("scrubbed")
    /\ state' = [state EXCEPT ![streams].scrubbed = TRUE]
    /\ UNCHANGED <<task, owed>>

SetTick ==
    /\ At("tick")
    /\ state' = [state EXCEPT ![streams].tick = The(req.timestamp)]
    /\ owed' = IF state[streams].scrubbed /\ ~state[streams].playing
               THEN owed \cup {streams} ELSE owed
    /\ UNCHANGED task

(* Mutant: set_timestamp leaves the sleepers asleep. *)
WakeScrubbedNone ==
    /\ At("wake")
    /\ UNCHANGED <<state, task, owed>>

WakeScrubbed ==
    /\ At("wake")
    /\ task' = WakeAll(streams)
    /\ UNCHANGED <<state, owed>>

SetFrequency ==
    /\ At("frequency")
    /\ state' = [state EXCEPT ![streams].frequency = The(req.frequency)]
    /\ UNCHANGED <<task, owed>>

-----------------------------------------------------------------------------
Step(s) ==
    \/ Check(s) \/ ReadTable(s) \/ ReadMessage(s) \/ ReadStage(s)
    \/ WaitWriteable(s) \/ SleepTime(s) \/ TryIncrement(s)
Handle == SetPlaying \/ SetScrubbed \/ SetTick \/ WakeScrubbed \/ SetFrequency

PlaybackNext ==
    \/ \E s \in Tasks : Start(s) \/ Step(s) \/ DataArrives(s) \/ FallsQuiet(s)
    \/ SetStreamState \/ Handle

PlaybackSpec == PlaybackInit /\ [][PlaybackNext]_playbackVars

(* The run queue of an executor is first in, first out: a woken task is polled
   once the tasks before it have left the thread, if they do (hence strong
   fairness).  Timers fire, the client reads what it is sent, a vtable with a
   field that is not quiet gets its samples, and a handler runs to its end. *)
PlaybackFairSpec ==
    /\ PlaybackSpec
    /\ \A s \in Tasks : SF_playbackVars(Step(s))
    /\ WF_playbackVars(Handle)

-----------------------------------------------------------------------------
(* No task of state i can move it: each is over or dead, has nothing to show, waits for a
   field of its vtable that gets no samples, or its thread belongs to a message
   stream that goes round an empty log. *)
Starved(s) ==
    \/ task[s] \in {"none", "over", "dead"} \/ s \in Stages \ data
    \/ task[s] = "written" /\ s \in quiet
    \/ \E t \in Messages \ data : Conn[t] = Conn[s] /\ of[t] # 0 /\ state[of[t]].playing
Stuck(i) == \A s \in Tasks : of[s] = i => Starved(s)

(* A scrub stands: the position of a playback changes to what a request asks
   for, and otherwise one step up from where it is, and by no more than the
   step of one task that has seen it there.  A task that slept through a scrub
   does not take the position back to where it was. *)
ScrubStands ==
    [][\A i \in States : state'[i].tick # state[i].tick =>
          \/ i = streams /\ set # <<>> /\ Head(set) = "tick" /\ state'[i].tick = The(req.timestamp)
          \/ /\ state'[i].tick = state[i].tick + 1
             /\ \E s \in Tasks : of[s] = i /\ Advances(s) /\ seen[s] = state[i].tick]_playbackVars

(* While a playback is paused, the position it is scrubbed to is looked up by
   one of its tasks, when its flag was still there after the position was
   stored (a task that took it before that has looked up the old one). *)
ScrubShown == []<>(\A i \in States : i \in owed => Stuck(i))

(* A playback that is on reaches the end of the recording. *)
PlaybackRuns ==
    []<>(\A i \in 1 .. made : ~state[i].playing \/ state[i].tick = MaxTick \/ Stuck(i))

(* A pause stops every task of the playback, the flag of a scrub included. *)
PauseHolds ==
    []<>(\A s \in Tasks :
            of[s] # 0 => task[s] = "asleep" \/ Starved(s) \/ state[of[s]].playing)
=============================================================================

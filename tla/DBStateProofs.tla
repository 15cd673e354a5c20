---------------------------- MODULE DBStateProofs ----------------------------
(***************************************************************************)
(* What a database keeps about its components and its settings, for any    *)
(* components, schemas, vtables and connections, any number of kills and   *)
(* failed writes.                                                          *)
(*                                                                         *)
(* The four properties are about finished requests.  What makes them       *)
(* inductive is what memory and the two files of a component may say while *)
(* a request is under way, and which request is to blame for a torn file.  *)
(***************************************************************************)
EXTENDS DBState, TLAPS

Labels ==
    {"idle", "insert", "write_schema", "metadata", "write_metadata", "inserted",
     "recording", "entries", "copy", "truncate", "write_config"}

Settings == [recording : BOOLEAN, entries : SUBSET Keys]

Requests ==
    {<<>>} \cup VTables \cup Seq(Components \X Names) \cup (BOOLEAN \X Keys)

Types ==
    /\ process \in {"down", "creating", "up", "refused"}
    /\ components \in [Components -> Schemas \cup {Absent}]
    /\ metadata \in [Components -> Names \cup {Absent, Default}]
    /\ registry \subseteq VTables
    /\ config \in Settings /\ recording \in BOOLEAN
    /\ path \in BOOLEAN /\ dir \subseteq Components
    /\ schemaFile \in [Components -> Schemas \cup {Absent, Torn}]
    /\ metadataFile \in [Components -> Names \cup {Absent, Torn, Default}]
    /\ configFile = <<>> \/ \E s \in Settings : configFile = <<s>>
    /\ lock \in Conns \cup {Nobody}
    /\ pc \in [Conns -> Labels] /\ arg \in [Conns -> Requests]
    /\ field \in [Conns -> Nat] /\ copy \in [Conns -> Settings]
    /\ told \subseteq Components \X (Schemas \cup Names \cup {Default})
    /\ hurt \in BOOLEAN /\ raced \in BOOLEAN

(* A connection is at a field of a vtable, or has one component to describe. *)
Inserting(p) == arg[p] \in VTables /\ field[p] \in 1 .. Len(arg[p])
Describing(p) ==
    arg[p] \in Seq(Components \X Names) /\ Len(arg[p]) = 1 /\ field[p] = 1

(* Its component may have a schema file and is not in the map yet. *)
Creating(p) ==
    \/ pc[p] \in {"write_schema", "metadata", "inserted"}
    \/ pc[p] = "write_metadata" /\ Inserting(p)

(* The lock is held, and the argument is of its kind, throughout a request. *)
CallerOf(p) ==
    /\ Creating(p) \/ pc[p] \in {"insert", "write_metadata"} <=> lock = p
    /\ Creating(p) \/ pc[p] = "insert" => Inserting(p)
    /\ pc[p] = "write_metadata" => Inserting(p) \/ Describing(p)
    /\ Saving(p) => arg[p] \in BOOLEAN \X Keys
    /\ pc[p] = "idle" \/ Saving(p) => field[p] = 1

Callers == \A p \in Conns : CallerOf(p)

(* Nothing is in memory unless the database is up. *)
Quiet ==
    process # "up" =>
        /\ components = Fresh /\ metadata = Fresh /\ registry = {}
        /\ config = NoConfig /\ recording = TRUE
        /\ lock = Nobody /\ \A p \in Conns : pc[p] = "idle"

(* What a file says is what memory says, unless it is torn. *)
Files ==
    /\ ~path => process = "down"
    /\ ~path \/ process = "creating" => dir = {}
    /\ \A c \in Components \ dir : schemaFile[c] = Absent /\ metadataFile[c] = Absent
    /\ process = "up" => \A c \in Components :
        /\ metadataFile[c] \in {metadata[c], Torn}
        /\ components[c] # Absent => /\ schemaFile[c] \in {components[c], Torn}
                                     /\ metadata[c] # Absent

(* A component whose creation ended in an error: its metadata is torn for good,
   so that nobody gets past it to use the schema file. *)
Stuck(c) == metadata[c] = Absent /\ metadataFile[c] = Torn

HalfMade ==
    process = "up" => \A c \in Components :
        components[c] = Absent /\ Whole(schemaFile[c]) =>
            Stuck(c) \/ \E p \in Conns : Creating(p) /\ Component(p) = c

(* How far each request is. *)
ProgressOf(p) ==
    LET c == Component(p)
        schema == schemaFile[c] \in {Schema(p), Torn}
    IN  /\ Creating(p) => c \in dir /\ components[c] = Absent
        /\ pc[p] = "write_schema" => schemaFile[c] = Torn
        /\ pc[p] = "metadata" => schema \/ Stuck(c)
        /\ pc[p] = "write_metadata" =>
            /\ c \in dir /\ metadataFile[c] = Torn
            /\ Inserting(p) => schema /\ metadata[c] = Absent
            /\ ~Inserting(p) => components[c] # Absent \/ ~Whole(schemaFile[c])
        /\ pc[p] = "inserted" => schema /\ metadata[c] # Absent

Progress == \A p \in Conns : ProgressOf(p)

(* What was acknowledged is in its file, unless that is torn, and in memory. *)
ToldOf(t) ==
    /\ t[1] \in dir
    /\ t[2] \in Schemas =>
        /\ schemaFile[t[1]] \in {t[2], Torn}
        /\ process = "up" => components[t[1]] = t[2]
    /\ t[2] \notin Schemas =>
        /\ metadataFile[t[1]] \in {t[2], Torn}
        /\ process = "up" => metadata[t[1]] = t[2]

Told == \A t \in told : ToldOf(t)

(* The fields of a vtable that are behind have their components. *)
Backed ==
    /\ RegisteredBacked
    /\ \A p \in Conns : Creating(p) \/ pc[p] = "insert" =>
        \A j \in 1 .. field[p] - 1 : components[arg[p][j][1]] = arg[p][j][2]

(* Without a kill or a failure to blame, a torn file is being written. *)
Unhurt ==
    ~hurt =>
        /\ process # "refused"
        /\ process = "down" /\ path => Opens
        /\ process = "up" =>
            /\ \A c \in Components :
                /\ schemaFile[c] = Torn =>
                    \E p \in Conns : pc[p] = "write_schema" /\ Component(p) = c
                /\ metadataFile[c] = Torn =>
                    \E p \in Conns : pc[p] = "write_metadata" /\ Component(p) = c
            /\ configFile = <<>> => \E p \in Conns : pc[p] = "write_config"

(* While no two saves overlap there is at most one, and how far it is. *)
SaveOf(p) ==
    /\ pc[p] = "recording" => config.recording = arg[p][1]
    /\ pc[p] \in {"entries", "copy", "truncate", "write_config"} =>
        recording = config.recording
    /\ pc[p] \in {"truncate", "write_config"} => copy[p] = config

Saves ==
    process = "up" /\ ~raced =>
        /\ \A p, q \in Conns : Saving(p) /\ Saving(q) => p = q
        /\ \A p \in Conns : SaveOf(p)
        /\ ConfigSaved

(* The inductive invariant. *)
IInv ==
    /\ Types /\ Callers /\ Quiet
    /\ Files /\ HalfMade /\ Progress /\ Told /\ Backed
    /\ Unhurt /\ Saves
-----------------------------------------------------------------------------
(* The three marks and the tags of the requests are different. *)
LEMMA Marks ==
    /\ Absent \notin Schemas /\ Torn \notin Schemas /\ Default \notin Schemas
    /\ Absent \notin Names /\ Torn \notin Names /\ Default \notin Names
    /\ Absent # Torn /\ Absent # Default /\ Torn # Default
    /\ \A x : ~(x \in Schemas /\ x \in Names)
BY DBStateAssumption DEF Absent, Torn, Default

(* The field a connection is at. *)
LEMMA CurrentField ==
    ASSUME NEW p \in Conns
    PROVE  /\ Inserting(p) => Component(p) \in Components /\ Schema(p) \in Schemas
           /\ Describing(p) => Component(p) \in Components /\ Schema(p) \in Names
           /\ ~(Inserting(p) /\ Describing(p))
<1>1. Inserting(p) => arg[p][field[p]] \in Components \X Schemas
  BY DBStateAssumption DEF Inserting
<1>2. Describing(p) => arg[p][field[p]] \in Components \X Names
  BY DEF Describing
<1> QED
  BY <1>1, <1>2, Marks DEF Component, Schema

LEMMA InitIInv == Init => IInv
<1> SUFFICES ASSUME Init PROVE IInv
  OBVIOUS
<1> USE DEF Init
<1>1. Types
  BY DEF Types, Fresh, NoConfig, Settings, Labels, Requests, Nobody
<1>2. Callers /\ Quiet
  BY DBStateAssumption DEF Callers, CallerOf, Quiet, Creating, Saving
<1>3. Files /\ HalfMade /\ Told /\ Backed /\ Unhurt /\ Saves
  BY DEF Files, HalfMade, Told, ToldOf, Backed, RegisteredBacked, Creating, Unhurt, Saves, Fresh
<1>4. Progress
  BY DEF Progress, ProgressOf, Creating
<1> QED
  BY <1>1, <1>2, <1>3, <1>4 DEF IInv

-----------------------------------------------------------------------------
(* A connection that takes a step does not touch the others' requests. *)
Alone(p) ==
    \A q \in Conns \ {p} :
        /\ pc'[q] = pc[q] /\ arg'[q] = arg[q] /\ field'[q] = field[q] /\ copy'[q] = copy[q]
        /\ Creating(q)' = Creating(q) /\ Inserting(q)' = Inserting(q)
        /\ Describing(q)' = Describing(q) /\ Saving(q)' = Saving(q)
        /\ Component(q)' = Component(q) /\ Schema(q)' = Schema(q)

LEMMA StepAlone ==
    ASSUME IInv, NEW p \in Conns, Call(p) \/ Step(p)
    PROVE  Alone(p) /\ process = "up" /\ process' = "up" /\ UNCHANGED path
<1> USE DEF IInv, Types
<1>1. process = "up" /\ process' = "up" /\ UNCHANGED path
  <2>1. pc[p] # "idle" => process = "up"
    BY DEF Quiet
  <2>2. CASE Call(p)
    BY <2>2 DEF Call, InsertVTable, SetComponentMetadata, SetDbConfig, CanCall, disk
  <2>3. CASE Step(p)
    BY <2>1, <2>3 DEF Step, InsertComponent, WriteSchema, DefaultMetadata, Inserted, WriteMetadata,
         SetRecording, SetEntries, CopyConfig, TruncateConfig, WriteConfig, WriteFails, disk
  <2> QED
    BY <2>2, <2>3
<1>2. ASSUME NEW q \in Conns \ {p}
      PROVE  pc'[q] = pc[q] /\ arg'[q] = arg[q] /\ field'[q] = field[q] /\ copy'[q] = copy[q]
  <2> USE DEF Goto, Return, NextField, CreateComponent, callers
  <2>1. CASE Call(p)
    BY <2>1 DEF Call, InsertVTable, SetComponentMetadata, SetDbConfig
  <2>2. CASE InsertComponent(p) \/ WriteSchema(p) \/ DefaultMetadata(p) \/ Inserted(p) \/ WriteMetadata(p)
    BY <2>2 DEF InsertComponent, WriteSchema, DefaultMetadata, Inserted, WriteMetadata
  <2>3. CASE \/ SetRecording(p) \/ SetEntries(p) \/ CopyConfig(p) \/ TruncateConfig(p) \/ WriteConfig(p)
             \/ WriteFails(p)
    BY <2>3 DEF SetRecording, SetEntries, CopyConfig, TruncateConfig, WriteConfig, WriteFails
  <2> QED
    BY <2>1, <2>2, <2>3 DEF Step
<1> QED
  BY <1>1, <1>2 DEF Alone, Creating, Inserting, Describing, Saving, Component, Schema

(* Nobody else is in a request that holds the lock. *)
LEMMA LockExcludes ==
    ASSUME IInv, NEW p \in Conns, lock \in {p, Nobody}, NEW q \in Conns \ {p}
    PROVE  ~Creating(q) /\ pc[q] \notin {"insert", "write_metadata"}
BY DBStateAssumption DEF IInv, Callers, CallerOf

-----------------------------------------------------------------------------
(* SetDbConfig and save_db_state have nothing to do with the components. *)
Configures(p) ==
    \/ SetDbConfig(p) \/ SetRecording(p) \/ SetEntries(p) \/ CopyConfig(p) \/ TruncateConfig(p)
    \/ WriteConfig(p) \/ (WriteFails(p) /\ pc[p] = "write_config")

LEMMA ConfigureFrame ==
    ASSUME IInv, NEW p \in Conns, Configures(p)
    PROVE  /\ UNCHANGED <<components, metadata, registry, dir, schemaFile, metadataFile, told, lock>>
           /\ ~Creating(p) /\ ~Creating(p)'
           /\ pc[p] \notin {"insert", "write_metadata"} /\ pc'[p] \notin {"insert", "write_metadata"}
           /\ pc[p] = "idle" \/ Saving(p)
           /\ hurt => hurt'
<1> USE DEF IInv, Types, Configures
<1>1. pc[p] = "idle" \/ Saving(p)
  BY DEF SetDbConfig, CanCall, SetRecording, SetEntries, CopyConfig, TruncateConfig, WriteConfig, Saving
<1>2. /\ UNCHANGED <<components, metadata, registry, dir, schemaFile, metadataFile, told>>
      /\ hurt => hurt'
  BY DEF SetDbConfig, SetRecording, SetEntries, CopyConfig, TruncateConfig, WriteConfig, WriteFails,
         memory, disk, history
<1>3. pc'[p] = "idle" \/ Saving(p)'
  BY DEF SetDbConfig, SetRecording, SetEntries, CopyConfig, TruncateConfig, WriteConfig, WriteFails,
         Goto, Return, Saving
<1>4. UNCHANGED lock
  BY <1>1, DBStateAssumption
  DEF Callers, CallerOf, Creating, Saving, SetDbConfig, SetRecording, SetEntries, CopyConfig, TruncateConfig, WriteConfig, WriteFails, Return
<1> QED
  BY <1>1, <1>2, <1>3, <1>4 DEF Creating, Saving

LEMMA ConfigureComponents ==
    ASSUME IInv, NEW p \in Conns, Configures(p), Alone(p),
           process = "up", process' = "up", UNCHANGED path
    PROVE  Files' /\ HalfMade' /\ Progress' /\ Told' /\ Backed'
<1>1. /\ UNCHANGED <<components, metadata, registry, dir, schemaFile, metadataFile, told, lock>>
      /\ ~Creating(p) /\ ~Creating(p)'
      /\ pc[p] \notin {"insert", "write_metadata"} /\ pc'[p] \notin {"insert", "write_metadata"}
  BY ConfigureFrame
<1>2. Files' /\ Told'
  BY <1>1 DEF IInv, Files, Told, ToldOf
<1>3. HalfMade'
  BY <1>1 DEF IInv, HalfMade, Stuck, Alone
<1>4. Progress'
  <2>1. ProgressOf(p)'
    BY <1>1 DEF ProgressOf, Creating
  <2>2. ASSUME NEW q \in Conns \ {p} PROVE ProgressOf(q)'
    BY <1>1 DEF IInv, Progress, ProgressOf, Alone, Stuck
  <2> QED
    BY <2>1, <2>2 DEF Progress
<1>5. Backed'
  BY <1>1 DEF IInv, Backed, RegisteredBacked, Alone
<1> QED
  BY <1>2, <1>3, <1>4, <1>5

(* What an assignment to one of the settings does. *)
LEMMA SettingsKept ==
    ASSUME NEW s \in Settings, NEW r \in BOOLEAN, NEW k \in Keys
    PROVE  /\ [s EXCEPT !.recording = r] \in Settings
           /\ [s EXCEPT !.recording = r].recording = r
           /\ [s EXCEPT !.entries = @ \cup {k}] \in Settings
           /\ [s EXCEPT !.entries = @ \cup {k}].recording = s.recording
BY DEF Settings

LEMMA ConfigureStep ==
    ASSUME IInv, NEW p \in Conns, Configures(p), Call(p) \/ Step(p)
    PROVE  IInv'
<1>1. Alone(p) /\ process = "up" /\ process' = "up" /\ UNCHANGED path
  BY StepAlone
<1>2. Files' /\ HalfMade' /\ Progress' /\ Told' /\ Backed'
  BY <1>1, ConfigureComponents
<1>3. /\ UNCHANGED <<components, metadata, registry, dir, schemaFile, metadataFile, told, lock>>
      /\ ~Creating(p) /\ ~Creating(p)'
      /\ pc[p] \notin {"insert", "write_metadata"} /\ pc'[p] \notin {"insert", "write_metadata"}
      /\ pc[p] = "idle" \/ Saving(p)
      /\ hurt => hurt'
  BY ConfigureFrame
<1>4. /\ config' \in Settings /\ recording' \in BOOLEAN
      /\ configFile' = <<>> \/ \E x \in Settings : configFile' = <<x>>
      /\ pc' \in [Conns -> Labels] /\ arg' \in [Conns -> Requests]
      /\ field' \in [Conns -> Nat] /\ copy' \in [Conns -> Settings]
      /\ hurt' \in BOOLEAN /\ raced' \in BOOLEAN
  <2>1. CASE SetDbConfig(p)
    <3>1. PICK r \in BOOLEAN, k \in Keys :
            /\ arg' = [arg EXCEPT ![p] = <<r, k>>]
            /\ \/ config' = [config EXCEPT !.recording = r] /\ Goto(p, "recording")
               \/ Goto(p, "entries") /\ UNCHANGED config
      BY <2>1 DEF SetDbConfig
    <3>2. <<r, k>> \in Requests
      BY DEF Requests
    <3>3. arg' \in [Conns -> Requests]
      BY <3>1, <3>2 DEF IInv, Types
    <3>4. config' \in Settings
      <4>1. config \in Settings
        BY DEF IInv, Types
      <4>2. [config EXCEPT !.recording = r] \in Settings
        BY <4>1, SettingsKept
      <4> QED
        BY <3>1, <4>1, <4>2
    <3>5. pc' \in [Conns -> Labels]
      BY <3>1 DEF IInv, Types, Labels, Goto
    <3>6. raced' \in BOOLEAN
      <4>1. (\E q \in Conns : Saving(q)) \in BOOLEAN
        OBVIOUS
      <4> QED
        BY <2>1, <4>1 DEF SetDbConfig, IInv, Types
    <3> QED
      BY <2>1, <3>3, <3>4, <3>5, <3>6 DEF SetDbConfig, IInv, Types, disk
  <2>2. CASE SetRecording(p)
    <3>1. recording' \in BOOLEAN
      BY <2>2 DEF SetRecording, IInv, Callers, CallerOf, Saving
    <3> QED
      BY <2>2, <3>1 DEF SetRecording, IInv, Types, Goto, Labels, disk, history
  <2>3. CASE SetEntries(p)
    <3>1. config' \in Settings
      BY <2>3, SettingsKept DEF SetEntries, IInv, Types, Callers, CallerOf, Saving
    <3> QED
      BY <2>3, <3>1 DEF SetEntries, IInv, Types, Goto, Labels, disk, history
  <2>4. CASE CopyConfig(p)
    BY <1>3, <2>4 DEF IInv, Types, CopyConfig, disk, memory, history, Goto, Return, NoConfig, Labels, Settings, Requests
  <2>5. CASE TruncateConfig(p)
    BY <1>3, <2>5 DEF IInv, Types, TruncateConfig, disk, memory, history, Goto, Return, NoConfig, Labels, Settings, Requests
  <2>6. CASE WriteConfig(p)
    BY <1>3, <2>6 DEF IInv, Types, WriteConfig, disk, memory, history, Goto, Return, NoConfig, Labels, Settings, Requests
  <2>7. CASE WriteFails(p)
    BY <1>3, <2>7 DEF IInv, Types, WriteFails, disk, memory, history, Goto, Return, NoConfig, Labels, Settings, Requests
  <2> QED
    BY <2>1, <2>2, <2>3, <2>4, <2>5, <2>6, <2>7 DEF Configures
<1>5. Types'
  BY <1>1, <1>3, <1>4 DEF IInv, Types
<1>6. /\ Saving(p)' => arg'[p] \in BOOLEAN \X Keys
      /\ pc'[p] = "idle" \/ Saving(p)' => field'[p] = 1
  <2> USE DEF IInv, Types, Callers, CallerOf, Goto, Return, Saving
  <2>1. CASE SetDbConfig(p)
    BY <1>3, <2>1 DEF SetDbConfig
  <2>2. CASE SetRecording(p) \/ SetEntries(p) \/ CopyConfig(p) \/ TruncateConfig(p)
    BY <1>3, <2>2 DEF SetRecording, SetEntries, CopyConfig, TruncateConfig
  <2>3. CASE WriteConfig(p) \/ WriteFails(p)
    BY <1>3, <2>3 DEF WriteConfig, WriteFails
  <2> QED
    BY <2>1, <2>2, <2>3 DEF Configures
<1>7. Callers'
  <2>1. ASSUME NEW q \in Conns \ {p}
        PROVE  CallerOf(q)'
    BY <1>1, <1>3 DEF IInv, Callers, CallerOf, Alone
  <2>2. CallerOf(p)'
    BY <1>3, <1>6 DEF IInv, Callers, CallerOf, Creating
  <2> QED
    BY <2>1, <2>2 DEF Callers
<1>8. Quiet'
  BY <1>1 DEF Quiet
<1>9. Unhurt'
  <2>1. configFile' = <<>> /\ ~hurt' => \E q \in Conns : pc'[q] = "write_config"
    <3> USE DEF IInv, Types, Goto, Return
    <3>1. CASE SetDbConfig(p) \/ SetRecording(p) \/ SetEntries(p) \/ CopyConfig(p)
      <4>1. UNCHANGED <<configFile, hurt>> /\ pc[p] # "write_config"
        BY <3>1 DEF SetDbConfig, SetRecording, SetEntries, CopyConfig, CanCall, disk, history
      <4> QED
        BY <1>1, <4>1 DEF Unhurt, Alone
    <3>2. CASE TruncateConfig(p) \/ WriteConfig(p) \/ WriteFails(p)
      BY <3>2 DEF TruncateConfig, WriteConfig, WriteFails
    <3> QED
      BY <3>1, <3>2 DEF Configures
  <2>2. ASSUME NEW c \in Components, ~hurt'
        PROVE  /\ schemaFile'[c] = Torn =>
                    \E q \in Conns : pc'[q] = "write_schema" /\ Component(q)' = c
               /\ metadataFile'[c] = Torn =>
                    \E q \in Conns : pc'[q] = "write_metadata" /\ Component(q)' = c
    BY <1>1, <1>3, <2>2 DEF IInv, Unhurt, Alone, Creating
  <2> QED
    BY <1>1, <2>1, <2>2 DEF Unhurt
<1>10. Saves'
  <2> SUFFICES ASSUME ~raced' PROVE Saves'
    BY DEF Saves
  <2> USE DEF IInv, Types, Goto
  <2>1. ASSUME \A q \in Conns \ {p} : ~Saving(q), SaveOf(p)', ConfigSaved'
        PROVE  Saves'
    BY <1>1, <2>1, ZenonT(40) DEF Saves, SaveOf, Alone, Saving
  <2>2. CASE SetDbConfig(p)
    <3>1. PICK r \in BOOLEAN, k \in Keys :
            /\ arg' = [arg EXCEPT ![p] = <<r, k>>]
            /\ \/ /\ config' = [config EXCEPT !.recording = r] /\ Goto(p, "recording")
                  /\ raced' = \E q \in Conns : Saving(q)
               \/ /\ Goto(p, "entries") /\ UNCHANGED config
                  /\ raced' = (raced \/ \E q \in Conns : Saving(q))
      BY <2>2 DEF SetDbConfig
    <3>2. \A q \in Conns : ~Saving(q)
      BY <3>1
    <3>3. CASE config' = [config EXCEPT !.recording = r] /\ Goto(p, "recording")
      <4>1. config'.recording = r /\ arg'[p] = <<r, k>> /\ pc'[p] = "recording"
        BY <3>1, <3>3, SettingsKept
      <4>2. SaveOf(p)' /\ ConfigSaved'
        BY <4>1 DEF SaveOf, ConfigSaved, Saving
      <4> QED
        BY <2>1, <3>2, <4>2
    <3>4. CASE Goto(p, "entries") /\ UNCHANGED config /\ ~raced
      <4>1. recording = config.recording /\ UNCHANGED recording /\ pc'[p] = "entries"
        BY <1>1, <2>2, <3>2, <3>4 DEF SetDbConfig, Saves, ConfigSaved
      <4>2. SaveOf(p)' /\ ConfigSaved'
        BY <3>4, <4>1 DEF SaveOf, ConfigSaved, Saving
      <4> QED
        BY <2>1, <3>2, <4>2
    <3> QED
      BY <3>1, <3>3, <3>4
  <2>3. CASE SetRecording(p) \/ SetEntries(p) \/ CopyConfig(p) \/ TruncateConfig(p) \/ WriteConfig(p)
    <3>1. Saving(p) /\ UNCHANGED raced
      BY <2>3 DEF SetRecording, SetEntries, CopyConfig, TruncateConfig, WriteConfig, Saving, history
    <3>2. (\A q \in Conns \ {p} : ~Saving(q)) /\ SaveOf(p)
      BY <1>1, <3>1 DEF Saves
    <3>3. CASE SetRecording(p)
      <4>1. SaveOf(p)' /\ ConfigSaved'
        BY <3>2, <3>3 DEF SetRecording, SaveOf, ConfigSaved, Saving
      <4> QED
        BY <2>1, <3>2, <4>1
    <3>4. CASE SetEntries(p)
      <4>1. config'.recording = config.recording
        BY <3>1, <3>4, SettingsKept DEF SetEntries, Callers, CallerOf
      <4>2. SaveOf(p)' /\ ConfigSaved'
        BY <3>2, <3>4, <4>1 DEF SetEntries, SaveOf, ConfigSaved, Saving
      <4> QED
        BY <2>1, <3>2, <4>2
    <3>5. CASE CopyConfig(p)
      <4>1. SaveOf(p)' /\ ConfigSaved'
        BY <3>2, <3>5 DEF CopyConfig, SaveOf, ConfigSaved, Saving, memory
      <4> QED
        BY <2>1, <3>2, <4>1
    <3>6. CASE TruncateConfig(p)
      <4>1. SaveOf(p)' /\ ConfigSaved'
        BY <3>2, <3>6 DEF TruncateConfig, SaveOf, ConfigSaved, Saving, memory
      <4> QED
        BY <2>1, <3>2, <4>1
    <3>7. CASE WriteConfig(p)
      <4>1. SaveOf(p)' /\ ConfigSaved'
        BY <3>2, <3>7 DEF WriteConfig, SaveOf, ConfigSaved, Saving, memory, Return
      <4> QED
        BY <2>1, <3>2, <4>1
    <3> QED
      BY <2>3, <3>3, <3>4, <3>5, <3>6, <3>7
  <2>4. CASE WriteFails(p)
    BY <2>4 DEF WriteFails
  <2> QED
    BY <2>2, <2>3, <2>4 DEF Configures
<1> QED
  BY <1>2, <1>5, <1>7, <1>8, <1>9, <1>10 DEF IInv

-----------------------------------------------------------------------------
(* Requests about components have nothing to do with the settings. *)
Registers(p) ==
    \/ InsertVTable(p) \/ InsertComponent(p) \/ WriteSchema(p) \/ DefaultMetadata(p) \/ Inserted(p)
    \/ SetComponentMetadata(p) \/ WriteMetadata(p)
    \/ (WriteFails(p) /\ pc[p] \in {"write_schema", "write_metadata"})

LEMMA RegisterFrame ==
    ASSUME IInv, NEW p \in Conns, Registers(p)
    PROVE  /\ UNCHANGED <<config, recording, configFile>>
           /\ raced => raced'
           /\ ~Saving(p) /\ ~Saving(p)'
           /\ lock \in {p, Nobody}
<1> USE DEF Registers
<1>1. /\ UNCHANGED <<config, recording, configFile>>
      /\ raced => raced'
      /\ raced' \in BOOLEAN
  BY DEF IInv, Types, InsertVTable, InsertComponent, WriteSchema, DefaultMetadata, Inserted, SetComponentMetadata,
         WriteMetadata, WriteFails, memory, disk, history
<1>2. ~Saving(p)
  BY DEF InsertVTable, InsertComponent, WriteSchema, DefaultMetadata, Inserted, SetComponentMetadata,
         WriteMetadata, CanCall, Saving
<1>3. pc'[p] \in {"idle", "insert", "write_schema", "metadata", "write_metadata", "inserted"}
  <2> USE DEF IInv, Types, Goto, Return, NextField, CreateComponent
  <2>1. CASE InsertVTable(p) \/ WriteSchema(p) \/ WriteFails(p)
    BY <2>1 DEF InsertVTable, WriteSchema, WriteFails
  <2>2. CASE InsertComponent(p) \/ Inserted(p)
    BY <2>2 DEF InsertComponent, Inserted
  <2>3. CASE DefaultMetadata(p) \/ WriteMetadata(p)
    BY <2>3 DEF DefaultMetadata, WriteMetadata
  <2>4. CASE SetComponentMetadata(p)
    BY <2>4 DEF SetComponentMetadata, CanCall, callers
  <2> QED
    BY <2>1, <2>2, <2>3, <2>4
<1>4. lock \in {p, Nobody}
  <2>1. Creating(p) \/ pc[p] \in {"insert", "write_metadata"} => lock = p
    BY DEF IInv, Callers, CallerOf
  <2> QED
    BY <2>1 DEF InsertVTable, InsertComponent, WriteSchema, DefaultMetadata, Inserted, SetComponentMetadata,
         WriteMetadata, Creating
<1> QED
  BY <1>1, <1>2, <1>3, <1>4 DEF Saving

(* What they keep without further ado. *)
LEMMA RegisterKeeps ==
    ASSUME IInv, NEW p \in Conns, Registers(p), Alone(p), process = "up", process' = "up"
    PROVE  /\ Quiet' /\ Saves'
           /\ configFile' = <<>> /\ ~hurt => \E q \in Conns : pc'[q] = "write_config"
           /\ \A q \in Conns \ {p} : ~Creating(q)' /\ pc'[q] \notin {"insert", "write_metadata"}
<1>1. /\ UNCHANGED <<config, recording, configFile>>
      /\ raced => raced'
      /\ ~Saving(p) /\ ~Saving(p)'
      /\ lock \in {p, Nobody}
  BY RegisterFrame
<1>2. Saves'
  <2> SUFFICES ASSUME ~raced' PROVE Saves'
    BY DEF Saves
  <2>1. \A q \in Conns : Saving(q)' <=> Saving(q)
    BY <1>1 DEF Alone
  <2>2. (\A q, r \in Conns : Saving(q) /\ Saving(r) => q = r) /\ (\A q \in Conns : SaveOf(q)) /\ ConfigSaved
    BY <1>1 DEF IInv, Saves
  <2>3. ASSUME NEW q \in Conns PROVE SaveOf(q)'
    BY <1>1, <2>2 DEF SaveOf, Alone, Saving
  <2>4. ConfigSaved'
    BY <1>1, <2>1, <2>2 DEF ConfigSaved
  <2> QED
    BY <2>1, <2>2, <2>3, <2>4 DEF Saves
<1>3. configFile' = <<>> /\ ~hurt => \E q \in Conns : pc'[q] = "write_config"
  BY <1>1 DEF IInv, Unhurt, Alone, Saving
<1>4. \A q \in Conns \ {p} : ~Creating(q)' /\ pc'[q] \notin {"insert", "write_metadata"}
  BY <1>1, LockExcludes DEF Alone
<1> QED
  BY <1>2, <1>3, <1>4 DEF Quiet

(* So what is left to show is about the connection that takes the step: it alone
   is to blame for a half-made component and, unless something failed, for a
   torn file. *)
Accounted(p, c) ==
    /\ components[c] = Absent /\ Whole(schemaFile[c]) =>
        Stuck(c) \/ (Creating(p) /\ Component(p) = c)
    /\ ~hurt /\ schemaFile[c] = Torn => pc[p] = "write_schema" /\ Component(p) = c
    /\ ~hurt /\ metadataFile[c] = Torn => pc[p] = "write_metadata" /\ Component(p) = c

Registered(p) ==
    /\ Types /\ CallerOf(p) /\ lock \in {p, Nobody}
    /\ Files /\ Told /\ ProgressOf(p) /\ RegisteredBacked
    /\ Creating(p) \/ pc[p] = "insert" =>
        \A j \in 1 .. field[p] - 1 : components[arg[p][j][1]] = arg[p][j][2]
    /\ \A c \in Components : Accounted(p, c)

LEMMA RegisteredBefore ==
    ASSUME IInv, NEW p \in Conns, lock \in {p, Nobody}, process = "up"
    PROVE  Registered(p)
<1>1. \A q \in Conns \ {p} : ~Creating(q) /\ pc[q] \notin {"insert", "write_metadata"}
  BY LockExcludes
<1>2. \A q \in Conns \ {p} : pc[q] # "write_schema"
  BY <1>1 DEF Creating
<1>3. ASSUME NEW c \in Components
      PROVE  Accounted(p, c)
  BY <1>1, <1>2 DEF IInv, HalfMade, Unhurt, Accounted
<1> QED
  BY <1>3 DEF IInv, Registered, Callers, Progress, Backed

LEMMA RegisteredAfter ==
    ASSUME IInv, NEW p \in Conns, Registers(p), Alone(p), process = "up", process' = "up",
           Registered(p)', hurt => hurt'
    PROVE  IInv'
<1>1. /\ Quiet' /\ Saves'
      /\ configFile' = <<>> /\ ~hurt => \E q \in Conns : pc'[q] = "write_config"
      /\ \A q \in Conns \ {p} : ~Creating(q)' /\ pc'[q] \notin {"insert", "write_metadata"}
  BY RegisterKeeps
<1>2. Callers'
  <2>1. ASSUME NEW q \in Conns \ {p} PROVE CallerOf(q)'
    <3>1. lock' # q
      BY DBStateAssumption DEF Registered
    <3>2. /\ Saving(q)' => arg'[q] \in BOOLEAN \X Keys
          /\ pc'[q] = "idle" \/ Saving(q)' => field'[q] = 1
      BY DEF IInv, Callers, CallerOf, Alone
    <3> QED
      BY <1>1, <3>1, <3>2 DEF CallerOf
  <2> QED
    BY <2>1 DEF Callers, Registered
<1>3. HalfMade' /\ Unhurt'
  BY <1>1 DEF HalfMade, Unhurt, Registered, Accounted
<1>4. Progress'
  <2>1. ASSUME NEW q \in Conns \ {p} PROVE ProgressOf(q)'
    BY <1>1 DEF ProgressOf, Creating
  <2> QED
    BY <2>1 DEF Progress, Registered
<1>5. Backed'
  BY <1>1 DEF Backed, Registered
<1> QED
  BY <1>1, <1>2, <1>3, <1>4, <1>5 DEF IInv, Registered

-----------------------------------------------------------------------------
LEMMA InsertVTableStep ==
    ASSUME NEW p \in Conns, Registered(p), process = "up", InsertVTable(p)
    PROVE  Registered(p)'
<1>1. PICK v \in VTables :
        /\ pc[p] = "idle" /\ lock' = p
        /\ arg' = [arg EXCEPT ![p] = v] /\ pc' = [pc EXCEPT ![p] = "insert"]
        /\ UNCHANGED <<process, components, metadata, registry, config, recording, path, dir, schemaFile,
                       metadataFile, configFile, field, copy, told, hurt, raced>>
  BY DEF InsertVTable, CanCall, Goto, memory, disk, history
<1>2. Types'
  BY <1>1 DEF Registered, Types, Labels, Requests
<1>3. arg'[p] = v /\ pc'[p] = "insert" /\ field'[p] = 1 /\ pc[p] = "idle"
  BY <1>1 DEF Registered, Types, CallerOf
<1>4. Len(v) \in Nat \ {0}
  BY DBStateAssumption
<1>5. CallerOf(p)'
  BY <1>1, <1>3, <1>4 DEF CallerOf, Creating, Inserting, Saving
<1>6. Files' /\ Told' /\ RegisteredBacked'
  BY <1>1 DEF Registered, Files, Told, ToldOf, RegisteredBacked
<1>7. ProgressOf(p)'
  BY <1>3 DEF ProgressOf, Creating
<1> QED
  BY <1>1, <1>2, <1>3, <1>5, <1>6, <1>7 DEF Registered, Accounted, Creating, Stuck

LEMMA WriteSchemaStep ==
    ASSUME NEW p \in Conns, Registered(p), process = "up", WriteSchema(p)
    PROVE  Registered(p)'
<1> DEFINE c == Component(p)
<1>1. /\ pc[p] = "write_schema"
      /\ schemaFile' = [schemaFile EXCEPT ![c] = Schema(p)] /\ pc' = [pc EXCEPT ![p] = "metadata"]
      /\ UNCHANGED <<process, components, metadata, registry, config, recording, path, dir,
                     metadataFile, configFile, lock, arg, field, copy, told, hurt, raced>>
  BY DEF WriteSchema, Goto, memory, history
<1>2. Creating(p) /\ Inserting(p)
  BY <1>1 DEF Registered, CallerOf, Creating
<1>3. c \in Components /\ Schema(p) \in Schemas
  BY <1>2, CurrentField
<1>4. c \in dir /\ components[c] = Absent /\ schemaFile[c] = Torn
  BY <1>1, <1>2 DEF Registered, ProgressOf
<1>5. Types'
  BY <1>1, <1>3 DEF Registered, Types, Labels
<1>6. pc'[p] = "metadata" /\ Component(p)' = c /\ Schema(p)' = Schema(p) /\ Creating(p)' /\ Inserting(p)'
  BY <1>1, <1>2 DEF Registered, Types, Creating, Inserting, Component, Schema
<1>7. schemaFile'[c] = Schema(p) /\ \A d \in Components \ {c} : schemaFile'[d] = schemaFile[d]
  BY <1>1, <1>3 DEF Registered, Types
<1> HIDE DEF c
<1>8. CallerOf(p)'
  BY <1>1, <1>2, <1>6 DEF Registered, CallerOf, Creating, Saving
<1>9. Files'
  BY <1>1, <1>4, <1>7 DEF Registered, Files
<1>10. Told'
  <2>1. ASSUME NEW t \in told PROVE t[2] \in Schemas => t[1] # c
    BY <1>4, Marks DEF Registered, Told, ToldOf
  <2> QED
    BY <1>1, <1>7, <2>1 DEF Registered, Told, ToldOf, Types
<1>11. ProgressOf(p)'
  BY <1>1, <1>4, <1>6, <1>7 DEF ProgressOf
<1>12. RegisteredBacked'
  BY <1>1 DEF Registered, RegisteredBacked
<1>13. \A j \in 1 .. field'[p] - 1 : components'[arg'[p][j][1]] = arg'[p][j][2]
  BY <1>1, <1>2 DEF Registered
<1>14. ASSUME NEW d \in Components PROVE Accounted(p, d)'
  <2>1. Accounted(p, d)
    BY DEF Registered
  <2>2. CASE d = c
    BY <1>1, <1>3, <1>6, <1>7, <2>1, <2>2, Marks DEF Accounted
  <2>3. CASE d # c
    BY <1>1, <1>2, <1>6, <1>7, <2>1, <2>3 DEF Accounted, Stuck, c
  <2> QED
    BY <2>2, <2>3
<1> QED
  BY <1>1, <1>5, <1>8, <1>9, <1>10, <1>11, <1>12, <1>13, <1>14 DEF Registered

(* A request that ends leaves its connection idle. *)
LEMMA ReturnFacts ==
    ASSUME NEW p \in Conns, Types, lock = p, Return(p)
    PROVE  /\ pc' \in [Conns -> Labels] /\ arg' \in [Conns -> Requests]
           /\ field' \in [Conns -> Nat] /\ copy' \in [Conns -> Settings]
           /\ lock' = Nobody
           /\ pc'[p] = "idle" /\ ~Creating(p)' /\ CallerOf(p)' /\ ProgressOf(p)'
<1>1. /\ pc' \in [Conns -> Labels] /\ arg' \in [Conns -> Requests]
      /\ field' \in [Conns -> Nat] /\ copy' \in [Conns -> Settings]
      /\ lock' = Nobody /\ pc'[p] = "idle" /\ field'[p] = 1
  BY DEF Types, Return, Goto, Labels, Requests, Settings, NoConfig
<1>2. CallerOf(p)' /\ ~Creating(p)'
  BY <1>1, DBStateAssumption DEF CallerOf, Creating, Saving
<1>3. ProgressOf(p)'
  BY <1>1, <1>2 DEF ProgressOf
<1> QED
  BY <1>1, <1>2, <1>3

(* So does a vtable whose last field is done, and then it is registered. *)
LEMMA NextFieldFacts ==
    ASSUME NEW p \in Conns, Types, lock = p, Inserting(p), NextField(p), RegisteredBacked,
           \A j \in 1 .. field[p] : components'[arg[p][j][1]] = arg[p][j][2],
           \A c \in Components : components[c] # Absent => components'[c] = components[c]
    PROVE  /\ pc' \in [Conns -> Labels] /\ arg' \in [Conns -> Requests]
           /\ field' \in [Conns -> Nat] /\ copy' \in [Conns -> Settings]
           /\ lock' \in {p, Nobody} /\ registry' \subseteq VTables
           /\ pc'[p] \in {"idle", "insert"} /\ ~Creating(p)' /\ CallerOf(p)' /\ ProgressOf(p)'
           /\ RegisteredBacked'
           /\ pc'[p] = "insert" =>
                \A j \in 1 .. field'[p] - 1 : components'[arg'[p][j][1]] = arg'[p][j][2]
<1>1. /\ arg[p] \in VTables /\ Len(arg[p]) \in Nat /\ field[p] \in 1 .. Len(arg[p])
      /\ arg[p] \in Seq(Components \X Schemas)
  BY DBStateAssumption DEF Inserting
<1>2. ASSUME NEW v \in registry, NEW f \in ToSet(v)
      PROVE  components'[f[1]] = f[2]
  <2>1. v \in Seq(Components \X Schemas)
    BY DBStateAssumption DEF Types
  <2>2. f \in Components \X Schemas
    BY <2>1 DEF ToSet
  <2>3. components[f[1]] = f[2]
    BY DEF RegisteredBacked
  <2> QED
    BY <2>2, <2>3, Marks
<1>3. CASE field[p] = Len(arg[p])
  <2>1. registry' = registry \cup {arg[p]} /\ Return(p)
    BY <1>3 DEF NextField
  <2>2. \A f \in ToSet(arg[p]) : components'[f[1]] = f[2]
    BY <1>1, <1>3 DEF ToSet
  <2>3. RegisteredBacked'
    BY <1>2, <2>1, <2>2 DEF RegisteredBacked
  <2> QED
    BY <1>1, <2>1, <2>3, ReturnFacts DEF Types
<1>4. CASE field[p] # Len(arg[p])
  <2>1. /\ field' = [field EXCEPT ![p] = @ + 1] /\ pc' = [pc EXCEPT ![p] = "insert"]
        /\ UNCHANGED <<registry, lock, arg, copy>>
    BY <1>4 DEF NextField, Goto
  <2>2. /\ pc' \in [Conns -> Labels] /\ field' \in [Conns -> Nat]
        /\ pc'[p] = "insert" /\ field'[p] = field[p] + 1 /\ field'[p] \in 1 .. Len(arg[p])
    BY <1>1, <1>4, <2>1 DEF Types, Labels
  <2>3. CallerOf(p)' /\ ~Creating(p)'
    BY <1>1, <2>1, <2>2 DEF CallerOf, Creating, Inserting, Saving
  <2>4. ProgressOf(p)'
    BY <2>2, <2>3 DEF ProgressOf
  <2>5. RegisteredBacked'
    BY <1>2, <2>1 DEF RegisteredBacked
  <2>6. \A j \in 1 .. field'[p] - 1 : components'[arg'[p][j][1]] = arg'[p][j][2]
    BY <1>1, <2>1, <2>2
  <2> QED
    BY <2>1, <2>2, <2>3, <2>4, <2>5, <2>6 DEF Types
<1> QED
  BY <1>3, <1>4

LEMMA InsertedStep ==
    ASSUME NEW p \in Conns, Registered(p), process = "up", Inserted(p)
    PROVE  Registered(p)'
<1> DEFINE c == Component(p)
<1>1. /\ pc[p] = "inserted" /\ NextField(p)
      /\ components' = [components EXCEPT ![c] = Schema(p)]
      /\ told' = told \cup {<<c, Schema(p)>>}
      /\ UNCHANGED <<process, metadata, config, recording, path, dir, schemaFile, metadataFile, configFile,
                     hurt, raced>>
  BY DEF Inserted, disk
<1>2. Creating(p) /\ Inserting(p) /\ lock = p
  BY <1>1 DEF Registered, CallerOf, Creating
<1>3. c \in Components /\ Schema(p) \in Schemas
  BY <1>2, CurrentField
<1>4. /\ c \in dir /\ components[c] = Absent /\ metadata[c] # Absent
      /\ schemaFile[c] \in {Schema(p), Torn}
  BY <1>1, <1>2 DEF Registered, ProgressOf
<1>5. components'[c] = Schema(p) /\ \A d \in Components \ {c} : components'[d] = components[d]
  BY <1>1, <1>3 DEF Registered, Types
<1>6. \A j \in 1 .. field[p] : components'[arg[p][j][1]] = arg[p][j][2]
  <2> TAKE j \in 1 .. field[p]
  <2>1. CASE j = field[p]
    BY <1>5, <2>1 DEF Component, Schema
  <2>2. CASE j # field[p]
    <3>1. j \in 1 .. field[p] - 1 /\ j \in 1 .. Len(arg[p])
      BY <1>2, <2>2, DBStateAssumption DEF Inserting
    <3>2. components[arg[p][j][1]] = arg[p][j][2]
      BY <1>2, <3>1 DEF Registered
    <3>3. arg[p][j] \in Components \X Schemas
      BY <1>2, <3>1, DBStateAssumption DEF Inserting
    <3>4. arg[p][j][1] # c
      BY <1>4, <3>2, <3>3, Marks
    <3> QED
      BY <1>5, <3>2, <3>3, <3>4
  <2> QED
    BY <2>1, <2>2
<1>7. \A d \in Components : components[d] # Absent => components'[d] = components[d]
  BY <1>4, <1>5
<1> HIDE DEF c
<1>8. /\ pc' \in [Conns -> Labels] /\ arg' \in [Conns -> Requests]
      /\ field' \in [Conns -> Nat] /\ copy' \in [Conns -> Settings]
      /\ lock' \in {p, Nobody} /\ registry' \subseteq VTables
      /\ pc'[p] \in {"idle", "insert"} /\ ~Creating(p)' /\ CallerOf(p)' /\ ProgressOf(p)'
      /\ RegisteredBacked'
      /\ pc'[p] = "insert" =>
           \A j \in 1 .. field'[p] - 1 : components'[arg'[p][j][1]] = arg'[p][j][2]
  BY <1>1, <1>2, <1>6, <1>7, NextFieldFacts DEF Registered
<1>9. Types'
  BY <1>1, <1>3, <1>8 DEF Registered, Types
<1>10. Files'
  BY <1>1, <1>4, <1>5 DEF Registered, Files
<1>11. Told'
  <2>1. ASSUME NEW t \in told, t[2] \in Schemas PROVE t[1] # c
    BY <1>4, <2>1, Marks DEF Registered, Told, ToldOf
  <2>2. ASSUME NEW t \in told PROVE ToldOf(t)'
    BY <1>1, <1>5, <2>1 DEF Registered, Told, ToldOf, Types
  <2> QED
    BY <1>1, <1>3, <1>4, <1>5, <2>2 DEF Told, ToldOf
<1>12. ASSUME NEW d \in Components PROVE Accounted(p, d)'
  <2>1. Accounted(p, d)
    BY DEF Registered
  <2>2. CASE d = c
    BY <1>1, <1>3, <1>5, <2>1, <2>2, Marks DEF Accounted
  <2>3. CASE d # c
    BY <1>1, <1>5, <2>1, <2>3 DEF Accounted, Stuck, c
  <2> QED
    BY <2>2, <2>3
<1> QED
  BY <1>8, <1>9, <1>10, <1>11, <1>12 DEF Registered

LEMMA InsertComponentStep ==
    ASSUME NEW p \in Conns, Registered(p), process = "up", InsertComponent(p)
    PROVE  Registered(p)'
<1> DEFINE c == Component(p)
<1>1. /\ pc[p] = "insert"
      /\ UNCHANGED <<process, components, metadata, config, recording, path, metadataFile, configFile,
                     told, hurt, raced>>
  BY DEF InsertComponent, history
<1>2. Inserting(p) /\ lock = p
  BY <1>1 DEF Registered, CallerOf
<1>3. c \in Components /\ Schema(p) \in Schemas
  BY <1>2, CurrentField
<1>4. CASE components[c] = Absent
  <2>1. CreateComponent(p, c)
    BY <1>3, <1>4, Marks DEF InsertComponent
  <2>2. dir' = dir \cup {c} /\ UNCHANGED <<registry, lock, arg, field, copy>>
    BY <2>1 DEF CreateComponent
  <2>3. /\ Inserting(p)' /\ Component(p)' = c /\ Schema(p)' = Schema(p)
        /\ \A j \in 1 .. field'[p] - 1 : components'[arg'[p][j][1]] = arg'[p][j][2]
    BY <1>1, <1>2, <2>2 DEF Registered, Inserting, Component, Schema
  <2>4. RegisteredBacked'
    BY <1>1, <2>2 DEF Registered, RegisteredBacked
  <2>5. CASE schemaFile[c] = Absent
    <3>1. schemaFile' = [schemaFile EXCEPT ![c] = Torn] /\ pc' = [pc EXCEPT ![p] = "write_schema"]
      BY <2>1, <2>5 DEF CreateComponent, Goto
    <3>2. /\ schemaFile'[c] = Torn /\ pc'[p] = "write_schema"
          /\ \A d \in Components \ {c} : schemaFile'[d] = schemaFile[d]
      BY <1>3, <3>1 DEF Registered, Types
    <3>3. Types'
      BY <1>1, <1>3, <2>2, <3>1 DEF Registered, Types, Labels
    <3> HIDE DEF c
    <3>4. CallerOf(p)' /\ Creating(p)'
      BY <1>2, <2>2, <2>3, <3>2 DEF CallerOf, Creating, Saving
    <3>5. ProgressOf(p)'
      BY <1>1, <1>4, <2>2, <2>3, <3>2 DEF ProgressOf
    <3>6. Files'
      BY <1>1, <1>4, <2>2, <3>2 DEF Registered, Files
    <3>7. Told'
      <4>1. ASSUME NEW t \in told, t[2] \in Schemas PROVE t[1] # c
        BY <1>4, <4>1, Marks DEF Registered, Told, ToldOf
      <4> QED
        BY <1>1, <2>2, <3>2, <4>1 DEF Registered, Told, ToldOf, Types
    <3>8. ASSUME NEW d \in Components PROVE Accounted(p, d)'
      <4>1. Accounted(p, d)
        BY DEF Registered
      <4>2. CASE d = c
        BY <1>1, <2>3, <3>2, <4>1, <4>2, Marks DEF Accounted, Whole
      <4>3. CASE d # c
        BY <1>1, <3>2, <4>1, <4>3 DEF Accounted, Stuck, Creating
      <4> QED
        BY <4>2, <4>3
    <3> QED
      BY <1>2, <2>2, <2>3, <2>4, <3>3, <3>4, <3>5, <3>6, <3>7, <3>8 DEF Registered
  <2>6. CASE schemaFile[c] # Absent
    <3>1. UNCHANGED schemaFile /\ pc' = [pc EXCEPT ![p] = "metadata"]
      BY <2>1, <2>6 DEF CreateComponent, Goto
    <3>2. pc'[p] = "metadata"
      BY <3>1 DEF Registered, Types
    <3>3. Types'
      BY <1>1, <1>3, <2>2, <3>1 DEF Registered, Types, Labels
    <3> HIDE DEF c
    <3>4. CallerOf(p)' /\ Creating(p)'
      BY <1>2, <2>2, <2>3, <3>2 DEF CallerOf, Creating, Saving
    <3>5. Accounted(p, c)
      BY <1>3 DEF Registered
    <3>6. Stuck(c) \/ schemaFile[c] = Torn
      BY <1>1, <1>4, <2>6, <3>5 DEF Accounted, Whole, Creating
    <3>7. ProgressOf(p)'
      BY <1>1, <1>4, <2>2, <2>3, <3>1, <3>2, <3>6 DEF ProgressOf, Stuck
    <3>8. Files' /\ Told'
      BY <1>1, <2>2, <3>1 DEF Registered, Files, Told, ToldOf
    <3>9. ASSUME NEW d \in Components PROVE Accounted(p, d)'
      <4>1. Accounted(p, d)
        BY DEF Registered
      <4> QED
        BY <1>1, <2>3, <3>1, <4>1, <3>4 DEF Accounted, Stuck, Creating
    <3> QED
      BY <1>2, <2>2, <2>3, <2>4, <3>3, <3>4, <3>7, <3>8, <3>9 DEF Registered
  <2> QED
    BY <2>5, <2>6
<1>5. ASSUME /\ pc' \in [Conns -> Labels] /\ arg' \in [Conns -> Requests]
             /\ field' \in [Conns -> Nat] /\ copy' \in [Conns -> Settings]
             /\ lock' \in {p, Nobody} /\ registry' \subseteq VTables
             /\ pc'[p] \in {"idle", "insert"} /\ ~Creating(p)' /\ CallerOf(p)' /\ ProgressOf(p)'
             /\ RegisteredBacked'
             /\ pc'[p] = "insert" =>
                  \A j \in 1 .. field'[p] - 1 : components'[arg'[p][j][1]] = arg'[p][j][2],
             UNCHANGED <<dir, schemaFile>>
      PROVE  Registered(p)'
  <2>1. Types'
    BY <1>1, <1>5, DBStateAssumption DEF Registered, Types
  <2>2. Files' /\ Told'
    BY <1>1, <1>5 DEF Registered, Files, Told, ToldOf
  <2>3. ASSUME NEW d \in Components PROVE Accounted(p, d)'
    BY <1>1, <1>5 DEF Registered, Accounted, Stuck, Creating
  <2> QED
    BY <1>5, <2>1, <2>2, <2>3 DEF Registered
<1>6. CASE components[c] = Schema(p)
  <2>1. NextField(p) /\ UNCHANGED <<dir, schemaFile>>
    BY <1>3, <1>6, Marks DEF InsertComponent
  <2>2. \A j \in 1 .. field[p] : components'[arg[p][j][1]] = arg[p][j][2]
    <3> TAKE j \in 1 .. field[p]
    <3>1. j = field[p] \/ j \in 1 .. field[p] - 1
      BY DEF Registered, Types
    <3> QED
      BY <1>1, <1>6, <3>1 DEF Registered, Component, Schema
  <2> HIDE DEF c
  <2> QED
    BY <1>1, <1>2, <1>5, <2>1, <2>2, NextFieldFacts DEF Registered
<1>7. CASE components[c] \notin {Absent, Schema(p)}
  <2>1. Return(p) /\ UNCHANGED <<registry, dir, schemaFile>>
    BY <1>7 DEF InsertComponent
  <2>2. RegisteredBacked' /\ registry' \subseteq VTables
    BY <1>1, <2>1 DEF Registered, RegisteredBacked, Types
  <2> HIDE DEF c
  <2> QED
    BY <1>2, <1>5, <2>1, <2>2, ReturnFacts DEF Registered
<1> QED
  BY <1>4, <1>6, <1>7

LEMMA DefaultMetadataStep ==
    ASSUME NEW p \in Conns, Registered(p), process = "up", DefaultMetadata(p)
    PROVE  Registered(p)'
<1> DEFINE c == Component(p)
<1>1. /\ pc[p] = "metadata"
      /\ UNCHANGED <<process, components, metadata, registry, config, recording, path, dir, schemaFile,
                     configFile, told, hurt, raced>>
  BY DEF DefaultMetadata, memory, history
<1>2. Creating(p) /\ Inserting(p) /\ lock = p
  BY <1>1 DEF Registered, CallerOf, Creating
<1>3. c \in Components /\ Schema(p) \in Schemas
  BY <1>2, CurrentField
<1>4. /\ c \in dir /\ components[c] = Absent
      /\ schemaFile[c] \in {Schema(p), Torn} \/ Stuck(c)
      /\ metadataFile[c] \in {metadata[c], Torn}
  BY <1>1, <1>2, <1>3 DEF Registered, ProgressOf, Files
<1>5. RegisteredBacked'
  BY <1>1 DEF Registered, RegisteredBacked
<1>6. ASSUME UNCHANGED <<arg, field>>
      PROVE  /\ Inserting(p)' /\ Component(p)' = c /\ Schema(p)' = Schema(p)
             /\ \A j \in 1 .. field'[p] - 1 : components'[arg'[p][j][1]] = arg'[p][j][2]
  BY <1>1, <1>2, <1>6 DEF Registered, Inserting, Component, Schema
<1>7. CASE metadata[c] # Absent
  <2>1. pc' = [pc EXCEPT ![p] = "inserted"] /\ UNCHANGED <<metadataFile, lock, arg, field, copy>>
    BY <1>7 DEF DefaultMetadata, Goto
  <2>2. pc'[p] = "inserted"
    BY <2>1 DEF Registered, Types
  <2>3. Types'
    BY <1>1, <2>1 DEF Registered, Types, Labels
  <2> HIDE DEF c
  <2>4. CallerOf(p)' /\ Creating(p)'
    BY <1>2, <1>6, <2>1, <2>2 DEF CallerOf, Creating, Saving
  <2>5. ProgressOf(p)'
    BY <1>1, <1>4, <1>6, <1>7, <2>1, <2>2 DEF ProgressOf, Stuck
  <2>6. Files' /\ Told'
    BY <1>1, <2>1 DEF Registered, Files, Told, ToldOf
  <2>7. ASSUME NEW d \in Components PROVE Accounted(p, d)'
    BY <1>1, <1>6, <2>1, <2>4 DEF Registered, Accounted, Stuck, c
  <2> QED
    BY <1>2, <1>5, <1>6, <2>1, <2>3, <2>4, <2>5, <2>6, <2>7 DEF Registered
<1>8. CASE metadata[c] = Absent /\ metadataFile[c] = Torn
  <2>1. Return(p) /\ UNCHANGED metadataFile
    BY <1>8, Marks DEF DefaultMetadata
  <2> HIDE DEF c
  <2>2. /\ pc' \in [Conns -> Labels] /\ arg' \in [Conns -> Requests]
        /\ field' \in [Conns -> Nat] /\ copy' \in [Conns -> Settings]
        /\ lock' = Nobody
        /\ pc'[p] = "idle" /\ ~Creating(p)' /\ CallerOf(p)' /\ ProgressOf(p)'
    BY <1>2, <2>1, ReturnFacts DEF Registered
  <2>3. Types'
    BY <1>1, <2>1, <2>2 DEF Registered, Types
  <2>4. Files' /\ Told'
    BY <1>1, <2>1 DEF Registered, Files, Told, ToldOf
  <2>5. ASSUME NEW d \in Components PROVE Accounted(p, d)'
    BY <1>1, <1>8, <2>1, <2>2 DEF Registered, Accounted, Stuck, c
  <2> QED
    BY <1>5, <2>2, <2>3, <2>4, <2>5 DEF Registered
<1>9. CASE metadata[c] = Absent /\ metadataFile[c] # Torn
  <2>1. /\ metadataFile' = [metadataFile EXCEPT ![c] = Torn] /\ pc' = [pc EXCEPT ![p] = "write_metadata"]
        /\ UNCHANGED <<lock, arg, field, copy>>
    BY <1>4, <1>9, Marks DEF DefaultMetadata, Goto
  <2>2. /\ pc'[p] = "write_metadata" /\ metadataFile'[c] = Torn
        /\ \A d \in Components \ {c} : metadataFile'[d] = metadataFile[d]
    BY <1>3, <2>1 DEF Registered, Types
  <2>3. Types'
    BY <1>1, <2>1 DEF Registered, Types, Labels
  <2> HIDE DEF c
  <2>4. CallerOf(p)' /\ Creating(p)'
    BY <1>2, <1>6, <2>1, <2>2 DEF CallerOf, Creating, Saving
  <2>5. ProgressOf(p)'
    BY <1>1, <1>4, <1>6, <1>9, <2>1, <2>2 DEF ProgressOf, Stuck
  <2>6. Files' /\ Told'
    BY <1>1, <1>4, <2>2 DEF Registered, Files, Told, ToldOf, Types
  <2>7. ASSUME NEW d \in Components PROVE Accounted(p, d)'
    <3>1. Accounted(p, d)
      BY DEF Registered
    <3> QED
      BY <1>1, <1>6, <2>1, <2>2, <2>4, <3>1 DEF Accounted, Stuck, c
  <2> QED
    BY <1>2, <1>5, <1>6, <2>1, <2>3, <2>4, <2>5, <2>6, <2>7 DEF Registered
<1> QED
  BY <1>7, <1>8, <1>9

LEMMA WriteMetadataStep ==
    ASSUME NEW p \in Conns, Registered(p), process = "up", WriteMetadata(p)
    PROVE  Registered(p)'
<1> DEFINE c == Component(p)
           n == IF Schema(p) \in Names THEN Schema(p) ELSE Default
<1>1. /\ pc[p] = "write_metadata"
      /\ metadataFile' = [metadataFile EXCEPT ![c] = n]
      /\ metadata' = [metadata EXCEPT ![c] = n]
      /\ told' = {t \in told : t[1] # c \/ t[2] \in Schemas} \cup {<<c, n>>}
      /\ IF n = Default THEN Goto(p, "inserted") /\ UNCHANGED <<lock, arg, field, copy>> ELSE Return(p)
      /\ UNCHANGED <<process, components, registry, config, recording, path, dir, schemaFile,
                     configFile, hurt, raced>>
  BY DEF WriteMetadata
<1>2. lock = p /\ (Inserting(p) \/ Describing(p))
  BY <1>1 DEF Registered, CallerOf
<1>3. /\ c \in Components /\ n \in Names \cup {Default} /\ n \notin Schemas /\ n # Absent
      /\ Inserting(p) <=> n = Default
  BY <1>2, CurrentField, Marks
<1>4. /\ c \in dir /\ metadataFile[c] = Torn
      /\ Inserting(p) => schemaFile[c] \in {Schema(p), Torn} /\ components[c] = Absent
      /\ ~Inserting(p) => components[c] # Absent \/ ~Whole(schemaFile[c])
  BY <1>1, <1>2 DEF Registered, ProgressOf, Creating
<1>5. /\ metadataFile'[c] = n /\ metadata'[c] = n
      /\ \A d \in Components \ {c} : metadataFile'[d] = metadataFile[d] /\ metadata'[d] = metadata[d]
  BY <1>1, <1>3 DEF Registered, Types
<1> HIDE DEF c, n
<1>6. RegisteredBacked'
  BY <1>1 DEF Registered, RegisteredBacked
<1>7. Files'
  BY <1>1, <1>3, <1>4, <1>5 DEF Registered, Files
<1>8. Told'
  <2>1. ASSUME NEW t \in told, t[1] # c \/ t[2] \in Schemas PROVE ToldOf(t)'
    BY <1>1, <1>5, <2>1 DEF Registered, Told, ToldOf, Types
  <2>2. PICK x : x = <<c, n>>
    OBVIOUS
  <2>3. ToldOf(x)'
    BY <1>1, <1>3, <1>4, <1>5, <2>2 DEF ToldOf
  <2> QED
    BY <1>1, <2>1, <2>2, <2>3 DEF Told
<1>9. /\ metadata' \in [Components -> Names \cup {Absent, Default}]
      /\ metadataFile' \in [Components -> Names \cup {Absent, Torn, Default}]
      /\ told' \subseteq Components \X (Schemas \cup Names \cup {Default})
  BY <1>1, <1>3 DEF Registered, Types
<1>10. CASE Inserting(p)
  <2>1. pc' = [pc EXCEPT ![p] = "inserted"] /\ UNCHANGED <<lock, arg, field, copy>>
    BY <1>1, <1>3, <1>10 DEF Goto
  <2>2. pc'[p] = "inserted"
    BY <2>1 DEF Registered, Types
  <2>3. Types'
    BY <1>1, <1>9, <2>1 DEF Registered, Types, Labels
  <2>4. Creating(p) /\ Inserting(p)' /\ Component(p)' = c /\ Schema(p)' = Schema(p)
    BY <1>1, <1>10, <2>1 DEF Creating, Inserting, Component, Schema, c
  <2>5. CallerOf(p)' /\ Creating(p)'
    BY <1>2, <2>1, <2>2, <2>4 DEF CallerOf, Creating, Saving
  <2>6. ProgressOf(p)'
    BY <1>1, <1>3, <1>4, <1>5, <1>10, <2>2, <2>4 DEF ProgressOf
  <2>7. \A j \in 1 .. field'[p] - 1 : components'[arg'[p][j][1]] = arg'[p][j][2]
    BY <1>1, <2>1, <2>4 DEF Registered
  <2>8. ASSUME NEW d \in Components PROVE Accounted(p, d)'
    <3>1. Accounted(p, d)
      BY DEF Registered
    <3> QED
      BY <1>1, <1>3, <1>5, <2>4, <2>5, <3>1, Marks DEF Accounted, Stuck, c
  <2> QED
    BY <1>2, <1>6, <1>7, <1>8, <2>1, <2>3, <2>5, <2>6, <2>7, <2>8 DEF Registered
<1>11. CASE ~Inserting(p)
  <2>1. Return(p)
    BY <1>1, <1>3, <1>11
  <2>2. /\ pc' \in [Conns -> Labels] /\ arg' \in [Conns -> Requests]
        /\ field' \in [Conns -> Nat] /\ copy' \in [Conns -> Settings]
        /\ lock' = Nobody
        /\ pc'[p] = "idle" /\ ~Creating(p)' /\ CallerOf(p)' /\ ProgressOf(p)'
    BY <1>2, <2>1, ReturnFacts DEF Registered
  <2>3. Types'
    BY <1>1, <1>9, <2>2 DEF Registered, Types
  <2>4. ASSUME NEW d \in Components PROVE Accounted(p, d)'
    <3>1. Accounted(p, d) /\ ~Creating(p)
      BY <1>1, <1>11 DEF Registered, Creating
    <3> QED
      BY <1>1, <1>3, <1>4, <1>5, <1>11, <2>2, <3>1, Marks DEF Accounted, Stuck, c
  <2> QED
    BY <1>6, <1>7, <1>8, <2>2, <2>3, <2>4 DEF Registered
<1> QED
  BY <1>10, <1>11

LEMMA SetComponentMetadataStep ==
    ASSUME NEW p \in Conns, Registered(p), process = "up", SetComponentMetadata(p)
    PROVE  Registered(p)'
<1>1. /\ pc[p] = "idle" /\ lock = Nobody
      /\ UNCHANGED <<process, components, metadata, registry, config, recording, path, schemaFile,
                     configFile, told, hurt, raced>>
  BY DEF SetComponentMetadata, CanCall, memory, history
<1>2. PICK c \in Components, n \in Names :
        /\ dir' = dir \cup {c}
        /\ IF metadataFile[c] \in {Torn, n}
           THEN UNCHANGED <<metadataFile, callers>>
           ELSE /\ metadataFile' = [metadataFile EXCEPT ![c] = Torn]
                /\ arg' = [arg EXCEPT ![p] = <<<<c, n>>>>]
                /\ pc' = [pc EXCEPT ![p] = "write_metadata"] /\ lock' = p
                /\ UNCHANGED <<field, copy>>
  BY DEF SetComponentMetadata, Goto
<1>3. RegisteredBacked'
  BY <1>1 DEF Registered, RegisteredBacked
<1>4. CASE metadataFile[c] \in {Torn, n}
  <2>1. UNCHANGED <<metadataFile, lock, pc, arg, field, copy>>
    BY <1>2, <1>4 DEF callers
  <2>2. ~Creating(p)' /\ pc'[p] = "idle"
    BY <1>1, <2>1 DEF Creating
  <2>3. Types' /\ CallerOf(p)'
    BY <1>1, <1>2, <2>1 DEF Registered, Types, CallerOf, Creating, Inserting, Describing, Saving
  <2>4. Files' /\ Told' /\ ProgressOf(p)'
    BY <1>1, <1>2, <2>1, <2>2 DEF Registered, Files, Told, ToldOf, ProgressOf
  <2>5. ASSUME NEW d \in Components PROVE Accounted(p, d)'
    BY <1>1, <2>1 DEF Registered, Accounted, Stuck, Creating
  <2> QED
    BY <1>1, <1>3, <2>1, <2>2, <2>3, <2>4, <2>5 DEF Registered
<1>5. CASE metadataFile[c] \notin {Torn, n}
  <2>1. /\ metadataFile' = [metadataFile EXCEPT ![c] = Torn]
        /\ arg' = [arg EXCEPT ![p] = <<<<c, n>>>>]
        /\ pc' = [pc EXCEPT ![p] = "write_metadata"] /\ lock' = p
        /\ UNCHANGED <<field, copy>>
    BY <1>2, <1>5
  <2>2. <<<<c, n>>>> \in Seq(Components \X Names) /\ Len(<<<<c, n>>>>) = 1
    OBVIOUS
  <2>3. /\ pc'[p] = "write_metadata" /\ arg'[p] = <<<<c, n>>>> /\ field'[p] = 1
        /\ metadataFile'[c] = Torn
        /\ \A d \in Components \ {c} : metadataFile'[d] = metadataFile[d]
    BY <1>1, <2>1 DEF Registered, Types, CallerOf
  <2>4. arg' \in [Conns -> Requests]
    BY <2>1, <2>2 DEF Registered, Types, Requests
  <2>5. Types'
    BY <1>1, <1>2, <2>1, <2>4 DEF Registered, Types, Labels
  <2>6. Describing(p)' /\ Component(p)' = c
    BY <2>2, <2>3 DEF Describing, Component
  <2>7. ~Inserting(p)'
    <3>1. arg'[p] \notin VTables
      <4>1. ASSUME arg'[p] \in VTables PROVE FALSE
        <5>1. arg'[p] \in Seq(Components \X Schemas)
          BY <4>1, DBStateAssumption
        <5>2. arg'[p][1] \in Components \X Schemas
          BY <2>2, <2>3, <5>1
        <5> QED
          BY <2>3, <5>2, Marks
      <4> QED
        BY <4>1
    <3> QED
      BY <3>1 DEF Inserting
  <2>8. CallerOf(p)' /\ ~Creating(p)'
    BY <2>1, <2>3, <2>6, <2>7 DEF CallerOf, Creating, Saving
  <2>9. Accounted(p, c) /\ ~Creating(p)
    BY <1>1 DEF Registered, Creating
  <2>10. components[c] # Absent \/ ~Whole(schemaFile[c])
    BY <1>5, <2>9 DEF Accounted, Stuck
  <2>11. ProgressOf(p)'
    BY <1>1, <1>2, <2>3, <2>6, <2>7, <2>8, <2>10 DEF ProgressOf
  <2>12. Files' /\ Told'
    <3>1. Files'
      BY <1>1, <1>2, <2>3 DEF Registered, Files, Types
    <3>2. Told'
      BY <1>1, <1>2, <2>3 DEF Registered, Told, ToldOf, Types
    <3> QED
      BY <3>1, <3>2
  <2>13. ASSUME NEW d \in Components PROVE Accounted(p, d)'
    <3>1. Accounted(p, d)
      BY DEF Registered
    <3>2. CASE d = c
      BY <1>1, <2>3, <2>6, <2>10, <3>1, <3>2 DEF Accounted
    <3>3. CASE d # c
      BY <1>1, <2>3, <2>9, <3>1, <3>3 DEF Accounted, Stuck
    <3> QED
      BY <3>2, <3>3
  <2> QED
    BY <1>3, <2>1, <2>3, <2>5, <2>8, <2>11, <2>12, <2>13 DEF Registered
<1> QED
  BY <1>4, <1>5

LEMMA WriteFailsStep ==
    ASSUME NEW p \in Conns, Registered(p), process = "up", WriteFails(p),
           pc[p] \in {"write_schema", "write_metadata"}
    PROVE  Registered(p)'
<1>1. /\ hurt' = TRUE /\ raced' = TRUE /\ Return(p)
      /\ UNCHANGED <<process, components, metadata, registry, config, recording, path, dir, schemaFile,
                     metadataFile, configFile, told>>
  BY DEF WriteFails, memory, disk
<1>2. lock = p
  BY DEF Registered, CallerOf, Creating
<1>3. /\ pc' \in [Conns -> Labels] /\ arg' \in [Conns -> Requests]
      /\ field' \in [Conns -> Nat] /\ copy' \in [Conns -> Settings]
      /\ lock' = Nobody
      /\ pc'[p] = "idle" /\ ~Creating(p)' /\ CallerOf(p)' /\ ProgressOf(p)'
  BY <1>1, <1>2, ReturnFacts DEF Registered
<1>4. Types'
  BY <1>1, <1>3 DEF Registered, Types
<1>5. Files' /\ Told' /\ RegisteredBacked'
  BY <1>1 DEF Registered, Files, Told, ToldOf, RegisteredBacked
<1>6. ASSUME NEW d \in Components PROVE Accounted(p, d)'
  <2>1. Accounted(p, d) /\ ProgressOf(p)
    BY DEF Registered
  <2>2. ASSUME components[d] = Absent, Whole(schemaFile[d]), Creating(p), Component(p) = d
        PROVE  Stuck(d)
    <3>1. pc[p] = "write_metadata" /\ Inserting(p)
      BY <2>1, <2>2, Marks DEF ProgressOf, Whole, Creating
    <3> QED
      BY <2>1, <2>2, <3>1 DEF ProgressOf, Stuck
  <2> QED
    BY <1>1, <1>3, <2>1, <2>2 DEF Accounted, Stuck
<1> QED
  BY <1>3, <1>4, <1>5, <1>6 DEF Registered

(* Every step of a request about a component. *)
LEMMA RegisterStep ==
    ASSUME IInv, NEW p \in Conns, Registers(p), Call(p) \/ Step(p)
    PROVE  IInv'
<1>1. Alone(p) /\ process = "up" /\ process' = "up" /\ UNCHANGED path
  BY StepAlone
<1>2. Registered(p)
  BY <1>1, RegisterFrame, RegisteredBefore
<1>3. Registered(p)'
  BY <1>1, <1>2, InsertVTableStep, InsertComponentStep, WriteSchemaStep, DefaultMetadataStep, InsertedStep,
     SetComponentMetadataStep, WriteMetadataStep, WriteFailsStep
  DEF Registers
<1>4. hurt => hurt'
  BY DEF Registers, InsertVTable, InsertComponent, WriteSchema, DefaultMetadata, Inserted,
     SetComponentMetadata, WriteMetadata, WriteFails, history
<1> QED
  BY <1>1, <1>3, <1>4, RegisteredAfter

-----------------------------------------------------------------------------
(* With no request under way there is nothing to say about requests. *)
LEMMA NobodyCalls ==
    ASSUME \A p \in Conns : pc'[p] = "idle" /\ field'[p] = 1, lock' = Nobody
    PROVE  Callers' /\ Progress' /\ (RegisteredBacked' => Backed')
<1>1. \A p \in Conns : ~Creating(p)' /\ ~Saving(p)' /\ lock' # p
  BY DBStateAssumption DEF Creating, Saving
<1>2. Callers'
  BY <1>1 DEF Callers, CallerOf
<1>3. Progress'
  BY <1>1 DEF Progress, ProgressOf
<1> QED
  BY <1>1, <1>2, <1>3 DEF Backed

LEMMA CreateStep == ASSUME IInv, Create PROVE IInv'
<1>1. /\ process = "down" /\ ~path /\ process' = "creating" /\ path' = TRUE
      /\ UNCHANGED <<memory, dir, schemaFile, metadataFile, configFile, callers, told, hurt, raced>>
  BY DEF Create, history
<1>2. Types' /\ Quiet'
  BY <1>1 DEF IInv, Types, Quiet, memory, callers
<1>3. \A p \in Conns : pc[p] = "idle" /\ field[p] = 1
  BY <1>1 DEF IInv, Quiet, Callers, CallerOf
<1>4. lock' = Nobody /\ \A p \in Conns : pc'[p] = "idle" /\ field'[p] = 1
  BY <1>1, <1>3 DEF IInv, Quiet, callers
<1>5. RegisteredBacked'
  BY <1>1 DEF IInv, Backed, RegisteredBacked, memory
<1>6. Callers' /\ Progress' /\ Backed'
  BY <1>4, <1>5, NobodyCalls
<1>7. Files' /\ HalfMade' /\ Told' /\ Unhurt' /\ Saves'
  BY <1>1 DEF IInv, Files, HalfMade, Told, ToldOf, Unhurt, Saves
<1> QED
  BY <1>2, <1>6, <1>7 DEF IInv

LEMMA CreateSaveStep == ASSUME IInv, CreateSave PROVE IInv'
<1>1. /\ process = "creating" /\ process' = "up" /\ configFile' = <<NoConfig>>
      /\ UNCHANGED <<components, metadata, registry, config, recording, path, dir, schemaFile, metadataFile,
                     lock, pc, arg, field, copy, told, hurt, raced>>
  BY DEF CreateSave, memory, callers, history
<1>2. /\ components = Fresh /\ metadata = Fresh /\ registry = {} /\ config = NoConfig /\ recording = TRUE
      /\ lock = Nobody /\ dir = {}
      /\ \A p \in Conns : pc[p] = "idle" /\ field[p] = 1
  BY <1>1 DEF IInv, Quiet, Files, Callers, CallerOf
<1>3. \A c \in Components : /\ schemaFile[c] = Absent /\ metadataFile[c] = Absent
                            /\ components[c] = Absent /\ metadata[c] = Absent
  BY <1>2 DEF IInv, Files, Fresh
<1>4. Types'
  BY <1>1 DEF IInv, Types, NoConfig, Settings
<1>5. Quiet' /\ RegisteredBacked'
  BY <1>1, <1>2 DEF Quiet, RegisteredBacked
<1>6. Callers' /\ Progress' /\ Backed'
  BY <1>1, <1>2, <1>5, NobodyCalls
<1>7. Files' /\ HalfMade'
  BY <1>1, <1>2, <1>3 DEF IInv, Files, HalfMade, Whole
<1>8. Told'
  BY <1>1, <1>2 DEF IInv, Told, ToldOf
<1>9. Unhurt'
  BY <1>1, <1>3, Marks DEF Unhurt
<1>10. Saves'
  BY <1>1, <1>2 DEF Saves, SaveOf, ConfigSaved, Saving, NoConfig
<1> QED
  BY <1>4, <1>5, <1>6, <1>7, <1>8, <1>9, <1>10 DEF IInv

LEMMA OpenStep == ASSUME IInv, Open PROVE IInv'
<1>1. /\ process = "down" /\ path
      /\ UNCHANGED <<path, dir, schemaFile, metadataFile, configFile, lock, pc, arg, field, copy, told, hurt>>
  BY DEF Open, disk, callers
<1>2. lock = Nobody /\ \A p \in Conns : pc[p] = "idle" /\ field[p] = 1
  BY <1>1 DEF IInv, Quiet, Callers, CallerOf
<1>3. CASE ~Opens
  <2>1. process' = "refused" /\ UNCHANGED <<components, metadata, registry, config, recording, raced>>
    BY <1>3 DEF Open, memory
  <2>2. hurt
    BY <1>1, <1>3 DEF IInv, Unhurt
  <2>3. Types' /\ Quiet' /\ RegisteredBacked'
    BY <1>1, <2>1 DEF IInv, Types, Quiet, Backed, RegisteredBacked
  <2>4. Callers' /\ Progress' /\ Backed'
    BY <1>1, <1>2, <2>3, NobodyCalls
  <2>5. Files' /\ HalfMade' /\ Told' /\ Unhurt' /\ Saves'
    BY <1>1, <2>1, <2>2 DEF IInv, Files, HalfMade, Told, ToldOf, Unhurt, Saves
  <2> QED
    BY <2>3, <2>4, <2>5 DEF IInv
<1>4. CASE Opens
  <2>1. /\ process' = "up" /\ registry' = {} /\ config' = NoConfig /\ raced' = TRUE
        /\ components' = [c \in Components |-> IF c \in dir THEN schemaFile[c] ELSE Absent]
        /\ metadata' = [c \in Components |-> IF c \in dir THEN metadataFile[c] ELSE Absent]
        /\ recording' = configFile[1].recording
    BY <1>4 DEF Open
  <2>2. ASSUME NEW c \in Components
        PROVE  /\ components'[c] = schemaFile[c] /\ metadata'[c] = metadataFile[c]
               /\ c \in dir => /\ schemaFile[c] \in Schemas
                               /\ metadataFile[c] \in Names \cup {Default}
               /\ c \notin dir => schemaFile[c] = Absent /\ metadataFile[c] = Absent
    BY <1>4, <2>1 DEF IInv, Types, Files, Opens, Whole
  <2>3. recording' \in BOOLEAN
    <3>1. PICK x \in Settings : configFile = <<x>>
      BY <1>4 DEF IInv, Types, Opens
    <3> QED
      BY <2>1, <3>1 DEF Settings
  <2>4. /\ components' \in [Components -> Schemas \cup {Absent}]
        /\ metadata' \in [Components -> Names \cup {Absent, Default}]
    BY <2>1, <2>2
  <2>5. Types'
    BY <1>1, <2>1, <2>3, <2>4 DEF IInv, Types, NoConfig, Settings
  <2>6. Quiet' /\ RegisteredBacked' /\ Saves'
    BY <2>1 DEF Quiet, RegisteredBacked, Saves
  <2>7. Callers' /\ Progress' /\ Backed'
    BY <1>1, <1>2, <2>6, NobodyCalls
  <2>8. Files' /\ HalfMade'
    BY <1>1, <2>1, <2>2, Marks DEF IInv, Files, HalfMade, Whole
  <2>9. Told'
    <3>1. ASSUME NEW t \in told PROVE ToldOf(t)'
      BY <1>1, <2>1, <2>2, Marks DEF IInv, Types, Told, ToldOf
    <3> QED
      BY <1>1, <3>1 DEF Told
  <2>10. Unhurt'
    BY <1>1, <1>4, <2>1, <2>2, Marks DEF Unhurt, Opens
  <2> QED
    BY <2>5, <2>6, <2>7, <2>8, <2>9, <2>10 DEF IInv
<1> QED
  BY <1>3, <1>4

(* A kill leaves the files as they are, and if they cannot be opened there is
   one to blame. *)
LEMMA CrashStep == ASSUME IInv, Crash PROVE IInv'
<1>1. /\ process \in {"creating", "up"} /\ process' = "down"
      /\ hurt' = (hurt \/ Midway \/ Undefined # {})
      /\ components' = Fresh /\ metadata' = Fresh /\ registry' = {}
      /\ config' = NoConfig /\ recording' = TRUE
      /\ UNCHANGED <<path, dir, schemaFile, metadataFile, configFile, told, raced>>
  BY DEF Crash, disk
<1>2. /\ lock' = Nobody /\ pc' = [p \in Conns |-> "idle"]
      /\ arg' = [p \in Conns |-> <<>>] /\ field' = [p \in Conns |-> 1]
      /\ copy' = [p \in Conns |-> NoConfig]
  BY DEF Crash, Forget
<1>3. Types'
  <2>1. hurt' \in BOOLEAN
    BY <1>1 DEF IInv, Types, Midway
  <2> QED
    BY <1>1, <1>2, <2>1 DEF IInv, Types, Fresh, NoConfig, Settings, Labels, Requests
<1>4. Quiet' /\ RegisteredBacked' /\ Saves' /\ HalfMade'
  BY <1>1, <1>2 DEF Quiet, RegisteredBacked, Saves, HalfMade, Fresh
<1>5. Callers' /\ Progress' /\ Backed'
  BY <1>2, <1>4, NobodyCalls
<1>6. Files' /\ Told'
  BY <1>1 DEF IInv, Files, Told, ToldOf
<1>7. Unhurt'
  <2> SUFFICES ASSUME ~hurt' PROVE Opens'
    BY <1>1 DEF Unhurt
  <2>1. process = "up" /\ ~hurt /\ Undefined = {}
    BY <1>1 DEF Midway
  <2>2. \A p \in Conns : pc[p] \notin {"write_schema", "write_metadata", "write_config"}
    BY <1>1 DEF Midway
  <2>3. configFile # <<>>
    BY <2>1, <2>2 DEF IInv, Unhurt
  <2>4. ASSUME NEW c \in dir PROVE Whole(schemaFile[c]) /\ Whole(metadataFile[c])
    <3>1. c \in Components /\ components[c] # Absent
      BY <2>1 DEF IInv, Types, Undefined
    <3>2. schemaFile[c] # Torn /\ metadataFile[c] # Torn
      BY <2>1, <2>2, <3>1 DEF IInv, Unhurt
    <3> QED
      BY <2>1, <3>1, <3>2 DEF IInv, Files, Whole
  <2> QED
    BY <1>1, <2>3, <2>4 DEF Opens
<1> QED
  BY <1>3, <1>4, <1>5, <1>6, <1>7 DEF IInv

-----------------------------------------------------------------------------
LEMMA IInvStep == IInv /\ [Next]_vars => IInv'
<1> SUFFICES ASSUME IInv, [Next]_vars PROVE IInv'
  OBVIOUS
<1>1. CASE Create \/ CreateSave \/ Open \/ Crash
  BY <1>1, CreateStep, CreateSaveStep, OpenStep, CrashStep
<1>2. ASSUME NEW p \in Conns, Call(p) \/ Step(p) PROVE IInv'
  <2>1. Configures(p) \/ Registers(p)
    BY <1>2 DEF Call, Step, Configures, Registers, WriteFails
  <2> QED
    BY <1>2, <2>1, ConfigureStep, RegisterStep
<1>3. CASE UNCHANGED vars
  <2>1. UNCHANGED <<process, components, metadata, registry, config, recording, path, dir, schemaFile,
                    metadataFile, configFile, lock, pc, arg, field, copy, told, hurt, raced>>
    BY <1>3 DEF vars, memory, disk, callers, history
  <2>2. Types'
    BY <2>1 DEF IInv, Types
  <2>3. Callers' /\ Quiet'
    BY <2>1 DEF IInv, Callers, CallerOf, Quiet, Creating, Inserting, Describing, Saving
  <2>4. Files' /\ Told'
    BY <2>1 DEF IInv, Files, Told, ToldOf
  <2>5. HalfMade'
    BY <2>1 DEF IInv, HalfMade, Stuck, Creating, Inserting, Component
  <2>6. Progress'
    BY <2>1 DEF IInv, Progress, ProgressOf, Stuck, Creating, Inserting, Component, Schema
  <2>7. Backed'
    BY <2>1 DEF IInv, Backed, RegisteredBacked, Creating, Inserting
  <2>8. Unhurt'
    BY <2>1 DEF IInv, Unhurt, Opens, Component
  <2>9. Saves'
    BY <2>1 DEF IInv, Saves, SaveOf, ConfigSaved, Saving
  <2> QED
    BY <2>2, <2>3, <2>4, <2>5, <2>6, <2>7, <2>8, <2>9 DEF IInv
<1> QED
  BY <1>1, <1>2, <1>3 DEF Next

LEMMA Invariance == Spec => []IInv
BY InitIInv, IInvStep, PTL DEF Spec

(* DB::open is refused only by what a kill in the middle of a request, a failed
   write, or a component described and never defined has left behind. *)
THEOREM Reopening == Spec => []Reopens
<1>1. IInv => Reopens
  BY DEF IInv, Unhurt, Reopens
<1> QED
  BY <1>1, Invariance, PTL

(* What insert_component and set_component_metadata acknowledged is there in
   every later run of the database that opens. *)
THEOREM Memory == Spec => []ToldKept
<1>1. IInv => ToldKept
  BY DEF IInv, Told, ToldOf, ToldKept
<1> QED
  BY <1>1, Invariance, PTL

(* A vtable that insert_vtable registered has all its components. *)
THEOREM Backing == Spec => []RegisteredBacked
<1>1. IInv => RegisteredBacked
  BY DEF IInv, Backed
<1> QED
  BY <1>1, Invariance, PTL

(* save_db_state leaves on disk what SetDbConfig set, unless another overlapped. *)
THEOREM Configuration == Spec => []ConfigSaved
<1>1. IInv => ConfigSaved
  BY DEF IInv, Saves, ConfigSaved
<1> QED
  BY <1>1, Invariance, PTL
=============================================================================

------------------------------- MODULE DBState -------------------------------
(***************************************************************************)
(* What a database keeps about its components and its settings, in memory  *)
(* (State of libs/db/src/lib.rs) and in its directory: DB::create, open,   *)
(* insert_vtable, save_db_state, State::insert_component and               *)
(* set_component_metadata, and the SetDbConfig arm of handle_packet.       *)
(* Samples and messages are in TimeSeries and MsgLog.                      *)
(*                                                                         *)
(* A connection takes the lock of State for a whole table or a metadata    *)
(* message, but saves its settings outside it.  fs::write truncates the    *)
(* file and writes it afterwards; the process may die, and the write may   *)
(* fail, in between.                                                       *)
(***************************************************************************)
EXTENDS Integers, Sequences, FiniteSets, SequencesExt

CONSTANTS
    Components, Schemas,
    Names,       \* metadata a client may set
    Keys,        \* metadata entries of SetDbConfig
    Conns,       \* the connections that change something
    VTables,     \* the vtables they send: fields <<component, schema>>, at least one
    MaxOps, MaxCrashes, MaxFaults  \* bounds

Absent == "absent"
Torn == "torn"
Default == "default"  \* the metadata of a component nobody described
Nobody == "nobody"

ASSUME DBStateAssumption ==
    /\ VTables \subseteq Seq(Components \X Schemas) \ {<<>>}
    /\ {Absent, Torn, Default} \cap (Schemas \cup Names) = {}
    /\ Schemas \cap Names = {} /\ Nobody \notin Conns
    /\ {MaxOps, MaxCrashes, MaxFaults} \subseteq Nat

VARIABLES
    process,     \* down, creating, up, or refused: DB::open ended in an error
    components,  \* State::components: the schema of each, or Absent
    metadata,    \* State::component_metadata
    registry,    \* State::vtable_registry
    config,      \* State::db_config
    recording,   \* recording_cell
    path,        \* whether the directory of the database exists
    dir,         \* the component directories
    schemaFile, metadataFile,  \* their two files
    configFile,  \* db_state: <<its content>>, or <<>> if it is absent or truncated
    lock,        \* who holds the lock of State
    pc, arg, field, copy,      \* every connection: next statement, argument, its field, config to save
    ops, crashes, faults,      \* counts
    told,        \* history: the (component, schema) and (component, name) acknowledged
    hurt,        \* history: a file was left torn, or a directory without its files
    raced        \* history: two saves overlapped, or the flag was not set since the start

memory == <<components, metadata, registry, config, recording>>
disk == <<path, dir, schemaFile, metadataFile, configFile>>
counts == <<ops, crashes, faults>>
history == <<told, hurt, raced>>
callers == <<lock, pc, arg, field, copy>>
vars == <<process, memory, disk, callers, counts, history>>

NoConfig == [recording |-> TRUE, entries |-> {}]
Fresh == [c \in Components |-> Absent]

Forget ==
    /\ lock' = Nobody
    /\ pc' = [p \in Conns |-> "idle"]
    /\ arg' = [p \in Conns |-> <<>>] /\ field' = [p \in Conns |-> 1]
    /\ copy' = [p \in Conns |-> NoConfig]

Init ==
    /\ process = "down"
    /\ components = Fresh /\ metadata = Fresh /\ registry = {}
    /\ config = NoConfig /\ recording = TRUE
    /\ path = FALSE /\ dir = {} /\ schemaFile = Fresh /\ metadataFile = Fresh
    /\ configFile = <<>>
    /\ lock = Nobody /\ pc = [p \in Conns |-> "idle"]
    /\ arg = [p \in Conns |-> <<>>] /\ field = [p \in Conns |-> 1]
    /\ copy = [p \in Conns |-> NoConfig]
    /\ ops = 0 /\ crashes = 0 /\ faults = 0
    /\ told = {} /\ hurt = FALSE /\ raced = FALSE

-----------------------------------------------------------------------------
(* Server::from_listener: DB::create when there is no directory.  It makes the
   directory, then saves the settings. *)
Create ==
    /\ process = "down" /\ ~path
    /\ process' = "creating" /\ path' = TRUE
    /\ UNCHANGED <<memory, dir, schemaFile, metadataFile, configFile, callers, counts, history>>

CreateSave ==
    /\ process = "creating"
    /\ configFile' = <<NoConfig>> /\ process' = "up"
    /\ UNCHANGED <<memory, path, dir, schemaFile, metadataFile, callers, counts, history>>

Whole(file) == file \notin {Absent, Torn}

(* DB::open reads the two files of every component directory, then db_state. *)
Opens ==
    /\ \A c \in dir : Whole(schemaFile[c]) /\ Whole(metadataFile[c])
    /\ configFile # <<>>

(* DB::open: components and metadata from disk, db_config from its default,
   the recording flag from db_state. *)
Open ==
    /\ process = "down" /\ path
    /\ IF Opens
       THEN /\ process' = "up"
            /\ components' = [c \in Components |-> IF c \in dir THEN schemaFile[c] ELSE Absent]
            /\ metadata' = [c \in Components |-> IF c \in dir THEN metadataFile[c] ELSE Absent]
            /\ registry' = {} /\ config' = NoConfig
            /\ recording' = configFile[1].recording
            /\ raced' = TRUE
       ELSE /\ process' = "refused"
            /\ UNCHANGED <<memory, raced>>
    /\ UNCHANGED <<disk, callers, counts, told, hurt>>

(* The process is killed.  What its connections were in the middle of stays as
   it is on disk. *)
Midway ==
    \/ process = "creating"
    \/ \E p \in Conns : pc[p] \in {"write_schema", "metadata", "write_metadata", "write_config"}

(* Directories of components that were described and never defined. *)
Undefined == {c \in dir : components[c] = Absent}

Crash ==
    /\ process \in {"creating", "up"} /\ crashes < MaxCrashes
    /\ process' = "down" /\ crashes' = crashes + 1
    /\ hurt' = (hurt \/ Midway \/ Undefined # {})
    /\ components' = Fresh /\ metadata' = Fresh /\ registry' = {}
    /\ config' = NoConfig /\ recording' = TRUE
    /\ Forget
    /\ UNCHANGED <<disk, ops, faults, told, raced>>

-----------------------------------------------------------------------------
Goto(p, label) == pc' = [pc EXCEPT ![p] = label]

(* A request is over: the lock is released. *)
Return(p) ==
    /\ Goto(p, "idle")
    /\ arg' = [arg EXCEPT ![p] = <<>>] /\ field' = [field EXCEPT ![p] = 1]
    /\ lock' = IF lock = p THEN Nobody ELSE lock
    /\ copy' = [copy EXCEPT ![p] = NoConfig]

CanCall(p) == process = "up" /\ pc[p] = "idle" /\ ops < MaxOps

(* insert_vtable, under the lock: one field after the other. *)
InsertVTable(p) ==
    /\ CanCall(p) /\ lock = Nobody
    /\ lock' = p /\ ops' = ops + 1
    /\ \E v \in VTables : arg' = [arg EXCEPT ![p] = v]
    /\ Goto(p, "insert")
    /\ UNCHANGED <<process, memory, disk, field, copy, crashes, faults, history>>

Component(p) == arg[p][field[p]][1]
Schema(p) == arg[p][field[p]][2]

(* The next field; after the last one the vtable is registered. *)
NextField(p) ==
    IF field[p] = Len(arg[p])
    THEN /\ registry' = registry \cup {arg[p]}
         /\ Return(p)
    ELSE /\ field' = [field EXCEPT ![p] = @ + 1]
         /\ Goto(p, "insert")
         /\ UNCHANGED <<registry, lock, arg, copy>>

(* Component::create makes the directory; a schema file is not replaced. *)
CreateComponent(p, c) ==
    /\ dir' = dir \cup {c}
    /\ IF schemaFile[c] = Absent
       THEN /\ schemaFile' = [schemaFile EXCEPT ![c] = Torn]
            /\ Goto(p, "write_schema")
       ELSE Goto(p, "metadata") /\ UNCHANGED schemaFile
    /\ UNCHANGED <<registry, lock, arg, field, copy>>

(* Mutant: a component of another schema passes. *)
InsertComponentUnchecked(p) ==
    /\ pc[p] = "insert"
    /\ IF components[Component(p)] = Absent
       THEN CreateComponent(p, Component(p))
       ELSE NextField(p) /\ UNCHANGED <<dir, schemaFile>>
    /\ UNCHANGED <<process, components, metadata, config, recording, path, metadataFile,
                   configFile, counts, history>>

(* insert_component: a component that is there is left alone, or refused if its
   schema differs, and then the vtable ends at that field. *)
InsertComponent(p) ==
    /\ pc[p] = "insert"
    /\ CASE components[Component(p)] = Absent -> CreateComponent(p, Component(p))
         [] components[Component(p)] = Schema(p) ->
                NextField(p) /\ UNCHANGED <<dir, schemaFile>>
         [] OTHER -> Return(p) /\ UNCHANGED <<registry, dir, schemaFile>>
    /\ UNCHANGED <<process, components, metadata, config, recording, path, metadataFile,
                   configFile, counts, history>>

WriteSchema(p) ==
    /\ pc[p] = "write_schema"
    /\ schemaFile' = [schemaFile EXCEPT ![Component(p)] = Schema(p)]
    /\ Goto(p, "metadata")
    /\ UNCHANGED <<process, memory, path, dir, metadataFile, configFile, lock, arg, field,
                   copy, counts, history>>

(* Mutant: a component that nobody described gets no metadata file. *)
DefaultMetadataSkipped(p) ==
    /\ pc[p] = "metadata"
    /\ Goto(p, "inserted")
    /\ UNCHANGED <<process, memory, disk, lock, arg, field, copy, counts, history>>

(* The metadata of a component that has none is its default, through
   set_component_metadata. *)
DefaultMetadata(p) ==
    /\ pc[p] = "metadata"
    /\ LET c == Component(p)
       IN  CASE metadata[c] # Absent \/ metadataFile[c] = Default ->
                    Goto(p, "inserted") /\ UNCHANGED <<metadataFile, lock, arg, field, copy>>
             [] metadata[c] = Absent /\ metadataFile[c] = Torn ->
                    Return(p) /\ UNCHANGED metadataFile
             [] OTHER -> /\ metadataFile' = [metadataFile EXCEPT ![c] = Torn]
                         /\ Goto(p, "write_metadata")
                         /\ UNCHANGED <<lock, arg, field, copy>>
    /\ UNCHANGED <<process, memory, path, dir, schemaFile, configFile, counts, history>>

(* components.insert *)
Inserted(p) ==
    /\ pc[p] = "inserted"
    /\ components' = [components EXCEPT ![Component(p)] = Schema(p)]
    /\ told' = told \cup {<<Component(p), Schema(p)>>}
    /\ NextField(p)
    /\ UNCHANGED <<process, metadata, config, recording, disk, counts, hurt, raced>>

-----------------------------------------------------------------------------
(* set_component_metadata for a SetComponentMetadata message: the directory is
   made, a file with the same content is left, a file that cannot be read is
   an error. *)
SetComponentMetadata(p) ==
    /\ CanCall(p) /\ lock = Nobody
    /\ ops' = ops + 1
    /\ \E c \in Components, n \in Names :
        /\ dir' = dir \cup {c}
        /\ IF metadataFile[c] \in {Torn, n}
           THEN UNCHANGED <<metadataFile, callers>>
           ELSE /\ metadataFile' = [metadataFile EXCEPT ![c] = Torn]
                /\ arg' = [arg EXCEPT ![p] = <<<<c, n>>>>]
                /\ Goto(p, "write_metadata") /\ lock' = p
                /\ UNCHANGED <<field, copy>>
    /\ UNCHANGED <<process, memory, path, schemaFile, configFile, crashes, faults, history>>

(* Mutant: only the file is changed. *)
WriteMetadataFileOnly(p) ==
    /\ pc[p] = "write_metadata"
    /\ LET c == Component(p)
           n == IF Schema(p) \in Names THEN Schema(p) ELSE Default
       IN  /\ metadataFile' = [metadataFile EXCEPT ![c] = n]
           /\ told' = told \cup {<<c, n>>}
           /\ IF n = Default THEN Goto(p, "inserted") /\ UNCHANGED <<lock, arg, field, copy>>
              ELSE Return(p)
    /\ UNCHANGED <<process, memory, path, dir, schemaFile, configFile, counts, hurt, raced>>

(* The file is written, then the map: for a message, or on behalf of
   insert_component. *)
WriteMetadata(p) ==
    /\ pc[p] = "write_metadata"
    /\ LET c == Component(p)
           n == IF Schema(p) \in Names THEN Schema(p) ELSE Default
       IN  /\ metadataFile' = [metadataFile EXCEPT ![c] = n]
           /\ metadata' = [metadata EXCEPT ![c] = n]
           /\ told' = {t \in told : t[1] # c \/ t[2] \in Schemas} \cup {<<c, n>>}
           /\ IF n = Default THEN Goto(p, "inserted") /\ UNCHANGED <<lock, arg, field, copy>>
              ELSE Return(p)
    /\ UNCHANGED <<process, components, registry, config, recording, path, dir, schemaFile,
                   configFile, counts, hurt, raced>>

-----------------------------------------------------------------------------
Saving(p) == pc[p] \in {"recording", "entries", "copy", "truncate", "write_config"}

(* SetDbConfig: the flag, if there is one, under the lock, the cell, the entries under the lock,
   then save_db_state: a copy under the lock, and the file outside it. *)
SetDbConfig(p) ==
    /\ CanCall(p) /\ lock = Nobody
    /\ ops' = ops + 1
    /\ \E r \in BOOLEAN, k \in Keys :
        /\ arg' = [arg EXCEPT ![p] = <<r, k>>]
        /\ LET others == \E q \in Conns : Saving(q)
           IN  \/ /\ config' = [config EXCEPT !.recording = r]
                  /\ Goto(p, "recording")
                  /\ raced' = others
               \/ /\ Goto(p, "entries")
                  /\ raced' = (raced \/ others)
                  /\ UNCHANGED config
    /\ UNCHANGED <<process, components, metadata, registry, recording, disk, lock, field, copy, crashes,
                   faults, told, hurt>>

SetRecording(p) ==
    /\ pc[p] = "recording"
    /\ recording' = arg[p][1]
    /\ Goto(p, "entries")
    /\ UNCHANGED <<process, components, metadata, registry, config, disk, lock, arg, field, copy, counts,
                   history>>

(* Mutant: the copy is taken before the entries are there. *)
SetEntriesLate(p) ==
    /\ pc[p] = "entries" /\ lock = Nobody
    /\ config' = [config EXCEPT !.entries = @ \cup {arg[p][2]}]
    /\ copy' = [copy EXCEPT ![p] = config]
    /\ Goto(p, "truncate")
    /\ UNCHANGED <<process, components, metadata, registry, recording, disk, lock, arg, field, counts, history>>

SetEntries(p) ==
    /\ pc[p] = "entries" /\ lock = Nobody
    /\ config' = [config EXCEPT !.entries = @ \cup {arg[p][2]}]
    /\ Goto(p, "copy")
    /\ UNCHANGED <<process, components, metadata, registry, recording, disk, lock, arg, field, copy, counts,
                   history>>

CopyConfig(p) ==
    /\ pc[p] = "copy" /\ lock = Nobody
    /\ copy' = [copy EXCEPT ![p] = config]
    /\ Goto(p, "truncate")
    /\ UNCHANGED <<process, memory, disk, lock, arg, field, counts, history>>

TruncateConfig(p) ==
    /\ pc[p] = "truncate"
    /\ configFile' = <<>>
    /\ Goto(p, "write_config")
    /\ UNCHANGED <<process, memory, path, dir, schemaFile, metadataFile, lock, arg, field, copy,
                   counts, history>>

WriteConfig(p) ==
    /\ pc[p] = "write_config"
    /\ configFile' = <<copy[p]>>
    /\ Return(p)
    /\ UNCHANGED <<process, memory, path, dir, schemaFile, metadataFile, counts, history>>

(* A write fails: the request ends in an error and the file stays torn. *)
WriteFails(p) ==
    /\ pc[p] \in {"write_schema", "write_metadata", "write_config"} /\ faults < MaxFaults
    /\ faults' = faults + 1
    /\ hurt' = TRUE /\ raced' = TRUE
    /\ Return(p)
    /\ UNCHANGED <<process, memory, disk, ops, crashes, told>>

-----------------------------------------------------------------------------
Call(p) == InsertVTable(p) \/ SetComponentMetadata(p) \/ SetDbConfig(p)
Step(p) ==
    \/ InsertComponent(p) \/ WriteSchema(p) \/ DefaultMetadata(p) \/ Inserted(p)
    \/ WriteMetadata(p)
    \/ SetRecording(p) \/ SetEntries(p) \/ CopyConfig(p) \/ TruncateConfig(p) \/ WriteConfig(p)
    \/ WriteFails(p)

Next ==
    \/ Create \/ CreateSave \/ Open \/ Crash
    \/ \E p \in Conns : Call(p) \/ Step(p)

Spec == Init /\ [][Next]_vars

-----------------------------------------------------------------------------
(* A database that is not killed between the truncation and the write of a file,
   between a schema and its metadata or during its creation, has no failed
   write behind it and no component that was described and never defined, can
   be opened again. *)
Reopens == process = "refused" => hurt

(* What a running database was told about its components it knows, also after
   it was killed and opened again: the schema a component was created with,
   and its latest metadata. *)
ToldKept ==
    process = "up" => \A t \in told :
        IF t[2] \in Schemas THEN components[t[1]] = t[2] ELSE metadata[t[1]] = t[2]

(* The components of a registered vtable exist and have the schemas it says, so
   that every table that refers to it finds where to go: insert_vtable
   registers it only after its last field. *)
RegisteredBacked ==
    \A v \in registry : \A f \in ToSet(v) : components[f[1]] = f[2]

(* The settings on disk and the recording flag are those in memory once a
   SetDbConfig with a recording flag is over and no other one overlapped (two
   that overlap may save in the other order than they copied; after open the
   ones in memory are the defaults, whatever db_state says). *)
ConfigSaved ==
    (process = "up" /\ ~raced /\ \A p \in Conns : ~Saving(p)) =>
        configFile = <<config>> /\ recording = config.recording
=============================================================================

------------------------------ MODULE Disruptor ------------------------------
(***************************************************************************)
(* The byte ring of libs/db/src/disruptor.rs that carries every sample of  *)
(* a component, and every message of a message log, from the connection    *)
(* threads to the persist task and to the real-time streams.               *)
(*                                                                         *)
(* Writers are connection threads running try_grant / WriteGrant::drop;    *)
(* readers are tasks running Reader::next (or try_next) and                *)
(* ReadGrant::drop.  Every atomic load and store of the code that another  *)
(* thread can tell apart is a step of its own.                             *)
(*                                                                         *)
(* A byte is modelled by its offset in the stream of bytes the ring has    *)
(* accepted: the k-th accepted byte holds the value k.  `total' counts the *)
(* accepted bytes and `consumed' the bytes each reader has released; they  *)
(* are the only history variables.                                         *)
(***************************************************************************)
EXTENDS Integers, FiniteSets

CONSTANTS
    Writers,   \* threads that push
    Readers,   \* threads or tasks that may hold a Reader
    Founders,  \* readers created before the first push (the persist task)
    NoWriter,  \* the value of `lock' when the mutex is free
    Cap,       \* ringbuf.len()
    Lens,      \* record lengths that are pushed
    MaxTotal   \* bound on the number of accepted bytes

ASSUME DisruptorAssumption ==
    /\ Founders \subseteq Readers
    /\ NoWriter \notin Writers
    /\ Cap \in Nat \ {0}
    /\ Lens \subseteq Nat \ {0}
    /\ MaxTotal \in Nat

Offsets == 0 .. Cap - 1

VARIABLES
    committed, hwm, lock, buf,                  \* DistruptorCore
    wpc, wlen, wstart, wcheck,                  \* locals of try_grant, WriteGrant
    registered, cursor, queued,                 \* Readers list, new_data_queue
    rpc, rpolling, rwrite, rhwm, rend,          \* locals of next, ReadGrant
    total, consumed                             \* history

core    == <<committed, hwm, lock, buf>>
wlocal  == <<wpc, wlen, wstart, wcheck>>
rshared == <<registered, cursor, queued>>
rlocal  == <<rpc, rpolling, rwrite, rhwm, rend>>
history == <<total, consumed>>
vars    == <<core, wlocal, rshared, rlocal, history>>

WriterPC == {"idle", "lock", "check", "granted", "filled", "commit", "wake"}
ReaderPC == {"new", "joining", "idle", "load", "hwm", "decide", "asleep",
             "reading", "underflow", "gone"}

-----------------------------------------------------------------------------
(* Disruptor::new, and the persist task's reader() before any push. *)
Init ==
    /\ committed = 0 /\ hwm = 0 /\ lock = NoWriter
    /\ buf = [i \in Offsets |-> -1]
    /\ wpc = [w \in Writers |-> "idle"]
    /\ wlen = [w \in Writers |-> 0]
    /\ wstart = [w \in Writers |-> 0]
    /\ wcheck = [w \in Writers |-> {}]
    /\ registered = Founders
    /\ cursor = [r \in Readers |-> 0]
    /\ queued = {}
    /\ rpc = [r \in Readers |-> IF r \in Founders THEN "idle" ELSE "new"]
    /\ rpolling = {}
    /\ rwrite = [r \in Readers |-> 0]
    /\ rhwm = [r \in Readers |-> 0]
    /\ rend = [r \in Readers |-> 0]
    /\ total = 0
    /\ consumed = [r \in Readers |-> 0]

-----------------------------------------------------------------------------
(* Writers. *)

(* try_grant reads the write position before it takes the mutex. *)
LoadCommitted(w) ==
    /\ wpc[w] = "idle"
    /\ \E len \in Lens :
        /\ total + len <= MaxTotal
        /\ wlen' = [wlen EXCEPT ![w] = len]
    /\ wstart' = [wstart EXCEPT ![w] = committed % Cap]
    /\ wpc' = [wpc EXCEPT ![w] = "lock"]
    /\ UNCHANGED <<core, wcheck, rshared, rlocal, history>>

(* Past the mutex, a record longer than the ring is refused; otherwise the
   walk over the reader list begins. *)
TakeLock(w) ==
    /\ wpc[w] = "lock" /\ lock = NoWriter
    /\ IF wlen[w] > Cap
       THEN /\ wpc' = [wpc EXCEPT ![w] = "idle"]
            /\ UNCHANGED <<lock, wcheck>>
       ELSE /\ wpc' = [wpc EXCEPT ![w] = "check"]
            /\ lock' = w
            /\ wcheck' = [wcheck EXCEPT ![w] = registered]
    /\ UNCHANGED <<committed, hwm, buf, wlen, wstart, rshared, rlocal, history>>

(* Mutants: the two comparisons of can_write gone wrong. *)
OverlapsStrict(len, write, read) ==
    \/ write < read /\ write + len > read
    \/ write + len > Cap /\ len >= read
OverlapsNoWrap(len, write, read) == write < read /\ write + len >= read
OverlapsAnywhere(len, write, read) ==
    \/ write < read /\ write + len >= read
    \/ len >= read

(* One reader's share of can_write: would len bytes at write run into it? *)
Overlaps(len, write, read) ==
    \/ write < read /\ write + len >= read
    \/ write + len > Cap /\ len >= read

(* One turn of the loop of can_write.  A reader unlinked meanwhile may be
   met or missed by the walk; an overlap is DisruptorError::WouldBlock. *)
CheckReader(w) ==
    /\ wpc[w] = "check"
    /\ \E r \in wcheck[w] :
        /\ wcheck' = [wcheck EXCEPT ![w] = @ \ {r}]
        /\ \/ /\ Overlaps(wlen[w], wstart[w], cursor[r] % Cap)
              /\ lock' = NoWriter
              /\ wpc' = [wpc EXCEPT ![w] = "idle"]
           \/ /\ \/ ~Overlaps(wlen[w], wstart[w], cursor[r] % Cap)
                 \/ r \notin registered
              /\ UNCHANGED <<lock, wpc>>
    /\ UNCHANGED <<committed, hwm, buf, wlen, wstart, rshared, rlocal, history>>

(* The tail of try_grant: wrap to the front, or raise the high-water mark. *)
Grant(w) ==
    /\ wpc[w] = "check" /\ wcheck[w] = {}
    /\ IF wstart[w] + wlen[w] > Cap
       THEN /\ wstart' = [wstart EXCEPT ![w] = 0]
            /\ hwm' = 0
       ELSE /\ hwm' = IF wstart[w] + wlen[w] > hwm
                      THEN wstart[w] + wlen[w] ELSE hwm
            /\ UNCHANGED wstart
    /\ wpc' = [wpc EXCEPT ![w] = "granted"]
    /\ UNCHANGED <<committed, lock, buf, wlen, wcheck, rshared, rlocal, history>>

End(w) == wstart[w] + wlen[w]

(* The caller copies its record into the grant. *)
Fill(w) ==
    /\ wpc[w] = "granted"
    /\ buf' = [i \in Offsets |-> IF wstart[w] <= i /\ i < End(w)
                                 THEN total + (i - wstart[w]) ELSE buf[i]]
    /\ wpc' = [wpc EXCEPT ![w] = "filled"]
    /\ UNCHANGED <<committed, hwm, lock, wlen, wstart, wcheck, rshared, rlocal, history>>

(* WriteGrant::drop, up to the store of the high-water mark ... *)
DropHighWater(w) ==
    /\ wpc[w] = "filled"
    /\ hwm' = IF End(w) < committed /\ End(w) # Cap THEN committed
              ELSE IF End(w) > hwm THEN Cap ELSE hwm
    /\ wpc' = [wpc EXCEPT ![w] = "commit"]
    /\ UNCHANGED <<committed, lock, buf, wlen, wstart, wcheck, rshared, rlocal, history>>

(* ... the store of the write position ... *)
DropCommit(w) ==
    /\ wpc[w] = "commit"
    /\ committed' = End(w)
    /\ total' = total + wlen[w]
    /\ wpc' = [wpc EXCEPT ![w] = "wake"]
    /\ UNCHANGED <<hwm, lock, buf, wlen, wstart, wcheck, rshared, rlocal, consumed>>

(* Mutant: nobody is told. *)
DropNoWake(w) ==
    /\ wpc[w] = "wake"
    /\ lock' = NoWriter
    /\ wpc' = [wpc EXCEPT ![w] = "idle"]
    /\ UNCHANGED <<committed, hwm, buf, wlen, wstart, wcheck, rshared, rlocal, history>>

(* ... and wake_all, after which the mutex guard is released. *)
DropWake(w) ==
    /\ wpc[w] = "wake"
    /\ queued' = {}
    /\ lock' = NoWriter
    /\ wpc' = [wpc EXCEPT ![w] = "idle"]
    /\ UNCHANGED <<committed, hwm, buf, wlen, wstart, wcheck, registered, cursor,
                   rlocal, history>>

-----------------------------------------------------------------------------
(* Readers. *)

(* Disruptor::reader: the write position is loaded first ... *)
JoinLoad(r) ==
    /\ rpc[r] = "new"
    /\ cursor' = [cursor EXCEPT ![r] = committed]
    /\ consumed' = [consumed EXCEPT ![r] = total]
    /\ rpc' = [rpc EXCEPT ![r] = "joining"]
    /\ UNCHANGED <<core, wlocal, registered, queued, rpolling, rwrite, rhwm, rend, total>>

(* ... and the node is pushed on the list afterwards. *)
JoinPush(r) ==
    /\ rpc[r] = "joining"
    /\ registered' = registered \cup {r}
    /\ rpc' = [rpc EXCEPT ![r] = "idle"]
    /\ UNCHANGED <<core, wlocal, cursor, queued, rpolling, rwrite, rhwm, rend, history>>

(* Reader::next subscribes to new_data_queue before it looks. *)
NextSubscribe(r) ==
    /\ \/ rpc[r] = "idle"
       \/ rpc[r] = "asleep" /\ r \notin queued
    /\ queued' = queued \cup {r}
    /\ rpolling' = rpolling \ {r}
    /\ rpc' = [rpc EXCEPT ![r] = "load"]
    /\ UNCHANGED <<core, wlocal, registered, cursor, rwrite, rhwm, rend, history>>

(* Reader::try_next looks without subscribing. *)
TryNext(r) ==
    /\ rpc[r] = "idle"
    /\ rpolling' = rpolling \cup {r}
    /\ rpc' = [rpc EXCEPT ![r] = "load"]
    /\ UNCHANGED <<core, wlocal, rshared, rwrite, rhwm, rend, history>>

(* Load of `committed'; the reader's own cursor only it writes. *)
LoadWrite(r) ==
    /\ rpc[r] = "load"
    /\ rwrite' = [rwrite EXCEPT ![r] = committed]
    /\ rpc' = [rpc EXCEPT ![r] = "hwm"]
    /\ UNCHANGED <<core, wlocal, rshared, rpolling, rhwm, rend, history>>

LoadHighWater(r) ==
    /\ rpc[r] = "hwm"
    /\ rhwm' = [rhwm EXCEPT ![r] = hwm]
    /\ rpc' = [rpc EXCEPT ![r] = "decide"]
    /\ UNCHANGED <<core, wlocal, rshared, rpolling, rwrite, rend, history>>

(* The reader follows the writer to the front of the ring. *)
Follow(r) == cursor[r] = rhwm[r] /\ rwrite[r] < cursor[r]

(* The rest of the closure: `read', the end of the readable range, and the
   unsigned subtraction whose underflow is a panic or a wild range. *)
Decide(r) ==
    LET read == IF Follow(r) THEN 0 ELSE cursor[r]
        end  == IF rwrite[r] < read THEN rhwm[r] ELSE rwrite[r]
    IN  /\ rpc[r] = "decide"
        /\ cursor' = [cursor EXCEPT ![r] = read]
        /\ rend' = [rend EXCEPT ![r] = end]
        /\ rpc' = [rpc EXCEPT ![r] =
                     IF end < read THEN "underflow"
                     ELSE IF end > read THEN "reading"
                     ELSE IF r \in rpolling THEN "idle" ELSE "asleep"]
        /\ queued' = IF end > read THEN queued \ {r} ELSE queued
        /\ UNCHANGED <<core, wlocal, registered, rpolling, rwrite, rhwm, history>>

(* ReadGrant::drop *)
Release(r) ==
    /\ rpc[r] = "reading"
    /\ cursor' = [cursor EXCEPT ![r] = rend[r]]
    /\ consumed' = [consumed EXCEPT ![r] = @ + (rend[r] - cursor[r])]
    /\ rpc' = [rpc EXCEPT ![r] = "idle"]
    /\ UNCHANGED <<core, wlocal, registered, queued, rpolling, rwrite, rhwm, rend, total>>

(* Reader::drop, between two calls or with the future that awaits next. *)
Leave(r) ==
    /\ rpc[r] \in {"idle", "asleep"} /\ r \notin Founders
    /\ registered' = registered \ {r}
    /\ queued' = queued \ {r}
    /\ rpc' = [rpc EXCEPT ![r] = "gone"]
    /\ UNCHANGED <<core, wlocal, cursor, rpolling, rwrite, rhwm, rend, history>>

-----------------------------------------------------------------------------
WriterStep(w) ==
    \/ TakeLock(w) \/ CheckReader(w) \/ Grant(w) \/ Fill(w)
    \/ DropHighWater(w) \/ DropCommit(w) \/ DropWake(w)

ReaderStep(r) ==
    \/ NextSubscribe(r) \/ LoadWrite(r) \/ LoadHighWater(r) \/ Decide(r)
    \/ Release(r)

Next ==
    \/ \E w \in Writers : LoadCommitted(w) \/ WriterStep(w)
    \/ \E r \in Readers : ReaderStep(r) \/ TryNext(r)
                          \/ JoinLoad(r) \/ JoinPush(r) \/ Leave(r)

Spec == Init /\ [][Next]_vars

(* A thread inside try_grant or the drop of its grant is running, and the
   persist loop calls next again whenever it has released a grant.  Nothing
   obliges a thread to push. *)
Fairness ==
    /\ \A w \in Writers : WF_vars(WriterStep(w))
    /\ \A r \in Readers : WF_vars(ReaderStep(r))

FairSpec == Spec /\ Fairness

(* The same, with connections that keep pushing: a thread whose push was
   refused offers its next record. *)
PushingSpec == FairSpec /\ \A w \in Writers : WF_vars(LoadCommitted(w))

-----------------------------------------------------------------------------
TypeOK ==
    /\ committed \in 0 .. Cap
    /\ hwm \in 0 .. Cap
    /\ lock \in Writers \cup {NoWriter}
    /\ buf \in [Offsets -> Int]
    /\ wpc \in [Writers -> WriterPC]
    /\ wlen \in [Writers -> Nat]
    /\ wstart \in [Writers -> 0 .. Cap]
    /\ wcheck \in [Writers -> SUBSET Readers]
    /\ registered \in SUBSET Readers
    /\ cursor \in [Readers -> 0 .. Cap]
    /\ queued \in SUBSET Readers
    /\ rpc \in [Readers -> ReaderPC]
    /\ rpolling \in SUBSET Readers
    /\ rwrite \in [Readers -> 0 .. Cap]
    /\ rhwm \in [Readers -> 0 .. Cap]
    /\ rend \in [Readers -> 0 .. Cap]
    /\ total \in Nat
    /\ consumed \in [Readers -> Int]

Holding(w) == wpc[w] \in {"granted", "filled"}

(* The offsets that hold bytes reader r has not released, in the order it
   will meet them: up to the write position, or, when the writer has gone
   round, up to the high-water mark and then from the front. *)
Unread(r) ==
    {i \in Offsets : IF cursor[r] <= committed
                     THEN cursor[r] <= i /\ i < committed
                     ELSE (cursor[r] <= i /\ i < hwm) \/ i < committed}

(* The range of a write grant holds no byte that the persist task has yet
   to release: what the two cases of can_write are for. *)
GrantSparesUnread ==
    \A w \in Writers, r \in Founders :
        Holding(w) => \A i \in Unread(r) : ~(wstart[w] <= i /\ i < End(w))

(* A read grant never covers bytes that a writer is copying into, whichever
   thread joined when. *)
NoTornRead ==
    \A w \in Writers, r \in Readers :
        Holding(w) /\ rpc[r] = "reading" =>
            End(w) <= cursor[r] \/ rend[r] <= wstart[w]

(* A read grant covers exactly the next accepted bytes, in the order they
   were accepted: none is lost, repeated or overtaken. *)
ReadsInOrder ==
    \A r \in Founders : rpc[r] = "reading" =>
        /\ consumed[r] + (rend[r] - cursor[r]) <= total
        /\ \A i \in cursor[r] .. rend[r] - 1 :
               buf[i] = consumed[r] + (i - cursor[r])

(* The unsigned subtraction in next never underflows. *)
NoUnderflow == \A r \in Founders : rpc[r] # "underflow"

(* Every accepted byte reaches the persist task: it catches up with the writers
   again and again. *)
ReadersCatchUp ==
    \A r \in Founders : []<>(consumed[r] = total)

(* A ring that refuses a push with WouldBlock is not refusing for ever: while
   the readers run, connections that keep pushing get their records in. *)
PushesAccepted == <>(\A len \in Lens : total + len > MaxTotal)

-----------------------------------------------------------------------------
(* The bytes reader r sees through its read grant. *)
ViewOf(r) ==
    IF rpc[r] = "reading"
    THEN [k \in 0 .. (rend[r] - cursor[r]) - 1 |-> buf[cursor[r] + k]]
    ELSE [k \in {} |-> 0]

Log == INSTANCE BroadcastLog WITH
    Subscribers <- Founders,
    taken <- [r \in Founders |-> consumed[r]],
    view <- [r \in Founders |-> ViewOf(r)]

(* The ring implements the log: what its permanent readers see of it is what
   subscribers of BroadcastLog see. *)
ImplementsLog == Log!Spec
==============================================================================

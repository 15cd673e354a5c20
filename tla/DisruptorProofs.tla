--------------------------- MODULE DisruptorProofs ---------------------------
(***************************************************************************)
(* Theorems about Disruptor.  Typing holds for any number of writers.  The *)
(* delivery properties hold for every capacity, every set of readers and   *)
(* every set of record lengths under two conditions that disruptor.rs does *)
(* not enforce: one thread pushes, and no sequence of records ends exactly *)
(* at the end of the ring.                                                 *)
(*                                                                         *)
(* The end of the module is about the list of readers that a writer walks. *)
(***************************************************************************)
EXTENDS Disruptor, ReaderList, TLAPS

(* One thread pushes. *)
SingleWriter == \A v, w \in Writers : v = w

(* E holds the front of the ring and every end of a record that starts at
   a member of E. *)
ClosedUnderRecords(E) ==
    /\ 0 \in E
    /\ \A c \in E, len \in Lens : c + len <= Cap => c + len \in E

(* The positions at which a record can end: the least such set. *)
RecordEnds == {c \in 0 .. Cap : \A E \in SUBSET (0 .. Cap) :
                                   ClosedUnderRecords(E) => c \in E}

(* No sequence of records ends exactly at the end of the ring. *)
NoExactFit == Cap \notin RecordEnds

-----------------------------------------------------------------------------
(* The inductive invariant. *)

(* A grant stays inside the ring. *)
GrantFits ==
    \A w \in Writers :
        /\ wpc[w] \in {"check", "granted", "filled", "commit"} => wlen[w] <= Cap
        /\ wpc[w] \in {"granted", "filled", "commit"} => End(w) <= Cap

TypeInv == TypeOK /\ GrantFits

(* The grant that follows the write position ... *)
Straight(w) ==
    /\ wstart[w] = committed
    /\ End(w) \in RecordEnds
    /\ End(w) <= hwm
    /\ \A r \in Founders : committed < cursor[r] => End(w) < cursor[r]

(* ... and the one that starts again at the front, where every reader is
   beyond its end and none has gone round yet. *)
Wrapped(w) ==
    /\ wstart[w] = 0
    /\ End(w) \in RecordEnds
    /\ \A r \in Founders : End(w) < cursor[r] /\ cursor[r] <= committed

WriterInv(w) ==
    /\ wpc[w] # "idle" => wlen[w] \in Lens
    /\ wpc[w] \in {"lock", "check"} => wstart[w] = committed
    /\ wpc[w] = "check" =>
          \A r \in Founders \ wcheck[w] : ~Overlaps(wlen[w], committed, cursor[r])
    /\ wpc[w] \in {"granted", "filled"} => Straight(w) \/ (Wrapped(w) /\ hwm = 0)
    /\ wpc[w] = "commit" =>
          Straight(w) \/ (Wrapped(w) /\ (Founders # {} => hwm = committed))
    /\ wpc[w] \in {"filled", "commit"} =>
          \A i \in Offsets : wstart[w] <= i /\ i < End(w) =>
              buf[i] = total + (i - wstart[w])

(* Where the run of readable bytes that begins at r's cursor stops. *)
Limit(r) == IF cursor[r] <= committed THEN committed ELSE hwm

(* Every unread byte holds its own place in the stream. *)
Contents(r) ==
    IF cursor[r] <= committed
    THEN /\ total - consumed[r] = committed - cursor[r]
         /\ \A i \in Offsets : cursor[r] <= i /\ i < committed =>
                buf[i] = consumed[r] + (i - cursor[r])
    ELSE /\ total - consumed[r] = (hwm - cursor[r]) + committed
         /\ \A i \in Offsets : cursor[r] <= i /\ i < hwm =>
                buf[i] = consumed[r] + (i - cursor[r])
         /\ \A i \in Offsets : i < committed =>
                buf[i] = (total - committed) + i

(* What a reader has loaded is still good when it is used. *)
LocalsFresh(r) ==
    /\ rpc[r] \in {"hwm", "decide"} =>
          \/ cursor[r] <= rwrite[r] /\ rwrite[r] <= Limit(r)
          \/ rwrite[r] <= committed /\ committed < cursor[r]
    /\ rpc[r] = "decide" /\ rwrite[r] < cursor[r] => rhwm[r] = hwm
    /\ rpc[r] = "reading" => cursor[r] < rend[r] /\ rend[r] <= Limit(r)

ReaderInv(r) ==
    /\ r \in registered
    /\ rpc[r] \notin {"new", "joining", "gone", "underflow"}
    /\ cursor[r] < Cap
    /\ committed < cursor[r] => cursor[r] <= hwm /\ hwm < Cap
    /\ Contents(r)
    /\ LocalsFresh(r)

(* Everything together: the strengthening from which the delivery properties
   of the ring follow. *)
IInv ==
    /\ TypeInv
    /\ committed \in RecordEnds
    /\ \A w \in Writers : WriterInv(w)
    /\ \A r \in Founders : ReaderInv(r)

-----------------------------------------------------------------------------
(* Typing. *)

(* The remainder of a position is an offset of the ring. *)
LEMMA ModRange == \A c \in 0 .. Cap : c % Cap \in 0 .. Cap - 1
BY DisruptorAssumption

(* Every step of the ring keeps the types and keeps grants inside it. *)
LEMMA TypeStep == TypeInv /\ [Next]_vars => TypeInv'
<1> USE DisruptorAssumption DEF WriterPC, ReaderPC, Offsets
<1> SUFFICES ASSUME TypeInv, [Next]_vars PROVE TypeInv'
  OBVIOUS
<1> USE DEF TypeInv, TypeOK, GrantFits, End
<1>1. ASSUME NEW w \in Writers, LoadCommitted(w) PROVE TypeInv'
  <2>1. committed % Cap \in 0 .. Cap
    BY ModRange
  <2>2. PICK len \in Lens : wlen' = [wlen EXCEPT ![w] = len]
    BY <1>1 DEF LoadCommitted
  <2> QED
    BY <1>1, <2>1, <2>2 DEF LoadCommitted, core, rshared, rlocal, history
<1>2. ASSUME NEW w \in Writers, TakeLock(w) PROVE TypeInv'
  <2>1. TypeOK'
    <3>1. /\ lock' \in Writers \cup {NoWriter}
          /\ wpc' \in [Writers -> WriterPC]
          /\ wcheck' \in [Writers -> SUBSET Readers]
      <4>1. \/ wpc' = [wpc EXCEPT ![w] = "idle"] /\ lock' = lock /\ wcheck' = wcheck
            \/ wpc' = [wpc EXCEPT ![w] = "check"] /\ lock' = w /\ wcheck' = [wcheck EXCEPT ![w] = registered]
        BY <1>2 DEF TakeLock
      <4>2. wpc' \in [Writers -> WriterPC]
        BY <4>1
      <4>3. lock' \in Writers \cup {NoWriter}
        BY <4>1
      <4>4. wcheck' \in [Writers -> SUBSET Readers]
        BY <4>1, Zenon
      <4> QED
        BY <4>2, <4>3, <4>4
    <3>2. UNCHANGED <<committed, hwm, buf, wlen, wstart, registered, cursor, queued,
                      rpc, rpolling, rwrite, rhwm, rend, total, consumed>>
      BY <1>2 DEF TakeLock, rshared, rlocal, history
    <3> QED
      BY <3>1, <3>2
  <2>2. GrantFits'
    BY <1>2 DEF TakeLock, rshared, rlocal, history
  <2> QED
    BY <2>1, <2>2
<1>3. ASSUME NEW w \in Writers, CheckReader(w) PROVE TypeInv'
  <2>1. TypeOK'
    <3>1. PICK q \in wcheck[w] : wcheck' = [wcheck EXCEPT ![w] = @ \ {q}]
      BY <1>3 DEF CheckReader
    <3>2. wcheck' \in [Writers -> SUBSET Readers]
      BY <3>1
    <3>3. /\ lock' \in Writers \cup {NoWriter}
          /\ wpc' \in [Writers -> WriterPC]
      BY <1>3 DEF CheckReader
    <3> QED
      BY <1>3, <3>2, <3>3 DEF CheckReader, rshared, rlocal, history
  <2>2. GrantFits'
    BY <1>3 DEF CheckReader, rshared, rlocal, history
  <2> QED
    BY <2>1, <2>2
<1>4. ASSUME NEW w \in Writers, Grant(w) PROVE TypeInv'
  <2>1. TypeOK'
    <3>1. wlen[w] \in Nat /\ wstart[w] \in 0 .. Cap
      OBVIOUS
    <3>2. hwm' \in 0 .. Cap /\ wstart' \in [Writers -> 0 .. Cap]
      BY <1>4, <3>1 DEF Grant
    <3> QED
      BY <1>4, <3>2 DEF Grant, rshared, rlocal, history
  <2>2. GrantFits'
    BY <1>4 DEF Grant, rshared, rlocal, history
  <2> QED
    BY <2>1, <2>2
<1>5. ASSUME NEW w \in Writers, Fill(w) PROVE TypeInv'
  <2>1. TypeOK'
    <3>1. \A i \in Offsets : wstart[w] \in Int /\ total + (i - wstart[w]) \in Int /\ buf[i] \in Int
      OBVIOUS
    <3>2. buf' \in [Offsets -> Int]
      BY <1>5, <3>1 DEF Fill
    <3>3. wpc' \in [Writers -> WriterPC]
      BY <1>5 DEF Fill
    <3>4. UNCHANGED <<committed, hwm, lock, wlen, wstart, wcheck, registered, cursor, queued,
                      rpc, rpolling, rwrite, rhwm, rend, total, consumed>>
      BY <1>5 DEF Fill, rshared, rlocal, history
    <3> QED
      BY <3>2, <3>3, <3>4
  <2>2. GrantFits'
    BY <1>5 DEF Fill, rshared, rlocal, history
  <2> QED
    BY <2>1, <2>2
<1>6. ASSUME NEW w \in Writers, DropHighWater(w) PROVE TypeInv'
  <2>1. TypeOK'
    <3>1. hwm' \in {committed, Cap, hwm} /\ wpc' = [wpc EXCEPT ![w] = "commit"]
      BY <1>6 DEF DropHighWater
    <3>2. hwm' \in 0 .. Cap /\ wpc' \in [Writers -> WriterPC]
      BY <3>1
    <3>3. UNCHANGED <<committed, lock, buf, wlen, wstart, wcheck, registered, cursor, queued,
                      rpc, rpolling, rwrite, rhwm, rend, total, consumed>>
      BY <1>6 DEF DropHighWater, rshared, rlocal, history
    <3> QED
      BY <3>2, <3>3
  <2>2. GrantFits'
    BY <1>6 DEF DropHighWater, rshared, rlocal, history
  <2> QED
    BY <2>1, <2>2
<1>7. ASSUME NEW w \in Writers, DropCommit(w) PROVE TypeInv'
  <2>1. TypeOK'
    <3>1. wlen[w] \in Nat /\ wstart[w] \in 0 .. Cap
      OBVIOUS
    <3>2. committed' \in 0 .. Cap /\ total' \in Nat
      BY <1>7, <3>1 DEF DropCommit
    <3> QED
      BY <1>7, <3>2 DEF DropCommit, rshared, rlocal
  <2>2. GrantFits'
    BY <1>7 DEF DropCommit, rshared, rlocal
  <2> QED
    BY <2>1, <2>2
<1>8. ASSUME NEW w \in Writers, DropWake(w) PROVE TypeInv'
  <2>1. TypeOK'
    BY <1>8 DEF DropWake, rlocal, history
  <2>2. GrantFits'
    BY <1>8 DEF DropWake, rlocal, history
  <2> QED
    BY <2>1, <2>2
<1>9. ASSUME NEW r \in Readers,
             NextSubscribe(r) \/ TryNext(r) \/ LoadWrite(r)
             \/ LoadHighWater(r) \/ JoinPush(r) \/ Leave(r)
      PROVE TypeInv'
  <2> USE DEF core, wlocal, rshared, history
  <2>1. CASE NextSubscribe(r) BY <2>1 DEF NextSubscribe
  <2>2. CASE TryNext(r) BY <2>2 DEF TryNext
  <2>3. CASE LoadWrite(r) BY <2>3 DEF LoadWrite
  <2>4. CASE LoadHighWater(r) BY <2>4 DEF LoadHighWater
  <2>5. CASE JoinPush(r) BY <2>5 DEF JoinPush
  <2>6. CASE Leave(r) BY <2>6 DEF Leave
  <2> QED
    BY <1>9, <2>1, <2>2, <2>3, <2>4, <2>5, <2>6
<1>10. ASSUME NEW r \in Readers, Decide(r) PROVE TypeInv'
  <2>1. /\ cursor' \in [Readers -> 0 .. Cap]
        /\ rend' \in [Readers -> 0 .. Cap]
        /\ queued' \in SUBSET Readers
    BY <1>10 DEF Decide
  <2>2. rpc' \in [Readers -> ReaderPC]
    BY <1>10 DEF Decide
  <2> QED
    BY <1>10, <2>1, <2>2 DEF Decide, core, wlocal, history
<1>11. ASSUME NEW r \in Readers, Release(r) \/ JoinLoad(r) PROVE TypeInv'
  <2> USE DEF core, wlocal
  <2>1. CASE Release(r)
    <3>1. rend[r] - cursor[r] \in Int /\ consumed[r] \in Int
      OBVIOUS
    <3>2. consumed' \in [Readers -> Int]
      BY <2>1, <3>1 DEF Release
    <3> QED
      BY <2>1, <3>2 DEF Release
  <2>2. CASE JoinLoad(r) BY <2>2, SMTT(40) DEF JoinLoad
  <2> QED
    BY <1>11, <2>1, <2>2
<1>12. CASE UNCHANGED vars
  BY <1>12 DEF vars, core, wlocal, rshared, rlocal, history
<1> QED
  BY <1>1, <1>2, <1>3, <1>4, <1>5, <1>6, <1>7, <1>8, <1>9, <1>10, <1>11,
     <1>12 DEF Next, WriterStep, ReaderStep

(* Type correctness of the ring, for any number of writer threads: the write
   position, the high-water mark and every cursor stay inside the ring, and
   so does the range of every grant that try_grant hands out. *)
THEOREM Typing == Spec => [](TypeOK /\ GrantFits)
<1>1. Init => TypeInv
  BY DisruptorAssumption
     DEF Init, TypeInv, TypeOK, GrantFits, WriterPC, ReaderPC, Offsets
<1> QED
  BY <1>1, TypeStep, PTL DEF Spec, TypeInv

-----------------------------------------------------------------------------
(* Delivery. *)

(* The ends of records are positions of the ring, the front is one of them,
   and a record that fits behind an end ends at an end. *)
LEMMA EndsClosed ==
    /\ RecordEnds \subseteq 0 .. Cap
    /\ 0 \in RecordEnds
    /\ \A c \in RecordEnds, len \in Lens : c + len <= Cap => c + len \in RecordEnds
<1>1. RecordEnds \subseteq 0 .. Cap /\ 0 \in RecordEnds
  BY DisruptorAssumption DEF RecordEnds, ClosedUnderRecords
<1>2. ASSUME NEW c \in RecordEnds, NEW len \in Lens, c + len <= Cap
      PROVE  c + len \in RecordEnds
  <2>1. c + len \in 0 .. Cap
    BY <1>1, <1>2, DisruptorAssumption
  <2>2. ASSUME NEW E \in SUBSET (0 .. Cap), ClosedUnderRecords(E)
        PROVE  c + len \in E
    BY <1>2, <2>2 DEF RecordEnds, ClosedUnderRecords
  <2> QED
    BY <2>1, <2>2 DEF RecordEnds
<1> QED
  BY <1>1, <1>2

(* When no record ends at the end of the ring, taking the remainder of a
   position changes nothing. *)
LEMMA ModSmall ==
    ASSUME NEW c \in 0 .. Cap, c < Cap
    PROVE  c % Cap = c
BY DisruptorAssumption

(* The writer's side of the invariant survives the moves a reader makes:
   forward, up to the end of what it may read, or from the high-water mark
   to the front. *)
LEMMA CursorMove ==
    ASSUME IInv, TypeOK', NEW w \in Writers,
           UNCHANGED <<committed, hwm, buf, total, wpc, wlen, wstart, wcheck>>,
           \A r \in Founders :
              \/ cursor[r] <= cursor'[r] /\ cursor'[r] <= Limit(r)
              \/ committed < cursor[r] /\ cursor'[r] = 0
              \/ cursor'[r] = cursor[r]
    PROVE  WriterInv(w)'
<1> USE DisruptorAssumption
<1>1. /\ WriterInv(w)
      /\ wlen[w] \in Nat /\ wstart[w] \in Nat /\ committed \in Nat /\ hwm \in Nat
      /\ \A r \in Founders : cursor[r] \in Nat /\ cursor'[r] \in Nat
  BY DEF IInv, TypeInv, TypeOK
<1>2. \A r \in Founders : committed < cursor[r] => cursor[r] <= hwm /\ hwm < Cap
  BY DEF IInv, ReaderInv
<1>0. RecordEnds' = RecordEnds
  BY DEF RecordEnds, ClosedUnderRecords
<1>3. ASSUME NEW r \in Founders, ~Overlaps(wlen[w], committed, cursor[r])
      PROVE  ~Overlaps(wlen[w], committed, cursor'[r])
  BY <1>1, <1>2, <1>3 DEF Overlaps, Limit
<1>4. ASSUME Straight(w) PROVE Straight(w)'
  BY <1>0, <1>1, <1>2, <1>4 DEF Straight, Limit, End
<1>5. ASSUME Wrapped(w) PROVE Wrapped(w)'
  BY <1>0, <1>1, <1>2, <1>5 DEF Wrapped, Limit, End
<1> QED
  BY <1>1, <1>3, <1>4, <1>5 DEF WriterInv, End, Overlaps

(* The invariant holds of a new ring. *)
LEMMA InitIInv == Init => IInv
<1> SUFFICES ASSUME Init PROVE IInv
  OBVIOUS
<1>1. TypeInv
  BY DisruptorAssumption
     DEF Init, TypeInv, TypeOK, GrantFits, WriterPC, ReaderPC, Offsets
<1>2. committed \in RecordEnds
  BY EndsClosed DEF Init
<1>3. ASSUME NEW w \in Writers PROVE WriterInv(w)
  BY DEF Init, WriterInv
<1>4. ASSUME NEW r \in Founders PROVE ReaderInv(r)
  BY DisruptorAssumption
     DEF Init, ReaderInv, Contents, LocalsFresh, Limit, Offsets
<1> QED
  BY <1>1, <1>2, <1>3, <1>4 DEF IInv

(* Steps of the writer up to the grant. *)
LEMMA GrantStep ==
    ASSUME SingleWriter, NoExactFit, IInv, TypeInv', NEW w \in Writers,
           LoadCommitted(w) \/ TakeLock(w) \/ CheckReader(w) \/ Grant(w)
    PROVE  IInv'
<1> USE DisruptorAssumption
<1>1. /\ TypeOK /\ committed \in RecordEnds /\ committed \in 0 .. Cap /\ committed < Cap
      /\ \A r \in Founders : r \in Readers /\ ReaderInv(r) /\ cursor[r] \in 0 .. Cap
      /\ WriterInv(w)
      /\ \A v \in Writers : v = w
      /\ wlen[w] \in Nat /\ wstart[w] \in Nat /\ hwm \in 0 .. Cap
  <2>1. committed \in RecordEnds /\ committed \in 0 .. Cap /\ committed # Cap
    BY EndsClosed DEF IInv, TypeInv, TypeOK, NoExactFit
  <2> QED
    BY <2>1 DEF IInv, TypeInv, TypeOK, SingleWriter
<1>2. /\ committed' = committed /\ buf' = buf /\ total' = total
      /\ registered' = registered /\ cursor' = cursor /\ rpc' = rpc
      /\ rwrite' = rwrite /\ rhwm' = rhwm /\ rend' = rend /\ consumed' = consumed
  BY DEF LoadCommitted, TakeLock, CheckReader, Grant, core, rshared, rlocal, history
<1>0. RecordEnds' = RecordEnds
  BY DEF RecordEnds, ClosedUnderRecords
<1>3. committed' \in RecordEnds'
  BY <1>0, <1>1, <1>2
<1>4. CASE LoadCommitted(w)
  <2>1. hwm' = hwm /\ wpc'[w] = "lock" /\ wlen'[w] \in Lens
        /\ wstart'[w] = committed
    BY <1>1, <1>4, ModSmall DEF LoadCommitted, core, TypeOK
  <2>2. WriterInv(w)'
    BY <2>1, <1>2 DEF WriterInv
  <2>3. \A r \in Founders : ReaderInv(r)'
    BY <1>1, <1>2, <2>1 DEF ReaderInv, Contents, LocalsFresh, Limit
  <2> QED
    BY <1>1, <1>3, <2>2, <2>3 DEF IInv
<1>5. CASE TakeLock(w)
  <2>1. hwm' = hwm /\ wlen' = wlen /\ wstart' = wstart
    BY <1>5 DEF TakeLock
  <2>2. WriterInv(w)'
    <3>1. \/ wpc'[w] = "idle"
          \/ wpc'[w] = "check" /\ wcheck'[w] = registered
      BY <1>1, <1>5 DEF TakeLock, TypeOK
    <3>2. wpc[w] = "lock" /\ wlen[w] \in Lens /\ wstart[w] = committed
      BY <1>1, <1>5 DEF TakeLock, WriterInv
    <3>3. \A r \in Founders : r \in registered
      BY <1>1 DEF ReaderInv
    <3> QED
      BY <1>2, <2>1, <3>1, <3>2, <3>3 DEF WriterInv
  <2>3. \A r \in Founders : ReaderInv(r)'
    BY <1>1, <1>2, <2>1 DEF ReaderInv, Contents, LocalsFresh, Limit
  <2> QED
    BY <1>1, <1>3, <2>2, <2>3 DEF IInv
<1>6. CASE CheckReader(w)
  <2>1. hwm' = hwm /\ wlen' = wlen /\ wstart' = wstart
    BY <1>6 DEF CheckReader
  <2>2. WriterInv(w)'
    <3>1. wpc[w] = "check" /\ wlen[w] \in Lens /\ wstart[w] = committed
      BY <1>1, <1>6 DEF CheckReader, WriterInv
    <3>2. PICK q \in wcheck[w] :
             /\ wcheck' = [wcheck EXCEPT ![w] = @ \ {q}]
             /\ \/ wpc' = [wpc EXCEPT ![w] = "idle"]
                \/ /\ \/ ~Overlaps(wlen[w], wstart[w], cursor[q] % Cap)
                      \/ q \notin registered
                   /\ wpc' = wpc
      BY <1>6 DEF CheckReader
    <3>3. CASE wpc' = wpc
      <4>1. wcheck'[w] = wcheck[w] \ {q}
        BY <1>1, <3>2 DEF TypeOK
      <4>2. q \in Founders => ~Overlaps(wlen[w], committed, cursor[q])
        <5>1. q \in Founders => q \in registered /\ cursor[q] % Cap = cursor[q]
          BY <1>1, ModSmall DEF ReaderInv
        <5>2. wpc'[w] # "idle"
          BY <3>1, <3>3
        <5>3. wpc' # [wpc EXCEPT ![w] = "idle"]
          BY <1>1, <5>2 DEF TypeOK
        <5> QED
          BY <3>1, <3>2, <5>1, <5>3
      <4>3. \A r \in Founders \ wcheck'[w] :
               ~Overlaps(wlen[w], committed, cursor[r])
        BY <1>1, <3>1, <4>1, <4>2 DEF WriterInv
      <4> QED
        BY <1>2, <2>1, <3>1, <3>3, <4>3 DEF WriterInv, Overlaps
    <3>4. CASE wpc' = [wpc EXCEPT ![w] = "idle"]
      BY <1>1, <3>4 DEF WriterInv, TypeOK
    <3> QED
      BY <3>2, <3>3, <3>4
  <2>3. \A r \in Founders : ReaderInv(r)'
    BY <1>1, <1>2, <2>1 DEF ReaderInv, Contents, LocalsFresh, Limit
  <2> QED
    BY <1>1, <1>3, <2>2, <2>3 DEF IInv
<1>7. CASE Grant(w)
  <2>1. /\ wpc[w] = "check" /\ wlen[w] \in Lens /\ wstart[w] = committed
        /\ \A r \in Founders : ~Overlaps(wlen[w], committed, cursor[r])
    BY <1>1, <1>7 DEF Grant, WriterInv
  <2>2. wpc'[w] = "granted" /\ wlen' = wlen
    BY <1>1, <1>7 DEF Grant, TypeOK
  <2>3. CASE committed + wlen[w] > Cap
    <3>1. hwm' = 0 /\ wstart'[w] = 0
      BY <1>1, <1>7, <2>1, <2>3 DEF Grant, TypeOK
    <3>2. wlen[w] <= Cap
      BY <2>1 DEF IInv, TypeInv, GrantFits
    <3>3. \A r \in Founders : wlen[w] < cursor[r] /\ cursor[r] <= committed
      BY <1>1, <2>1, <2>3, <3>2 DEF Overlaps
    <3>4. 0 + wlen[w] \in RecordEnds
      BY <1>1, <2>1, <3>2, EndsClosed
    <3>5. Wrapped(w)'
      <4>1. End(w)' = 0 + wlen[w] /\ End(w)' = wlen[w]
        BY <1>1, <2>2, <3>1 DEF End
      <4> QED
        BY <1>0, <1>2, <3>1, <3>3, <3>4, <4>1 DEF Wrapped
    <3>6. WriterInv(w)'
      BY <2>1, <2>2, <3>1, <3>5 DEF WriterInv
    <3>7. ASSUME NEW r \in Founders PROVE ReaderInv(r)'
      <4>1. /\ rwrite[r] \in 0 .. Cap /\ rend[r] \in 0 .. Cap
            /\ cursor[r] \in 0 .. Cap /\ ReaderInv(r)
        BY <1>1 DEF TypeOK
      <4>2. Contents(r)'
        BY <1>1, <1>2, <3>3, <4>1 DEF ReaderInv, Contents
      <4>3. LocalsFresh(r)'
        BY <1>1, <1>2, <3>3, <4>1 DEF ReaderInv, LocalsFresh, Limit
      <4> QED
        BY <1>1, <1>2, <3>3, <4>1, <4>2, <4>3 DEF ReaderInv
    <3> QED
      BY <1>1, <1>3, <3>6, <3>7 DEF IInv
  <2>4. CASE ~(committed + wlen[w] > Cap)
    <3>1. /\ wstart' = wstart
          /\ hwm' = IF committed + wlen[w] > hwm THEN committed + wlen[w] ELSE hwm
      BY <1>1, <1>7, <2>1, <2>4 DEF Grant
    <3>2. committed + wlen[w] \in RecordEnds
      BY <1>1, <2>1, <2>4, EndsClosed
    <3>3. \A r \in Founders : committed < cursor[r] =>
             committed + wlen[w] < cursor[r] /\ hwm' = hwm
      BY <1>1, <2>1, <3>1 DEF Overlaps, ReaderInv
    <3>4. Straight(w)'
      <4>1. End(w)' = committed + wlen[w] /\ End(w)' <= hwm'
        BY <1>1, <2>1, <2>2, <3>1 DEF End
      <4> QED
        BY <1>0, <1>2, <2>1, <3>1, <3>2, <3>3, <4>1 DEF Straight
    <3>5. WriterInv(w)'
      BY <2>1, <2>2, <3>4 DEF WriterInv
    <3>6. ASSUME NEW r \in Founders PROVE ReaderInv(r)'
      <4>1. /\ rwrite[r] \in 0 .. Cap /\ rend[r] \in 0 .. Cap
            /\ cursor[r] \in 0 .. Cap /\ ReaderInv(r)
        BY <1>1 DEF TypeOK
      <4>2. Contents(r)'
        BY <1>1, <1>2, <3>3, <4>1 DEF ReaderInv, Contents
      <4>3. LocalsFresh(r)'
        BY <1>1, <1>2, <3>3, <4>1 DEF ReaderInv, LocalsFresh, Limit
      <4> QED
        BY <1>1, <1>2, <3>3, <4>1, <4>2, <4>3 DEF ReaderInv
    <3> QED
      BY <1>1, <1>3, <3>5, <3>6 DEF IInv
  <2> QED
    BY <2>3, <2>4
<1> QED
  BY <1>4, <1>5, <1>6, <1>7

(* Steps of the writer from the copy to the release of the mutex. *)
LEMMA WriteDropStep ==
    ASSUME SingleWriter, NoExactFit, IInv, TypeInv', NEW w \in Writers,
           Fill(w) \/ DropHighWater(w) \/ DropCommit(w) \/ DropWake(w)
    PROVE  IInv'
<1> USE DisruptorAssumption
<1>1. /\ TypeOK /\ TypeOK' /\ committed \in RecordEnds
      /\ committed \in 0 .. Cap /\ committed < Cap
      /\ \A r \in Founders : ReaderInv(r)
      /\ WriterInv(w)
      /\ \A v \in Writers : v = w
      /\ wlen[w] \in Nat /\ wstart[w] \in Nat /\ hwm \in 0 .. Cap /\ total \in Nat
  <2>1. committed \in RecordEnds /\ committed \in 0 .. Cap /\ committed # Cap
    BY EndsClosed DEF IInv, TypeInv, TypeOK, NoExactFit
  <2> QED
    BY <2>1 DEF IInv, TypeInv, TypeOK, SingleWriter
<1>2. /\ wlen' = wlen /\ wstart' = wstart
      /\ registered' = registered /\ cursor' = cursor /\ rpc' = rpc
      /\ rwrite' = rwrite /\ rhwm' = rhwm /\ rend' = rend /\ consumed' = consumed
  BY DEF Fill, DropHighWater, DropCommit, DropWake, rshared, rlocal, history
<1>3. ASSUME NEW r \in Founders
      PROVE  /\ ReaderInv(r) /\ r \in Readers /\ consumed[r] \in Int
             /\ rwrite[r] \in 0 .. Cap /\ rend[r] \in 0 .. Cap
             /\ cursor[r] \in 0 .. Cap
  BY <1>1 DEF TypeOK
<1>4. RecordEnds' = RecordEnds
  BY DEF RecordEnds, ClosedUnderRecords
<1>5. CASE Fill(w)
  <2>1. /\ wpc[w] = "granted" /\ wpc'[w] = "filled"
        /\ committed' = committed /\ hwm' = hwm /\ total' = total
        /\ buf' = [i \in Offsets |-> IF wstart[w] <= i /\ i < End(w)
                                     THEN total + (i - wstart[w]) ELSE buf[i]]
    BY <1>1, <1>5 DEF Fill, history, TypeOK
  <2>2. Straight(w) \/ (Wrapped(w) /\ hwm = 0)
    BY <1>1, <2>1 DEF WriterInv
  <2>3. WriterInv(w)'
    <3>1. Straight(w) => Straight(w)'
      BY <1>2, <1>4, <2>1 DEF Straight, End
    <3>2. Wrapped(w) => Wrapped(w)'
      BY <1>2, <1>4, <2>1 DEF Wrapped, End
    <3>3. wlen[w] \in Lens
      BY <1>1, <2>1 DEF WriterInv
    <3> QED
      BY <1>2, <2>1, <2>2, <3>1, <3>2, <3>3 DEF WriterInv, End
  <2>4. ASSUME NEW r \in Founders PROVE ReaderInv(r)'
    <3>1. \A i \in Offsets :
             \/ cursor[r] <= committed /\ cursor[r] <= i /\ i < committed
             \/ committed < cursor[r] /\ (cursor[r] <= i \/ i < committed)
             => buf'[i] = buf[i]
      BY <1>1, <1>3, <2>1, <2>2, SMTT(40) DEF Straight, Wrapped, End, Offsets
    <3>2. Contents(r)'
      <4>1. CASE cursor[r] <= committed
        <5>1. \A i \in Offsets : cursor[r] <= i /\ i < committed => buf'[i] = buf[i]
          BY <3>1, <4>1
        <5> QED
          BY <1>2, <1>3, <2>1, <4>1, <5>1 DEF ReaderInv, Contents
      <4>2. CASE committed < cursor[r]
        <5>1. \A i \in Offsets : cursor[r] <= i \/ i < committed => buf'[i] = buf[i]
          BY <3>1, <4>2
        <5>2. ~(cursor[r] <= committed)
          BY <1>1, <1>3, <4>2
        <5> QED
          BY <1>2, <1>3, <2>1, <5>1, <5>2 DEF ReaderInv, Contents
      <4> QED
        BY <1>1, <1>3, <4>1, <4>2
    <3> QED
      BY <1>2, <1>3, <2>1, <3>2 DEF ReaderInv, LocalsFresh, Limit
  <2> QED
    BY <1>1, <1>4, <2>1, <2>3, <2>4 DEF IInv
<1>6. CASE DropHighWater(w)
  <2>1. /\ wpc[w] = "filled" /\ wpc'[w] = "commit"
        /\ committed' = committed /\ buf' = buf /\ total' = total
        /\ hwm' = IF End(w) < committed /\ End(w) # Cap THEN committed
                  ELSE IF End(w) > hwm THEN Cap ELSE hwm
    BY <1>1, <1>6 DEF DropHighWater, history, TypeOK
  <2>2. Straight(w) \/ (Wrapped(w) /\ hwm = 0)
    BY <1>1, <2>1 DEF WriterInv
  <2>3. Straight(w) => hwm' = hwm
    BY <1>1, <2>1 DEF Straight, End
  <2>4. Wrapped(w) => \A r \in Founders : cursor[r] <= committed /\ hwm' = committed
    BY <1>1, <1>3, <2>1 DEF Wrapped, End
  <2>5. WriterInv(w)'
    <3>1. Straight(w) => Straight(w)'
      BY <1>2, <1>4, <2>1, <2>3 DEF Straight, End
    <3>2. Wrapped(w) => Wrapped(w)' /\ (Founders # {} => hwm' = committed')
      BY <1>2, <1>4, <2>1, <2>4 DEF Wrapped, End
    <3>3. wlen[w] \in Lens
      BY <1>1, <2>1 DEF WriterInv
    <3> QED
      BY <1>1, <1>2, <2>1, <2>2, <3>1, <3>2, <3>3 DEF WriterInv, End
  <2>6. ASSUME NEW r \in Founders PROVE ReaderInv(r)'
    <3>1. CASE Straight(w)
      BY <1>2, <1>3, <2>1, <2>3, <3>1 DEF ReaderInv, Contents, LocalsFresh, Limit
    <3>2. CASE Wrapped(w)
      <4>1. cursor[r] <= committed
        BY <2>4, <3>2
      <4>2. Contents(r)'
        BY <1>2, <1>3, <2>1, <4>1 DEF ReaderInv, Contents
      <4>3. LocalsFresh(r)'
        BY <1>1, <1>2, <1>3, <2>1, <4>1 DEF ReaderInv, LocalsFresh, Limit
      <4> QED
        BY <1>1, <1>2, <1>3, <2>1, <4>1, <4>2, <4>3 DEF ReaderInv
    <3> QED
      BY <2>2, <3>1, <3>2
  <2> QED
    BY <1>1, <1>4, <2>1, <2>5, <2>6 DEF IInv
<1>7. CASE DropCommit(w)
  <2>1. /\ wpc[w] = "commit" /\ wpc'[w] = "wake"
        /\ committed' = End(w) /\ buf' = buf /\ hwm' = hwm
        /\ total' = total + wlen[w]
    BY <1>1, <1>7 DEF DropCommit, TypeOK
  <2>2. Straight(w) \/ (Wrapped(w) /\ (Founders # {} => hwm = committed))
    BY <1>1, <2>1 DEF WriterInv
  <2>3. committed' \in RecordEnds' /\ committed' \in 0 .. Cap
    BY <1>1, <1>4, <2>1, <2>2 DEF Straight, Wrapped, TypeOK
  <2>4. WriterInv(w)'
    BY <1>1, <1>2, <2>1 DEF WriterInv
  <2>5. ASSUME NEW i \in Offsets, wstart[w] <= i, i < End(w)
        PROVE  buf[i] = total + (i - wstart[w])
    BY <1>1, <2>1, <2>5 DEF WriterInv
  <2>6. ASSUME NEW r \in Founders PROVE ReaderInv(r)'
    <3>1. CASE Straight(w)
      <4>1. /\ wstart[w] = committed /\ committed' = committed + wlen[w]
            /\ committed < cursor[r] => committed' < cursor[r]
        BY <2>1, <3>1 DEF Straight, End
      <4>2. Contents(r)'
        <5>1. CASE cursor[r] <= committed
          <6>1. /\ total - consumed[r] = committed - cursor[r]
                /\ \A i \in Offsets : cursor[r] <= i /\ i < committed =>
                       buf[i] = consumed[r] + (i - cursor[r])
            BY <1>3, <5>1 DEF ReaderInv, Contents
          <6>2. ASSUME NEW i \in Offsets, cursor[r] <= i, i < committed'
                PROVE  buf[i] = consumed[r] + (i - cursor[r])
            <7>1. CASE i < committed
              BY <6>1, <6>2, <7>1
            <7>2. CASE committed <= i
              BY <1>1, <1>3, <2>5, <4>1, <6>1, <6>2, <7>2 DEF Offsets, End
            <7> QED
              BY <1>1, <7>1, <7>2 DEF Offsets
          <6>3. cursor[r] <= committed' /\ total' - consumed[r] = committed' - cursor[r]
            BY <1>1, <1>3, <2>1, <4>1, <5>1, <6>1
          <6> QED
            BY <1>2, <2>1, <6>2, <6>3 DEF Contents
        <5>2. CASE committed < cursor[r]
          BY <1>1, <1>2, <1>3, <2>1, <2>5, <4>1, <5>2
             DEF ReaderInv, Contents, Offsets, End
        <5> QED
          BY <1>1, <1>3, <5>1, <5>2
      <4>3. LocalsFresh(r)'
        BY <1>1, <1>2, <1>3, <2>1, <4>1 DEF ReaderInv, LocalsFresh, Limit
      <4> QED
        BY <1>1, <1>2, <1>3, <2>1, <4>1, <4>2, <4>3 DEF ReaderInv
    <3>2. CASE Wrapped(w) /\ hwm = committed
      <4>1. /\ wstart[w] = 0 /\ committed' = wlen[w]
            /\ wlen[w] < cursor[r] /\ cursor[r] <= committed
        BY <1>1, <2>1, <3>2 DEF Wrapped, End
      <4>2. Contents(r)'
        <5>1. /\ total - consumed[r] = committed - cursor[r]
              /\ \A i \in Offsets : cursor[r] <= i /\ i < hwm =>
                     buf[i] = consumed[r] + (i - cursor[r])
          BY <1>3, <3>2, <4>1 DEF ReaderInv, Contents
        <5>2. \A i \in Offsets : i < committed' => buf[i] = (total' - committed') + i
          BY <1>1, <2>1, <2>5, <4>1 DEF Offsets, End
        <5>3. /\ ~(cursor[r] <= committed')
              /\ total' - consumed[r] = (hwm - cursor[r]) + committed'
          BY <1>1, <1>3, <2>1, <3>2, <4>1, <5>1
        <5> QED
          BY <1>2, <2>1, <5>1, <5>2, <5>3 DEF Contents
      <4>3. LocalsFresh(r)'
        BY <1>1, <1>2, <1>3, <2>1, <3>2, <4>1 DEF ReaderInv, LocalsFresh, Limit
      <4> QED
        BY <1>1, <1>2, <1>3, <2>1, <3>2, <4>1, <4>2, <4>3 DEF ReaderInv
    <3> QED
      BY <2>2, <3>1, <3>2
  <2> QED
    BY <1>1, <2>3, <2>4, <2>6 DEF IInv
<1>8. CASE DropWake(w)
  <2>1. /\ wpc'[w] = "idle" /\ committed' = committed /\ buf' = buf
        /\ hwm' = hwm /\ total' = total
    BY <1>1, <1>8 DEF DropWake, history, TypeOK
  <2>2. WriterInv(w)'
    BY <2>1 DEF WriterInv
  <2>3. \A r \in Founders : ReaderInv(r)'
    BY <1>2, <1>3, <2>1 DEF ReaderInv, Contents, LocalsFresh, Limit
  <2> QED
    BY <1>1, <1>4, <2>1, <2>2, <2>3 DEF IInv
<1> QED
  BY <1>5, <1>6, <1>7, <1>8

(* Steps of a reader, founder or not. *)
LEMMA ReadStep ==
    ASSUME SingleWriter, NoExactFit, IInv, TypeInv', NEW q \in Readers,
           ReaderStep(q) \/ TryNext(q) \/ JoinLoad(q) \/ JoinPush(q) \/ Leave(q)
    PROVE  IInv'
<1> USE DisruptorAssumption
<1>1. /\ committed' = committed /\ hwm' = hwm /\ buf' = buf /\ total' = total
      /\ wpc' = wpc /\ wlen' = wlen /\ wstart' = wstart /\ wcheck' = wcheck
  BY DEF ReaderStep, NextSubscribe, LoadWrite, LoadHighWater, Decide, Release,
         TryNext, JoinLoad, JoinPush, Leave, core, wlocal, history
<1>2. /\ TypeOK /\ TypeOK' /\ committed \in RecordEnds
      /\ committed \in 0 .. Cap /\ committed < Cap /\ hwm \in 0 .. Cap
  <2>1. committed \in RecordEnds /\ committed \in 0 .. Cap /\ committed # Cap
    BY EndsClosed DEF IInv, TypeInv, TypeOK, NoExactFit
  <2> QED
    BY <2>1 DEF IInv, TypeInv, TypeOK
<1>3. ASSUME NEW r \in Founders
      PROVE  /\ ReaderInv(r) /\ r \in Readers /\ consumed[r] \in Int
             /\ rwrite[r] \in 0 .. Cap /\ rend[r] \in 0 .. Cap
             /\ cursor[r] \in 0 .. Cap /\ rhwm[r] \in 0 .. Cap
             /\ total \in Nat
  BY <1>2 DEF IInv, TypeOK
<1>4. SUFFICES
        /\ \A r \in Founders : ReaderInv(r)'
        /\ \A r \in Founders :
              \/ cursor[r] <= cursor'[r] /\ cursor'[r] <= Limit(r)
              \/ committed < cursor[r] /\ cursor'[r] = 0
              \/ cursor'[r] = cursor[r]
  <2>1. RecordEnds' = RecordEnds
    BY DEF RecordEnds, ClosedUnderRecords
  <2> QED
    BY <1>1, <1>2, <1>4, <2>1, CursorMove DEF IInv
<1>5. CASE Decide(q)
  <2>1. ASSUME NEW r \in Founders, r # q
        PROVE  ReaderInv(r)' /\ cursor'[r] = cursor[r]
    <3>1. /\ cursor'[r] = cursor[r] /\ rend'[r] = rend[r] /\ rpc'[r] = rpc[r]
          /\ registered' = registered /\ rwrite' = rwrite /\ rhwm' = rhwm
          /\ consumed' = consumed
      BY <1>2, <1>3, <1>5, <2>1 DEF Decide, TypeOK, history
    <3> QED
      BY <1>1, <1>3, <3>1 DEF ReaderInv, Contents, LocalsFresh, Limit
  <2>2. ASSUME q \in Founders
        PROVE  /\ ReaderInv(q)'
               /\ \/ committed < cursor[q] /\ cursor'[q] = 0
                  \/ cursor'[q] = cursor[q]
    <3> DEFINE read == IF Follow(q) THEN 0 ELSE cursor[q]
               end == IF rwrite[q] < read THEN rhwm[q] ELSE rwrite[q]
    <3>1. /\ rpc[q] = "decide" /\ cursor'[q] = read /\ rend'[q] = end
          /\ rpc'[q] = IF end < read THEN "underflow"
                       ELSE IF end > read THEN "reading"
                       ELSE IF q \in rpolling THEN "idle" ELSE "asleep"
          /\ registered' = registered /\ rwrite' = rwrite /\ rhwm' = rhwm
          /\ consumed' = consumed
      BY <1>2, <1>5 DEF Decide, TypeOK, history
    <3>2. /\ ReaderInv(q) /\ LocalsFresh(q)
          /\ \/ cursor[q] <= rwrite[q] /\ rwrite[q] <= Limit(q)
             \/ rwrite[q] <= committed /\ committed < cursor[q]
          /\ rwrite[q] < cursor[q] => rhwm[q] = hwm
          /\ committed < cursor[q] => cursor[q] <= hwm /\ hwm < Cap
      BY <1>3, <2>2, <3>1 DEF ReaderInv, LocalsFresh
    <3>3. CASE Follow(q)
      <4>1. committed < cursor[q] /\ cursor[q] = hwm /\ rwrite[q] <= committed
        BY <1>2, <1>3, <2>2, <3>2, <3>3 DEF Follow, Limit
      <4>2. read = 0 /\ end = rwrite[q]
        BY <1>3, <2>2, <3>3
      <4>3. Contents(q)'
        BY <1>1, <1>2, <1>3, <2>2, <3>1, <3>2, <4>1, <4>2 DEF ReaderInv, Contents, Offsets
      <4>4. LocalsFresh(q)'
        BY <1>1, <1>2, <1>3, <2>2, <3>1, <4>1, <4>2 DEF LocalsFresh, Limit
      <4> QED
        BY <1>1, <1>2, <1>3, <2>2, <3>1, <3>2, <4>1, <4>2, <4>3, <4>4 DEF ReaderInv
    <3>4. CASE ~Follow(q)
      <4>1. read = cursor[q]
        BY <3>4
      <4>2. read <= end /\ end <= Limit(q)
        BY <1>2, <1>3, <2>2, <3>2, <3>4, <4>1 DEF Follow, Limit
      <4>3. Contents(q)'
        BY <1>1, <3>1, <3>2, <4>1 DEF ReaderInv, Contents
      <4>4. LocalsFresh(q)'
        BY <1>1, <1>2, <1>3, <2>2, <3>1, <4>1, <4>2 DEF LocalsFresh, Limit
      <4> QED
        BY <1>1, <1>2, <1>3, <2>2, <3>1, <3>2, <4>1, <4>2, <4>3, <4>4 DEF ReaderInv
    <3> QED
      BY <3>3, <3>4
  <2> QED
    BY <2>1, <2>2
<1>6. CASE Release(q)
  <2>1. ASSUME NEW r \in Founders, r # q
        PROVE  ReaderInv(r)' /\ cursor'[r] = cursor[r]
    <3>1. /\ cursor'[r] = cursor[r] /\ rend' = rend /\ rpc'[r] = rpc[r]
          /\ registered' = registered /\ rwrite' = rwrite /\ rhwm' = rhwm
          /\ consumed'[r] = consumed[r]
      BY <1>2, <1>3, <1>6, <2>1 DEF Release, TypeOK
    <3> QED
      BY <1>1, <1>3, <3>1 DEF ReaderInv, Contents, LocalsFresh, Limit
  <2>2. ASSUME q \in Founders
        PROVE  /\ ReaderInv(q)'
               /\ cursor[q] <= cursor'[q] /\ cursor'[q] <= Limit(q)
    <3>1. /\ rpc[q] = "reading" /\ cursor'[q] = rend[q] /\ rpc'[q] = "idle"
          /\ consumed'[q] = consumed[q] + (rend[q] - cursor[q])
          /\ registered' = registered
      BY <1>2, <1>6 DEF Release, TypeOK
    <3>2. /\ ReaderInv(q) /\ cursor[q] < rend[q] /\ rend[q] <= Limit(q)
          /\ committed < cursor[q] => cursor[q] <= hwm /\ hwm < Cap
      BY <1>3, <2>2, <3>1 DEF ReaderInv, LocalsFresh
    <3>3. Contents(q)'
      <4>1. CASE cursor[q] <= committed
        BY <1>1, <1>2, <1>3, <2>2, <3>1, <3>2, <4>1
           DEF ReaderInv, Contents, Limit, Offsets
      <4>2. CASE committed < cursor[q]
        BY <1>1, <1>2, <1>3, <2>2, <3>1, <3>2, <4>2
           DEF ReaderInv, Contents, Limit, Offsets
      <4> QED
        BY <1>2, <1>3, <2>2, <4>1, <4>2
    <3>4. LocalsFresh(q)'
      BY <3>1 DEF LocalsFresh
    <3> QED
      BY <1>1, <1>2, <1>3, <2>2, <3>1, <3>2, <3>3, <3>4 DEF ReaderInv, Limit
  <2> QED
    BY <2>1, <2>2
<1>7. CASE LoadWrite(q) \/ LoadHighWater(q)
  <2> SUFFICES ASSUME NEW r \in Founders PROVE ReaderInv(r)'
    BY <1>7 DEF LoadWrite, LoadHighWater, rshared
  <2>1. /\ cursor' = cursor /\ rend' = rend /\ registered' = registered
        /\ consumed' = consumed
    BY <1>7 DEF LoadWrite, LoadHighWater, rshared, history
  <2>2. CASE LoadWrite(q)
    <3>1. /\ rhwm' = rhwm
          /\ IF r = q THEN rpc'[r] = "hwm" /\ rwrite'[r] = committed
                      ELSE rpc'[r] = rpc[r] /\ rwrite'[r] = rwrite[r]
      BY <1>2, <1>3, <2>2 DEF LoadWrite, TypeOK
    <3>2. LocalsFresh(r)'
      BY <1>1, <1>2, <1>3, <2>1, <3>1 DEF ReaderInv, LocalsFresh, Limit
    <3> QED
      BY <1>1, <1>3, <2>1, <3>1, <3>2 DEF ReaderInv, Contents
  <2>3. CASE LoadHighWater(q)
    <3>1. /\ rwrite' = rwrite
          /\ IF r = q THEN rpc[r] = "hwm" /\ rpc'[r] = "decide" /\ rhwm'[r] = hwm
                      ELSE rpc'[r] = rpc[r] /\ rhwm'[r] = rhwm[r]
      BY <1>2, <1>3, <2>3 DEF LoadHighWater, TypeOK
    <3>2. LocalsFresh(r)'
      BY <1>1, <1>2, <1>3, <2>1, <3>1 DEF ReaderInv, LocalsFresh, Limit
    <3> QED
      BY <1>1, <1>3, <2>1, <3>1, <3>2 DEF ReaderInv, Contents
  <2> QED
    BY <1>7, <2>2, <2>3
<1>8. CASE NextSubscribe(q) \/ TryNext(q) \/ JoinLoad(q) \/ JoinPush(q) \/ Leave(q)
  <2> SUFFICES ASSUME NEW r \in Founders
               PROVE  ReaderInv(r)' /\ cursor'[r] = cursor[r]
    OBVIOUS
  <2>1. rpc[r] \notin {"new", "joining"}
    BY <1>3 DEF ReaderInv
  <2>2. /\ cursor'[r] = cursor[r] /\ rend' = rend /\ consumed'[r] = consumed[r]
        /\ rwrite' = rwrite /\ rhwm' = rhwm
        /\ r \in registered => r \in registered'
        /\ rpc'[r] = rpc[r] \/ rpc'[r] = "load"
    BY <1>2, <1>3, <1>8, <2>1 DEF NextSubscribe, TryNext, JoinLoad, JoinPush,
       Leave, rshared, history, TypeOK
  <2> QED
    BY <1>1, <1>3, <2>2 DEF ReaderInv, Contents, LocalsFresh, Limit
<1> QED
  BY <1>5, <1>6, <1>7, <1>8 DEF ReaderStep

(* Every step of a ring with one writer and no exact fit keeps the invariant. *)
LEMMA IInvStep ==
    ASSUME SingleWriter, NoExactFit
    PROVE  IInv /\ [Next]_vars => IInv'
<1> SUFFICES ASSUME IInv, [Next]_vars PROVE IInv'
  OBVIOUS
<1>1. TypeInv'
  BY TypeStep DEF IInv
<1>2. CASE UNCHANGED vars
  BY <1>2 DEF vars, core, wlocal, rshared, rlocal, history, IInv, TypeInv, TypeOK,
     GrantFits, WriterInv, Straight, Wrapped, Overlaps, End, ReaderInv, Contents,
     LocalsFresh, Limit, RecordEnds, ClosedUnderRecords
<1>3. CASE \E w \in Writers : LoadCommitted(w) \/ WriterStep(w)
  BY <1>1, <1>3, GrantStep, WriteDropStep DEF WriterStep
<1>4. CASE \E r \in Readers : ReaderStep(r) \/ TryNext(r)
                              \/ JoinLoad(r) \/ JoinPush(r) \/ Leave(r)
  BY <1>1, <1>4, ReadStep
<1> QED
  BY <1>2, <1>3, <1>4 DEF Next

(* The invariant implies the delivery properties. *)
LEMMA IInvDelivers ==
    IInv => GrantSparesUnread /\ ReadsInOrder /\ NoUnderflow
<1> SUFFICES ASSUME IInv PROVE GrantSparesUnread /\ ReadsInOrder /\ NoUnderflow
  OBVIOUS
<1> USE DisruptorAssumption
<1>1. ASSUME NEW r \in Founders
      PROVE  /\ ReaderInv(r) /\ consumed[r] \in Int /\ total \in Nat
             /\ rend[r] \in 0 .. Cap /\ cursor[r] \in 0 .. Cap
             /\ committed \in 0 .. Cap /\ hwm \in 0 .. Cap
  BY DEF IInv, TypeInv, TypeOK
<1>2. GrantSparesUnread
  <2> SUFFICES ASSUME NEW w \in Writers, NEW r \in Founders, Holding(w),
                      NEW i \in Unread(r), wstart[w] <= i, i < End(w)
               PROVE  FALSE
    BY DEF GrantSparesUnread
  <2>1. /\ Straight(w) \/ Wrapped(w)
        /\ wlen[w] \in Nat /\ wstart[w] \in Nat
    BY DEF IInv, WriterInv, Holding, TypeInv, TypeOK
  <2> QED
    BY <1>1, <2>1 DEF Straight, Wrapped, Unread, ReaderInv, Offsets, End
<1>3. ReadsInOrder
  <2> SUFFICES ASSUME NEW r \in Founders, rpc[r] = "reading"
               PROVE  /\ consumed[r] + (rend[r] - cursor[r]) <= total
                      /\ \A i \in cursor[r] .. rend[r] - 1 :
                             buf[i] = consumed[r] + (i - cursor[r])
    BY DEF ReadsInOrder
  <2>1. cursor[r] < rend[r] /\ rend[r] <= Limit(r) /\ Contents(r)
    BY <1>1 DEF ReaderInv, LocalsFresh
  <2>2. CASE cursor[r] <= committed
    BY <1>1, <2>1, <2>2 DEF Limit, Contents, Offsets
  <2>3. CASE committed < cursor[r]
    BY <1>1, <2>1, <2>3 DEF Limit, Contents, Offsets, ReaderInv
  <2> QED
    BY <1>1, <2>2, <2>3
<1>4. NoUnderflow
  BY <1>1 DEF NoUnderflow, ReaderInv
<1> QED
  BY <1>2, <1>3, <1>4

(* With one pushing thread and no exact fit, for every capacity, every set of
   record lengths and any number of readers that come and go: no grant of
   try_grant covers bytes the persist task has not released, every grant of
   Reader::next is exactly the next accepted bytes, and the subtraction in
   next never underflows. *)
THEOREM Delivery ==
    ASSUME SingleWriter, NoExactFit
    PROVE  Spec => [](GrantSparesUnread /\ ReadsInOrder /\ NoUnderflow)
<1>1. Init => IInv
  BY InitIInv
<1>2. IInv /\ [Next]_vars => IInv'
  BY IInvStep
<1>3. IInv => GrantSparesUnread /\ ReadsInOrder /\ NoUnderflow
  BY IInvDelivers
<1> QED
  BY <1>1, <1>2, <1>3, PTL DEF Spec

(* What the persist task relies on most: under the same conditions try_grant
   never hands out bytes that a reader registered from the start has yet to
   release. *)
THEOREM Sparing ==
    ASSUME SingleWriter, NoExactFit
    PROVE  Spec => []GrantSparesUnread
<1>1. IInv => GrantSparesUnread
  BY IInvDelivers
<1> QED
  BY <1>1, InitIInv, IInvStep, PTL DEF Spec

(* What component WALs rely on: records of one length L fit exactly only when
   L divides the capacity. *)
LEMMA FixedLength ==
    ASSUME NEW L \in Nat \ {0}, Lens = {L}, \A k \in Nat : k * L # Cap
    PROVE  NoExactFit
<1> DEFINE E == {c \in 0 .. Cap : \E k \in Nat : c = k * L}
<1>1. 0 \in E
  <2>1. 0 = 0 * L
    OBVIOUS
  <2> QED
    BY <2>1, DisruptorAssumption
<1>2. ASSUME NEW c \in E, c + L <= Cap PROVE c + L \in E
  <2>1. PICK k \in Nat : c = k * L
    OBVIOUS
  <2>2. \A a, b \in Nat : (a + 1) * b = a * b + b
    OBVIOUS
  <2>3. L \in Nat /\ k + 1 \in Nat
    OBVIOUS
  <2>4. c + L = (k + 1) * L
    BY <2>1, <2>2, <2>3
  <2> QED
    <3>1. c + L \in 0 .. Cap
      BY <1>2, <2>3, DisruptorAssumption
    <3> QED
      BY <2>3, <2>4, <3>1
<1>3. ClosedUnderRecords(E)
  BY <1>1, <1>2 DEF ClosedUnderRecords
<1> QED
  BY <1>3 DEF NoExactFit, RecordEnds

-----------------------------------------------------------------------------
(* Refinement. *)

(* Under the invariant a read grant shows the next bytes of the stream. *)
LEMMA ViewIsRun ==
    IInv => \A r \in Founders : ViewOf(r) = IF rpc[r] = "reading"
                                THEN Log!Run(consumed[r], rend[r] - cursor[r])
                                ELSE Log!Nothing
<1> SUFFICES ASSUME IInv, NEW r \in Founders
             PROVE  ViewOf(r) = IF rpc[r] = "reading"
                                THEN Log!Run(consumed[r], rend[r] - cursor[r])
                                ELSE Log!Nothing
  OBVIOUS
<1>1. /\ ReadsInOrder /\ consumed[r] \in Int
      /\ rend[r] \in 0 .. Cap /\ cursor[r] \in 0 .. Cap
  BY IInvDelivers, DisruptorAssumption DEF IInv, TypeInv, TypeOK
<1>2. ASSUME rpc[r] = "reading", NEW k \in 0 .. (rend[r] - cursor[r]) - 1
      PROVE  buf[cursor[r] + k] = consumed[r] + k
  <2>1. cursor[r] + k \in cursor[r] .. rend[r] - 1
    BY <1>1
  <2>2. buf[cursor[r] + k] = consumed[r] + ((cursor[r] + k) - cursor[r])
    BY <1>1, <1>2, <2>1 DEF ReadsInOrder
  <2> QED
    BY <1>1, <2>2
<1> QED
  BY <1>2 DEF ViewOf, Log!Run, Log!Nothing

(* The steps the log sees: each is a step of the log, or leaves what the log
   is made of as it was. *)
LEMMA LogStep ==
    ASSUME IInv, IInv', Next
    PROVE  [Log!Next]_Log!logvars
<1> USE DisruptorAssumption
<1> DEFINE Taken == [r \in Founders |-> consumed[r]]
           View == [r \in Founders |-> ViewOf(r)]
           Shown(r) == IF rpc[r] = "reading"
                       THEN Log!Run(consumed[r], rend[r] - cursor[r])
                       ELSE Log!Nothing
<1>1. /\ TypeOK /\ TypeOK'
      /\ \A r \in Founders : ReaderInv(r) /\ ReaderInv(r)'
  BY DEF IInv, TypeInv
<1>2. \A r \in Founders : ViewOf(r) = Shown(r) /\ ViewOf(r)' = Shown(r)'
  <2>1. \A r \in Founders : ViewOf(r) = Shown(r)
    BY ViewIsRun
  <2>2. \A r \in Founders : ViewOf(r)' = Shown(r)'
    <3>1. (IInv => \A r \in Founders : ViewOf(r) = Shown(r))'
      BY ViewIsRun, PTL
    <3> QED
      BY <3>1
  <2> QED
    BY <2>1, <2>2
<1>3. ASSUME total' = total,
             \A r \in Founders : consumed'[r] = consumed[r] /\ Shown(r)' = Shown(r)
      PROVE  UNCHANGED Log!logvars
  <2>1. Taken' = Taken
    BY <1>3
  <2>2. View' = View
    BY <1>2, <1>3
  <2> QED
    BY <1>3, <2>1, <2>2 DEF Log!logvars
<1>4. CASE \E w \in Writers : DropCommit(w)
  <2>1. PICK w \in Writers : DropCommit(w)
    BY <1>4
  <2>2. /\ total' = total + wlen[w] /\ wlen[w] \in Lens
        /\ consumed' = consumed /\ rpc' = rpc /\ rend' = rend /\ cursor' = cursor
    BY <2>1 DEF DropCommit, rlocal, rshared, IInv, WriterInv
  <2>3. Taken' = Taken
    BY <2>2
  <2>4. View' = View
    BY <1>2, <2>2 DEF Log!Run, Log!Nothing
  <2>5. Log!Accept
    BY <2>2, <2>3, <2>4 DEF Log!Accept
  <2> QED
    BY <2>5 DEF Log!Next
<1>5. CASE \E w \in Writers : \/ LoadCommitted(w) \/ TakeLock(w) \/ CheckReader(w)
                              \/ Grant(w) \/ Fill(w) \/ DropHighWater(w)
                              \/ DropWake(w)
  <2>1. /\ total' = total /\ consumed' = consumed
        /\ rpc' = rpc /\ rend' = rend /\ cursor' = cursor
    BY <1>5 DEF LoadCommitted, TakeLock, CheckReader, Grant, Fill, DropHighWater,
                DropWake, rshared, rlocal, history
  <2> QED
    BY <1>3, <2>1 DEF Log!Run, Log!Nothing
<1>6. ASSUME NEW q \in Readers, Decide(q) PROVE [Log!Next]_Log!logvars
  <2>1. /\ total' = total /\ consumed' = consumed /\ rpc[q] = "decide"
        /\ \A r \in Founders : r # q => /\ rpc'[r] = rpc[r] /\ rend'[r] = rend[r]
                                       /\ cursor'[r] = cursor[r]
    BY <1>1, <1>6 DEF Decide, history, TypeOK
  <2>2. Taken' = Taken
    BY <2>1
  <2>3. \A r \in Founders : r # q => Shown(r)' = Shown(r)
    BY <2>1 DEF Log!Run, Log!Nothing
  <2>4. CASE q \in Founders /\ rpc'[q] = "reading"
    <3> DEFINE n == rend'[q] - cursor'[q]
    <3>1. n \in 1 .. total - consumed[q]
      <4>0. (IInv => ReadsInOrder)'
        BY IInvDelivers, PTL
      <4>1. /\ cursor'[q] < rend'[q] /\ rend'[q] \in 0 .. Cap /\ cursor'[q] \in 0 .. Cap
            /\ ReadsInOrder' /\ consumed[q] \in Int /\ total \in Nat
        BY <1>1, <2>4, <4>0 DEF ReaderInv, LocalsFresh, TypeOK
      <4> QED
        BY <2>1, <2>4, <4>1 DEF ReadsInOrder
    <3>2. View[q] = Log!Nothing /\ View'[q] = Log!Run(Taken[q], n)
      BY <1>2, <2>1, <2>4 DEF Log!Run, Log!Nothing
    <3>3. View' = [View EXCEPT ![q] = Log!Run(Taken[q], n)]
      BY <1>2, <2>3, <2>4, <3>2
    <3>4. Log!Show(q)
      BY <2>1, <2>2, <2>4, <3>1, <3>2, <3>3 DEF Log!Show
    <3> QED
      BY <2>4, <3>4 DEF Log!Next
  <2>5. CASE ~(q \in Founders /\ rpc'[q] = "reading")
    <3>1. \A r \in Founders : Shown(r)' = Shown(r)
      BY <2>1, <2>3, <2>5 DEF Log!Nothing
    <3> QED
      BY <1>3, <2>1, <3>1
  <2> QED
    BY <2>4, <2>5
<1>7. ASSUME NEW q \in Readers, Release(q) PROVE [Log!Next]_Log!logvars
  <2>1. /\ total' = total /\ rpc[q] = "reading" /\ rpc'[q] = "idle"
        /\ consumed'[q] = consumed[q] + (rend[q] - cursor[q])
        /\ \A r \in Founders : r # q => /\ rpc'[r] = rpc[r] /\ rend'[r] = rend[r]
                                       /\ cursor'[r] = cursor[r]
                                       /\ consumed'[r] = consumed[r]
    BY <1>1, <1>7 DEF Release, TypeOK
  <2>2. \A r \in Founders : r # q => Shown(r)' = Shown(r)
    BY <2>1 DEF Log!Run, Log!Nothing
  <2>3. CASE q \in Founders
    <3> DEFINE n == rend[q] - cursor[q]
    <3>1. n \in 1 .. total - consumed[q]
      <4>1. /\ cursor[q] < rend[q] /\ rend[q] \in 0 .. Cap /\ cursor[q] \in 0 .. Cap
            /\ ReadsInOrder /\ consumed[q] \in Int /\ total \in Nat
        BY <1>1, <2>1, <2>3, IInvDelivers DEF ReaderInv, LocalsFresh, TypeOK
      <4> QED
        BY <2>1, <2>3, <4>1 DEF ReadsInOrder
    <3>2. View[q] = Log!Run(Taken[q], n) /\ View'[q] = Log!Nothing
      BY <1>2, <2>1, <2>3 DEF Log!Run, Log!Nothing
    <3>3. View' = [View EXCEPT ![q] = Log!Nothing]
      BY <1>2, <2>2, <2>3, <3>2
    <3>4. Taken' = [Taken EXCEPT ![q] = @ + n]
      BY <2>1, <2>3
    <3>5. Log!Take(q)
      BY <2>1, <2>3, <3>1, <3>2, <3>3, <3>4 DEF Log!Take
    <3> QED
      BY <2>3, <3>5 DEF Log!Next
  <2>4. CASE q \notin Founders
    BY <1>3, <2>1, <2>2, <2>4
  <2> QED
    BY <2>3, <2>4
<1>8. ASSUME NEW q \in Readers,
             \/ NextSubscribe(q) \/ LoadWrite(q) \/ LoadHighWater(q) \/ TryNext(q)
             \/ JoinLoad(q) \/ JoinPush(q) \/ Leave(q)
      PROVE  UNCHANGED Log!logvars
  <2> SUFFICES ASSUME NEW r \in Founders
               PROVE  consumed'[r] = consumed[r] /\ Shown(r)' = Shown(r)
    BY <1>3, <1>8 DEF NextSubscribe, LoadWrite, LoadHighWater, TryNext, JoinLoad,
                      JoinPush, Leave, history
  <2>1. rpc[r] # "new"
    BY <1>1 DEF ReaderInv
  <2>2. /\ consumed'[r] = consumed[r] /\ cursor'[r] = cursor[r] /\ rend' = rend
        /\ rpc'[r] = "reading" <=> rpc[r] = "reading"
    BY <1>1, <1>8, <2>1 DEF NextSubscribe, LoadWrite, LoadHighWater, TryNext,
       JoinLoad, JoinPush, Leave, rshared, history, TypeOK
  <2> QED
    BY <2>2 DEF Log!Run, Log!Nothing
<1> QED
  BY <1>4, <1>5, <1>6, <1>7, <1>8 DEF Next, WriterStep, ReaderStep

(* With one pushing thread and no exact fit the ring implements the abstract
   log: acceptance is the store of the write position, a subscriber's view is
   the read grant that Reader::next returns. *)
THEOREM Refinement ==
    ASSUME SingleWriter, NoExactFit
    PROVE  Spec => ImplementsLog
<1>1. Init => Log!Init
  BY DisruptorAssumption DEF Init, Log!Init, Log!Nothing, ViewOf
<1>2. IInv /\ IInv' /\ [Next]_vars => [Log!Next]_Log!logvars
  <2>1. CASE UNCHANGED vars
    BY <2>1 DEF vars, core, wlocal, rshared, rlocal, history, Log!logvars, ViewOf
  <2> QED
    BY <2>1, LogStep
<1>3. Spec => []IInv
  BY InitIInv, IInvStep, PTL DEF Spec
<1> QED
  BY <1>1, <1>2, <1>3, PTL DEF Spec, ImplementsLog, Log!Spec

-----------------------------------------------------------------------------
(***************************************************************************)
(* The list of readers, for any number of them: as long as no two threads  *)
(* open or close readers at once, the list holds exactly the registered    *)
(* readers and a walk of can_write checks every reader that was there all  *)
(* along, whatever is pushed and unlinked during it.                       *)
(*                                                                         *)
(* What a thread still meets on its way along the list is stated without   *)
(* paths: a node lies ahead of a place when every set of nodes that the    *)
(* pointers lead to from there, and do not leave, contains it.             *)
(***************************************************************************)
(* The pointers nx lead from x into S, and do not leave it. *)
Leads(nx, x, S) ==
    /\ x \in S \cup {Null}
    /\ \A m \in S : nx[m] \in S \cup {Null}

(* All of T is met on the way from x along nx. *)
Ahead(nx, x, T) == \A S \in SUBSET Nodes : Leads(nx, x, S) => T \subseteq S

(* Swapped in at some time, unlinked since or not. *)
Pushed == {n \in Nodes : pc[n] \notin {"new", "pushing"}}

Types ==
    /\ next \in [Nodes \cup {Head} -> Nodes \cup {Null}]
    /\ pc \in [Nodes -> {"new", "pushing", "live", "find", "next", "unlink",
                         "advance", "gone", "detached"}]
    /\ at \in [Nodes -> Nodes \cup {Head}]
    /\ seen \in [Nodes -> Nodes \cup {Null}]
    /\ succ \in [Nodes -> Nodes \cup {Null}]
    /\ \A n \in Nodes : pc[n] = "next" => seen[n] # Null
    /\ wcur \in Nodes \cup {Head, Null}
    /\ wmet \in SUBSET Nodes /\ owed \in SUBSET Nodes
    /\ clash \in BOOLEAN

(* One push or drop at a time, and no drop has missed its node. *)
Alone ==
    /\ \A m, n \in Busy : m = n
    /\ \A n \in Nodes : pc[n] # "detached"

(* The list stays among the registered readers and passes them all, each by
   one pointer; what was unlinked still points at nodes that were pushed. *)
Shape ==
    /\ Leads(next, next[Head], Registered)
    /\ Leads(next, next[Head], Pushed)
    /\ Ahead(next, next[Head], Registered)
    /\ \A l, m \in Registered \cup {Head} : next[l] = next[m] => l = m \/ next[l] = Null

(* A push has copied the head; a drop is on the list, with its node still
   ahead, and what it has loaded is what the list says. *)
Pushing(n) == pc[n] = "pushing" => next[n] = next[Head]
Dropping(n) ==
    pc[n] \in {"find", "next", "unlink", "advance"} =>
        /\ at[n] \in (Registered \cup {Head}) \ {n}
        /\ Ahead(next, next[at[n]], {n})
        /\ pc[n] # "find" => seen[n] = next[at[n]] /\ seen[n] # Null
        /\ pc[n] = "unlink" => seen[n] = n /\ succ[n] = next[n]
        /\ pc[n] = "advance" => seen[n] # n

(* What the walk owes and has not met lies ahead of the node in hand. *)
Walked ==
    /\ \A n \in owed : pc[n] = "live"
    /\ wcur \in Pushed \cup {Head, Null}
    /\ Walking => Ahead(next, wcur, owed \ wmet)

Orderly ==
    /\ Alone
    /\ Shape
    /\ \A n \in Nodes : Pushing(n) /\ Dropping(n)
    /\ Walked

(* The inductive invariant. *)
ListIInv == Types /\ (~clash => Orderly)
-----------------------------------------------------------------------------
(* Lemmas about what lies ahead.  Stepping over a node leaves the others. *)
LEMMA StepOver ==
    ASSUME NEW nx, NEW x \in Nodes, NEW T, Ahead(nx, x, T)
    PROVE  Ahead(nx, nx[x], T \ {x})
<1> SUFFICES ASSUME NEW S \in SUBSET Nodes, Leads(nx, nx[x], S)
             PROVE  T \ {x} \subseteq S
    BY DEF Ahead
<1>1. S \cup {x} \in SUBSET Nodes
    OBVIOUS
<1>2. Leads(nx, x, S \cup {x})
    BY DEF Leads
<1>3. T \subseteq S \cup {x}
    BY <1>1, <1>2 DEF Ahead
<1> QED BY <1>3

(* Nodes the way does not pass may be changed. *)
LEMMA Elsewhere ==
    ASSUME NEW nx, NEW ny, NEW x, NEW T, NEW P \in SUBSET Nodes,
           Leads(nx, x, P), \A m \in P : ny[m] = nx[m],
           Ahead(nx, x, T)
    PROVE  Ahead(ny, x, T)
<1> SUFFICES ASSUME NEW S \in SUBSET Nodes, Leads(ny, x, S)
             PROVE  T \subseteq S
    BY DEF Ahead
<1>1. S \cap P \in SUBSET Nodes
    OBVIOUS
<1>2. Leads(nx, x, S \cap P)
    BY DEF Leads
<1>3. T \subseteq S \cap P
    BY <1>1, <1>2 DEF Ahead
<1> QED BY <1>3

(* Unlinking a node n behind a hides n and nothing else. *)
LEMMA Unlinked ==
    ASSUME NEW nx, NEW ny, NEW x, NEW T, NEW n \in Nodes, NEW a,
           nx[a] = n, ny[a] = nx[n], \A m \in Nodes \ {a} : ny[m] = nx[m],
           n \notin T, Ahead(nx, x, T)
    PROVE  Ahead(ny, x, T)
<1> SUFFICES ASSUME NEW S \in SUBSET Nodes, Leads(ny, x, S)
             PROVE  T \subseteq S
    BY DEF Ahead
<1>1. CASE a \notin S
    <2>1. Leads(nx, x, S)
        BY <1>1 DEF Leads
    <2> QED BY <2>1 DEF Ahead
<1>2. CASE a \in S
    <2>1. S \cup {n} \in SUBSET Nodes
        OBVIOUS
    <2>2. nx[n] \in S \cup {Null}
        BY <1>2 DEF Leads
    <2>3. \A m \in S \cup {n} : nx[m] \in S \cup {n} \cup {Null}
        <3> TAKE m \in S \cup {n}
        <3>1. CASE m = n
            BY <3>1, <2>2
        <3>2. CASE m # n /\ m = a
            BY <3>2
        <3>3. CASE m # n /\ m # a
            BY <3>3 DEF Leads
        <3> QED BY <3>1, <3>2, <3>3
    <2>4. Leads(nx, x, S \cup {n})
        BY <2>3 DEF Leads
    <2>5. T \subseteq S \cup {n}
        BY <2>1, <2>4 DEF Ahead
    <2> QED BY <2>5
<1> QED BY <1>1, <1>2

(* Pointers that agree on the nodes are the same way. *)
LEMMA SameWay ==
    ASSUME NEW nx, NEW ny, NEW x, NEW T, \A m \in Nodes : ny[m] = nx[m],
           Ahead(nx, x, T)
    PROVE  Ahead(ny, x, T)
BY DEF Ahead, Leads

(* No registered reader points at itself: the others alone would then be the
   whole list. *)
LEMMA NoLoop ==
    ASSUME Types, Shape, NEW n \in Registered
    PROVE  next[n] # n
<1> SUFFICES ASSUME next[n] = n PROVE FALSE
    OBVIOUS
<1>1. n \in Nodes /\ n # Null /\ Registered \in SUBSET Nodes
    BY ReaderListAssumption DEF Registered
<1>2. \A m \in (Registered \cup {Head}) \ {n} : next[m] # n
    BY <1>1 DEF Shape
<1>3. n # Head
    BY <1>1, ReaderListAssumption
<1>4. Leads(next, next[Head], Registered \ {n})
    BY <1>2, <1>3 DEF Shape, Leads
<1>5. Registered \ {n} \in SUBSET Nodes
    BY <1>1
<1>6. Registered \subseteq Registered \ {n}
    BY <1>4, <1>5 DEF Shape, Ahead
<1> QED BY <1>6

-----------------------------------------------------------------------------
LEMMA ListInitIInv == ListInit => ListIInv
<1> SUFFICES ASSUME ListInit PROVE ListIInv
    OBVIOUS
<1> USE ReaderListAssumption DEF ListInit
<1>1. Types
    BY DEF Types
<1>2. Registered = {} /\ Pushed = {} /\ Busy = {}
    BY DEF Registered, Pushed, Busy
<1>3. Shape
    BY <1>2 DEF Shape, Leads, Ahead
<1>4. Alone /\ Walked
    BY <1>2 DEF Alone, Walked, Walking
<1>5. \A n \in Nodes : Pushing(n) /\ Dropping(n)
    BY DEF Pushing, Dropping
<1> QED BY <1>1, <1>3, <1>4, <1>5 DEF ListIInv, Orderly

LEMMA TypesStep == Types /\ [ListNext]_listVars => Types'
<1> SUFFICES ASSUME Types, [ListNext]_listVars PROVE Types'
    OBVIOUS
<1> USE ReaderListAssumption DEF Types
<1>1. ASSUME NEW n \in Nodes, PushClone(n) PROVE Types'
    BY <1>1 DEF PushClone, Begin, drops, walk
<1>2. ASSUME NEW n \in Nodes, PushSwap(n) PROVE Types'
    BY <1>2 DEF PushSwap, drops, walk
<1>3. ASSUME NEW n \in Nodes, DropStart(n) PROVE Types'
    BY <1>3 DEF DropStart, Begin
<1>4. ASSUME NEW n \in Nodes, DropLoad(n) PROVE Types'
    BY <1>4 DEF DropLoad, walk
<1>5. ASSUME NEW n \in Nodes, DropLoadNext(n) PROVE Types'
    BY <1>5 DEF DropLoadNext, walk
<1>6. ASSUME NEW n \in Nodes, DropCas(n) PROVE Types'
    BY <1>6 DEF DropCas, drops, walk
<1>7. ASSUME NEW n \in Nodes, DropAdvance(n) PROVE Types'
    BY <1>7 DEF DropAdvance, walk
<1>8. CASE WalkFirst
    BY <1>8 DEF WalkFirst, drops, Walking
<1>9. CASE WalkNext
    BY <1>9 DEF WalkNext, drops, Walking
<1>10. CASE WalkEnd
    BY <1>10 DEF WalkEnd, drops
<1>11. CASE UNCHANGED listVars
    BY <1>11 DEF listVars, drops, walk
<1> QED BY <1>1, <1>2, <1>3, <1>4, <1>5, <1>6, <1>7, <1>8, <1>9, <1>10, <1>11
    DEF ListNext, DropStep, WalkStep

-----------------------------------------------------------------------------
(* A push begins: no other push or drop is under way, and the node is on
   nobody's way. *)
LEMMA PushCloneStep ==
    ASSUME Types, Orderly, NEW n \in Nodes, PushClone(n), ~clash'
    PROVE  Orderly'
<1> USE ReaderListAssumption
<1>1. Busy = {} /\ pc[n] = "new" /\ pc' = [pc EXCEPT ![n] = "pushing"]
    BY DEF PushClone, Begin
<1>2. Busy' = {n} /\ Registered' = Registered /\ Pushed' = Pushed
    BY <1>1 DEF Busy, Registered, Pushed, Types
<1>3. n \notin Registered /\ n \notin Pushed
    BY <1>1 DEF Registered, Pushed
<1>4. /\ \A m \in (Nodes \cup {Head}) \ {n} : next'[m] = next[m]
      /\ next'[n] = next[Head]
    BY DEF PushClone, Types
<1>5. Registered \in SUBSET Nodes /\ Pushed \in SUBSET Nodes
    BY DEF Registered, Pushed
<1>6. next'[Head] = next[Head]
    BY <1>4
<1>7. Alone'
    BY <1>1, <1>2 DEF Alone, Orderly, Types
<1>8. Shape'
    <2>1. Leads(next', next'[Head], Registered) /\ Leads(next', next'[Head], Pushed)
        BY <1>3, <1>4, <1>5, <1>6 DEF Orderly, Shape, Leads
    <2>2. \A m \in Pushed : next'[m] = next[m]
        BY <1>3, <1>4, <1>5
    <2>3. Ahead(next', next[Head], Registered)
        BY <1>5, <2>2, Elsewhere DEF Orderly, Shape
    <2>4. \A l, m \in Registered \cup {Head} : next'[l] = next'[m] => l = m \/ next'[l] = Null
        BY <1>3, <1>4, <1>5 DEF Orderly, Shape
    <2> QED BY <1>2, <1>6, <2>1, <2>3, <2>4 DEF Shape
<1>9. ASSUME NEW m \in Nodes PROVE (Pushing(m) /\ Dropping(m))'
    <2>1. Pushing(m)'
        <3>1. CASE m = n
            BY <3>1, <1>4, <1>6 DEF Pushing
        <3>2. CASE m # n
            BY <3>2, <1>1, <1>4, <1>6 DEF Pushing, Orderly, Types
        <3> QED BY <3>1, <3>2
    <2>2. Dropping(m)'
        BY <1>1 DEF Dropping, Busy, Types
    <2> QED BY <2>1, <2>2
<1>10. Walked'
    <2>1. UNCHANGED <<wcur, wmet, owed>>
        BY DEF PushClone, walk
    <2>2. \A m \in owed : pc'[m] = "live"
        BY <1>1 DEF Orderly, Walked, Types
    <2>3. ASSUME Walking PROVE Ahead(next', wcur, owed \ wmet)
        <3>1. wcur \in Pushed \cup {Null}
            BY <2>3 DEF Walking, Orderly, Walked
        <3>2. Leads(next, wcur, Pushed)
            BY <3>1 DEF Orderly, Shape, Leads
        <3>3. \A m \in Pushed : next'[m] = next[m]
            BY <1>3, <1>4, <1>5
        <3>4. Ahead(next, wcur, owed \ wmet)
            BY <2>3 DEF Orderly, Walked
        <3> QED BY <1>5, <3>2, <3>3, <3>4, Elsewhere
    <2> QED BY <1>2, <2>1, <2>2, <2>3 DEF Walked, Orderly, Walking
<1> QED BY <1>7, <1>8, <1>9, <1>10 DEF Orderly

(* A push ends: the node stands before the list it has copied. *)
LEMMA PushSwapStep ==
    ASSUME Types, Orderly, NEW n \in Nodes, PushSwap(n), ~clash'
    PROVE  Orderly'
<1> USE ReaderListAssumption
<1>1. n \in Busy /\ pc[n] = "pushing" /\ pc' = [pc EXCEPT ![n] = "live"]
    BY DEF PushSwap, Busy
<1>2. Busy = {n}
    BY <1>1 DEF Orderly, Alone
<1>3. Busy' = {} /\ Registered' = Registered \cup {n} /\ Pushed' = Pushed \cup {n}
    <2>1. Busy' = {}
        BY <1>1, <1>2 DEF Busy, Types
    <2>2. Registered' = Registered \cup {n} /\ Pushed' = Pushed \cup {n}
        BY <1>1 DEF Registered, Pushed, Types
    <2> QED BY <2>1, <2>2
<1>4. n \notin Registered /\ n \notin Pushed /\ n # Head /\ n # Null
    BY <1>1 DEF Registered, Pushed
<1>5. next'[Head] = n /\ \A m \in Nodes : next'[m] = next[m]
    BY DEF PushSwap, Types
<1>6. next[n] = next[Head]
    BY <1>1 DEF Orderly, Pushing
<1>7. Registered \in SUBSET Nodes /\ Pushed \in SUBSET Nodes
    BY DEF Registered, Pushed
<1>8. Alone'
    BY <1>1, <1>3 DEF Alone, Orderly, Types
<1>9. Shape'
    <2>1. /\ Leads(next', n, Registered \cup {n})
          /\ Leads(next', n, Pushed \cup {n})
        BY <1>5, <1>6, <1>7 DEF Orderly, Shape, Leads
    <2>2. Ahead(next', n, Registered \cup {n})
        <3> SUFFICES ASSUME NEW S \in SUBSET Nodes, Leads(next', n, S)
                     PROVE  Registered \cup {n} \subseteq S
            BY DEF Ahead
        <3>1. n \in S
            BY <1>4 DEF Leads
        <3>2. Leads(next, next[Head], S)
            BY <3>1, <1>5, <1>6 DEF Leads
        <3> QED BY <3>1, <3>2 DEF Orderly, Shape, Ahead
    <2>3. \A l, m \in Registered \cup {n, Head} :
              next'[l] = next'[m] => l = m \/ next'[l] = Null
        <3>1. \A m \in Registered \cup {Head} : next[m] # n
            BY <1>4 DEF Orderly, Shape, Leads
        <3>2. \A l, m \in Registered \cup {Head} : next[l] = next[m] => l = m \/ next[l] = Null
            BY DEF Orderly, Shape
        <3>3. \A m \in Registered : m \in Nodes /\ m # Head
            BY <1>7
        <3> QED BY <1>4, <1>5, <1>6, <3>1, <3>2, <3>3
    <2>4. Registered \cup {n, Head} = Registered \cup {n} \cup {Head}
        OBVIOUS
    <2> QED BY <1>3, <1>5, <2>1, <2>2, <2>3, <2>4 DEF Shape
<1>10. \A m \in Nodes : (Pushing(m) /\ Dropping(m))'
    BY <1>3 DEF Pushing, Dropping, Busy
<1>11. Walked'
    <2>1. UNCHANGED <<wcur, wmet, owed>>
        BY DEF PushSwap, walk
    <2>2. \A m \in owed : pc'[m] = "live"
        BY <1>1 DEF Orderly, Walked, Types
    <2>3. Walking => Ahead(next', wcur, owed \ wmet)
        BY <1>5, SameWay DEF Orderly, Walked
    <2> QED BY <1>3, <2>1, <2>2, <2>3 DEF Walked, Orderly, Walking
<1> QED BY <1>8, <1>9, <1>10, <1>11 DEF Orderly

-----------------------------------------------------------------------------
(* A drop begins, with its node ahead of the head. *)
LEMMA DropStartStep ==
    ASSUME Types, Orderly, NEW n \in Nodes, DropStart(n), ~clash'
    PROVE  Orderly'
<1> USE ReaderListAssumption
<1>1. /\ Busy = {} /\ pc[n] = "live" /\ pc' = [pc EXCEPT ![n] = "find"]
      /\ next' = next /\ at'[n] = Head /\ owed' = owed \ {n}
      /\ wcur' = wcur /\ wmet' = wmet
    BY DEF DropStart, Begin, Types
<1>2. Busy' = {n} /\ Registered' = Registered /\ Pushed' = Pushed
    BY <1>1 DEF Busy, Registered, Pushed, Types
<1>3. n \in Registered
    BY <1>1 DEF Registered
<1>4. Alone'
    BY <1>1, <1>2 DEF Alone, Orderly, Types
<1>5. Shape'
    BY <1>1, <1>2 DEF Shape, Orderly
<1>6. Dropping(n)'
    <2>1. Ahead(next, next[Head], {n})
        BY <1>3 DEF Orderly, Shape, Ahead
    <2> QED BY <1>1, <1>2, <2>1 DEF Dropping, Types
<1>7. \A m \in Nodes : (Pushing(m) /\ Dropping(m))'
    BY <1>1, <1>6 DEF Pushing, Dropping, Busy, Types
<1>8. Walked'
    <2>1. \A m \in owed \ {n} : pc'[m] = "live"
        BY <1>1 DEF Orderly, Walked, Types
    <2>2. Walking => Ahead(next, wcur, (owed \ {n}) \ wmet)
        BY DEF Orderly, Walked, Ahead
    <2> QED BY <1>1, <1>2, <2>1, <2>2 DEF Walked, Orderly, Walking
<1> QED BY <1>4, <1>5, <1>7, <1>8 DEF Orderly

(* A step inside a drop that leaves the list alone disturbs only what the
   drop itself knows. *)
LEMMA Inside ==
    ASSUME Types, Orderly, NEW n \in Nodes,
           NEW p \in {"find", "next", "unlink", "advance"},
           pc[n] \in {"find", "next", "unlink", "advance"},
           pc' = [pc EXCEPT ![n] = p], next' = next,
           wcur' = wcur, wmet' = wmet, owed' = owed,
           Dropping(n)'
    PROVE  Orderly'
<1>1. Busy = {n}
    BY DEF Orderly, Alone, Busy
<1>2. Busy' = {n} /\ Registered' = Registered /\ Pushed' = Pushed
    <2>1. Busy' = Busy
        BY DEF Busy, Types
    <2> QED BY <1>1, <2>1 DEF Registered, Pushed, Types
<1>3. Alone'
    BY <1>2 DEF Alone, Orderly, Types
<1>4. Shape'
    BY <1>2 DEF Shape, Orderly
<1>5. \A m \in Nodes \ {n} : pc'[m] \notin {"pushing", "find", "next", "unlink", "advance"}
    BY <1>2 DEF Busy
<1>6. \A m \in Nodes : (Pushing(m) /\ Dropping(m))'
    BY <1>5 DEF Pushing, Dropping, Types
<1>7. Walked'
    <2>1. \A m \in owed : pc'[m] = "live"
        BY DEF Orderly, Walked, Types
    <2> QED BY <1>2, <2>1 DEF Walked, Orderly, Walking
<1> QED BY <1>3, <1>4, <1>6, <1>7 DEF Orderly

(* Its node being ahead, a drop never finds the end of the list. *)
LEMMA NotAtEnd ==
    ASSUME NEW n \in Nodes, NEW x, Ahead(next, x, {n})
    PROVE  x # Null
<1>1. {} \in SUBSET Nodes
    OBVIOUS
<1> QED BY <1>1 DEF Ahead, Leads

LEMMA DropLoadStep ==
    ASSUME Types, Orderly, NEW n \in Nodes, DropLoad(n)
    PROVE  Orderly'
<1>1. pc[n] = "find" /\ seen'[n] = next[at[n]] /\ UNCHANGED <<next, at, wcur, wmet, owed>>
    BY DEF DropLoad, walk, Types
<1>2. Dropping(n)
    BY DEF Orderly
<1>3. next[at[n]] # Null
    BY <1>1, <1>2, NotAtEnd DEF Dropping
<1>4. pc' = [pc EXCEPT ![n] = "next"]
    BY <1>3 DEF DropLoad
<1>5. Registered' = Registered
    BY <1>1, <1>4 DEF Registered, Types
<1>6. Dropping(n)'
    BY <1>1, <1>2, <1>3, <1>4, <1>5 DEF Dropping, Types
<1> QED BY <1>1, <1>4, <1>6, Inside

LEMMA DropLoadNextStep ==
    ASSUME Types, Orderly, NEW n \in Nodes, DropLoadNext(n)
    PROVE  Orderly'
<1>1. pc[n] = "next" /\ UNCHANGED <<next, at, seen, wcur, wmet, owed>>
    BY DEF DropLoadNext, walk
<1>2. Dropping(n)
    BY DEF Orderly
<1>3. CASE seen[n] = n
    <2>1. pc' = [pc EXCEPT ![n] = "unlink"] /\ succ'[n] = next[n]
        BY <1>3 DEF DropLoadNext, Types
    <2>2. Registered' = Registered
        BY <1>1, <2>1 DEF Registered, Types
    <2>3. Dropping(n)'
        BY <1>1, <1>2, <1>3, <2>1, <2>2 DEF Dropping, Types
    <2> QED BY <1>1, <2>1, <2>3, Inside
<1>4. CASE seen[n] # n
    <2>1. pc' = [pc EXCEPT ![n] = "advance"]
        BY <1>4 DEF DropLoadNext
    <2>2. Registered' = Registered
        BY <1>1, <2>1 DEF Registered, Types
    <2>3. Dropping(n)'
        BY <1>1, <1>2, <1>4, <2>1, <2>2 DEF Dropping, Types
    <2> QED BY <1>1, <2>1, <2>3, Inside
<1> QED BY <1>3, <1>4

(* The node stepped over is not the one looked for, which stays ahead. *)
LEMMA DropAdvanceStep ==
    ASSUME Types, Orderly, NEW n \in Nodes, DropAdvance(n)
    PROVE  Orderly'
<1> USE ReaderListAssumption
<1>1. pc[n] = "advance" /\ UNCHANGED <<next, seen, wcur, wmet, owed>>
    BY DEF DropAdvance, walk
<1>2. Dropping(n)
    BY DEF Orderly
<1>3. next[at[n]] # Null /\ next[at[n]] # n /\ at[n] \in Registered \cup {Head}
    BY <1>1, <1>2 DEF Dropping
<1>4. pc' = [pc EXCEPT ![n] = "find"] /\ at'[n] = next[at[n]]
    BY <1>3 DEF DropAdvance, Types
<1>5. Registered' = Registered
    BY <1>1, <1>4 DEF Registered, Types
<1>6. next[at[n]] \in Registered
    BY <1>3 DEF Orderly, Shape, Leads
<1>7. Ahead(next, next[next[at[n]]], {n})
    <2>1. next[at[n]] \in Nodes
        BY <1>6 DEF Registered
    <2>2. Ahead(next, next[at[n]], {n})
        BY <1>1, <1>2 DEF Dropping
    <2>3. Ahead(next, next[next[at[n]]], {n} \ {next[at[n]]})
        BY <2>1, <2>2, StepOver
    <2>4. {n} \ {next[at[n]]} = {n}
        BY <1>3
    <2> QED BY <2>3, <2>4
<1>8. Dropping(n)'
    BY <1>1, <1>3, <1>4, <1>5, <1>6, <1>7 DEF Dropping, Types
<1> QED BY <1>1, <1>4, <1>8, Inside

(* The exchange takes the node off the list and leaves everything else on
   it, for the list itself and for a walk that is under way. *)
LEMMA DropCasStep ==
    ASSUME Types, Orderly, NEW n \in Nodes, DropCas(n)
    PROVE  Orderly'
<1> USE ReaderListAssumption
<1>1. pc[n] = "unlink" /\ Dropping(n)
    BY DEF DropCas, Orderly
<1> DEFINE a == at[n]
<1>2. a \in (Registered \cup {Head}) \ {n} /\ next[a] = n /\ succ[n] = next[n] /\ seen[n] = n
    BY <1>1 DEF Dropping
<1>3. /\ next' = [next EXCEPT ![a] = next[n]]
      /\ pc' = [pc EXCEPT ![n] = "gone"]
      /\ UNCHANGED <<wcur, wmet, owed>>
    BY <1>2 DEF DropCas, walk
<1>4. Busy = {n}
    BY <1>1 DEF Orderly, Alone, Busy
<1>5. Busy' = {} /\ Registered' = Registered \ {n} /\ Pushed' = Pushed
    <2>1. Busy' = {}
        BY <1>3, <1>4 DEF Busy, Types
    <2>2. Registered' = Registered \ {n} /\ Pushed' = Pushed
        BY <1>1, <1>3 DEF Registered, Pushed, Types
    <2> QED BY <2>1, <2>2
<1>6. n \in Registered /\ Registered \in SUBSET Nodes /\ Pushed \in SUBSET Nodes /\ n \in Pushed
    BY <1>1 DEF Registered, Pushed
<1>7. next[n] # n
    BY <1>6, NoLoop DEF Orderly
<1>8. next'[a] = next[n] /\ \A m \in (Nodes \cup {Head}) \ {a} : next'[m] = next[m]
    BY <1>2, <1>3, <1>6 DEF Types
<1>9. n # Null /\ n # Head
    OBVIOUS
<1> HIDE DEF a
<1>10. Alone'
    BY <1>3, <1>5 DEF Alone, Orderly, Types
<1>11. Shape'
    <2>1. \A m \in (Registered \cup {Head}) \ {a} : next[m] # n
        BY <1>2, <1>9 DEF Orderly, Shape
    <2>2. \A m \in Registered \cup {Head} : next[m] \in Registered \cup {Null}
        BY DEF Orderly, Shape, Leads
    <2>3. \A m \in (Registered \ {n}) \cup {Head} : next'[m] \in (Registered \ {n}) \cup {Null}
        <3> TAKE m \in (Registered \ {n}) \cup {Head}
        <3>1. CASE m = a
            BY <3>1, <1>6, <1>7, <1>8, <2>2
        <3>2. CASE m # a
            BY <3>2, <1>6, <1>8, <2>1, <2>2
        <3> QED BY <3>1, <3>2
    <2>4. Leads(next', next'[Head], Registered \ {n})
        BY <2>3 DEF Leads
    <2>5. \A m \in Pushed \cup {Head} : next[m] \in Pushed \cup {Null}
        BY DEF Orderly, Shape, Leads
    <2>6. \A m \in Pushed \cup {Head} : next'[m] \in Pushed \cup {Null}
        BY <1>6, <1>8, <2>5
    <2>7. Leads(next', next'[Head], Pushed)
        BY <2>6 DEF Leads
    <2>8. Ahead(next', next'[Head], Registered \ {n})
        <3>1. Ahead(next, next[Head], Registered)
            BY DEF Orderly, Shape
        <3>2. CASE a = Head
            <4>1. Ahead(next, next[n], Registered \ {n})
                BY <1>2, <3>1, <3>2, StepOver
            <4>2. \A m \in Nodes : next'[m] = next[m]
                BY <1>8, <3>2
            <4> QED BY <1>8, <3>2, <4>1, <4>2, SameWay
        <3>3. CASE a # Head
            <4>1. Ahead(next, next[Head], Registered \ {n})
                BY <3>1 DEF Ahead
            <4>2. next'[Head] = next[Head]
                BY <1>8, <3>3
            <4>3. \A m \in Nodes \ {a} : next'[m] = next[m]
                BY <1>8
            <4>4. n \notin Registered \ {n}
                OBVIOUS
            <4>5. Ahead(next', next[Head], Registered \ {n})
                BY <1>2, <1>8, <4>1, <4>3, <4>4, Unlinked
            <4> QED BY <4>2, <4>5
        <3> QED BY <3>2, <3>3
    <2>9. \A l, m \in (Registered \ {n}) \cup {Head} :
              next'[l] = next'[m] => l = m \/ next'[l] = Null
        <3>1. \A l, m \in Registered \cup {Head} : next[l] = next[m] => l = m \/ next[l] = Null
            BY DEF Orderly, Shape
        <3>2. \A m \in (Registered \ {n}) \cup {Head} :
                  next'[m] = IF m = a THEN next[n] ELSE next[m]
            BY <1>6, <1>8
        <3> QED BY <1>6, <1>9, <3>1, <3>2
    <2> QED BY <1>5, <2>4, <2>7, <2>8, <2>9 DEF Shape
<1>12. \A m \in Nodes : (Pushing(m) /\ Dropping(m))'
    BY <1>5 DEF Pushing, Dropping, Busy
<1>13. Walked'
    <2>1. \A m \in owed : pc[m] = "live"
        BY DEF Orderly, Walked
    <2>2. \A m \in owed : pc'[m] = "live"
        BY <1>1, <1>3, <2>1 DEF Types
    <2>3. ASSUME Walking PROVE Ahead(next', wcur, owed \ wmet)
        <3>1. Ahead(next, wcur, owed \ wmet)
            BY <2>3 DEF Orderly, Walked
        <3>2. n \notin owed \ wmet
            BY <1>1, <2>1
        <3>3. \A m \in Nodes \ {a} : next'[m] = next[m]
            BY <1>8
        <3> QED BY <1>2, <1>8, <3>1, <3>2, <3>3, Unlinked
    <2> QED BY <1>3, <1>5, <2>2, <2>3 DEF Walked, Orderly, Walking
<1> QED BY <1>10, <1>11, <1>12, <1>13 DEF Orderly

-----------------------------------------------------------------------------
(* The walk changes nothing but its own variables. *)
LEMMA Looking ==
    ASSUME Orderly, UNCHANGED <<next, pc, drops>>, Walked'
    PROVE  Orderly'
<1>1. next' = next /\ pc' = pc /\ at' = at /\ seen' = seen /\ succ' = succ
    BY DEF drops
<1>2. Busy' = Busy /\ Registered' = Registered /\ Pushed' = Pushed
    BY <1>1 DEF Busy, Registered, Pushed
<1>3. Alone' /\ Shape'
    BY <1>1, <1>2 DEF Orderly, Alone, Shape
<1>4. \A m \in Nodes : (Pushing(m) /\ Dropping(m))'
    BY <1>1, <1>2 DEF Orderly, Pushing, Dropping
<1> QED BY <1>3, <1>4 DEF Orderly

LEMMA WalkFirstStep ==
    ASSUME Types, Orderly, WalkFirst
    PROVE  Orderly'
<1> USE ReaderListAssumption
<1> DEFINE L == {n \in Nodes : pc[n] = "live"}
<1>1. /\ UNCHANGED <<next, pc, drops>> /\ next' = next /\ pc' = pc
      /\ wcur' = next[Head] /\ wmet' = {} /\ owed' = L
    BY DEF WalkFirst
<1>2. Pushed' = Pushed
    BY <1>1 DEF Pushed
<1>3. Ahead(next, next[Head], L)
    <2>1. L \subseteq Registered
        BY DEF Registered
    <2> QED BY <2>1 DEF Orderly, Shape, Ahead
<1>4. next[Head] \in Pushed \cup {Null}
    BY DEF Orderly, Shape, Leads
<1>5. Walked'
    <2>1. L \ {} = L
        OBVIOUS
    <2> QED BY <1>1, <1>2, <1>3, <1>4, <2>1 DEF Walked
<1> QED BY <1>1, <1>5, Looking

LEMMA WalkNextStep ==
    ASSUME Types, Orderly, WalkNext
    PROVE  Orderly'
<1> USE ReaderListAssumption
<1>1. /\ UNCHANGED <<next, pc, drops>> /\ next' = next /\ pc' = pc /\ owed' = owed
      /\ wcur' = next[wcur] /\ wmet' = wmet \cup {wcur} /\ wcur # Null /\ Walking
    BY DEF WalkNext
<1>2. wcur \in Pushed /\ wcur \in Nodes
    BY <1>1 DEF Orderly, Walked, Walking, Pushed
<1>3. next[wcur] \in Pushed \cup {Null}
    BY <1>2 DEF Orderly, Shape, Leads
<1>4. Ahead(next, next[wcur], (owed \ wmet) \ {wcur})
    BY <1>1, <1>2, StepOver DEF Orderly, Walked
<1>5. (owed \ wmet) \ {wcur} = owed \ (wmet \cup {wcur})
    OBVIOUS
<1>6. Walked'
    <2>1. Pushed' = Pushed
        BY <1>1 DEF Pushed
    <2>2. Ahead(next, next[wcur], owed \ (wmet \cup {wcur}))
        BY <1>4, <1>5
    <2> QED BY <1>1, <1>3, <2>1, <2>2 DEF Walked, Orderly
<1> QED BY <1>1, <1>6, Looking

LEMMA WalkEndStep ==
    ASSUME Types, Orderly, WalkEnd
    PROVE  Orderly'
<1>1. Walked'
    BY DEF WalkEnd, Walked, Walking
<1> QED BY <1>1, Looking DEF WalkEnd

LEMMA ListIInvStep == ListIInv /\ [ListNext]_listVars => ListIInv'
<1> SUFFICES ASSUME ListIInv, [ListNext]_listVars PROVE ListIInv'
    OBVIOUS
<1>1. Types /\ Types'
    BY TypesStep DEF ListIInv
<1>2. ASSUME ~clash' PROVE Orderly'
    <2>1. ~clash
        BY <1>2, <1>1 DEF ListNext, PushClone, PushSwap, DropStart, Begin, DropStep, DropLoad,
            DropLoadNext, DropCas, DropAdvance, WalkStep, WalkFirst, WalkNext, WalkEnd, listVars
    <2>2. Orderly
        BY <2>1 DEF ListIInv
    <2>3. CASE \E n \in Nodes : PushClone(n) \/ PushSwap(n) \/ DropStart(n)
        BY <1>1, <1>2, <2>2, <2>3, PushCloneStep, PushSwapStep, DropStartStep
    <2>4. CASE \E n \in Nodes : DropStep(n)
        BY <1>1, <2>2, <2>4, DropLoadStep, DropLoadNextStep, DropCasStep, DropAdvanceStep
        DEF DropStep
    <2>5. CASE WalkStep
        BY <1>1, <2>2, <2>5, WalkFirstStep, WalkNextStep, WalkEndStep DEF WalkStep
    <2>6. CASE UNCHANGED listVars
        <3>1. UNCHANGED <<next, pc, drops, wcur, wmet, owed>>
            BY <2>6 DEF listVars, walk
        <3>2. Walked'
            BY <2>2, <3>1 DEF Orderly, Walked, Walking, Pushed
        <3> QED BY <2>2, <3>1, <3>2, Looking
    <2> QED BY <2>3, <2>4, <2>5, <2>6 DEF ListNext
<1> QED BY <1>1, <1>2 DEF ListIInv

LEMMA ListInvariance == ListSpec => []ListIInv
<1> QED BY ListInitIInv, ListIInvStep, PTL DEF ListSpec

-----------------------------------------------------------------------------
(* Readers::push and Reader::drop keep the list: for any number of readers,
   and while no two threads open or close readers at once, the nodes reached
   from the head are the registered readers, and the unlinking loop never
   comes to the end of the list without its node. *)
THEOREM ListKept == ListSpec => []ListIsRegistered
<1>1. ListIInv => ListIsRegistered
    <2> SUFFICES ASSUME ListIInv, ~clash
                 PROVE  Linked = Registered /\ \A n \in Nodes : pc[n] # "detached"
        BY DEF ListIsRegistered
    <2> USE ReaderListAssumption
    <2>1. Alone /\ Shape
        BY DEF ListIInv, Orderly
    <2> DEFINE Closed(S) == \A n \in S \cup {Head} : next[n] \in S \cup {Null}
    <2>2. \A S \in SUBSET Nodes : Closed(S) <=> Leads(next, next[Head], S)
        BY DEF Leads
    <2>3. Linked = {n \in Nodes : \A S \in SUBSET Nodes : Closed(S) => n \in S}
        BY DEF Linked
    <2>4. Registered \in SUBSET Nodes /\ Closed(Registered)
        <3>1. Registered \in SUBSET Nodes
            BY DEF Registered
        <3> QED BY <2>1, <2>2, <3>1 DEF Shape
    <2>5. \A S \in SUBSET Nodes : Closed(S) => Registered \subseteq S
        BY <2>1, <2>2 DEF Shape, Ahead
    <2> HIDE DEF Closed
    <2>6. Linked = Registered
        BY <2>3, <2>4, <2>5
    <2> QED BY <2>1, <2>6 DEF Alone
<1> QED BY <1>1, ListInvariance, PTL

(* can_write checks everybody: for any number of readers, and while no two
   threads open or close readers at once, a walk that ends has checked every
   reader that was registered when it began and has not begun to close. *)
THEOREM WalksComplete == ListSpec => []WalkMeetsAll
<1>1. ListIInv => WalkMeetsAll
    <2> SUFFICES ASSUME ListIInv, ~clash, wcur = Null PROVE owed \subseteq wmet
        BY DEF WalkMeetsAll
    <2>1. Ahead(next, Null, owed \ wmet)
        BY ReaderListAssumption DEF ListIInv, Orderly, Walked, Walking
    <2>2. {} \in SUBSET Nodes /\ Leads(next, Null, {})
        BY DEF Leads
    <2>3. owed \ wmet \subseteq {}
        BY <2>1, <2>2 DEF Ahead
    <2> QED BY <2>3
<1> QED BY <1>1, ListInvariance, PTL
=============================================================================

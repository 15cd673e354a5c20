----------------------------- MODULE IngestProofs -----------------------------
(***************************************************************************)
(* Safety of ingest for any number of connections, any capacity of the     *)
(* ring, any timestamps and any number of tables.                          *)
(*                                                                         *)
(* The samples that were let in form one line: the stored ones, then those *)
(* in the ring.  A push adds to its end, the persist task moves the border *)
(* between the two parts, and only the end of the persist task cuts it:    *)
(* until the ring is written at a stale position, or filled up to its last *)
(* byte.                                                                   *)
(***************************************************************************)
EXTENDS Ingest, FiniteSetTheorems, SequenceTheorems, TLAPS

Records == [id : Nat, ts : Nat]
Line == stored \o Unread

Types ==
    /\ conn \in [Conns -> {"new", "up", "closed"}]
    /\ host \in Conns \cup {Main, None}
    /\ task \in {"none", "queued", "running", "asleep", "gone"}
    /\ exact \in BOOLEAN /\ ring \in [0 .. WalCap - 1 -> Records]
    /\ committed \in 0 .. WalCap
    /\ {mark, cursor, batch} \subseteq 0 .. WalCap + 1
    /\ stored \in Seq(Records)
    /\ last \in Nat
    /\ pc \in [Conns -> {"idle", "load", "grant", "raise"}]
    /\ rec \in [Conns -> Records] /\ write \in [Conns -> 0 .. WalCap]
    /\ sent \in Nat /\ accepted \in SUBSET Nat
    /\ overlap \in BOOLEAN /\ spoilt \in BOOLEAN

(* Only a running persist task holds a grant, and nobody pushes before there
   is a component. *)
Hosting ==
    /\ batch > 0 => task = "running"
    /\ host = None <=> task = "none"
    /\ host = None => \A c \in Conns : pc[c] = "idle"

(* The ring is a queue: the unread records lie between the cursor and the write
   position, or from the cursor to the end, where it wrapped, and from the start. *)
RingSound ==
    (task # "gone" /\ ~spoilt) =>
        /\ cursor <= WalCap /\ mark <= WalCap /\ committed <= mark
        /\ committed < cursor => mark = WalCap
        /\ batch > 0 =>
              /\ cursor < batch
              /\ batch <= IF committed >= cursor THEN committed ELSE WalCap

(* Samples under way are told apart by their numbers, and are let in once. *)
Numbered ==
    /\ IsFiniteSet(accepted) /\ accepted \subseteq 1 .. sent
    /\ \A c \in Conns : pc[c] # "idle" => rec[c].id \in 1 .. sent
    /\ \A c \in Conns : pc[c] \in {"load", "grant"} => rec[c].id \notin accepted
    /\ \A c, d \in Conns : c # d /\ pc[c] # "idle" /\ pc[d] # "idle" => rec[c].id # rec[d].id

SortedSeq(q) == \A i, j \in DOMAIN q : i < j => q[i].ts <= q[j].ts

(* The line is behind last_timestamp, or behind the sample whose push is about
   to raise it. *)
Behind(q) ==
    \A i \in DOMAIN q :
        q[i].ts <= last \/ \E c \in Conns : pc[c] = "raise" /\ q[i].ts <= rec[c].ts

(* What is, or may still be, stored. *)
Seen == IF task = "gone" THEN stored ELSE Line

(* While pushes do not overlap, the one under way has passed the check and
   nobody has raised last_timestamp since. *)
InTurn ==
    (~overlap /\ ~spoilt) =>
        /\ \A c, d \in Conns : pc[c] # "idle" /\ pc[d] # "idle" => c = d
        /\ \A c \in Conns : pc[c] # "idle" => last <= rec[c].ts
        /\ SortedSeq(Seen) /\ Behind(Seen)

(* The inductive invariant. *)
IInv == Types /\ Hosting /\ RingSound /\ Numbered /\ NothingLost /\ InTurn

-----------------------------------------------------------------------------
Rings == [0 .. WalCap - 1 -> Records]

(* Pieces of a ring f. *)
Piece(f, a, b) == [i \in 1 .. (IF b > WalCap THEN WalCap ELSE b) - a |-> f[a + i - 1]]

LEMMA Slotted == \A a, b : Slots(a, b) = Piece(ring, a, b)
BY DEF Slots, Piece

LEMMA PieceFacts ==
    ASSUME NEW f \in Rings, NEW a \in Nat, NEW b \in Nat, a <= b, b <= WalCap
    PROVE  /\ Piece(f, a, b) \in Seq(Records) /\ Len(Piece(f, a, b)) = b - a
           /\ \A i \in 1 .. b - a : Piece(f, a, b)[i] = f[a + i - 1]
<1> USE IngestAssumption
<1>1. Piece(f, a, b) = [i \in 1 .. b - a |-> f[a + i - 1]] /\ b - a \in Nat
  BY DEF Piece
<1>2. \A i \in 1 .. b - a : a + i - 1 \in 0 .. WalCap - 1 /\ f[a + i - 1] \in Records
  BY DEF Rings
<1>3. Piece(f, a, b) \in [1 .. b - a -> Records]
  BY <1>1, <1>2
<1>4. Piece(f, a, b) \in Seq(Records)
  <2> DEFINE n == b - a
  <2>1. n \in Nat /\ Piece(f, a, b) \in [1 .. n -> Records]
    BY <1>1, <1>3
  <2> HIDE DEF n
  <2> QED
    BY <2>1, SeqDef
<1> QED
  BY <1>1, <1>3, <1>4, LenProperties

(* Whatever the bounds are. *)
LEMMA PieceIsSeq ==
    ASSUME NEW f \in Rings, NEW a \in Nat, NEW b \in Nat
    PROVE  Piece(f, a, b) \in Seq(Records)
<1> USE IngestAssumption
<1> DEFINE e == IF b > WalCap THEN WalCap ELSE b
<1>1. e \in Nat /\ e <= WalCap
  OBVIOUS
<1>2. Piece(f, a, b) = Piece(f, a, e)
  BY <1>1 DEF Piece
<1> HIDE DEF e
<1>3. CASE a <= e
  BY <1>1, <1>2, <1>3, PieceFacts
<1>4. CASE ~(a <= e)
  <2>1. 1 .. e - a = {} /\ ~(e > WalCap)
    BY <1>1, <1>4
  <2>2. Piece(f, a, e) = [i \in {} |-> f[a + i - 1]]
    BY <2>1 DEF Piece
  <2>3. [i \in {} |-> f[a + i - 1]] = <<>>
    OBVIOUS
  <2> QED
    BY <1>2, <2>2, <2>3
<1> QED
  BY <1>3, <1>4

LEMMA PieceEmpty ==
    ASSUME NEW f \in Rings, NEW a \in Nat, a <= WalCap
    PROVE  Piece(f, a, a) = <<>>
<1>1. Piece(f, a, a) \in Seq(Records) /\ Len(Piece(f, a, a)) = 0
  BY PieceFacts, IngestAssumption
<1> QED
  BY <1>1, EmptySeq

LEMMA PieceJoin ==
    ASSUME NEW f \in Rings, NEW a \in Nat, NEW b \in Nat, NEW d \in Nat,
           a <= b, b <= d, d <= WalCap
    PROVE  Piece(f, a, b) \o Piece(f, b, d) = Piece(f, a, d)
<1> USE IngestAssumption
<1> DEFINE p == Piece(f, a, b)
           q == Piece(f, b, d)
           s == Piece(f, a, d)
<1>0. a <= d /\ b <= WalCap
  OBVIOUS
<1>1. p \in Seq(Records) /\ Len(p) = b - a /\ \A i \in 1 .. b - a : p[i] = f[a + i - 1]
  BY <1>0, PieceFacts, ZenonT(30)
<1>2. q \in Seq(Records) /\ Len(q) = d - b /\ \A i \in 1 .. d - b : q[i] = f[b + i - 1]
  BY <1>0, PieceFacts, ZenonT(30)
<1>3. s \in Seq(Records) /\ Len(s) = d - a /\ \A i \in 1 .. d - a : s[i] = f[a + i - 1]
  BY <1>0, PieceFacts, ZenonT(30)
<1> HIDE DEF p, q, s
<1>4. /\ p \o q \in Seq(Records) /\ Len(p \o q) = d - a
      /\ \A i \in 1 .. d - a : (p \o q)[i] = IF i <= b - a THEN p[i] ELSE q[i - (b - a)]
  <2>0. p \in Seq(Records) /\ q \in Seq(Records)
    BY <1>1, <1>2
  <2>1. /\ p \o q \in Seq(Records) /\ Len(p \o q) = Len(p) + Len(q)
        /\ \A i \in 1 .. Len(p) + Len(q) : (p \o q)[i] = IF i <= Len(p) THEN p[i] ELSE q[i - Len(p)]
    BY ONLY <2>0, ConcatProperties, SMTT(30)
  <2> QED
    BY <1>1, <1>2, <2>1, SMTT(30)
<1>5. ASSUME NEW i \in 1 .. d - a PROVE (p \o q)[i] = s[i]
  <2>1. CASE i <= b - a
    <3>1. i \in 1 .. b - a
      BY <2>1
    <3> QED
      BY <1>1, <1>3, <1>4, <2>1, <3>1, Zenon
  <2>2. CASE ~(i <= b - a)
    <3>1. i - (b - a) \in 1 .. d - b /\ b + (i - (b - a)) - 1 = a + i - 1
      BY <2>2
    <3> QED
      BY <1>2, <1>3, <1>4, <2>2, <3>1
  <2> QED
    BY <2>1, <2>2
<1> QED
  BY <1>3, <1>4, <1>5, SeqEqual DEF p, q, s

(* The ring g is f with x in place b, before e. *)
Put(f, g, b, e, x) ==
    e = b + 1 /\ g[b] = x /\ \A i \in 0 .. WalCap - 1 : i # b => g[i] = f[i]

LEMMA PiecePushed ==
    ASSUME NEW f \in Rings, NEW g \in Rings, NEW a \in Nat, NEW b \in Nat, NEW e \in Nat,
           NEW x \in Records, a <= b, b < WalCap, Put(f, g, b, e, x)
    PROVE  Piece(g, a, e) = Append(Piece(f, a, b), x)
<1> DEFINE p == Piece(f, a, b)
           s == Piece(g, a, e)
<1>0. b <= WalCap /\ e <= WalCap /\ a <= e /\ e = b + 1 /\ g[b] = x
  BY IngestAssumption DEF Put
<1>2. \A i \in 1 .. b - a : g[a + i - 1] = f[a + i - 1]
  BY IngestAssumption DEF Put
<1>3. p \in Seq(Records) /\ Len(p) = b - a /\ \A i \in 1 .. b - a : p[i] = f[a + i - 1]
  <2>1. b <= WalCap
    BY <1>0
  <2> QED
    BY ONLY f \in Rings, a \in Nat, b \in Nat, a <= b, <2>1, PieceFacts
<1>4. s \in Seq(Records) /\ Len(s) = e - a /\ \A i \in 1 .. e - a : s[i] = g[a + i - 1]
  <2>1. a <= e /\ e <= WalCap
    BY <1>0
  <2> QED
    BY ONLY g \in Rings, a \in Nat, e \in Nat, <2>1, PieceFacts
<1> HIDE DEF p, s
<1>5. /\ Append(p, x) \in Seq(Records) /\ Len(Append(p, x)) = Len(p) + 1
      /\ Append(p, x)[Len(p) + 1] = x /\ \A i \in 1 .. Len(p) : Append(p, x)[i] = p[i]
  BY <1>3, AppendProperties
<1>6. ASSUME NEW i \in 1 .. e - a PROVE s[i] = Append(p, x)[i]
  <2>1. CASE i \in 1 .. b - a
    BY <1>0, <1>2, <1>3, <1>4, <1>5, <2>1
  <2>2. CASE ~(i \in 1 .. b - a)
    <3>1. i = b - a + 1 /\ a + i - 1 = b
      BY <1>0, <2>2
    <3> QED
      BY <1>0, <1>3, <1>4, <1>5, <3>1
  <2> QED
    BY <2>1, <2>2
<1>7. Len(s) = Len(Append(p, x)) /\ \A i \in 1 .. Len(s) : s[i] = Append(p, x)[i]
  BY <1>0, <1>3, <1>4, <1>5, <1>6
<1>8. s = Append(p, x)
  BY <1>4, <1>5, <1>7, SeqEqual
<1> QED
  BY <1>8 DEF p, s

LEMMA PieceKept ==
    ASSUME NEW f \in Rings, NEW a \in Nat, NEW b \in Nat, a <= b, b <= WalCap,
           NEW g \in Rings, \A i \in a .. b - 1 : g[i] = f[i]
    PROVE  Piece(g, a, b) = Piece(f, a, b)
<1> USE IngestAssumption
<1>1. \A i \in 1 .. b - a : g[a + i - 1] = f[a + i - 1]
  OBVIOUS
<1>2. ~(b > WalCap)
  OBVIOUS
<1> QED
  BY <1>1, <1>2 DEF Piece

-----------------------------------------------------------------------------
(* What happens to the line. *)

LEMMA Regroup ==
    ASSUME NEW p \in Seq(Records), NEW q \in Seq(Records), NEW t \in Seq(Records)
    PROVE  (p \o q) \o t = p \o (q \o t)
BY ConcatAssociative

LEMMA UnreadIsSeq ==
    ASSUME Types
    PROVE  Unread \in Seq(Records)
<1>1. cursor \in Nat /\ mark \in Nat /\ committed \in Nat /\ 0 \in Nat /\ ring \in Rings
  BY IngestAssumption DEF Types, Rings
<1>2. \A a, b \in Nat : Slots(a, b) \in Seq(Records)
  BY <1>1, Slotted, PieceIsSeq
<1> QED
  BY <1>1, <1>2, ConcatProperties DEF Unread

LEMMA LineFacts ==
    ASSUME Types
    PROVE  /\ Line \in Seq(Records)
           /\ Len(stored) \in Nat /\ DOMAIN stored = 1 .. Len(stored)
           /\ DOMAIN stored \subseteq DOMAIN Line
           /\ \A i \in DOMAIN stored : Line[i] = stored[i]
<1> DEFINE q == Unread
<1>0. q \in Seq(Records) /\ stored \in Seq(Records) /\ Line = stored \o q
  BY UnreadIsSeq DEF Types, Line
<1> HIDE DEF q
<1>1. /\ Line \in Seq(Records) /\ Len(Line) = Len(stored) + Len(q)
      /\ \A i \in 1 .. Len(stored) + Len(q) :
            Line[i] = IF i <= Len(stored) THEN stored[i] ELSE q[i - Len(stored)]
  BY <1>0, ConcatProperties
<1>2. Len(stored) \in Nat /\ Len(q) \in Nat /\ DOMAIN stored = 1 .. Len(stored)
      /\ DOMAIN Line = 1 .. Len(Line)
  BY <1>0, <1>1, LenProperties
<1> QED
  BY <1>1, <1>2

LEMMA LineGrows ==
    ASSUME NEW p \in Seq(Records), NEW q \in Seq(Records), NEW x \in Records
    PROVE  p \o Append(q, x) = Append(p \o q, x)
<1>1. Append(q, x) = q \o <<x>> /\ <<x>> \in Seq(Records)
  BY AppendIsConcat
<1>2. (p \o q) \o <<x>> = p \o (q \o <<x>>)
  BY <1>1, Regroup
<1>3. p \o q \in Seq(Records)
  BY ConcatProperties
<1>4. Append(p \o q, x) = (p \o q) \o <<x>>
  BY <1>3, AppendIsConcat
<1> QED
  BY <1>1, <1>2, <1>4

(* A grant at the write position, that does not fill a ring without a spare byte. *)
LEMMA GrantRing ==
    ASSUME IInv, task \notin {"none", "gone"}, ~spoilt, NEW c \in Conns,
           CanWrite(write[c]), ~Spoils(write[c]), Written(c), UNCHANGED <<exact, cursor>>
    PROVE  /\ Unread' = Append(Unread, rec[c])
           /\ cursor <= WalCap /\ mark' <= WalCap /\ committed' <= mark'
           /\ committed' < cursor => mark' = WalCap
           /\ batch > 0 => /\ cursor < batch
                           /\ batch <= IF committed' >= cursor THEN committed' ELSE WalCap
<1> USE IngestAssumption
<1> DEFINE w == write[c]
           x == rec[c]
           N == WalCap
<1>1. /\ N \in Nat /\ N >= 2 /\ exact \in BOOLEAN /\ ring \in Rings
      /\ committed \in 0 .. N /\ mark \in Nat /\ cursor \in Nat /\ batch \in Nat
      /\ w \in 0 .. N /\ x \in Records
  BY DEF IInv, Types, Rings
<1>2. /\ cursor <= N /\ mark <= N /\ committed <= mark
      /\ committed < cursor => mark = N
      /\ batch > 0 => cursor < batch /\ batch <= IF committed >= cursor THEN committed ELSE N
  BY DEF IInv, RingSound
<1>3. /\ ring' = [ring EXCEPT ![Place(w)] = x] /\ committed' = Place(w) + 1
      /\ mark' = MarkAfter(w, Place(w) + 1) /\ exact' = exact /\ cursor' = cursor
  BY DEF Written
<1>4. w = committed % End
  BY DEF Spoils
<1>5. committed % End = IF exact /\ committed = N THEN 0 ELSE committed
  <2>1. CASE exact /\ committed = N
    BY <1>1, <2>1 DEF End
  <2>2. CASE ~(exact /\ committed = N)
    <3>1. committed < End /\ End \in Nat /\ committed \in Nat
      BY <1>1, <2>2 DEF End
    <3>2. \A i, j \in Nat : i < j => i % j = i
      OBVIOUS
    <3> QED
      BY <2>2, <3>1, <3>2
  <2> QED
    BY <2>1, <2>2
<1>6. cursor % End = IF exact /\ cursor = N THEN 0 ELSE cursor
  <2>1. CASE exact /\ cursor = N
    BY <1>1, <2>1 DEF End
  <2>2. CASE ~(exact /\ cursor = N)
    <3>1. cursor < End /\ End \in Nat /\ cursor \in Nat
      BY <1>1, <1>2, <2>2 DEF End
    <3>2. \A i, j \in Nat : i < j => i % j = i
      OBVIOUS
    <3> QED
      BY <2>2, <3>1, <3>2
  <2> QED
    BY <2>1, <2>2
<1>7. /\ ~(w < cursor % End /\ w + 1 >= cursor % End)
      /\ ~(w = N /\ 1 >= cursor % End)
  BY DEF CanWrite, HasReader
<1>8. exact => ~(cursor = 0 /\ committed = N) /\ ~(cursor = N /\ committed = N - 1)
  BY DEF Spoils
<1> DEFINE C == committed
           M == mark
           K == cursor
<1>9. \A i : Piece(ring, K, i) = Slots(K, i) /\ Piece(ring, 0, i) = Slots(0, i)
  BY Slotted
<1>10. Unread = IF C >= K THEN Piece(ring, K, C) ELSE Piece(ring, K, M) \o Piece(ring, 0, C)
  BY <1>9 DEF Unread
<1>11. Unread' = IF committed' >= K THEN Piece(ring', K, committed')
                 ELSE Piece(ring', K, mark') \o Piece(ring', 0, committed')
  BY <1>3 DEF Unread, Slots, Piece
<1> HIDE DEF w, x, N, C, M, K
<1>12. CASE C < N
  <2>1. w = C /\ Place(w) = C
    BY <1>1, <1>4, <1>5, <1>12 DEF C, N, Place
  <2>2. committed' = C + 1 /\ ring' = [ring EXCEPT ![C] = x] /\ C \in Nat
    BY <1>1, <1>3, <2>1 DEF C
  <2> DEFINE E == C + 1
  <2>a. ring' \in Rings /\ Put(ring, ring', C, E, x) /\ E \in Nat
    BY <1>1, <1>12, <2>2 DEF Rings, N, Put
  <2>b. ring \in Rings /\ x \in Records /\ C \in Nat
    BY <1>1, <2>2
  <2>c. ASSUME NEW a \in Nat, a <= C, C < WalCap
        PROVE  Piece(ring', a, E) = Append(Piece(ring, a, C), x)
    <3> HIDE DEF E
    <3> QED
      BY ONLY <2>a, <2>b, <2>c, PiecePushed
  <2>3. mark' = IF M >= C + 1 THEN M ELSE C + 1
    <3>1. Marked(w) = IF M >= C + 1 THEN M ELSE C + 1
      BY <1>12, <2>1, <1>1 DEF Marked, Larger, M, N, C
    <3>2. ~(C + 1 < C) /\ ~(C + 1 > Marked(w))
      BY <1>1, <2>2, <3>1 DEF C, M
    <3> QED
      BY <1>3, <2>1, <3>1, <3>2 DEF MarkAfter, C
  <2>4. CASE C >= K
    <3>1. committed' >= K /\ K \in Nat
      BY <1>1, <2>2, <2>4 DEF C, K
    <3>2. Piece(ring', K, C + 1) = Append(Piece(ring, K, C), x)
      <4>1. K <= C /\ C < WalCap
        BY <1>1, <1>12, <2>2, <2>4, <3>1 DEF N
      <4> QED
        BY <2>c, <3>1, <4>1
    <3>3. Unread' = Append(Unread, x)
      BY <1>10, <1>11, <2>2, <2>4, <3>1, <3>2
    <3> QED
      BY <1>1, <1>2, <1>12, <2>2, <2>3, <2>4, <3>1, <3>3 DEF N, C, M, K, x
  <2>5. CASE ~(C >= K)
    <3>1. C < K /\ M = N /\ K <= N /\ K \in Nat
      BY <1>1, <1>2, <2>2, <2>5 DEF C, M, K, N
    <3>2. C + 1 < K
      BY <1>1, <1>6, <1>7, <1>8, <2>1, <2>2, <3>1 DEF C, K, N
    <3>3. mark' = N
      BY <1>1, <1>12, <2>2, <2>3, <3>1 DEF N, M, C
    <3>a. N = WalCap /\ N \in Nat /\ N <= WalCap /\ C < WalCap /\ C <= WalCap /\ 0 <= C /\ 0 \in Nat /\ C < K
      BY <1>1, <1>12, <2>2, <3>1 DEF N
    <3>4. Piece(ring', K, N) = Piece(ring, K, N)
      <4>1. \A i \in K .. N - 1 : ring'[i] = ring[i]
        BY <2>2, <2>a, <3>1, <3>a DEF Put
      <4> QED
        BY <1>1, <2>a, <3>1, <3>a, <4>1, PieceKept
    <3>5. Piece(ring', 0, C + 1) = Append(Piece(ring, 0, C), x)
      BY <2>c, <3>a
    <3>6. Piece(ring, K, N) \in Seq(Records) /\ Piece(ring, 0, C) \in Seq(Records)
      BY <1>1, <2>2, <3>1, <3>a, PieceFacts
    <3>7. Unread' = Piece(ring, K, N) \o Append(Piece(ring, 0, C), x)
      <4>1. ~(committed' >= K)
        BY <2>2, <3>1, <3>2
      <4> QED
        BY <1>11, <2>2, <3>3, <3>4, <3>5, <4>1
    <3>8. Unread' = Append(Unread, x)
      BY <1>1, <1>10, <2>5, <3>1, <3>6, <3>7, LineGrows
    <3> QED
      BY <1>1, <1>2, <2>2, <3>1, <3>2, <3>3, <3>8 DEF N, C, K, x
  <2> QED
    BY <2>4, <2>5
<1>13. CASE ~(C < N)
  <2>1. C = N /\ Place(w) = 0 /\ N \in Nat /\ K \in Nat /\ K <= N
    BY <1>1, <1>2, <1>4, <1>5, <1>13 DEF C, N, K, Place
  <2>2. committed' = 1 /\ ring' = [ring EXCEPT ![0] = x]
    BY <1>3, <2>1
  <2>a. ring' \in Rings /\ Put(ring, ring', 0, 1, x)
    BY <1>1, <2>2 DEF Rings, Put
  <2>3. mark' = N
    <3>1. 1 < committed /\ 1 # End
      BY <1>1, <2>1 DEF C, N, End
    <3> QED
      BY <1>3, <2>1, <3>1 DEF MarkAfter, C
  <2>4. 1 < K
    BY <1>1, <1>4, <1>5, <1>6, <1>7, <1>8, <2>1 DEF C, K, N
  <2>5. Piece(ring', K, N) = Piece(ring, K, N)
    <3>1. N <= WalCap /\ \A i \in K .. N - 1 : ring'[i] = ring[i]
      BY <1>1, <2>1, <2>4, <2>a DEF N, Put
    <3> QED
      BY <1>1, <2>1, <2>a, <3>1, PieceKept
  <2>6. Piece(ring', 0, 1) = <<x>>
    <3>0. 0 < WalCap /\ 0 <= 0 /\ 0 <= WalCap /\ 0 \in Nat /\ 1 \in Nat
      OBVIOUS
    <3>1. Piece(ring', 0, 1) = Append(Piece(ring, 0, 0), x)
      BY <1>1, <2>a, <3>0, PiecePushed
    <3>2. Piece(ring, 0, 0) = <<>>
      BY <1>1, <3>0, PieceEmpty
    <3>3. Append(<<>>, x) = <<x>>
      BY <1>1
    <3> QED
      BY <3>1, <3>2, <3>3
  <2>7. Unread' = Piece(ring, K, N) \o <<x>>
    <3>1. ~(committed' >= K)
      BY <2>1, <2>2, <2>4
    <3> QED
      BY <1>11, <2>2, <2>3, <2>5, <2>6, <3>1
  <2>8. Unread = Piece(ring, K, N) /\ Piece(ring, K, N) \in Seq(Records)
    <3>1. C >= K /\ N <= WalCap
      BY <2>1 DEF N
    <3> QED
      BY <1>1, <1>10, <2>1, <3>1, PieceFacts
  <2>9. Unread' = Append(Unread, x)
    BY <1>1, <2>7, <2>8, AppendIsConcat
  <2> QED
    BY <1>1, <1>2, <2>1, <2>2, <2>3, <2>4, <2>9 DEF N, C, K, x
<1> QED
  BY <1>12, <1>13

(* The reader may go on from the end of the ring to its start. *)
LEMMA ReadRing ==
    ASSUME IInv, task # "gone", ~spoilt, cursor' = From,
           UNCHANGED <<exact, ring, committed, mark>>
    PROVE  /\ Unread' = Unread
           /\ cursor' <= WalCap /\ (committed < cursor' => mark = WalCap)
           /\ Upto = IF committed >= cursor' THEN committed ELSE WalCap
<1> USE IngestAssumption
<1>1. /\ ring \in Rings /\ committed \in Nat /\ cursor \in Nat
      /\ cursor <= WalCap /\ committed <= WalCap /\ (committed < cursor => mark = WalCap)
  BY DEF IInv, Types, RingSound, Rings
<1>2. CASE cursor = mark /\ committed < cursor
  <2>1. cursor' = 0 /\ mark = WalCap /\ cursor = WalCap
    BY <1>1, <1>2 DEF From
  <2>2. Unread' = Slots(0, committed)
    BY <1>1, <2>1 DEF Unread, Slots
  <2>3. Unread = Slots(WalCap, WalCap) \o Slots(0, committed)
    BY <1>1, <1>2, <2>1 DEF Unread
  <2>4. Slots(WalCap, WalCap) = <<>> /\ Slots(0, committed) \in Seq(Records)
    <3>1. WalCap \in Nat /\ WalCap <= WalCap /\ 0 \in Nat
      OBVIOUS
    <3> QED
      BY <1>1, <3>1, Slotted, PieceEmpty, PieceIsSeq
  <2> QED
    BY <1>1, <1>2, <2>1, <2>2, <2>3, <2>4, ConcatEmptySeq DEF Upto, From
<1>3. CASE ~(cursor = mark /\ committed < cursor)
  <2>1. cursor' = cursor
    BY <1>3 DEF From
  <2>2. Unread' = Unread
    BY <2>1 DEF Unread, Slots
  <2> QED
    BY <1>1, <1>3, <2>1, <2>2 DEF Upto, From
<1> QED
  BY <1>2, <1>3

(* What is stored and released was at the front of the line. *)
LEMMA StoreRing ==
    ASSUME IInv, Store, task # "gone", ~spoilt
    PROVE  /\ Slots(cursor, batch) \o Unread' = Unread
           /\ cursor' <= WalCap /\ (committed' < cursor' => mark' = WalCap)
<1> USE IngestAssumption
<1>1. /\ ring \in Rings /\ committed \in Nat /\ cursor \in Nat /\ batch \in Nat
      /\ cursor <= WalCap /\ committed <= WalCap /\ (committed < cursor => mark = WalCap)
      /\ cursor < batch /\ batch <= IF committed >= cursor THEN committed ELSE WalCap
  BY DEF IInv, Types, RingSound, Store, Rings
<1>2. cursor' = batch /\ UNCHANGED <<ring, committed, mark>>
  BY DEF Store
<1>3. \A a, b : (Slots(a, b) = Piece(ring, a, b))
  BY Slotted
<1>4. Unread' = IF committed >= batch THEN Slots(batch, committed)
                ELSE Slots(batch, mark) \o Slots(0, committed)
  BY <1>2 DEF Unread, Slots
<1>5. CASE committed >= cursor
  <2>1. batch <= committed
    BY <1>1, <1>5
  <2>2. Piece(ring, cursor, batch) \o Piece(ring, batch, committed) = Piece(ring, cursor, committed)
    <3>1. cursor <= batch
      BY <1>1
    <3> QED
      BY <1>1, <2>1, <3>1, PieceJoin
  <2>3. committed >= batch
    BY <1>1, <2>1
  <2>4. Unread' = Piece(ring, batch, committed) /\ Unread = Piece(ring, cursor, committed)
    BY <1>3, <1>4, <1>5, <2>3 DEF Unread
  <2>5. batch <= WalCap
    BY <1>1, <2>1
  <2> QED
    <3>1. Slots(cursor, batch) \o Unread' = Unread
      BY <1>3, <2>2, <2>4
    <3> QED
      BY <1>1, <1>2, <2>1, <2>5, <3>1
<1>6. CASE ~(committed >= cursor)
  <2>1. batch <= WalCap /\ committed < batch /\ mark = WalCap
    BY <1>1, <1>6
  <2>2. Piece(ring, cursor, batch) \o Piece(ring, batch, WalCap) = Piece(ring, cursor, WalCap)
    <3>1. cursor <= batch /\ WalCap <= WalCap /\ WalCap \in Nat
      BY <1>1
    <3> QED
      BY <1>1, <2>1, <3>1, PieceJoin
  <2> DEFINE p == Piece(ring, cursor, batch)
             q == Piece(ring, batch, WalCap)
             t == Piece(ring, 0, committed)
  <2>3. p \in Seq(Records) /\ q \in Seq(Records) /\ t \in Seq(Records)
    BY <1>1, IngestAssumption, PieceIsSeq
  <2>4. Unread' = q \o t /\ Unread = Piece(ring, cursor, WalCap) \o t
    <3>1. ~(committed >= batch)
      BY <1>1, <2>1
    <3> QED
      BY <1>3, <1>4, <1>6, <2>1, <3>1 DEF Unread
  <2>5. Piece(ring, cursor, WalCap) = p \o q
    BY <2>2
  <2> HIDE DEF p, q, t
  <2>6. p \o (q \o t) = (p \o q) \o t
    BY ONLY <2>3, Regroup
  <2>7. Slots(cursor, batch) = p
    BY <1>3 DEF p
  <2> QED
    BY <1>2, <2>1, <2>4, <2>5, <2>6, <2>7
<1> QED
  BY <1>5, <1>6

LEMMA AppendFacts ==
    ASSUME NEW q \in Seq(Records), NEW r \in Records
    PROVE  /\ Append(q, r) \in Seq(Records)
           /\ Len(q) \in Nat /\ DOMAIN q = 1 .. Len(q)
           /\ Len(Append(q, r)) = Len(q) + 1
           /\ DOMAIN Append(q, r) = 1 .. Len(q) + 1
           /\ Append(q, r)[Len(q) + 1] = r
           /\ \A i \in 1 .. Len(q) : Append(q, r)[i] = q[i] /\ q[i] \in Records
BY AppendProperties, LenProperties, ElementOfSeq

LEMMA AppendSorted ==
    ASSUME NEW q \in Seq(Records), NEW r \in Records, SortedSeq(q),
           \A i \in DOMAIN q : q[i].ts <= r.ts
    PROVE  SortedSeq(Append(q, r))
<1> DEFINE n == Len(q)
           p == Append(q, r)
<1>1. /\ n \in Nat /\ DOMAIN q = 1 .. n /\ DOMAIN p = 1 .. n + 1
      /\ p[n + 1] = r /\ \A i \in 1 .. n : p[i] = q[i]
  BY AppendFacts
<1> HIDE DEF n, p
<1>2. ASSUME NEW i \in 1 .. n + 1, NEW j \in 1 .. n + 1, i < j PROVE p[i].ts <= p[j].ts
  <2>1. i \in 1 .. n
    BY <1>1, <1>2
  <2>2. CASE j \in 1 .. n
    BY <1>1, <1>2, <2>1, <2>2 DEF SortedSeq
  <2>3. CASE j = n + 1
    BY <1>1, <2>1, <2>3
  <2> QED
    BY <1>1, <2>2, <2>3
<1>3. SortedSeq(p)
  BY <1>1, <1>2 DEF SortedSeq
<1> QED
  BY <1>3 DEF p

LEMMA AppendIds ==
    ASSUME NEW q \in Seq(Records), NEW r \in Records
    PROVE  Ids(Append(q, r)) = Ids(q) \cup {r.id}
<1> DEFINE n == Len(q)
           p == Append(q, r)
<1>1. /\ n \in Nat /\ DOMAIN q = 1 .. n /\ DOMAIN p = 1 .. n + 1
      /\ p[n + 1] = r /\ \A i \in 1 .. n : p[i] = q[i]
  BY AppendFacts
<1> HIDE DEF n, p
<1>2. 1 .. n + 1 = 1 .. n \cup {n + 1}
  BY <1>1
<1>3. Ids(p) = Ids(q) \cup {r.id}
  BY <1>1, <1>2 DEF Ids
<1> QED
  BY <1>3 DEF p

-----------------------------------------------------------------------------
LEMMA InitIInv == Init => IInv
<1> SUFFICES ASSUME Init PROVE IInv
  OBVIOUS
<1> USE IngestAssumption
<1>1. /\ stored = <<>> /\ accepted = {} /\ sent = 0 /\ last \in Nat /\ task # "gone"
      /\ committed = 0 /\ mark = 0 /\ cursor = 0 /\ batch = 0
      /\ \A c \in Conns : pc[c] = "idle"
  BY DEF Init
<1>2. ring \in Rings /\ NoRecord \in Records
  BY DEF Init, Rings, NoRecord, Records
<1>3. Line = <<>>
  <2>1. 0 \in Nat /\ 0 <= WalCap
    OBVIOUS
  <2>2. Unread = Piece(ring, 0, 0)
    BY <1>1, Slotted DEF Unread
  <2>3. Unread = <<>>
    BY <1>2, <2>1, <2>2, PieceEmpty
  <2> QED
    BY <1>1, <2>3 DEF Line
<1>4. Types
  <2>1. /\ host \in Conns \cup {Main, None}
        /\ task \in {"none", "queued", "running", "asleep", "gone"}
    BY DEF Init
  <2>2. /\ conn \in [Conns -> {"new", "up", "closed"}]
        /\ pc \in [Conns -> {"idle", "load", "grant", "raise"}]
        /\ rec \in [Conns -> Records] /\ write \in [Conns -> 0 .. WalCap]
    BY <1>2 DEF Init
  <2>3. exact \in BOOLEAN /\ overlap \in BOOLEAN /\ spoilt \in BOOLEAN
    BY DEF Init
  <2>4. stored \in Seq(Records) /\ sent \in Nat /\ accepted \in SUBSET Nat
    BY <1>1
  <2>5. committed \in 0 .. WalCap /\ {mark, cursor, batch} \subseteq 0 .. WalCap + 1
    BY <1>1
  <2> QED
    BY <1>1, <1>2, <2>1, <2>2, <2>3, <2>4, <2>5 DEF Types, Rings
<1>5. Hosting
  BY <1>1 DEF Init, Hosting
<1>6. RingSound
  BY <1>1 DEF RingSound
<1>7. Numbered
  BY <1>1, FS_EmptySet DEF Numbered
<1>8. NothingLost
  BY <1>1, <1>3, FS_EmptySet DEF NothingLost, Ids, Line
<1>9. InTurn
  <2>1. Seen = <<>>
    BY <1>1, <1>3 DEF Seen
  <2> QED
    BY <1>1, <2>1 DEF InTurn, SortedSeq, Behind
<1> QED
  BY <1>4, <1>5, <1>6, <1>7, <1>8, <1>9 DEF IInv

-----------------------------------------------------------------------------
LEMMA WalKept ==
    ASSUME UNCHANGED <<wal, stored>>
    PROVE  Unread' = Unread /\ Line' = Line
BY DEF wal, Unread, Slots, Line

(* A step that leaves the line and the pushes alone. *)
LEMMA LineStays ==
    ASSUME IInv, Line' = Line, stored' = stored \/ task # "gone", task' # "gone" => task # "gone",
           task' = "gone" => task = "gone",
           UNCHANGED <<last, pc, rec, sent, accepted, overlap, spoilt>>
    PROVE  Numbered' /\ NothingLost' /\ InTurn'
<1>1. Numbered'
  BY DEF IInv, Numbered
<1>2. NothingLost'
  BY DEF IInv, NothingLost, Line
<1>3. Seen' = Seen
  BY DEF Seen
<1>4. InTurn'
  BY <1>3 DEF IInv, InTurn, SortedSeq, Behind
<1> QED
  BY <1>1, <1>2, <1>4

(* Steps that let nothing in and move nothing. *)
LEMMA QuietStep ==
    ASSUME IInv, (\E c \in Conns : Accept(c) \/ Create(c)) \/ Poll
    PROVE  IInv'
<1> USE IngestAssumption
<1>1. UNCHANGED <<wal, batch, stored, last, pc, rec, write, sent, accepted, overlap, spoilt>>
  BY DEF Accept, Create, Poll, persistVars, history
<1>a. task # "gone" <=> task' # "gone"
  BY DEF IInv, Hosting, Accept, Create, Poll, persistVars
<1>2. Types'
  BY <1>1 DEF IInv, Types, Accept, Create, Poll, persistVars, wal
<1>3. Hosting'
  <2>1. CASE \E c \in Conns : Accept(c)
    BY <1>1, <2>1 DEF IInv, Hosting, Accept, persistVars
  <2>2. CASE \E c \in Conns : Create(c)
    BY <1>1, <2>2 DEF IInv, Types, Hosting, Create
  <2>3. CASE Poll
    BY <1>1, <2>3 DEF IInv, Types, Hosting, Poll
  <2> QED
    BY <2>1, <2>2, <2>3
<1>4. RingSound'
  BY <1>1, <1>a DEF IInv, RingSound, wal
<1>5. Line' = Line
  BY <1>1, WalKept
<1> QED
  BY <1>1, <1>a, <1>2, <1>3, <1>4, <1>5, LineStays DEF IInv

(* The persist task looks into the ring. *)
LEMMA ReadStep ==
    ASSUME IInv, Read \/ Sleep
    PROVE  IInv'
<1> USE IngestAssumption
<1>1. /\ UNCHANGED <<conn, host, stored, exact, ring, committed, mark, last, pc, rec, write,
                     sent, accepted, overlap, spoilt>>
      /\ cursor' = From /\ task = "running" /\ batch = 0
      /\ \/ task' = "running" /\ batch' = Upto /\ Upto > From
         \/ task' = "asleep" /\ batch' = 0
  BY DEF Read, Sleep, history
<1>2. From \in 0 .. WalCap + 1 /\ Upto \in 0 .. WalCap + 1
  <2>1. /\ cursor \in 0 .. WalCap + 1 /\ mark \in 0 .. WalCap + 1 /\ committed \in 0 .. WalCap
        /\ 0 \in 0 .. WalCap + 1
    BY DEF IInv, Types
  <2>2. From \in 0 .. WalCap + 1
    BY <2>1 DEF From
  <2>3. Upto \in 0 .. WalCap + 1
    BY <2>1 DEF Upto
  <2> QED
    BY <2>2, <2>3
<1>3. Types'
  BY <1>1, <1>2 DEF IInv, Types
<1>4. Hosting'
  BY <1>1 DEF IInv, Hosting
<1>5. CASE spoilt
  <2>1. RingSound' /\ NothingLost' /\ InTurn'
    BY <1>1, <1>5 DEF RingSound, NothingLost, InTurn
  <2>2. Numbered'
    BY <1>1 DEF IInv, Numbered
  <2> QED
    BY <1>3, <1>4, <2>1, <2>2 DEF IInv
<1>6. CASE ~spoilt
  <2>1. /\ Unread' = Unread /\ cursor' <= WalCap /\ (committed < cursor' => mark = WalCap)
        /\ Upto = IF committed >= cursor' THEN committed ELSE WalCap
    BY <1>1, <1>6, ReadRing
  <2>2. RingSound'
    <3>1. mark <= WalCap /\ committed <= mark
      BY <1>1, <1>6 DEF IInv, RingSound
    <3>2. batch' > 0 => cursor' < batch' /\ batch' = Upto
      BY <1>1, <1>2
    <3>3. batch' > 0 => batch' <= IF committed' >= cursor' THEN committed' ELSE WalCap
      BY <1>1, <1>2, <2>1, <3>2
    <3> QED
      BY <1>1, <2>1, <3>1, <3>2, <3>3 DEF RingSound
  <2>3. Line' = Line
    BY <1>1, <2>1 DEF Line
  <2> QED
    BY <1>1, <1>3, <1>4, <2>2, <2>3, LineStays DEF IInv
<1> QED
  BY <1>5, <1>6 DEF IInv, Types

(* The persist task stores its batch. *)
LEMMA StoreStep ==
    ASSUME IInv, Store
    PROVE  IInv'
<1> USE IngestAssumption
<1>1. /\ UNCHANGED <<conn, host, task, exact, ring, committed, mark, last, pc, rec, write,
                     sent, accepted, overlap, spoilt>>
      /\ batch' = 0 /\ cursor' = batch /\ stored' = stored \o Slots(cursor, batch)
      /\ batch > 0
  BY DEF Store, history
<1>2. Slots(cursor, batch) \in Seq(Records) /\ stored \in Seq(Records)
  <2>1. cursor \in Nat /\ batch \in Nat /\ ring \in Rings
    BY DEF IInv, Types, Rings
  <2> QED
    BY <2>1, Slotted, PieceIsSeq DEF IInv, Types
<1>3. stored' \in Seq(Records)
  BY <1>1, <1>2, ConcatProperties
<1>4. Types'
  BY <1>1, <1>3 DEF IInv, Types
<1>5. Hosting' /\ task = "running"
  BY <1>1 DEF IInv, Hosting, Types
<1>6. CASE spoilt
  <2>1. RingSound' /\ NothingLost' /\ InTurn'
    BY <1>1, <1>6 DEF RingSound, NothingLost, InTurn
  <2>2. Numbered'
    BY <1>1 DEF IInv, Numbered
  <2> QED
    BY <1>4, <1>5, <2>1, <2>2 DEF IInv
<1>7. CASE ~spoilt
  <2>1. /\ Slots(cursor, batch) \o Unread' = Unread
        /\ cursor' <= WalCap /\ (committed' < cursor' => mark' = WalCap)
    BY <1>5, <1>7, StoreRing
  <2>2. Unread' \in Seq(Records)
    <3>1. cursor' \in Nat /\ mark' \in Nat /\ committed' \in Nat /\ ring' \in Rings /\ 0 \in Nat
      BY <1>4 DEF Types, Rings
    <3>2. \A a, b \in Nat : Slots(a, b)' \in Seq(Records)
      <4>1. \A a, b : Slots(a, b)' = Piece(ring', a, b)
        BY DEF Slots, Piece
      <4> QED
        BY <3>1, <4>1, PieceIsSeq
    <3>3. Unread' = IF committed' >= cursor' THEN Piece(ring', cursor', committed')
                    ELSE Piece(ring', cursor', mark') \o Piece(ring', 0, committed')
      BY DEF Unread, Slots, Piece
    <3> QED
      BY <3>1, <3>3, PieceIsSeq, ConcatProperties
  <2> DEFINE p == Slots(cursor, batch)
             u == Unread'
  <2>3. (stored \o p) \o u = stored \o (p \o u)
    <3> HIDE DEF p, u
    <3>1. stored \in Seq(Records) /\ p \in Seq(Records) /\ u \in Seq(Records)
      BY <1>2, <2>2 DEF p, u
    <3> QED
      BY <3>1, Regroup
  <2>4. Line' = Line
    BY <1>1, <2>1, <2>3 DEF Line
  <2>5. RingSound'
    <3>1. mark <= WalCap /\ committed <= mark
      BY <1>5, <1>7 DEF IInv, RingSound
    <3> QED
      BY <1>1, <2>1, <3>1 DEF RingSound
  <2> QED
    BY <1>1, <1>4, <1>5, <2>4, <2>5, LineStays DEF IInv
<1> QED
  BY <1>6, <1>7 DEF IInv, Types

(* The ring loses its reader with what it has not read: the line is cut. *)
LEMMA CutStays ==
    ASSUME IInv, task # "gone", task' = "gone", stored' = stored,
           UNCHANGED last, ~overlap, ~spoilt,
           \A c \in Conns : pc[c] = "raise" => pc'[c] = "raise" /\ rec'[c] = rec[c]
    PROVE  (SortedSeq(Seen) /\ Behind(Seen))'
<1>1. Seen' = stored /\ Seen = Line
  BY DEF Seen
<1>2. DOMAIN stored \subseteq DOMAIN Line /\ \A i \in DOMAIN stored : Line[i] = stored[i]
  BY LineFacts DEF IInv
<1>3. SortedSeq(Line) /\ Behind(Line)
  BY <1>1 DEF IInv, InTurn
<1>4. SortedSeq(stored)
  BY <1>2, <1>3 DEF SortedSeq
<1>5. \A i \in DOMAIN stored :
         stored[i].ts <= last' \/ \E c \in Conns : pc'[c] = "raise" /\ stored[i].ts <= rec'[c].ts
  BY <1>2, <1>3 DEF Behind
<1> QED
  BY <1>1, <1>4, <1>5 DEF SortedSeq, Behind

(* The thread of the persist task ends, or another one does. *)
LEMMA EndStep ==
    ASSUME IInv, (\E c \in Conns : Close(c)) \/ Panic
    PROVE  IInv'
<1> USE IngestAssumption
<1>1. /\ UNCHANGED <<host, batch, stored, wal, last, pc, rec, write, sent, accepted, overlap, spoilt>>
      /\ task' = task \/ (task' = "gone" /\ task \in {"queued", "running"} /\ batch = 0)
  <2>1. CASE \E c \in Conns : Close(c)
    <3>1. UNCHANGED <<host, batch, stored, wal, last, pc, rec, write, sent, accepted, overlap, spoilt>>
      BY <2>1 DEF Close, history
    <3>2. task' = task \/ (task' = "gone" /\ task = "queued")
      BY <2>1 DEF Close
    <3> QED
      BY <3>1, <3>2 DEF IInv, Types, Hosting
  <2>2. CASE Panic
    BY <2>2 DEF Panic, history
  <2> QED
    BY <2>1, <2>2
<1>2. conn' \in [Conns -> {"new", "up", "closed"}]
  BY DEF IInv, Types, Close, Panic
<1>3. Types'
  BY <1>1, <1>2 DEF IInv, Types, wal
<1>4. Hosting'
  BY <1>1 DEF IInv, Hosting
<1>5. Line' = Line
  BY <1>1, WalKept
<1>6. RingSound'
  BY <1>1 DEF IInv, RingSound, wal
<1>7. CASE task' = task
  BY <1>1, <1>3, <1>4, <1>5, <1>6, <1>7, LineStays DEF IInv
<1>8. CASE task' = "gone" /\ task # "gone"
  <2>1. Numbered' /\ NothingLost'
    BY <1>1, <1>8 DEF IInv, Numbered, NothingLost
  <2>2. InTurn'
    <3> SUFFICES ASSUME ~overlap', ~spoilt' PROVE InTurn'
      BY DEF InTurn
    <3>1. (SortedSeq(Seen) /\ Behind(Seen))'
      BY <1>1, <1>8, CutStays
    <3> QED
      BY <1>1, <3>1 DEF IInv, InTurn
  <2> QED
    BY <1>3, <1>4, <1>6, <2>1, <2>2 DEF IInv
<1> QED
  BY <1>1, <1>7, <1>8

(* A table arrives: it gets a number of its own, and pushes overlap from now on
   if another one is under way. *)
LEMMA ReceiveStep ==
    ASSUME IInv, NEW c \in Conns, Receive(c)
    PROVE  IInv'
<1> USE IngestAssumption
<1>1. PICK t \in Times : ~(t < last) /\ rec' = [rec EXCEPT ![c] = [id |-> sent + 1, ts |-> t]]
  BY DEF Receive
<1>2. /\ UNCHANGED <<conn, host, task, batch, wal, stored, last, write, accepted, spoilt>>
      /\ sent' = sent + 1 /\ pc' = [pc EXCEPT ![c] = "load"]
      /\ overlap' = (overlap \/ \E d \in Conns : pc[d] # "idle")
      /\ pc[c] = "idle" /\ host # None
  BY DEF Receive, persistVars
<1>a. t \in Nat /\ last \in Nat /\ sent \in Nat
  BY DEF Times, IInv, Types
<1>3. Types'
  <2>1. [id |-> sent + 1, ts |-> t] \in Records
    BY <1>a DEF Records
  <2>2. rec' \in [Conns -> Records] /\ pc' \in [Conns -> {"idle", "load", "grant", "raise"}]
    BY <1>1, <1>2, <2>1 DEF IInv, Types
  <2>3. sent' \in Nat /\ overlap' \in BOOLEAN
    BY <1>2, <1>a DEF IInv, Types
  <2> QED
    BY <1>2, <2>2, <2>3 DEF IInv, Types, wal
<1>4. Hosting'
  BY <1>2 DEF IInv, Hosting
<1>b. RingSound'
  BY <1>2 DEF IInv, RingSound, wal
<1>c. Line' = Line /\ Seen' = Seen
  BY <1>2, WalKept DEF Seen
<1>5. Numbered'
  <2>1. rec'[c].id = sent + 1 /\ pc'[c] = "load"
    BY <1>1, <1>2 DEF IInv, Types
  <2>2. \A d \in Conns : d # c => rec'[d] = rec[d] /\ pc'[d] = pc[d]
    BY <1>1, <1>2 DEF IInv, Types
  <2>3. 1 .. sent \subseteq 1 .. sent + 1 /\ sent + 1 \in 1 .. sent + 1 /\ sent + 1 \notin 1 .. sent
    BY <1>a
  <2> QED
    BY <1>2, <2>1, <2>2, <2>3 DEF IInv, Numbered
<1>6. NothingLost'
  BY <1>2, <1>c DEF IInv, NothingLost, Line
<1>7. InTurn'
  <2> SUFFICES ASSUME ~overlap', ~spoilt' PROVE InTurn'
    BY DEF InTurn
  <2>1. ~overlap /\ ~spoilt /\ \A d \in Conns : pc[d] = "idle"
    BY <1>2
  <2>2. \A d \in Conns : pc'[d] # "idle" => d = c
    BY <1>2, <2>1 DEF IInv, Types
  <2>3. last' <= rec'[c].ts
    BY <1>1, <1>2, <1>a DEF IInv, Types
  <2>4. SortedSeq(Seen) /\ Behind(Seen)
    BY <2>1 DEF IInv, InTurn
  <2>5. (SortedSeq(Seen) /\ Behind(Seen))'
    BY <1>2, <1>c, <2>1, <2>4 DEF SortedSeq, Behind
  <2> QED
    BY <2>2, <2>3, <2>5 DEF InTurn
<1> QED
  BY <1>3, <1>4, <1>b, <1>5, <1>6, <1>7 DEF IInv

(* The load of the write position, a skipped sample, and the update after a push. *)
LEMMA PushLocalStep ==
    ASSUME IInv, NEW c \in Conns, Load(c) \/ Skip(c) \/ Raise(c)
    PROVE  IInv'
<1> USE IngestAssumption
<1>1. UNCHANGED <<conn, host, task, batch, wal, stored, sent, accepted, overlap, spoilt>>
  BY DEF Load, Skip, Raise, persistVars, history
<1>2. PICK l \in {"idle", "grant"} : pc' = [pc EXCEPT ![c] = l]
  BY DEF Load, Skip, Raise
<1>3. /\ pc[c] # "idle" /\ (l = "grant" => pc[c] = "load" /\ rec' = rec)
      /\ \A d \in Conns : d # c => rec'[d] = rec[d]
  <2>1. CASE Load(c)
    BY <1>2, <2>1 DEF Load, IInv, Types
  <2>2. CASE Skip(c)
    BY <1>2, <2>2 DEF Skip, IInv, Types
  <2>3. CASE Raise(c)
    BY <1>2, <2>3 DEF Raise, IInv, Types
  <2> QED
    BY <2>1, <2>2, <2>3
<1>4. \/ last' = last /\ pc[c] # "raise"
      \/ last' = Larger(last, rec[c].ts) /\ pc[c] = "raise" /\ l = "idle"
  <2>1. CASE Raise(c)
    BY <1>2, <2>1 DEF Raise, IInv, Types
  <2>2. CASE ~Raise(c)
    BY <2>2 DEF Load, Skip
  <2> QED
    BY <2>1, <2>2
<1>5. last' \in Nat /\ last <= last' /\ rec[c].ts \in Nat
      /\ (pc[c] = "raise" => rec[c].ts <= last')
  <2>1. last \in Nat /\ rec[c] \in Records
    BY DEF IInv, Types
  <2>2. rec[c].ts \in Nat
    BY <2>1 DEF Records
  <2> QED
    BY <1>4, <2>1, <2>2 DEF Larger
<1>6. Types'
  <2>1. committed % End \in 0 .. WalCap
    <3>1. committed \in Nat /\ End \in Nat \ {0} /\ End <= WalCap + 1
      BY DEF IInv, Types, End
    <3>2. \A i \in Nat, j \in Nat \ {0} : i % j \in 0 .. j - 1
      OBVIOUS
    <3>3. committed % End \in 0 .. End - 1
      BY <3>1, <3>2
    <3> QED
      BY <3>1, <3>3
  <2>2. NoRecord \in Records /\ 0 \in 0 .. WalCap
    BY DEF NoRecord, Records
  <2>3. rec' \in [Conns -> Records] /\ write' \in [Conns -> 0 .. WalCap]
    <3>1. rec \in [Conns -> Records] /\ write \in [Conns -> 0 .. WalCap]
      BY DEF IInv, Types
    <3>2. \/ rec' = rec /\ write' = [write EXCEPT ![c] = committed % End]
          \/ rec' = [rec EXCEPT ![c] = NoRecord] /\ write' = [write EXCEPT ![c] = 0]
      BY DEF Load, Skip, Raise
    <3> HIDE DEF NoRecord
    <3> QED
      BY <2>1, <2>2, <3>1, <3>2
  <2>4. pc' \in [Conns -> {"idle", "load", "grant", "raise"}]
    BY <1>2 DEF IInv, Types
  <2> QED
    BY <1>1, <1>5, <2>3, <2>4 DEF IInv, Types, wal
<1>a. pc'[c] = l /\ \A d \in Conns : d # c => pc'[d] = pc[d]
  BY <1>2 DEF IInv, Types
<1>7. Hosting'
  BY <1>1, <1>3 DEF IInv, Hosting
<1>b. RingSound'
  BY <1>1 DEF IInv, RingSound, wal
<1>c. Line' = Line /\ Seen' = Seen
  BY <1>1, WalKept DEF Seen
<1>8. Numbered'
  <2>1. \A d \in Conns : pc'[d] # "idle" => pc[d] # "idle" /\ rec'[d] = rec[d]
    BY <1>3, <1>a
  <2>2. \A d \in Conns : pc'[d] \in {"load", "grant"} => pc[d] \in {"load", "grant"}
    BY <1>3, <1>a
  <2> QED
    BY <1>1, <2>1, <2>2 DEF IInv, Numbered
<1>9. NothingLost'
  BY <1>1, <1>c DEF IInv, NothingLost, Line
<1>10. InTurn'
  <2> SUFFICES ASSUME ~overlap', ~spoilt' PROVE InTurn'
    BY DEF InTurn
  <2>1. ~overlap /\ ~spoilt
    BY <1>1
  <2>2. \A d \in Conns : d # c => pc[d] = "idle" /\ pc'[d] = "idle"
    BY <1>3, <1>a, <2>1 DEF IInv, InTurn
  <2>4. pc'[c] # "idle" => last' <= rec'[c].ts
    BY <1>3, <1>4, <1>a, <2>1 DEF IInv, InTurn
  <2>5. SortedSeq(Seen)'
    BY <1>c, <2>1 DEF IInv, InTurn, SortedSeq
  <2>6. Behind(Seen)'
    <3> DEFINE q == Seen
    <3>1. q \in Seq(Records) /\ Behind(q) /\ Seen' = q
      BY <1>c, <2>1, LineFacts DEF IInv, InTurn, Seen, Types
    <3> HIDE DEF q
    <3>2. \A i \in DOMAIN q : q[i].ts \in Nat
      <4>1. \A i \in DOMAIN q : q[i] \in Records
        BY <3>1, LenProperties, ElementOfSeq
      <4> QED
        BY <4>1 DEF Records
    <3>3. ASSUME NEW i \in DOMAIN q PROVE q[i].ts <= last'
      <4>1. \/ q[i].ts <= last
            \/ pc[c] = "raise" /\ q[i].ts <= rec[c].ts
        BY <2>2, <3>1 DEF Behind
      <4>2. last \in Nat /\ q[i].ts \in Nat
        BY <3>2 DEF IInv, Types
      <4> QED
        BY <1>5, <4>1, <4>2
    <3> QED
      BY <3>1, <3>3 DEF Behind
  <2> QED
    BY <2>2, <2>4, <2>5, <2>6 DEF InTurn
<1> QED
  BY <1>6, <1>7, <1>b, <1>8, <1>9, <1>10 DEF IInv

(* A sample is let in. *)
LEMMA GrantStep ==
    ASSUME IInv, NEW c \in Conns, Grant(c)
    PROVE  IInv'
<1> USE IngestAssumption
<1> DEFINE r == rec[c]
<1>1. /\ UNCHANGED <<conn, host, batch, stored, exact, cursor, last, rec, write, sent, overlap>>
      /\ pc[c] = "grant" /\ pc' = [pc EXCEPT ![c] = "raise"]
      /\ accepted' = accepted \cup {r.id}
      /\ CanWrite(write[c]) /\ Written(c)
      /\ spoilt' = (spoilt \/ (HasReader /\ Spoils(write[c])))
  BY DEF Grant, Written
<1>2. r \in Records /\ r.id \in Nat /\ r.ts \in Nat /\ r.id \in 1 .. sent /\ r.id \notin accepted
  BY <1>1 DEF IInv, Types, Records, Numbered
<1>3. /\ task # "none"
      /\ \/ task = "asleep" /\ task' \in {"gone", "queued"}
         \/ task # "asleep" /\ task' = task
  BY <1>1 DEF Grant, IInv, Types, Hosting
<1>a. \A d \in Conns : d # c => pc'[d] = pc[d]
  BY <1>1 DEF IInv, Types
<1>b. pc'[c] = "raise"
  BY <1>1 DEF IInv, Types
<1> HIDE DEF r
<1>4. Numbered'
  <2>1. IsFiniteSet(accepted')
    BY <1>1, FS_AddElement DEF IInv, Numbered
  <2>2. \A d \in Conns : pc'[d] # "idle" <=> pc[d] # "idle"
    BY <1>1, <1>a, <1>b
  <2>3. \A d \in Conns : pc'[d] \in {"load", "grant"} => d # c /\ pc[d] \in {"load", "grant"}
    BY <1>a, <1>b
  <2>4. \A d \in Conns : pc'[d] \in {"load", "grant"} => rec'[d].id \notin accepted'
    BY <1>1, <2>3 DEF IInv, Numbered, r
  <2> QED
    BY <1>1, <1>2, <2>1, <2>2, <2>4 DEF IInv, Numbered
<1>5. Hosting'
  BY <1>1, <1>3, <1>a, <1>b DEF IInv, Hosting
<1>6. Types'
  <2> DEFINE w == write[c]
  <2>1. /\ w \in 0 .. WalCap /\ Place(w) \in 0 .. WalCap - 1
        /\ mark \in 0 .. WalCap + 1 /\ committed \in 0 .. WalCap /\ End \in 0 .. WalCap + 1
    BY DEF IInv, Types, Place, End
  <2>2. /\ ring' = [ring EXCEPT ![Place(w)] = r] /\ committed' = Place(w) + 1
        /\ mark' = MarkAfter(w, Place(w) + 1)
    BY <1>1 DEF Written, r
  <2> HIDE DEF w
  <2>3. ring' \in [0 .. WalCap - 1 -> Records] /\ committed' \in 0 .. WalCap
    <3>1. ring \in [0 .. WalCap - 1 -> Records]
      BY DEF IInv, Types
    <3> QED
      BY <1>2, <2>1, <2>2, <3>1
  <2>4. Marked(w) \in 0 .. WalCap + 1
    BY <2>1 DEF Marked, Larger
  <2>5. mark' \in 0 .. WalCap + 1
    BY <2>1, <2>2, <2>4 DEF MarkAfter
  <2>6. accepted' \in SUBSET Nat
    BY <1>1, <1>2 DEF IInv, Types
  <2>7. task' \in {"none", "queued", "running", "asleep", "gone"}
    BY <1>3 DEF IInv, Types
  <2>8. spoilt' \in BOOLEAN
    BY <1>1 DEF IInv, Types
  <2>9. pc' \in [Conns -> {"idle", "load", "grant", "raise"}]
    BY <1>1 DEF IInv, Types
  <2> QED
    BY <1>1, <2>3, <2>5, <2>6, <2>7, <2>8, <2>9 DEF IInv, Types
<1>7. CASE spoilt'
  <2>1. RingSound' /\ NothingLost' /\ InTurn'
    BY <1>7 DEF RingSound, NothingLost, InTurn
  <2> QED
    BY <1>4, <1>5, <1>6, <2>1 DEF IInv
<1>8. CASE ~spoilt' /\ task' = "gone"
  <2>1. RingSound' /\ NothingLost' /\ ~spoilt
    BY <1>1, <1>8 DEF RingSound, NothingLost
  <2>2. InTurn'
    <3> SUFFICES ASSUME ~overlap' PROVE InTurn'
      BY DEF InTurn
    <3>1. ~overlap
      BY <1>1
    <3>2. /\ \A d \in Conns : d # c => pc[d] = "idle" /\ pc'[d] = "idle"
          /\ last <= rec[c].ts
      BY <1>1, <1>a, <2>1, <3>1 DEF IInv, InTurn
    <3>3. (SortedSeq(Seen) /\ Behind(Seen))'
      <4>1. CASE task # "gone"
        BY <1>1, <1>8, <1>a, <2>1, <3>1, <4>1, CutStays
      <4>2. CASE task = "gone"
        <5>1. Seen' = Seen
          BY <1>1, <1>8, <4>2 DEF Seen
        <5>2. SortedSeq(Seen) /\ Behind(Seen)
          BY <2>1, <3>1 DEF IInv, InTurn
        <5>3. \A d \in Conns : pc[d] = "raise" => pc'[d] = "raise" /\ rec'[d] = rec[d]
          BY <1>1, <1>a
        <5> QED
          BY <1>1, <5>1, <5>2, <5>3 DEF SortedSeq, Behind
      <4> QED
        BY <4>1, <4>2
    <3> QED
      BY <1>1, <3>2, <3>3 DEF InTurn
  <2> QED
    BY <1>4, <1>5, <1>6, <2>1, <2>2 DEF IInv
<1>9. CASE ~spoilt' /\ task' # "gone"
  <2>1. task \notin {"none", "gone"} /\ ~spoilt /\ ~Spoils(write[c])
    BY <1>1, <1>3, <1>9 DEF HasReader
  <2>2. /\ Unread' = Append(Unread, rec[c])
        /\ cursor <= WalCap /\ mark' <= WalCap /\ committed' <= mark'
        /\ committed' < cursor => mark' = WalCap
        /\ batch > 0 => /\ cursor < batch
                        /\ batch <= IF committed' >= cursor THEN committed' ELSE WalCap
    BY <1>1, <2>1, GrantRing
  <2>3. RingSound'
    BY <1>1, <2>2 DEF RingSound
  <2> DEFINE q == Line
  <2>4. Line' = Append(q, r) /\ q \in Seq(Records) /\ Seen = q /\ Seen' = Append(q, r)
    <3>1. Line' = stored \o Append(Unread, r)
      BY <1>1, <2>2 DEF Line, r
    <3>2. stored \in Seq(Records) /\ Unread \in Seq(Records)
      BY UnreadIsSeq DEF IInv, Types
    <3>3. Line' = Append(Line, r)
      BY <1>2, <3>1, <3>2, LineGrows DEF Line
    <3>4. Line \in Seq(Records)
      BY LineFacts DEF IInv
    <3> QED
      BY <1>9, <2>1, <3>3, <3>4 DEF Seen
  <2>5. NothingLost'
    <3>1. Ids(q) = accepted /\ Len(q) = Cardinality(accepted)
      BY <2>1 DEF IInv, NothingLost, Line
    <3> HIDE DEF q
    <3>2. Ids(Append(q, r)) = accepted' /\ Len(Append(q, r)) = Len(q) + 1
      BY <1>1, <1>2, <2>4, <3>1, AppendIds, AppendFacts
    <3>3. Cardinality(accepted') = Cardinality(accepted) + 1
      BY <1>1, <1>2, FS_AddElement DEF IInv, Numbered
    <3>4. Ids(Line') = accepted' /\ Len(Line') = Cardinality(accepted')
      BY <2>4, <3>1, <3>2, <3>3
    <3> QED
      BY <3>4 DEF NothingLost, Line, Ids
  <2>6. InTurn'
    <3> SUFFICES ASSUME ~overlap' PROVE InTurn'
      BY DEF InTurn
    <3>1. ~overlap
      BY <1>1
    <3>2. /\ \A d \in Conns : d # c => pc[d] = "idle" /\ pc'[d] = "idle"
          /\ last <= r.ts
      BY <1>1, <1>a, <2>1, <3>1 DEF IInv, InTurn, r
    <3>3. SortedSeq(q) /\ Behind(q)
      BY <2>1, <2>4, <3>1 DEF IInv, InTurn
    <3> HIDE DEF q
    <3>4. \A d \in Conns : pc[d] # "raise"
      BY <1>1, <3>2
    <3>5. \A i \in DOMAIN q : q[i].ts <= last /\ q[i].ts \in Nat
      <4>1. \A i \in DOMAIN q : q[i] \in Records
        BY <2>4, LenProperties, ElementOfSeq
      <4> QED
        BY <3>3, <3>4, <4>1 DEF Behind, Records
    <3>6. \A i \in DOMAIN q : q[i].ts <= r.ts
      <4>1. last \in Nat
        BY DEF IInv, Types
      <4> QED
        BY <1>2, <3>2, <3>5, <4>1
    <3>7. SortedSeq(Append(q, r))
      BY <1>2, <2>4, <3>3, <3>6, AppendSorted
    <3>8. \A i \in DOMAIN Append(q, r) : Append(q, r)[i].ts <= r.ts
      <4> DEFINE n == Len(q)
      <4>1. /\ n \in Nat /\ DOMAIN q = 1 .. n /\ DOMAIN Append(q, r) = 1 .. n + 1
            /\ Append(q, r)[n + 1] = r
            /\ \A i \in 1 .. n : Append(q, r)[i] = q[i]
        BY <1>2, <2>4, AppendFacts
      <4> HIDE DEF n
      <4>2. \A i \in 1 .. n + 1 : i \in 1 .. n \/ i = n + 1
        BY <4>1
      <4> QED
        BY <1>2, <3>6, <4>1, <4>2
    <3>9. \A i \in DOMAIN Append(q, r) :
             \E d \in Conns : pc'[d] = "raise" /\ Append(q, r)[i].ts <= rec'[d].ts
      BY <1>1, <1>b, <3>8 DEF r
    <3>10. (SortedSeq(Seen) /\ Behind(Seen))'
      BY <2>4, <3>7, <3>9 DEF SortedSeq, Behind
    <3>11. \A d \in Conns : pc'[d] # "idle" => d = c
      BY <3>2
    <3>12. last' <= rec'[c].ts
      BY <1>1, <3>2 DEF r
    <3> QED
      BY <3>10, <3>11, <3>12 DEF InTurn
  <2> QED
    BY <1>4, <1>5, <1>6, <2>3, <2>5, <2>6 DEF IInv
<1> QED
  BY <1>7, <1>8, <1>9

-----------------------------------------------------------------------------
LEMMA IInvStep == IInv /\ [Next]_vars => IInv'
<1> SUFFICES ASSUME IInv, [Next]_vars PROVE IInv'
  OBVIOUS
<1>1. ASSUME NEW c \in Conns, Accept(c) \/ Create(c) \/ Close(c) \/ Receive(c) \/ PushStep(c)
      PROVE  IInv'
  BY <1>1, QuietStep, EndStep, ReceiveStep, PushLocalStep, GrantStep DEF PushStep
<1>2. CASE Persist
  BY <1>2, QuietStep, ReadStep, StoreStep, EndStep DEF Persist
<1>3. CASE UNCHANGED vars
  <2>1. UNCHANGED <<conn, host, task, batch, stored, wal, last, pc, rec, write, sent, accepted, overlap, spoilt>>
    BY <1>3 DEF vars, persistVars, history
  <2>2. Types' /\ Hosting' /\ RingSound'
    BY <2>1 DEF IInv, Types, Hosting, RingSound, wal
  <2>3. Line' = Line
    BY <2>1, WalKept
  <2> QED
    BY <2>1, <2>2, <2>3, LineStays DEF IInv
<1> QED
  BY <1>1, <1>2, <1>3 DEF Next

LEMMA Invariance == Spec => []IInv
BY InitIInv, IInvStep, PTL DEF Spec

(* While the persist task of a component is there, every sample that push_buf
   let into the ring is stored or still in the ring, once: for any number of
   connections and any length of the ring, however pushes, reads and releases
   interleave and wherever the ring wraps.  It holds until a push writes where
   another one moved the write position after its load in try_grant, or until
   records fill a ring of a whole number of them. *)
THEOREM AcceptedKept == Spec => []NothingLost
<1>1. IInv => NothingLost
  BY DEF IInv
<1> QED
  BY <1>1, Invariance, PTL

(* As long as no two pushes of a component overlapped and no ring without a
   spare byte filled up, the check of push_buf against last_timestamp is enough
   for storage to receive the samples in time order, for any number of
   connections and any clocks. *)
THEOREM StorageOrder == Spec => []StoredSorted
<1>1. IInv => StoredSorted
  <2> SUFFICES ASSUME IInv, ~overlap, ~spoilt,
                      NEW i \in DOMAIN stored, NEW j \in DOMAIN stored, i < j
               PROVE  stored[i].ts <= stored[j].ts
    BY DEF StoredSorted
  <2>1. /\ DOMAIN stored \subseteq DOMAIN Seen
        /\ \A k \in DOMAIN stored : Seen[k] = stored[k]
    BY LineFacts DEF IInv, Seen
  <2>2. SortedSeq(Seen)
    BY DEF IInv, InTurn
  <2> QED
    BY <2>1, <2>2 DEF SortedSeq
<1> QED
  BY <1>1, Invariance, PTL
=============================================================================

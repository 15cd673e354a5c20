-------------------------- MODULE VTableStreamProofs --------------------------
(***************************************************************************)
(* Safety of the vtable streams, for every number of fields, every window, *)
(* every capacity of the rings and any number of samples.                  *)
(*                                                                         *)
(* FreshTable speaks about the table under way.  What makes it inductive   *)
(* is the order in which a sample passes a field: ring, then accumulator,  *)
(* then table, then packet, each holding newer samples than the next, and  *)
(* the bits that say which of the two, the field task or the sender, may   *)
(* touch the table.                                                        *)
(*                                                                         *)
(* The end of the module is about the playback that the fixed-rate streams *)
(* share.                                                                  *)
(***************************************************************************)
EXTENDS VTableStream, Playback, FiniteSetTheorems, TLAPS

FullTables == [Fields -> SUBSET Nat]

Types ==
    /\ produced \in [Fields -> Nat]
    /\ ring \in [Fields -> Seq(Nat)]
    /\ pc \in [Fields -> {"none", "read", "wait", "dropped", "panic"}]
    /\ acc \in [Fields -> SUBSET Nat]
    /\ filled \in [Fields -> BOOLEAN]
    /\ table = Taken \/ table \in FullTables
    /\ packet = Taken \/ packet \in FullTables
    /\ sender \in {"setup", "announce", "ready", "sending", "ended"}
    /\ hosted \in BOOLEAN
    /\ used \in [Fields -> Nat]

(* The table is away only while every bit is set, which keeps the fields from
   writing; the sender holds it from Take to Sent.  Before the tasks are spawned
   no bit is set. *)
Handover ==
    /\ sender = "setup" => \A f \in Fields : pc[f] = "none" /\ ~filled[f]
    /\ table = Taken => sender \in {"sending", "ended"} /\ AllSet
    /\ sender = "sending" => table = Taken /\ packet \in FullTables

(* The samples of S were taken from the ring of f and not sent: they are newer
   than those sent and older than those the ring still holds. *)
Passed(S, f) ==
    \A s \in S : /\ used[f] < s /\ s <= produced[f]
                 /\ \A i \in DOMAIN ring[f] : s < ring[f][i]

(* The ring holds samples in their order, newer than those sent. *)
Ordered(f) ==
    /\ used[f] <= produced[f]
    /\ \A i \in DOMAIN ring[f] : used[f] < ring[f][i] /\ ring[f][i] <= produced[f]
    /\ \A i, j \in DOMAIN ring[f] : i < j => ring[f][i] < ring[f][j]

Accumulated(f) ==
    /\ IsFiniteSet(acc[f]) /\ Cardinality(acc[f]) < Window
    /\ f \notin Mean \/ filled[f] => acc[f] = {}
    /\ Passed(acc[f], f)

(* What a field is made of. *)
Whole(S, f) ==
    /\ Cardinality(S) = IF f \in Mean THEN Window ELSE 1
    /\ Passed(S, f)

Prepared(f) ==
    /\ pc[f] # "panic"
    /\ pc[f] = "read" => ~filled[f]
    /\ filled[f] /\ table # Taken => Whole(table[f], f)
    /\ sender = "sending" => Whole(packet[f], f)

FieldInv(f) == Ordered(f) /\ Accumulated(f) /\ Prepared(f)

(* The inductive invariant. *)
IInv == Types /\ Handover /\ \A f \in Fields : FieldInv(f)

-----------------------------------------------------------------------------
(* A table is not the mark that there is none: a vtable has a field. *)
LEMMA TableIsNotTaken == \A t \in FullTables : t # Taken
<1>1. 1 \in Fields
  BY VTableStreamAssumption DEF Fields
<1> QED
  BY <1>1 DEF FullTables, Taken

(* A bounded set of naturals that is not empty has a largest element. *)
LEMMA LargestExists ==
    ASSUME NEW S \in SUBSET Nat, S # {}, NEW B \in Nat, \A x \in S : x <= B
    PROVE  Max(S) \in S /\ \A y \in S : y <= Max(S)
<1> DEFINE T == {B - x : x \in S}
           R == OpToRel(<, Nat)
<1>1. T \subseteq Nat /\ T # {}
  <2>1. \A x \in S : x \in Nat /\ B - x \in Nat
    OBVIOUS
  <2>2. PICK x \in S : TRUE
    OBVIOUS
  <2>3. B - x \in T
    BY <2>2
  <2> QED
    BY <2>1, <2>3
<1>2. IsWellFoundedOn(R, Nat)
  BY NatLessThanWellFounded
<1>3. \E d \in T : \A e \in T : ~(<<e, d>> \in R)
  <2> HIDE DEF R, T
  <2> QED
    BY <1>1, <1>2, WFMin
<1>4. PICK d \in T : \A e \in T : ~(<<e, d>> \in R)
  BY <1>3
<1>5. \A e \in T : ~(e < d)
  BY <1>1, <1>4 DEF OpToRel
<1>6. PICK x \in S : d = B - x
  OBVIOUS
<1>7. \A y \in S : x >= y
  <2> TAKE y \in S
  <2>1. B - y \in T
    OBVIOUS
  <2>2. ~(B - y < B - x)
    BY <1>5, <1>6, <2>1
  <2> QED
    BY <2>2
<1>8. Max(S) \in S /\ \A y \in S : Max(S) >= y
  BY <1>7 DEF Max
<1> QED
  BY <1>8

-----------------------------------------------------------------------------
LEMMA InitIInv == Init => IInv
<1> SUFFICES ASSUME Init PROVE IInv
  OBVIOUS
<1> USE VTableStreamAssumption
<1>1. Types
  BY DEF Init, Types, Blank, FullTables
<1>2. Handover
  BY TableIsNotTaken DEF Init, Handover, Blank, FullTables
<1>3. ASSUME NEW f \in Fields PROVE FieldInv(f)
  <2>1. IsFiniteSet({}) /\ Cardinality({}) = 0
    BY FS_EmptySet
  <2>2. acc[f] = {} /\ ring[f] = <<>> /\ used[f] = 0 /\ produced[f] = 0 /\ ~filled[f]
    BY DEF Init, Blank
  <2>3. Ordered(f) /\ Accumulated(f)
    BY <2>1, <2>2 DEF Ordered, Accumulated, Passed
  <2>4. Prepared(f)
    BY <2>2 DEF Init, Prepared
  <2> QED
    BY <2>3, <2>4 DEF FieldInv
<1> QED
  BY <1>1, <1>2, <1>3 DEF IInv

(* A step that leaves the samples of f where they are keeps their order. *)
LEMMA SameSamples ==
    ASSUME NEW f \in Fields, Ordered(f), Accumulated(f),
           UNCHANGED <<produced, ring, acc, filled, used>>
    PROVE  Ordered(f)' /\ Accumulated(f)'
BY DEF Ordered, Accumulated, Passed

LEMMA SameWhole ==
    ASSUME NEW f \in Fields, NEW S, Whole(S, f), UNCHANGED <<produced, ring, used>>
    PROVE  Whole(S, f)'
BY DEF Whole, Passed

(* The sender starts, announces, ends, or its connection ends. *)
LEMMA ControlStep ==
    ASSUME IInv, Setup \/ Announce \/ SendFails \/ HostEnds
    PROVE  IInv'
<1> USE VTableStreamAssumption
<1>1. UNCHANGED <<produced, ring, acc, filled, table, packet, used>>
  BY DEF Setup, Announce, SendFails, HostEnds, stores, history
<1>2. Types'
  BY <1>1 DEF IInv, Types, Setup, Announce, SendFails, HostEnds
<1>3. Handover'
  BY <1>1 DEF IInv, Handover, AllSet, Setup, Announce, SendFails, HostEnds
<1>4. ASSUME NEW f \in Fields PROVE FieldInv(f)'
  <2>1. Ordered(f)' /\ Accumulated(f)'
    BY <1>1, SameSamples DEF IInv, FieldInv
  <2>2. pc[f]' # "panic" /\ (pc[f]' = "read" => ~filled[f])
    <3>1. CASE Setup
      BY <1>1, <3>1 DEF IInv, Handover, Setup, Types
    <3>2. CASE HostEnds
      BY <3>2 DEF IInv, FieldInv, Prepared, HostEnds, Types
    <3>3. CASE Announce \/ SendFails
      BY <3>3 DEF IInv, FieldInv, Prepared, Announce, SendFails
    <3> QED
      BY <3>1, <3>2, <3>3
  <2>3. sender' # "sending"
    BY DEF Setup, Announce, SendFails, HostEnds
  <2>4. filled[f] /\ table # Taken => Whole(table[f], f)'
    BY <1>1, SameWhole DEF IInv, FieldInv, Prepared
  <2>5. Prepared(f)'
    BY <1>1, <2>2, <2>3, <2>4 DEF Prepared
  <2> QED
    BY <2>1, <2>5 DEF FieldInv
<1> QED
  BY <1>2, <1>3, <1>4 DEF IInv

LEMMA AppendFacts ==
    ASSUME NEW s \in Seq(Nat), NEW e \in Nat
    PROVE  /\ Append(s, e) \in Seq(Nat)
           /\ Len(s) \in Nat /\ DOMAIN s = 1 .. Len(s)
           /\ DOMAIN Append(s, e) = 1 .. Len(s) + 1
           /\ Append(s, e)[Len(s) + 1] = e
           /\ \A i \in DOMAIN s : Append(s, e)[i] = s[i] /\ s[i] \in Nat
OBVIOUS

(* A push adds the newest sample at the end of the ring, or nothing. *)
LEMMA PushStep ==
    ASSUME IInv, NEW g \in Fields, Push(g)
    PROVE  IInv'
<1> USE VTableStreamAssumption
<1>1. /\ UNCHANGED <<acc, filled, table, packet, sender, hosted, used>>
      /\ produced' = [produced EXCEPT ![g] = @ + 1]
      /\ \/ ring' = ring
         \/ ring' = [ring EXCEPT ![g] = Append(@, produced[g] + 1)]
      /\ \/ pc' = pc
         \/ HasReader(g) /\ pc' = [pc EXCEPT ![g] = IF hosted \/ @ = "wait" THEN @ ELSE "dropped"]
  BY DEF Push, stores, IInv, Types
<1>2. Types'
  <2>1. produced' \in [Fields -> Nat] /\ produced'[g] = produced[g] + 1
    BY <1>1 DEF IInv, Types
  <2>2. Append(ring[g], produced[g] + 1) \in Seq(Nat)
    BY AppendFacts DEF IInv, Types
  <2>3. ring' \in [Fields -> Seq(Nat)]
    BY <1>1, <2>2 DEF IInv, Types
  <2>4. pc' \in [Fields -> {"none", "read", "wait", "dropped", "panic"}]
    BY <1>1 DEF IInv, Types
  <2> QED
    BY <1>1, <2>1, <2>3, <2>4 DEF IInv, Types
<1>3. Handover'
  BY <1>1 DEF IInv, Handover, AllSet, HasReader, Types
<1>4. ASSUME NEW f \in Fields PROVE FieldInv(f)'
  <2>1. /\ produced[f] <= produced'[f] /\ produced'[f] \in Nat
        /\ produced[f] \in Nat /\ ring[f] \in Seq(Nat) /\ used[f] \in Nat
    BY <1>1 DEF IInv, Types
  <2>a. \/ ring'[f] = ring[f]
        \/ /\ ring'[f] = Append(ring[f], produced[f] + 1)
           /\ produced'[f] = produced[f] + 1
    BY <1>1 DEF IInv, Types
  <2>b. Ordered(f) /\ used'[f] = used[f]
    BY <1>1 DEF IInv, FieldInv
  <2>2. Ordered(f)'
    <3>1. CASE ring'[f] = ring[f]
      BY <2>1, <2>b, <3>1, AppendFacts DEF Ordered
    <3>2. CASE /\ ring'[f] = Append(ring[f], produced[f] + 1)
               /\ produced'[f] = produced[f] + 1
      <4> DEFINE n == Len(ring[f])
      <4>1. /\ n \in Nat /\ DOMAIN ring[f] = 1 .. n /\ DOMAIN ring'[f] = 1 .. n + 1
            /\ ring'[f][n + 1] = produced[f] + 1
            /\ \A i \in 1 .. n : ring'[f][i] = ring[f][i] /\ ring[f][i] \in Nat
        BY <2>1, <3>2, AppendFacts
      <4> HIDE DEF n
      <4>2. \A i \in 1 .. n + 1 : i \in 1 .. n \/ i = n + 1
        BY <4>1
      <4>3. \A i \in 1 .. n : used[f] < ring[f][i] /\ ring[f][i] <= produced[f]
        BY <2>b, <4>1 DEF Ordered
      <4>4. \A i \in 1 .. n + 1 : used[f] < ring'[f][i] /\ ring'[f][i] <= produced[f] + 1
        <5> TAKE i \in 1 .. n + 1
        <5>1. CASE i \in 1 .. n
          <6>1. ring'[f][i] = ring[f][i] /\ ring[f][i] \in Nat
            BY <4>1, <5>1
          <6> QED
            BY <2>1, <4>3, <5>1, <6>1
        <5>2. CASE i = n + 1
          <6>1. ring'[f][i] = produced[f] + 1 /\ used[f] <= produced[f]
            BY <2>b, <4>1, <5>2 DEF Ordered
          <6> QED
            BY <2>1, <6>1
        <5> QED
          BY <4>2, <5>1, <5>2
      <4>5. ASSUME NEW i \in 1 .. n + 1, NEW j \in 1 .. n + 1, i < j
            PROVE  ring'[f][i] < ring'[f][j]
        <5>1. i \in 1 .. n
          BY <4>1, <4>5
        <5>2. CASE j \in 1 .. n
          BY <2>b, <4>1, <4>5, <5>1, <5>2 DEF Ordered
        <5>3. CASE j = n + 1
          <6>1. ring'[f][j] = produced[f] + 1 /\ ring'[f][i] = ring[f][i] /\ ring[f][i] \in Nat
            BY <4>1, <5>1, <5>3
          <6> QED
            BY <2>1, <4>3, <5>1, <6>1
        <5> QED
          BY <4>2, <5>2, <5>3
      <4>6. used[f] <= produced[f] + 1
        BY <2>1, <2>b DEF Ordered
      <4> QED
        BY <2>b, <3>2, <4>1, <4>4, <4>5, <4>6 DEF Ordered
    <3> QED
      BY <2>a, <3>1, <3>2
  <2>3. ASSUME NEW S \in SUBSET Nat, Passed(S, f) PROVE Passed(S, f)'
    <3>1. CASE ring'[f] = ring[f]
      BY <2>1, <2>3, <2>b, <3>1 DEF Passed
    <3>2. CASE /\ ring'[f] = Append(ring[f], produced[f] + 1)
               /\ produced'[f] = produced[f] + 1
      <4> DEFINE n == Len(ring[f])
      <4>1. /\ n \in Nat /\ DOMAIN ring[f] = 1 .. n /\ DOMAIN ring'[f] = 1 .. n + 1
            /\ ring'[f][n + 1] = produced[f] + 1
            /\ \A i \in 1 .. n : ring'[f][i] = ring[f][i]
        BY <2>1, <3>2, AppendFacts
      <4> HIDE DEF n
      <4>2. \A i \in 1 .. n + 1 : i \in 1 .. n \/ i = n + 1
        BY <4>1
      <4> QED
        BY <2>1, <2>3, <2>b, <3>2, <4>1, <4>2 DEF Passed
    <3> QED
      BY <2>a, <3>1, <3>2
  <2>4. Accumulated(f)'
    BY <1>1, <2>3 DEF IInv, FieldInv, Accumulated, Types
  <2>5. Prepared(f)'
    <3>1. pc'[f] # "panic" /\ (pc'[f] = "read" => ~filled[f])
      BY <1>1 DEF IInv, FieldInv, Prepared, Types
    <3>2. ASSUME NEW S \in SUBSET Nat, Whole(S, f) PROVE Whole(S, f)'
      BY <2>3, <3>2 DEF Whole
    <3>3. (filled[f] /\ table # Taken => Whole(table[f], f)')
      BY <1>1, <3>2 DEF IInv, FieldInv, Prepared, Types, FullTables
    <3>4. sender = "sending" => Whole(packet[f], f)'
      BY <1>1, <3>2 DEF IInv, FieldInv, Prepared, Handover, FullTables
    <3> QED
      BY <1>1, <3>1, <3>3, <3>4 DEF Prepared
  <2> QED
    BY <2>2, <2>4, <2>5 DEF FieldInv
<1> QED
  BY <1>2, <1>3, <1>4 DEF IInv

(* A field task that may write again. *)
LEMMA WriteableStep ==
    ASSUME IInv, NEW g \in Fields, Writeable(g)
    PROVE  IInv'
<1> USE VTableStreamAssumption
<1>1. /\ UNCHANGED <<produced, ring, acc, filled, table, packet, sender, hosted, used>>
      /\ pc' = [pc EXCEPT ![g] = "read"] /\ ~filled[g] /\ pc[g] = "wait"
  BY DEF Writeable, stores, history
<1>2. Types'
  BY <1>1 DEF IInv, Types
<1>3. Handover'
  BY <1>1 DEF IInv, Handover, AllSet, Types
<1>4. ASSUME NEW f \in Fields PROVE FieldInv(f)'
  <2>1. Ordered(f)' /\ Accumulated(f)'
    BY <1>1, SameSamples DEF IInv, FieldInv
  <2>2. pc'[f] # "panic" /\ (pc'[f] = "read" => ~filled[f])
    BY <1>1 DEF IInv, FieldInv, Prepared, Types
  <2>3. filled[f] /\ table # Taken => Whole(table[f], f)'
    BY <1>1, SameWhole DEF IInv, FieldInv, Prepared
  <2>4. sender = "sending" => Whole(packet[f], f)'
    BY <1>1, SameWhole DEF IInv, FieldInv, Prepared
  <2> QED
    BY <1>1, <2>1, <2>2, <2>3, <2>4 DEF FieldInv, Prepared
<1> QED
  BY <1>2, <1>3, <1>4 DEF IInv

(* The sender takes the table. *)
LEMMA TakeStep ==
    ASSUME IInv, Take
    PROVE  IInv'
<1> USE VTableStreamAssumption
<1>1. /\ UNCHANGED <<produced, ring, pc, acc, filled, hosted, used>>
      /\ packet' = table /\ table' = Taken /\ sender' = "sending"
      /\ sender = "ready" /\ AllSet
  BY DEF Take, history
<1>2. table \in FullTables
  BY <1>1 DEF IInv, Types, Handover
<1>3. Types'
  BY <1>1, <1>2 DEF IInv, Types
<1>4. Handover'
  BY <1>1, <1>2 DEF IInv, Handover, AllSet
<1>5. ASSUME NEW f \in Fields PROVE FieldInv(f)'
  <2>1. Ordered(f)' /\ Accumulated(f)'
    BY <1>1, SameSamples DEF IInv, FieldInv
  <2>2. Whole(table[f], f)
    BY <1>1, <1>2, TableIsNotTaken DEF IInv, FieldInv, Prepared, AllSet
  <2>3. Whole(packet[f], f)'
    BY <1>1, <2>2, SameWhole
  <2> QED
    BY <1>1, <2>1, <2>3 DEF IInv, FieldInv, Prepared
<1> QED
  BY <1>3, <1>4, <1>5 DEF IInv

(* The table is sent and given back: the samples it was made of are used. *)
LEMMA SentStep ==
    ASSUME IInv, Sent
    PROVE  IInv'
<1> USE VTableStreamAssumption
<1>1. /\ UNCHANGED <<produced, ring, pc, acc, hosted>>
      /\ table' = packet /\ packet' = Taken /\ sender' = "ready"
      /\ sender = "sending" /\ filled' = [f \in Fields |-> FALSE]
      /\ used' = Newest
  BY DEF Sent
<1>2. packet \in FullTables /\ AllSet
  BY <1>1 DEF IInv, Handover
<1>3. ASSUME NEW f \in Fields
      PROVE  /\ used'[f] \in {used[f]} \cup packet[f]
             /\ \A s \in packet[f] : s <= used'[f]
             /\ used'[f] \in Nat /\ used'[f] <= produced[f]
             /\ \A i \in DOMAIN ring[f] : used'[f] < ring[f][i]
  <2> DEFINE S == {used[f]} \cup packet[f]
  <2>1. used'[f] = Max(S)
    BY <1>1 DEF Newest
  <2>2. Ordered(f) /\ Passed(packet[f], f) /\ used[f] \in Nat /\ produced[f] \in Nat
    BY <1>1 DEF IInv, FieldInv, Prepared, Whole, Types
  <2>3. S \in SUBSET Nat /\ S # {}
    BY <1>2, <2>2 DEF FullTables
  <2>4. \A x \in S : x <= produced[f]
    BY <2>2 DEF Ordered, Passed
  <2>5. Max(S) \in S /\ \A y \in S : y <= Max(S)
    <3> HIDE DEF S
    <3> QED
      BY <2>2, <2>3, <2>4, LargestExists
  <2>6. \A x \in S : \A i \in DOMAIN ring[f] : x < ring[f][i]
    BY <2>2 DEF Ordered, Passed
  <2> QED
    BY <2>1, <2>3, <2>4, <2>5, <2>6
<1>4. Types'
  <2>1. used' = [f \in Fields |-> used'[f]]
    BY <1>1 DEF Newest
  <2>2. used' \in [Fields -> Nat]
    BY <1>3, <2>1
  <2> QED
    BY <1>1, <1>2, <2>2 DEF IInv, Types
<1>5. Handover'
  BY <1>1, <1>2, TableIsNotTaken DEF Handover
<1>6. ASSUME NEW f \in Fields PROVE FieldInv(f)'
  <2>1. acc[f] = {} /\ ~filled'[f]
    BY <1>1, <1>2 DEF IInv, FieldInv, Accumulated, AllSet
  <2>2. Ordered(f)'
    BY <1>1, <1>3 DEF IInv, FieldInv, Ordered
  <2>3. Accumulated(f)'
    BY <1>1, <2>1 DEF IInv, FieldInv, Accumulated, Passed
  <2>4. Prepared(f)'
    BY <1>1, <2>1 DEF IInv, FieldInv, Prepared
  <2> QED
    BY <2>2, <2>3, <2>4 DEF FieldInv
<1> QED
  BY <1>4, <1>5, <1>6 DEF IInv

(* A field task reads its ring.  The table is there, because its bit is clear. *)
LEMMA FillStep ==
    ASSUME IInv, NEW g \in Fields, Fill(g)
    PROVE  IInv'
<1> USE VTableStreamAssumption
<1>1. pc[g] = "read" /\ ~filled[g] /\ ring[g] # <<>>
  BY DEF Fill, IInv, FieldInv, Prepared, Types
<1>2. table # Taken /\ table \in FullTables /\ sender # "sending" /\ sender # "setup"
  BY <1>1 DEF IInv, Handover, AllSet, Types
<1>3. /\ UNCHANGED <<produced, packet, sender, hosted, used>>
      /\ ring' = [ring EXCEPT ![g] = <<>>]
      /\ acc' = [acc EXCEPT ![g] = IF Finished(g) THEN {} ELSE Summed(g)]
      /\ table' = [table EXCEPT ![g] = Written(g)]
      /\ filled' = [filled EXCEPT ![g] = Finished(g)]
      /\ pc' = [pc EXCEPT ![g] = IF Finished(g) THEN "wait" ELSE "read"]
  BY <1>2 DEF Fill, history
<1> DEFINE s == FirstOf(g)
<1>4. s \in Nat /\ 1 \in DOMAIN ring[g]
  BY <1>1 DEF IInv, Types, FirstOf
<1>5. acc[g] \in SUBSET Nat /\ IsFiniteSet(acc[g]) /\ Cardinality(acc[g]) \in Nat /\ Window \in Nat
  BY FS_CardinalityType DEF IInv, Types, FieldInv, Accumulated
<1>6. /\ used[g] < s /\ s <= produced[g] /\ s \notin acc[g]
      /\ \A a \in acc[g] : used[g] < a /\ a <= produced[g]
  BY <1>4, <1>5 DEF IInv, FieldInv, Ordered, Accumulated, Passed, FirstOf
<1> HIDE DEF s
<1>7. /\ IsFiniteSet(acc[g] \cup {s})
      /\ Cardinality(acc[g] \cup {s}) = Cardinality(acc[g]) + 1
  BY <1>5, <1>6, FS_AddElement
<1>8. Summed(g) = acc[g] \cup {s}
  BY DEF Summed, s
<1>9. Finished(g) \in BOOLEAN
  BY DEF Finished
<1>10. Summed(g) \in SUBSET Nat /\ Written(g) \in SUBSET Nat
  BY <1>4, <1>5, <1>8 DEF Written, s
<1>11. Types'
  BY <1>2, <1>3, <1>9, <1>10 DEF IInv, Types, FullTables
<1>12. Handover'
  <2>1. table' \in FullTables
    BY <1>2, <1>3, <1>10 DEF FullTables
  <2>2. table' # Taken
    BY <2>1, TableIsNotTaken
  <2> QED
    BY <1>2, <1>3, <2>2 DEF Handover
<1>13. FieldInv(g)'
  <2>1. /\ ring'[g] = <<>> /\ used'[g] = used[g] /\ produced'[g] = produced[g]
        /\ acc'[g] = (IF Finished(g) THEN {} ELSE Summed(g))
        /\ table'[g] = Written(g) /\ filled'[g] = Finished(g)
        /\ pc'[g] = (IF Finished(g) THEN "wait" ELSE "read")
    BY <1>2, <1>3 DEF IInv, Types, FullTables
  <2>2. Ordered(g)'
    BY <2>1 DEF IInv, FieldInv, Ordered
  <2>3. \A a \in Summed(g) : used[g] < a /\ a <= produced[g]
    BY <1>6, <1>8
  <2>4. Accumulated(g)'
    <3>1. CASE Finished(g)
      BY <2>1, <3>1, FS_EmptySet DEF Accumulated, Passed
    <3>2. CASE ~Finished(g)
      <4>1. g \in Mean /\ Cardinality(acc'[g]) < Window /\ IsFiniteSet(acc'[g])
        BY <1>5, <1>7, <1>8, <2>1, <3>2 DEF Finished
      <4>2. Passed(acc[g], g)'
        BY <2>1, <2>3, <3>2 DEF Passed
      <4> QED
        BY <2>1, <3>2, <4>1, <4>2 DEF Accumulated
    <3> QED
      BY <3>1, <3>2
  <2>5. Finished(g) => Whole(table[g], g)'
    <3> HAVE Finished(g)
    <3>1. CASE g \in Mean
      <4>1. table'[g] = Summed(g) /\ Cardinality(Summed(g)) >= Window
        BY <2>1, <3>1 DEF Written, Finished
      <4>2. Cardinality(Summed(g)) = Window
        BY <1>5, <1>7, <1>8, <4>1 DEF IInv, FieldInv, Accumulated
      <4> QED
        BY <2>1, <2>3, <3>1, <4>1, <4>2 DEF Whole, Passed
    <3>2. CASE g \notin Mean
      <4>1. table'[g] = {s} /\ Cardinality({s}) = 1
        BY <2>1, <3>2, FS_Singleton DEF Written, s
      <4> QED
        BY <1>6, <2>1, <3>2, <4>1 DEF Whole, Passed
    <3> QED
      BY <3>1, <3>2
  <2>6. Prepared(g)'
    BY <1>2, <1>3, <2>1, <2>5 DEF Prepared
  <2> QED
    BY <2>2, <2>4, <2>6 DEF FieldInv
<1>14. ASSUME NEW f \in Fields, f # g PROVE FieldInv(f)'
  <2>1. /\ ring'[f] = ring[f] /\ used'[f] = used[f] /\ produced'[f] = produced[f]
        /\ acc'[f] = acc[f] /\ table'[f] = table[f] /\ filled'[f] = filled[f] /\ pc'[f] = pc[f]
    BY <1>2, <1>3, <1>14 DEF IInv, Types, FullTables
  <2>2. Ordered(f)' /\ Accumulated(f)'
    BY <2>1 DEF IInv, FieldInv, Ordered, Accumulated, Passed
  <2>3. filled[f] => Whole(table[f], f)'
    BY <1>2, <2>1 DEF IInv, FieldInv, Prepared, Whole, Passed
  <2>4. Prepared(f)'
    BY <1>2, <1>3, <2>1, <2>3 DEF IInv, FieldInv, Prepared
  <2> QED
    BY <2>2, <2>4 DEF FieldInv
<1> QED
  BY <1>11, <1>12, <1>13, <1>14 DEF IInv

-----------------------------------------------------------------------------
LEMMA IInvStep == IInv /\ [Next]_vars => IInv'
<1> SUFFICES ASSUME IInv, [Next]_vars PROVE IInv'
  OBVIOUS
<1>1. CASE Next
  <2>1. ASSUME NEW f \in Fields, Push(f) PROVE IInv'
    BY <2>1, PushStep
  <2>2. ASSUME NEW f \in Fields, FieldStep(f) PROVE IInv'
    BY <2>2, WriteableStep, FillStep DEF FieldStep
  <2>3. CASE SenderStep \/ SendFails \/ HostEnds
    BY <2>3, ControlStep, TakeStep, SentStep DEF SenderStep
  <2> QED
    BY <1>1, <2>1, <2>2, <2>3 DEF Next
<1>2. CASE UNCHANGED vars
  <2>1. UNCHANGED <<produced, ring, pc, acc, filled, table, packet, sender, hosted, used>>
    BY <1>2 DEF vars, stores, history
  <2>2. Types' /\ Handover'
    BY <2>1 DEF IInv, Types, Handover, AllSet
  <2>3. ASSUME NEW f \in Fields PROVE FieldInv(f)'
    BY <2>1 DEF IInv, FieldInv, Ordered, Accumulated, Prepared, Whole, Passed
  <2> QED
    BY <2>2, <2>3 DEF IInv
<1> QED
  BY <1>1, <1>2

LEMMA Invariance == Spec => []IInv
BY InitIInv, IInvStep, PTL DEF Spec

(* "missing inner table" is never reached: for every number of fields, window
   and ring, no field task writes (with_buf) and the sender takes (take) no table
   that is away. *)
THEOREM TablePresent == Spec => []NoMissingTable
<1>1. IInv => NoMissingTable
  BY DEF IInv, Handover, FieldInv, Prepared, NoMissingTable
<1> QED
  BY <1>1, Invariance, PTL

(* Every table a vtable stream sends is made of new samples only, as many as the
   plans of its fields ask for: for every number of fields, every window and
   every ring, while writers push, rings overflow, the client goes and the
   executor ends. *)
THEOREM FreshTables == Spec => []FreshTable
<1>1. IInv => FreshTable
  BY DEF IInv, FieldInv, Prepared, Whole, Passed, FreshTable
<1> QED
  BY <1>1, Invariance, PTL
-----------------------------------------------------------------------------
(* Fixed-rate streams. *)

StateFields == {"playing", "scrubbed", "tick", "frequency"}
Shape == DOMAIN state = States /\ \A i \in States : DOMAIN state[i] = StateFields

(* What a step of the playback may do to the position of state i. *)
TickMoves(i) ==
    \/ i = streams /\ set # <<>> /\ Head(set) = "tick" /\ state'[i].tick = The(req.timestamp)
    \/ /\ state'[i].tick = state[i].tick + 1
       /\ \E s \in Tasks : of[s] = i /\ Advances(s) /\ seen[s] = state[i].tick

(* A store to one field of one state leaves the others, and their positions. *)
Stored(k, f, v) == state' = [state EXCEPT ![k] = [state[k] EXCEPT ![f] = v]]

LEMMA FieldStored ==
    ASSUME Shape, NEW k, NEW f \in StateFields, NEW v, Stored(k, f, v)
    PROVE  /\ Shape'
           /\ \A i \in States : state'[i].tick # state[i].tick =>
                i = k /\ f = "tick" /\ state'[i].tick = v
<1>1. /\ DOMAIN state' = States
      /\ \A i \in States : state'[i] = IF i = k THEN [state[k] EXCEPT ![f] = v] ELSE state[i]
  BY DEF Shape, Stored
<1>2. \A i \in States : /\ DOMAIN state'[i] = StateFields
                        /\ i # k => state'[i] = state[i]
                        /\ i = k => state'[i] = [state[i] EXCEPT ![f] = v]
  BY <1>1 DEF Shape
<1>3. ASSUME NEW i \in States, state'[i].tick # state[i].tick
      PROVE  i = k /\ f = "tick" /\ state'[i].tick = v
  <2>1. i = k /\ state'[i] = [state[i] EXCEPT ![f] = v]
    BY <1>2, <1>3
  <2>2. "tick" \in DOMAIN state[i] /\ f \in DOMAIN state[i]
    BY DEF Shape, StateFields
  <2>3. f # "tick" => state'[i]["tick"] = state[i]["tick"]
    BY <2>1, <2>2
  <2>4. state'[i][f] = v
    BY <2>1, <2>2
  <2> QED
    BY <1>3, <2>1, <2>3, <2>4
<1> QED
  BY <1>1, <1>2, <1>3 DEF Shape

LEMMA StatesStep ==
    ASSUME Shape, [PlaybackNext]_playbackVars
    PROVE  /\ Shape'
           /\ \A i \in States : state'[i].tick # state[i].tick => TickMoves(i)
<1>1. CASE UNCHANGED state
  BY <1>1 DEF Shape
<1>2. ASSUME NEW s \in Tasks, Check(s)
      PROVE  /\ Shape'
             /\ \A i \in States : state'[i].tick = state[i].tick
  <2> DEFINE v == state[of[s]].scrubbed /\ state[of[s]].playing
  <2>1. Stored(of[s], "scrubbed", v)
    BY <1>2 DEF Check, Stored
  <2> HIDE DEF v
  <2> QED
    BY <2>1, FieldStored DEF StateFields
<1>3. ASSUME NEW s \in Tasks, TryIncrement(s)
      PROVE  /\ Shape'
             /\ \A i \in States : state'[i].tick # state[i].tick => TickMoves(i)
  <2> DEFINE now == state[of[s]].tick
             v == IF now = seen[s] /\ now < MaxTick THEN now + 1 ELSE now
  <2>1. Stored(of[s], "tick", v) /\ Advances(s)
    BY <1>3 DEF TryIncrement, Stored
  <2>2. v # now => v = now + 1 /\ seen[s] = now
    OBVIOUS
  <2> HIDE DEF v
  <2>3. Shape' /\ \A i \in States : state'[i].tick # state[i].tick => i = of[s] /\ state'[i].tick = v
    BY <2>1, FieldStored DEF StateFields
  <2>4. ASSUME NEW i \in States, state'[i].tick # state[i].tick PROVE TickMoves(i)
    <3>1. i = of[s] /\ state'[i].tick = v /\ state[i].tick = now
      BY <2>3, <2>4
    <3>2. v = state[i].tick + 1 /\ seen[s] = state[i].tick
      BY <2>2, <2>4, <3>1
    <3> QED
      BY <2>1, <3>1, <3>2 DEF TickMoves
  <2> QED
    BY <2>3, <2>4
<1>4. ASSUME NEW f \in {"playing", "scrubbed", "frequency"}, NEW v, Stored(streams, f, v)
      PROVE  /\ Shape'
             /\ \A i \in States : state'[i].tick = state[i].tick
  BY <1>4, FieldStored DEF StateFields
<1>5. CASE SetPlaying
  <2>1. Stored(streams, "playing", The(req.playing))
    BY <1>5 DEF SetPlaying, Stored
  <2> QED
    BY <1>4, <2>1
<1>6. CASE SetScrubbed
  <2>1. Stored(streams, "scrubbed", TRUE)
    BY <1>6 DEF SetScrubbed, Stored
  <2> QED
    BY <1>4, <2>1
<1>7. CASE SetFrequency
  <2>1. Stored(streams, "frequency", The(req.frequency))
    BY <1>7 DEF SetFrequency, Stored
  <2> QED
    BY <1>4, <2>1
<1>8. CASE SetTick
  <2> DEFINE v == The(req.timestamp)
  <2>1. Stored(streams, "tick", v)
    BY <1>8 DEF SetTick, Stored
  <2> HIDE DEF v
  <2>2. Shape' /\ \A i \in States : state'[i].tick # state[i].tick => i = streams /\ state'[i].tick = v
    BY <2>1, FieldStored DEF StateFields
  <2>3. set # <<>> /\ Head(set) = "tick"
    BY <1>8 DEF SetTick, At
  <2> QED
    BY <2>2, <2>3 DEF TickMoves, v
<1>9. ASSUME NEW s \in Tasks, Start(s) \/ Step(s) \/ DataArrives(s) \/ FallsQuiet(s)
      PROVE  Check(s) \/ TryIncrement(s) \/ UNCHANGED state
  BY <1>9 DEF Start, Step, DataArrives, FallsQuiet, ReadTable, ReadMessage, ReadStage, WaitWriteable, Look,
     SleepTime
<1>10. SetStreamState \/ WakeScrubbed \/ UNCHANGED playbackVars => UNCHANGED state
  BY DEF SetStreamState, WakeScrubbed, playbackVars
<1> QED
  BY <1>1, <1>2, <1>3, <1>5, <1>6, <1>7, <1>8, <1>9, <1>10 DEF PlaybackNext, Handle

(* A scrub stands, for any number of tasks and connections: set_timestamp is
   the only thing that moves a position elsewhere than one step up, and the
   compare_exchange of try_increment_tick takes a step only from where its task
   has seen the position. *)
THEOREM ScrubKept == PlaybackSpec => ScrubStands
<1>1. PlaybackInit => Shape
  <2> SUFFICES ASSUME PlaybackInit PROVE Shape
    OBVIOUS
  <2> DEFINE r == [playing |-> TRUE, scrubbed |-> FALSE, tick |-> 0, frequency |-> 1]
  <2>1. state = [i \in States |-> r] /\ DOMAIN r = StateFields
    BY DEF PlaybackInit, StateFields
  <2> HIDE DEF r
  <2> QED
    BY <2>1 DEF Shape
<1>2. Shape /\ [PlaybackNext]_playbackVars => Shape'
  BY StatesStep
<1>3. Shape /\ [PlaybackNext]_playbackVars =>
        [\A i \in States : state'[i].tick # state[i].tick =>
          \/ i = streams /\ set # <<>> /\ Head(set) = "tick" /\ state'[i].tick = The(req.timestamp)
          \/ /\ state'[i].tick = state[i].tick + 1
             /\ \E s \in Tasks : of[s] = i /\ Advances(s) /\ seen[s] = state[i].tick]_playbackVars
  BY StatesStep DEF TickMoves
<1> QED
  BY <1>1, <1>2, <1>3, PTL DEF PlaybackSpec, ScrubStands

-----------------------------------------------------------------------------
(* The states that tasks and requests work on are states that were made. *)
StatesHeld ==
    /\ made <= Cardinality(Tables) + 1
    /\ \A s \in Tasks : task[s] \notin {"none", "dead"} => of[s] \in 1 .. made
    /\ set # <<>> => streams \in 1 .. made

(* One state for every table stream that was started, and one more at most,
   since the others make one only while none is registered. *)
Registered ==
    /\ made \in Nat /\ streams \in 0 .. made /\ (streams = 0 => made = 0)
    /\ DOMAIN of = Tasks /\ DOMAIN task = Tasks
    /\ \A s \in Tasks : of[s] \in 0 .. made
    /\ made <= Cardinality({t \in Tables : of[t] # 0}) + 1
    /\ \A s \in Tasks : of[s] = 0 => task[s] \in {"none", "dead"}
    /\ \A s \in Tasks : task[s] = "none" => of[s] = 0
    /\ set # <<>> => streams # 0

LEMMA StartRegisters ==
    ASSUME Registered, NEW s \in Tasks, Start(s)
    PROVE  Registered'
<1>1. /\ task[s] = "none" /\ set = <<>> /\ set' = set
      /\ made' = IF MakesState(s) THEN made + 1 ELSE made
      /\ streams' = IF MakesState(s) THEN made' ELSE streams
      /\ of' = [of EXCEPT ![s] = streams']
      /\ task' = [task EXCEPT ![s] = IF s \in Stages THEN "sleep_time" ELSE "check"]
  BY DEF Start, handler
<1>2. /\ made \in Nat /\ streams \in 0 .. made /\ (streams = 0 => made = 0)
      /\ DOMAIN of = Tasks /\ DOMAIN task = Tasks /\ of[s] = 0
      /\ \A t \in Tasks : of[t] \in 0 .. made
  BY <1>1 DEF Registered
<1>3. /\ made' \in Nat /\ streams' \in 1 .. made' /\ made <= made'
      /\ made' # made => made' = made + 1 /\ (s \in Tables \/ made = 0)
  BY <1>1, <1>2 DEF MakesState
<1>4. /\ DOMAIN of' = Tasks /\ of'[s] = streams'
      /\ \A t \in Tasks : t # s => of'[t] = of[t]
  BY <1>1, <1>2
<1>5. /\ DOMAIN task' = Tasks /\ task'[s] # "none"
      /\ \A t \in Tasks : t # s => task'[t] = task[t]
  BY <1>1, <1>2
<1>6. \A t \in Tasks : of'[t] \in 0 .. made'
  BY <1>2, <1>3, <1>4
<1> DEFINE A == {t \in Tables : of[t] # 0}
           B == {t \in Tables : of'[t] # 0}
<1>7. A \in SUBSET Tables /\ B \in SUBSET Tables /\ Tables \subseteq Tasks
  BY DEF Tasks
<1>8. IsFiniteSet(A) /\ IsFiniteSet(B)
  <2>1. IsFiniteSet(Tasks)
    BY PlaybackAssumption
  <2>2. A \in SUBSET Tasks /\ B \in SUBSET Tasks
    BY <1>7
  <2> HIDE DEF A, B
  <2> QED
    BY <2>1, <2>2, FS_Subset
<1>9. s \notin A /\ B = IF s \in Tables THEN A \cup {s} ELSE A
  <2>1. streams' # 0
    BY <1>3
  <2> QED
    BY <1>2, <1>4, <1>7, <2>1
<1>10. made <= Cardinality(A) + 1
  BY DEF Registered
<1> HIDE DEF A, B
<1>11. Cardinality(A) \in Nat /\ Cardinality(B) = IF s \in Tables THEN Cardinality(A) + 1 ELSE Cardinality(A)
  BY <1>8, <1>9, FS_CardinalityType, FS_AddElement
<1>12. made' <= Cardinality(B) + 1
  BY <1>2, <1>3, <1>10, <1>11
<1>13. made' <= Cardinality({t \in Tables : of'[t] # 0}) + 1
  BY <1>12 DEF B
<1>14. \A t \in Tasks : of'[t] = 0 => task'[t] \in {"none", "dead"}
  BY <1>3, <1>4, <1>5 DEF Registered
<1>15. \A t \in Tasks : task'[t] = "none" => of'[t] = 0
  BY <1>4, <1>5 DEF Registered
<1>16. streams' \in 0 .. made' /\ streams' # 0
  BY <1>3
<1> QED
  BY <1>1, <1>3, <1>4, <1>5, <1>6, <1>13, <1>14, <1>15, <1>16 DEF Registered

LEMMA RegisteredStep ==
    ASSUME Registered, [PlaybackNext]_playbackVars
    PROVE  Registered'
<1>1. ASSUME UNCHANGED <<made, streams, of>>, DOMAIN task' = Tasks,
             \A s \in Tasks : task[s] \in {"none", "dead"} => task'[s] \in {task[s], "dead"},
             \A s \in Tasks : task'[s] = "none" => task[s] = "none",
             set' # <<>> => streams # 0
      PROVE  Registered'
  BY <1>1 DEF Registered
<1>2. ASSUME NEW s \in Tasks, Step(s) \/ DataArrives(s) \/ FallsQuiet(s) PROVE Registered'
  <2>1. DOMAIN task = Tasks /\ (set # <<>> => streams # 0)
    BY DEF Registered
  <2>2. UNCHANGED <<made, streams, of, set>>
    BY <1>2 DEF Step, DataArrives, FallsQuiet, Check, ReadTable, ReadMessage, ReadStage, WaitWriteable, Look, SleepTime,
                TryIncrement, handler
  <2>3. \/ task' = [t \in Tasks |-> IF Conn[t] = Conn[s] THEN "dead" ELSE task[t]]
        \/ task' = task
        \/ /\ task[s] \notin {"none", "dead"}
           /\ \E w \in {"read", "asleep", "sleep_time", "check", "advance", "sleep", "written", "over"} :
                task' = [task EXCEPT ![s] = w]
    <3>1. CASE Check(s)
      <4>1. task[s] \notin {"none", "dead"}
        BY <3>1 DEF Check, Checks
      <4> QED
        BY <3>1, <4>1 DEF Check
    <3>2. CASE ReadTable(s) \/ ReadMessage(s) \/ ReadStage(s)
      <4>1. task[s] = "read"
        BY <3>2 DEF ReadTable, ReadMessage, ReadStage, Look
      <4>2. \E w \in {"sleep_time", "check", "advance", "written", "over"} : task' = [task EXCEPT ![s] = w]
        BY <3>2 DEF ReadTable, ReadMessage, ReadStage, TurnEnds, Sends, Look
      <4> QED
        BY <4>1, <4>2
    <3>3. CASE SleepTime(s)
      BY <3>3 DEF SleepTime
    <3>4. CASE TryIncrement(s)
      <4>1. task[s] \in {"advance", "sleep"}
        BY <3>4 DEF TryIncrement, Advances
      <4> QED
        BY <3>4, <4>1 DEF TryIncrement, TurnEnds
    <3>5. CASE DataArrives(s) \/ FallsQuiet(s)
      BY <3>5 DEF DataArrives, FallsQuiet
    <3>6. CASE WaitWriteable(s)
      BY <3>6 DEF WaitWriteable
    <3> QED
      BY <1>2, <3>1, <3>2, <3>3, <3>4, <3>5, <3>6 DEF Step
  <2>4. /\ DOMAIN task' = Tasks
        /\ \A t \in Tasks : task[t] \in {"none", "dead"} => task'[t] \in {task[t], "dead"}
        /\ \A t \in Tasks : task'[t] = "none" => task[t] = "none"
    <3>1. CASE task' = [t \in Tasks |-> IF Conn[t] = Conn[s] THEN "dead" ELSE task[t]]
      BY <3>1
    <3>2. CASE task' = task
      BY <2>1, <3>2
    <3>3. ASSUME task[s] \notin {"none", "dead"},
                 NEW w \in {"read", "asleep", "sleep_time", "check", "advance", "sleep", "written", "over"},
                 task' = [task EXCEPT ![s] = w]
          PROVE  /\ DOMAIN task' = Tasks
                 /\ \A t \in Tasks : task[t] \in {"none", "dead"} => task'[t] \in {task[t], "dead"}
                 /\ \A t \in Tasks : task'[t] = "none" => task[t] = "none"
      BY <2>1, <3>3
    <3> QED
      BY <2>3, <3>1, <3>2, <3>3
  <2> QED
    BY <1>1, <2>1, <2>2, <2>4
<1>3. CASE SetStreamState \/ UNCHANGED playbackVars
  <2>1. /\ UNCHANGED <<made, streams, of, task>>
        /\ set' # <<>> => streams # 0
    BY <1>3 DEF SetStreamState, playbackVars, handler, Registered
  <2> QED
    BY <1>1, <2>1 DEF Registered
<1>4. CASE Handle
  <2>1. UNCHANGED <<made, streams, of>> /\ set # <<>>
    BY <1>4 DEF Handle, SetPlaying, SetScrubbed, SetTick, WakeScrubbed, SetFrequency, At
  <2>2. task' = task \/ task' = WakeAll(streams)
    BY <1>4 DEF Handle, SetPlaying, SetScrubbed, SetTick, WakeScrubbed, SetFrequency
  <2>3. streams # 0 /\ DOMAIN task = Tasks
    BY <2>1 DEF Registered
  <2>4. /\ DOMAIN task' = Tasks
        /\ \A t \in Tasks : task[t] \in {"none", "dead"} => task'[t] \in {task[t], "dead"}
        /\ \A t \in Tasks : task'[t] = "none" => task[t] = "none"
    BY <2>2, <2>3 DEF WakeAll
  <2> QED
    BY <1>1, <2>1, <2>3, <2>4
<1> QED
  BY <1>2, <1>3, <1>4, StartRegisters DEF PlaybackNext

(* Every task that runs holds a state that was made, and a request stores to
   one: handle_stream makes a state for each stream, and
   get_or_insert_fixed_rate_state makes one only when none is registered, so
   there is never more than one beyond those of the table streams. *)
THEOREM StatesMade == PlaybackSpec => []StatesHeld
<1>1. PlaybackInit => Registered
  <2> SUFFICES ASSUME PlaybackInit PROVE Registered
    OBVIOUS
  <2>1. /\ made = 0 /\ streams = 0 /\ set = <<>>
        /\ of = [s \in Tasks |-> 0] /\ task = [s \in Tasks |-> "none"]
    BY DEF PlaybackInit
  <2>2. {t \in Tables : of[t] # 0} = {}
    BY <2>1 DEF Tasks
  <2>3. Cardinality({t \in Tables : of[t] # 0}) = 0
    BY <2>2, FS_EmptySet
  <2>4. made <= Cardinality({t \in Tables : of[t] # 0}) + 1
    BY <2>1, <2>3
  <2> QED
    BY <2>1, <2>4 DEF Registered
<1>2. Registered /\ [PlaybackNext]_playbackVars => Registered'
  BY RegisteredStep
<1>3. Registered => StatesHeld
  <2> SUFFICES ASSUME Registered PROVE StatesHeld
    OBVIOUS
  <2> DEFINE A == {t \in Tables : of[t] # 0}
  <2>1. IsFiniteSet(Tables) /\ A \in SUBSET Tables
    <3>1. Tables \in SUBSET Tasks /\ IsFiniteSet(Tasks)
      BY PlaybackAssumption DEF Tasks
    <3> QED
      BY <3>1, FS_Subset
  <2>2. Cardinality(A) <= Cardinality(Tables) /\ Cardinality(A) \in Nat /\ Cardinality(Tables) \in Nat
    <3> HIDE DEF A
    <3> QED
      BY <2>1, FS_Subset, FS_CardinalityType
  <2>3. made <= Cardinality(A) + 1 /\ made \in Nat
    BY DEF Registered
  <2> HIDE DEF A
  <2>4. made <= Cardinality(Tables) + 1
    BY <2>2, <2>3
  <2>5. \A s \in Tasks : task[s] \notin {"none", "dead"} => of[s] \in 1 .. made
    BY <2>3 DEF Registered
  <2>6. set # <<>> => streams \in 1 .. made
    BY <2>3 DEF Registered
  <2> QED
    BY <2>4, <2>5, <2>6 DEF StatesHeld
<1> QED
  BY <1>1, <1>2, <1>3, PTL DEF PlaybackSpec
==============================================================================

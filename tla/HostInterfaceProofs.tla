-------------------------- MODULE HostInterfaceProofs --------------------------
(***************************************************************************)
(* Two contracts of a kernel with its host.                                *)
(*                                                                         *)
(* For any work-items, call sites and sizes: as long as the words asked    *)
(* for stay below the modulus of the counter (NoWrap) and every argument   *)
(* fills whole words (Aligned), printf calls do not disturb each other,    *)
(* and the host finds in the buffer what was printed.                      *)
(*                                                                         *)
(* For any builtins a module uses, any options and any range: every        *)
(* work-item builtin that is used finds its inputs, and what it computes   *)
(* in any region of the range is what OpenCL C says of the whole range.    *)
(***************************************************************************)
EXTENDS PrintfBuffer, WorkItems, NaturalFacts, TLAPS

-----------------------------------------------------------------------------
(* The layout of a record. *)

LEMMA SiteFacts ==
    ASSUME NEW s \in Sites
    PROVE  /\ NArgs(s) \in Nat
           /\ \A i \in 0..NArgs(s) : EndOf(s, i) \in Nat
           /\ \A i \in 1..NArgs(s) : EndOf(s, i) >= EndOf(s, i - 1) + 4
           /\ \A i, j \in 0..NArgs(s) : i <= j => EndOf(s, i) <= EndOf(s, j)
           /\ AllocSizeInts(s) \in Nat
           /\ AllocSizeInts(s) >= 1
<1>1. NArgs(s) \in Nat /\ ArgEnd[s] \in Seq(Nat)
  BY ArgEndAssumption DEF NArgs
<1>2. ASSUME NEW i \in 1..NArgs(s) PROVE ArgEnd[s][i] \in Nat
  BY <1>1 DEF NArgs
<1>3. \A i \in 0..NArgs(s) : EndOf(s, i) \in Nat
  BY <1>1, <1>2 DEF EndOf
<1>4. \A i \in 1..NArgs(s) : EndOf(s, i) >= EndOf(s, i - 1) + 4
  <2> SUFFICES ASSUME NEW i \in 1..NArgs(s)
               PROVE  EndOf(s, i) >= EndOf(s, i - 1) + 4
    OBVIOUS
  <2>1. CASE i = 1
    BY <2>1, <1>1, ArgEndAssumption DEF EndOf
  <2>2. CASE i # 1
    <3>1. i - 1 \in 1..NArgs(s) /\ i - 1 < i
      BY <2>2, <1>1
    <3>. QED  BY <3>1, ArgEndAssumption
  <2>. QED  BY <2>1, <2>2
<1>5. \A i, j \in 0..NArgs(s) : i <= j => EndOf(s, i) <= EndOf(s, j)
  <2> SUFFICES ASSUME NEW i \in 0..NArgs(s), NEW j \in 0..NArgs(s), i <= j
               PROVE  EndOf(s, i) <= EndOf(s, j)
    OBVIOUS
  <2>0. EndOf(s, i) \in Nat /\ EndOf(s, j) \in Nat
    BY <1>3
  <2>1. CASE i = 0
    BY <2>1, <2>0 DEF EndOf
  <2>2. CASE i = j
    BY <2>2, <2>0
  <2>3. CASE i # 0 /\ i # j
    <3>1. i \in 1..NArgs(s) /\ j \in 1..NArgs(s) /\ i < j
      BY <2>3, <1>1
    <3>. QED  BY <3>1, <2>0, ArgEndAssumption
  <2>. QED  BY <2>1, <2>2, <2>3
<1>6. AllocSizeInts(s) \in Nat /\ AllocSizeInts(s) >= 1
  <2>1. EndOf(s, NArgs(s)) \in Nat
    BY <1>1, <1>3
  <2>. QED  BY <2>1 DEF AllocSizeInts
<1>. QED  BY <1>1, <1>3, <1>4, <1>5, <1>6

\* Whole words only: the record ends where its last argument ends.
LEMMA AlignedSites ==
    ASSUME Aligned, NEW s \in Sites
    PROVE  /\ 4 * AllocSizeInts(s) = EndOf(s, NArgs(s)) + 4
           /\ \A i \in 0..NArgs(s) : EndOf(s, i) % 4 = 0
           /\ \A i \in 1..NArgs(s) : 4 * (ArgSize(s, i) \div 4) = ArgSize(s, i)
<1>1. \A i \in 0..NArgs(s) : EndOf(s, i) \in Nat /\ EndOf(s, i) % 4 = 0
  <2>1. \A i \in 0..NArgs(s) : EndOf(s, i) \in Nat
    BY SiteFacts
  <2>2. EndOf(s, 0) = 0
    BY DEF EndOf
  <2>3. ASSUME NEW i \in 0..NArgs(s), i # 0
        PROVE  i \in 1..NArgs(s)
    BY <2>3, SiteFacts
  <2>. QED  BY <2>1, <2>2, <2>3 DEF Aligned
<1>2. NArgs(s) \in 0..NArgs(s)
  BY SiteFacts
<1>3. 4 * AllocSizeInts(s) = EndOf(s, NArgs(s)) + 4
  <2>1. EndOf(s, NArgs(s)) \in Nat /\ EndOf(s, NArgs(s)) % 4 = 0
    BY <1>1, <1>2
  <2>. QED  BY <2>1 DEF AllocSizeInts
<1>4. ASSUME NEW i \in 1..NArgs(s)
      PROVE  4 * (ArgSize(s, i) \div 4) = ArgSize(s, i)
  <2>1. i \in 0..NArgs(s) /\ i - 1 \in 0..NArgs(s)
    BY SiteFacts
  <2>2. /\ EndOf(s, i) \in Nat /\ EndOf(s, i) % 4 = 0
        /\ EndOf(s, i - 1) \in Nat /\ EndOf(s, i - 1) % 4 = 0
    BY <1>1, <2>1
  <2>. QED  BY <2>2 DEF ArgSize
<1>. QED  BY <1>1, <1>3, <1>4

LEMMA CallFacts ==
    ASSUME NEW c \in Calls
    PROVE  /\ c.item \in WorkItems /\ c.site \in Sites
           /\ c.start \in Nat \ {0}
           /\ NArgs(c.site) \in Nat
           /\ AllocSizeInts(c.site) \in Nat
           /\ EndOfRecord(c) \in Nat
           /\ c.start < EndOfRecord(c)
<1>1. /\ c.item \in WorkItems /\ c.site \in Sites
      /\ c.start \in Nat \ {0}
  BY ConstantsAssumption DEF Calls
<1>2. /\ NArgs(c.site) \in Nat
      /\ AllocSizeInts(c.site) \in Nat
      /\ AllocSizeInts(c.site) >= 1
  BY <1>1, SiteFacts
<1>. QED  BY <1>1, <1>2 DEF EndOfRecord

LEMMA FieldsInRecord ==
    ASSUME Aligned, NEW c \in Calls, NEW i \in 0..NArgs(c.site),
           NEW a \in FieldBytes(c, i)
    PROVE  a \in Nat /\ 4 * c.start <= a /\ a < 4 * EndOfRecord(c)
<1> DEFINE s == c.site
<1>1. s \in Sites /\ c.start \in Nat
  BY ConstantsAssumption DEF Calls
<1>2. NArgs(s) \in Nat /\ AllocSizeInts(s) \in Nat /\ AllocSizeInts(s) >= 1
  BY <1>1, SiteFacts
<1>3. CASE i = 0
  BY <1>1, <1>2, <1>3 DEF FieldBytes, Bytes, EndOfRecord
<1>4. CASE i # 0
  <2>1. i - 1 \in 0..NArgs(s) /\ NArgs(s) \in 0..NArgs(s) /\ i <= NArgs(s)
    BY <1>2, <1>4
  <2>2. /\ EndOf(s, i) \in Nat /\ EndOf(s, i - 1) \in Nat
        /\ EndOf(s, NArgs(s)) \in Nat
        /\ EndOf(s, i) <= EndOf(s, NArgs(s))
    BY <1>1, <2>1, SiteFacts
  <2>3. 4 * AllocSizeInts(s) = EndOf(s, NArgs(s)) + 4
    BY <1>1, AlignedSites
  <2>. QED  BY <1>1, <1>2, <1>4, <2>2, <2>3 DEF FieldBytes, EndOfRecord
<1>. QED  BY <1>3, <1>4

LEMMA FieldsDisjoint ==
    ASSUME NEW c \in Calls,
           NEW i \in 0..NArgs(c.site), NEW j \in 0..NArgs(c.site), i # j
    PROVE  FieldBytes(c, i) \cap FieldBytes(c, j) = {}
<1> DEFINE s == c.site
<1>1. s \in Sites /\ c.start \in Nat
  BY ConstantsAssumption DEF Calls
<1>2. NArgs(s) \in Nat
  BY <1>1, SiteFacts
<1>3. ASSUME NEW k \in 0..NArgs(s), NEW l \in 0..NArgs(s), k < l
      PROVE  FieldBytes(c, k) \cap FieldBytes(c, l) = {}
  <2>1. l # 0 /\ l - 1 \in 0..NArgs(s) /\ k <= l - 1
    BY <1>2, <1>3
  <2>2. /\ EndOf(s, k) \in Nat /\ EndOf(s, l - 1) \in Nat
        /\ EndOf(s, l) \in Nat /\ EndOf(s, k) <= EndOf(s, l - 1)
    BY <1>1, <2>1, SiteFacts
  <2>3. CASE k = 0
    BY <1>1, <2>1, <2>2, <2>3 DEF FieldBytes, Bytes
  <2>4. CASE k # 0
    <3>1. k - 1 \in 0..NArgs(s)
      BY <1>2, <2>4
    <3>2. EndOf(s, k - 1) \in Nat
      BY <1>1, <3>1, SiteFacts
    <3>. QED  BY <1>1, <2>1, <2>2, <2>4, <3>2 DEF FieldBytes
  <2>. QED  BY <2>3, <2>4
<1>4. i < j \/ j < i
  BY <1>2
<1>. QED  BY <1>3, <1>4

-----------------------------------------------------------------------------
(* The stores of a record. *)

\* Where a call may write, the buffer is.
LEMMA RecordInBuffer ==
    ASSUME NoWrap, Aligned, IInv,
           NEW c \in calls, NEW i \in 0..NArgs(c.site)
    PROVE  /\ c \in Calls
           /\ FieldBytes(c, i) \subseteq Addresses
<1>1. c \in Calls
  BY DEF IInv, TypeOK
<1>2. EndOfRecord(c) <= reserved + 1 /\ reserved <= MaxReserved
  BY DEF IInv, CounterCorrect
<1>3. c.start \in Nat /\ EndOfRecord(c) \in Nat
  BY <1>1, CallFacts
<1>4. EndOfRecord(c) <= WordModulus
  BY <1>2, <1>3, ConstantsAssumption DEF NoWrap, IInv, TypeOK
<1>. QED
  BY <1>1, <1>3, <1>4, FieldsInRecord, ConstantsAssumption DEF Addresses

LEMMA StoreField ==
    ASSUME NoWrap, Aligned, IInv,
           NEW c \in calls, NEW i \in 0..NArgs(c.site),
           NEW word \in Nat \ {0}, NEW size,
           Bytes(word, size) = FieldBytes(c, i),
           Store(word, size, [call |-> c, field |-> i])
    PROVE  /\ counter' = counter
           /\ mem' \in [Addresses -> Values \cup {NoValue}]
           /\ FieldIntact(c, i)'
           /\ \A d \in calls : \A j \in 0..NArgs(d.site) :
                 FieldIntact(d, j) => FieldIntact(d, j)'
           /\ \A a \in Addresses :
                 \/ mem'[a] = mem[a]
                 \/ mem'[a] = [call |-> c, field |-> i] /\ a \in FieldBytes(c, i)
<1> DEFINE v == [call |-> c, field |-> i]
<1>1. c \in Calls /\ FieldBytes(c, i) \subseteq Addresses
  BY RecordInBuffer
<1>2. mem' = [a \in Addresses |-> IF a \in FieldBytes(c, i) THEN v ELSE mem[a]]
  BY DEF Store
<1>3. counter' = counter
  BY DEF Store
<1>4. i \in Nat /\ v \in Values
  <2>1. NArgs(c.site) \in Nat
    BY <1>1, CallFacts
  <2>. QED  BY <1>1, <2>1 DEF Values
<1>5. mem' \in [Addresses -> Values \cup {NoValue}]
  BY <1>2, <1>4 DEF IInv, TypeOK
<1>6. FieldIntact(c, i)'
  BY <1>1, <1>2 DEF FieldIntact
<1>7. ASSUME NEW d \in calls, NEW j \in 0..NArgs(d.site), FieldIntact(d, j)
      PROVE  FieldIntact(d, j)'
  <2>1. d \in Calls /\ FieldBytes(d, j) \subseteq Addresses
    BY RecordInBuffer
  <2>2. CASE d = c /\ j = i
    BY <1>6, <2>2
  <2>3. CASE ~(d = c /\ j = i)
    <3>1. FieldBytes(d, j) \cap FieldBytes(c, i) = {}
      <4>1. CASE d = c
        BY <1>1, <2>3, <4>1, FieldsDisjoint
      <4>2. CASE d # c
        <5>1. EndOfRecord(c) <= d.start \/ EndOfRecord(d) <= c.start
          BY <4>2 DEF IInv, RecordsDisjoint
        <5>2. /\ c.start \in Nat /\ EndOfRecord(c) \in Nat
              /\ d.start \in Nat /\ EndOfRecord(d) \in Nat
          BY <1>1, <2>1, CallFacts
        <5>3. \A a \in FieldBytes(d, j) :
                 a \in Nat /\ 4 * d.start <= a /\ a < 4 * EndOfRecord(d)
          BY <2>1, FieldsInRecord
        <5>4. \A a \in FieldBytes(c, i) :
                 a \in Nat /\ 4 * c.start <= a /\ a < 4 * EndOfRecord(c)
          BY <1>1, FieldsInRecord
        <5>. QED  BY <5>1, <5>2, <5>3, <5>4
      <4>. QED  BY <4>1, <4>2
    <3>2. \A a \in FieldBytes(d, j) : mem'[a] = mem[a]
      BY <1>2, <2>1, <3>1
    <3>. QED  BY <1>7, <3>2 DEF FieldIntact
  <2>. QED  BY <2>2, <2>3
<1>8. \A a \in Addresses :
         mem'[a] = mem[a] \/ (mem'[a] = v /\ a \in FieldBytes(c, i))
  BY <1>2
<1>. QED  BY <1>3, <1>5, <1>6, <1>7, <1>8

-----------------------------------------------------------------------------
(* The invariant. *)

LEMMA InitIInv == Init => IInv
<1> SUFFICES ASSUME Init PROVE IInv
  OBVIOUS
<1>1. TypeOK
  BY ConstantsAssumption DEF Init, TypeOK, Words
<1>. QED
  BY <1>1, ConstantsAssumption
  DEF Init, IInv, CounterCorrect, RecordsDisjoint, RegistersCorrect,
      ReturnedCorrect, BytesOwned, StoredIntact

LEMMA ReserveIInv ==
    ASSUME NoWrap, Aligned, IInv, NEW w \in WorkItems, NEW s \in Sites,
           Reserve(w, s)
    PROVE  IInv'
<1> DEFINE c == [item |-> w, site |-> s, start |-> reserved + 1]
<1>1. AllocSizeInts(s) \in Nat /\ AllocSizeInts(s) >= 1 /\ NArgs(s) \in Nat
  BY SiteFacts
<1>2. /\ reserved \in Nat /\ counter = reserved
      /\ reserved + AllocSizeInts(s) <= MaxReserved
      /\ MaxReserved \in Nat /\ WordModulus \in Nat /\ BufferWords \in Nat
      /\ MaxReserved + 1 < WordModulus
  BY ConstantsAssumption DEF Reserve, IInv, TypeOK, CounterCorrect, NoWrap
<1>3. /\ c \in Calls
      /\ c.item = w /\ c.site = s /\ c.start = reserved + 1
      /\ EndOfRecord(c) = reserved + 1 + AllocSizeInts(s)
  BY <1>1, <1>2 DEF Calls, EndOfRecord
<1>4. /\ CounterAfter(counter, s) = reserved'
      /\ OffsetOf(counter) = reserved + 1
      /\ EndOffset(counter, s) = EndOfRecord(c)
      /\ ArgsOffset(counter) = reserved + 2
  BY <1>1, <1>2, <1>3 DEF Reserve, OffsetOf, EndOffset, ArgsOffset, CounterAfter
<1>5. /\ HasRoomForArgs(counter, s) <=> Fits(c)
      /\ HasRoomForID(counter) <=> reserved + 2 <= BufferWords
  BY <1>4 DEF HasRoomForArgs, HasRoomForID, Fits
<1>6. /\ counter' = reserved + AllocSizeInts(s)
      /\ reserved' = reserved + AllocSizeInts(s)
      /\ calls' = calls \cup {c}
      /\ mem' = mem
      /\ call' = [call EXCEPT ![w] = c]
      /\ offset' = [offset EXCEPT ![w] = reserved + 1]
      /\ argsOffset' = [argsOffset EXCEPT ![w] = reserved + 2]
      /\ argNo' = [argNo EXCEPT ![w] = 1]
  BY <1>4 DEF Reserve
<1> HIDE DEF c
<1>7. c \notin calls /\ \A d \in calls : EndOfRecord(d) <= c.start
  <2>1. \A d \in calls : EndOfRecord(d) <= reserved + 1
    BY DEF IInv, CounterCorrect
  <2>2. \A d \in calls : EndOfRecord(d) <= c.start
    BY <1>3, <2>1
  <2>3. ~(EndOfRecord(c) <= reserved + 1)
    BY <1>1, <1>2, <1>3
  <2>. QED  BY <2>1, <2>2, <2>3
<1>8. \A r \in {0, -1} : <<c, r>> \notin returned
  BY <1>3, <1>7 DEF IInv, ReturnedCorrect
<1>9. /\ pc' \in [WorkItems -> {"idle", "copy_args", "copy_printf_id"}]
      /\ ret' \in [WorkItems -> {0, -1}]
      /\ returned' \subseteq Calls \X {0, -1}
      /\ \A v \in WorkItems \ {w} : pc'[v] = pc[v] /\ ret'[v] = ret[v]
  BY <1>3 DEF Reserve, IInv, TypeOK, c
<1>10. \/ /\ pc'[w] \in {"copy_args", "copy_printf_id"}
          /\ pc'[w] = "copy_args" => 1 \in 1..NArgs(s)
          /\ pc'[w] = "copy_printf_id" => NArgs(s) = 0
          /\ ret'[w] = 0 /\ Fits(c) /\ returned' = returned
       \/ /\ pc'[w] = "copy_printf_id" /\ ret'[w] = -1
          /\ ~Fits(c) /\ reserved + 2 <= BufferWords /\ returned' = returned
       \/ /\ pc'[w] = "idle"
          /\ ~Fits(c) /\ returned' = returned \cup {<<c, -1>>}
  BY <1>1, <1>5 DEF Reserve, IInv, TypeOK, c
<1>11. TypeOK'
  <2>1. /\ reserved' \in Nat /\ counter' \in Words
        /\ reserved + 1 \in Words /\ reserved + 2 \in Words
    BY <1>1, <1>2, <1>6 DEF Words
  <2>2. calls' \subseteq Calls
    BY <1>3, <1>6 DEF IInv, TypeOK
  <2>. QED  BY <1>3, <1>6, <1>9, <2>1, <2>2 DEF IInv, TypeOK
<1>12. CounterCorrect'
  <2>1. counter' = reserved' /\ reserved' <= MaxReserved
    BY <1>2, <1>6
  <2>2. EndOfRecord(c) = reserved' + 1
    BY <1>1, <1>2, <1>3, <1>6
  <2>3. ASSUME NEW d \in calls PROVE EndOfRecord(d) <= reserved' + 1
    BY <1>1, <1>2, <1>3, <1>6, <1>7, CallFacts DEF IInv, TypeOK
  <2>. QED  BY <1>6, <2>1, <2>2, <2>3 DEF CounterCorrect, EndOfRecord
<1>13. RecordsDisjoint'
  BY <1>6, <1>7 DEF IInv, RecordsDisjoint
<1>14. RegistersCorrect'
  <2> SUFFICES ASSUME NEW v \in WorkItems, pc'[v] # "idle"
               PROVE  RegistersCorrect!(v)!2'
    BY DEF RegistersCorrect
  <2>1. CASE v = w
    <3>1. /\ call'[v] = c /\ offset'[v] = reserved + 1
          /\ argsOffset'[v] = reserved + 2 /\ argNo'[v] = 1
      BY <1>6, <2>1 DEF IInv, TypeOK
    <3>2. call'[v] \in calls' /\ call'[v].item = v
          /\ offset'[v] = call'[v].start
      BY <1>3, <1>6, <2>1, <3>1
    <3>3. \A r \in {0, -1} : <<call'[v], r>> \notin returned'
      BY <1>8, <1>10, <2>1, <3>1
    <3>4. IF ret'[v] = 0 THEN Fits(c)
                         ELSE ~Fits(c) /\ offset'[v] < BufferWords
      BY <1>2, <1>10, <2>1, <3>1
    <3>5. pc'[v] = "copy_args" =>
             /\ ret'[v] = 0
             /\ argNo'[v] \in 1..NArgs(s)
             /\ 4 * argsOffset'[v] =
                   4 * (offset'[v] + 1) + EndOf(s, argNo'[v] - 1)
      BY <1>1, <1>2, <1>10, <2>1, <3>1 DEF EndOf
    <3>. QED  BY <1>3, <3>1, <3>2, <3>3, <3>4, <3>5 DEF Fits, EndOfRecord
  <2>2. CASE v # w
    BY <1>6, <1>7, <1>9, <1>10, <2>2 DEF IInv, TypeOK, RegistersCorrect
  <2>. QED  BY <2>1, <2>2
<1>15. ReturnedCorrect'
  <2>1. ASSUME NEW d \in Calls
        PROVE  /\ <<d, 0>> \in returned' => <<d, 0>> \in returned
               /\ <<d, -1>> \in returned' =>
                    <<d, -1>> \in returned \/ (d = c /\ ~Fits(c))
    BY <1>10
  <2>. QED  BY <1>6, <2>1 DEF IInv, ReturnedCorrect, Fits, EndOfRecord
<1>16. BytesOwned'
  BY <1>6, <1>10 DEF IInv, BytesOwned
<1>17. StoredIntact'
  <2>1. \A d, i : FieldIntact(d, i)' <=> FieldIntact(d, i)
    BY <1>6 DEF FieldIntact
  <2>2. \A d : RecordIntact(d)' <=> RecordIntact(d)
    BY <2>1 DEF RecordIntact, ArgsIntact
  <2>3. ASSUME NEW d \in calls', <<d, 0>> \in returned'
        PROVE  RecordIntact(d)'
    BY <1>6, <1>8, <1>10, <2>2, <2>3 DEF IInv, StoredIntact
  <2>4. ASSUME NEW v \in WorkItems
        PROVE  /\ pc'[v] = "copy_args" =>
                     \A i \in 1..(argNo'[v] - 1) : FieldIntact(call[v], i)'
               /\ pc'[v] = "copy_printf_id" /\ ret'[v] = 0 =>
                     ArgsIntact(call[v])'
    <3>1. CASE v = w
      BY <1>3, <1>6, <1>10, <3>1 DEF IInv, TypeOK, ArgsIntact
    <3>2. CASE v # w
      <4>1. /\ call'[v] = call[v] /\ argNo'[v] = argNo[v]
            /\ pc'[v] = pc[v] /\ ret'[v] = ret[v]
        BY <1>6, <1>9, <3>2 DEF IInv, TypeOK
      <4>2. ArgsIntact(call[v])' <=> ArgsIntact(call[v])
        BY <1>6, <4>1 DEF ArgsIntact, FieldIntact
      <4>3. \A i : FieldIntact(call[v], i)' <=> FieldIntact(call[v], i)
        BY <1>6, <4>1 DEF FieldIntact
      <4>. QED  BY <4>1, <4>2, <4>3 DEF IInv, StoredIntact
    <3>. QED  BY <3>1, <3>2
  <2>. QED  BY <2>3, <2>4 DEF StoredIntact
<1>. QED  BY <1>11, <1>12, <1>13, <1>14, <1>15, <1>16, <1>17 DEF IInv

LEMMA StoreArgIInv ==
    ASSUME NoWrap, Aligned, IInv, NEW w \in WorkItems, StoreArg(w)
    PROVE  IInv'
<1>0. PICK c, i : c = call[w] /\ i = argNo[w]
  OBVIOUS
<1> DEFINE s == c.site
           size == ArgSize(s, i)
<1>1. /\ pc[w] = "copy_args" /\ ret[w] = 0
      /\ c \in calls /\ c \in Calls /\ c.item = w
      /\ offset[w] = c.start
      /\ \A r \in {0, -1} : <<c, r>> \notin returned
      /\ Fits(c)
      /\ i \in 1..NArgs(s)
      /\ 4 * argsOffset[w] = 4 * (c.start + 1) + EndOf(s, i - 1)
  BY <1>0 DEF StoreArg, IInv, TypeOK, RegistersCorrect
<1>2. /\ Store(argsOffset[w], size, [call |-> c, field |-> i])
      /\ calls' = calls /\ reserved' = reserved /\ returned' = returned
      /\ call' = call /\ offset' = offset /\ ret' = ret
  BY <1>0 DEF StoreArg
<1>3. \/ /\ i < NArgs(s)
         /\ argsOffset' = [argsOffset EXCEPT
                              ![w] = (@ + size \div 4) % WordModulus]
         /\ argNo' = [argNo EXCEPT ![w] = i + 1]
         /\ pc' = pc
      \/ /\ i = NArgs(s)
         /\ argsOffset' = argsOffset
         /\ argNo' = argNo
         /\ pc' = [pc EXCEPT ![w] = "copy_printf_id"]
  BY <1>0, <1>1, CallFacts DEF StoreArg
<1>4. /\ s \in Sites /\ NArgs(s) \in Nat
      /\ i \in Nat /\ i # 0 /\ i \in 0..NArgs(s)
      /\ EndOf(s, i) \in Nat /\ EndOf(s, i - 1) \in Nat
      /\ EndOf(s, i - 1) + 4 <= EndOf(s, i)
      /\ c.start \in Nat \ {0} /\ argsOffset[w] \in Nat
      /\ WordModulus \in Nat
  <2>1. s \in Sites /\ NArgs(s) \in Nat /\ c.start \in Nat \ {0}
    BY <1>1, CallFacts
  <2>2. i \in Nat /\ i # 0 /\ i \in 0..NArgs(s) /\ i - 1 \in 0..NArgs(s)
    BY <1>1, <2>1
  <2>3. argsOffset[w] \in Nat /\ WordModulus \in Nat
    BY ConstantsAssumption DEF IInv, TypeOK, Words
  <2>4. /\ EndOf(s, i) \in Nat /\ EndOf(s, i - 1) \in Nat
        /\ EndOf(s, i - 1) + 4 <= EndOf(s, i)
    BY <1>1, <2>1, <2>2, SiteFacts
  <2>. QED  BY <2>1, <2>2, <2>3, <2>4
<1> HIDE DEF s
<1>5. argsOffset[w] # 0 /\ Bytes(argsOffset[w], size) = FieldBytes(c, i)
  <2>1. size = EndOf(s, i) - EndOf(s, i - 1)
    BY DEF ArgSize
  <2>. HIDE DEF size
  <2>2. /\ 4 * argsOffset[w] = 4 * (c.start + 1) + EndOf(s, i - 1)
        /\ 4 * argsOffset[w] + size - 1 = 4 * (c.start + 1) + EndOf(s, i) - 1
    BY <1>1, <1>4, <2>1
  <2>3. Bytes(argsOffset[w], size) = FieldBytes(c, i)
    BY <1>4, <2>2 DEF Bytes, FieldBytes, s
  <2>4. argsOffset[w] # 0
    BY <1>4, <2>2
  <2>. QED  BY <2>3, <2>4
<1>6. /\ counter' = counter
      /\ mem' \in [Addresses -> Values \cup {NoValue}]
      /\ FieldIntact(c, i)'
      /\ \A d \in calls : \A j \in 0..NArgs(d.site) :
            FieldIntact(d, j) => FieldIntact(d, j)'
      /\ \A a \in Addresses :
            \/ mem'[a] = mem[a]
            \/ mem'[a] = [call |-> c, field |-> i] /\ a \in FieldBytes(c, i)
  <2>1. i \in 0..NArgs(c.site)
    BY <1>4 DEF s
  <2>2. argsOffset[w] \in Nat \ {0}
    BY <1>4, <1>5
  <2>. HIDE DEF size
  <2>. QED  BY <1>1, <1>2, <1>5, <2>1, <2>2, StoreField
<1>7. i < NArgs(s) =>
         /\ (argsOffset[w] + size \div 4) % WordModulus \in Words
         /\ 4 * ((argsOffset[w] + size \div 4) % WordModulus)
               = 4 * (c.start + 1) + EndOf(s, i)
  <2>1. 4 * (size \div 4) = size /\ 4 * AllocSizeInts(s) = EndOf(s, NArgs(s)) + 4
    BY <1>1, <1>4, AlignedSites
  <2>2. EndOf(s, i) <= EndOf(s, NArgs(s)) /\ EndOf(s, NArgs(s)) \in Nat
    <3>1. NArgs(s) \in 0..NArgs(s) /\ i <= NArgs(s)
      BY <1>4
    <3>. QED  BY <1>4, <3>1, SiteFacts
  <2>3. c.start + AllocSizeInts(s) < WordModulus
    <3>1. EndOfRecord(c) <= reserved + 1 /\ reserved <= MaxReserved
      BY <1>1 DEF IInv, CounterCorrect
    <3>2. EndOfRecord(c) = c.start + AllocSizeInts(s) /\ EndOfRecord(c) \in Nat
      BY <1>1, CallFacts DEF EndOfRecord, s
    <3>. QED
      BY <3>1, <3>2, ConstantsAssumption DEF IInv, TypeOK, NoWrap
  <2>4. size = EndOf(s, i) - EndOf(s, i - 1)
    BY DEF ArgSize
  <2>5. AllocSizeInts(s) \in Nat
    BY <1>4, SiteFacts
  <2>. DEFINE q == size \div 4
              k == argsOffset[w] + q
  <2>6. q \in Nat /\ 4 * q = EndOf(s, i) - EndOf(s, i - 1)
    BY <1>4, <2>1, <2>4
  <2>. HIDE DEF q, size
  <2>7. 4 * k = 4 * (c.start + 1) + EndOf(s, i) /\ k \in Nat
    BY <1>1, <1>4, <2>6 DEF s
  <2>8. k < WordModulus
    <3>1. 4 * k <= 4 * (c.start + 1) + EndOf(s, NArgs(s))
      BY <1>4, <2>2, <2>7
    <3>2. 4 * k <= 4 * (c.start + AllocSizeInts(s))
      BY <1>4, <2>1, <2>2, <2>5, <3>1
    <3>. QED  BY <1>4, <2>3, <2>5, <2>7, <3>2
  <2>9. k % WordModulus = k /\ k \in Words
    BY <1>4, <2>7, <2>8 DEF Words
  <2>. QED  BY <2>7, <2>9 DEF q
<1>8. TypeOK'
  <2>1. argNo' \in [WorkItems -> Nat] /\ argsOffset' \in [WorkItems -> Words]
    BY <1>3, <1>4, <1>7 DEF IInv, TypeOK
  <2>2. pc' \in [WorkItems -> {"idle", "copy_args", "copy_printf_id"}]
    BY <1>3 DEF IInv, TypeOK
  <2>. QED  BY <1>2, <1>6, <2>1, <2>2 DEF IInv, TypeOK
<1>9. CounterCorrect' /\ RecordsDisjoint' /\ ReturnedCorrect'
  BY <1>2, <1>6
  DEF IInv, CounterCorrect, RecordsDisjoint, ReturnedCorrect, EndOfRecord, Fits
<1>10. RegistersCorrect'
  <2> SUFFICES ASSUME NEW v \in WorkItems, pc'[v] # "idle"
               PROVE  RegistersCorrect!(v)!2'
    BY DEF RegistersCorrect
  <2>1. CASE v = w
    <3>1. pc'[w] = "copy_args" =>
             /\ i + 1 \in 1..NArgs(s)
             /\ argNo'[w] = i + 1
             /\ 4 * argsOffset'[w] = 4 * (c.start + 1) + EndOf(s, i)
      BY <1>3, <1>4, <1>7 DEF IInv, TypeOK
    <3>2. (i + 1) - 1 = i
      BY <1>4
    <3>. QED
      BY <1>0, <1>1, <1>2, <2>1, <3>1, <3>2
      DEF IInv, RegistersCorrect, Fits, EndOfRecord, s
  <2>2. CASE v # w
    <3>1. /\ pc'[v] = pc[v] /\ argNo'[v] = argNo[v]
          /\ argsOffset'[v] = argsOffset[v]
      BY <1>3, <2>2 DEF IInv, TypeOK
    <3>. QED
      BY <1>2, <3>1 DEF IInv, RegistersCorrect, Fits, EndOfRecord
  <2>. QED  BY <2>1, <2>2
<1>11. BytesOwned'
  <2> SUFFICES ASSUME NEW a \in Addresses, mem'[a] # NoValue
               PROVE  BytesOwned!(a)!2'
    BY DEF BytesOwned
  <2>1. CASE mem'[a] = mem[a]
    BY <1>2, <2>1 DEF IInv, BytesOwned, FieldBytes, Bytes, Fits, EndOfRecord
  <2>2. CASE mem'[a] = [call |-> c, field |-> i] /\ a \in FieldBytes(c, i)
    BY <1>1, <1>2, <1>4, <2>2 DEF FieldBytes, Bytes, Fits, EndOfRecord, s
  <2>. QED  BY <1>6, <2>1, <2>2
<1>12. StoredIntact'
  <2>1. ASSUME NEW d \in calls', <<d, 0>> \in returned'
        PROVE  RecordIntact(d)'
    <3>1. NArgs(d.site) \in Nat /\ RecordIntact(d)
      BY <1>2, <2>1, CallFacts DEF IInv, TypeOK, StoredIntact
    <3>2. d \in calls /\ 0 \in 0..NArgs(d.site)
      BY <1>2, <3>1
    <3>. QED  BY <1>6, <3>1, <3>2 DEF RecordIntact, ArgsIntact
  <2>2. ASSUME NEW v \in WorkItems
        PROVE  /\ pc'[v] = "copy_args" =>
                    \A j \in 1..(argNo'[v] - 1) : FieldIntact(call[v], j)'
               /\ pc'[v] = "copy_printf_id" /\ ret'[v] = 0 =>
                    ArgsIntact(call[v])'
    <3>1. CASE v = w
      <4>1. \A j \in 1..(i - 1) : FieldIntact(c, j)'
        <5>1. \A j \in 1..(i - 1) : FieldIntact(c, j)
          BY <1>0, <1>1 DEF IInv, StoredIntact
        <5>2. \A j \in 1..(i - 1) : j \in 0..NArgs(c.site)
          BY <1>1, <1>4 DEF s
        <5>. QED  BY <1>1, <1>6, <5>1, <5>2
      <4>2. \A j \in 1..i : FieldIntact(c, j)'
        <5>1. \A j \in 1..i : j \in 1..(i - 1) \/ j = i
          BY <1>4
        <5>. QED  BY <1>6, <4>1, <5>1
      <4>3. pc'[w] = "copy_args" => argNo'[w] - 1 = i
        BY <1>3, <1>4 DEF IInv, TypeOK
      <4>4. pc'[w] = "copy_printf_id" => i = NArgs(c.site)
        BY <1>1, <1>3 DEF s
      <4>5. /\ pc'[w] = "copy_args" =>
                  \A j \in 1..(argNo'[w] - 1) : FieldIntact(c, j)'
            /\ pc'[w] = "copy_printf_id" => ArgsIntact(c)'
        BY <4>2, <4>3, <4>4 DEF ArgsIntact
      <4>6. call'[v] = c
        BY <1>0, <1>2, <3>1
      <4>. QED  BY <1>2, <3>1, <4>5, <4>6 DEF ArgsIntact, FieldIntact
    <3>2. CASE v # w
      <4>1. /\ pc'[v] = pc[v] /\ argNo'[v] = argNo[v] /\ ret'[v] = ret[v]
        BY <1>2, <1>3, <3>2 DEF IInv, TypeOK
      <4>2. ASSUME pc[v] # "idle"
            PROVE  /\ call[v] \in calls
                   /\ NArgs(call[v].site) \in Nat
                   /\ pc[v] = "copy_args" => argNo[v] \in 1..NArgs(call[v].site)
        BY <4>2, CallFacts DEF IInv, TypeOK, RegistersCorrect
      <4>3. ASSUME pc[v] = "copy_args", NEW j \in 1..(argNo[v] - 1)
            PROVE  FieldIntact(call[v], j)'
        <5>1. j \in 0..NArgs(call[v].site)
          BY <4>2, <4>3
        <5>2. FieldIntact(call[v], j)
          BY <4>3 DEF IInv, StoredIntact
        <5>. QED  BY <1>2, <1>6, <4>2, <4>3, <5>1, <5>2 DEF FieldIntact
      <4>4. ASSUME pc[v] = "copy_printf_id", ret[v] = 0
            PROVE  ArgsIntact(call[v])'
        <5>1. \A j \in 1..NArgs(call[v].site) :
                 j \in 0..NArgs(call[v].site) /\ FieldIntact(call[v], j)
          BY <4>2, <4>4 DEF IInv, StoredIntact, ArgsIntact
        <5>. QED
          BY <1>2, <1>6, <4>2, <4>4, <5>1 DEF ArgsIntact, FieldIntact
      <4>. QED  BY <4>1, <4>3, <4>4
    <3>. QED  BY <3>1, <3>2
  <2>3. call' = call
    BY <1>2
  <2>4. StoredIntact!2'
    BY <2>2, <2>3 DEF ArgsIntact, FieldIntact
  <2>. QED  BY <2>1, <2>4 DEF StoredIntact
<1>. QED  BY <1>8, <1>9, <1>10, <1>11, <1>12 DEF IInv

LEMMA StorePrintfIDIInv ==
    ASSUME NoWrap, Aligned, IInv, NEW w \in WorkItems, StorePrintfID(w)
    PROVE  IInv'
<1>0. PICK c, r : c = call[w] /\ r = ret[w]
  OBVIOUS
<1>1. /\ pc[w] = "copy_printf_id" /\ r \in {0, -1}
      /\ c \in calls /\ c \in Calls /\ c.item = w
      /\ offset[w] = c.start
      /\ \A x \in {0, -1} : <<c, x>> \notin returned
      /\ IF r = 0 THEN Fits(c) ELSE ~Fits(c) /\ c.start < BufferWords
  BY <1>0 DEF StorePrintfID, IInv, TypeOK, RegistersCorrect
<1>2. /\ Store(offset[w], 4, [call |-> c, field |-> 0])
      /\ returned' = returned \cup {<<c, r>>}
      /\ pc' = [pc EXCEPT ![w] = "idle"]
      /\ UNCHANGED <<call, offset, argsOffset, argNo, ret, reserved, calls>>
  BY <1>0 DEF StorePrintfID
<1>3. /\ c.start \in Nat \ {0} /\ NArgs(c.site) \in Nat
      /\ 0 \in 0..NArgs(c.site) /\ BufferWords \in Nat
      /\ AllocSizeInts(c.site) \in Nat /\ c.start < EndOfRecord(c)
      /\ EndOfRecord(c) \in Nat
  BY <1>1, CallFacts, ConstantsAssumption
<1>4. c.start < BufferWords
  BY <1>1, <1>3 DEF Fits
<1>5. /\ counter' = counter
      /\ mem' \in [Addresses -> Values \cup {NoValue}]
      /\ FieldIntact(c, 0)'
      /\ \A d \in calls : \A j \in 0..NArgs(d.site) :
            FieldIntact(d, j) => FieldIntact(d, j)'
      /\ \A a \in Addresses :
            \/ mem'[a] = mem[a]
            \/ mem'[a] = [call |-> c, field |-> 0] /\ a \in FieldBytes(c, 0)
  <2>1. Bytes(offset[w], 4) = FieldBytes(c, 0)
    BY <1>1 DEF FieldBytes
  <2>2. offset[w] \in Nat \ {0}
    BY <1>1, <1>3
  <2>. QED  BY <1>1, <1>2, <1>3, <2>1, <2>2, StoreField
<1>6. TypeOK'
  BY <1>1, <1>2, <1>5 DEF IInv, TypeOK
<1>7. CounterCorrect' /\ RecordsDisjoint'
  BY <1>2, <1>5 DEF IInv, CounterCorrect, RecordsDisjoint, EndOfRecord
<1>8. ReturnedCorrect'
  <2>1. ASSUME NEW d \in Calls, NEW x \in {0, -1}, <<d, x>> \in returned'
        PROVE  <<d, x>> \in returned \/ (d = c /\ x = r)
    BY <1>2, <2>1
  <2>2. ASSUME NEW d \in Calls, <<d, 0>> \in returned'
        PROVE  d \in calls /\ Fits(d)
    BY <1>1, <2>1, <2>2 DEF IInv, ReturnedCorrect
  <2>3. ASSUME NEW d \in Calls, <<d, -1>> \in returned'
        PROVE  d \in calls /\ ~Fits(d)
    <3>1. <<d, -1>> \in returned \/ (d = c /\ -1 = r)
      BY <2>1, <2>3
    <3>2. CASE <<d, -1>> \in returned
      BY <3>2 DEF IInv, ReturnedCorrect
    <3>3. CASE d = c /\ -1 = r
      <4>1. r # 0
        BY <3>3
      <4>. QED  BY <1>1, <3>3, <4>1
    <3>. QED  BY <3>1, <3>2, <3>3
  <2>. QED
    BY <1>2, <2>2, <2>3 DEF ReturnedCorrect, Fits, EndOfRecord
<1>9. RegistersCorrect'
  <2> SUFFICES ASSUME NEW v \in WorkItems, pc'[v] # "idle"
               PROVE  RegistersCorrect!(v)!2'
    BY DEF RegistersCorrect
  <2>1. v # w /\ pc'[v] = pc[v] /\ pc[v] # "idle"
    BY <1>2 DEF IInv, TypeOK
  <2>2. call[v] # c
    BY <1>1, <2>1 DEF IInv, RegistersCorrect
  <2>3. \A x \in {0, -1} : <<call'[v], x>> \notin returned'
    BY <1>2, <2>1, <2>2 DEF IInv, RegistersCorrect
  <2>. QED
    BY <1>2, <2>1, <2>3 DEF IInv, RegistersCorrect, Fits, EndOfRecord
<1>10. BytesOwned'
  <2> SUFFICES ASSUME NEW a \in Addresses, mem'[a] # NoValue
               PROVE  BytesOwned!(a)!2'
    BY DEF BytesOwned
  <2>1. CASE mem'[a] = mem[a]
    BY <1>2, <2>1 DEF IInv, BytesOwned, FieldBytes, Bytes, Fits, EndOfRecord
  <2>2. CASE mem'[a] = [call |-> c, field |-> 0] /\ a \in FieldBytes(c, 0)
    BY <1>1, <1>2, <1>3, <1>4, <2>2 DEF FieldBytes, Bytes
  <2>. QED  BY <1>5, <2>1, <2>2
<1>11. StoredIntact'
  <2>1. ASSUME NEW d \in calls, ArgsIntact(d)
        PROVE  ArgsIntact(d)'
    <3>1. NArgs(d.site) \in Nat
      BY CallFacts DEF IInv, TypeOK
    <3>2. \A j \in 1..NArgs(d.site) : j \in 0..NArgs(d.site)
      BY <3>1
    <3>. QED  BY <1>5, <2>1, <3>2 DEF ArgsIntact
  <2>2. ASSUME NEW d \in calls', <<d, 0>> \in returned'
        PROVE  RecordIntact(d)'
    <3>1. d \in calls /\ d \in Calls
      BY <1>2 DEF IInv, TypeOK
    <3>2. CASE <<d, 0>> \in returned
      <4>1. RecordIntact(d) /\ 0 \in 0..NArgs(d.site)
        BY <3>1, <3>2, CallFacts DEF IInv, StoredIntact
      <4>. QED  BY <1>5, <2>1, <3>1, <4>1 DEF RecordIntact
    <3>3. CASE <<d, 0>> \notin returned
      <4>1. d = c /\ r = 0
        BY <1>2, <2>2, <3>3
      <4>2. ArgsIntact(c)
        BY <1>0, <1>1, <4>1 DEF IInv, StoredIntact, ArgsIntact, FieldIntact
      <4>. QED  BY <1>1, <1>5, <2>1, <4>1, <4>2 DEF RecordIntact
    <3>. QED  BY <3>2, <3>3
  <2>3. ASSUME NEW v \in WorkItems, pc'[v] # "idle"
        PROVE  /\ pc'[v] = pc[v] /\ argNo'[v] = argNo[v] /\ ret'[v] = ret[v]
               /\ call'[v] = call[v] /\ call[v] \in calls
               /\ pc[v] = "copy_args" => argNo[v] \in 1..NArgs(call[v].site)
               /\ NArgs(call[v].site) \in Nat
    BY <1>2, <2>3, CallFacts DEF IInv, TypeOK, RegistersCorrect
  <2>4. ASSUME NEW v \in WorkItems, pc'[v] = "copy_args",
               NEW j \in 1..(argNo'[v] - 1)
        PROVE  FieldIntact(call[v], j)'
    <3>0. PICK d : d = call[v]
      OBVIOUS
    <3>1. d \in calls /\ j \in 0..NArgs(d.site) /\ FieldIntact(d, j)
      BY <2>3, <2>4, <3>0 DEF IInv, StoredIntact, FieldIntact
    <3>2. FieldIntact(d, j)' /\ call'[v] = d
      BY <1>5, <2>3, <2>4, <3>0, <3>1
    <3>. QED  BY <3>2 DEF FieldIntact
  <2>5. ASSUME NEW v \in WorkItems, pc'[v] = "copy_printf_id", ret'[v] = 0
        PROVE  ArgsIntact(call[v])'
    <3>0. PICK d : d = call[v]
      OBVIOUS
    <3>1. d \in calls /\ ArgsIntact(d)
      BY <2>3, <2>5, <3>0 DEF IInv, StoredIntact, ArgsIntact, FieldIntact
    <3>2. ArgsIntact(d)' /\ call'[v] = d
      BY <2>1, <2>3, <2>5, <3>0, <3>1
    <3>. QED  BY <3>2 DEF ArgsIntact, FieldIntact
  <2>. QED  BY <2>2, <2>4, <2>5 DEF StoredIntact
<1>. QED  BY <1>6, <1>7, <1>8, <1>9, <1>10, <1>11 DEF IInv

LEMMA NextIInv ==
    ASSUME NoWrap, Aligned, IInv, [Next]_vars
    PROVE  IInv'
<1>1. ASSUME NEW w \in WorkItems, NEW s \in Sites, Reserve(w, s) PROVE IInv'
  BY <1>1, ReserveIInv
<1>2. ASSUME NEW w \in WorkItems, StoreArg(w) PROVE IInv'
  BY <1>2, StoreArgIInv
<1>3. ASSUME NEW w \in WorkItems, StorePrintfID(w) PROVE IInv'
  BY <1>3, StorePrintfIDIInv
<1>4. CASE UNCHANGED vars
  BY <1>4
  DEF vars, locals, IInv, TypeOK, CounterCorrect, RecordsDisjoint,
      RegistersCorrect, ReturnedCorrect, BytesOwned, StoredIntact,
      RecordIntact, ArgsIntact, FieldIntact, FieldBytes, Bytes, Fits,
      EndOfRecord
<1>. QED  BY <1>1, <1>2, <1>3, <1>4 DEF Next

(***************************************************************************)
(* The inductive invariant of DefinePrintfInstance's code.                 *)
(***************************************************************************)
THEOREM InvariantCorrect ==
    ASSUME NoWrap, Aligned
    PROVE  Spec => []IInv
<1>1. Init => IInv
  BY InitIInv
<1>2. IInv /\ [Next]_vars => IInv'
  BY NextIInv
<1>. QED  BY <1>1, <1>2, PTL DEF Spec

-----------------------------------------------------------------------------
(* What follows from it. *)

(***************************************************************************)
(* Any number of work-items may print: what a call that returned 0 stored  *)
(* is never disturbed.                                                     *)
(***************************************************************************)
THEOREM PrintedRecordsStayIntact ==
    ASSUME NoWrap, Aligned
    PROVE  Spec => []PrintedRecordsIntact
<1>1. IInv => PrintedRecordsIntact
  BY DEF IInv, StoredIntact, PrintedRecordsIntact
<1>. QED  BY <1>1, InvariantCorrect, PTL

(***************************************************************************)
(* No call stores past the end of the buffer or outside of the words it    *)
(* reserved.                                                               *)
(***************************************************************************)
THEOREM StoresStayInRecord ==
    ASSUME NoWrap, Aligned
    PROVE  Spec => []WritesStayInRecord
<1>1. ASSUME IInv PROVE WritesStayInRecord
  <2> SUFFICES ASSUME NEW a \in Addresses, mem[a] # NoValue
               PROVE  WritesStayInRecord!(a)!2
    BY DEF WritesStayInRecord
  <2> DEFINE c == mem[a].call
             i == mem[a].field
  <2>1. /\ c \in calls /\ c \in Calls /\ i \in 0..NArgs(c.site)
        /\ a \in FieldBytes(c, i)
        /\ IF i = 0 THEN c.start < BufferWords ELSE Fits(c)
    BY <1>1 DEF IInv, TypeOK, BytesOwned
  <2>. HIDE DEF c, i
  <2>2. /\ c.start \in Nat /\ EndOfRecord(c) \in Nat /\ BufferWords \in Nat
        /\ NArgs(c.site) \in Nat
    BY <2>1, CallFacts, ConstantsAssumption
  <2>3. a \in Nat /\ 4 * c.start <= a /\ a < 4 * EndOfRecord(c)
    BY <2>1, FieldsInRecord
  <2>4. a < 4 * BufferWords
    <3>1. CASE i = 0
      BY <2>1, <2>2, <3>1 DEF FieldBytes, Bytes
    <3>2. CASE i # 0
      BY <2>1, <2>2, <2>3, <3>2 DEF Fits
    <3>. QED  BY <3>1, <3>2
  <2>. QED  BY <2>3, <2>4 DEF EndOfRecord, c
<1>. QED  BY <1>1, InvariantCorrect, PTL

(***************************************************************************)
(* Whoever finds the ID of a record that has room finds its arguments.     *)
(***************************************************************************)
THEOREM IDsFollowArgs ==
    ASSUME NoWrap, Aligned
    PROVE  Spec => []IDFoundArgsFound
<1>1. ASSUME IInv, NEW c \in calls, Fits(c), FieldIntact(c, 0)
      PROVE  ArgsIntact(c)
  <2>1. /\ c \in Calls /\ c.start \in Nat /\ NArgs(c.site) \in Nat
        /\ FieldBytes(c, 0) \subseteq Addresses
    BY <1>1, CallFacts, RecordInBuffer DEF TypeOK, IInv
  <2>2. 4 * c.start \in FieldBytes(c, 0)
    BY <2>1 DEF FieldBytes, Bytes
  <2>3. mem[4 * c.start] = [call |-> c, field |-> 0]
    BY <1>1, <2>2 DEF FieldIntact
  <2>4. mem[4 * c.start] # NoValue
    BY <2>1, <2>3, NoValueAssumption DEF Values
  <2>5. \E r \in {0, -1} : <<c, r>> \in returned
    BY <1>1, <2>1, <2>2, <2>3, <2>4 DEF IInv, BytesOwned
  <2>6. <<c, -1>> \notin returned
    BY <1>1, <2>1 DEF IInv, ReturnedCorrect
  <2>7. <<c, 0>> \in returned
    BY <2>5, <2>6
  <2>. QED  BY <1>1, <2>7 DEF IInv, StoredIntact, RecordIntact
<1>2. IInv => IDFoundArgsFound
  BY <1>1 DEF IDFoundArgsFound, Fits, EndOfRecord
<1>. QED  BY <1>2, InvariantCorrect, PTL

-----------------------------------------------------------------------------
(***************************************************************************)
(* The runtime's walk.  It needs two facts more than IInv: records follow  *)
(* each other without a gap from word 1 to the counter, and a call that    *)
(* was made is under way or has returned.                                  *)
(***************************************************************************)
Chained ==
    /\ reserved = 0 \/ \E d \in calls : EndOfRecord(d) = reserved + 1
    /\ \A c \in calls : c.start = 1 \/ \E d \in calls : EndOfRecord(d) = c.start

CallsReturn ==
    \A c \in calls : \/ \E w \in WorkItems : pc[w] # "idle" /\ call[w] = c
                   \/ \E r \in {0, -1} : <<c, r>> \in returned

WalkInv == Chained /\ CallsReturn

LEMMA ReserveWalk ==
    ASSUME NoWrap, Aligned, IInv, WalkInv, NEW w \in WorkItems, NEW s \in Sites, Reserve(w, s)
    PROVE  WalkInv'
<1> DEFINE c == [item |-> w, site |-> s, start |-> reserved + 1]
<1>1. /\ calls' = calls \cup {c} /\ reserved' = reserved + AllocSizeInts(s)
      /\ call' = [call EXCEPT ![w] = c] /\ pc[w] = "idle"
  BY DEF Reserve
<1>2. /\ AllocSizeInts(s) \in Nat /\ AllocSizeInts(s) >= 1 /\ reserved \in Nat
      /\ call \in [WorkItems -> Calls \cup {NoValue}]
      /\ pc \in [WorkItems -> {"idle", "copy_args", "copy_printf_id"}]
  BY SiteFacts DEF IInv, TypeOK
<1>3. c.start = reserved + 1 /\ EndOfRecord(c) = reserved' + 1
  BY <1>1, <1>2 DEF EndOfRecord
<1>4. \/ pc'[w] # "idle" /\ returned' = returned
      \/ returned' = returned \cup {<<c, -1>>}
  BY <1>2 DEF Reserve
<1>5. \A v \in WorkItems \ {w} : pc'[v] = pc[v]
  BY <1>2 DEF Reserve
<1> HIDE DEF c
<1>6. Chained'
  <2>1. c.start = 1 \/ \E d \in calls : EndOfRecord(d) = c.start
    BY <1>2, <1>3 DEF WalkInv, Chained
  <2>2. \A d : EndOfRecord(d)' = EndOfRecord(d)
    BY DEF EndOfRecord
  <2>. QED  BY <1>1, <1>3, <2>1, <2>2 DEF WalkInv, Chained
<1>7. CallsReturn'
  <2>1. (\E v \in WorkItems : pc'[v] # "idle" /\ call'[v] = c) \/ (\E r \in {0, -1} : <<c, r>> \in returned')
    BY <1>1, <1>2, <1>4
  <2>2. ASSUME NEW d \in calls
        PROVE  \/ \E v \in WorkItems : pc'[v] # "idle" /\ call'[v] = d
               \/ \E r \in {0, -1} : <<d, r>> \in returned'
    <3>1. CASE \E v \in WorkItems : pc[v] # "idle" /\ call[v] = d
      <4>1. PICK v \in WorkItems : pc[v] # "idle" /\ call[v] = d
        BY <3>1
      <4>2. v # w
        BY <1>1, <4>1
      <4>. QED  BY <1>1, <1>2, <1>5, <4>1, <4>2
    <3>2. CASE \E r \in {0, -1} : <<d, r>> \in returned
      BY <1>4, <3>2
    <3>. QED  BY <3>1, <3>2 DEF WalkInv, CallsReturn
  <2>. QED  BY <1>1, <2>1, <2>2 DEF CallsReturn
<1>. QED  BY <1>6, <1>7 DEF WalkInv

LEMMA StoresWalk ==
    ASSUME IInv, WalkInv, NEW w \in WorkItems, StoreArg(w) \/ StorePrintfID(w)
    PROVE  WalkInv'
<1>1. calls' = calls /\ reserved' = reserved /\ call' = call /\ returned \subseteq returned'
  BY DEF StoreArg, StorePrintfID
<1>2. /\ pc \in [WorkItems -> {"idle", "copy_args", "copy_printf_id"}] /\ ret[w] \in {0, -1}
  BY DEF IInv, TypeOK
<1>3. \A v \in WorkItems : pc[v] # "idle" =>
         pc'[v] # "idle" \/ \E r \in {0, -1} : <<call[v], r>> \in returned'
  <2>1. CASE StoreArg(w)
    BY <1>2, <2>1 DEF StoreArg
  <2>2. CASE StorePrintfID(w)
    BY <1>2, <2>2 DEF StorePrintfID
  <2>. QED  BY <2>1, <2>2
<1>4. Chained'
  BY <1>1 DEF WalkInv, Chained, EndOfRecord
<1>5. CallsReturn'
  BY <1>1, <1>3 DEF WalkInv, CallsReturn
<1>. QED  BY <1>4, <1>5 DEF WalkInv

LEMMA WalkInvariant ==
    ASSUME NoWrap, Aligned
    PROVE  Spec => [](IInv /\ WalkInv)
<1>1. Init => IInv /\ WalkInv
  <2>1. Init => WalkInv
    BY DEF Init, WalkInv, Chained, CallsReturn
  <2>. QED  BY <2>1, InitIInv
<1>2. IInv /\ WalkInv /\ [Next]_vars => (IInv /\ WalkInv)'
  <2>. SUFFICES ASSUME IInv, WalkInv, [Next]_vars PROVE (IInv /\ WalkInv)'
    OBVIOUS
  <2>1. IInv'
    BY NextIInv
  <2>2. ASSUME NEW w \in WorkItems, NEW s \in Sites, Reserve(w, s) PROVE WalkInv'
    BY <2>2, ReserveWalk
  <2>3. ASSUME NEW w \in WorkItems, StoreArg(w) \/ StorePrintfID(w) PROVE WalkInv'
    BY <2>3, StoresWalk
  <2>4. ASSUME UNCHANGED vars PROVE WalkInv'
    BY <2>4 DEF vars, locals, WalkInv, Chained, CallsReturn, EndOfRecord
  <2>. QED  BY <2>1, <2>2, <2>3, <2>4 DEF Next
<1>. QED  BY <1>1, <1>2, PTL DEF Spec

\* Between calls, a record that has room is printed.
LEMMA FittingIsPrinted ==
    ASSUME IInv, WalkInv, \A w \in WorkItems : pc[w] = "idle", NEW c \in calls, Fits(c)
    PROVE  <<c, 0>> \in returned
<1>1. \E r \in {0, -1} : <<c, r>> \in returned
  BY DEF WalkInv, CallsReturn
<1>2. <<c, -1>> \notin returned
  BY DEF IInv, TypeOK, ReturnedCorrect
<1>. QED  BY <1>1, <1>2

\* The word where a printed record starts leads to the word where it ends.
LEMMA PrintedIsSeen ==
    ASSUME NoWrap, Aligned, IInv, NEW c \in calls, <<c, 0>> \in returned
    PROVE  /\ c.start \in RecordsSeen
           /\ mem[4 * c.start].call = c
           /\ NextRecord(c.start) = EndOfRecord(c)
<1>1. /\ c \in Calls /\ c.start \in Nat \ {0} /\ NArgs(c.site) \in Nat
      /\ EndOfRecord(c) \in Nat /\ c.start < EndOfRecord(c)
      /\ BufferWords \in Nat /\ FieldBytes(c, 0) \subseteq Addresses
  BY CallFacts, RecordInBuffer, ConstantsAssumption DEF TypeOK, IInv
<1>2. 4 * c.start \in FieldBytes(c, 0)
  BY <1>1 DEF FieldBytes, Bytes
<1>3. mem[4 * c.start] = [call |-> c, field |-> 0]
  BY <1>2 DEF IInv, StoredIntact, RecordIntact, FieldIntact
<1>4. mem[4 * c.start] # NoValue
  BY <1>1, <1>3, NoValueAssumption DEF Values
<1>5. NextRecord(c.start) = EndOfRecord(c)
  BY <1>3 DEF NextRecord, EndOfRecord
<1>6. EndOfRecord(c) <= BufferWords
  BY <1>1 DEF IInv, ReturnedCorrect, Fits
<1>7. c.start <= counter
  <2>1. counter = reserved /\ EndOfRecord(c) <= reserved + 1 /\ reserved \in Nat
    BY DEF IInv, CounterCorrect, TypeOK
  <2>. QED  BY <1>1, <2>1
<1>8. c.start \in 1..BufferWords /\ c.start < BufferWords
  BY <1>1, <1>6
<1>9. c.start \in RecordsSeen
  BY <1>3, <1>4, <1>5, <1>6, <1>7, <1>8 DEF RecordsSeen, IsRecordAt
<1>. QED  BY <1>3, <1>5, <1>9

\* What is seen at a word was printed there.
LEMMA SeenIsPrinted ==
    ASSUME NoWrap, Aligned, IInv, NEW word \in RecordsSeen
    PROVE  mem[4 * word].call \in calls /\ <<mem[4 * word].call, 0>> \in returned
<1> DEFINE c == mem[4 * word].call
<1>1. /\ word \in Nat \ {0} /\ word <= counter /\ mem[4 * word] # NoValue /\ mem[4 * word].field = 0
      /\ word + AllocSizeInts(c.site) <= BufferWords
  BY ConstantsAssumption DEF RecordsSeen, IsRecordAt, NextRecord
<1>2. 4 * word \in Addresses
  <2>1. counter \in 0..(WordModulus - 1) /\ WordModulus \in Nat
    BY ConstantsAssumption DEF IInv, TypeOK, Words
  <2>. QED  BY <1>1, <2>1 DEF Addresses
<1>3. /\ c \in calls /\ 4 * word \in FieldBytes(c, 0)
      /\ \E r \in {0, -1} : <<c, r>> \in returned
  BY <1>1, <1>2 DEF IInv, BytesOwned
<1>. HIDE DEF c
<1>4. c \in Calls /\ c.start \in Nat
  BY <1>3, CallFacts DEF IInv, TypeOK
<1>5. word = c.start
  BY <1>1, <1>3, <1>4 DEF FieldBytes, Bytes
<1>6. Fits(c)
  BY <1>1, <1>5 DEF Fits, EndOfRecord
<1>7. <<c, 0>> \in returned
  BY <1>3, <1>4, <1>6 DEF IInv, ReturnedCorrect
<1>. QED  BY <1>3, <1>7 DEF c

\* No walk leaves out the start of a printed record: the first that is left
\* out would follow one that is not.
LEMMA PrintedIsWalked ==
    ASSUME NoWrap, Aligned, IInv, WalkInv, \A w \in WorkItems : pc[w] = "idle",
           NEW words \in SUBSET (1..BufferWords), 1 \in words,
           \A word \in RecordsSeen : word \in words => NextRecord(word) \in words,
           NEW c \in calls, <<c, 0>> \in returned
    PROVE  c.start \in words
<1> DEFINE left == {d.start : d \in {d \in calls : <<d, 0>> \in returned /\ d.start \notin words}}
<1>1. \A d \in calls : d \in Calls /\ d.start \in Nat \ {0} /\ EndOfRecord(d) \in Nat /\ d.start < EndOfRecord(d)
  BY CallFacts DEF IInv, TypeOK
<1>2. left \subseteq Nat
  BY <1>1
<1>3. ASSUME left # {} PROVE FALSE
  <2>1. PICK n \in left : \A m \in left : n <= m
    <3>. HIDE DEF left
    <3>. QED  BY <1>2, <1>3, LeastNatural
  <2>2. PICK d \in calls : <<d, 0>> \in returned /\ d.start \notin words /\ n = d.start
    BY <2>1
  <2>3. PICK e \in calls : EndOfRecord(e) = d.start
    BY <2>2 DEF WalkInv, Chained
  <2>4. Fits(e)
    <3>1. EndOfRecord(d) <= BufferWords
      BY <1>1, <2>2 DEF IInv, ReturnedCorrect, Fits
    <3>. QED  BY <1>1, <2>3, <3>1, ConstantsAssumption DEF Fits
  <2>5. <<e, 0>> \in returned
    BY <2>4, FittingIsPrinted
  <2>6. e.start \in words
    <3>1. e.start < n
      BY <1>1, <2>2, <2>3
    <3>2. e.start \in Nat /\ n \in Nat
      BY <1>1, <2>2
    <3>3. e.start \notin left
      <4>. HIDE DEF left
      <4>. QED  BY <2>1, <3>1, <3>2
    <3>. QED  BY <2>5, <3>3
  <2>7. e.start \in RecordsSeen /\ NextRecord(e.start) = d.start
    BY <2>3, <2>5, PrintedIsSeen
  <2>. QED  BY <2>2, <2>6, <2>7
<1>. QED  BY <1>3

(***************************************************************************)
(* Whenever no call is under way, a runtime that follows the records finds *)
(* exactly the calls that said they printed, for any number of work-items, *)
(* any call sites and sizes of records and of the buffer.                  *)
(***************************************************************************)
THEOREM RuntimeReads ==
    ASSUME NoWrap, Aligned
    PROVE  Spec => []RuntimeReadsPrinted
<1>1. ASSUME IInv, WalkInv, \A w \in WorkItems : pc[w] = "idle"
      PROVE  RecordsFound = {c \in calls : <<c, 0>> \in returned}
  <2>1. ASSUME NEW c \in RecordsFound PROVE c \in calls /\ <<c, 0>> \in returned
    <3>1. PICK word \in RecordsSeen : c = mem[4 * word].call
      BY <2>1 DEF RecordsFound
    <3>. QED  BY <1>1, <3>1, SeenIsPrinted
  <2>2. ASSUME NEW c \in calls, <<c, 0>> \in returned PROVE c \in RecordsFound
    <3>1. c.start \in RecordsSeen /\ mem[4 * c.start].call = c
      BY <1>1, <2>2, PrintedIsSeen
    <3>2. ASSUME NEW words \in SUBSET (1..BufferWords), 1 \in words,
                 \A l \in {<<word, NextRecord(word)>> : word \in RecordsSeen} : l[1] \in words => l[2] \in words
          PROVE  c.start \in words
      <4>1. ASSUME NEW word \in RecordsSeen, word \in words PROVE NextRecord(word) \in words
        <5>1. <<word, NextRecord(word)>> \in {<<x, NextRecord(x)>> : x \in RecordsSeen}
          OBVIOUS
        <5>2. <<word, NextRecord(word)>>[1] = word /\ <<word, NextRecord(word)>>[2] = NextRecord(word)
          OBVIOUS
        <5>. QED  BY <3>2, <4>1, <5>1, <5>2, Zenon
      <4>. QED  BY <1>1, <2>2, <3>2, <4>1, PrintedIsWalked
    <3>3. c.start \in WordsWalked
      BY <3>1, <3>2 DEF WordsWalked, RecordsSeen
    <3>. QED  BY <3>1, <3>3 DEF RecordsFound
  <2>. QED  BY <2>1, <2>2
<1>2. IInv /\ WalkInv => RuntimeReadsPrinted
  BY <1>1 DEF RuntimeReadsPrinted
<1>. QED  BY <1>2, WalkInvariant, PTL

-----------------------------------------------------------------------------
(* The buffer implements the log. *)

LEMMA PrintedIsReturned ==
    ASSUME NoWrap, Aligned, IInv, NEW c \in calls
    PROVE  c \in Printed <=> <<c, 0>> \in returned
<1>1. ASSUME <<c, 0>> \in returned PROVE c \in Printed
  BY <1>1 DEF IInv, StoredIntact, Printed
<1>2. ASSUME RecordIntact(c) PROVE <<c, 0>> \in returned
  <2>1. /\ c \in Calls /\ c.start \in Nat /\ NArgs(c.site) \in Nat
        /\ c.site \in Sites /\ BufferWords \in Nat
    BY CallFacts, ConstantsAssumption DEF IInv, TypeOK
  <2>2. ASSUME NEW i \in 0..NArgs(c.site), NEW a \in FieldBytes(c, i),
               FieldIntact(c, i)
        PROVE  IF i = 0 THEN /\ c.start < BufferWords
                            /\ \E r \in {0, -1} : <<c, r>> \in returned
                       ELSE Fits(c)
    <3>1. a \in Addresses /\ mem[a] = [call |-> c, field |-> i]
      BY <2>2, RecordInBuffer DEF FieldIntact
    <3>2. mem[a] # NoValue
      BY <2>1, <3>1, NoValueAssumption DEF Values
    <3>. QED  BY <3>1, <3>2 DEF IInv, BytesOwned
  <2>3. /\ c.start < BufferWords
        /\ \E r \in {0, -1} : <<c, r>> \in returned
    <3>1. 4 * c.start \in FieldBytes(c, 0) /\ 0 \in 0..NArgs(c.site)
      BY <2>1 DEF FieldBytes, Bytes
    <3>. QED  BY <1>2, <2>2, <3>1 DEF RecordIntact
  <2>4. Fits(c)
    <3>1. CASE NArgs(c.site) = 0
      <4>1. AllocSizeInts(c.site) = 1
        BY <3>1 DEF AllocSizeInts, EndOf
      <4>. QED  BY <2>1, <2>3, <4>1 DEF Fits, EndOfRecord
    <3>2. CASE NArgs(c.site) # 0
      <4>1. 1 \in 0..NArgs(c.site) /\ 1 \in 1..NArgs(c.site)
        BY <2>1, <3>2
      <4>2. 4 * (c.start + 1) \in FieldBytes(c, 1)
        <5>1. EndOf(c.site, 1) \in Nat /\ EndOf(c.site, 1) >= 4
          BY <2>1, <4>1, SiteFacts, ArgEndAssumption
        <5>2. EndOf(c.site, 1 - 1) = 0
          BY DEF EndOf
        <5>. QED  BY <2>1, <5>1, <5>2 DEF FieldBytes
      <4>. QED  BY <1>2, <2>2, <4>1, <4>2 DEF RecordIntact, ArgsIntact
    <3>. QED  BY <3>1, <3>2
  <2>5. <<c, -1>> \notin returned
    BY <2>1, <2>4 DEF IInv, ReturnedCorrect
  <2>. QED  BY <2>3, <2>5
<1>. QED  BY <1>1, <1>2 DEF Printed

LEMMA PrintedReturnedPrimed ==
    ASSUME NoWrap, Aligned
    PROVE  IInv' => Printed' = {c \in calls' : <<c, 0>> \in returned'}
<1>1. IInv => Printed = {c \in calls : <<c, 0>> \in returned}
  BY PrintedIsReturned DEF Printed
<1>2. (IInv => Printed = {c \in calls : <<c, 0>> \in returned})'
  BY <1>1, PTL
<1>. QED  BY <1>2

LEMMA ReserveImplementsLog ==
    ASSUME NoWrap, Aligned, IInv, IInv',
           NEW w \in WorkItems, NEW s \in Sites, Reserve(w, s)
    PROVE  PL!LogNext
<1>0. PICK c : c = [item |-> w, site |-> s, start |-> reserved + 1]
  OBVIOUS
<1>1. /\ calls' = calls \cup {c} /\ mem' = mem
      /\ returned' = returned \/ returned' = returned \cup {<<c, -1>>}
  BY <1>0 DEF Reserve
<1>2. /\ \A d \in calls : d.start < c.start
      /\ c \notin calls
      /\ \A r \in {0, -1} : <<c, r>> \notin returned
      /\ c \in Calls
  <2>1. ASSUME NEW d \in calls PROVE d.start < c.start
    BY <1>0, CallFacts DEF IInv, TypeOK, CounterCorrect
  <2>2. c \in Calls
    BY <1>1 DEF IInv, TypeOK
  <2>3. c.start \in Nat
    BY <2>2, CallFacts
  <2>4. c \notin calls
    BY <2>1, <2>3
  <2>5. \A r \in {0, -1} : <<c, r>> \notin returned
    BY <2>2, <2>4 DEF IInv, ReturnedCorrect
  <2>. QED  BY <2>1, <2>2, <2>4, <2>5
<1>3. Printed' = Printed
  <2>1. Printed' = {d \in calls' : <<d, 0>> \in returned'}
    BY PrintedReturnedPrimed
  <2>2. Printed = {d \in calls : <<d, 0>> \in returned}
    BY PrintedIsReturned DEF Printed
  <2>3. \A d : <<d, 0>> \in returned' <=> <<d, 0>> \in returned
    BY <1>1
  <2>. QED  BY <1>1, <1>2, <2>1, <2>2, <2>3
<1>4. CASE returned' = returned
  BY <1>1, <1>2, <1>3, <1>4 DEF PL!LogNext, PL!Call
<1>5. CASE returned' = returned \cup {<<c, -1>>}
  <2>1. c.start \in Nat /\ \A d \in calls : d.start \in Nat
    BY <1>2, CallFacts DEF IInv, TypeOK
  <2>2. \A d \in calls : ~(c.start < d.start)
    BY <1>2, <2>1
  <2>. QED
    BY <1>1, <1>2, <1>3, <1>5, <2>2
    DEF PL!LogNext, PL!CallRefused, PL!Refuse, PL!Answered
<1>. QED  BY <1>1, <1>4, <1>5

LEMMA StoreArgImplementsLog ==
    ASSUME NoWrap, Aligned, IInv, IInv', NEW w \in WorkItems, StoreArg(w)
    PROVE  UNCHANGED PL!logVars
<1>1. calls' = calls /\ returned' = returned
  BY DEF StoreArg
<1>2. Printed' = {d \in calls' : <<d, 0>> \in returned'}
  BY PrintedReturnedPrimed
<1>3. Printed = {d \in calls : <<d, 0>> \in returned}
  BY PrintedIsReturned DEF Printed
<1>. QED  BY <1>1, <1>2, <1>3 DEF PL!logVars

LEMMA StorePrintfIDImplementsLog ==
    ASSUME NoWrap, Aligned, IInv, IInv', NEW w \in WorkItems, StorePrintfID(w)
    PROVE  PL!LogNext
<1>0. PICK c, r : c = call[w] /\ r = ret[w]
  OBVIOUS
<1>1. /\ c \in calls /\ c \in Calls /\ r \in {0, -1}
      /\ \A x \in {0, -1} : <<c, x>> \notin returned
      /\ IF r = 0 THEN Fits(c) ELSE ~Fits(c)
      /\ calls' = calls /\ returned' = returned \cup {<<c, r>>}
  BY <1>0 DEF StorePrintfID, IInv, TypeOK, RegistersCorrect
<1>2. Printed' = {d \in calls' : <<d, 0>> \in returned'}
  BY PrintedReturnedPrimed
<1>3. Printed = {d \in calls : <<d, 0>> \in returned}
  BY PrintedIsReturned DEF Printed
<1>4. \A d \in calls : /\ d.start \in Nat /\ EndOfRecord(d) \in Nat
                       /\ d.start < EndOfRecord(d)
  BY CallFacts DEF IInv, TypeOK
<1>5. \A d, e \in calls : d.start < e.start /\ Fits(e) => Fits(d)
  <2> SUFFICES ASSUME NEW d \in calls, NEW e \in calls,
                      d.start < e.start, Fits(e)
               PROVE  Fits(d)
    OBVIOUS
  <2>1. EndOfRecord(d) <= e.start
    BY <1>4 DEF IInv, RecordsDisjoint
  <2>. QED  BY <1>4, <2>1, ConstantsAssumption DEF Fits
<1>6. CASE r = 0
  <2>1. Printed' = Printed \cup {c}
    BY <1>1, <1>2, <1>3, <1>6
  <2>2. \A d \in calls : d.start < c.start => <<d, -1>> \notin returned
    BY <1>1, <1>5, <1>6 DEF IInv, ReturnedCorrect, TypeOK
  <2>. QED
    BY <1>1, <1>6, <2>1, <2>2 DEF PL!LogNext, PL!PrintRecord, PL!Answered
<1>7. CASE r = -1
  <2>1. Printed' = Printed
    <3>1. \A d : <<d, 0>> \in returned' <=> <<d, 0>> \in returned
      BY <1>1, <1>7
    <3>. QED  BY <1>1, <1>2, <1>3, <3>1
  <2>2. ~Fits(c)
    <3>1. r # 0
      BY <1>7
    <3>. QED  BY <1>1, <3>1
  <2>3. \A d \in calls : c.start < d.start => d \notin Printed
    BY <1>1, <1>3, <1>5, <2>2 DEF IInv, ReturnedCorrect, TypeOK
  <2>. QED
    BY <1>1, <1>7, <2>1, <2>3 DEF PL!LogNext, PL!Refuse, PL!Answered
<1>. QED  BY <1>1, <1>6, <1>7

(***************************************************************************)
(* Every step of the buffer is a step of the log or leaves it alone: calls *)
(* are printed once and for ever, and those printed are the first ones to  *)
(* have reserved words.                                                    *)
(***************************************************************************)
THEOREM BufferImplementsLog ==
    ASSUME NoWrap, Aligned
    PROVE  Spec => ImplementsLog
<1>1. Init => PL!LogInit
  BY DEF Init, PL!LogInit, Printed
<1>2. ASSUME IInv, IInv', [Next]_vars PROVE [PL!LogNext]_(PL!logVars)
  <2>1. ASSUME NEW w \in WorkItems, NEW s \in Sites, Reserve(w, s)
        PROVE  PL!LogNext
    BY <1>2, <2>1, ReserveImplementsLog
  <2>2. ASSUME NEW w \in WorkItems, StoreArg(w) PROVE UNCHANGED PL!logVars
    BY <1>2, <2>2, StoreArgImplementsLog
  <2>3. ASSUME NEW w \in WorkItems, StorePrintfID(w) PROVE PL!LogNext
    BY <1>2, <2>3, StorePrintfIDImplementsLog
  <2>4. CASE UNCHANGED vars
    BY <2>4
    DEF vars, PL!logVars, Printed, RecordIntact, ArgsIntact, FieldIntact
  <2>. QED  BY <1>2, <2>1, <2>2, <2>3, <2>4 DEF Next
<1>. QED
  BY <1>1, <1>2, InvariantCorrect, PTL DEF Spec, ImplementsLog, PL!LogSpec

-----------------------------------------------------------------------------
(* Work-item builtins. *)

-----------------------------------------------------------------------------
(* The order of the builtins, and what each of them needs. *)

LEMMA OrderIs ==
    /\ Len(Order) = 14 /\ DOMAIN Order = 1..14
    /\ Order[1] = "get_global_offset" /\ Order[2] = "get_global_id" /\ Order[3] = "get_local_size"
    /\ Order[4] = "get_local_id" /\ Order[5] = "get_num_groups" /\ Order[6] = "get_group_id"
    /\ Order[7] = "get_global_size" /\ Order[8] = "get_work_dim" /\ Order[9] = "get_enqueued_local_size"
    /\ Order[10] = "get_max_sub_group_size" /\ Order[11] = "get_enqueued_num_sub_groups"
    /\ Order[12] = "__spirv_WorkgroupSize"
    /\ Order[13] = "get_global_linear_id" /\ Order[14] = "get_local_linear_id"
  BY DEF Order

Done(n) == {Order[i] : i \in 1..n} \ {"__spirv_WorkgroupSize"}

LEMMA DoneFacts ==
    /\ Done(0) = {}
    /\ \A n \in 0..13 : Done(n + 1) = Done(n) \cup ({Order[n + 1]} \ {"__spirv_WorkgroupSize"})
    /\ Done(14) = Builtins
<1>1. Done(0) = {}
  BY DEF Done
<1>2. ASSUME NEW n \in 0..13
      PROVE  Done(n + 1) = Done(n) \cup ({Order[n + 1]} \ {"__spirv_WorkgroupSize"})
  <2>1. 1..(n + 1) = (1..n) \cup {n + 1}
    OBVIOUS
  <2>. QED  BY <2>1 DEF Done
<1>3. Done(14) = Builtins
  BY OrderIs DEF Done, Builtins
<1>. QED  BY <1>1, <1>2, <1>3

LEMMA InputsAre ==
    /\ Inputs("get_global_offset") \subseteq {"GlobalOffset"}
    /\ Inputs("get_global_id") = {"GlobalInvocationId"}
    /\ Inputs("get_local_size") = {"WorkgroupSize"}
    /\ Inputs("get_local_id") = {"LocalInvocationId"}
    /\ Inputs("get_num_groups") \subseteq {"NumWorkgroups"}
    /\ Inputs("get_group_id") = {"WorkgroupId"}
    /\ Inputs("get_global_size") \subseteq {"WorkgroupSize", "NumWorkgroups"}
    /\ Inputs("get_work_dim") \subseteq {"WorkDim"}
    /\ Inputs("get_max_sub_group_size") = {"SubgroupMaxSize"}
    /\ Inputs("get_enqueued_local_size") = {} /\ Inputs("get_enqueued_num_sub_groups") = {}
    /\ Inputs("get_global_linear_id") = {} /\ Inputs("get_local_linear_id") = {}
<1>1. Inputs("get_global_offset") \subseteq {"GlobalOffset"}
  BY Zenon DEF Inputs
<1>2. Inputs("get_global_id") = {"GlobalInvocationId"}
  BY Zenon DEF Inputs
<1>3. Inputs("get_local_size") = {"WorkgroupSize"}
  BY Zenon DEF Inputs
<1>4. Inputs("get_local_id") = {"LocalInvocationId"}
  BY Zenon DEF Inputs
<1>5. Inputs("get_num_groups") \subseteq {"NumWorkgroups"}
  BY Zenon DEF Inputs
<1>6. Inputs("get_group_id") = {"WorkgroupId"}
  BY Zenon DEF Inputs
<1>7. Inputs("get_global_size") \subseteq {"WorkgroupSize", "NumWorkgroups"}
  BY Zenon DEF Inputs
<1>8. Inputs("get_work_dim") \subseteq {"WorkDim"}
  BY Zenon DEF Inputs
<1>9. Inputs("get_max_sub_group_size") = {"SubgroupMaxSize"}
  BY Zenon DEF Inputs
<1>10. Inputs("get_enqueued_local_size") = {} /\ Inputs("get_enqueued_num_sub_groups") = {}
  BY Zenon DEF Inputs
<1>11. Inputs("get_global_linear_id") = {} /\ Inputs("get_local_linear_id") = {}
  BY Zenon DEF Inputs
<1>. QED  BY <1>1, <1>2, <1>3, <1>4, <1>5, <1>6, <1>7, <1>8, <1>9, <1>10, <1>11

(***************************************************************************)
(* A builtin that makes its inputs is the first that has them.             *)
(***************************************************************************)
LEMMA InputsAreNew ==
    ASSUME NEW n \in 0..13, Order[n + 1] # "__spirv_WorkgroupSize", MakesItsOwn(Order[n + 1])
    PROVE  /\ \A g \in Done(n) : Inputs(Order[n + 1]) \cap Inputs(g) = {}
           /\ n >= 12 => "WorkgroupSize" \notin Inputs(Order[n + 1])
<1>. DEFINE f == Order[n + 1]
<1>1. f # "get_global_size"
  BY DEF MakesItsOwn
<1>2. n >= 12 => Inputs(f) = {}
  BY OrderIs, InputsAre
<1>3. ASSUME NEW g \in Done(n) PROVE Inputs(f) \cap Inputs(g) = {}
  <2>1. PICK j \in 1..n : g = Order[j]
    BY DEF Done
  <2>2. g # "__spirv_WorkgroupSize"
    BY DEF Done
  <2>3. f # g
    BY <2>1, OrderIs
  <2>4. f \in {"get_local_size", "get_num_groups"} => g # "get_global_size"
    BY <2>1, OrderIs
  <2>5. f \in Builtins /\ g \in Builtins
    BY <2>1, <2>2, OrderIs DEF Builtins
  <2>6. \A h \in Builtins :
           h \in {"get_global_offset", "get_global_id", "get_local_size", "get_local_id", "get_num_groups",
                  "get_group_id", "get_global_size", "get_work_dim", "get_enqueued_local_size",
                  "get_max_sub_group_size", "get_enqueued_num_sub_groups",
                  "get_global_linear_id", "get_local_linear_id"}
    BY OrderIs DEF Builtins
  <2>. QED  BY <1>1, <2>3, <2>4, <2>5, <2>6, InputsAre
<1>. QED  BY <1>2, <1>3

(***************************************************************************)
(* f is asked for by what the module uses. What a builtin calls is asked   *)
(* for whenever the builtin is, and comes before it.                       *)
(***************************************************************************)
IsAsked(f) == ({f} \cup Dependents(f)) \cap used.functions # {}

LEMMA DependentsAre ==
    /\ Dependents("get_global_offset") = {"get_global_id", "get_global_linear_id"}
    /\ Dependents("get_global_id") = {"get_global_linear_id"}
    /\ Dependents("get_global_size") = {"get_global_linear_id"}
    /\ Dependents("get_local_size") = {"get_local_linear_id"}
    /\ Dependents("get_local_id") = {"get_local_linear_id"}
    /\ Dependents("get_enqueued_local_size") = {"get_enqueued_num_sub_groups"}
    /\ Dependents("get_max_sub_group_size") = {"get_enqueued_num_sub_groups"}
    /\ Dependents("get_num_groups") = {} /\ Dependents("get_group_id") = {}
    /\ Dependents("get_work_dim") = {} /\ Dependents("get_enqueued_num_sub_groups") = {}
    /\ Dependents("get_global_linear_id") = {} /\ Dependents("get_local_linear_id") = {}
<1>1. Dependents("get_global_offset") = {"get_global_id", "get_global_linear_id"}
  BY Zenon DEF Dependents
<1>2. /\ Dependents("get_global_id") = {"get_global_linear_id"}
      /\ Dependents("get_global_size") = {"get_global_linear_id"}
  BY Zenon DEF Dependents
<1>3. /\ Dependents("get_local_size") = {"get_local_linear_id"}
      /\ Dependents("get_local_id") = {"get_local_linear_id"}
  BY Zenon DEF Dependents
<1>4. /\ Dependents("get_enqueued_local_size") = {"get_enqueued_num_sub_groups"}
      /\ Dependents("get_max_sub_group_size") = {"get_enqueued_num_sub_groups"}
  BY Zenon DEF Dependents
<1>5. /\ Dependents("get_num_groups") = {} /\ Dependents("get_group_id") = {}
      /\ Dependents("get_work_dim") = {} /\ Dependents("get_enqueued_num_sub_groups") = {}
  BY Zenon DEF Dependents
<1>6. Dependents("get_global_linear_id") = {} /\ Dependents("get_local_linear_id") = {}
  BY Zenon DEF Dependents
<1>. QED  BY <1>1, <1>2, <1>3, <1>4, <1>5, <1>6

LEMMA BuiltinsCalledAre ==
    /\ BuiltinsCalled("get_global_id") \subseteq {"get_global_offset"}
    /\ BuiltinsCalled("get_global_linear_id") \subseteq {"get_global_id", "get_global_size", "get_global_offset"}
    /\ BuiltinsCalled("get_local_linear_id") = {"get_local_id", "get_local_size"}
    /\ BuiltinsCalled("get_enqueued_num_sub_groups") = {"get_enqueued_local_size", "get_max_sub_group_size"}
    /\ \A f : f \notin {"get_global_id", "get_global_linear_id", "get_local_linear_id", "get_enqueued_num_sub_groups"}
              => BuiltinsCalled(f) = {}
<1>1. BuiltinsCalled("get_global_id") \subseteq {"get_global_offset"}
  BY Zenon DEF BuiltinsCalled
<1>2. BuiltinsCalled("get_global_linear_id") \subseteq {"get_global_id", "get_global_size", "get_global_offset"}
  BY Zenon DEF BuiltinsCalled
<1>3. BuiltinsCalled("get_local_linear_id") = {"get_local_id", "get_local_size"}
  BY Zenon DEF BuiltinsCalled
<1>4. BuiltinsCalled("get_enqueued_num_sub_groups") = {"get_enqueued_local_size", "get_max_sub_group_size"}
  BY Zenon DEF BuiltinsCalled
<1>5. ASSUME NEW f, f \notin {"get_global_id", "get_global_linear_id", "get_local_linear_id", "get_enqueued_num_sub_groups"}
      PROVE  BuiltinsCalled(f) = {}
  BY <1>5, Zenon DEF BuiltinsCalled
<1>. QED  BY <1>1, <1>2, <1>3, <1>4, <1>5

LEMMA DependentsComeLater ==
    ASSUME NEW n \in 0..13
    PROVE  /\ Order[n + 1] \notin Done(n)
           /\ Order[n + 1] # "__spirv_WorkgroupSize" => Dependents(Order[n + 1]) \cap Done(n) = {}
<1>. DEFINE f == Order[n + 1]
<1>1. \A j \in 1..n : Order[j] # f
  BY OrderIs
<1>2. \A g \in Done(n) : \E j \in 1..n : g = Order[j]
  BY DEF Done
<1>3. f = "get_global_offset" => n = 0
  BY OrderIs
<1>4. ASSUME f # "__spirv_WorkgroupSize", NEW g \in Dependents(f), NEW j \in 1..n, g = Order[j] PROVE FALSE
  BY <1>4, OrderIs, DependentsAre
<1>. QED  BY <1>1, <1>2, <1>4

LEMMA CallersAre ==
    ASSUME NEW n \in 0..13
    PROVE  /\ Order[n + 1] = "get_global_id" => n = 1
           /\ Order[n + 1] = "get_global_linear_id" => n = 12
           /\ Order[n + 1] = "get_local_linear_id" => n = 13
           /\ Order[n + 1] = "get_enqueued_num_sub_groups" => n = 10
  BY OrderIs

LEMMA CalledAreAsked ==
    ASSUME NEW n \in 0..13, NEW f, f = Order[n + 1], f # "__spirv_WorkgroupSize", NEW g \in BuiltinsCalled(f)
    PROVE  /\ g \in Done(n)
           /\ IsAsked(f) => IsAsked(g)
<1>1. f \in {"get_global_id", "get_global_linear_id", "get_local_linear_id", "get_enqueued_num_sub_groups"}
  BY BuiltinsCalledAre
<1>2. CASE f = "get_global_id"
  <2>0. n = 1
    BY <1>2, CallersAre
  <2>1. n = 1 /\ g = "get_global_offset"
    BY <1>2, <2>0, BuiltinsCalledAre
  <2>. QED  BY <1>2, <2>1, OrderIs, DependentsAre DEF Done, IsAsked
<1>3. CASE f = "get_global_linear_id"
  <2>0. n = 12
    BY <1>3, CallersAre
  <2>1. n = 12 /\ g \in {"get_global_id", "get_global_size", "get_global_offset"}
    BY <1>3, <2>0, BuiltinsCalledAre
  <2>2. g \in Done(n)
    BY <2>1, OrderIs DEF Done
  <2>. QED  BY <1>3, <2>1, <2>2, DependentsAre DEF IsAsked
<1>4. CASE f = "get_local_linear_id"
  <2>0. n = 13
    BY <1>4, CallersAre
  <2>1. n = 13 /\ g \in {"get_local_id", "get_local_size"}
    BY <1>4, <2>0, BuiltinsCalledAre
  <2>2. g \in Done(n)
    BY <2>1, OrderIs DEF Done
  <2>. QED  BY <1>4, <2>1, <2>2, DependentsAre DEF IsAsked
<1>5. CASE f = "get_enqueued_num_sub_groups"
  <2>0. n = 10
    BY <1>5, CallersAre
  <2>1. n = 10 /\ g \in {"get_enqueued_local_size", "get_max_sub_group_size"}
    BY <1>5, <2>0, BuiltinsCalledAre
  <2>2. g \in Done(n)
    BY <2>1, OrderIs DEF Done
  <2>. QED  BY <1>5, <2>1, <2>2, DependentsAre DEF IsAsked
<1>. QED  BY <1>1, <1>2, <1>3, <1>4, <1>5

(***************************************************************************)
(* A push constant that a body reads was declared, for the names the       *)
(* module uses: those of the builtins that end up in the body count too.   *)
(***************************************************************************)
LEMMA PushedAreDeclared ==
    ASSUME NEW f \in Builtins, IsAsked(f), NEW k \in PushedInputs(f),
           wiOptions.nonUniform \/ used.functions \cap {"get_enqueued_local_size", "get_enqueued_num_sub_groups"} = {}
    PROVE  ShouldDeclare(used, wiOptions, k)
<1>1. CASE f = "get_global_offset"
  <2>1. PushedInputs(f) = IF HasOffset /\ OffsetIsPushed THEN {"GlobalOffset"} ELSE {}
    BY <1>1, Zenon DEF PushedInputs
  <2>. QED  BY <2>1 DEF OffsetIsPushed
<1>2. CASE f = "get_enqueued_local_size"
  <2>1. PushedInputs(f) = {"EnqueuedLocalSize"}
    BY <1>2, Zenon DEF PushedInputs
  <2>2. /\ IsEnabled(wiOptions, "EnqueuedLocalSize") = wiOptions.nonUniform
        /\ UsersOf("EnqueuedLocalSize") = {"get_enqueued_local_size", "get_enqueued_num_sub_groups"}
    BY Zenon DEF IsEnabled, UsersOf
  <2>. QED  BY <1>2, <2>1, <2>2, DependentsAre DEF IsAsked, ShouldDeclare
<1>3. CASE f \notin {"get_global_offset", "get_enqueued_local_size"}
  <2>1. PushedInputs(f) =
          (IF ~wiOptions.nonUniform THEN {}
           ELSE CASE f = "get_global_id" -> {"RegionOffset"} [] f = "get_global_size" -> {"GlobalSize"}
                  [] f = "get_num_groups" -> {"NumWorkgroups"} [] f = "get_group_id" -> {"RegionGroupOffset"}
                  [] OTHER -> {})
    BY <1>3, Zenon DEF PushedInputs
  <2>2. wiOptions.nonUniform
    BY <2>1
  <2>3. /\ IsEnabled(wiOptions, "GlobalSize") = wiOptions.nonUniform
        /\ IsEnabled(wiOptions, "RegionOffset") = wiOptions.nonUniform
        /\ IsEnabled(wiOptions, "NumWorkgroups") = wiOptions.nonUniform
        /\ IsEnabled(wiOptions, "RegionGroupOffset") = wiOptions.nonUniform
    BY Zenon DEF IsEnabled
  <2>4. /\ UsersOf("GlobalSize") = {"get_global_size", "get_global_linear_id"}
        /\ UsersOf("RegionOffset") = {"get_global_id", "get_global_linear_id"}
        /\ UsersOf("NumWorkgroups") = {"get_num_groups"}
        /\ UsersOf("RegionGroupOffset") = {"get_group_id"}
    BY Zenon DEF UsersOf
  <2>5. \/ f = "get_global_id" /\ k = "RegionOffset"
        \/ f = "get_global_size" /\ k = "GlobalSize"
        \/ f = "get_num_groups" /\ k = "NumWorkgroups"
        \/ f = "get_group_id" /\ k = "RegionGroupOffset"
    BY <2>1, <2>2
  <2>. QED  BY <2>2, <2>3, <2>4, <2>5, DependentsAre DEF IsAsked, ShouldDeclare
<1>. QED  BY <1>1, <1>2, <1>3

-----------------------------------------------------------------------------
(* Division, for the groups and the rest of a range. *)

LEMMA Division ==
    ASSUME NEW n \in Nat, NEW l \in Nat \ {0}
    PROVE  /\ n \div l \in Nat /\ n % l \in 0..(l - 1)
           /\ n = (n \div l) * l + (n % l)
  BY Z3

LEMMA LargerProduct ==
    ASSUME NEW a \in Int, NEW b \in Int, NEW l \in Nat, a <= b
    PROVE  a * l <= b * l
<1>1. (b - a) * l >= 0
  BY Z3
<1>2. (b - a) * l = b * l - a * l
  BY Z3
<1>. QED  BY <1>1, <1>2

LEMMA QuotientIs ==
    ASSUME NEW n \in Nat, NEW l \in Nat \ {0}, NEW q \in Int, NEW r \in 0..(l - 1), n = q * l + r
    PROVE  n \div l = q
<1>. DEFINE p == n \div l  t == n % l
<1>1. p \in Nat /\ t \in 0..(l - 1) /\ n = p * l + t
  BY Division
<1>. HIDE DEF p, t
<1>2. CASE p < q
  <2>1. (p + 1) * l <= q * l
    BY <1>1, <1>2, LargerProduct
  <2>2. (p + 1) * l = p * l + l
    BY <1>1, Z3
  <2>3. p * l \in Int /\ q * l \in Int /\ (p + 1) * l \in Int
    BY <1>1
  <2>. QED  BY <1>1, <2>1, <2>2, <2>3
<1>3. CASE q < p
  <2>1. (q + 1) * l <= p * l
    BY <1>1, <1>3, LargerProduct
  <2>2. (q + 1) * l = q * l + l
    BY Z3
  <2>3. p * l \in Int /\ q * l \in Int /\ (q + 1) * l \in Int
    BY <1>1
  <2>. QED  BY <1>1, <2>1, <2>2, <2>3
<1>4. p = q
  BY <1>1, <1>2, <1>3
<1>. QED  BY <1>4 DEF p

(* As many groups as it takes. *)
LEMMA RoundedUp ==
    ASSUME NEW n \in Nat, NEW l \in Nat \ {0}
    PROVE  (n + l - 1) \div l = (n \div l) + (IF n % l = 0 THEN 0 ELSE 1)
<1>. DEFINE p == n \div l  t == n % l
<1>1. p \in Nat /\ t \in 0..(l - 1) /\ n = p * l + t
  BY Division
<1>2. n + l - 1 \in Nat
  OBVIOUS
<1>. HIDE DEF p, t
<1>3. p * l \in Int
  BY <1>1
<1>4. CASE t = 0
  <2>1. n + l - 1 = p * l + (l - 1) /\ l - 1 \in 0..(l - 1)
    BY <1>1, <1>3, <1>4
  <2>2. (n + l - 1) \div l = p
    BY <1>1, <1>2, <2>1, QuotientIs
  <2>. QED  BY <1>1, <1>4, <2>2 DEF p, t
<1>5. CASE t # 0
  <2>1. (p + 1) * l = p * l + l
    BY <1>1, Z3
  <2>2. n + l - 1 = (p + 1) * l + (t - 1) /\ t - 1 \in 0..(l - 1)
    BY <1>1, <1>3, <1>5, <2>1
  <2>3. (n + l - 1) \div l = p + 1
    BY <1>1, <1>2, <2>2, QuotientIs
  <2>. QED  BY <1>5, <2>3 DEF p, t
<1>. QED  BY <1>4, <1>5

LEMMA EnoughAreRoundedUp ==
    ASSUME NEW n \in Nat, NEW l \in Nat \ {0}
    PROVE  IsEnoughFor((n + l - 1) \div l, l, n)
<1>. DEFINE q == (n + l - 1) \div l  t == (n + l - 1) % l
<1>1. n + l - 1 \in Nat
  OBVIOUS
<1>2. q \in Nat /\ t \in 0..(l - 1) /\ n + l - 1 = q * l + t
  BY <1>1, Division
<1>. HIDE DEF q, t
<1>3. q * l \in Int /\ (q - 1) * l = q * l - l
  BY <1>2, Z3
<1>4. q * l >= n /\ (q - 1) * l < n
  BY <1>2, <1>3
<1>. QED  BY <1>4 DEF IsEnoughFor, q

-----------------------------------------------------------------------------
(* The place of a work-item in the dimensions of a range the host launches. *)

WorkgroupSizeIsKnown ==
    "WorkgroupSize" \in variables \/ (used.required # <<>> /\ ~wiOptions.nonUniform)

IsLaunched ==
    /\ used \in UsedFunctions
    /\ range \in Ranges /\ IsAccepted(range)
    /\ WorkgroupSizeIsKnown

IsFirstRegion(r, d) == r.first = 0 /\ r.group = 0 /\ r.groups = Whole(d) /\ r.local = range.local[d]
IsLastRegion(r, d) ==
    r.first = Whole(d) * range.local[d] /\ r.group = Whole(d) /\ r.groups = 1 /\ r.local = Rest(d) /\ Rest(d) > 0

LEMMA RangeFacts ==
    ASSUME IsLaunched, NEW d \in Dims
    PROVE  /\ range.size[d] \in Nat /\ range.local[d] \in Nat \ {0} /\ range.offset[d] \in Nat
           /\ Whole(d) \in Nat /\ Rest(d) \in 0..(range.local[d] - 1)
           /\ range.size[d] = Whole(d) * range.local[d] + Rest(d)
           /\ ~wiOptions.nonUniform => Rest(d) = 0
           /\ ~HasOffset => range.offset[d] = 0
<1>1. range.size[d] \in Nat /\ range.local[d] \in Nat \ {0} /\ range.offset[d] \in Nat
  BY RangesAssumption DEF IsLaunched, IsSize
<1>2. /\ Whole(d) \in Nat /\ Rest(d) \in 0..(range.local[d] - 1)
      /\ range.size[d] = Whole(d) * range.local[d] + Rest(d)
  BY <1>1, Division DEF Whole, Rest
<1>3. /\ ~wiOptions.nonUniform => Rest(d) = 0
      /\ ~HasOffset => range.offset[d] = 0
  BY DEF IsLaunched, IsAccepted, Rest
<1>. QED  BY <1>1, <1>2, <1>3

LEMMA ItemFacts ==
    ASSUME IsLaunched, NEW w \in Items, NEW d \in Dims
    PROVE  /\ IsFirstRegion(w[d].region, d) \/ IsLastRegion(w[d].region, d)
           /\ w[d].group \in Nat /\ w[d].local \in Nat
           /\ w[d].group <= w[d].region.groups - 1 /\ w[d].local <= w[d].region.local - 1
           /\ GroupSize(w, d) = w[d].region.local
<1>1. w[d] \in ItemsOf(d)
  <2>1. PICK x \in ItemsOf(1), y \in ItemsOf(2), z \in ItemsOf(3) : w = <<x, y, z>>
    BY DEF Items
  <2>2. d = 1 \/ d = 2 \/ d = 3
    BY DEF Dims
  <2>. QED  BY <2>1, <2>2
<1>2. PICK r \in Regions(d) : w[d] \in [region : {r}, group : 0 .. r.groups - 1, local : 0 .. r.local - 1]
  BY <1>1 DEF ItemsOf
<1>3. IsFirstRegion(r, d) \/ IsLastRegion(r, d)
  BY <1>2 DEF Regions, IsFirstRegion, IsLastRegion
<1>4. w[d].region = r /\ w[d].group \in 0..(r.groups - 1) /\ w[d].local \in 0..(r.local - 1)
  BY <1>2
<1>5. r.groups \in Nat /\ r.local \in Nat
  BY <1>3, RangeFacts DEF IsFirstRegion, IsLastRegion
<1>6. ASSUME "WorkgroupSize" \notin variables PROVE used.required[d] = r.local
  <2>1. used.required # <<>> /\ ~wiOptions.nonUniform
    BY <1>6 DEF IsLaunched, WorkgroupSizeIsKnown
  <2>2. range.local = used.required /\ Rest(d) = 0
    BY <2>1, RangeFacts DEF IsLaunched, IsAccepted
  <2>. QED  BY <1>3, <2>2 DEF IsFirstRegion, IsLastRegion
<1>. QED  BY <1>3, <1>4, <1>5, <1>6 DEF GroupSize

LEMMA IndexIs ==
    ASSUME NEW d \in Dims
    PROVE  Index(d - 1) = d /\ \A v, u : InBoundsOr(d - 1, v, u) = v
  BY DEF Dims, Index, InBoundsOr

LEMMA VariableIs ==
    ASSUME NEW w, NEW d
    PROVE  /\ Variable("GlobalInvocationId", w, d) = w[d].group * GroupSize(w, d) + w[d].local
           /\ Variable("LocalInvocationId", w, d) = w[d].local
           /\ Variable("WorkgroupId", w, d) = w[d].group
           /\ Variable("NumWorkgroups", w, d) = w[d].region.groups
           /\ Variable("WorkgroupSize", w, d) = GroupSize(w, d)
           /\ Variable("GlobalOffset", w, d) = range.offset[d]
<1>1. Variable("GlobalInvocationId", w, d) = w[d].group * GroupSize(w, d) + w[d].local
  BY Zenon DEF Variable
<1>2. Variable("LocalInvocationId", w, d) = w[d].local /\ Variable("WorkgroupId", w, d) = w[d].group
  BY Zenon DEF Variable
<1>3. Variable("NumWorkgroups", w, d) = w[d].region.groups /\ Variable("WorkgroupSize", w, d) = GroupSize(w, d)
  BY Zenon DEF Variable
<1>4. Variable("GlobalOffset", w, d) = range.offset[d]
  BY Zenon DEF Variable
<1>. QED  BY <1>1, <1>2, <1>3, <1>4

LEMMA PushedIs ==
    ASSUME NEW w, NEW d
    PROVE  /\ Pushed("GlobalOffset", w, d) = range.offset[d]
           /\ Pushed("RegionOffset", w, d) = range.offset[d] + w[d].region.first
           /\ Pushed("RegionGroupOffset", w, d) = w[d].region.group
           /\ Pushed("GlobalSize", w, d) = range.size[d]
           /\ Pushed("NumWorkgroups", w, d) = Whole(d) + (IF Rest(d) = 0 THEN 0 ELSE 1)
           /\ Pushed("EnqueuedLocalSize", w, d) = range.local[d]
<1>1. Pushed("GlobalOffset", w, d) = range.offset[d]
  BY Zenon DEF Pushed
<1>2. Pushed("RegionOffset", w, d) = range.offset[d] + w[d].region.first
  BY Zenon DEF Pushed
<1>3. Pushed("RegionGroupOffset", w, d) = w[d].region.group /\ Pushed("GlobalSize", w, d) = range.size[d]
  BY Zenon DEF Pushed
<1>4. Pushed("NumWorkgroups", w, d) = Whole(d) + (IF Rest(d) = 0 THEN 0 ELSE 1)
  BY Zenon DEF Pushed
<1>5. Pushed("EnqueuedLocalSize", w, d) = range.local[d]
  BY Zenon DEF Pushed
<1>. QED  BY <1>1, <1>2, <1>3, <1>4, <1>5

-----------------------------------------------------------------------------
(* What the bodies compute, by builtin. *)

LEMMA GlobalOffsetIs ==
    ASSUME IsLaunched, NEW w \in Items, NEW d \in Dims
    PROVE  GlobalOffset(w, d - 1) = range.offset[d]
<1>1. CASE ~HasOffset
  BY <1>1, RangeFacts DEF GlobalOffset
<1>2. CASE HasOffset
  BY <1>2, IndexIs, VariableIs, PushedIs DEF GlobalOffset
<1>. QED  BY <1>1, <1>2

LEMMA GlobalIDIs ==
    ASSUME IsLaunched, NEW w \in Items, NEW d \in Dims
    PROVE  /\ GlobalID(w, d - 1) = range.offset[d] + At(w, d)
           /\ At(w, d) \in Nat
<1>. DEFINE r == w[d].region
<1>1. /\ IsFirstRegion(r, d) \/ IsLastRegion(r, d)
      /\ w[d].group \in Nat /\ w[d].local \in Nat /\ GroupSize(w, d) = r.local
  BY ItemFacts
<1>2. /\ range.offset[d] \in Nat /\ range.local[d] \in Nat /\ Whole(d) \in Nat /\ Rest(d) \in Nat
      /\ ~wiOptions.nonUniform => Rest(d) = 0
  BY RangeFacts
<1>3. Whole(d) * range.local[d] \in Nat
  BY <1>2
<1>4. r.first \in Nat /\ r.local \in Nat
  BY <1>1, <1>2, <1>3 DEF IsFirstRegion, IsLastRegion
<1>5. w[d].group * r.local \in Nat
  BY <1>1, <1>4
<1>6. At(w, d) = r.first + w[d].group * r.local + w[d].local
  BY DEF At
<1>. HIDE DEF r
<1>7. CASE wiOptions.nonUniform
  <2>1. GlobalID(w, d - 1) = (w[d].group * r.local + w[d].local) + (range.offset[d] + r.first)
    BY <1>1, <1>7, IndexIs, VariableIs, PushedIs DEF GlobalID, r
  <2>. QED  BY <1>1, <1>2, <1>4, <1>5, <1>6, <2>1
<1>8. CASE ~wiOptions.nonUniform
  <2>1. r.first = 0
    BY <1>1, <1>2, <1>8 DEF IsFirstRegion, IsLastRegion
  <2>2. GlobalID(w, d - 1) = (w[d].group * r.local + w[d].local) + range.offset[d]
    BY <1>1, <1>8, IndexIs, VariableIs, GlobalOffsetIs DEF GlobalID, r
  <2>. QED  BY <1>1, <1>2, <1>4, <1>5, <1>6, <2>1, <2>2
<1>. QED  BY <1>7, <1>8

LEMMA LocalIDIs ==
    ASSUME IsLaunched, NEW w \in Items, NEW d \in Dims
    PROVE  /\ LocalID(w, d - 1) = w[d].local
           /\ LocalID(w, d - 1) = At(w, d) - Start(w, d)
<1>. DEFINE r == w[d].region
<1>1. LocalID(w, d - 1) = w[d].local
  BY IndexIs, VariableIs DEF LocalID
<1>2. /\ IsFirstRegion(r, d) \/ IsLastRegion(r, d)
      /\ w[d].group \in Nat /\ w[d].local \in Nat
  BY ItemFacts
<1>3. range.local[d] \in Nat /\ Whole(d) \in Nat /\ Rest(d) \in Nat
  BY RangeFacts
<1>4. Whole(d) * range.local[d] \in Nat
  BY <1>3
<1>5. r.first \in Nat /\ r.local \in Nat
  BY <1>2, <1>3, <1>4 DEF IsFirstRegion, IsLastRegion
<1>6. w[d].group * r.local \in Nat
  BY <1>2, <1>5
<1>7. At(w, d) = (r.first + w[d].group * r.local) + w[d].local /\ Start(w, d) = r.first + w[d].group * r.local
  BY <1>2, <1>5, <1>6 DEF At, Start
<1>. QED  BY <1>1, <1>2, <1>5, <1>6, <1>7

LEMMA GroupIDIs ==
    ASSUME IsLaunched, NEW w \in Items, NEW d \in Dims
    PROVE  GroupID(w, d - 1) = Start(w, d) \div range.local[d]
<1>. DEFINE r == w[d].region  L == range.local[d]
<1>1. /\ IsFirstRegion(r, d) \/ IsLastRegion(r, d)
      /\ w[d].group \in Nat /\ w[d].group <= r.groups - 1
  BY ItemFacts
<1>2. L \in Nat \ {0} /\ Whole(d) \in Nat /\ Rest(d) \in Nat /\ (~wiOptions.nonUniform => Rest(d) = 0)
  BY RangeFacts
<1>3. GroupID(w, d - 1) = w[d].group + (IF wiOptions.nonUniform THEN r.group ELSE 0)
  BY IndexIs, VariableIs, PushedIs DEF GroupID
<1>4. ASSUME NEW k \in Nat PROVE (k * L) \div L = k
  <2>1. k * L \in Nat /\ k * L = k * L + 0 /\ 0 \in 0..(L - 1)
    BY <1>2
  <2>. QED  BY <1>2, <2>1, QuotientIs
<1>5. CASE IsFirstRegion(r, d)
  <2>1. Start(w, d) = w[d].group * L
    <3>1. w[d].group * L \in Nat
      BY <1>1, <1>2
    <3>. QED  BY <1>5, <3>1 DEF Start, IsFirstRegion
  <2>2. GroupID(w, d - 1) = w[d].group
    BY <1>1, <1>3, <1>5 DEF IsFirstRegion
  <2>. QED  BY <1>1, <1>4, <2>1, <2>2
<1>6. CASE IsLastRegion(r, d)
  <2>1. w[d].group = 0 /\ wiOptions.nonUniform
    BY <1>1, <1>2, <1>6 DEF IsLastRegion
  <2>2. Start(w, d) = Whole(d) * L
    <3>1. Whole(d) * L \in Nat
      BY <1>2
    <3>2. w[d].group * r.local = 0
      BY <1>2, <1>6, <2>1 DEF IsLastRegion
    <3>. QED  BY <1>6, <3>1, <3>2 DEF Start, IsLastRegion
  <2>3. GroupID(w, d - 1) = Whole(d)
    BY <1>2, <1>3, <1>6, <2>1 DEF IsLastRegion
  <2>. QED  BY <1>2, <1>4, <2>2, <2>3
<1>. QED  BY <1>1, <1>5, <1>6

LEMMA SmallerOfTwo ==
    ASSUME NEW a \in Int, NEW b \in Int, a <= b
    PROVE  Min({a, b}) = a
  BY DEF Min

LEMMA LocalSizeIs ==
    ASSUME IsLaunched, NEW w \in Items, NEW d \in Dims
    PROVE  /\ LocalSize(w, d - 1) = w[d].region.local
           /\ LocalSize(w, d - 1) = Min({range.local[d], range.size[d] - Start(w, d)})
<1>. DEFINE r == w[d].region  L == range.local[d]  S == range.size[d]
<1>1. /\ IsFirstRegion(r, d) \/ IsLastRegion(r, d)
      /\ w[d].group \in Nat /\ w[d].group <= r.groups - 1 /\ GroupSize(w, d) = r.local
  BY ItemFacts
<1>2. /\ L \in Nat \ {0} /\ S \in Nat /\ Whole(d) \in Nat /\ Rest(d) \in 0..(L - 1)
      /\ S = Whole(d) * L + Rest(d)
  BY RangeFacts
<1>3. LocalSize(w, d - 1) = r.local
  BY <1>1, IndexIs, VariableIs DEF LocalSize
<1>4. CASE IsFirstRegion(r, d)
  <2>1. Start(w, d) = w[d].group * L /\ w[d].group * L \in Nat
    <3>1. w[d].group * L \in Nat
      BY <1>1, <1>2
    <3>. QED  BY <1>4, <3>1 DEF Start, IsFirstRegion
  <2>2. (w[d].group + 1) * L <= Whole(d) * L
    BY <1>1, <1>2, <1>4, LargerProduct DEF IsFirstRegion
  <2>3. (w[d].group + 1) * L = w[d].group * L + L
    BY <1>1, <1>2, Z3
  <2>4. Whole(d) * L \in Nat
    BY <1>2
  <2>5. L <= S - Start(w, d) /\ S - Start(w, d) \in Int
    BY <1>2, <2>1, <2>2, <2>3, <2>4
  <2>. QED  BY <1>2, <1>3, <1>4, <2>5, SmallerOfTwo DEF IsFirstRegion
<1>5. CASE IsLastRegion(r, d)
  <2>1. Whole(d) * L \in Nat /\ w[d].group * r.local = 0
    BY <1>1, <1>2, <1>5 DEF IsLastRegion
  <2>2. Start(w, d) = Whole(d) * L
    BY <1>5, <2>1 DEF Start, IsLastRegion
  <2>3. S - Start(w, d) = Rest(d)
    BY <1>2, <2>1, <2>2
  <2>4. {L, Rest(d)} = {Rest(d), L} /\ Rest(d) <= L /\ Rest(d) \in Int
    BY <1>2
  <2>. QED  BY <1>2, <1>3, <1>5, <2>3, <2>4, SmallerOfTwo DEF IsLastRegion
<1>. QED  BY <1>1, <1>3, <1>4, <1>5

LEMMA NumGroupsIs ==
    ASSUME IsLaunched, NEW w \in Items, NEW d \in Dims
    PROVE  NumGroups(w, d - 1) = (range.size[d] + range.local[d] - 1) \div range.local[d]
<1>1. /\ range.local[d] \in Nat \ {0} /\ range.size[d] \in Nat
      /\ Whole(d) \in Nat /\ (~wiOptions.nonUniform => Rest(d) = 0)
  BY RangeFacts
<1>2. (range.size[d] + range.local[d] - 1) \div range.local[d] = Whole(d) + (IF Rest(d) = 0 THEN 0 ELSE 1)
  BY <1>1, RoundedUp DEF Whole, Rest
<1>3. CASE wiOptions.nonUniform
  BY <1>2, <1>3, IndexIs, PushedIs DEF NumGroups
<1>4. CASE ~wiOptions.nonUniform
  <2>1. w[d].region.groups = Whole(d)
    BY <1>1, <1>4, ItemFacts DEF IsFirstRegion, IsLastRegion
  <2>. QED  BY <1>1, <1>2, <1>4, <2>1, IndexIs, VariableIs DEF NumGroups
<1>. QED  BY <1>3, <1>4

LEMMA GlobalSizeIs ==
    ASSUME IsLaunched, NEW w \in Items, NEW d \in Dims
    PROVE  GlobalSize(w, d - 1) = range.size[d]
<1>1. /\ range.local[d] \in Nat \ {0} /\ range.size[d] \in Nat /\ Whole(d) \in Nat
      /\ range.size[d] = Whole(d) * range.local[d] + Rest(d)
      /\ (~wiOptions.nonUniform => Rest(d) = 0)
  BY RangeFacts
<1>2. CASE wiOptions.nonUniform
  BY <1>2, IndexIs, PushedIs DEF GlobalSize
<1>3. CASE ~wiOptions.nonUniform
  <2>1. w[d].region.groups = Whole(d) /\ GroupSize(w, d) = range.local[d]
    BY <1>1, <1>3, ItemFacts DEF IsFirstRegion, IsLastRegion
  <2>2. GlobalSize(w, d - 1) = range.local[d] * Whole(d)
    BY <1>3, <2>1, IndexIs, VariableIs DEF GlobalSize
  <2>3. range.local[d] * Whole(d) = Whole(d) * range.local[d] /\ Whole(d) * range.local[d] \in Nat
    BY <1>1
  <2>. QED  BY <1>1, <1>3, <2>2, <2>3
<1>. QED  BY <1>2, <1>3

LEMMA EnqueuedLocalSizeIs ==
    ASSUME IsLaunched, NEW w \in Items, NEW d \in Dims
    PROVE  EnqueuedLocalSize(w, d - 1) = range.local[d]
  BY IndexIs, PushedIs DEF EnqueuedLocalSize

LEMMA BodyIsOpenCL ==
    ASSUME IsLaunched, NEW w \in Items, NEW d \in Dims, NEW f \in ByDimension
    PROVE  Body(f, w, d - 1) = OpenCL(f, w, d)
<1>1. Body("get_global_offset", w, d - 1) = OpenCL("get_global_offset", w, d)
  <2>1. Body("get_global_offset", w, d - 1) = GlobalOffset(w, d - 1)
    BY Zenon DEF Body
  <2>2. OpenCL("get_global_offset", w, d) = range.offset[d]
    BY Zenon DEF OpenCL
  <2>. QED  BY <2>1, <2>2, GlobalOffsetIs
<1>2. Body("get_global_id", w, d - 1) = OpenCL("get_global_id", w, d)
  <2>1. Body("get_global_id", w, d - 1) = GlobalID(w, d - 1)
    BY Zenon DEF Body
  <2>2. OpenCL("get_global_id", w, d) = range.offset[d] + At(w, d)
    BY Zenon DEF OpenCL
  <2>. QED  BY <2>1, <2>2, GlobalIDIs
<1>3. Body("get_local_id", w, d - 1) = OpenCL("get_local_id", w, d)
  <2>1. Body("get_local_id", w, d - 1) = LocalID(w, d - 1)
    BY Zenon DEF Body
  <2>2. OpenCL("get_local_id", w, d) = At(w, d) - Start(w, d)
    BY Zenon DEF OpenCL
  <2>. QED  BY <2>1, <2>2, LocalIDIs
<1>4. Body("get_group_id", w, d - 1) = OpenCL("get_group_id", w, d)
  <2>1. Body("get_group_id", w, d - 1) = GroupID(w, d - 1)
    BY Zenon DEF Body
  <2>2. OpenCL("get_group_id", w, d) = Start(w, d) \div range.local[d]
    BY Zenon DEF OpenCL
  <2>. QED  BY <2>1, <2>2, GroupIDIs
<1>5. Body("get_local_size", w, d - 1) = OpenCL("get_local_size", w, d)
  <2>1. Body("get_local_size", w, d - 1) = LocalSize(w, d - 1)
    BY Zenon DEF Body
  <2>2. OpenCL("get_local_size", w, d) = Min({range.local[d], range.size[d] - Start(w, d)})
    BY Zenon DEF OpenCL
  <2>. QED  BY <2>1, <2>2, LocalSizeIs
<1>6. Body("get_num_groups", w, d - 1) = OpenCL("get_num_groups", w, d)
  <2>1. Body("get_num_groups", w, d - 1) = NumGroups(w, d - 1)
    BY Zenon DEF Body
  <2>2. OpenCL("get_num_groups", w, d) = (range.size[d] + range.local[d] - 1) \div range.local[d]
    BY Zenon DEF OpenCL
  <2>. QED  BY <2>1, <2>2, NumGroupsIs
<1>7. Body("get_global_size", w, d - 1) = OpenCL("get_global_size", w, d)
  <2>1. Body("get_global_size", w, d - 1) = GlobalSize(w, d - 1)
    BY Zenon DEF Body
  <2>2. OpenCL("get_global_size", w, d) = range.size[d]
    BY Zenon DEF OpenCL
  <2>. QED  BY <2>1, <2>2, GlobalSizeIs
<1>8. Body("get_enqueued_local_size", w, d - 1) = OpenCL("get_enqueued_local_size", w, d)
  <2>1. Body("get_enqueued_local_size", w, d - 1) = EnqueuedLocalSize(w, d - 1)
    BY Zenon DEF Body
  <2>2. OpenCL("get_enqueued_local_size", w, d) = range.local[d]
    BY Zenon DEF OpenCL
  <2>. QED  BY <2>1, <2>2, EnqueuedLocalSizeIs
<1>. QED  BY <1>1, <1>2, <1>3, <1>4, <1>5, <1>6, <1>7, <1>8 DEF ByDimension

(* A dimension there is not: 1 for a size or a count, 0 for a place. *)
LEMMA BodyBeyond ==
    ASSUME NEW w, NEW f \in ByDimension
    PROVE  Body(f, w, 3) = Beyond(f)
<1>1. \A v, u : InBoundsOr(3, v, u) = u
  BY DEF InBoundsOr
<1>2. Body("get_global_offset", w, 3) = 0
  BY <1>1, Zenon DEF Body, GlobalOffset
<1>3. Body("get_global_id", w, 3) = 0
  <2>1. Body("get_global_id", w, 3) = GlobalID(w, 3) /\ GlobalOffset(w, 3) = 0
    BY <1>1, Zenon DEF Body, GlobalOffset
  <2>2. GlobalID(w, 3) = 0 + (IF wiOptions.nonUniform THEN 0 ELSE GlobalOffset(w, 3))
    BY <1>1, Zenon DEF GlobalID
  <2>. QED  BY <2>1, <2>2
<1>4. Body("get_local_id", w, 3) = 0
  BY <1>1, Zenon DEF Body, LocalID
<1>5. Body("get_group_id", w, 3) = 0
  <2>1. Body("get_group_id", w, 3) = GroupID(w, 3)
    BY Zenon DEF Body
  <2>2. GroupID(w, 3) = 0 + (IF wiOptions.nonUniform THEN 0 ELSE 0)
    BY <1>1, Zenon DEF GroupID
  <2>. QED  BY <2>1, <2>2
<1>6. /\ Body("get_local_size", w, 3) = 1 /\ Body("get_num_groups", w, 3) = 1
      /\ Body("get_global_size", w, 3) = 1 /\ Body("get_enqueued_local_size", w, 3) = 1
  BY <1>1, Zenon DEF Body, LocalSize, NumGroups, GlobalSize, EnqueuedLocalSize
<1>. QED  BY <1>2, <1>3, <1>4, <1>5, <1>6 DEF Beyond, ByDimension

LEMMA LinearIDsAre ==
    ASSUME IsLaunched, NEW w \in Items
    PROVE  /\ GlobalLinearID(w) = Linear([d \in Dims |-> At(w, d)], range.size)
           /\ LocalLinearID(w) = Linear([d \in Dims |-> w[d].local], [d \in Dims |-> w[d].region.local])
<1>1. ASSUME NEW d \in Dims
      PROVE  GlobalID(w, d - 1) - (IF HasOffset THEN GlobalOffset(w, d - 1) ELSE 0) = At(w, d)
  <2>1. /\ GlobalID(w, d - 1) = range.offset[d] + At(w, d) /\ At(w, d) \in Nat
        /\ GlobalOffset(w, d - 1) = range.offset[d]
    BY GlobalIDIs, GlobalOffsetIs
  <2>2. range.offset[d] \in Nat /\ (~HasOffset => range.offset[d] = 0)
    BY RangeFacts
  <2>. QED  BY <2>1, <2>2
<1>2. [d \in Dims |-> GlobalID(w, d - 1) - (IF HasOffset THEN GlobalOffset(w, d - 1) ELSE 0)]
        = [d \in Dims |-> At(w, d)]
  BY <1>1
<1>3. [d \in Dims |-> GlobalSize(w, d - 1)] = [d \in Dims |-> range.size[d]]
  BY GlobalSizeIs
<1>4. \A n, s, t : (\A d \in Dims : s[d] = t[d]) => Linear(n, s) = Linear(n, t)
  BY DEF Linear, Dims
<1>5. GlobalLinearID(w) = Linear([d \in Dims |-> At(w, d)], [d \in Dims |-> range.size[d]])
  BY <1>2, <1>3, Zenon DEF GlobalLinearID
<1>6. GlobalLinearID(w) = Linear([d \in Dims |-> At(w, d)], range.size)
  BY <1>4, <1>5
<1>7. /\ [d \in Dims |-> LocalID(w, d - 1)] = [d \in Dims |-> w[d].local]
      /\ [d \in Dims |-> LocalSize(w, d - 1)] = [d \in Dims |-> w[d].region.local]
  BY LocalIDIs, LocalSizeIs
<1>8. LocalLinearID(w) = Linear([d \in Dims |-> w[d].local], [d \in Dims |-> w[d].region.local])
  BY <1>7, Zenon DEF LocalLinearID
<1>. QED  BY <1>6, <1>8

LEMMA EnqueuedNumSubGroupsIs ==
    ASSUME IsLaunched, NEW w \in Items, NEW max \in SubgroupSizes
    PROVE  IsEnoughFor(EnqueuedNumSubGroups(w, max), max, range.local[1] * range.local[2] * range.local[3])
<1>. DEFINE P == range.local[1] * range.local[2] * range.local[3]
<1>1. 1 \in Dims /\ 2 \in Dims /\ 3 \in Dims
  BY DEF Dims
<1>2. /\ EnqueuedLocalSize(w, 0) = range.local[1] /\ EnqueuedLocalSize(w, 1) = range.local[2]
      /\ EnqueuedLocalSize(w, 2) = range.local[3]
  <2>1. 1 - 1 = 0 /\ 2 - 1 = 1 /\ 3 - 1 = 2
    OBVIOUS
  <2>. QED  BY <1>1, <2>1, EnqueuedLocalSizeIs
<1>3. EnqueuedNumSubGroups(w, max) = (P + max - 1) \div max
  BY <1>2 DEF EnqueuedNumSubGroups
<1>4. P \in Nat
  <2>1. range.local[1] \in Nat /\ range.local[2] \in Nat /\ range.local[3] \in Nat
    BY <1>1, RangeFacts
  <2>. QED  BY <2>1
<1>5. max \in Nat \ {0}
  BY SubgroupSizesAssumption
<1>. QED  BY <1>3, <1>4, <1>5, EnoughAreRoundedUp

-----------------------------------------------------------------------------
(***************************************************************************)
(* The inductive invariant. What is in the module are the builtins it      *)
(* calls and those looked at that are asked for; the variables are inputs  *)
(* of builtins looked at, and WorkgroupSize; a builtin looked at that is   *)
(* asked for is sound; the host launches when all have been looked at.     *)
(***************************************************************************)
AskedOf(n) == {f \in Done(n) : IsAsked(f)}
InputsOf(n) == UNION {Inputs(f) : f \in Done(n)}

WorkItemsInv ==
    /\ used \in UsedFunctions
    /\ wiOptions.nonUniform \/ used.functions \cap {"get_enqueued_local_size", "get_enqueued_num_sub_groups"} = {}
    /\ step \in 0..14
    /\ functions = used.functions \cup AskedOf(step)
    /\ \A v \in variables : v \in InputsOf(step) \/ (v = "WorkgroupSize" /\ step >= 12)
    /\ AskedOf(step) \subseteq sound
    /\ step >= 12 => WorkgroupSizeIsKnown
    /\ range # NoRange => step = 14 /\ range \in Ranges /\ IsAccepted(range)

LEMMA WorkItemsInvInit == WorkItemsInit => WorkItemsInv
<1>. SUFFICES ASSUME WorkItemsInit PROVE WorkItemsInv
  OBVIOUS
<1>1. AskedOf(0) = {}
  BY DoneFacts DEF AskedOf
<1>2. step \in 0..14 /\ ~(step >= 12)
  BY DEF WorkItemsInit
<1>3. /\ used \in UsedFunctions /\ range = NoRange /\ variables = {}
      /\ wiOptions.nonUniform \/ used.functions \cap {"get_enqueued_local_size", "get_enqueued_num_sub_groups"} = {}
  BY Zenon DEF WorkItemsInit
<1>4. functions = used.functions \cup AskedOf(step) /\ AskedOf(step) \subseteq sound
  BY <1>1 DEF WorkItemsInit
<1>. QED  BY <1>2, <1>3, <1>4, Zenon DEF WorkItemsInv

LEMMA WorkItemsInvDefine == WorkItemsInv /\ DefineBuiltin => WorkItemsInv'
<1>. SUFFICES ASSUME WorkItemsInv, DefineBuiltin PROVE WorkItemsInv'
  OBVIOUS
<1>. DEFINE n == step  f == Order[n + 1]
<1>1. /\ n \in 0..13 /\ f # "__spirv_WorkgroupSize" /\ step' = n + 1
      /\ used' = used /\ wiOptions' = wiOptions /\ range' = range
  BY OrderIs DEF WorkItemsInv, DefineBuiltin
<1>2. /\ IsNeeded(f) => /\ functions' = functions \cup {f}
                        /\ variables' = variables \cup Inputs(f)
                        /\ sound' = IF IsSound(f) THEN sound \cup {f} ELSE sound
      /\ ~IsNeeded(f) => functions' = functions /\ variables' = variables /\ sound' = sound
  BY DEF DefineBuiltin
<1>3. Done(n + 1) = Done(n) \cup {f} /\ f \notin Done(n) /\ f \in Builtins
  <2>1. Done(n + 1) = Done(n) \cup {f} /\ f \notin Done(n)
    BY <1>1, DoneFacts, DependentsComeLater
  <2>. QED  BY <1>1, <2>1, OrderIs DEF Builtins
<1>. DEFINE asked == AskedOf(n)  inputs == InputsOf(n)
<1>4. /\ functions = used.functions \cup asked /\ asked \subseteq sound
      /\ \A v \in variables : v \in inputs \/ (v = "WorkgroupSize" /\ n >= 12)
      /\ wiOptions.nonUniform \/ used.functions \cap {"get_enqueued_local_size", "get_enqueued_num_sub_groups"} = {}
  BY DEF WorkItemsInv
<1>5. asked \subseteq Done(n) /\ \A g \in Done(n) : IsAsked(g) => g \in asked
  BY DEF AskedOf
<1>6. AskedOf(n + 1) = asked \cup (IF IsAsked(f) THEN {f} ELSE {})
  BY <1>3 DEF AskedOf
<1>7. \A v : v \in InputsOf(n + 1) <=> v \in inputs \/ v \in Inputs(f)
  BY <1>3 DEF InputsOf
<1>8. \A g \in Done(n) : Inputs(g) \subseteq inputs
  BY DEF InputsOf
<1>9. \A v \in inputs : \E g \in Done(n) : v \in Inputs(g)
  BY DEF InputsOf
<1>10. AskedOf(step)' = AskedOf(n + 1)
  BY <1>1 DEF AskedOf, IsAsked, Done
<1>11. InputsOf(step)' = InputsOf(n + 1)
  <2>1. ASSUME NEW g PROVE Inputs(g)' = Inputs(g)
    BY <1>1, Zenon DEF Inputs, HasOffset, OffsetIsPushed
  <2>. QED  BY <1>1, <2>1 DEF InputsOf, Done
<1>. HIDE DEF n, f, asked, inputs
<1>12. IsNeeded(f) <=> IsAsked(f)
  <2>1. ({f} \cup Dependents(f)) \cap asked = {}
    BY <1>1, <1>3, <1>5, DependentsComeLater DEF f
  <2>. QED  BY <1>4, <2>1 DEF IsNeeded, IsAsked
<1>13. IsAsked(f) => IsSound(f)
  <2>. SUFFICES ASSUME IsAsked(f) PROVE IsSound(f)
    OBVIOUS
  <2>1. ASSUME MakesItsOwn(f), NEW v \in Inputs(f), v \in variables PROVE FALSE
    <3>1. \A g \in Done(n) : v \notin Inputs(g)
      BY <1>1, <2>1, InputsAreNew DEF f
    <3>2. n >= 12 => v # "WorkgroupSize"
      BY <1>1, <2>1, InputsAreNew DEF f
    <3>. QED  BY <1>4, <1>9, <2>1, <3>1, <3>2
  <2>2. ASSUME NEW k \in PushedInputs(f) PROVE ShouldDeclare(used, wiOptions, k)
    BY <1>3, <1>4, <2>2, PushedAreDeclared
  <2>3. BuiltinsCalled(f) \subseteq sound
    BY <1>1, <1>4, <1>5, CalledAreAsked DEF f
  <2>. QED  BY <2>1, <2>2, <2>3 DEF IsSound
<1>14. functions' = used.functions \cup AskedOf(n + 1) /\ AskedOf(n + 1) \subseteq sound'
  BY <1>2, <1>4, <1>6, <1>12, <1>13
<1>15. \A v \in variables' : v \in InputsOf(n + 1) \/ (v = "WorkgroupSize" /\ step' >= 12)
  <2>1. n >= 12 => step' >= 12
    BY <1>1
  <2>. QED  BY <1>2, <1>4, <1>7, <2>1
<1>16. (step >= 12 => WorkgroupSizeIsKnown)'
  <2>1. step' >= 12 => n >= 12
    BY <1>1, OrderIs DEF f
  <2>2. n >= 12 => WorkgroupSizeIsKnown
    BY DEF WorkItemsInv, n
  <2>3. variables \subseteq variables'
    BY <1>2
  <2>. QED  BY <1>1, <2>1, <2>2, <2>3 DEF WorkgroupSizeIsKnown
<1>17. range = NoRange
  BY <1>1 DEF WorkItemsInv, n
<1>18. used \in UsedFunctions /\ step' \in 0..14
  BY <1>1 DEF WorkItemsInv
<1>. QED  BY <1>1, <1>4, <1>10, <1>11, <1>14, <1>15, <1>16, <1>17, <1>18 DEF WorkItemsInv

LEMMA WorkItemsInvAdd == WorkItemsInv /\ AddWorkgroupSizeIfRequired => WorkItemsInv'
<1>. SUFFICES ASSUME WorkItemsInv, AddWorkgroupSizeIfRequired PROVE WorkItemsInv'
  OBVIOUS
<1>1. /\ step = 11 /\ step' = 12
      /\ used' = used /\ wiOptions' = wiOptions /\ range' = range /\ functions' = functions /\ sound' = sound
  BY OrderIs DEF WorkItemsInv, AddWorkgroupSizeIfRequired
<1>2. Done(12) = Done(11)
  <2>1. Done(11 + 1) = Done(11) \cup ({Order[11 + 1]} \ {"__spirv_WorkgroupSize"})
    BY DoneFacts
  <2>2. 11 + 1 = 12
    OBVIOUS
  <2>3. Done(12) = Done(11) \cup ({Order[12]} \ {"__spirv_WorkgroupSize"})
    BY <2>1, <2>2
  <2>. QED  BY <2>3, OrderIs
<1>3. AskedOf(step)' = AskedOf(step)
  BY <1>1, <1>2 DEF AskedOf, IsAsked
<1>4. InputsOf(step)' = InputsOf(step)
  <2>1. ASSUME NEW g PROVE Inputs(g)' = Inputs(g)
    BY <1>1, Zenon DEF Inputs, HasOffset, OffsetIsPushed
  <2>. QED  BY <1>1, <1>2, <2>1 DEF InputsOf
<1>5. variables' = IF used.required = <<>> \/ wiOptions.nonUniform
                   THEN variables \cup {"WorkgroupSize"} ELSE variables
  BY DEF AddWorkgroupSizeIfRequired
<1>6. WorkgroupSizeIsKnown'
  BY <1>1, <1>5 DEF WorkgroupSizeIsKnown
<1>7. \A v \in variables' : v \in InputsOf(step) \/ (v = "WorkgroupSize" /\ step' >= 12)
  <2>1. \A v \in variables : v \in InputsOf(step)
    BY <1>1 DEF WorkItemsInv
  <2>. QED  BY <1>1, <1>5, <2>1
<1>8. range = NoRange
  BY <1>1 DEF WorkItemsInv
<1>. QED  BY <1>1, <1>3, <1>4, <1>6, <1>7, <1>8 DEF WorkItemsInv

LEMMA WorkItemsInvLaunch == WorkItemsInv /\ Launch => WorkItemsInv'
<1>. SUFFICES ASSUME WorkItemsInv, Launch PROVE WorkItemsInv'
  OBVIOUS
<1>1. /\ step = 14 /\ step' = step /\ range' \in Ranges /\ IsAccepted(range')
      /\ used' = used /\ wiOptions' = wiOptions /\ functions' = functions /\ variables' = variables /\ sound' = sound
  BY OrderIs DEF WorkItemsInv, Launch
<1>2. AskedOf(step)' = AskedOf(step)
  BY <1>1 DEF AskedOf, IsAsked, Done
<1>3. InputsOf(step)' = InputsOf(step)
  <2>1. ASSUME NEW g PROVE Inputs(g)' = Inputs(g)
    BY <1>1, Zenon DEF Inputs, HasOffset, OffsetIsPushed
  <2>. QED  BY <1>1, <2>1 DEF InputsOf, Done
<1>4. IsAccepted(range)'
  BY <1>1 DEF IsAccepted, HasOffset
<1>5. WorkgroupSizeIsKnown'
  BY <1>1 DEF WorkgroupSizeIsKnown, WorkItemsInv
<1>. QED  BY <1>1, <1>2, <1>3, <1>4, <1>5 DEF WorkItemsInv

LEMMA WorkItemsInvStutters == WorkItemsInv /\ UNCHANGED wiVars => WorkItemsInv'
<1>. SUFFICES ASSUME WorkItemsInv, UNCHANGED wiVars PROVE WorkItemsInv'
  OBVIOUS
<1>1. /\ step' = step /\ range' = range /\ used' = used /\ wiOptions' = wiOptions
      /\ functions' = functions /\ variables' = variables /\ sound' = sound
  BY DEF wiVars
<1>2. AskedOf(step)' = AskedOf(step)
  BY <1>1 DEF AskedOf, IsAsked, Done
<1>3. InputsOf(step)' = InputsOf(step)
  <2>1. ASSUME NEW g PROVE Inputs(g)' = Inputs(g)
    BY <1>1, Zenon DEF Inputs, HasOffset, OffsetIsPushed
  <2>. QED  BY <1>1, <2>1 DEF InputsOf, Done
<1>4. (range # NoRange => step = 14 /\ range \in Ranges /\ IsAccepted(range))'
  BY <1>1 DEF IsAccepted, HasOffset, WorkItemsInv
<1>5. (step >= 12 => WorkgroupSizeIsKnown)'
  BY <1>1 DEF WorkgroupSizeIsKnown, WorkItemsInv
<1>. QED  BY <1>1, <1>2, <1>3, <1>4, <1>5 DEF WorkItemsInv

(***************************************************************************)
(* The invariant of the order in which DefineOpenCLWorkItemBuiltinsPass    *)
(* makes the bodies, for any module, options and ranges.                   *)
(***************************************************************************)
THEOREM BuiltinsAreMadeInOrder == WorkItemsSpec => []WorkItemsInv
<1>1. WorkItemsInv /\ [WorkItemsNext]_wiVars => WorkItemsInv'
  BY WorkItemsInvDefine, WorkItemsInvAdd, WorkItemsInvLaunch, WorkItemsInvStutters DEF WorkItemsNext
<1>. QED  BY <1>1, WorkItemsInvInit, PTL DEF WorkItemsSpec

LEMMA InvImpliesPlaces == WorkItemsInv => WorkItemsKnowTheirPlace
<1>. SUFFICES ASSUME WorkItemsInv, range # NoRange PROVE WorkItemsKnowTheirPlace
  BY DEF WorkItemsKnowTheirPlace
<1>1. IsLaunched /\ step = 14
  BY DEF WorkItemsInv, IsLaunched
<1>2. used.functions \subseteq sound
  <2>1. used.functions \subseteq Done(14)
    BY DoneFacts, UsedFunctionsAssumption DEF WorkItemsInv
  <2>2. \A f \in used.functions : IsAsked(f)
    BY DEF IsAsked
  <2>. QED  BY <1>1, <2>1, <2>2 DEF AskedOf, WorkItemsInv
<1>3. ASSUME NEW w \in Items
      PROVE  /\ \A f \in ByDimension \cap functions :
                    /\ \A d \in Dims : Body(f, w, d - 1) = OpenCL(f, w, d)
                    /\ Body(f, w, 3) = Beyond(f)
             /\ GlobalLinearID(w) = Linear([d \in Dims |-> At(w, d)], range.size)
             /\ LocalLinearID(w) = Linear([d \in Dims |-> w[d].local], [d \in Dims |-> w[d].region.local])
             /\ \A max \in SubgroupSizes :
                    IsEnoughFor(EnqueuedNumSubGroups(w, max), max,
                                range.local[1] * range.local[2] * range.local[3])
  BY <1>1, BodyIsOpenCL, BodyBeyond, LinearIDsAre, EnqueuedNumSubGroupsIs
<1>. QED  BY <1>2, <1>3, Zenon DEF WorkItemsKnowTheirPlace

(***************************************************************************)
(* A work-item is told its place in the whole range by every builtin,      *)
(* whichever region it runs in: for any builtins used together, options,   *)
(* required workgroup size, and range, of whatever sizes and offset.       *)
(***************************************************************************)
THEOREM PlacesAreKnown == WorkItemsSpec => []WorkItemsKnowTheirPlace
  BY BuiltinsAreMadeInOrder, InvImpliesPlaces, PTL
================================================================================

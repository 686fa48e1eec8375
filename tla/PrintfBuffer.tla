---------------------------- MODULE PrintfBuffer ----------------------------
(***************************************************************************)
(* The code PrintfPass::DefinePrintfInstance generates for a call of       *)
(* printf, run by any number of work-items on one storage buffer of 32-bit *)
(* words.  Word 0 counts the words handed out.  A call reserves words with *)
(* one atomic add, stores its arguments word after word, and stores the ID *)
(* of its call site, in the first word of the record, last of all.         *)
(*                                                                         *)
(* A value in memory is the pair of the call that stored it and the field  *)
(* of its record it is: field 0 the ID, field i argument i.  Memory is     *)
(* addressed by bytes, since an argument need not fill its last word.      *)
(***************************************************************************)
EXTENDS Integers, Sequences, SequencesExt

CONSTANTS
    WorkItems,    \* the invocations that run the kernel
    Sites,        \* the printf call sites, by PrintfID
    ArgEnd,       \* ArgEnd[s][i]: bytes of the arguments 1..i of site s
    BufferWords,  \* PrintfBufferSize() / 4
    WordModulus,  \* 2^32 in the program
    MaxReserved,  \* bound: words all calls of a run may ask for
    NoValue       \* what a byte nobody wrote, or no call, holds

(***************************************************************************)
(* GetPrintfStoreSize: an argument takes at least one word.  MC modules    *)
(* build ArgEnd from the store sizes of the argument types with            *)
(* RunningTotals.                                                          *)
(***************************************************************************)
PrintfStoreSize(size) == IF size < 4 THEN 4 ELSE size

RunningTotals(sizes) ==
    [i \in DOMAIN sizes |->
        FoldLeft(LAMBDA sum, size : sum + PrintfStoreSize(size), 0,
                 SubSeq(sizes, 1, i))]

NArgs(s) == Len(ArgEnd[s])
EndOf(s, i) == IF i = 0 THEN 0 ELSE ArgEnd[s][i]
ArgSize(s, i) == EndOf(s, i) - EndOf(s, i - 1)

\* Wrong variant for the mutation runs: no word for the ID.
AllocSizeInts_NoIDWord(s) == EndOf(s, NArgs(s)) \div 4

AllocSizeInts(s) == (EndOf(s, NArgs(s)) + 4) \div 4

ASSUME ConstantsAssumption ==
    /\ Sites \subseteq Nat
    /\ BufferWords \in Nat /\ MaxReserved \in Nat
    /\ WordModulus \in Nat \ {0}

\* Every argument takes a word at least.
ASSUME ArgEndAssumption ==
    /\ ArgEnd \in [Sites -> Seq(Nat)]
    /\ \A s \in Sites : \A i \in 1..NArgs(s) : EndOf(s, i) >= 4
    /\ \A s \in Sites : \A i, j \in 1..NArgs(s) :
          i < j => EndOf(s, i) + 4 <= EndOf(s, j)

VARIABLES
    counter,     \* word 0 of the buffer
    mem,         \* the bytes a 32-bit word index reaches
    pc,          \* the basic block each work-item is in
    call,        \* the call each work-item is in
    offset,      \* Offset: the first word of its record
    argsOffset,  \* ArgsOffset: the word the next argument goes to
    argNo,       \* the argument it stores next
    ret,         \* ReturnValue: the phi of copy_printf_id
    reserved,    \* history: words asked for so far, never reduced mod 2^32
    calls,       \* history: the calls made so far
    returned     \* history: <<call, result>> of the calls that returned

locals == <<pc, call, offset, argsOffset, argNo, ret>>
vars == <<counter, mem, locals, reserved, calls, returned>>

Words == 0..(WordModulus - 1)
Addresses == 0..(4 * WordModulus - 1)

\* A call, told apart by the place it has in the order of reservations.
Calls == [item : WorkItems, site : Sites, start : 1..MaxReserved]
Values == [call : Calls, field : Nat]

ASSUME NoValueAssumption == NoValue \notin Calls \cup Values

TypeOK ==
    /\ counter \in Words
    /\ mem \in [Addresses -> Values \cup {NoValue}]
    /\ pc \in [WorkItems -> {"idle", "copy_args", "copy_printf_id"}]
    /\ call \in [WorkItems -> Calls \cup {NoValue}]
    /\ offset \in [WorkItems -> Words]
    /\ argsOffset \in [WorkItems -> Words]
    /\ argNo \in [WorkItems -> Nat]
    /\ ret \in [WorkItems -> {0, -1}]
    /\ reserved \in Nat
    /\ calls \subseteq Calls
    /\ returned \subseteq Calls \X {0, -1}

Init ==
    /\ counter = 0
    /\ mem = [a \in Addresses |-> NoValue]
    /\ pc = [w \in WorkItems |-> "idle"]
    /\ call = [w \in WorkItems |-> NoValue]
    /\ offset = [w \in WorkItems |-> 0]
    /\ argsOffset = [w \in WorkItems |-> 0]
    /\ argNo = [w \in WorkItems |-> 1]
    /\ ret = [w \in WorkItems |-> 0]
    /\ reserved = 0
    /\ calls = {}
    /\ returned = {}

(***************************************************************************)
(* Block "entry": the atomic add, and the two tests on the registers       *)
(* computed from what it returned ("test_printf_id" touches no memory).    *)
(***************************************************************************)
OffsetOf(old) == (old + 1) % WordModulus
EndOffset(old, s) == (OffsetOf(old) + AllocSizeInts(s)) % WordModulus
ArgsOffset(old) == (OffsetOf(old) + 1) % WordModulus

\* Wrong variant: the last word of the record is not counted.
HasRoomForArgs_OffByOne(old, s) == EndOffset(old, s) - 1 <= BufferWords

HasRoomForArgs(old, s) == EndOffset(old, s) <= BufferWords
HasRoomForID(old) == ArgsOffset(old) <= BufferWords

\* Wrong variant: a call that finds no room does not count its words.
CounterAfter_OnlyIfRoom(old, s) ==
    IF HasRoomForArgs(old, s) THEN (old + AllocSizeInts(s)) % WordModulus
                              ELSE old

CounterAfter(old, s) == (old + AllocSizeInts(s)) % WordModulus

Reserve(w, s) ==
    LET c == [item |-> w, site |-> s, start |-> reserved + 1] IN
    /\ pc[w] = "idle"
    /\ reserved + AllocSizeInts(s) <= MaxReserved
    /\ counter' = CounterAfter(counter, s)
    /\ reserved' = reserved + AllocSizeInts(s)
    /\ calls' = calls \cup {c}
    /\ call' = [call EXCEPT ![w] = c]
    /\ offset' = [offset EXCEPT ![w] = OffsetOf(counter)]
    /\ argsOffset' = [argsOffset EXCEPT ![w] = ArgsOffset(counter)]
    /\ argNo' = [argNo EXCEPT ![w] = 1]
    /\ mem' = mem
    /\ \/ /\ HasRoomForArgs(counter, s)
          /\ pc' = [pc EXCEPT ![w] = IF NArgs(s) = 0 THEN "copy_printf_id"
                                                     ELSE "copy_args"]
          /\ ret' = [ret EXCEPT ![w] = 0]
          /\ UNCHANGED returned
       \/ /\ ~HasRoomForArgs(counter, s)
          /\ HasRoomForID(counter)
          /\ pc' = [pc EXCEPT ![w] = "copy_printf_id"]
          /\ ret' = [ret EXCEPT ![w] = -1]
          /\ UNCHANGED returned
       \/ /\ ~HasRoomForArgs(counter, s)
          /\ ~HasRoomForID(counter)
          /\ returned' = returned \cup {<<c, -1>>}
          /\ UNCHANGED <<pc, ret>>

(***************************************************************************)
(* A store of size bytes at word index word.  One that reaches word 0      *)
(* leaves the counter with whatever the stored data is.                    *)
(***************************************************************************)
Bytes(word, size) == (4 * word)..(4 * word + size - 1)

Store(word, size, value) ==
    /\ mem' = [a \in Addresses |->
                  IF a \in Bytes(word, size) THEN value ELSE mem[a]]
    /\ counter' \in IF word = 0 THEN Words ELSE {counter}

\* Block "copy_args": one argument.
StoreArg(w) ==
    LET s == call[w].site
        size == ArgSize(s, argNo[w])
    IN
    /\ pc[w] = "copy_args"
    /\ Store(argsOffset[w], size, [call |-> call[w], field |-> argNo[w]])
    /\ IF argNo[w] < NArgs(s)
       THEN /\ argsOffset' = [argsOffset EXCEPT
                                 ![w] = (@ + size \div 4) % WordModulus]
            /\ argNo' = [argNo EXCEPT ![w] = @ + 1]
            /\ UNCHANGED pc
       ELSE /\ pc' = [pc EXCEPT ![w] = "copy_printf_id"]
            /\ UNCHANGED <<argsOffset, argNo>>
    /\ UNCHANGED <<call, offset, ret, reserved, calls, returned>>

\* Wrong variant: the ID is stored before all arguments are.
StorePrintfID_Early(w) ==
    /\ pc[w] # "idle"
    /\ Store(offset[w], 4, [call |-> call[w], field |-> 0])
    /\ pc' = [pc EXCEPT ![w] = "idle"]
    /\ returned' = returned \cup {<<call[w], ret[w]>>}
    /\ UNCHANGED <<call, offset, argsOffset, argNo, ret, reserved, calls>>

\* Wrong variant: the result is the number of arguments.
StorePrintfID_Count(w) ==
    /\ pc[w] = "copy_printf_id"
    /\ Store(offset[w], 4, [call |-> call[w], field |-> 0])
    /\ pc' = [pc EXCEPT ![w] = "idle"]
    /\ returned' = returned \cup {<<call[w], NArgs(call[w].site)>>}
    /\ UNCHANGED <<call, offset, argsOffset, argNo, ret, reserved, calls>>

\* Blocks "copy_printf_id" and "exit".
StorePrintfID(w) ==
    /\ pc[w] = "copy_printf_id"
    /\ Store(offset[w], 4, [call |-> call[w], field |-> 0])
    /\ pc' = [pc EXCEPT ![w] = "idle"]
    /\ returned' = returned \cup {<<call[w], ret[w]>>}
    /\ UNCHANGED <<call, offset, argsOffset, argNo, ret, reserved, calls>>

Next ==
    \E w \in WorkItems :
        \/ \E s \in Sites : Reserve(w, s)
        \/ StoreArg(w)
        \/ StorePrintfID(w)

Spec == Init /\ [][Next]_vars

-----------------------------------------------------------------------------

\* The bytes of field i of the record of call c, and of the whole record.
FieldBytes(c, i) ==
    IF i = 0 THEN Bytes(c.start, 4)
    ELSE (4 * (c.start + 1) + EndOf(c.site, i - 1))
             ..(4 * (c.start + 1) + EndOf(c.site, i) - 1)

FieldIntact(c, i) ==
    \A a \in FieldBytes(c, i) : mem[a] = [call |-> c, field |-> i]

ArgsIntact(c) == \A i \in 1..NArgs(c.site) : FieldIntact(c, i)

RecordIntact(c) == FieldIntact(c, 0) /\ ArgsIntact(c)

(***************************************************************************)
(* A printf that returned 0 left its ID and all its arguments in the       *)
(* buffer, and no other call, earlier or later, has written over any byte  *)
(* of them.                                                                *)
(***************************************************************************)
PrintedRecordsIntact ==
    \A c \in calls : <<c, 0>> \in returned => RecordIntact(c)

(***************************************************************************)
(* The ID of a record that has room in the buffer is stored after its      *)
(* arguments (the order of the blocks copy_args and copy_printf_id): a     *)
(* work-item that stops half way leaves no ID without its arguments.       *)
(***************************************************************************)
IDFoundArgsFound ==
    \A c \in calls :
        /\ c.start + AllocSizeInts(c.site) <= BufferWords
        /\ FieldIntact(c, 0)
        => ArgsIntact(c)

(***************************************************************************)
(* No byte past the end of the buffer is written, and every byte that is   *)
(* lies in the record reserved by the call that wrote it.                  *)
(***************************************************************************)
WritesStayInRecord ==
    \A a \in Addresses : mem[a] # NoValue =>
        LET c == mem[a].call IN
        /\ a < 4 * BufferWords
        /\ a >= 4 * c.start
        /\ a < 4 * (c.start + AllocSizeInts(c.site))

(***************************************************************************)
(* The runtime reads a record at the word where the one before it ended,   *)
(* up to the counter or the end of the buffer, and finds its length in the *)
(* reflection data of the ID it reads (docs/OpenCLCOnVulkan.md:795).  The  *)
(* words it comes to are those no walk from word 1 can leave out.          *)
(***************************************************************************)
NextRecord(word) == word + AllocSizeInts(mem[4 * word].call.site)

IsRecordAt(word) ==
    /\ word < BufferWords /\ word <= counter
    /\ mem[4 * word] # NoValue /\ mem[4 * word].field = 0
    /\ NextRecord(word) <= BufferWords

RecordsSeen == {word \in 1..BufferWords : IsRecordAt(word)}

WordsWalked ==
    LET links == {<<word, NextRecord(word)>> : word \in RecordsSeen}
        walks == {words \in SUBSET (1..BufferWords) :
                     1 \in words /\ \A l \in links : l[1] \in words => l[2] \in words}
    IN {word \in 1..BufferWords : \A words \in walks : word \in words}

RecordsFound == {mem[4 * word].call : word \in WordsWalked \cap RecordsSeen}

(***************************************************************************)
(* When no work-item is in a call, the walk finds exactly the calls that   *)
(* returned 0: the counter, the IDs and the lengths in the reflection data *)
(* agree on where each record starts.                                      *)
(***************************************************************************)
RuntimeReadsPrinted ==
    (\A w \in WorkItems : pc[w] = "idle") =>
        RecordsFound = {c \in calls : <<c, 0>> \in returned}

(***************************************************************************)
(* The buffer implements the log: what is in memory, complete, is what was *)
(* printed.                                                                *)
(***************************************************************************)
Printed == {c \in calls : RecordIntact(c)}

PL == INSTANCE PrintfLog
          WITH called <- calls, log <- Printed, results <- returned

\* A step of the buffer is a step of the log or leaves it alone.
ImplementsLog == PL!LogSpec

-----------------------------------------------------------------------------
(***************************************************************************)
(* The inductive invariant behind these properties.  It needs the two      *)
(* conditions the program does not check: the words asked for stay below   *)
(* 2^32, and every argument fills whole words.                             *)
(***************************************************************************)
NoWrap == MaxReserved + 1 < WordModulus

Aligned == \A s \in Sites : \A i \in 1..NArgs(s) : EndOf(s, i) % 4 = 0

EndOfRecord(c) == c.start + AllocSizeInts(c.site)
Fits(c) == EndOfRecord(c) <= BufferWords

\* Records are reserved one after the other.
RecordsDisjoint ==
    \A c, d \in calls :
        c = d \/ EndOfRecord(c) <= d.start \/ EndOfRecord(d) <= c.start

CounterCorrect ==
    /\ counter = reserved
    /\ reserved <= MaxReserved
    /\ \A c \in calls : EndOfRecord(c) <= reserved + 1

\* The registers of a work-item in a call belong to that call.
RegistersCorrect ==
    \A w \in WorkItems : pc[w] # "idle" =>
        /\ call[w] \in calls
        /\ call[w].item = w
        /\ offset[w] = call[w].start
        /\ \A r \in {0, -1} : <<call[w], r>> \notin returned
        /\ IF ret[w] = 0 THEN Fits(call[w])
                         ELSE ~Fits(call[w]) /\ offset[w] < BufferWords
        /\ pc[w] = "copy_args" =>
              /\ ret[w] = 0
              /\ argNo[w] \in 1..NArgs(call[w].site)
              /\ 4 * argsOffset[w] =
                    4 * (offset[w] + 1) + EndOf(call[w].site, argNo[w] - 1)

ReturnedCorrect ==
    \A c \in Calls :
        /\ <<c, 0>> \in returned => c \in calls /\ Fits(c)
        /\ <<c, -1>> \in returned => c \in calls /\ ~Fits(c)

\* A byte written belongs to the field it was written for.
BytesOwned ==
    \A a \in Addresses : mem[a] # NoValue =>
        LET c == mem[a].call
            i == mem[a].field
        IN /\ c \in calls
           /\ i \in 0..NArgs(c.site)
           /\ a \in FieldBytes(c, i)
           /\ IF i = 0 THEN /\ c.start < BufferWords
                            /\ \E r \in {0, -1} : <<c, r>> \in returned
                       ELSE Fits(c)

StoredIntact ==
    /\ \A c \in calls : <<c, 0>> \in returned => RecordIntact(c)
    /\ \A w \in WorkItems :
          /\ pc[w] = "copy_args" =>
                \A i \in 1..(argNo[w] - 1) : FieldIntact(call[w], i)
          /\ pc[w] = "copy_printf_id" /\ ret[w] = 0 => ArgsIntact(call[w])

IInv ==
    /\ TypeOK
    /\ CounterCorrect
    /\ RecordsDisjoint
    /\ RegistersCorrect
    /\ ReturnedCorrect
    /\ BytesOwned
    /\ StoredIntact
=============================================================================

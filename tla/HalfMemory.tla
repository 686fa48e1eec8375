----------------------------- MODULE HalfMemory -----------------------------
(***************************************************************************)
(* The code ReplaceOpenCLBuiltinPass.cpp puts in the place of the calls of *)
(* HalfBuiltins, run by concurrent work-items on one buffer of 32-bit      *)
(* words.  A call becomes a sequence of instructions (the replaceVload and *)
(* replaceVstore functions), each one access to memory, except that        *)
(* without 16-bit storage a half is stored by a plain load of its word and *)
(* an atomic xor (createVstoreHalf).  A word is the set of its bits that   *)
(* are one, so that & is \cap and ^ the symmetric difference.              *)
(* Conversions between half and float are left out: the data of a call are *)
(* the halves its floats round to.  Indices do not overflow here.          *)
(***************************************************************************)
EXTENDS HalfBuiltins, Sequences

CONSTANTS Targets,   \* the address spaces and options that may be compiled for
          Calls,     \* the calls that may be made
          Memories,  \* what may be in the buffer at first
          MaxCalls   \* bound: the calls a work-item makes

Words == 0 .. NumWords - 1
WordValues == SUBSET (0 .. 2 * HalfBits - 1)

ASSUME MemoriesAreMemories == Memories \subseteq [Words -> WordValues]

\* The calls there are builtins for.
ASSUME CallsAreCalls ==
  \A c \in Calls :
    /\ c \in [family : {"half", "clspv", "vector"}, vec_size : {0, 2, 3, 4, 8, 16},
              aligned : BOOLEAN, store : BOOLEAN, offset : Nat, data : Data]
    /\ c.family = "clspv" => c.vec_size \in {2, 4} /\ ~c.store
    /\ c.family = "vector" => c.vec_size # 0 /\ ~c.aligned

VARIABLES target,   \* the address space of the buffer and the options
          mem,      \* the words of the buffer
          call,     \* the call each work-item is in, or NoCall
          code,     \* the instructions it has still to run
          current,  \* %current_value: the word read for the xor, if any
          value,    \* the elements its last load has returned so far
          made      \* the number of calls it has made

vars == <<target, mem, call, code, current, value, made>>

--------------------------------------------------------------------------
\* Arithmetic of words.

Xor(x, y) == (x \ y) \cup (y \ x)
Shl(x, s) == {b + s : b \in x}

\* Half number j (0 or 1) of a word, and a word made of two halves:
\* spirv.unpack.v2f16 and spirv.pack.v2f16.
Unpack(word, j) == {b \in Bits : b + HalfBits * j \in word}
Pack(lo, hi) == lo \cup Shl(hi, HalfBits)

HalfAt(m, p) == Unpack(m[p \div 2], p % 2)

\* A store of the half x at place p, as one 16-bit store.
WithHalf(word, j, x) == Pack(IF j = 0 THEN x ELSE Unpack(word, 0),
                             IF j = 1 THEN x ELSE Unpack(word, 1))

--------------------------------------------------------------------------
\* The instructions.  "short": a 16-bit access; "half": an access to a half
\* through its 32-bit word; "words": one access to count consecutive words
\* from the word at.  They move the elements from first to last.

Short(i, p) == [kind |-> "short", at |-> p, count |-> 1, first |-> i, last |-> i]
InWord(i, p) == [kind |-> "half", at |-> p, count |-> 1, first |-> i, last |-> i]
WordsOf(i, k, a, count) ==
  [kind |-> "words", at |-> a, count |-> count, first |-> i, last |-> k]

Moved(ins) == ins.first .. ins.last

\* The options and the address space decide whether 16 bits can be accessed.
Supports16BitStorage(t) ==
  CASE t.space = "Global" -> t.ssbo16
    [] t.space = "Constant" -> IF t.constant_in_ubo THEN t.ubo16 ELSE t.ssbo16
    [] OTHER -> TRUE

\* createVloadHalf and createVstoreHalf
Half(t, i, p) == IF Supports16BitStorage(t) THEN Short(i, p) ELSE InWord(i, p)

VloadHalf(t, o) == <<Half(t, 0, o)>>
VloadHalf2(o) == <<WordsOf(0, 1, o, 1)>>
VloadHalf3(t, o) ==
  LET index0 == 2 * o + o IN [i \in 1 .. 3 |-> Half(t, i - 1, index0 + (i - 1))]
VloadaHalf3(o) == <<WordsOf(0, 2, 2 * o, 2)>>
VloadHalf4(o) == <<WordsOf(0, 3, 2 * o, 2)>>
VloadHalf8(o) == <<WordsOf(0, 7, 4 * o, 4)>>
VloadHalf16(o) == <<WordsOf(0, 7, 4 * (2 * o), 4),
                    WordsOf(8, 15, 4 * (2 * o + 1), 4)>>
ClspvVloadaHalf2(o) == <<WordsOf(0, 1, o, 1)>>
ClspvVloadaHalf4(o) == <<WordsOf(0, 3, 2 * o, 2)>>

VstoreHalf(t, o) == <<Half(t, 0, o)>>
VstoreHalf2(o) == <<WordsOf(0, 1, o, 1)>>
VstoreHalf3(t, o) ==
  LET index0 == 2 * o + o IN [i \in 1 .. 3 |-> Half(t, i - 1, index0 + (i - 1))]
\* Wrong variant: like vloada_half3, through two words.
VstoreaHalf3_AsWords(t, o) == <<WordsOf(0, 3, 2 * o, 2)>>

VstoreaHalf3(t, o) ==
  LET index0 == 4 * o IN [i \in 1 .. 3 |-> Half(t, i - 1, index0 + (i - 1))]
VstoreHalf4(o) == <<WordsOf(0, 3, 2 * o, 2)>>
VstoreHalf8(o) == <<WordsOf(0, 7, 4 * o, 4)>>
VstoreHalf16(o) == <<WordsOf(0, 7, 4 * (2 * o), 4),
                     WordsOf(8, 15, 4 * (2 * o + 1), 4)>>

\* vload<n> and vstore<n>: one scalar access for each element.
Vload(o, elems) == [i \in 1 .. elems |-> Short(i - 1, o * elems + (i - 1))]
Vstore(o, elems) == [i \in 1 .. elems |-> Short(i - 1, o * elems + (i - 1))]

\* The two dispatches on the digits and the "a" of the name.
LoweredLoad(t, c) ==
  LET o == c.offset
  IN CASE c.vec_size = 0 -> VloadHalf(t, o)
       [] c.vec_size = 2 -> IF c.family = "clspv" THEN ClspvVloadaHalf2(o)
                                                  ELSE VloadHalf2(o)
       [] c.vec_size = 3 -> IF c.aligned THEN VloadaHalf3(o) ELSE VloadHalf3(t, o)
       [] c.vec_size = 4 -> IF c.family = "clspv" THEN ClspvVloadaHalf4(o)
                                                  ELSE VloadHalf4(o)
       [] c.vec_size = 8 -> VloadHalf8(o)
       [] c.vec_size = 16 -> VloadHalf16(o)

LoweredStore(t, c) ==
  LET o == c.offset
  IN CASE c.vec_size = 0 -> VstoreHalf(t, o)
       [] c.vec_size = 2 -> VstoreHalf2(o)
       [] c.vec_size = 3 -> IF c.aligned THEN VstoreaHalf3(t, o)
                                         ELSE VstoreHalf3(t, o)
       [] c.vec_size = 4 -> VstoreHalf4(o)
       [] c.vec_size = 8 -> VstoreHalf8(o)
       [] c.vec_size = 16 -> VstoreHalf16(o)

Lowered(t, c) ==
  CASE c.family = "vector" /\ c.store -> Vstore(c.offset, c.vec_size)
    [] c.family = "vector" /\ ~c.store -> Vload(c.offset, c.vec_size)
    [] c.family # "vector" /\ c.store -> LoweredStore(t, c)
    [] c.family # "vector" /\ ~c.store -> LoweredLoad(t, c)

--------------------------------------------------------------------------
\* The work-items.

\* A program has no data race: no two calls that run together use a half
\* that one of them stores.  It does not know about words.
MayBegin(w, c) ==
  /\ Footprint(c) \subseteq Places
  /\ c.family = "vector" => Supports16BitStorage(target)
  /\ c.store => target.space # "Constant"
  /\ \A u \in Items \ {w} : ~Race(c, call[u])

\* What a plain load of word a by w may return: a half that another
\* work-item is storing may read as anything, the others as they are.
Stored(u) == IF call[u] # NoCall /\ call[u].store THEN Footprint(call[u]) ELSE {}
Racy(w, p) == \E u \in Items \ {w} : p \in Stored(u)
Seen(w, p) == IF Racy(w, p) THEN Halves ELSE {HalfAt(mem, p)}
WordsSeen(w, a) == {Pack(lo, hi) : lo \in Seen(w, 2 * a), hi \in Seen(w, 2 * a + 1)}

Init ==
  /\ target \in Targets
  /\ mem \in Memories
  /\ call = [w \in Items |-> NoCall]
  /\ code = [w \in Items |-> <<>>]
  /\ current = [w \in Items |-> {}]
  /\ value = [w \in Items |-> <<>>]
  /\ made = [w \in Items |-> 0]

Begin(w, c) ==
  /\ call[w] = NoCall
  /\ made[w] < MaxCalls
  /\ MayBegin(w, c)
  /\ call' = [call EXCEPT ![w] = c]
  /\ code' = [code EXCEPT ![w] = Lowered(target, c)]
  /\ value' = [value EXCEPT ![w] = <<>>]
  /\ made' = [made EXCEPT ![w] = @ + 1]
  /\ UNCHANGED <<target, mem, current>>

\* The next instruction of w has this kind, and belongs to a store or a load.
AtInstruction(w, kind, store) ==
  /\ code[w] # <<>>
  /\ Head(code[w]).kind = kind
  /\ call[w].store = store

Extended(f, s, g(_)) == [i \in DOMAIN f \cup s |-> IF i \in s THEN g(i) ELSE f[i]]

\* createVloadHalf and the scalar loads of replaceVload
LoadShort(w) ==
  /\ AtInstruction(w, "short", FALSE)
  /\ LET ins == Head(code[w])
         loaded(i) == HalfAt(mem, ins.at)
     IN value' = [value EXCEPT ![w] = Extended(@, Moved(ins), loaded)]
  /\ code' = [code EXCEPT ![w] = Tail(@)]
  /\ UNCHANGED <<target, mem, call, current, made>>

LoadInWord(w) ==
  /\ AtInstruction(w, "half", FALSE)
  /\ LET ins == Head(code[w])
     IN \E word \in WordsSeen(w, ins.at \div 2) :
          LET loaded(i) == Unpack(word, ins.at % 2)
          IN value' = [value EXCEPT ![w] = Extended(@, Moved(ins), loaded)]
  /\ code' = [code EXCEPT ![w] = Tail(@)]
  /\ UNCHANGED <<target, mem, call, current, made>>

\* Words are loaded whole; only elements in the shuffle mask are used.
LoadWords(w) ==
  /\ AtInstruction(w, "words", FALSE)
  /\ LET ins == Head(code[w])
         loaded(i) == HalfAt(mem, 2 * ins.at + (i - ins.first))
     IN value' = [value EXCEPT ![w] = Extended(@, Moved(ins), loaded)]
  /\ code' = [code EXCEPT ![w] = Tail(@)]
  /\ UNCHANGED <<target, mem, call, current, made>>

StoreShort(w) ==
  /\ AtInstruction(w, "short", TRUE)
  /\ LET ins == Head(code[w])
     IN mem' = [mem EXCEPT ![ins.at \div 2] =
                  WithHalf(@, ins.at % 2, call[w].data[ins.first])]
  /\ code' = [code EXCEPT ![w] = Tail(@)]
  /\ UNCHANGED <<target, call, current, value, made>>

StoreWords(w) ==
  /\ AtInstruction(w, "words", TRUE)
  /\ LET ins == Head(code[w])
         x(j) == call[w].data[ins.first + j]
     IN mem' = [a \in Words |->
                  IF a \in ins.at .. ins.at + ins.count - 1
                  THEN Pack(x(2 * (a - ins.at)), x(2 * (a - ins.at) + 1))
                  ELSE mem[a]]
  /\ code' = [code EXCEPT ![w] = Tail(@)]
  /\ UNCHANGED <<target, call, current, value, made>>

\* The plain load of %current_value ...
ReadCurrent(w) ==
  /\ AtInstruction(w, "half", TRUE)
  /\ current[w] = {}
  /\ \E word \in WordsSeen(w, Head(code[w]).at \div 2) :
       current' = [current EXCEPT ![w] = {word}]
  /\ UNCHANGED <<target, mem, call, code, value, made>>

\* %value_to_xor: the bits that are there, and the bits that shall be.
\* Wrong variant: the other half is not masked out.
ValueToXor_NoMask(now, x, index) ==
  Xor(now, Shl(x \cap Bits, HalfBits * (index % 2)))

ValueToXor(now, x, index) ==
  LET shift == HalfBits * (index % 2)
      mask_bits_to_write == Shl(Bits, shift)
      new_bits_to_write == Shl(x \cap Bits, shift)
  IN Xor(mask_bits_to_write \cap now, new_bits_to_write)

\* ... and the relaxed atomic xor of the word.
AtomicXor(w) ==
  /\ AtInstruction(w, "half", TRUE)
  /\ \E word \in current[w] :
       LET ins == Head(code[w])
       IN mem' = [mem EXCEPT ![ins.at \div 2] =
                    Xor(@, ValueToXor(word, call[w].data[ins.first], ins.at))]
  /\ current' = [current EXCEPT ![w] = {}]
  /\ code' = [code EXCEPT ![w] = Tail(@)]
  /\ UNCHANGED <<target, call, value, made>>

Return(w) ==
  /\ call[w] # NoCall
  /\ code[w] = <<>>
  /\ call' = [call EXCEPT ![w] = NoCall]
  /\ UNCHANGED <<target, mem, code, current, value, made>>

Next ==
  \E w \in Items :
    \/ \E c \in Calls : Begin(w, c)
    \/ LoadShort(w)
    \/ LoadInWord(w)
    \/ LoadWords(w)
    \/ StoreShort(w)
    \/ StoreWords(w)
    \/ ReadCurrent(w)
    \/ AtomicXor(w)
    \/ Return(w)

Spec == Init /\ [][Next]_vars

--------------------------------------------------------------------------
\* Properties.

\* The half that a work-item is about to replace has not changed since it
\* read it: only then does the xor of createVstoreHalf store the new value.
CurrentHalfIsFresh ==
  \A w \in Items : \A word \in current[w] :
    LET p == Head(code[w]).at
    IN Unpack(word, p % 2) = HalfAt(mem, p)

\* The promise of the builtins.
Array == INSTANCE HalfArray WITH
           halves <- [p \in Places |-> HalfAt(mem, p)],
           todo <- [w \in Items |-> UNION {Moved(code[w][n]) : n \in DOMAIN code[w]}]

\* Whatever the work-items do to the other halves of the words they share,
\* a call stores exactly its own elements to exactly its own places, and a
\* load returns the halves that are there.
ImplementsArray == Array!Spec
=============================================================================

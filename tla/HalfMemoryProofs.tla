-------------------------- MODULE HalfMemoryProofs --------------------------
(***************************************************************************)
(* For any buffer, work-items, calls and address spaces: the code put in   *)
(* the place of the half and vector memory builtins implements HalfArray.  *)
(* A program without data races never sees that a store of a half goes     *)
(* through a word that other work-items are changing.                      *)
(***************************************************************************)
EXTENDS HalfMemory, TLAPS

-----------------------------------------------------------------------------
(* Words and halves. *)

LEMMA UnpackIsHalf == \A word, j : Unpack(word, j) \in Halves
BY DEF Unpack, Halves

LEMMA UnpackPack ==
    ASSUME NEW lo \in Halves, NEW hi \in Halves
    PROVE  /\ Unpack(Pack(lo, hi), 0) = lo
           /\ Unpack(Pack(lo, hi), 1) = hi
<1>1. \A b \in Bits : b \in 0 .. HalfBits - 1 /\ b \in Nat /\ b < HalfBits
  BY SizesAreNatural DEF Bits
<1>2. lo \subseteq Bits /\ hi \subseteq Bits
  BY DEF Halves
<1>3. ASSUME NEW b \in Bits PROVE b + HalfBits * 0 \in Pack(lo, hi) <=> b \in lo
  BY <1>1, <1>2, SizesAreNatural DEF Pack, Shl
<1>4. ASSUME NEW b \in Bits PROVE b + HalfBits * 1 \in Pack(lo, hi) <=> b \in hi
  BY <1>1, <1>2, SizesAreNatural DEF Pack, Shl
<1>5. Unpack(Pack(lo, hi), 0) = lo
  BY <1>2, <1>3 DEF Unpack
<1>6. Unpack(Pack(lo, hi), 1) = hi
  BY <1>2, <1>4 DEF Unpack
<1>. QED  BY <1>5, <1>6

LEMMA ShlIsWord ==
    ASSUME NEW x \in Halves, NEW j \in {0, 1}
    PROVE  Shl(x, HalfBits * j) \in WordValues
BY SizesAreNatural DEF Shl, Halves, Bits, WordValues

LEMMA PackIsWord ==
    ASSUME NEW lo \in Halves, NEW hi \in Halves
    PROVE  Pack(lo, hi) \in WordValues
<1>1. Shl(hi, HalfBits * 1) \in WordValues
  BY ShlIsWord
<1>2. HalfBits * 1 = HalfBits
  BY SizesAreNatural
<1>3. lo \in WordValues
  BY SizesAreNatural DEF Halves, Bits, WordValues
<1>. QED  BY <1>1, <1>2, <1>3 DEF Pack, WordValues

\* A word with one half stored has that half and its other half.
LEMMA WithHalfStores ==
    ASSUME NEW word, NEW j \in {0, 1}, NEW x \in Halves
    PROVE  /\ WithHalf(word, j, x) \in WordValues
           /\ Unpack(WithHalf(word, j, x), j) = x
           /\ Unpack(WithHalf(word, j, x), 1 - j) = Unpack(word, 1 - j)
<1>1. Unpack(word, 0) \in Halves /\ Unpack(word, 1) \in Halves
  BY UnpackIsHalf
<1>2. CASE j = 0
  <2>1. WithHalf(word, j, x) = Pack(x, Unpack(word, 1))
    BY <1>2 DEF WithHalf
  <2>. QED  BY <1>1, <1>2, <2>1, UnpackPack, PackIsWord
<1>3. CASE j = 1
  <2>1. WithHalf(word, j, x) = Pack(Unpack(word, 0), x)
    BY <1>3 DEF WithHalf
  <2>. QED  BY <1>1, <1>3, <2>1, UnpackPack, PackIsWord
<1>. QED  BY <1>2, <1>3

\* %value_to_xor replaces the half that was read, when it is still there,
\* and leaves the other one alone, whatever has become of it.
LEMMA XorStores ==
    ASSUME NEW word \in WordValues, NEW now \in WordValues, NEW x \in Halves,
           NEW index \in Nat,
           Unpack(now, index % 2) = Unpack(word, index % 2)
    PROVE  LET new == Xor(word, ValueToXor(now, x, index))
           IN  /\ new \in WordValues
               /\ Unpack(new, index % 2) = x
               /\ Unpack(new, 1 - (index % 2)) = Unpack(word, 1 - (index % 2))
<1> DEFINE j == index % 2
           s == HalfBits * j
           v == ValueToXor(now, x, index)
           new == Xor(word, v)
<1>0. j \in {0, 1}
  OBVIOUS
<1>1. x \cap Bits = x /\ x \subseteq Bits
  BY DEF Halves
<1>2. v = Xor(Shl(Bits, s) \cap now, Shl(x, s))
  BY <1>1 DEF ValueToXor
<1>3. Bits \in Halves
  BY DEF Halves
<1>4. Shl(Bits, s) \in WordValues /\ Shl(x, s) \in WordValues
  BY <1>0, <1>3, ShlIsWord
<1>5. new \in WordValues
  BY <1>2, <1>4 DEF Xor, WordValues
<1>6. ASSUME NEW b \in Bits
      PROVE  /\ b + s \in Shl(Bits, s)
             /\ b + s \in Shl(x, s) <=> b \in x
             /\ b + HalfBits * (1 - j) \notin Shl(Bits, s)
             /\ b + HalfBits * (1 - j) \notin Shl(x, s)
  <2>0. \A c \in Bits : c \in Nat /\ c < HalfBits
    BY SizesAreNatural DEF Bits
  <2>1. CASE j = 0
    <3>. s = 0 /\ HalfBits * (1 - j) = HalfBits
      BY <2>1, SizesAreNatural
    <3>. QED  BY <1>1, <2>0, SizesAreNatural DEF Shl
  <2>2. CASE j = 1
    <3>. s = HalfBits /\ HalfBits * (1 - j) = 0
      BY <2>2, SizesAreNatural
    <3>. QED  BY <1>1, <2>0, SizesAreNatural DEF Shl
  <2>. QED  BY <1>0, <2>1, <2>2
<1>7. ASSUME NEW b \in Bits PROVE b + s \in new <=> b \in x
  <2>1. b + s \in now <=> b + s \in word
    <3>1. b \in Unpack(now, j) <=> b \in Unpack(word, j)
      OBVIOUS
    <3>. QED  BY <3>1 DEF Unpack
  <2>2. b + s \in v <=> ~(b + s \in now <=> b \in x)
    BY <1>2, <1>6 DEF Xor
  <2>. QED  BY <2>1, <2>2 DEF Xor
<1>8. ASSUME NEW b \in Bits
      PROVE  b + HalfBits * (1 - j) \in new <=> b + HalfBits * (1 - j) \in word
  BY <1>2, <1>6 DEF Xor
<1>9. Unpack(new, j) = x
  BY <1>1, <1>7 DEF Unpack
<1>10. Unpack(new, 1 - j) = Unpack(word, 1 - j)
  BY <1>8 DEF Unpack
<1>. QED  BY <1>5, <1>9, <1>10

-----------------------------------------------------------------------------
(* The code of a call. *)

Instruction ==
  [kind : {"short", "half", "words"}, at : Nat, count : Nat, first : Nat, last : Nat]

\* An instruction moves elements of its call, each to or from its place.
Moves(c, ins) ==
  /\ ins \in Instruction
  /\ ins.first <= ins.last
  /\ Moved(ins) \subseteq Elements(c)
  /\ ins.kind # "words" => ins.last = ins.first /\ ins.at = Place(c, ins.first)
  /\ ins.kind = "words" => /\ 2 * ins.at = Place(c, ins.first)
                           /\ c.store => 2 * ins.count = ins.last - ins.first + 1

\* No two instructions move the same element.
IsCodeOf(c, s) ==
  /\ s \in Seq(Instruction)
  /\ \A n \in DOMAIN s : Moves(c, s[n])
  /\ \A m, n \in DOMAIN s : m # n => Moved(s[m]) \cap Moved(s[n]) = {}

ToMove(s) == UNION {Moved(s[n]) : n \in DOMAIN s}

LEMMA CallFacts ==
    ASSUME NEW c \in Calls
    PROVE  /\ c.family \in {"half", "clspv", "vector"}
           /\ c.vec_size \in {0, 2, 3, 4, 8, 16}
           /\ c.aligned \in BOOLEAN /\ c.store \in BOOLEAN
           /\ c.offset \in Nat
           /\ c.data \in [0 .. 15 -> Halves]
           /\ c.family = "clspv" => c.vec_size \in {2, 4} /\ ~c.store
           /\ c.family = "vector" => c.vec_size # 0 /\ ~c.aligned
           /\ Stride(c) \in Nat
           /\ Elements(c) \subseteq 0 .. 15
           /\ \A i \in Nat : Place(c, i) = Place(c, 0) + i /\ Place(c, i) \in Nat
<1>1. /\ c.family \in {"half", "clspv", "vector"}
      /\ c.vec_size \in {0, 2, 3, 4, 8, 16}
      /\ c.aligned \in BOOLEAN /\ c.store \in BOOLEAN
      /\ c.offset \in Nat
      /\ c.data \in Data
  BY CallsAreCalls
<1>2. c.data \in [0 .. 15 -> Halves]
  BY <1>1, DataAreVectors
<1>3. Stride(c) \in Nat
  BY <1>1 DEF Stride
<1>4. Elements(c) \subseteq 0 .. 15
  BY <1>1 DEF Elements
<1>5. Stride(c) * c.offset \in Nat
  BY <1>1, <1>3
<1>6. \A i \in Nat : Place(c, i) = Place(c, 0) + i /\ Place(c, i) \in Nat
  BY <1>5 DEF Place
<1>. QED  BY <1>1, <1>2, <1>3, <1>4, <1>6, CallsAreCalls

LEMMA OneInstruction ==
    ASSUME NEW c \in Calls, NEW ins, Moves(c, ins), Moved(ins) = Elements(c)
    PROVE  IsCodeOf(c, <<ins>>) /\ ToMove(<<ins>>) = Elements(c)
BY DEF IsCodeOf, ToMove, Moves

LEMMA TwoInstructions ==
    ASSUME NEW c \in Calls, NEW a, NEW b, Moves(c, a), Moves(c, b),
           Moved(a) \cap Moved(b) = {}, Moved(a) \cup Moved(b) = Elements(c)
    PROVE  IsCodeOf(c, <<a, b>>) /\ ToMove(<<a, b>>) = Elements(c)
<1>1. DOMAIN <<a, b>> = {1, 2} /\ <<a, b>>[1] = a /\ <<a, b>>[2] = b
  OBVIOUS
<1>2. <<a, b>> \in Seq(Instruction)
  BY DEF Moves
<1>. QED  BY <1>1, <1>2 DEF IsCodeOf, ToMove

\* One access for each element.
LEMMA ScalarInstructions ==
    ASSUME NEW c \in Calls, NEW n \in Nat \ {0}, Elements(c) = 0 .. n - 1,
           NEW s, s \in [1 .. n -> Instruction],
           \A i \in 1 .. n : s[i] \in {Short(i - 1, Place(c, i - 1)),
                                       InWord(i - 1, Place(c, i - 1))}
    PROVE  IsCodeOf(c, s) /\ ToMove(s) = Elements(c)
<1>1. s \in Seq(Instruction) /\ DOMAIN s = 1 .. n
  OBVIOUS
<1>2. ASSUME NEW i \in 1 .. n
      PROVE  s[i].first = i - 1 /\ s[i].last = i - 1 /\ Moved(s[i]) = {i - 1}
  BY DEF Short, InWord, Moved
<1>3. ASSUME NEW i \in 1 .. n PROVE Moves(c, s[i])
  <2>1. s[i].kind # "words" /\ s[i].at = Place(c, i - 1)
    BY DEF Short, InWord
  <2>. QED  BY <1>2, <2>1 DEF Moves
<1>4. ToMove(s) = 0 .. n - 1
  <2>1. ASSUME NEW i \in 0 .. n - 1 PROVE i \in ToMove(s)
    <3>1. i + 1 \in 1 .. n /\ i \in Moved(s[i + 1])
      BY <1>2
    <3>. QED  BY <1>1, <3>1 DEF ToMove
  <2>2. ToMove(s) \subseteq 0 .. n - 1
    BY <1>1, <1>2 DEF ToMove
  <2>. QED  BY <2>1, <2>2
<1>5. \A i, j \in 1 .. n : i # j => Moved(s[i]) \cap Moved(s[j]) = {}
  BY <1>2
<1>. QED  BY <1>1, <1>3, <1>4, <1>5 DEF IsCodeOf

LEMMA HalfMoves ==
    ASSUME NEW c \in Calls, NEW t, NEW i \in Elements(c), NEW p, p = Place(c, i)
    PROVE  /\ Half(t, i, p) \in {Short(i, Place(c, i)), InWord(i, Place(c, i))}
           /\ Half(t, i, p) \in Instruction
           /\ Moves(c, Half(t, i, p)) /\ Moved(Half(t, i, p)) = {i}
<1>1. i \in Nat /\ p \in Nat
  BY CallFacts
<1>2. Half(t, i, p) \in {Short(i, p), InWord(i, p)}
  BY DEF Half
<1>. QED  BY <1>1, <1>2 DEF Short, InWord, Moves, Moved, Instruction

\* What the dispatches on the name of a builtin choose.
LEMMA LoweredBuiltin ==
    ASSUME NEW c \in Calls, NEW t
    PROVE  /\ c.family = "vector" => Lowered(t, c) = Vload(c.offset, c.vec_size)
           /\ c.family # "vector" /\ c.store => Lowered(t, c) = LoweredStore(t, c)
           /\ c.family # "vector" /\ ~c.store => Lowered(t, c) = LoweredLoad(t, c)
<1>1. c.family = "vector" /\ c.store => Lowered(t, c) = Vstore(c.offset, c.vec_size)
  BY Zenon DEF Lowered
<1>2. c.family = "vector" /\ ~c.store => Lowered(t, c) = Vload(c.offset, c.vec_size)
  BY Zenon DEF Lowered
<1>3. Vstore(c.offset, c.vec_size) = Vload(c.offset, c.vec_size)
  BY DEF Vload, Vstore
<1>4. c.family # "vector" /\ c.store => Lowered(t, c) = LoweredStore(t, c)
  BY Zenon DEF Lowered
<1>5. c.family # "vector" /\ ~c.store => Lowered(t, c) = LoweredLoad(t, c)
  BY Zenon DEF Lowered
<1>. QED  BY <1>1, <1>2, <1>3, <1>4, <1>5

LEMMA LoweredSize ==
    ASSUME NEW c \in Calls, NEW t
    PROVE  /\ c.vec_size = 0 => /\ LoweredLoad(t, c) = VloadHalf(t, c.offset)
                                /\ LoweredStore(t, c) = VstoreHalf(t, c.offset)
           /\ c.vec_size = 2 => /\ LoweredLoad(t, c) = VloadHalf2(c.offset)
                                /\ LoweredStore(t, c) = VstoreHalf2(c.offset)
           /\ c.vec_size = 3 => /\ c.aligned => LoweredLoad(t, c) = VloadaHalf3(c.offset)
                                /\ ~c.aligned => LoweredLoad(t, c) = VloadHalf3(t, c.offset)
                                /\ c.aligned => LoweredStore(t, c) = VstoreaHalf3(t, c.offset)
                                /\ ~c.aligned => LoweredStore(t, c) = VstoreHalf3(t, c.offset)
           /\ c.vec_size = 4 => /\ LoweredLoad(t, c) = VloadHalf4(c.offset)
                                /\ LoweredStore(t, c) = VstoreHalf4(c.offset)
           /\ c.vec_size = 8 => /\ LoweredLoad(t, c) = VloadHalf8(c.offset)
                                /\ LoweredStore(t, c) = VstoreHalf8(c.offset)
           /\ c.vec_size = 16 => /\ LoweredLoad(t, c) = VloadHalf16(c.offset)
                                 /\ LoweredStore(t, c) = VstoreHalf16(c.offset)
<1>1. ClspvVloadaHalf2(c.offset) = VloadHalf2(c.offset)
  BY DEF ClspvVloadaHalf2, VloadHalf2
<1>2. ClspvVloadaHalf4(c.offset) = VloadHalf4(c.offset)
  BY DEF ClspvVloadaHalf4, VloadHalf4
<1>3. ASSUME c.vec_size = 0
      PROVE  LoweredLoad(t, c) = VloadHalf(t, c.offset) /\ LoweredStore(t, c) = VstoreHalf(t, c.offset)
  <2>1. 0 # 2 /\ 0 # 3 /\ 0 # 4 /\ 0 # 8 /\ 0 # 16
    OBVIOUS
  <2>2. LoweredLoad(t, c) = VloadHalf(t, c.offset)
    BY <1>3, <2>1, Zenon DEF LoweredLoad
  <2>3. LoweredStore(t, c) = VstoreHalf(t, c.offset)
    BY <1>3, <2>1, Zenon DEF LoweredStore
  <2>. QED  BY <2>2, <2>3
<1>4. ASSUME c.vec_size = 2
      PROVE  LoweredLoad(t, c) = VloadHalf2(c.offset) /\ LoweredStore(t, c) = VstoreHalf2(c.offset)
  <2>1. 2 # 0 /\ 2 # 3 /\ 2 # 4 /\ 2 # 8 /\ 2 # 16
    OBVIOUS
  <2>2. LoweredLoad(t, c) = VloadHalf2(c.offset)
    BY <1>1, <1>4, <2>1, Zenon DEF LoweredLoad
  <2>3. LoweredStore(t, c) = VstoreHalf2(c.offset)
    BY <1>4, <2>1, Zenon DEF LoweredStore
  <2>. QED  BY <2>2, <2>3
<1>5. ASSUME c.vec_size = 3
      PROVE  /\ c.aligned => LoweredLoad(t, c) = VloadaHalf3(c.offset)
             /\ ~c.aligned => LoweredLoad(t, c) = VloadHalf3(t, c.offset)
             /\ c.aligned => LoweredStore(t, c) = VstoreaHalf3(t, c.offset)
             /\ ~c.aligned => LoweredStore(t, c) = VstoreHalf3(t, c.offset)
  <2>1. 3 # 0 /\ 3 # 2 /\ 3 # 4 /\ 3 # 8 /\ 3 # 16
    OBVIOUS
  <2>2. c.aligned => LoweredLoad(t, c) = VloadaHalf3(c.offset)
    BY <1>5, <2>1, Zenon DEF LoweredLoad
  <2>3. ~c.aligned => LoweredLoad(t, c) = VloadHalf3(t, c.offset)
    BY <1>5, <2>1, Zenon DEF LoweredLoad
  <2>4. c.aligned => LoweredStore(t, c) = VstoreaHalf3(t, c.offset)
    BY <1>5, <2>1, Zenon DEF LoweredStore
  <2>5. ~c.aligned => LoweredStore(t, c) = VstoreHalf3(t, c.offset)
    BY <1>5, <2>1, Zenon DEF LoweredStore
  <2>. QED  BY <2>2, <2>3, <2>4, <2>5
<1>6. ASSUME c.vec_size = 4
      PROVE  LoweredLoad(t, c) = VloadHalf4(c.offset) /\ LoweredStore(t, c) = VstoreHalf4(c.offset)
  <2>1. 4 # 0 /\ 4 # 2 /\ 4 # 3 /\ 4 # 8 /\ 4 # 16
    OBVIOUS
  <2>2. LoweredLoad(t, c) = VloadHalf4(c.offset)
    BY <1>2, <1>6, <2>1, Zenon DEF LoweredLoad
  <2>3. LoweredStore(t, c) = VstoreHalf4(c.offset)
    BY <1>6, <2>1, Zenon DEF LoweredStore
  <2>. QED  BY <2>2, <2>3
<1>7. ASSUME c.vec_size = 8
      PROVE  LoweredLoad(t, c) = VloadHalf8(c.offset) /\ LoweredStore(t, c) = VstoreHalf8(c.offset)
  <2>1. 8 # 0 /\ 8 # 2 /\ 8 # 3 /\ 8 # 4 /\ 8 # 16
    OBVIOUS
  <2>2. LoweredLoad(t, c) = VloadHalf8(c.offset)
    BY <1>7, <2>1, Zenon DEF LoweredLoad
  <2>3. LoweredStore(t, c) = VstoreHalf8(c.offset)
    BY <1>7, <2>1, Zenon DEF LoweredStore
  <2>. QED  BY <2>2, <2>3
<1>8. ASSUME c.vec_size = 16
      PROVE  LoweredLoad(t, c) = VloadHalf16(c.offset) /\ LoweredStore(t, c) = VstoreHalf16(c.offset)
  <2>1. 16 # 0 /\ 16 # 2 /\ 16 # 3 /\ 16 # 4 /\ 16 # 8
    OBVIOUS
  <2>2. LoweredLoad(t, c) = VloadHalf16(c.offset)
    BY <1>8, <2>1, Zenon DEF LoweredLoad
  <2>3. LoweredStore(t, c) = VstoreHalf16(c.offset)
    BY <1>8, <2>1, Zenon DEF LoweredStore
  <2>. QED  BY <2>2, <2>3
<1>. QED  BY <1>3, <1>4, <1>5, <1>6, <1>7, <1>8

\* The code a call becomes moves each of its elements once, to or from its place.
LEMMA LoweredIsCode ==
    ASSUME NEW c \in Calls, NEW t
    PROVE  IsCodeOf(c, Lowered(t, c)) /\ ToMove(Lowered(t, c)) = Elements(c)
<1> DEFINE o == c.offset
           s == Lowered(t, c)
           Done == IsCodeOf(c, s) /\ ToMove(s) = Elements(c)
<1>0. /\ c.family \in {"half", "clspv", "vector"}
      /\ c.vec_size \in {0, 2, 3, 4, 8, 16}
      /\ c.aligned \in BOOLEAN /\ c.store \in BOOLEAN
      /\ o \in Nat
      /\ c.family = "clspv" => c.vec_size \in {2, 4} /\ ~c.store
      /\ c.family = "vector" => c.vec_size # 0 /\ ~c.aligned
  BY CallFacts
<1>1. CASE c.family = "vector"
  <2>1. c.vec_size \in {2, 3, 4, 8, 16} /\ Elements(c) = 0 .. c.vec_size - 1
    BY <1>0, <1>1 DEF Elements
  <2>2. \A i \in Nat : Place(c, i) = o * c.vec_size + i
    BY <1>0, <1>1 DEF Place, Stride
  <2>3. s = [i \in 1 .. c.vec_size |-> Short(i - 1, o * c.vec_size + (i - 1))]
    BY <1>1, LoweredBuiltin DEF Vload
  <2>4. \A i \in 1 .. c.vec_size : s[i] = Short(i - 1, Place(c, i - 1))
    BY <2>1, <2>2, <2>3
  <2>5. \A i \in 1 .. c.vec_size : Short(i - 1, Place(c, i - 1)) \in Instruction
    <3>1. \A i \in 1 .. c.vec_size : i - 1 \in Nat
      BY <2>1
    <3>2. \A i \in 1 .. c.vec_size : Place(c, i - 1) \in Nat
      BY <3>1, CallFacts
    <3>. QED  BY <3>1, <3>2 DEF Short, Instruction
  <2>6. s \in [1 .. c.vec_size -> Instruction]
    BY <2>3, <2>4, <2>5
  <2>7. c.vec_size \in Nat \ {0}
    BY <2>1
  <2>. QED  BY <2>1, <2>4, <2>6, <2>7, ScalarInstructions
<1>2. CASE c.family # "vector" /\ c.vec_size = 0
  <2>1. s = <<Half(t, 0, o)>>
    BY <1>0, <1>2, LoweredBuiltin, LoweredSize DEF VloadHalf, VstoreHalf
  <2>2. Elements(c) = {0} /\ o = Place(c, 0)
    BY <1>0, <1>2 DEF Elements, Place, Stride
  <2>. QED  BY <2>1, <2>2, HalfMoves, OneInstruction
<1>3. CASE c.family # "vector" /\ c.vec_size = 2
  <2>1. s = <<WordsOf(0, 1, o, 1)>>
    BY <1>0, <1>3, LoweredBuiltin, LoweredSize DEF VloadHalf2, VstoreHalf2
  <2>2. Elements(c) = 0 .. 1 /\ 2 * o = Place(c, 0)
    BY <1>0, <1>3 DEF Elements, Place, Stride
  <2>3. /\ Moves(c, WordsOf(0, 1, o, 1))
        /\ Moved(WordsOf(0, 1, o, 1)) = 0 .. 1
    BY <1>0, <2>2 DEF Moves, WordsOf, Moved, Instruction
  <2>. QED  BY <2>1, <2>2, <2>3, OneInstruction
<1>4. CASE c.family # "vector" /\ c.vec_size = 3 /\ c.aligned /\ ~c.store
  <2>1. s = <<WordsOf(0, 2, 2 * o, 2)>>
    BY <1>0, <1>4, LoweredBuiltin, LoweredSize DEF VloadaHalf3
  <2>2. Elements(c) = 0 .. 2 /\ 2 * (2 * o) = Place(c, 0)
    BY <1>0, <1>4 DEF Elements, Place, Stride
  <2>3. /\ Moves(c, WordsOf(0, 2, 2 * o, 2))
        /\ Moved(WordsOf(0, 2, 2 * o, 2)) = 0 .. 2
    BY <1>0, <1>4, <2>2 DEF Moves, WordsOf, Moved, Instruction
  <2>. QED  BY <2>1, <2>2, <2>3, OneInstruction
<1>5. CASE c.family # "vector" /\ c.vec_size = 3 /\ ~(c.aligned /\ ~c.store)
  <2>1. Elements(c) = 0 .. 2
    BY <1>5 DEF Elements
  <2>2. s = [i \in 1 .. 3 |-> Half(t, i - 1, Stride(c) * o + (i - 1))]
    <3>1. CASE c.aligned
      BY <1>0, <1>5, <3>1, LoweredBuiltin, LoweredSize DEF VstoreaHalf3, Stride
    <3>2. CASE ~c.aligned
      <4>1. Stride(c) * o = 2 * o + o
        BY <1>0, <1>5, <3>2 DEF Stride
      <4>2. s = [i \in 1 .. 3 |-> Half(t, i - 1, (2 * o + o) + (i - 1))]
        BY <1>0, <1>5, <3>2, LoweredBuiltin, LoweredSize DEF VloadHalf3, VstoreHalf3
      <4>. QED  BY <4>1, <4>2
    <3>. QED  BY <3>1, <3>2
  <2>3. \A i \in 1 .. 3 : s[i] = Half(t, i - 1, Place(c, i - 1))
    BY <2>2 DEF Place
  <2>4. \A i \in 1 .. 3 : i - 1 \in Elements(c)
    BY <2>1
  <2>5. \A i \in 1 .. 3 : /\ s[i] \in {Short(i - 1, Place(c, i - 1)),
                                       InWord(i - 1, Place(c, i - 1))}
                          /\ s[i] \in Instruction
    BY <2>3, <2>4, HalfMoves
  <2>6. s \in [1 .. 3 -> Instruction]
    BY <2>2, <2>5
  <2>7. 3 \in Nat \ {0} /\ Elements(c) = 0 .. 3 - 1
    BY <2>1
  <2>. QED  BY <2>5, <2>6, <2>7, ScalarInstructions
<1>6. CASE c.family # "vector" /\ c.vec_size = 4
  <2>1. s = <<WordsOf(0, 3, 2 * o, 2)>>
    BY <1>0, <1>6, LoweredBuiltin, LoweredSize DEF VloadHalf4, VstoreHalf4
  <2>2. Elements(c) = 0 .. 3 /\ 2 * (2 * o) = Place(c, 0)
    BY <1>0, <1>6 DEF Elements, Place, Stride
  <2>3. /\ Moves(c, WordsOf(0, 3, 2 * o, 2))
        /\ Moved(WordsOf(0, 3, 2 * o, 2)) = 0 .. 3
    BY <1>0, <2>2 DEF Moves, WordsOf, Moved, Instruction
  <2>. QED  BY <2>1, <2>2, <2>3, OneInstruction
<1>7. CASE c.family # "vector" /\ c.vec_size = 8
  <2>1. s = <<WordsOf(0, 7, 4 * o, 4)>>
    BY <1>0, <1>7, LoweredBuiltin, LoweredSize DEF VloadHalf8, VstoreHalf8
  <2>2. Elements(c) = 0 .. 7 /\ 2 * (4 * o) = Place(c, 0)
    BY <1>0, <1>7 DEF Elements, Place, Stride
  <2>3. /\ Moves(c, WordsOf(0, 7, 4 * o, 4))
        /\ Moved(WordsOf(0, 7, 4 * o, 4)) = 0 .. 7
    BY <1>0, <2>2 DEF Moves, WordsOf, Moved, Instruction
  <2>. QED  BY <2>1, <2>2, <2>3, OneInstruction
<1>8. CASE c.family # "vector" /\ c.vec_size = 16
  <2> DEFINE a == WordsOf(0, 7, 4 * (2 * o), 4)
             b == WordsOf(8, 15, 4 * (2 * o + 1), 4)
  <2>1. s = <<a, b>>
    BY <1>0, <1>8, LoweredBuiltin, LoweredSize DEF VloadHalf16, VstoreHalf16
  <2>2. /\ Elements(c) = 0 .. 15
        /\ 2 * (4 * (2 * o)) = Place(c, 0)
        /\ 2 * (4 * (2 * o + 1)) = Place(c, 8)
    BY <1>0, <1>8 DEF Elements, Place, Stride
  <2>3. Moves(c, a) /\ Moved(a) = 0 .. 7
    BY <1>0, <2>2 DEF Moves, WordsOf, Moved, Instruction
  <2>4. Moves(c, b) /\ Moved(b) = 8 .. 15
    BY <1>0, <2>2 DEF Moves, WordsOf, Moved, Instruction
  <2>. HIDE DEF a, b
  <2>5. Moved(a) \cap Moved(b) = {} /\ Moved(a) \cup Moved(b) = Elements(c)
    BY <2>2, <2>3, <2>4
  <2>. QED  BY <2>1, <2>3, <2>4, <2>5, TwoInstructions
<1>. QED  BY <1>0, <1>1, <1>2, <1>3, <1>4, <1>5, <1>6, <1>7, <1>8

LEMMA HeadOfCode ==
    ASSUME NEW c \in Calls, NEW s, IsCodeOf(c, s), s # <<>>
    PROVE  /\ Moves(c, Head(s)) /\ Moved(Head(s)) # {}
           /\ Moved(Head(s)) \subseteq ToMove(s)
           /\ IsCodeOf(c, Tail(s))
           /\ ToMove(Tail(s)) = ToMove(s) \ Moved(Head(s))
<1>1. /\ s \in Seq(Instruction) /\ Len(s) \in Nat /\ Len(s) > 0
      /\ DOMAIN s = 1 .. Len(s)
      /\ Head(s) = s[1]
  BY DEF IsCodeOf
<1>2. /\ Tail(s) \in Seq(Instruction) /\ DOMAIN Tail(s) = 1 .. Len(s) - 1
      /\ \A n \in 1 .. Len(s) - 1 : n + 1 \in 1 .. Len(s) /\ Tail(s)[n] = s[n + 1]
  BY <1>1
<1>3. Moves(c, s[1]) /\ 1 \in DOMAIN s
  BY <1>1 DEF IsCodeOf
<1>4. Moved(s[1]) # {}
  BY <1>3 DEF Moves, Moved, Instruction
<1>5. IsCodeOf(c, Tail(s))
  <2>1. \A n \in DOMAIN Tail(s) : Moves(c, Tail(s)[n])
    BY <1>1, <1>2 DEF IsCodeOf
  <2>2. ASSUME NEW m \in DOMAIN Tail(s), NEW n \in DOMAIN Tail(s), m # n
        PROVE  Moved(Tail(s)[m]) \cap Moved(Tail(s)[n]) = {}
    <3>1. m + 1 \in DOMAIN s /\ n + 1 \in DOMAIN s /\ m + 1 # n + 1
      BY <1>1, <1>2, <2>2
    <3>2. Moved(s[m + 1]) \cap Moved(s[n + 1]) = {}
      BY <3>1 DEF IsCodeOf
    <3>. QED  BY <1>2, <3>2
  <2>. QED  BY <1>2, <2>1, <2>2 DEF IsCodeOf
<1>6. ToMove(Tail(s)) = ToMove(s) \ Moved(s[1])
  <2>1. ASSUME NEW i \in ToMove(Tail(s)) PROVE i \in ToMove(s) \ Moved(s[1])
    <3>1. PICK n \in 1 .. Len(s) - 1 : i \in Moved(Tail(s)[n])
      BY <1>2 DEF ToMove
    <3>2. n + 1 \in DOMAIN s /\ n + 1 # 1 /\ i \in Moved(s[n + 1])
      BY <1>1, <1>2, <3>1
    <3>3. Moved(s[n + 1]) \cap Moved(s[1]) = {}
      BY <1>3, <3>2 DEF IsCodeOf
    <3>. QED  BY <3>2, <3>3 DEF ToMove
  <2>2. ASSUME NEW i \in ToMove(s), i \notin Moved(s[1]) PROVE i \in ToMove(Tail(s))
    <3>1. PICK n \in 1 .. Len(s) : i \in Moved(s[n])
      BY <1>1 DEF ToMove
    <3>2. n # 1
      BY <2>2, <3>1
    <3>3. n - 1 \in 1 .. Len(s) - 1 /\ (n - 1) + 1 = n
      BY <1>1, <3>2
    <3>4. i \in Moved(Tail(s)[n - 1])
      BY <1>2, <3>1, <3>3
    <3>. QED  BY <1>2, <3>3, <3>4 DEF ToMove
  <2>. QED  BY <2>1, <2>2
<1>7. Moved(s[1]) \subseteq ToMove(s)
  BY <1>3 DEF ToMove
<1>. QED  BY <1>1, <1>3, <1>4, <1>5, <1>6, <1>7

-----------------------------------------------------------------------------
(* The inductive invariant. *)

NoRaces ==
  \A u, w \in Items : u # w => ~Race(call[u], call[w])

CallsInBuffer ==
  /\ call \in [Items -> Calls \cup {NoCall}]
  /\ \A w \in Items : call[w] # NoCall => Footprint(call[w]) \subseteq Places

\* What is left of the code of a call is code of that call.
CodeOfCalls ==
  /\ DOMAIN code = Items
  /\ \A w \in Items : IF call[w] = NoCall THEN code[w] = <<>>
                                          ELSE IsCodeOf(call[w], code[w])

\* A word is read by a store of a half, and used by the same instruction.
CurrentIsUsed ==
  /\ current \in [Items -> SUBSET WordValues]
  /\ \A w \in Items : current[w] # {} => AtInstruction(w, "half", TRUE)

IInv ==
  /\ mem \in [Words -> WordValues]
  /\ CallsInBuffer
  /\ NoRaces
  /\ CodeOfCalls
  /\ CurrentIsUsed
  /\ CurrentHalfIsFresh

LEMMA CallIsSome == \A c \in Calls : c # NoCall
<1> SUFFICES ASSUME NEW c \in Calls PROVE c # NoCall
  OBVIOUS
<1>1. DOMAIN c = {"family", "vec_size", "aligned", "store", "offset", "data"}
  BY CallsAreCalls
<1>2. DOMAIN NoCall = {"store"}
  BY DEF NoCall
<1>. QED  BY <1>1, <1>2

LEMMA RaceIsSymmetric == \A c, d : Race(c, d) <=> Race(d, c)
BY DEF Race

LEMMA InitIInv == Init => IInv
<1> SUFFICES ASSUME Init PROVE IInv
  OBVIOUS
<1>1. mem \in [Words -> WordValues]
  BY MemoriesAreMemories DEF Init
<1>2. \A w \in Items : call[w] = NoCall /\ code[w] = <<>> /\ current[w] = {}
  BY DEF Init
<1>3. CallsInBuffer
  BY DEF Init, CallsInBuffer
<1>4. NoRaces
  BY <1>2 DEF NoRaces, Race
<1>5. CodeOfCalls
  BY <1>2 DEF Init, CodeOfCalls
<1>6. CurrentIsUsed
  BY <1>2 DEF Init, CurrentIsUsed
<1>7. CurrentHalfIsFresh
  BY <1>2 DEF CurrentHalfIsFresh
<1>. QED  BY <1>1, <1>3, <1>4, <1>5, <1>6, <1>7 DEF IInv

-----------------------------------------------------------------------------
(* What the stores do to the buffer. *)

LEMMA PlaceInWord ==
    ASSUME NEW p \in Places
    PROVE  p \in Nat /\ p \div 2 \in Words /\ p % 2 \in {0, 1} /\ p = 2 * (p \div 2) + (p % 2)
BY SizesAreNatural DEF Places, Words

LEMMA InstructionFacts ==
    ASSUME IInv, NEW w \in Items, code[w] # <<>>
    PROVE  LET c == call[w]
               ins == Head(code[w])
           IN  /\ c \in Calls /\ c # NoCall /\ IsCodeOf(c, code[w])
               /\ Moves(c, ins) /\ Moved(ins) # {}
               /\ \A i \in Moved(ins) : /\ i \in 0 .. 15
                                        /\ Place(c, i) \in Footprint(c)
                                        /\ Place(c, i) \in Places
                                        /\ c.data[i] \in Halves
<1> DEFINE c == call[w]
           ins == Head(code[w])
<1>1. c # NoCall /\ IsCodeOf(c, code[w])
  BY DEF IInv, CodeOfCalls
<1>2. c \in Calls
  BY <1>1 DEF IInv, CallsInBuffer
<1>3. Moves(c, ins) /\ Moved(ins) # {}
  BY <1>1, <1>2, HeadOfCode
<1>4. Footprint(c) \subseteq Places
  BY <1>1 DEF IInv, CallsInBuffer
<1>5. \A i \in Moved(ins) : i \in Elements(c)
  BY <1>3 DEF Moves
<1>6. \A i \in Elements(c) : i \in 0 .. 15 /\ c.data[i] \in Halves
  BY <1>2, CallFacts
<1>7. \A i \in Moved(ins) : Place(c, i) \in Footprint(c)
  BY <1>5 DEF Footprint
<1>. QED  BY <1>1, <1>2, <1>3, <1>4, <1>5, <1>6, <1>7

\* The elements an instruction moves are stored, and nothing else is.
Stores(c, ins) ==
  /\ mem' \in [Words -> WordValues]
  /\ \A i \in Moved(ins) : HalfAt(mem', Place(c, i)) = c.data[i]
  /\ \A p \in Places : (\A i \in Moved(ins) : Place(c, i) # p)
                          => HalfAt(mem', p) = HalfAt(mem, p)

\* A new value for the word of one half that keeps the other half.
LEMMA OneHalfStored ==
    ASSUME IInv, NEW c, NEW ins, NEW i, Moved(ins) = {i},
           NEW p \in Places, p = Place(c, i), NEW new \in WordValues,
           mem' = [mem EXCEPT ![p \div 2] = new],
           Unpack(new, p % 2) = c.data[i],
           Unpack(new, 1 - (p % 2)) = Unpack(mem[p \div 2], 1 - (p % 2))
    PROVE  Stores(c, ins)
<1>1. p \div 2 \in Words /\ p % 2 \in {0, 1} /\ mem \in [Words -> WordValues]
  BY PlaceInWord DEF IInv
<1>2. mem' \in [Words -> WordValues] /\ mem'[p \div 2] = new
  BY <1>1
<1>3. HalfAt(mem', p) = c.data[i]
  BY <1>2 DEF HalfAt
<1>4. ASSUME NEW q \in Places, q # p PROVE HalfAt(mem', q) = HalfAt(mem, q)
  <2>1. q \div 2 \in Words /\ q % 2 \in {0, 1}
    BY PlaceInWord
  <2>2. CASE q \div 2 = p \div 2
    <3>1. q % 2 = 1 - (p % 2)
      BY <1>1, <1>4, <2>1, <2>2, PlaceInWord
    <3>. QED  BY <1>2, <2>2, <3>1 DEF HalfAt
  <2>3. CASE q \div 2 # p \div 2
    BY <1>1, <2>1, <2>3 DEF HalfAt
  <2>. QED  BY <2>2, <2>3
<1>. QED  BY <1>2, <1>3, <1>4 DEF Stores

LEMMA ShortStores ==
    ASSUME IInv, NEW w \in Items, StoreShort(w)
    PROVE  Stores(call[w], Head(code[w]))
<1> DEFINE c == call[w]
           ins == Head(code[w])
           i == ins.first
           new == WithHalf(mem[ins.at \div 2], ins.at % 2, c.data[i])
<1>1. code[w] # <<>> /\ ins.kind = "short"
  BY DEF StoreShort, AtInstruction
<1>2. Moved(ins) = {i} /\ ins.at = Place(c, i) /\ i \in Moved(ins)
  BY <1>1, InstructionFacts DEF Moves, Moved, Instruction
<1>3. ins.at \in Places /\ c.data[i] \in Halves
  BY <1>1, <1>2, InstructionFacts
<1>4. ins.at % 2 \in {0, 1}
  BY <1>3, PlaceInWord
<1>5. mem' = [mem EXCEPT ![ins.at \div 2] = new]
  BY DEF StoreShort
<1>6. /\ new \in WordValues
      /\ Unpack(new, ins.at % 2) = c.data[i]
      /\ Unpack(new, 1 - (ins.at % 2)) = Unpack(mem[ins.at \div 2], 1 - (ins.at % 2))
  BY <1>3, <1>4, WithHalfStores
<1>. HIDE DEF new, ins, c, i
<1>. QED  BY <1>2, <1>3, <1>5, <1>6, OneHalfStored DEF ins, c

LEMMA AtomicXorStores ==
    ASSUME IInv, NEW w \in Items, AtomicXor(w)
    PROVE  Stores(call[w], Head(code[w]))
<1> DEFINE c == call[w]
           ins == Head(code[w])
           i == ins.first
<1>1. code[w] # <<>> /\ ins.kind = "half"
  BY DEF AtomicXor, AtInstruction
<1>2. Moved(ins) = {i} /\ ins.at = Place(c, i) /\ i \in Moved(ins)
  BY <1>1, InstructionFacts DEF Moves, Moved, Instruction
<1>3. ins.at \in Places /\ c.data[i] \in Halves /\ ins.at \in Nat
  BY <1>1, <1>2, InstructionFacts, PlaceInWord
<1>4. ins.at \div 2 \in Words /\ mem[ins.at \div 2] \in WordValues
  BY <1>3, PlaceInWord DEF IInv
<1>5. PICK word \in current[w] :
        mem' = [mem EXCEPT ![ins.at \div 2] = Xor(@, ValueToXor(word, c.data[i], ins.at))]
  BY DEF AtomicXor
<1> DEFINE new == Xor(mem[ins.at \div 2], ValueToXor(word, c.data[i], ins.at))
<1>6. word \in WordValues
  BY <1>5 DEF IInv, CurrentIsUsed
<1>7. Unpack(word, ins.at % 2) = Unpack(mem[ins.at \div 2], ins.at % 2)
  BY <1>5 DEF IInv, CurrentHalfIsFresh, HalfAt
<1>8. /\ new \in WordValues
      /\ Unpack(new, ins.at % 2) = c.data[i]
      /\ Unpack(new, 1 - (ins.at % 2)) = Unpack(mem[ins.at \div 2], 1 - (ins.at % 2))
  BY <1>3, <1>4, <1>6, <1>7, XorStores
<1>9. mem' = [mem EXCEPT ![ins.at \div 2] = new]
  BY <1>5
<1>. HIDE DEF new, ins, c, i
<1>. QED  BY <1>2, <1>3, <1>8, <1>9, OneHalfStored DEF ins, c

LEMMA WordsStore ==
    ASSUME IInv, NEW w \in Items, StoreWords(w)
    PROVE  Stores(call[w], Head(code[w]))
<1>0. PICK c, ins, at, count, first :
        /\ c = call[w] /\ ins = Head(code[w])
        /\ at = ins.at /\ count = ins.count /\ first = ins.first
  OBVIOUS
<1>1. code[w] # <<>> /\ ins.kind = "words" /\ c.store
  BY <1>0 DEF StoreWords, AtInstruction
<1>2. /\ c \in Calls /\ Moves(c, ins)
      /\ \A i \in Moved(ins) : Place(c, i) \in Places /\ c.data[i] \in Halves
  BY <1>0, <1>1, InstructionFacts
<1>3. /\ at \in Nat /\ count \in Nat /\ first \in Nat
      /\ Moved(ins) = first .. first + 2 * count - 1
      /\ Place(c, first) = 2 * at
  <2>1. /\ at \in Nat /\ count \in Nat /\ first \in Nat /\ ins.last \in Nat
        /\ 2 * at = Place(c, first) /\ 2 * count = ins.last - first + 1
    BY <1>0, <1>1, <1>2 DEF Moves, Instruction
  <2>2. Moved(ins) = first .. ins.last
    BY <1>0 DEF Moved
  <2>3. ins.last = first + 2 * count - 1
    BY <2>1
  <2>. QED  BY <2>1, <2>2, <2>3
<1>4. \A i \in Moved(ins) : i \in Nat /\ Place(c, i) = 2 * at + (i - first)
  <2>1. \A i \in Nat : Place(c, i) = Place(c, 0) + i /\ Place(c, i) \in Nat
    BY <1>2, CallFacts
  <2>2. Place(c, first) = Place(c, 0) + first /\ Place(c, 0) \in Nat
    BY <1>3, <2>1
  <2>3. Place(c, 0) = 2 * at - first
    BY <1>3, <2>2
  <2>4. ASSUME NEW i \in Moved(ins) PROVE i \in Nat /\ Place(c, i) = 2 * at + (i - first)
    <3>1. i \in Nat
      BY <1>3
    <3>2. Place(c, i) = Place(c, 0) + i
      BY <2>1, <3>1
    <3>. QED  BY <1>3, <2>3, <3>1, <3>2
  <2>. QED  BY <2>4
<1>5. ASSUME NEW a \in at .. at + count - 1
      PROVE  /\ first + 2 * (a - at) \in Moved(ins)
             /\ first + (2 * (a - at) + 1) \in Moved(ins)
  BY <1>3
<1>6. mem' = [a \in Words |->
                IF a \in at .. at + count - 1
                THEN Pack(c.data[first + 2 * (a - at)], c.data[first + (2 * (a - at) + 1)])
                ELSE mem[a]]
  BY <1>0 DEF StoreWords
<1>7. mem' \in [Words -> WordValues]
  <2>1. ASSUME NEW a \in Words, a \in at .. at + count - 1
        PROVE  Pack(c.data[first + 2 * (a - at)], c.data[first + (2 * (a - at) + 1)])
                 \in WordValues
    BY <1>2, <1>5, <2>1, PackIsWord
  <2>2. mem \in [Words -> WordValues]
    BY DEF IInv
  <2>. QED  BY <1>6, <2>1, <2>2
<1>8. ASSUME NEW i \in Moved(ins) PROVE HalfAt(mem', Place(c, i)) = c.data[i]
  <2>0. PICK p : p = Place(c, i)
    OBVIOUS
  <2>1. p \in Places /\ p = 2 * at + (i - first) /\ i \in Nat
    BY <1>2, <1>4, <2>0
  <2>2. /\ p \div 2 \in Words /\ p % 2 \in {0, 1}
        /\ p \div 2 \in at .. at + count - 1
        /\ i = first + (2 * ((p \div 2) - at) + (p % 2))
    BY <1>3, <2>1, PlaceInWord
  <2>3. PICK a : a = p \div 2
    OBVIOUS
  <2>4. mem'[a] = Pack(c.data[first + 2 * (a - at)], c.data[first + (2 * (a - at) + 1)])
    BY <1>6, <2>2, <2>3
  <2>5. /\ c.data[first + 2 * (a - at)] \in Halves
        /\ c.data[first + (2 * (a - at) + 1)] \in Halves
    BY <1>2, <1>5, <2>2, <2>3
  <2>6. /\ Unpack(mem'[a], 0) = c.data[first + 2 * (a - at)]
        /\ Unpack(mem'[a], 1) = c.data[first + (2 * (a - at) + 1)]
    BY <2>4, <2>5, UnpackPack
  <2>7. CASE p % 2 = 0
    <3>1. i = first + 2 * (a - at)
      BY <1>3, <2>1, <2>2, <2>3, <2>7
    <3>. QED  BY <2>0, <2>3, <2>6, <2>7, <3>1 DEF HalfAt
  <2>8. CASE p % 2 = 1
    <3>1. i = first + (2 * (a - at) + 1)
      BY <2>2, <2>3, <2>8
    <3>. QED  BY <2>0, <2>3, <2>6, <2>8, <3>1 DEF HalfAt
  <2>. QED  BY <2>2, <2>7, <2>8
<1>9. ASSUME NEW q \in Places, \A i \in Moved(ins) : Place(c, i) # q
      PROVE  HalfAt(mem', q) = HalfAt(mem, q)
  <2>1. q \in Nat /\ q \div 2 \in Words /\ q % 2 \in {0, 1} /\ q = 2 * (q \div 2) + (q % 2)
    BY PlaceInWord
  <2>2. CASE q \div 2 \in at .. at + count - 1
    <3>1. PICK i : i = first + (q - 2 * at)
      OBVIOUS
    <3>2. i \in Moved(ins) /\ 2 * at + (i - first) = q
      BY <1>3, <2>1, <2>2, <3>1
    <3>. QED  BY <1>4, <1>9, <3>2
  <2>3. CASE q \div 2 \notin at .. at + count - 1
    BY <1>6, <2>1, <2>3 DEF HalfAt
  <2>. QED  BY <2>2, <2>3
<1>. QED  BY <1>0, <1>7, <1>8, <1>9 DEF Stores

-----------------------------------------------------------------------------
(* What the other work-items do to the half an instruction is about. *)

LEMMA HalfInstruction ==
    ASSUME IInv, NEW w \in Items, code[w] # <<>>, Head(code[w]).kind = "half"
    PROVE  LET p == Head(code[w]).at
           IN  /\ p \in Footprint(call[w]) /\ p \in Places
               /\ p = Place(call[w], Head(code[w]).first)
<1> DEFINE ins == Head(code[w])
<1>1. ins.first \in Moved(ins) /\ ins.at = Place(call[w], ins.first)
  BY InstructionFacts DEF Moves, Moved, Instruction
<1>. QED  BY <1>1, InstructionFacts

\* A program without races stores no half that another call is storing.
LEMMA StoredElsewhere ==
    ASSUME IInv, NEW w \in Items, NEW u \in Items, u # w,
           code[w] # <<>>, call[w].store, Stores(call[w], Head(code[w])),
           current[u] # {}
    PROVE  HalfAt(mem', Head(code[u]).at) = HalfAt(mem, Head(code[u]).at)
<1> DEFINE p == Head(code[u]).at
<1>1. code[u] # <<>> /\ Head(code[u]).kind = "half"
  BY DEF IInv, CurrentIsUsed, AtInstruction
<1>2. p \in Footprint(call[u]) /\ p \in Places /\ call[u] # NoCall
  BY <1>1, HalfInstruction, InstructionFacts
<1>3. Footprint(call[w]) \cap Footprint(call[u]) = {}
  BY <1>2, InstructionFacts DEF IInv, NoRaces, Race
<1>4. \A i \in Moved(Head(code[w])) : Place(call[w], i) # p
  BY <1>2, <1>3, InstructionFacts
<1>. QED  BY <1>2, <1>4 DEF Stores

\* Whatever a plain load of the word returns, it returns this half.
LEMMA HalfIsSeen ==
    ASSUME IInv, NEW w \in Items, code[w] # <<>>, Head(code[w]).kind = "half",
           NEW word \in WordsSeen(w, Head(code[w]).at \div 2)
    PROVE  /\ word \in WordValues
           /\ Unpack(word, Head(code[w]).at % 2) = HalfAt(mem, Head(code[w]).at)
<1>0. PICK p, a : p = Head(code[w]).at /\ a = p \div 2
  OBVIOUS
<1>1. p \in Footprint(call[w]) /\ p \in Places /\ call[w] # NoCall
  BY <1>0, HalfInstruction, InstructionFacts
<1>2. ~Racy(w, p)
  <2> SUFFICES ASSUME NEW u \in Items, u # w, p \in Stored(u) PROVE FALSE
    BY DEF Racy
  <2>1. call[u] # NoCall /\ call[u].store /\ p \in Footprint(call[u])
    BY DEF Stored
  <2>2. Race(call[u], call[w])
    BY <1>1, <2>1 DEF Race
  <2>. QED  BY <2>2 DEF IInv, NoRaces
<1>3. Seen(w, p) = {HalfAt(mem, p)}
  BY <1>2 DEF Seen
<1>4. \A q : Seen(w, q) \subseteq Halves
  BY UnpackIsHalf DEF Seen, HalfAt
<1>5. PICK lo \in Seen(w, 2 * a), hi \in Seen(w, 2 * a + 1) : word = Pack(lo, hi)
  BY <1>0 DEF WordsSeen
<1>6. /\ word \in WordValues
      /\ Unpack(word, 0) = lo /\ Unpack(word, 1) = hi
  BY <1>4, <1>5, PackIsWord, UnpackPack
<1>7. p % 2 \in {0, 1} /\ p = 2 * a + (p % 2) /\ a \in Nat
  BY <1>0, <1>1, PlaceInWord DEF Words
<1>8. CASE p % 2 = 0
  BY <1>0, <1>3, <1>5, <1>6, <1>7, <1>8
<1>9. CASE p % 2 = 1
  BY <1>0, <1>3, <1>5, <1>6, <1>7, <1>9
<1>. QED  BY <1>6, <1>7, <1>8, <1>9

-----------------------------------------------------------------------------
(* Every step keeps the invariant. *)

\* An instruction is done, and has not changed a half that is to be xored.
LEMMA AdvanceIInv ==
    ASSUME IInv, NEW w \in Items, code[w] # <<>>,
           mem' \in [Words -> WordValues],
           call' = call,
           code' = [code EXCEPT ![w] = Tail(@)],
           current' = [current EXCEPT ![w] = {}],
           \A u \in Items \ {w} : current[u] # {} =>
             HalfAt(mem', Head(code[u]).at) = HalfAt(mem, Head(code[u]).at)
    PROVE  IInv'
<1>1. CallsInBuffer' /\ NoRaces'
  BY DEF IInv, CallsInBuffer, NoRaces
<1>2. \A u \in Items : code'[u] = IF u = w THEN Tail(code[u]) ELSE code[u]
  BY DEF IInv, CodeOfCalls
<1>3. \A u \in Items : current'[u] = IF u = w THEN {} ELSE current[u]
  BY DEF IInv, CurrentIsUsed
<1>4. IsCodeOf(call[w], Tail(code[w])) /\ call[w] # NoCall
  BY InstructionFacts, HeadOfCode
<1>5. CodeOfCalls'
  <2>1. DOMAIN code' = Items
    BY DEF IInv, CodeOfCalls
  <2>2. ASSUME NEW u \in Items
        PROVE  IF call'[u] = NoCall THEN code'[u] = <<>> ELSE IsCodeOf(call'[u], code'[u])
    BY <1>2, <1>4 DEF IInv, CodeOfCalls
  <2>. QED  BY <2>1, <2>2 DEF CodeOfCalls
<1>6. CurrentIsUsed'
  <2>1. current' \in [Items -> SUBSET WordValues]
    BY DEF IInv, CurrentIsUsed
  <2>2. ASSUME NEW u \in Items, current'[u] # {} PROVE AtInstruction(u, "half", TRUE)'
    BY <1>2, <1>3, <2>2 DEF IInv, CurrentIsUsed, AtInstruction
  <2>. QED  BY <2>1, <2>2 DEF CurrentIsUsed
<1>7. CurrentHalfIsFresh'
  <2> SUFFICES ASSUME NEW u \in Items, NEW word \in current'[u]
               PROVE  Unpack(word, Head(code'[u]).at % 2) = HalfAt(mem', Head(code'[u]).at)
    BY DEF CurrentHalfIsFresh
  <2>1. u # w /\ word \in current[u] /\ code'[u] = code[u]
    BY <1>2, <1>3
  <2>2. Unpack(word, Head(code[u]).at % 2) = HalfAt(mem, Head(code[u]).at)
    BY <2>1 DEF IInv, CurrentHalfIsFresh
  <2>. QED  BY <2>1, <2>2
<1>. QED  BY <1>1, <1>5, <1>6, <1>7 DEF IInv

LEMMA LoadIInv ==
    ASSUME IInv, NEW w \in Items, LoadShort(w) \/ LoadInWord(w) \/ LoadWords(w)
    PROVE  IInv'
<1>1. /\ code[w] # <<>> /\ call[w].store = FALSE
      /\ UNCHANGED <<mem, call, current>>
      /\ code' = [code EXCEPT ![w] = Tail(@)]
  BY DEF LoadShort, LoadInWord, LoadWords, AtInstruction
<1>2. current[w] = {}
  BY <1>1 DEF IInv, CurrentIsUsed, AtInstruction
<1>3. current' = [current EXCEPT ![w] = {}]
  BY <1>1, <1>2 DEF IInv, CurrentIsUsed
<1>4. mem' \in [Words -> WordValues]
  BY <1>1 DEF IInv
<1>. QED  BY <1>1, <1>3, <1>4, AdvanceIInv

LEMMA StoreIInv ==
    ASSUME IInv, NEW w \in Items, StoreShort(w) \/ StoreWords(w) \/ AtomicXor(w)
    PROVE  IInv'
<1>1. /\ code[w] # <<>> /\ call[w].store = TRUE
      /\ call' = call
      /\ code' = [code EXCEPT ![w] = Tail(@)]
  BY DEF StoreShort, StoreWords, AtomicXor, AtInstruction
<1>2. Stores(call[w], Head(code[w]))
  BY ShortStores, WordsStore, AtomicXorStores
<1>3. current' = [current EXCEPT ![w] = {}]
  <2>1. CASE AtomicXor(w)
    BY <2>1 DEF AtomicXor
  <2>2. CASE StoreShort(w) \/ StoreWords(w)
    <3>1. Head(code[w]).kind # "half" /\ current' = current
      BY <2>2 DEF StoreShort, StoreWords, AtInstruction
    <3>2. current[w] = {}
      BY <3>1 DEF IInv, CurrentIsUsed, AtInstruction
    <3>. QED  BY <3>1, <3>2 DEF IInv, CurrentIsUsed
  <2>. QED  BY <2>1, <2>2
<1>4. mem' \in [Words -> WordValues]
  BY <1>2 DEF Stores
<1>5. \A u \in Items \ {w} : current[u] # {} =>
        HalfAt(mem', Head(code[u]).at) = HalfAt(mem, Head(code[u]).at)
  BY <1>1, <1>2, StoredElsewhere
<1>. QED  BY <1>1, <1>3, <1>4, <1>5, AdvanceIInv

LEMMA ReadCurrentIInv ==
    ASSUME IInv, NEW w \in Items, ReadCurrent(w)
    PROVE  IInv'
<1>1. /\ AtInstruction(w, "half", TRUE)
      /\ UNCHANGED <<mem, call, code>>
  BY DEF ReadCurrent
<1>2. PICK word \in WordsSeen(w, Head(code[w]).at \div 2) :
        current' = [current EXCEPT ![w] = {word}]
  BY DEF ReadCurrent
<1>3. /\ word \in WordValues
      /\ Unpack(word, Head(code[w]).at % 2) = HalfAt(mem, Head(code[w]).at)
  BY <1>1, HalfIsSeen DEF AtInstruction
<1>4. \A u \in Items : current'[u] = IF u = w THEN {word} ELSE current[u]
  BY <1>2 DEF IInv, CurrentIsUsed
<1>5. CurrentIsUsed'
  <2>1. current' \in [Items -> SUBSET WordValues]
    BY <1>2, <1>3 DEF IInv, CurrentIsUsed
  <2>2. ASSUME NEW u \in Items, current'[u] # {} PROVE AtInstruction(u, "half", TRUE)'
    BY <1>1, <1>4, <2>2 DEF IInv, CurrentIsUsed, AtInstruction
  <2>. QED  BY <2>1, <2>2 DEF CurrentIsUsed
<1>6. CurrentHalfIsFresh'
  BY <1>1, <1>3, <1>4 DEF IInv, CurrentHalfIsFresh
<1>7. CallsInBuffer' /\ NoRaces' /\ CodeOfCalls' /\ mem' \in [Words -> WordValues]
  BY <1>1 DEF IInv, CallsInBuffer, NoRaces, CodeOfCalls
<1>. QED  BY <1>5, <1>6, <1>7 DEF IInv

LEMMA BeginIInv ==
    ASSUME IInv, NEW w \in Items, NEW c \in Calls, Begin(w, c)
    PROVE  IInv'
<1>1. /\ call[w] = NoCall
      /\ call' = [call EXCEPT ![w] = c]
      /\ code' = [code EXCEPT ![w] = Lowered(target, c)]
      /\ UNCHANGED <<mem, current>>
      /\ MayBegin(w, c)
  BY DEF Begin
<1>2. c # NoCall /\ code[w] = <<>> /\ current[w] = {}
  BY <1>1, CallIsSome DEF IInv, CodeOfCalls, CurrentIsUsed, AtInstruction
<1>3. \A u \in Items : /\ call'[u] = IF u = w THEN c ELSE call[u]
                       /\ code'[u] = IF u = w THEN Lowered(target, c) ELSE code[u]
  BY <1>1 DEF IInv, CallsInBuffer, CodeOfCalls
<1>4. CallsInBuffer'
  <2>1. call' \in [Items -> Calls \cup {NoCall}]
    BY <1>1 DEF IInv, CallsInBuffer
  <2>2. Footprint(c) \subseteq Places
    BY <1>1 DEF MayBegin
  <2>. QED  BY <1>3, <2>1, <2>2 DEF IInv, CallsInBuffer
<1>5. NoRaces'
  <2> SUFFICES ASSUME NEW u \in Items, NEW v \in Items, u # v
               PROVE  ~Race(call'[u], call'[v])
    BY DEF NoRaces
  <2>1. \A x \in Items \ {w} : ~Race(c, call[x]) /\ ~Race(call[x], c)
    BY <1>1, RaceIsSymmetric DEF MayBegin
  <2>. QED  BY <1>3, <2>1 DEF IInv, NoRaces
<1>6. CodeOfCalls'
  <2>1. DOMAIN code' = Items
    BY <1>1 DEF IInv, CodeOfCalls
  <2>2. IsCodeOf(c, Lowered(target, c))
    BY LoweredIsCode
  <2>3. ASSUME NEW u \in Items
        PROVE  IF call'[u] = NoCall THEN code'[u] = <<>> ELSE IsCodeOf(call'[u], code'[u])
    BY <1>2, <1>3, <2>2 DEF IInv, CodeOfCalls
  <2>. QED  BY <2>1, <2>3 DEF CodeOfCalls
<1>7. CurrentIsUsed'
  <2>1. ASSUME NEW u \in Items, current'[u] # {} PROVE AtInstruction(u, "half", TRUE)'
    BY <1>1, <1>2, <1>3, <2>1 DEF IInv, CurrentIsUsed, AtInstruction
  <2>. QED  BY <1>1, <2>1 DEF IInv, CurrentIsUsed
<1>8. CurrentHalfIsFresh'
  <2>1. ASSUME NEW u \in Items, NEW word \in current'[u] PROVE u # w /\ code'[u] = code[u]
    BY <1>1, <1>2, <1>3
  <2>. QED  BY <1>1, <2>1 DEF IInv, CurrentHalfIsFresh
<1>. QED  BY <1>1, <1>4, <1>5, <1>6, <1>7, <1>8 DEF IInv

LEMMA ReturnIInv ==
    ASSUME IInv, NEW w \in Items, Return(w)
    PROVE  IInv'
<1>1. /\ call[w] # NoCall /\ code[w] = <<>>
      /\ call' = [call EXCEPT ![w] = NoCall]
      /\ UNCHANGED <<mem, code, current>>
  BY DEF Return
<1>2. \A u \in Items : call'[u] = IF u = w THEN NoCall ELSE call[u]
  BY <1>1 DEF IInv, CallsInBuffer
<1>3. CallsInBuffer'
  BY <1>1, <1>2 DEF IInv, CallsInBuffer
<1>4. NoRaces'
  BY <1>2 DEF IInv, NoRaces, Race
<1>5. CodeOfCalls'
  BY <1>1, <1>2 DEF IInv, CodeOfCalls
<1>6. CurrentIsUsed'
  <2>1. ASSUME NEW u \in Items, current'[u] # {} PROVE AtInstruction(u, "half", TRUE)'
    BY <1>1, <1>2, <2>1 DEF IInv, CurrentIsUsed, AtInstruction
  <2>. QED  BY <1>1, <2>1 DEF IInv, CurrentIsUsed
<1>7. CurrentHalfIsFresh'
  BY <1>1 DEF IInv, CurrentHalfIsFresh
<1>. QED  BY <1>1, <1>3, <1>4, <1>5, <1>6, <1>7 DEF IInv

LEMMA NextIInv == IInv /\ [Next]_vars => IInv'
<1> SUFFICES ASSUME IInv, [Next]_vars PROVE IInv'
  OBVIOUS
<1>1. CASE UNCHANGED vars
  BY <1>1
  DEF vars, IInv, CallsInBuffer, NoRaces, CodeOfCalls, CurrentIsUsed, CurrentHalfIsFresh,
      AtInstruction
<1>2. ASSUME NEW w \in Items, NEW c \in Calls, Begin(w, c) PROVE IInv'
  BY <1>2, BeginIInv
<1>3. ASSUME NEW w \in Items, LoadShort(w) \/ LoadInWord(w) \/ LoadWords(w) PROVE IInv'
  BY <1>3, LoadIInv
<1>4. ASSUME NEW w \in Items, StoreShort(w) \/ StoreWords(w) \/ AtomicXor(w) PROVE IInv'
  BY <1>4, StoreIInv
<1>5. ASSUME NEW w \in Items, ReadCurrent(w) PROVE IInv'
  BY <1>5, ReadCurrentIInv
<1>6. ASSUME NEW w \in Items, Return(w) PROVE IInv'
  BY <1>6, ReturnIInv
<1>. QED  BY <1>1, <1>2, <1>3, <1>4, <1>5, <1>6 DEF Next

(* The inductive invariant holds in every reachable state. *)
THEOREM InvariantCorrect == Spec => []IInv
BY InitIInv, NextIInv, PTL DEF Spec

(***************************************************************************)
(* The half a store is about to replace is the one it read, whatever other *)
(* work-items have done to the rest of the word in between.                *)
(***************************************************************************)
THEOREM CurrentHalfStaysFresh == Spec => []CurrentHalfIsFresh
<1>1. IInv => CurrentHalfIsFresh
  BY DEF IInv
<1>. QED  BY <1>1, InvariantCorrect, PTL

-----------------------------------------------------------------------------
(* The refinement. *)

TheHalves == [p \in Places |-> HalfAt(mem, p)]
TheToDo == [w \in Items |-> ToMove(code[w])]

\* HalfArray speaks of the same calls and places.
LEMMA SameBuiltins ==
    /\ Array!Places = Places /\ Array!Halves = Halves /\ Array!NoCall = NoCall
    /\ \A c : Array!Elements(c) = Elements(c)
    /\ \A c, i : Array!Place(c, i) = Place(c, i)
BY DEF Array!Places, Places, Array!Halves, Halves, Array!Bits, Bits, Array!NoCall, NoCall,
       Array!Elements, Elements, Array!Place, Place, Array!Stride, Stride

LEMMA InitImplementsArray == Init => Array!Init
<1> SUFFICES ASSUME Init PROVE Array!Init
  OBVIOUS
<1>1. TheHalves \in [Places -> Halves]
  BY UnpackIsHalf DEF TheHalves, HalfAt
<1>2. TheToDo = [w \in Items |-> {}]
  <2>1. \A w \in Items : code[w] = <<>>
    BY DEF Init
  <2>2. ToMove(<<>>) = {}
    BY DEF ToMove
  <2>. QED  BY <2>1, <2>2 DEF TheToDo
<1>. QED
  BY <1>1, <1>2, SameBuiltins DEF Array!Init, TheHalves, TheToDo, ToMove, Init

LEMMA BeginImplementsArray ==
    ASSUME IInv, NEW w \in Items, NEW c \in Calls, Begin(w, c)
    PROVE  Array!Begin(w)
<1>1. /\ call[w] = NoCall
      /\ call' = [call EXCEPT ![w] = c]
      /\ code' = [code EXCEPT ![w] = Lowered(target, c)]
      /\ value' = [value EXCEPT ![w] = <<>>]
      /\ mem' = mem
  BY DEF Begin
<1>2. call'[w] = c /\ c # NoCall
  BY <1>1, CallIsSome DEF IInv, CallsInBuffer
<1>3. TheToDo' = [TheToDo EXCEPT ![w] = Elements(c)]
  <2>1. \A u \in Items : code'[u] = IF u = w THEN Lowered(target, c) ELSE code[u]
    BY <1>1 DEF IInv, CodeOfCalls
  <2>2. ToMove(Lowered(target, c)) = Elements(c)
    BY LoweredIsCode
  <2>. QED  BY <2>1, <2>2 DEF TheToDo
<1>4. TheHalves' = TheHalves
  BY <1>1 DEF TheHalves
<1>. QED
  BY <1>1, <1>2, <1>3, <1>4, SameBuiltins
  DEF Array!Begin, TheHalves, TheToDo, ToMove

\* An instruction that is done leaves what its call has still to move.
LEMMA AdvanceToDo ==
    ASSUME IInv, NEW w \in Items, code[w] # <<>>,
           code' = [code EXCEPT ![w] = Tail(@)]
    PROVE  LET moved == Moved(Head(code[w]))
           IN  /\ moved # {}
               /\ TheToDo[w] \ TheToDo'[w] = moved
               /\ TheToDo' = [TheToDo EXCEPT ![w] = @ \ moved]
<1>1. \A u \in Items : code'[u] = IF u = w THEN Tail(code[u]) ELSE code[u]
  BY DEF IInv, CodeOfCalls
<1>2. /\ Moved(Head(code[w])) # {}
      /\ Moved(Head(code[w])) \subseteq ToMove(code[w])
      /\ ToMove(Tail(code[w])) = ToMove(code[w]) \ Moved(Head(code[w]))
  BY InstructionFacts, HeadOfCode
<1> DEFINE moved == Moved(Head(code[w]))
<1>3. \A u \in Items : TheToDo'[u] = IF u = w THEN TheToDo[w] \ moved ELSE TheToDo[u]
  <2>1. \A u \in Items : TheToDo'[u] = ToMove(code'[u]) /\ TheToDo[u] = ToMove(code[u])
    BY DEF TheToDo
  <2>2. \A u \in Items : u # w => ToMove(code'[u]) = ToMove(code[u])
    BY <1>1
  <2>3. ToMove(code'[w]) = ToMove(code[w]) \ moved
    BY <1>1, <1>2
  <2>. QED  BY <2>1, <2>2, <2>3
<1>4. TheToDo[w] = ToMove(code[w])
  BY DEF TheToDo
<1>5. TheToDo' = [TheToDo EXCEPT ![w] = @ \ moved]
  <2>. HIDE DEF moved
  <2>1. TheToDo' = [u \in Items |-> TheToDo'[u]] /\ TheToDo = [u \in Items |-> TheToDo[u]]
    BY DEF TheToDo
  <2>. QED  BY <1>3, <2>1
<1>. QED  BY <1>2, <1>3, <1>4, <1>5

\* Move of HalfArray, with the halves and the elements to move of this buffer.
Move(w) ==
  LET c == call[w]
      moved == TheToDo[w] \ TheToDo'[w]
  IN /\ moved # {}
     /\ TheToDo' = [TheToDo EXCEPT ![w] = @ \ moved]
     /\ IF c.store
        THEN /\ TheHalves' = [p \in Places |->
                                IF \E i \in moved : Place(c, i) = p
                                THEN c.data[CHOOSE i \in moved : Place(c, i) = p]
                                ELSE TheHalves[p]]
             /\ UNCHANGED value
        ELSE /\ value' = [value EXCEPT ![w] =
                            [i \in DOMAIN @ \cup moved |->
                               IF i \in moved THEN TheHalves[Place(c, i)] ELSE @[i]]]
             /\ UNCHANGED TheHalves
     /\ UNCHANGED call

LEMMA MoveIsMove == ASSUME NEW w \in Items, Move(w) PROVE Array!Move(w)
BY DEF Move, Array!Move, TheHalves, TheToDo, ToMove, Array!Place, Place,
       Array!Stride, Stride, Array!Places, Places

LEMMA LoadImplementsArray ==
    ASSUME IInv, NEW w \in Items, LoadShort(w) \/ LoadInWord(w) \/ LoadWords(w)
    PROVE  Array!Move(w)
<1>0. PICK c, ins, moved : c = call[w] /\ ins = Head(code[w]) /\ moved = Moved(ins)
  OBVIOUS
<1>1. /\ code[w] # <<>> /\ c.store = FALSE
      /\ code' = [code EXCEPT ![w] = Tail(@)]
      /\ call' = call /\ mem' = mem
  BY <1>0 DEF LoadShort, LoadInWord, LoadWords, AtInstruction
<1>2. /\ c \in Calls /\ Moves(c, ins)
      /\ \A i \in moved : i \in 0 .. 15 /\ Place(c, i) \in Places
  BY <1>0, <1>1, InstructionFacts
<1>3. \A i \in moved : TheHalves[Place(c, i)] = HalfAt(mem, Place(c, i))
  BY <1>2 DEF TheHalves
<1>4. value' = [value EXCEPT ![w] =
                  [i \in DOMAIN @ \cup moved |->
                     IF i \in moved THEN TheHalves[Place(c, i)] ELSE @[i]]]
  <2>1. CASE LoadShort(w)
    <3>1. ins.kind = "short"
      BY <1>0, <2>1 DEF LoadShort, AtInstruction
    <3>2. \A i \in moved : Place(c, i) = ins.at
      BY <1>0, <1>2, <3>1 DEF Moves, Moved, Instruction
    <3>3. value' = [value EXCEPT ![w] = [i \in DOMAIN @ \cup moved |->
                      IF i \in moved THEN HalfAt(mem, ins.at) ELSE @[i]]]
      BY <1>0, <2>1 DEF LoadShort, Extended
    <3>. QED  BY <1>3, <3>2, <3>3
  <2>2. CASE LoadInWord(w)
    <3>1. ins.kind = "half"
      BY <1>0, <2>2 DEF LoadInWord, AtInstruction
    <3>2. \A i \in moved : Place(c, i) = ins.at
      BY <1>0, <1>2, <3>1 DEF Moves, Moved, Instruction
    <3>3. PICK word \in WordsSeen(w, ins.at \div 2) :
            value' = [value EXCEPT ![w] = [i \in DOMAIN @ \cup moved |->
                        IF i \in moved THEN Unpack(word, ins.at % 2) ELSE @[i]]]
      BY <1>0, <2>2 DEF LoadInWord, Extended
    <3>4. Unpack(word, ins.at % 2) = HalfAt(mem, ins.at)
      BY <1>0, <1>1, <3>1, <3>3, HalfIsSeen
    <3>. QED  BY <1>3, <3>2, <3>3, <3>4
  <2>3. CASE LoadWords(w)
    <3>1. ins.kind = "words"
      BY <1>0, <2>3 DEF LoadWords, AtInstruction
    <3>2. /\ 2 * ins.at = Place(c, ins.first) /\ ins.at \in Nat /\ ins.first \in Nat
          /\ \A i \in moved : i \in Nat
      BY <1>0, <1>2, <3>1 DEF Moves, Moved, Instruction
    <3>3. \A i \in moved : Place(c, i) = 2 * ins.at + (i - ins.first)
      <4>1. /\ Place(c, 0) \in Nat
            /\ Place(c, ins.first) = Place(c, 0) + ins.first
            /\ \A i \in moved : Place(c, i) = Place(c, 0) + i
        BY <1>2, <3>2, CallFacts
      <4>. QED  BY <3>2, <4>1
    <3>4. value' = [value EXCEPT ![w] = [i \in DOMAIN @ \cup moved |->
                      IF i \in moved THEN HalfAt(mem, 2 * ins.at + (i - ins.first)) ELSE @[i]]]
      BY <1>0, <2>3 DEF LoadWords, Extended
    <3>. QED  BY <1>3, <3>3, <3>4
  <2>. QED  BY <2>1, <2>2, <2>3
<1>5. /\ moved # {}
      /\ TheToDo[w] \ TheToDo'[w] = moved
      /\ TheToDo' = [TheToDo EXCEPT ![w] = @ \ moved]
  BY <1>0, <1>1, AdvanceToDo
<1>6. TheHalves' = TheHalves
  BY <1>1 DEF TheHalves
<1>7. Move(w)
  BY <1>0, <1>1, <1>4, <1>5, <1>6 DEF Move
<1>. QED  BY <1>7, MoveIsMove

LEMMA StoreImplementsArray ==
    ASSUME IInv, NEW w \in Items, StoreShort(w) \/ StoreWords(w) \/ AtomicXor(w)
    PROVE  Array!Move(w)
<1>0. PICK c, ins, moved : c = call[w] /\ ins = Head(code[w]) /\ moved = Moved(ins)
  OBVIOUS
<1>1. /\ code[w] # <<>> /\ c.store = TRUE
      /\ code' = [code EXCEPT ![w] = Tail(@)]
      /\ call' = call /\ value' = value
  BY <1>0 DEF StoreShort, StoreWords, AtomicXor, AtInstruction
<1>2. /\ c \in Calls
      /\ \A i \in moved : i \in 0 .. 15 /\ Place(c, i) \in Places
  BY <1>0, <1>1, InstructionFacts
<1>3. Stores(c, ins)
  BY <1>0, ShortStores, WordsStore, AtomicXorStores
<1>4. TheHalves' = [p \in Places |->
                      IF \E i \in moved : Place(c, i) = p
                      THEN c.data[CHOOSE i \in moved : Place(c, i) = p]
                      ELSE TheHalves[p]]
  <2>1. ASSUME NEW p \in Places, NEW i \in moved, Place(c, i) = p
        PROVE  HalfAt(mem', p) = c.data[CHOOSE k \in moved : Place(c, k) = p]
    <3>1. PICK j : j = CHOOSE k \in moved : Place(c, k) = p
      OBVIOUS
    <3>2. j \in moved /\ Place(c, j) = p
      BY <2>1, <3>1
    <3>. QED  BY <1>0, <1>3, <3>1, <3>2 DEF Stores
  <2>2. ASSUME NEW p \in Places, ~\E i \in moved : Place(c, i) = p
        PROVE  HalfAt(mem', p) = TheHalves[p]
    BY <1>0, <1>3, <2>2 DEF Stores, TheHalves
  <2>. QED  BY <2>1, <2>2 DEF TheHalves
<1>5. /\ moved # {}
      /\ TheToDo[w] \ TheToDo'[w] = moved
      /\ TheToDo' = [TheToDo EXCEPT ![w] = @ \ moved]
  BY <1>0, <1>1, AdvanceToDo
<1>6. Move(w)
  BY <1>0, <1>1, <1>4, <1>5 DEF Move
<1>. QED  BY <1>6, MoveIsMove

LEMMA ReturnImplementsArray ==
    ASSUME IInv, NEW w \in Items, Return(w)
    PROVE  Array!Return(w)
<1>1. /\ call[w] # NoCall /\ code[w] = <<>>
      /\ call' = [call EXCEPT ![w] = NoCall]
      /\ UNCHANGED <<mem, code, value>>
  BY DEF Return
<1>2. TheToDo[w] = {}
  BY <1>1 DEF TheToDo, ToMove
<1>3. TheToDo' = TheToDo /\ TheHalves' = TheHalves
  BY <1>1 DEF TheToDo, TheHalves
<1>. QED
  BY <1>1, <1>2, <1>3, SameBuiltins DEF Array!Return, TheHalves, TheToDo, ToMove

(***************************************************************************)
(* Every step of the code is a step of HalfArray or leaves it alone: a     *)
(* call stores exactly its own elements to exactly its own places, a load  *)
(* returns the halves that are there, and the other halves of the words    *)
(* they go through stay as the other work-items make them.                 *)
(***************************************************************************)
THEOREM MemoryImplementsArray == Spec => ImplementsArray
<1>1. ASSUME IInv, [Next]_vars PROVE [Array!Next]_(Array!vars)
  <2>1. CASE UNCHANGED vars
    <3>1. TheToDo' = TheToDo /\ TheHalves' = TheHalves /\ call' = call /\ value' = value
      BY <2>1 DEF vars, TheToDo, TheHalves
    <3>. QED  BY <3>1 DEF Array!vars, TheToDo, TheHalves, ToMove
  <2>2. ASSUME NEW w \in Items, NEW c \in Calls, Begin(w, c) PROVE Array!Next
    BY <1>1, <2>2, BeginImplementsArray DEF Array!Next
  <2>3. ASSUME NEW w \in Items, LoadShort(w) \/ LoadInWord(w) \/ LoadWords(w)
        PROVE  Array!Next
    BY <1>1, <2>3, LoadImplementsArray DEF Array!Next
  <2>4. ASSUME NEW w \in Items, StoreShort(w) \/ StoreWords(w) \/ AtomicXor(w)
        PROVE  Array!Next
    BY <1>1, <2>4, StoreImplementsArray DEF Array!Next
  <2>5. ASSUME NEW w \in Items, ReadCurrent(w) PROVE UNCHANGED Array!vars
    <3>1. TheToDo' = TheToDo /\ TheHalves' = TheHalves /\ call' = call /\ value' = value
      BY <2>5 DEF ReadCurrent, TheToDo, TheHalves
    <3>. QED  BY <3>1 DEF Array!vars, TheToDo, TheHalves, ToMove
  <2>6. ASSUME NEW w \in Items, Return(w) PROVE Array!Next
    BY <1>1, <2>6, ReturnImplementsArray DEF Array!Next
  <2>. QED  BY <1>1, <2>1, <2>2, <2>3, <2>4, <2>5, <2>6 DEF Next
<1>. QED
  BY <1>1, InitImplementsArray, InvariantCorrect, PTL DEF Spec, ImplementsArray, Array!Spec
=============================================================================

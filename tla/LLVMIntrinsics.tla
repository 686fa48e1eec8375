-------------------------- MODULE LLVMIntrinsics --------------------------
(***************************************************************************)
(* The code ReplaceLLVMIntrinsicsPass.cpp computes integer intrinsics      *)
(* with, as functions of their operands.                                   *)
(***************************************************************************)
EXTENDS WordArithmetic, Sequences

LOCAL INSTANCE SequencesExt

\* The bytes of a scaled word: short has two of them, int four, long eight.
ByteBits == WordBits \div 4
ByteMask(i) == (2 ^ ByteBits - 1) * 2 ^ (ByteBits * i)

\* replaceBswap: half of the bytes go up and half of them down.  The byte
\* that is to be i is masked before it goes up, after it has come down.
Bswap(n, x) ==
  LET last == n \div ByteBits - 1
      byte(i) == IF 2 * i > last
                 THEN Shl(n, x & ByteMask(last - i), ByteBits * (2 * i - last))
                 ELSE LShr(x, ByteBits * (last - 2 * i)) & ByteMask(i)
  IN FoldLeft(LAMBDA y, i : y | byte(i - 1), 0, [i \in 1 .. last + 1 |-> i])

\* replaceFshr and replaceFshl, by an amount that is no constant.
Fshr(n, hi, lo, shift) ==
  LET mod_mask == n - 1
      lsb_shift == shift & mod_mask
      msb_shift == Sub(n, n % Modulus(n), lsb_shift) & mod_mask
  IN LShr(lo, lsb_shift) | Shl(n, hi, msb_shift)

\* Wrong variant: the amounts are exchanged.
Fshl_Down(n, hi, lo, shift) == Fshr(n, hi, lo, shift)

Fshl(n, hi, lo, shift) ==
  LET mod_mask == n - 1
      shift_amount == shift & mod_mask
      down_amount == Sub(n, n % Modulus(n), shift_amount) & mod_mask
  IN Shl(n, hi, shift_amount) | LShr(lo, down_amount)

\* ctlz and cttz of an int are left to SPIR-V.
ZeroesAbove(n, x) == CHOOSE k \in 0 .. n : x \in 2 ^ (n - k) \div 2 .. 2 ^ (n - k) - 1
ZeroesBelow(n, x) ==
  IF x = 0 THEN n ELSE CHOOSE k \in 0 .. n - 1 : Bit(x, k) = 1 /\ x % 2 ^ k = 0

\* replaceCountZeroes: in an int that is cut to the width, or in two.
CountZeroesWord(x, leading) ==
  IF leading THEN ZeroesAbove(WordBits, x) ELSE ZeroesBelow(WordBits, x)

CountZeroesNarrow(n, x, leading) ==
  IF leading
  THEN Trunc(n, Sub(WordBits, CountZeroesWord(x, TRUE), WordBits - n))
  ELSE Trunc(n, CountZeroesWord(x | 2 ^ n, FALSE))

CountZeroesWide(n, x, leading) ==
  LET top == CountZeroesWord(Trunc(WordBits, LShr(x, WordBits)), leading)
      bot == CountZeroesWord(Trunc(WordBits, x), leading)
  IN IF leading THEN IF top = WordBits THEN Add(WordBits, bot, WordBits) ELSE top
                ELSE IF bot = WordBits THEN Add(WordBits, top, WordBits) ELSE bot

CountZeroes(n, x, leading) ==
  IF n = WordBits THEN CountZeroesWord(x, leading)
  ELSE IF n < WordBits THEN CountZeroesNarrow(n, x, leading)
  ELSE CountZeroesWide(n, x, leading)

\* replaceCopysign
Copysign(n, x, y) ==
  LET sign_bit_mask == SignedMin(n)
  IN (x & Invert(n, sign_bit_mask)) | (y & sign_bit_mask)

\* The width in which narrow integers are clamped, and the clamp.
ExtendedWidth(n, hack_clamp_width) ==
  IF hack_clamp_width /\ 2 * n < WordBits THEN WordBits ELSE 2 * n

ClampTrunc(n, m, x) ==
  LET min == SExt(n, m, SignedMin(n))
      max == SExt(n, m, SignedMax(n))
  IN IF x = Undefined THEN x
     ELSE Trunc(n, IF SLT(m, x, min) THEN min ELSE IF SGT(m, x, max) THEN max ELSE x)

\* replaceAddSubSat.  The sum of narrow numbers is flagged nuw nsw, of which nuw
\* does not hold for a negative one.  The flags are left out: no pass that runs
\* after this one simplifies arithmetic by them, and SPIR-V is not given them.
SaturateNarrow(n, a, b, is_add, hack_clamp_width) ==
  LET m == ExtendedWidth(n, hack_clamp_width)
      op == IF is_add THEN Add(m, SExt(n, m, a), SExt(n, m, b))
                      ELSE Sub(m, SExt(n, m, a), SExt(n, m, b))
  IN ClampTrunc(n, m, op)

\* Wrong variant: the sign of b is not looked at.
SaturateSigned_OneSided(n, a, b, is_add) ==
  LET op == IF is_add THEN Add(n, a, b) ELSE Sub(n, a, b)
  IN IF SLT(n, op, a) THEN SignedMax(n) ELSE op

SaturateSigned(n, a, b, is_add) ==
  LET op == IF is_add THEN Add(n, a, b) ELSE Sub(n, a, b)
      neg_cmp == IF is_add THEN SGT(n, op, a) ELSE SLT(n, op, a)
      pos_cmp == IF is_add THEN SLT(n, op, a) ELSE SGT(n, op, a)
      neg_value == IF is_add THEN SignedMin(n) ELSE SignedMax(n)
      pos_value == IF is_add THEN SignedMax(n) ELSE SignedMin(n)
  IN IF SLT(n, b, 0) THEN IF neg_cmp THEN neg_value ELSE op
                     ELSE IF pos_cmp THEN pos_value ELSE op

SaturateUnsigned(n, a, b, is_add) ==
  IF is_add
  THEN LET r == OpIAddCarry(n, a, b) IN IF r.carry = 0 THEN r.sum ELSE AllOnes(n)
  ELSE LET r == OpISubBorrow(n, a, b) IN IF r.borrow = 0 THEN r.difference ELSE 0

AddSubSat(n, a, b, is_signed, is_add, hack_clamp_width) ==
  IF ~is_signed THEN SaturateUnsigned(n, a, b, is_add)
  ELSE IF n < WordBits THEN SaturateNarrow(n, a, b, is_add, hack_clamp_width)
  ELSE SaturateSigned(n, a, b, is_add)

\* replaceMulHi: smulh and umulh
MulHigh(n, a, b, is_signed, hack) == MulExtended(n, b, a, is_signed, hack).hi

\* replaceVectorReduce; only the reductions of floats have a value to start with.
BinOp(n, op, x, y) ==
  CASE op = "llvm.reduce.add" -> Add(n, x, y)
    [] op = "llvm.reduce.mul" -> Mul(n, x, y)
    [] op = "llvm.reduce.and" -> x & y
    [] op = "llvm.reduce.or" -> x | y
    [] op = "llvm.reduce.xor" -> x ^^ y

Reductions == {"llvm.reduce.add", "llvm.reduce.mul", "llvm.reduce.and", "llvm.reduce.or",
               "llvm.reduce.xor"}

VectorReduce(n, op, v) == FoldLeft(LAMBDA x, y : BinOp(n, op, x, y), Head(v), Tail(v))

\* replaceIsFpClass: bits of the mask, and the classes that share a test.
\* sig_width bits of the n are the significand.
IsFpClass(n, sig_width, x, mask) ==
  LET exp_width == n - sig_width - 1
      exp_all_ones == (2 ^ exp_width - 1) * 2 ^ sig_width
      exp == x & exp_all_ones
      sig == x & (2 ^ sig_width - 1)
      is_neg == LShr(x, n - 1) = 1
      asked(neg, pos) == \/ Bit(mask, neg) = 1 /\ Bit(mask, pos) = 1
                         \/ Bit(mask, neg) = 1 /\ is_neg
                         \/ Bit(mask, pos) = 1 /\ ~is_neg
  IN Bool(\/ (Bit(mask, 0) = 1 \/ Bit(mask, 1) = 1) /\ exp = exp_all_ones /\ sig # 0
          \/ asked(2, 9) /\ exp = exp_all_ones /\ sig = 0
          \/ asked(5, 6) /\ exp = 0 /\ sig = 0
          \/ asked(4, 7) /\ exp = 0 /\ sig # 0
          \/ asked(3, 8) /\ exp # 0 /\ exp # exp_all_ones)
===========================================================================

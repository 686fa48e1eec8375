-------------------------- MODULE WordArithmetic --------------------------
(***************************************************************************)
(* Integers of n bits as clspv's generated code computes with them, and    *)
(* the extended multiplication of SPIRVOp.cpp.  A value is a number below  *)
(* 2^n.  WordBits is the width of int: 32, and smaller in the runs, where  *)
(* the widths of char, short and long scale with it.                       *)
(***************************************************************************)
EXTENDS Integers, Bitwise

CONSTANT WordBits

\* The configurations assume it: char is a quarter of int.
CharIsAQuarter == WordBits \in Nat /\ WordBits % 4 = 0

Modulus(n) == 2 ^ n
Values(n) == 0 .. Modulus(n) - 1
AllOnes(n) == Modulus(n) - 1
SignedMin(n) == 2 ^ (n - 1)          \* as bits
SignedMax(n) == 2 ^ (n - 1) - 1

Signed(n, x) == IF x > SignedMax(n) THEN x - Modulus(n) ELSE x

\* The instructions of LLVM that the passes create.
Trunc(m, x) == x % Modulus(m)
Neg(n, x) == (-x) % Modulus(n)
Add(n, x, y) == (x + y) % Modulus(n)
Sub(n, x, y) == (x - y) % Modulus(n)
Mul(n, x, y) == (x * y) % Modulus(n)
Shl(n, x, k) == (x * 2 ^ k) % Modulus(n)
LShr(x, k) == x \div 2 ^ k
AShr(n, x, k) == (Signed(n, x) \div 2 ^ k) % Modulus(n)
SExt(n, m, x) == Signed(n, x) % Modulus(m)
Invert(n, x) == AllOnes(n) ^^ x
SGT(n, x, y) == Signed(n, x) > Signed(n, y)
SLT(n, x, y) == Signed(n, x) < Signed(n, y)
Bool(p) == IF p THEN 1 ELSE 0
Bit(x, i) == (x \div 2 ^ i) % 2

\* What LLVM leaves undefined (poison): no word.  What computes with it is
\* undefined as well.
Undefined == -1

\* Instructions flagged nuw nsw: undefined when the result does not fit, as an
\* unsigned number or as a signed one.
Fits(n, unsigned, signed) ==
  unsigned <= AllOnes(n) /\ -SignedMin(n) <= signed /\ signed <= SignedMax(n)

MulNoWrap(n, x, y) ==
  IF Undefined \notin {x, y} /\ Fits(n, x * y, Signed(n, x) * Signed(n, y)) THEN x * y ELSE Undefined
AddNoWrap(n, x, y) ==
  IF Undefined \notin {x, y} /\ Fits(n, x + y, Signed(n, x) + Signed(n, y)) THEN x + y ELSE Undefined

\* Instructions of SPIR-V that return two values.
OpUMulExtended(n, a, b) == [lo |-> (a * b) % Modulus(n), hi |-> (a * b) \div Modulus(n)]
OpSMulExtended(n, a, b) ==
  LET product == Signed(n, a) * Signed(n, b)
  IN [lo |-> product % Modulus(n), hi |-> (product \div Modulus(n)) % Modulus(n)]
OpIAddCarry(n, a, b) == [sum |-> Add(n, a, b), carry |-> (a + b) \div Modulus(n)]
OpISubBorrow(n, a, b) == [difference |-> Sub(n, a, b), borrow |-> Bool(a < b)]

--------------------------------------------------------------------------
\* InsertOpMulExtended.  -hack-mul-extended avoids the two instructions.

\* In an integer of twice the width.
MulInTwice(n, a, b, is_signed) ==
  LET ext(x) == IF is_signed THEN SExt(n, 2 * n, x) ELSE x
      mul == Mul(2 * n, ext(b), ext(a))
  IN [lo |-> Trunc(n, mul), hi |-> Trunc(n, LShr(mul, n))]

\* From the products of the halves, with the sign put on at the end.
MulInHalves(n, a, b, is_signed) ==
  LET h == n \div 2
      res_neg == SLT(n, a ^^ b, 0)
      abs(x) == IF is_signed /\ SLT(n, x, 0) THEN Neg(n, x) ELSE x
      half(x, i) == Trunc(h, LShr(abs(x), h * i))
      product(i, j) == MulInTwice(h, half(a, i), half(b, j), FALSE)
      mul_lo_hi == Add(n, Add(n, product(0, 0).hi, product(1, 0).lo), product(0, 1).lo)
      carry_mul_lo_hi == LShr(mul_lo_hi, h)
      mul_hi_lo == Add(n, Add(n, Add(n, product(1, 1).lo, product(1, 0).hi),
                              product(0, 1).hi), carry_mul_lo_hi)
      mul_lo == Add(n, product(0, 0).lo, Shl(n, mul_lo_hi, h))
      mul_hi == Add(n, mul_hi_lo, Shl(n, product(1, 1).hi, h))
      inverse == OpIAddCarry(n, Invert(n, mul_lo), 1)
  IN IF is_signed /\ res_neg
     THEN [lo |-> inverse.sum, hi |-> Add(n, inverse.carry, Invert(n, mul_hi))]
     ELSE [lo |-> mul_lo, hi |-> mul_hi]

\* Wrong variant: a negative product is inverted and its carry is lost.
MulExtended_NoCarry(n, a, b, is_signed, hack) ==
  IF ~hack
  THEN IF is_signed THEN OpSMulExtended(n, a, b) ELSE OpUMulExtended(n, a, b)
  ELSE LET product == MulInTwice(n, a, b, FALSE)
       IN [product EXCEPT !.hi = IF is_signed /\ SLT(n, a ^^ b, 0) THEN Invert(n, @) ELSE @]

MulExtended(n, a, b, is_signed, hack) ==
  IF ~hack
  THEN IF is_signed THEN OpSMulExtended(n, a, b) ELSE OpUMulExtended(n, a, b)
  ELSE IF n < WordBits THEN MulInTwice(n, a, b, is_signed)
                       ELSE MulInHalves(n, a, b, is_signed)
===========================================================================

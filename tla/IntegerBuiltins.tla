-------------------------- MODULE IntegerBuiltins --------------------------
(***************************************************************************)
(* One call of an integer (or bit-level relational) builtin on its way     *)
(* through the two passes that replace it: ReplaceOpenCLBuiltinPass puts   *)
(* code in its place or an intrinsic of LLVM, ReplaceLLVMIntrinsicsPass    *)
(* puts code in the place of intrinsics, those LLVM made included.  The    *)
(* code is run on the operands of the call, and must say what OpenCL C, or *)
(* LLVM, says of the builtin.                                              *)
(*                                                                         *)
(* Vectors are computed by component, so a call has the operands of one    *)
(* component, but for all, any and the reductions, whose operands are the  *)
(* components.                                                             *)
(***************************************************************************)
EXTENDS LLVMIntrinsics, FiniteSets

CONSTANTS
  Families,   \* sets of calls: [op, n, m, is_signed, is_vec, args], each a set
  Options     \* [mul_extended, clamp_width]: -hack-mul-extended, -hack-clamp-width

\* A call has n bits in and m bits out.
FamiliesAreCalls ==
  \A f \in Families :
    f.n \cup f.m \subseteq {WordBits \div 4, WordBits \div 2, WordBits, 2 * WordBits}

VARIABLES
  call,       \* the call in the kernel
  options,
  code        \* what stands in its place: a call, or op "value" of one operand

vars == <<call, options, code>>

AbsDiff(n, x, y, is_signed) ==
  IF IF is_signed THEN SGT(n, y, x) ELSE y > x THEN Sub(n, y, x) ELSE Sub(n, x, y)

\* replaceAllAndAny: the sign bits of an int, of another scalar, of a vector.
AllAndAny(n, v, is_vec, is_all) ==
  IF n = WordBits /\ ~is_vec THEN LShr(v[1], n - 1)
  ELSE LET cmp(i) == SLT(n, v[i], 0)
       IN Bool(IF is_all THEN \A i \in DOMAIN v : cmp(i) ELSE \E i \in DOMAIN v : cmp(i))

Upsample(n, m, hi, lo) == Shl(m, hi, n) | lo

\* replaceConvert, of integers
Convert(n, m, x, is_signed) ==
  IF m > n /\ is_signed THEN SExt(n, m, x) ELSE Trunc(m, x)

Select(n, if_false, if_true, predicate, is_vec) ==
  IF IF is_vec THEN SLT(n, predicate, 0) ELSE predicate # 0 THEN if_true ELSE if_false

BitSelect(n, if_false, if_true, predicate) ==
  ((predicate ^^ AllOnes(n)) & if_false) | (predicate & if_true)

\* replaceSignbit: a scalar becomes an int, a component keeps its width.
Signbit(n, x, is_vec) == IF is_vec THEN AShr(n, x, n - 1) ELSE LShr(x, n - 1)

\* replaceMulHi and replaceMul, with and without a third operand to add
MulHi(n, a, b, c, is_signed, hack) ==
  Add(n, MulExtended(n, a, b, is_signed, hack).hi, c)
MulAdd(n, a, b, c) == Add(n, Mul(n, a, b), c)

\* Wrong variant: the operands are added before they are halved.
Hadd_Wraps(n, a, b, is_signed, rounded) ==
  LET sum == Add(n, a, b)
  IN IF is_signed THEN AShr(n, sum, 1) ELSE LShr(sum, 1)

\* join is the bit both operands, or one of them, lose in the shift.
Hadd(n, a, b, is_signed, rounded) ==
  LET shift(x) == IF is_signed THEN AShr(n, x, 1) ELSE LShr(x, 1)
      join == IF rounded THEN a | b ELSE a & b
  IN Add(n, Add(n, shift(a), shift(b)), join % 2)

--------------------------------------------------------------------------
\* replaceMadSat

\* The product and the sum are flagged nuw nsw, and LLVM's InstCombine, which
\* goes by the flags, runs after the pass.
MadSatNarrow(n, a, b, c, clamp_width) ==
  LET m == ExtendedWidth(n, clamp_width)
      mul == MulNoWrap(m, SExt(n, m, a), SExt(n, m, b))
  IN ClampTrunc(n, m, AddNoWrap(m, mul, SExt(n, m, c)))

MadSatSigned(n, a, b, c, hack) ==
  LET mul == MulExtended(n, a, b, TRUE, hack)
      add == Add(n, mul.lo, c)
      min == SignedMin(n)
      max == SignedMax(n)
      same_sign == SGT(n, a ^^ b, AllOnes(n))
      max_clamp == \/ same_sign /\ mul.hi # 0
                   \/ mul.hi = 0 /\ mul.lo >= max /\ (SGT(n, c, 0) \/ add > max)
      min_clamp == \/ ~same_sign /\ mul.hi # AllOnes(n)
                   \/ /\ mul.hi = AllOnes(n) /\ mul.lo <= Add(n, max, 1)
                      /\ SLT(n, c, 0) \/ c < Sub(n, max, mul.lo)
  IN IF max_clamp THEN max ELSE IF min_clamp THEN min ELSE add

MadSatUnsigned(n, a, b, c, hack) ==
  LET mul == MulExtended(n, a, b, FALSE, hack)
      add == OpIAddCarry(n, mul.lo, c)
  IN IF (mul.hi | add.carry) = 0 THEN add.sum ELSE AllOnes(n)

MadSat(n, a, b, c, is_signed, opt) ==
  IF ~is_signed THEN MadSatUnsigned(n, a, b, c, opt.mul_extended)
  ELSE IF n < WordBits THEN MadSatNarrow(n, a, b, c, opt.clamp_width)
  ELSE MadSatSigned(n, a, b, c, opt.mul_extended)

--------------------------------------------------------------------------
\* The intrinsics that builtins become (runOnFunction).
BecomeIntrinsics ==
  [rotate |-> "llvm.fshl", clz |-> "llvm.ctlz", ctz |-> "llvm.cttz",
   add_sat |-> "llvm.add.sat", sub_sat |-> "llvm.sub.sat", copysign |-> "llvm.copysign"]

\* Calls that the code of ReplaceOpenCLBuiltinPass takes the place of.
BuiltinValue(c, opt) ==
  LET n == c.n
      a == c.args[1]
      b == c.args[2]
      d == c.args[3]
  IN CASE c.op = "abs" -> a
       [] c.op = "abs_diff" -> AbsDiff(n, a, b, c.is_signed)
       [] c.op \in {"all", "any"} -> AllAndAny(n, c.args, c.is_vec, c.op = "all")
       [] c.op = "upsample" -> Upsample(n, c.m, a, b)
       [] c.op = "convert" -> Convert(n, c.m, a, c.is_signed)
       [] c.op = "select" -> Select(n, a, b, d, c.is_vec)
       [] c.op = "bitselect" -> BitSelect(n, a, b, d)
       [] c.op = "signbit" -> Signbit(n, a, c.is_vec)
       [] c.op \in {"hadd", "rhadd"} -> Hadd(n, a, b, c.is_signed, c.op = "rhadd")
       [] c.op = "mul_hi" -> MulHi(n, a, b, 0, c.is_signed, opt.mul_extended)
       [] c.op = "mad_hi" -> MulHi(n, a, b, d, c.is_signed, opt.mul_extended)
       [] c.op = "mul24" -> MulAdd(n, a, b, 0)
       [] c.op = "mad24" -> MulAdd(n, a, b, d)
       [] c.op = "mad_sat" -> MadSat(n, a, b, d, c.is_signed, opt)

HaveValues ==
  {"abs", "abs_diff", "all", "any", "upsample", "convert", "select", "bitselect", "signbit",
   "hadd", "rhadd", "mul_hi", "mad_hi", "mul24", "mad24", "mad_sat"}

IntrinsicValue(c, opt) ==
  LET n == c.n
      a == c.args[1]
      b == c.args[2]
      d == c.args[3]
  IN CASE c.op = "llvm.bswap" -> Bswap(n, a)
       [] c.op = "llvm.fshr" -> Fshr(n, a, b, d)
       [] c.op = "llvm.fshl" -> Fshl(n, a, b, d)
       [] c.op = "llvm.copysign" -> Copysign(n, a, b)
       [] c.op \in {"llvm.ctlz", "llvm.cttz"} -> CountZeroes(n, a, c.op = "llvm.ctlz")
       [] c.op \in {"llvm.add.sat", "llvm.sub.sat"} ->
            AddSubSat(n, a, b, c.is_signed, c.op = "llvm.add.sat", opt.clamp_width)
       [] c.op = "llvm.mulh" -> MulHigh(n, a, b, c.is_signed, opt.mul_extended)
       [] c.op = "llvm.is.fpclass" -> IsFpClass(n, d, a, b)
       [] c.op \in Reductions -> VectorReduce(n, c.op, c.args)

Intrinsics ==
  {"llvm.bswap", "llvm.fshr", "llvm.fshl", "llvm.copysign", "llvm.ctlz", "llvm.cttz",
   "llvm.add.sat", "llvm.sub.sat", "llvm.mulh", "llvm.is.fpclass"} \cup Reductions

--------------------------------------------------------------------------
Init == /\ \E f \in Families :
             call \in [op : f.op, n : f.n, m : f.m, is_signed : f.is_signed,
                      is_vec : f.is_vec, args : f.args]
        /\ options \in Options
        /\ code = call

Becomes(value) == code' = [code EXCEPT !.op = "value", !.args = <<value>>]

\* replaceRotate, replaceCountZeroes, replaceAddSubSat and replaceCopysign of
\* the first pass: the amount of a rotation shifts the value into itself.
ReplaceByIntrinsic ==
  /\ code.op \in DOMAIN BecomeIntrinsics
  /\ code' = [code EXCEPT !.op = BecomeIntrinsics[@],
                          !.args = IF code.op = "rotate" THEN <<@[1], @[1], @[2]>> ELSE @]
  /\ UNCHANGED <<call, options>>

ReplaceByCode ==
  /\ code.op \in HaveValues
  /\ Becomes(BuiltinValue(code, options))
  /\ UNCHANGED <<call, options>>

ReplaceIntrinsic ==
  /\ code.op \in Intrinsics
  /\ Becomes(IntrinsicValue(code, options))
  /\ UNCHANGED <<call, options>>

Next == ReplaceByIntrinsic \/ ReplaceByCode \/ ReplaceIntrinsic

Spec == Init /\ [][Next]_vars

--------------------------------------------------------------------------
\* What OpenCL C and LLVM say of the builtins.

Replaced(ops) == code.op = "value" /\ call.op \in ops
Result == code.args[1]

N == call.n
Operand(i) == call.args[i]
Number(x) == IF call.is_signed THEN Signed(N, x) ELSE x
Arg(i) == Number(Operand(i))

Saturated(x) ==
  LET least == IF call.is_signed THEN -SignedMin(N) ELSE 0
      most == IF call.is_signed THEN SignedMax(N) ELSE AllOnes(N)
  IN IF x < least THEN least ELSE IF x > most THEN most ELSE x

\* Sums, differences and averages are those of the integers, however the
\* words of the generated code wrap: abs_diff fits its unsigned result, hadd
\* and rhadd lose no carry, add_sat and sub_sat saturate.
SumsAreExact ==
  /\ Replaced({"abs", "abs_diff"}) =>
       Result = IF call.op = "abs" THEN Operand(1)
                ELSE IF Arg(1) > Arg(2) THEN Arg(1) - Arg(2) ELSE Arg(2) - Arg(1)
  /\ Replaced({"hadd"}) => Number(Result) = (Arg(1) + Arg(2)) \div 2
  /\ Replaced({"rhadd"}) => Number(Result) = (Arg(1) + Arg(2) + 1) \div 2
  /\ Replaced({"add_sat", "llvm.add.sat"}) => Number(Result) = Saturated(Arg(1) + Arg(2))
  /\ Replaced({"sub_sat", "llvm.sub.sat"}) => Number(Result) = Saturated(Arg(1) - Arg(2))
  /\ Replaced({"llvm.reduce.add"}) =>
       Result = (Operand(1) + Operand(2) + Operand(3)) % Modulus(N)

\* mad_sat saturates the exact a * b + c.
MadSatSaturates ==
  Replaced({"mad_sat"}) => Number(Result) = Saturated(Arg(1) * Arg(2) + Arg(3))

\* The nuw flags of the narrow signed mad_sat do not hold: some operand is
\* negative, and the words it is extended to do not add up without a carry.
BreaksNoUnsignedWrap ==
  LET m == ExtendedWidth(N, options.clamp_width)
      extended(i) == SExt(N, m, Operand(i))
  IN extended(1) * extended(2) + extended(3) > AllOnes(m)

\* The high half of a product, with and without the instructions for it, is
\* that of the exact product.  mad_sat saturates when unsigned, and for signed
\* char and short where the flags of its code hold; that of int and long does
\* not.
ProductsAreExact ==
  /\ Replaced({"mul_hi", "llvm.mulh"}) =>
       Number(Result) = (Arg(1) * Arg(2)) \div Modulus(N)
  /\ Replaced({"mad_hi"}) =>
       Result = ((Arg(1) * Arg(2)) \div Modulus(N) + Arg(3)) % Modulus(N)
  /\ Replaced({"mul24"}) => Result = (Arg(1) * Arg(2)) % Modulus(N)
  /\ Replaced({"mad24"}) => Result = (Arg(1) * Arg(2) + Arg(3)) % Modulus(N)
  /\ Replaced({"llvm.reduce.mul"}) =>
       Result = (Operand(1) * Operand(2) * Operand(3)) % Modulus(N)
  /\ Replaced({"mad_sat"}) =>
       ((call.is_signed => call.n < WordBits /\ ~BreaksNoUnsignedWrap) => MadSatSaturates)

\* Builtins that move bits: each bit of the result is the right one.
BitsOf(x, bit(_)) == \A i \in 0 .. call.m - 1 : Bit(x, i) = bit(i)

\* An amount of 0 is left out for a funnel shift of two different words.
Rotations ==
  /\ Replaced({"rotate"}) =>
       BitsOf(Result, LAMBDA i : Bit(Operand(1), (i - Operand(2)) % N))
  /\ Replaced({"llvm.fshl", "llvm.fshr"}) =>
       LET k == Operand(3) % N
           down == IF call.op = "llvm.fshr" THEN k ELSE N - k
           two_words(i) == IF i < N THEN Bit(Operand(2), i) ELSE Bit(Operand(1), i - N)
       IN k = 0 \/ BitsOf(Result, LAMBDA i : two_words(i + down))

CountedZeroes ==
  Replaced({"clz", "ctz", "llvm.ctlz", "llvm.cttz"}) =>
    LET leading == call.op \in {"clz", "llvm.ctlz"}
        zeroes(k) == IF leading THEN (N - k) .. (N - 1) ELSE 0 .. (k - 1)
    IN Result = Cardinality({ k \in 1 .. N : \A i \in zeroes(k) : Bit(Operand(1), i) = 0 })

Selections ==
  /\ Replaced({"bitselect"}) =>
       BitsOf(Result, LAMBDA i : Bit(Operand(IF Bit(Operand(3), i) = 1 THEN 2 ELSE 1), i))
  /\ Replaced({"select"}) =>
       LET taken == IF call.is_vec THEN Bit(Operand(3), N - 1) = 1 ELSE Operand(3) # 0
       IN Result = Operand(IF taken THEN 2 ELSE 1)
  /\ Replaced({"all", "any"}) =>
       LET signs == { Bit(Operand(i), N - 1) : i \in DOMAIN call.args }
       IN Result = Bool(IF call.op = "all" THEN signs = {1} ELSE 1 \in signs)

\* The class of a float, as LLVM numbers classes: a quiet NaN is put with
\* the signaling ones, as the masks name both or neither.
ClassOf(x, sig_width) ==
  LET exp == LShr(x, sig_width) % 2 ^ (N - sig_width - 1)
      sig == x % 2 ^ sig_width
      distance == IF exp = 2 ^ (N - sig_width - 1) - 1 THEN 3
                  ELSE IF exp > 0 THEN 2 ELSE IF sig > 0 THEN 1 ELSE 0
  IN IF distance = 3 /\ sig > 0 THEN 0
     ELSE IF Bit(x, N - 1) = 1 THEN 5 - distance ELSE 6 + distance

SignsAndClasses ==
  /\ Replaced({"signbit"}) =>
       Result = IF Bit(Operand(1), N - 1) = 0 THEN 0 ELSE IF call.is_vec THEN AllOnes(N) ELSE 1
  /\ Replaced({"copysign", "llvm.copysign"}) =>
       BitsOf(Result, LAMBDA i : Bit(Operand(IF i = N - 1 THEN 2 ELSE 1), i))
  /\ Replaced({"llvm.is.fpclass"}) =>
       Result = Bit(Operand(2), ClassOf(Operand(1), Operand(3)))

Resized ==
  /\ Replaced({"upsample"}) =>
       BitsOf(Result, LAMBDA i : IF i < N THEN Bit(Operand(2), i) ELSE Bit(Operand(1), i - N))
  /\ Replaced({"convert"}) => Result = Arg(1) % Modulus(call.m)
  /\ Replaced({"llvm.bswap"}) =>
       LET byte(i) == i \div ByteBits
           last == N \div ByteBits - 1
       IN BitsOf(Result, LAMBDA i :
            Bit(Operand(1), (last - byte(i)) * ByteBits + (i % ByteBits)))
  /\ Replaced({"llvm.reduce.and", "llvm.reduce.or", "llvm.reduce.xor"}) =>
       BitsOf(Result, LAMBDA i :
         LET ones == Cardinality({ j \in DOMAIN call.args : Bit(Operand(j), i) = 1 })
         IN CASE call.op = "llvm.reduce.and" -> Bool(ones = Len(call.args))
              [] call.op = "llvm.reduce.or" -> Bool(ones > 0)
              [] OTHER -> ones % 2)

\* The builtins that move, count or select bits put every bit where OpenCL C
\* or LLVM has it, at every width: those of char and short computed in an
\* int, those of long in two.
BitsAreInPlace ==
  Rotations /\ CountedZeroes /\ Selections /\ SignsAndClasses /\ Resized
===========================================================================

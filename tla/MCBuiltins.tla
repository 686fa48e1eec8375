------------------------------ MODULE MCBuiltins ------------------------------
(* One of three things happens: work-items use the half and vector memory
   builtins on a buffer, a call of an integer builtin is replaced, or the
   integers of a function are cleaned up. *)
EXTENDS HalfMemory

CONSTANTS w1, w2  \* work-items
MCItems == {w1, w2}

\* Two patterns that tell neighbours apart with two bits.
MCData == { [i \in 0 .. 15 |-> {b \in 0 .. 1 : ((i + 1) \div (b + 1)) % 2 = 0}],
            [i \in 0 .. 15 |-> {b \in 0 .. 1 : (i + b) % 3 = 0}] }

MCMemories == { [a \in Words |-> {b \in 0 .. 3 : (a + b * b) % 3 = 0}] }

MCTargets ==
  { [space |-> "Global", ssbo16 |-> FALSE, ubo16 |-> TRUE, constant_in_ubo |-> TRUE],
    [space |-> "Global", ssbo16 |-> TRUE, ubo16 |-> FALSE, constant_in_ubo |-> TRUE],
    [space |-> "Constant", ssbo16 |-> TRUE, ubo16 |-> FALSE, constant_in_ubo |-> TRUE] }

Signatures ==
  [family : {"half"}, vec_size : {0, 2, 4, 8, 16}, aligned : {FALSE}]
    \cup [family : {"half"}, vec_size : {3}, aligned : BOOLEAN]
    \cup [family : {"vector"}, vec_size : {2, 3}, aligned : {FALSE}]

CallOf(s, store, o, d) ==
  [family |-> s.family, vec_size |-> s.vec_size, aligned |-> s.aligned,
   store |-> store, offset |-> o, data |-> d]

AnyData == CHOOSE d \in MCData : TRUE

MCCalls ==
  { CallOf(s, TRUE, o, d) : s \in Signatures, o \in 0 .. 1, d \in MCData }
    \cup { CallOf(s, FALSE, o, AnyData) : s \in Signatures, o \in 0 .. 1 }
    \cup { CallOf([family |-> "clspv", vec_size |-> n, aligned |-> TRUE],
                  FALSE, 1, AnyData) : n \in {2, 4} }

------------------------------------------------------------------------------
CONSTANTS
  WordBits,          \* of an int
  IntegerFamilies    \* the calls of integer builtins and intrinsics to make

Word == INSTANCE WordArithmetic

Widths == {WordBits \div 4, WordBits \div 2, WordBits, 2 * WordBits}

\* All values of the three narrow widths; of long those at the borders.
Samples(n) ==
  IF n <= WordBits THEN Word!Values(n)
  ELSE {0, 1, 2, 15, 16, 31, 100, 127, 128, 129, 240, 254, 255}
Few(n) == { x \in {0, 1, 6, Word!SignedMax(n), Word!SignedMin(n), Word!AllOnes(n)} : x <= Word!AllOnes(n) }

Of(ops, signs, n, m, vecs, args) ==
  [op |-> ops, n |-> {n}, m |-> {m}, is_signed |-> signs, is_vec |-> vecs, args |-> args]

Unsigned == {FALSE}
Scalar == {FALSE}

OneOperand(n) ==
  Of({"abs", "clz", "ctz", "llvm.ctlz", "llvm.cttz"}, Unsigned, n, n, Scalar,
     { <<x>> : x \in Samples(n) })
TwoOperands(n) ==
  Of({"abs_diff", "hadd", "rhadd", "add_sat", "sub_sat", "llvm.add.sat", "llvm.sub.sat",
      "mul_hi", "mul24", "llvm.mulh"}, BOOLEAN, n, n, Scalar, Samples(n) \X Samples(n))
Rotating(n) == Of({"rotate"}, Unsigned, n, n, Scalar, Samples(n) \X Samples(n))
ThreeOperands(n) ==
  Of({"mad_hi", "mad24", "mad_sat"}, BOOLEAN, n, n, Scalar, Samples(n) \X Samples(n) \X Few(n))
BitOperands(n) ==
  Of({"bitselect", "llvm.fshl", "llvm.fshr", "llvm.reduce.add", "llvm.reduce.mul",
      "llvm.reduce.and", "llvm.reduce.or", "llvm.reduce.xor"}, Unsigned, n, n, Scalar,
     Few(n) \X Few(n) \X Samples(n))
Choosing(n) == Of({"select"}, Unsigned, n, n, BOOLEAN, Few(n) \X Few(n) \X Samples(n))
Testing(n) == Of({"all", "any"}, Unsigned, n, n, {TRUE}, Few(n) \X Few(n) \X Samples(n))
TestingScalar(n) == Of({"all", "any"}, Unsigned, n, n, Scalar, { <<x>> : x \in Samples(n) })
Converting(n, m) == Of({"convert"}, BOOLEAN, n, m, Scalar, { <<x>> : x \in Samples(n) })
Upsampling(n) == Of({"upsample"}, Unsigned, n, 2 * n, Scalar, Few(n) \X Few(n))
Swapping(n) == Of({"llvm.bswap"}, Unsigned, n, n, Scalar, { <<x>> : x \in Samples(n) })

\* Sign bits of half and float.  Doubles are not to be used with clspv.
SignBits(n) == Of({"signbit"}, Unsigned, n, n, BOOLEAN, { <<x>> : x \in Word!Values(n) })
SignCopying(n) ==
  Of({"copysign", "llvm.copysign"}, Unsigned, n, n, Scalar, Word!Values(n) \X Word!Values(n))

\* Masks of one class, or both of a sign, or NaN; two splits of the word.
Classing(n) ==
  Of({"llvm.is.fpclass"}, Unsigned, n, n, Scalar,
     Word!Values(n) \X ({ 2 ^ k : k \in 2 .. 9 } \cup { 2 ^ k + 2 ^ (11 - k) : k \in 2 .. 5 }
                    \cup {3, 1023}) \X {n \div 2 - 1, n \div 2})

AllIntegerCalls ==
  UNION { {OneOperand(n), TwoOperands(n), Rotating(n), ThreeOperands(n), BitOperands(n),
           Choosing(n), Testing(n), TestingScalar(n)} : n \in Widths }
    \cup { Converting(n, m) : n \in Widths, m \in Widths }
    \cup { Upsampling(n) : n \in Widths \ {2 * WordBits} }
    \cup { Swapping(n) : n \in Widths \ {WordBits \div 4} }
    \cup UNION { {SignBits(n), SignCopying(n)} : n \in {WordBits \div 2, WordBits} }
    \cup { Classing(n) : n \in {WordBits, 2 * WordBits} }

MadSatCalls ==
  { Of({"mad_sat"}, {TRUE}, WordBits, WordBits, Scalar,
       Samples(WordBits) \X Samples(WordBits) \X Samples(WordBits)) }

AllIntegerOptions == [mul_extended : BOOLEAN, clamp_width : BOOLEAN]

VARIABLES integerCall, options, integerCode
integerVars == <<integerCall, options, integerCode>>

Integer == INSTANCE IntegerBuiltins WITH
             Families <- IntegerFamilies, Options <- AllIntegerOptions,
             call <- integerCall, code <- integerCode

ASSUME WordBitsAssumption == Word!CharIsAQuarter
ASSUME FamiliesAssumption == Integer!FamiliesAreCalls

------------------------------------------------------------------------------
VARIABLES body, todo, hackSCF, workList, extended_value, zombies, written
bodyVars == <<body, todo, hackSCF, workList, extended_value, zombies, written>>

Function == INSTANCE IntegerCleanUp WITH WordBits <- 8, Bodies <- {}, Inputs <- {}
BoolW == Function!Bool1
CharW == Function!Char
ShortW == 2 * CharW
IntW == 4 * CharW
LongW == 8 * CharW

I(n) == Function!Inst(n)
K(n, w) == Function!Const(n, w)
New(op, w, args) == Function!New(op, w, args)
Icmp(p, x, y) == Function!Flagged(p, New("icmp", BoolW, <<x, y>>))
Arg(n, w) == [New("arg", w, <<>>) EXCEPT !.num = n]
Ret(n, w) == [New("ret", 0, <<I(n)>>) EXCEPT !.num = w]

\* Three instructions on the odd parts of two arguments, the last used by a fourth.
OddEnds(k, w) ==
  { <<New("zext", n, <<I(6)>>), Ret(7, n)>> : n \in {CharW, ShortW, IntW} \cap (k + 1 .. IntW) }
    \cup { <<Icmp(p, I(6), K(2, k)), Ret(7, BoolW)>> : p \in {"eq", "ult"} }
    \cup { <<New("switch", 0, <<I(6), K(1, k), K(2 ^ k - 1, k)>>)>> }
OddSeconds(k) ==
  { New("trunc", k, <<I(2)>>), New("select", k, <<I(3), I(4), K(1, k)>>), Icmp("ult", I(4), K(2, k)) }
    \cup { New(op, k, <<K(2 ^ k - 1, k), I(4)>>) : op \in {"sub", "mul", "xor"} }
OddThirds(k) ==
  { New(op, k, <<I(4), I(5)>>) : op \in {"add", "sub", "mul", "and", "or", "xor"} }
    \cup { New("phi", k, <<I(4), I(5)>>), New("select", k, <<I(5), I(4), K(0, k)>>) }
OddBodies(k, w) ==
  { <<Arg(1, w), Arg(2, w), Arg(3, BoolW), New("trunc", k, <<I(1)>>), second, third>> \o end :
      second \in OddSeconds(k), third \in OddThirds(k), end \in OddEnds(k, w) }

Trunc(flag, n) == Function!Flagged(flag, New("trunc", ShortW, <<I(n)>>))
DividingBodies ==
  { <<Arg(1, IntW), Arg(2, w), Trunc(f, 1),
      IF w = ShortW THEN New("or", ShortW, <<I(2), K(1, ShortW)>>) ELSE Trunc(g, 2),
      New(op, ShortW, <<I(3), I(4)>>), New(cast, IntW, <<I(5)>>), Ret(6, IntW)>> :
      w \in {ShortW, IntW}, f \in {"", "nuw", "nsw"}, g \in {"", "nuw", "nsw"},
      op \in {"udiv", "sdiv", "urem", "srem"}, cast \in {"zext", "sext"} }
ComparingBodies ==
  { <<Arg(1, IntW), Arg(2, IntW), Icmp(p, I(1), I(2)), New("zext", CharW, <<I(3)>>), New("trunc", BoolW, <<I(4)>>),
      New("select", IntW, <<I(5), I(1), I(2)>>), last, Ret(7, IntW)>> :
      p \in Function!SignedPredicates \cup {"eq", "ult"},
      last \in { New("smin", IntW, <<I(6), I(1)>>), New("smax", IntW, <<I(6), K(3, IntW)>>),
                 New("zext", IntW, <<I(4)>>), New("clamp", IntW, <<I(1), I(2), I(6)>>) } }

MCBodies ==
  { b \in UNION { OddBodies(o[1], o[2]) : o \in {<<3, ShortW>>, <<3, IntW>>, <<5, IntW>>, <<5, LongW>>} }
             \cup DividingBodies \cup ComparingBodies :
      \A i \in DOMAIN b : Function!IsWellTyped(b, b[i]) }
MCInputs ==
  [args : {0, 5, 100, 127, 254} \X {0, 3, 9, 128, 255} \X {0, 1}, edge : {1, 2}]

CleanUp == INSTANCE IntegerCleanUp WITH WordBits <- 8, Bodies <- MCBodies, Inputs <- MCInputs

------------------------------------------------------------------------------
NoIntegerCall == integerCall = [op |-> "none"] /\ options = {} /\ integerCode = {}
IsInteger == integerCall.op # "none"
NoHalfCall == /\ Init
              /\ target = (CHOOSE t \in MCTargets : TRUE) /\ mem = (CHOOSE m \in MCMemories : TRUE)
NoFunction == /\ todo = <<"none">> /\ hackSCF = FALSE
              /\ body = <<>> /\ workList = <<>> /\ extended_value = <<>> /\ zombies = <<>> /\ written = <<>>
IsFunction == todo # <<"none">>

MCInit == \/ Init /\ NoIntegerCall /\ NoFunction
          \/ Integer!Init /\ NoHalfCall /\ NoFunction
          \/ CleanUp!CleanUpInit /\ NoHalfCall /\ NoIntegerCall
MCNext == \/ ~IsInteger /\ ~IsFunction /\ Next /\ UNCHANGED <<integerVars, bodyVars>>
          \/ IsInteger /\ Integer!Next /\ UNCHANGED <<vars, bodyVars>>
          \/ IsFunction /\ CleanUp!CleanUpNext /\ UNCHANGED <<vars, integerVars>>
MCSpec == MCInit /\ [][MCNext]_<<vars, integerVars, bodyVars>>

(* The code put in the place of a saturating or carrying sum, a difference, an
   average or the like computes what the builtin is defined to. *)
SumsAreExact == IsInteger => Integer!SumsAreExact

(* So does the code for high products, mad_hi, products that overflow, and mad_sat
   of unsigned numbers and of signed char and short, but where the code promises
   that the extended words do not wrap and they do (BreaksNoUnsignedWrap). *)
ProductsAreExact == IsInteger => Integer!ProductsAreExact

(* So does the code for counts of bits, rotations, funnel shifts, reversals and
   upsampling. *)
BitsAreInPlace == IsInteger => Integer!BitsAreInPlace

(* No integer of an odd width is left when the passes that undo what LLVM makes
   of integers are done, and the function computes what it did. *)
CleanedUpComputesTheSame == IsFunction => CleanUp!CleanedUpComputesTheSame

(* The signed mad_sat of int saturates the exact result. *)
MadSatSaturates == IsInteger => Integer!MadSatSaturates
==============================================================================

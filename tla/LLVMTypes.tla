------------------------------ MODULE LLVMTypes ------------------------------
(* Types of LLVM as clspv's data layout places them in memory, and addresses
   computed by getelementptr. Sizes and offsets are in bytes.

   A type is [kind, num, ele]: a scalar of num bytes, a vector or array of num
   elements, a structure with num members. A vector of three takes the room of
   four. An array of 0 elements has no known end. *)
EXTENDS Integers, SequencesExt

NoType == [kind |-> "none", num |-> 0, ele |-> <<>>]
IntTy(n) == [kind |-> "int", num |-> n, ele |-> <<>>]
FloatTy(n) == [kind |-> "float", num |-> n, ele |-> <<>>]
VectorTy(n, t) == [kind |-> "vector", num |-> n, ele |-> <<t>>]
ArrayTy(n, t) == [kind |-> "array", num |-> n, ele |-> <<t>>]
StructTy(ts) == [kind |-> "struct", num |-> Len(ts), ele |-> ts]
PackedTy(ts) == [kind |-> "packed", num |-> Len(ts), ele |-> ts]

IsVector(t) == t.kind = "vector"
IsArray(t) == t.kind = "array"
IsStruct(t) == t.kind \in {"struct", "packed"}
IsComposite(t) == IsStruct(t) \/ t.kind \in {"vector", "array"}

RoundUp(n, a) == ((n + a - 1) \div a) * a

RECURSIVE AllocSize(_), Alignment(_), MemberOffset(_, _)

Alignment(t) ==
  CASE t.kind = "vector" -> AllocSize(t)
    [] t.kind = "array"  -> Alignment(t.ele[1])
    [] t.kind = "struct" -> Max({Alignment(t.ele[i]) : i \in 1 .. t.num} \cup {1})
    [] t.kind = "packed" -> 1
    [] OTHER             -> t.num

(* Member i of structure t; i = num + 1 is the end of the last one. *)
MemberOffset(t, i) ==
  IF i = 1 THEN 0
  ELSE LET end == MemberOffset(t, i - 1) + AllocSize(t.ele[i - 1])
       IN IF i > t.num \/ t.kind = "packed" THEN end ELSE RoundUp(end, Alignment(t.ele[i]))

AllocSize(t) ==
  CASE t.kind = "vector" -> (IF t.num = 3 THEN 4 ELSE t.num) * AllocSize(t.ele[1])
    [] t.kind = "array"  -> t.num * AllocSize(t.ele[1])
    [] IsStruct(t)       -> RoundUp(MemberOffset(t, t.num + 1), Alignment(t))
    [] OTHER             -> t.num

(* Where the data of a t are, padding left out, in the order of its scalars. *)
Shift(s, n) == [i \in DOMAIN s |-> s[i] + n]

RECURSIVE DataPlaces(_)
DataPlaces(t) ==
  IF IsStruct(t)
  THEN FlattenSeq([i \in 1 .. t.num |-> Shift(DataPlaces(t.ele[i]), MemberOffset(t, i))])
  ELSE IF IsComposite(t)
  THEN FlattenSeq([i \in 1 .. t.num |-> Shift(DataPlaces(t.ele[1]), (i - 1) * AllocSize(t.ele[1]))])
  ELSE [i \in 1 .. t.num |-> i - 1]

DataSize(t) == Len(DataPlaces(t))

------------------------------------------------------------------------------
(* An index of a getelementptr is a constant, or an instruction of which the
   compiler knows no more than a number it is a multiple of. val is its value
   when the kernel runs. *)
Cst(n) == [cst |-> TRUE, val |-> n, multiple |-> 1]
Dyn(n, m) == [cst |-> FALSE, val |-> n, multiple |-> m]
IsZero(idx) == idx.cst /\ idx.val = 0

Gcd(a, b) == Max({d \in 1 .. Max({a, b}) : a % d = 0 /\ b % d = 0})

Folded(a, b, n, m) == IF a.cst /\ b.cst THEN Cst(n) ELSE Dyn(n, m)
Add(a, b) == Folded(a, b, a.val + b.val,
                    IF a.cst /\ a.val = 0 THEN b.multiple
                    ELSE IF b.cst /\ b.val = 0 THEN a.multiple
                    ELSE Gcd(IF a.cst THEN a.val ELSE a.multiple,
                             IF b.cst THEN b.val ELSE b.multiple))

(* CreateMul, CreateDiv, CreateRem: unsigned, and folded for constants. *)
CreateMul(m, a) == Folded(a, a, a.val * m, a.multiple * m)
CreateDiv(m, a) ==
  Folded(a, a, a.val \div m, IF a.multiple % m = 0 THEN a.multiple \div m ELSE 1)
CreateRem(m, a) == IF m = 1 THEN Cst(0) ELSE Folded(a, a, a.val % m, Gcd(a.multiple, m))

(* The type reached by the indices after the first, NoType if there is none. *)
RECURSIVE Indexed(_, _)
Indexed(t, idxs) ==
  IF Len(idxs) <= 1 THEN t
  ELSE LET next == IF t.kind \in {"vector", "array"} THEN t.ele[1]
                   ELSE IF IsStruct(t) /\ idxs[2].val < t.num THEN t.ele[idxs[2].val + 1]
                   ELSE NoType
       IN Indexed(next, Tail(idxs))

RECURSIVE WithinOffset(_, _)
WithinOffset(t, idxs) ==
  IF idxs = <<>> THEN 0
  ELSE IF IsStruct(t)
  THEN MemberOffset(t, idxs[1].val + 1) + WithinOffset(t.ele[idxs[1].val + 1], Tail(idxs))
  ELSE idxs[1].val * AllocSize(t.ele[1]) + WithinOffset(t.ele[1], Tail(idxs))

GepOffset(t, idxs) == idxs[1].val * AllocSize(t) + WithinOffset(t, Tail(idxs))

------------------------------------------------------------------------------
(* Which explicit layouts of structures clspv takes to be valid in Vulkan. opts
   are the options of the compiler, sclass the storage class. *)
IsScalar(t) == t.kind \in {"int", "float"}

StructAlignment(t, AlignFn(_)) == Max({AlignFn(t.ele[i]) : i \in DOMAIN t.ele} \cup {1})

RECURSIVE ScalarAlignment(_), BaseAlignment(_), ExtendedAlignment(_)

ScalarAlignment(t) ==
  CASE IsScalar(t)                   -> t.num
    [] t.kind \in {"vector", "array"} -> ScalarAlignment(t.ele[1])
    [] OTHER                         -> StructAlignment(t, ScalarAlignment)

BaseAlignment(t) ==
  CASE IsScalar(t)                            -> t.num
    [] IsVector(t) /\ t.num = 2               -> 2 * ScalarAlignment(t)
    [] IsVector(t) /\ t.num \in {3, 4}        -> 4 * ScalarAlignment(t)
    [] IsArray(t)                             -> BaseAlignment(t.ele[1])
    [] IsStruct(t)                            -> StructAlignment(t, BaseAlignment)

ExtendedAlignment(t) ==
  CASE IsScalar(t) \/ IsVector(t) -> BaseAlignment(t)
    [] IsStruct(t)                -> RoundUp(StructAlignment(t, ExtendedAlignment), 16)
    [] IsArray(t)                 -> RoundUp(ExtendedAlignment(t.ele[1]), 16)

StandardAlignment(t, sclass, opts) ==
  IF IsVector(t) THEN ScalarAlignment(t)
  ELSE IF ~opts.std430 /\ sclass = "Uniform" THEN ExtendedAlignment(t) ELSE BaseAlignment(t)

StoreSize(t) == IF IsVector(t) THEN t.num * AllocSize(t.ele[1]) ELSE AllocSize(t)

ImproperlyStraddles(t, offset) ==
  \/ StoreSize(t) <= 16 /\ (offset % 16) + StoreSize(t) > 16
  \/ StoreSize(t) > 16 /\ offset % 16 # 0

(* A vector that straddles improperly is taken to be valid. *)
IsValidMember(ts, offsets, i, sclass, opts) ==
  /\ offsets[i] % StandardAlignment(ts[i], sclass, opts) = 0
  /\ \/ IsVector(ts[i]) /\ ImproperlyStraddles(ts[i], offsets[i])
     \/ i > 1 /\ (IsStruct(ts[i - 1]) \/ IsArray(ts[i - 1]))
          => offsets[i] - offsets[i - 1] >= StandardAlignment(ts[i - 1], sclass, opts)

MemberOffsets(t) == [i \in 1 .. t.num |-> MemberOffset(t, i)]

IsValidExplicitLayout(t, sclass, opts) ==
  \A i \in 1 .. t.num : IsValidMember(t.ele, MemberOffsets(t), i, sclass, opts)

------------------------------------------------------------------------------
(* The instructions that vectors and aggregates go through, by what they
   compute. A value is a number, or the sequence of the values of the elements
   or members. Every number takes one byte; Poison is the one nobody may read. *)

Poison == -1
I8 == IntTy(1)

MemberType(t, i) == IF IsStruct(t) THEN t.ele[i] ELSE t.ele[1]
MemberPlace(t, i) ==
  IF IsStruct(t) THEN MemberOffset(t, i) ELSE (i - 1) * AllocSize(t.ele[1])

RECURSIVE Splat(_, _), Leaves(_, _), ValueAt(_, _, _)
Splat(t, n) == IF IsComposite(t) THEN [i \in 1 .. t.num |-> Splat(MemberType(t, i), n)] ELSE n

(* The numbers of a value and where they lie: <<place, number>>. *)
Leaves(t, v) ==
  IF ~IsComposite(t) THEN {<<0, v>>}
  ELSE UNION {{<<MemberPlace(t, i) + leaf[1], leaf[2]>> : leaf \in Leaves(MemberType(t, i), v[i])}
              : i \in 1 .. t.num}

ValueAt(t, bytes, place) ==
  IF IsComposite(t)
  THEN [i \in 1 .. t.num |-> ValueAt(MemberType(t, i), bytes, place + MemberPlace(t, i))]
  ELSE IF place \in DOMAIN bytes THEN bytes[place] ELSE Poison

Stored(t, v, bytes, place) ==
  LET leaves == Leaves(t, v)
  IN [b \in DOMAIN bytes |-> IF \E leaf \in leaves : place + leaf[1] = b
                             THEN (CHOOSE leaf \in leaves : place + leaf[1] = b)[2]
                             ELSE bytes[b]]

(* What is at an address: an object and the indices of a gep into it. *)
Place(at) == GepOffset(at.src, at.idxs)
LoadFrom(mem, at, t) == ValueAt(t, mem[at.object], Place(at))
StoreTo(mem, at, t, v) == [mem EXCEPT ![at.object] = Stored(t, v, @, Place(at))]

RECURSIVE Extracted(_, _), Inserted(_, _, _)
Extracted(v, idxs) == IF idxs = <<>> THEN v ELSE Extracted(v[idxs[1] + 1], Tail(idxs))
Inserted(v, idxs, x) ==
  IF idxs = <<>> THEN x ELSE [v EXCEPT ![idxs[1] + 1] = Inserted(@, Tail(idxs), x)]

Scalar(fn, a) ==
  IF fn = "select" THEN (IF a[1] = Poison THEN Poison ELSE IF a[1] # 0 THEN a[2] ELSE a[3])
  ELSE IF Poison \in {a[j] : j \in DOMAIN a} THEN Poison
  ELSE CASE fn = "neg" -> 15 - a[1]
         [] fn = "sub" -> (3 * a[1] + a[2]) % 16
         [] fn = "slt" -> IF a[1] < a[2] THEN 1 ELSE 0
         [] fn = "div" -> IF a[2] = 0 THEN Poison ELSE a[1] \div a[2]

Lanes(fn, args) ==
  [i \in DOMAIN args[1] |-> Scalar(fn, [j \in DOMAIN args |-> args[j][i]])]

(* A division is undefined, and folded, when a lane of a constant divisor is 0
   or poison. *)
Quotients(a, b) ==
  IF \E i \in DOMAIN b : b[i] \in {0, Poison} THEN [i \in DOMAIN a |-> Poison] ELSE Lanes("div", <<a, b>>)

Shuffled(a, b, mask) ==
  [i \in DOMAIN mask |-> IF mask[i] = -1 THEN Poison
                         ELSE IF mask[i] < Len(a) THEN a[mask[i] + 1] ELSE b[mask[i] - Len(a) + 1]]

(* Builtins of OpenCL C. Only the first works lane by lane. *)
SomeLane(v) == IF Poison \in Range(v) THEN Poison ELSE IF \E x \in Range(v) : x # 0 THEN 1 ELSE 0
AllLanes(v) == IF Poison \in Range(v) THEN Poison ELSE IF \A x \in Range(v) : x # 0 THEN 1 ELSE 0
Cross(a, b) == [i \in DOMAIN a |-> Scalar("sub", <<a[(i % Len(a)) + 1], b[i]>>)]
Shuffle2(a, b, mask) == Shuffled(a, b, [i \in DOMAIN mask |-> mask[i] % (2 * Len(a))])

(* A function of the program: it puts a number in lane 0 of the vector that is
   the second member of its parameter. *)
UserFunction(agg, n) == Inserted(agg, <<1, 0>>, n)
==============================================================================

-------------------------- MODULE LongVectorLowering --------------------------
(* LongVectorLoweringPass: vectors of eight or sixteen elements become arrays.
   What the code generated for one instruction computes is given from the
   registers its operands were replaced by. A register is [ty, val, from]; from
   is the address if it is the result of a load, which is where an index that is
   no constant is applied. *)
LOCAL INSTANCE LLVMTypes

SPIRVMaxVectorSize == 4
Nowhere == [object |-> "none", src |-> NoType, idxs |-> <<>>]

PaddingArray(size) ==
  IF size % 4 = 0 THEN ArrayTy(size \div 4, IntTy(4))
  ELSE IF size % 2 = 0 THEN ArrayTy(size \div 2, IntTy(2))
  ELSE ArrayTy(size, IntTy(1))

(* Arrays need less alignment than vectors: padding keeps members and the end of
   the structure where they are. *)
Like(t, types) == [t EXCEPT !.num = Len(types), !.ele = types]

WithPadding(t, members, size) ==
  IF size = AllocSize(Like(t, members)) THEN members
  ELSE Append(members, PaddingArray(size - AllocSize(Like(t, members))))
WithMember(t, before, e, i) ==
  LET placed == Append(before, IF e = NoType THEN t.ele[i] ELSE e)
      gap    == MemberOffset(t, i) - MemberOffset(Like(t, placed), Len(placed))
  IN IF e = NoType \/ gap = 0 THEN placed ELSE before \o <<PaddingArray(gap), e>>
EquivalentStruct(t, members) ==
  IF members = t.ele THEN NoType ELSE Like(t, WithPadding(t, members, AllocSize(t)))
EquivalentArray(n, e) == IF e = NoType THEN NoType ELSE ArrayTy(n, e)

RECURSIVE EquivalentType(_)
EquivalentType(t) ==
  CASE IsVector(t) -> IF t.num \in 8 .. 16 THEN ArrayTy(t.num, t.ele[1]) ELSE NoType
    [] IsArray(t)  -> EquivalentArray(t.num, EquivalentType(t.ele[1]))
    [] IsStruct(t) ->
         EquivalentStruct(t, FoldLeft(LAMBDA before, i : WithMember(t, before, EquivalentType(t.ele[i]), i),
                                      <<>>, [i \in 1 .. t.num |-> i]))
    [] OTHER       -> NoType

Either(e, t) == IF e = NoType THEN t ELSE e
OrSelf(t) == Either(EquivalentType(t), t)

(* The member of a structure that holds a place (getElementContainingOffset). *)
MemberAt(t, place) == Max({i \in 1 .. t.num : MemberOffset(t, i) <= place})

(* Both ways between a type and its equivalent: of the two structures the longer
   one has the padding. *)
RECURSIVE ConvertEquivalentValue(_, _, _)
ConvertEquivalentValue(v, t, eq) ==
  IF t = eq THEN v
  ELSE IF ~IsStruct(eq)
  THEN [i \in 1 .. eq.num |-> ConvertEquivalentValue(v[i], t.ele[1], eq.ele[1])]
  ELSE IF eq.num > t.num
  THEN [j \in 1 .. eq.num |->
         IF \E i \in 1 .. t.num : MemberAt(eq, MemberOffset(t, i)) = j
         THEN LET i == CHOOSE i \in 1 .. t.num : MemberAt(eq, MemberOffset(t, i)) = j
              IN ConvertEquivalentValue(v[i], t.ele[i], eq.ele[j])
         ELSE Splat(eq.ele[j], Poison)]
  ELSE [j \in 1 .. eq.num |->
         LET i == MemberAt(t, MemberOffset(eq, j)) IN ConvertEquivalentValue(v[i], t.ele[i], eq.ele[j])]

(* A constant structure that gets padding stops the code: it has too few members. *)
RECURSIVE VisitConstant(_, _)
VisitConstant(t, v) ==
  IF EquivalentType(t) = NoType THEN v
  ELSE [i \in 1 .. t.num |-> VisitConstant(MemberType(t, i), v[i])]

------------------------------------------------------------------------------
(* Indices into a structure with padding: of a gep, and of an extractvalue or an
   insertvalue. *)
NewIndex_Same(t, id) == id
NewIndex(t, id) == MemberAt(EquivalentType(t), MemberOffset(t, id + 1)) - 1

ReworkIndices(idxs, t) ==
  [k \in DOMAIN idxs |->
    LET into == Indexed(t, SubSeq(idxs, 1, k - 1))
    IN IF k > 1 /\ IsStruct(into) /\ EquivalentType(into) # NoType
       THEN Cst(NewIndex(into, idxs[k].val)) ELSE idxs[k]]

(* The types are looked up as those of a gep, whose first index steps over the
   pointer: right for the indices into one structure, or into arrays. *)
RECURSIVE ReworkValueIndices(_, _, _)
ReworkValueIndices(done, idxs, t) ==
  IF idxs = <<>> THEN done
  ELSE LET geps == [k \in DOMAIN done |-> Cst(done[k])]
           indexed == Indexed(t, Append(geps, Cst(idxs[1])))
           into == Indexed(t, geps)
           id == IF EquivalentType(indexed) # NoType /\ IsStruct(into) THEN NewIndex(into, idxs[1]) ELSE idxs[1]
       IN ReworkValueIndices(Append(done, id), Tail(idxs), t)

ReworkValue(idxs, t) == IF EquivalentType(t) = NoType THEN idxs ELSE ReworkValueIndices(<<>>, idxs, t)

LoweredAddress(at) == [at EXCEPT !.src = OrSelf(@), !.idxs = ReworkIndices(@, at.src)]

HandlingRequired(ty, operands) == \E t \in {ty} \cup operands : EquivalentType(t) # NoType

------------------------------------------------------------------------------
(* The visitors: what the generated code leaves in the register that replaces
   the instruction, and in memory. a are the registers of the operands. *)
Result(ty, val, mem) == [reg |-> [ty |-> ty, val |-> val, from |-> Nowhere], mem |-> mem]
ResultOfLoad(ty, val, at, mem) == [reg |-> [ty |-> ty, val |-> val, from |-> at], mem |-> mem]
Values(a) == [j \in DOMAIN a |-> a[j].val]

(* One scalar instruction for each element; an operand that is no array is passed
   to all. A division is folded by LLVM only if its constant divisor is 0. *)
ConvertVectorOperation(fn, eq, a) ==
  [i \in 1 .. eq.num |->
    Scalar(fn, [j \in DOMAIN a |-> IF IsArray(a[j].ty) THEN a[j].val[i] ELSE a[j].val])]

VisitNAryOperator(fn, ty, a, mem) ==
  Result(EquivalentType(ty), ConvertVectorOperation(fn, EquivalentType(ty), a), mem)

(* A variable index is applied in memory: where the vector was loaded from if it
   was, else in a variable of its own. *)
VisitExtractElement(a, index, dyn, mem) ==
  Result(I8,
         IF ~dyn \/ a[1].from = Nowhere THEN a[1].val[index + 1]
         ELSE LoadFrom(mem, a[1].from, a[1].ty)[index + 1],
         mem)

(* copy is a variable made for the instruction, used unless the vector was loaded
   from private memory. *)
Private == {"private", "copy1", "copy2", "copy3", "copy4"}
VisitInsertElement(a, index, dyn, copy, mem) ==
  LET eq == a[1].ty
      isLoad == a[1].from.object \in Private
      at == IF isLoad THEN a[1].from ELSE [object |-> copy, src |-> eq, idxs |-> <<Cst(0)>>]
      new == Inserted(IF isLoad THEN LoadFrom(mem, at, eq) ELSE a[1].val, <<index>>, a[2].val)
  IN IF dyn THEN ResultOfLoad(eq, new, at, StoreTo(mem, at, eq, new))
     ELSE Result(eq, Inserted(a[1].val, <<index>>, a[2].val), mem)

VisitExtractValue(t, ty, a, idxs, mem) ==
  Result(OrSelf(ty), Extracted(a[1].val, ReworkValue(idxs, t)), mem)

VisitInsertValue(t, a, idxs, mem) ==
  Result(OrSelf(t), Inserted(a[1].val, ReworkValue(idxs, t), a[2].val), mem)

VisitLoad(ty, at, mem) ==
  LET to == LoweredAddress(at)
  IN ResultOfLoad(OrSelf(ty), LoadFrom(mem, to, OrSelf(ty)), to, mem)

VisitStore(ty, at, a, mem) == StoreTo(mem, LoweredAddress(at), OrSelf(ty), a[1].val)

(* Element by element: a selection between arrays is nothing the producer knows. *)
VisitSelect(ty, a, mem) ==
  Result(OrSelf(ty), ConvertVectorOperation("select", OrSelf(ty), a), mem)

(* Either operand, and the result, may be a short vector. lhs is the type the
   first operand had. *)
VisitShuffleVector(ty, lhs, a, mask, mem) ==
  Result(OrSelf(ty), [i \in DOMAIN mask |->
    IF mask[i] = -1 THEN Poison ELSE IF mask[i] < lhs.num THEN a[1].val[mask[i] + 1]
    ELSE a[2].val[mask[i] - lhs.num + 1]], mem)

(* A builtin with a SPIR-V instruction for vectors is called for the parts of the
   arrays, one that has a pointer to fill for every element. *)
RECURSIVE SpirvCompliantSize(_)
SpirvCompliantSize(n) == IF n > SPIRVMaxVectorSize THEN SpirvCompliantSize(n \div 2) ELSE n

Part(v, n, c) == SubSeq(v, (c - 1) * n + 1, c * n)
ConvertSpirvCompliantVectorOperation(fn, eq, a) ==
  LET n == SpirvCompliantSize(eq.num)
  IN FlattenSeq([c \in 1 .. eq.num \div n |-> Lanes(fn, [j \in DOMAIN a |-> Part(a[j].val, n, c)])])

(* OpAny and OpAll of the parts, joined by or and by and. *)
ConvertOpAnyOrAll(fn, v) ==
  LET n == SpirvCompliantSize(Len(v))
      parts == [c \in 1 .. Len(v) \div n |->
                 IF fn = "any" THEN SomeLane(Part(v, n, c)) ELSE AllLanes(Part(v, n, c))]
  IN IF fn = "any" THEN SomeLane(parts) ELSE AllLanes(parts)

(* shuffle and shuffle2: copies of the sources in variables, and for each element
   of the mask the one it selects. *)
ConvertBuiltinShuffle2(a, b, mask) ==
  [i \in DOMAIN mask |->
    LET k == mask[i] % Len(a)
    IN IF mask[i] % (2 * Len(a)) >= Len(a) THEN b[k + 1] ELSE a[k + 1]]

(* fract: the pointer is taken for one to an array of scalars. *)
ConvertWithPointer(eq, a, at, mem) ==
  Result(eq, ConvertVectorOperation("neg", eq, a),
         StoreTo(mem, LoweredAddress(at), ArrayTy(eq.num, eq.ele[1]), Values(a)[1]))

BuiltinOfArrays(fn, eq, a, at, mem) ==
  CASE fn = "shuffle2" -> Result(eq, ConvertBuiltinShuffle2(a[1].val, a[2].val, a[3].val), mem)
    [] fn = "fract"    -> ConvertWithPointer(eq, a, at, mem)
    [] fn = "mad"      -> Result(eq, ConvertSpirvCompliantVectorOperation("sub", eq, a), mem)
VisitBuiltinCall(fn, ty, a, at, mem) ==
  IF fn \in {"any", "all"} THEN Result(ty, ConvertOpAnyOrAll(fn, a[1].val), mem)
  ELSE BuiltinOfArrays(fn, EquivalentType(ty), a, at, mem)

(* A function of the program is wrapped in one of the equivalent type, which
   converts the arguments, holds the body, and converts what it returns. *)
Wrapped(ty, eq, v, n) == ConvertEquivalentValue(UserFunction(ConvertEquivalentValue(v, eq, ty), n), ty, eq)
VisitUserCall(ty, a, mem) ==
  Result(EquivalentType(ty), Wrapped(ty, EquivalentType(ty), a[1].val, a[2].val), mem)
==============================================================================

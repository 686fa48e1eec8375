----------------------------- MODULE BitcastUtils -----------------------------
(* BitcastUtils.cpp: the arithmetic passes share to retype an access. Offsets
   become indices into another type; a list of loaded values becomes values of
   another type. Where the code has no way to go on, the result is Stuck. *)
EXTENDS LLVMTypes

EleType(t) == IF t.kind \in {"vector", "array"} \/ (IsStruct(t) /\ t.num = 1) THEN t.ele[1] ELSE t
NumEle(t) == IF t.kind \in {"vector", "array"} THEN t.num ELSE 1

RECURSIVE Innermost(_), Rework(_, _), EleSizes(_, _)
Innermost(t) == IF EleType(t) = t THEN t ELSE Innermost(EleType(t))

(* Interface types such as { [ 0 x T ] } are looked through. *)
Rework(t, n) == IF AllocSize(t) = 0 /\ EleType(t) # t THEN Rework(EleType(t), n + 1)
                ELSE [ty |-> t, steps |-> n]
ReworkUnsizedType(t) == Rework(t, 0).ty

(* Sizes of t and its elements, down to base or a scalar. *)
EleSizes(t, base) == <<AllocSize(t)>> \o
  (IF EleType(t) # t /\ t # base THEN EleSizes(EleType(t), base) ELSE <<>>)

IsArrayLike(t) == t.num > 0 /\ \A i \in 1 .. t.num : t.ele[i] = t.ele[1]
IsComplexStruct(t) == IsStruct(t) /\ ~IsArrayLike(t) /\ AllocSize(t) > 32

(* Is target what lies at the start of t, or a number of the same size? *)
SimilarType(a, b) ==
  a = b \/ (AllocSize(a) = AllocSize(b) /\
            \A t \in {a, b} : t.kind = "int" \/ (t.kind = "float" /\ t.num = 4))
RECURSIVE AliasingAt(_, _, _, _)
AliasingAt(t, target, strict, n) ==
  IF SimilarType(t, target) THEN [found |-> TRUE, steps |-> n, perfect |-> t = target]
  ELSE IF IsComposite(t) /\ ~(strict /\ IsStruct(t) /\ t.num > 1)
  THEN AliasingAt(t.ele[1], target, strict, n + 1)
  ELSE [found |-> FALSE, steps |-> 0, perfect |-> FALSE]
FindAliasingContainedType(t, target) == AliasingAt(t, target, FALSE, 0)

(* SmallerTypeNotAliasing of Types.cpp: the type of a pointer used at two types. *)
SmallestMember(t) == CHOOSE m \in ToSet(t.ele) : \A n \in ToSet(t.ele) : AllocSize(m) <= AllocSize(n)
SmallerType(a, b) == IF AllocSize(a) < AllocSize(b) THEN a ELSE b
LargerType(a, b) == IF AllocSize(a) < AllocSize(b) THEN b ELSE a
SmallerOf(large, small) == IF IsStruct(large) THEN SmallerType(SmallestMember(large), small) ELSE small
SmallerTypeNotAliasing(a, b) ==
  IF AliasingAt(a, b, TRUE, 0).found THEN a
  ELSE IF AliasingAt(b, a, TRUE, 0).found THEN b
  ELSE IF AllocSize(a) = AllocSize(b) THEN a
  ELSE SmallerOf(LargerType(a, b), SmallerType(a, b))

------------------------------------------------------------------------------
(* The offset of a gep: a constant and a sum of instructions, in some unit. *)
None == [cst |-> TRUE, val |-> -1, multiple |-> 1]
AddDyn(dyn, idx) == IF dyn = None THEN idx ELSE Add(dyn, idx)

ExtractOffsetFromStruct(o, t, i) ==
  LET off == MemberOffset(t, i + 1)
  IN IF off % o.unit # 0 THEN [o EXCEPT !.cst = @ * o.unit + off, !.unit = 1]
     ELSE [o EXCEPT !.cst = @ + off \div o.unit]

ExtractOffsetFromIndex(o, idx, size) ==
  IF idx.cst THEN [o EXCEPT !.cst = @ + idx.val * size]
  ELSE [o EXCEPT !.dyn = AddDyn(@, CreateMul(size, idx))]

RECURSIVE ExtractFrom(_, _, _)
ExtractFrom(gep, o, i) ==
  IF i > Len(gep.idxs) THEN o
  ELSE LET prev == Indexed(gep.ty, SubSeq(gep.idxs, 1, i - 1))
           next == Indexed(gep.ty, SubSeq(gep.idxs, 1, i))
       IN ExtractFrom(gep,
            IF i > 1 /\ IsStruct(prev) THEN ExtractOffsetFromStruct(o, prev, gep.idxs[i].val)
            ELSE ExtractOffsetFromIndex(o, gep.idxs[i], AllocSize(ReworkUnsizedType(next)) \div o.unit), i + 1)

ResultType(gep) == Indexed(gep.ty, gep.idxs)
ExtractOffsetFromGEP(gep) ==
  ExtractFrom(gep, [cst |-> 0, dyn |-> None, unit |-> AllocSize(ReworkUnsizedType(ResultType(gep)))], 1)

(* Indices that lead offset bytes into a t, until no larger than target. *)
MemberAt(t, offset) == Max({i \in 1 .. t.num : MemberOffset(t, i) <= offset})
RECURSIVE GoThrough(_, _, _, _)
GoThrough(t, target, offset, idxs) ==
  LET Member(i)  == GoThrough(t.ele[i], target, offset - MemberOffset(t, i), Append(idxs, Cst(i - 1)))
      Element(n) == GoThrough(t.ele[1], target, offset % n, Append(idxs, Cst(offset \div n)))
  IN IF ~IsComposite(t) \/ (target # NoType /\ (t = target \/ AllocSize(t) < AllocSize(target)))
     THEN [offset |-> offset, idxs |-> idxs]
     ELSE IF IsStruct(t) THEN Member(MemberAt(t, offset)) ELSE Element(AllocSize(t.ele[1]))

GoThroughTypeAtOffset(t, target, offset, idxs) ==
  IF IsComposite(t) THEN GoThrough(t, target, offset, idxs)
  ELSE [offset |-> offset % t.num,
        idxs |-> IF idxs # <<>> /\ idxs[Len(idxs)].cst
                 THEN Append(Front(idxs), Cst(offset \div t.num + idxs[Len(idxs)].val))
                 ELSE Append(idxs, Cst(offset \div t.num))]

IdxsTargetTy(t, target) ==
  IF AllocSize(target) >= AllocSize(t) /\ target # t /\ target # EleType(t) THEN Innermost(t) ELSE target

NewUnit(t, target) ==
  LET sizes == EleSizes(t, target) IN sizes[Len(sizes)]

IsExactIn(o, unit) ==
  IF unit <= o.unit THEN o.unit % unit = 0
  ELSE unit % o.unit = 0 /\ o.cst % (unit \div o.unit) = 0 /\ o.dyn.multiple % (unit \div o.unit) = 0
IsDynOffsetExactForTy(t, target, o) ==
  LET In(src) == IsExactIn(o, NewUnit(src, IdxsTargetTy(src, ReworkUnsizedType(target))))
  IN In(ReworkUnsizedType(t))

InUnit(o, unit) ==
  LET dyn == IF unit <= o.unit THEN CreateMul(o.unit \div unit, o.dyn)
             ELSE CreateDiv(unit \div o.unit, o.dyn)
      cst == IF unit <= o.unit THEN o.cst * (o.unit \div unit) ELSE o.cst \div (unit \div o.unit)
  IN IF cst = 0 THEN dyn ELSE Add(dyn, Cst(cst))

(* A quotient for every level of the type, of what the level above leaves. *)
RECURSIVE DivideDyn(_, _, _, _, _)
DivideDyn(t, sizes, i, dyn, idxs) ==
  IF i > Len(sizes) THEN idxs
  ELSE LET size == sizes[i] \div sizes[Len(sizes)]
           at   == Indexed(t, idxs)
       IN IF i > 1 /\ IsStruct(at)
          THEN IF at.num > 1 THEN <<>> ELSE DivideDyn(t, sizes, i + 1, dyn, Append(idxs, Cst(0)))
          ELSE DivideDyn(t, sizes, i + 1,
                         IF i = Len(sizes) THEN dyn ELSE CreateRem(size, dyn),
                         Append(idxs, CreateDiv(size, dyn)))

Zeros(n) == [i \in 1 .. n |-> Cst(0)]

(* Of an object no larger than asked for, the indices stay within: pointer tells
   what the new gep is applied to. The result is empty if the code gives up. *)
IdxsInto(src, dst, o, within, zeros) ==
  LET bytes      == o.cst * o.unit
      Whole(end) == IF end.offset # 0 THEN <<>> ELSE end.idxs
      Divided(sizes) ==
        DivideDyn(src, sizes, IF within THEN 2 ELSE 1, InUnit(o, sizes[Len(sizes)]), zeros)
  IN IF o.dyn # None THEN Divided(EleSizes(src, dst))
     ELSE Whole(GoThroughTypeAtOffset(src, dst, IF within THEN bytes ELSE bytes % AllocSize(src),
                  IF within THEN zeros ELSE Append(zeros, Cst(bytes \div AllocSize(src)))))

GetIdxsForTyFromOffset(t, target, o, pointer) ==
  LET isObject == /\ pointer \in {"alloca", "global", "resource"}
                  /\ t # target
                  /\ target = NoType \/ AllocSize(target) <= AllocSize(t)
      Into(rework) ==
        IdxsInto(rework.ty,
                 IdxsTargetTy(rework.ty, IF target = NoType THEN IntTy(1) ELSE ReworkUnsizedType(target)),
                 o, isObject /\ AllocSize(t) # 0, Zeros(Max({IF isObject THEN 1 ELSE 0, rework.steps})))
  IN Into(Rework(t, 0))

------------------------------------------------------------------------------
(* Values on their way to another type: their type, and their data in order. *)
Stuck == [ty |-> NoType, data |-> <<>>]
IsStuck(v) == v.ty = NoType
NumValues(v) == Len(v.data) \div DataSize(v.ty)
Then(v, Convert(_)) == IF IsStuck(v) THEN v ELSE Convert(v)

(* GroupScalarValuesIntoVector and the like: what fills no value is dropped. *)
FirstValues(v, t, n) == IF n = 0 THEN Stuck ELSE [ty |-> t, data |-> SubSeq(v.data, 1, n)]
Grouped(v, t) == FirstValues(v, t, Len(v.data) - (Len(v.data) % DataSize(t)))

(* ConvertValue, when an aggregate is involved: every scalar of the new type is
   put together by shifts of the scalars the value was made of. A number is the
   set of its bytes <<position, byte>> that are not known to be zero. *)
AsNumber(s) == {<<i - 1, s[i]>> : i \in DOMAIN s}
Shr(x, n) == {<<b[1] - n, b[2]>> : b \in {c \in x : c[1] >= n}}
Masked(x, n) == {b \in x : b[1] < n}
Shl(x, n, width) == Masked({<<b[1] + n, b[2]>> : b \in x}, width)
AsBytes(x, width) ==
  [i \in 1 .. width |-> LET at == {b \in x : b[1] = i - 1}
                        IN IF \E b \in at : at = {b} THEN (CHOOSE b \in at : TRUE)[2] ELSE "garbage"]

RECURSIVE BuildScalar(_, _, _, _, _), BuildScalars(_, _, _, _)
BuildScalar(elements, used, width, have, x) ==
  IF have = width THEN [x |-> x, used |-> used, rest |-> elements]
  ELSE LET ele       == elements[1]
           remaining == Len(ele) - used
           needed    == width - have
           part      == Shr(AsNumber(ele), used)
           kept      == IF needed < remaining /\ needed < width THEN Masked(part, needed) ELSE part
           y         == x \cup Shl(Masked(kept, width), have, width)
       IN IF remaining <= needed
          THEN BuildScalar(Tail(elements), 0, width, have + remaining, y)
          ELSE BuildScalar(elements, used + needed, width, have + needed, y)
BuildScalars(elements, used, widths, data) ==
  IF widths = <<>> THEN data
  ELSE LET s == BuildScalar(elements, used, widths[1], 0, {})
       IN BuildScalars(s.rest, s.used, Tail(widths), data \o AsBytes(s.x, widths[1]))

RECURSIVE ScalarWidths(_), Cut(_, _)
ScalarWidths(t) ==
  IF ~IsComposite(t) THEN <<t.num>>
  ELSE FlattenSeq([i \in 1 .. t.num |-> ScalarWidths(t.ele[IF IsStruct(t) THEN i ELSE 1])])
Cut(s, widths) ==
  IF widths = <<>> THEN <<>>
  ELSE <<SubSeq(s, 1, widths[1])>> \o Cut(SubSeq(s, widths[1] + 1, Len(s)), Tail(widths))

IsAggregate(t) == IsArray(t) \/ IsStruct(t)
BuildFromElements(s, from, t) ==
  BuildScalars(Cut(s, IF IsAggregate(from) THEN ScalarWidths(from) ELSE <<DataSize(from)>>),
               0, ScalarWidths(t), <<>>)
ConvertValue(s, from, t) ==
  IF IsAggregate(from) \/ IsAggregate(t) THEN BuildFromElements(s, from, t) ELSE s

BitcastEach(v, t, n) ==
  [ty |-> t,
   data |-> FlattenSeq([i \in 1 .. Len(v.data) \div n |-> ConvertValue(SubSeq(v.data, (i - 1) * n + 1, i * n), v.ty, t)])]
BitcastValues(v, t) ==
  IF v.ty = t THEN v
  ELSE IF IsStuck(v) \/ DataSize(t) # DataSize(v.ty) THEN Stuck ELSE BitcastEach(v, t, DataSize(t))

ExtractElements(v) == [v EXCEPT !.ty = EleType(v.ty)]
InsertInArray(v, t) == Grouped(v, t)

NTy(n, target) == IF EleType(target) = FloatTy(n) /\ n \in {2, 4} THEN FloatTy(n) ELSE IntTy(n)

BitcastIntoVector(v, n, target) ==
  BitcastValues(v, VectorTy(n, NTy(AllocSize(v.ty) \div n, target)))

EleSize(v) == AllocSize(EleType(v.ty))

GroupInPair(v) == Grouped(v, VectorTy(4, EleType(v.ty)))
AsPairs(v) == [v EXCEPT !.ty = VectorTy(2, EleType(v.ty))]
SplitInPair(v, target) == AsPairs(BitcastIntoVector(v, 4, target))

(* One turn of the loops that split or group vectors. *)
SplitOnce(v, t) ==
  IF NumEle(v.ty) = 2 THEN BitcastIntoVector(v, 4, t)
  ELSE IF NumEle(v.ty) = 4 THEN SplitInPair(v, t) ELSE Stuck
GroupOnce(v, t) ==
  IF NumEle(v.ty) = 2 THEN GroupInPair(v)
  ELSE IF NumEle(v.ty) = 4 THEN BitcastIntoVector(v, 2, t) ELSE Stuck

RECURSIVE SplitUntilEleSize(_, _), SplitUntilSize(_, _), GroupUntilEleSize(_, _), GroupUntilSize(_, _)
SplitUntilEleSize(v, t) ==
  IF IsStuck(v) \/ EleSize(v) <= AllocSize(t) THEN v
  ELSE IF AllocSize(t) * 4 = EleSize(v)
  THEN SplitUntilEleSize(BitcastIntoVector(ExtractElements(v), 4, t), t)
  ELSE SplitUntilEleSize(SplitOnce(v, t), t)
SplitUntilSize(v, t) ==
  IF IsStuck(v) \/ EleSize(v) * NumEle(v.ty) <= AllocSize(t) THEN v
  ELSE SplitUntilSize(SplitOnce(v, t), t)
GroupUntilEleSize(v, t) ==
  IF IsStuck(v) \/ EleSize(v) >= AllocSize(t) THEN v ELSE GroupUntilEleSize(GroupOnce(v, t), t)
GroupUntilSize(v, t) ==
  IF IsStuck(v) \/ EleSize(v) * NumEle(v.ty) >= AllocSize(t) THEN v ELSE GroupUntilSize(GroupOnce(v, t), t)

ConvertScalarIntoVector(v, t) ==
  LET n == AllocSize(v.ty)  m == AllocSize(t)
      w == IF AllocSize(EleType(t)) = n THEN Grouped(v, VectorTy(NumEle(t), v.ty))
           ELSE IF m > n THEN GroupUntilSize(Grouped(v, VectorTy(Min({m \div n, 4}), v.ty)), t)
           ELSE IF m < n THEN SplitUntilSize(BitcastIntoVector(v, Min({n \div m, 4}), t), t)
           ELSE v
  IN BitcastValues(w, t)

(* A vector of three was made one of four, or the other way round: the fourth
   element is dropped, or left undefined ("poison"). *)
Elements(v, n) == [i \in 1 .. Len(v.data) \div n |-> SubSeq(v.data, (i - 1) * n + 1, i * n)]
PoisonElement(n) == [i \in 1 .. n |-> "poison"]
DropFourth(v) ==
  LET e == Elements(v, EleSize(v))
  IN [ty |-> EleType(v.ty),
      data |-> FlattenSeq([i \in DOMAIN e |-> IF i % 4 = 0 THEN <<>> ELSE e[i]])]
AddFourth(v) ==
  LET e == Elements(v, EleSize(v))
  IN [ty |-> EleType(v.ty),
      data |-> FlattenSeq([i \in DOMAIN e |-> IF i % 3 = 0 THEN e[i] \o PoisonElement(EleSize(v)) ELSE e[i]])]
WithNumEle(v, t) ==
  CASE {NumEle(v.ty), t.num} = {3, 4} -> ConvertScalarIntoVector(IF t.num = 3 THEN DropFourth(v) ELSE AddFourth(v), t)
    [] {NumEle(v.ty), t.num} # {3, 4} /\ NumEle(v.ty) > t.num -> SplitInPair(v, EleType(t))
    [] {NumEle(v.ty), t.num} # {3, 4} /\ NumEle(v.ty) < t.num -> GroupInPair(v)
    [] OTHER -> v

ConvertVectorIntoVector(v, t) ==
  LET w == IF EleSize(v) < AllocSize(EleType(t)) THEN GroupUntilEleSize(v, EleType(t))
           ELSE SplitUntilEleSize(v, EleType(t))
  IN IF v.ty = t THEN v ELSE BitcastValues(Then(w, LAMBDA u : WithNumEle(u, t)), t)

ConvertVectorIntoScalar(v, t) ==
  LET n == AllocSize(t)
      Scalars(u) == Then(Then(u, LAMBDA x : BitcastIntoVector(x, NumEle(x.ty), t)), ExtractElements)
      w == IF EleSize(v) >= n THEN Scalars(IF EleSize(v) > n THEN SplitUntilEleSize(v, t) ELSE v)
           ELSE IF AllocSize(v.ty) > n THEN SplitInPair(v, t)
           ELSE IF AllocSize(v.ty) < n THEN GroupUntilSize(v, t) ELSE v
  IN BitcastValues(w, t)

ConvertScalarIntoScalar(v, t) ==
  LET n == AllocSize(v.ty)  m == AllocSize(t)
      w == IF n > m THEN Then(SplitUntilEleSize(BitcastIntoVector(v, Min({n \div m, 4}), t), t), ExtractElements)
           ELSE IF n < m /\ IsComplexStruct(t) THEN InsertInArray(v, ArrayTy(m \div n, v.ty))
           ELSE IF n < m THEN GroupUntilSize(Grouped(v, VectorTy(Min({m \div n, 4}), v.ty)), t)
           ELSE v
  IN IF v.ty = t THEN v ELSE BitcastValues(w, t)

(* Arrays and the like are converted by their elements. *)
ConvertInto(v, t) ==
  LET ele == IF IsArray(t) \/ (IsStruct(t) /\ IsArrayLike(t)) THEN t.ele[1] ELSE t
      Into(w) == IF ele = t THEN w ELSE Then(w, LAMBDA x : InsertInArray(x, t))
  IN IF v.ty = t \/ IsStuck(v) THEN v
     ELSE IF IsVector(t) /\ IsVector(v.ty) THEN ConvertVectorIntoVector(v, t)
     ELSE IF IsVector(t) THEN ConvertScalarIntoVector(v, t)
     ELSE Into(IF IsVector(v.ty) /\ ~IsStruct(t) THEN ConvertVectorIntoScalar(v, ele)
               ELSE ConvertScalarIntoScalar(v, ele))
==============================================================================

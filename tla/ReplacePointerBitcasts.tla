------------------------ MODULE ReplacePointerBitcasts ------------------------
(* ReplacePointerBitcastPass.cpp: an access through a pointer to another type
   is replaced by accesses of the type that is there.

   A program is an object, the geps from it to the access, and the access:
   [root, geps, acc]. The pass leaves the effect of the access: the bytes a load
   returns, or the bytes a store writes, each with where it comes from. *)
EXTENDS BitcastUtils

NoLane == [cst |-> TRUE, val |-> -1, multiple |-> 1]
Access(op, t) == [op |-> op, ty |-> t, lane |-> NoLane]
Gep(t, idxs) == [ty |-> t, idxs |-> idxs]

(* Instruction k + 1 takes the pointer after k geps at this type. *)
UsedAs(p, k) == IF k < Len(p.geps) THEN p.geps[k + 1].ty ELSE p.acc.ty

(* InferType of the pointer after k geps, and what that pointer is. The type of an
   argument comes from its uses: this one, and one elsewhere by another gep. *)
PointerType(p, k) ==
  IF k > 0 THEN ResultType(p.geps[k])
  ELSE IF p.root.kind = "argument" THEN SmallerTypeNotAliasing(p.root.ty, UsedAs(p, 0))
  ELSE p.root.ty
PointerKind(p, k) == IF k = 0 THEN p.root.kind ELSE "gep"
IsImplicitCast(p, k) == ReworkUnsizedType(PointerType(p, k)) # ReworkUnsizedType(UsedAs(p, k))

(* What the access does: the places of its bytes. *)
RECURSIVE OffsetOf(_)
OffsetOf(geps) == IF geps = <<>> THEN 0
                  ELSE GepOffset(geps[1].ty, geps[1].idxs) + OffsetOf(Tail(geps))
Places(p) ==
  IF p.acc.lane = NoLane THEN Shift(DataPlaces(p.acc.ty), OffsetOf(p.geps))
  ELSE Shift(DataPlaces(EleType(p.acc.ty)),
             OffsetOf(p.geps) + p.acc.lane.val * AllocSize(EleType(p.acc.ty)))

(* No indices were found, or they lead out of a structure: LLVM stops. *)
IsBroken(p) ==
  \E i \in DOMAIN p.geps : p.geps[i].idxs = <<>> \/ ResultType(p.geps[i]) = NoType

------------------------------------------------------------------------------
(* DowngradeModule: objects get a type small enough for what is stored. *)
ArrayOf(t, n) == IF n > 1 THEN ArrayTy(n, t) ELSE t

RECURSIVE DowngradeGeps(_, _, _)
DowngradeGeps(p, k, t) ==
  IF k = 0 THEN p
  ELSE DowngradeGeps(
         [p EXCEPT !.geps[k] = Gep(t, GetIdxsForTyFromOffset(t, t, ExtractOffsetFromGEP(p.geps[k]),
                                                             PointerKind(p, k - 1)))], k - 1, t)

(* Users of an argument whose type is larger, or a float where t is an
   integer; the search ends at the first gep that is not. *)
TooLarge(gep, t) ==
  \/ AllocSize(t) < AllocSize(gep.ty)
  \/ AllocSize(t) = AllocSize(gep.ty) /\ gep.ty.kind = "float" /\ t.kind = "int"

RECURSIVE DowngradeUsers(_, _, _)
DowngradeUsers(p, k, t) ==
  IF k > Len(p.geps) \/ (k <= Len(p.geps) /\ ~TooLarge(p.geps[k], t)) THEN p
  ELSE LET res == ResultType(p.geps[k])
           ret == IF AllocSize(t) > AllocSize(res) THEN res ELSE t
       IN DowngradeUsers(
            [p EXCEPT !.geps[k] = Gep(t, GetIdxsForTyFromOffset(t, ret, ExtractOffsetFromGEP(p.geps[k]),
                                                                PointerKind(p, k - 1)))], k + 1, t)

DowngradeSourceToTy(p, k, t) ==
  LET q == DowngradeGeps(p, k, t)
  IN CASE p.root.kind \in {"alloca", "global"} ->
            [q EXCEPT !.root.ty = ArrayOf(t, AllocSize(p.root.ty) \div AllocSize(t))]
       [] p.root.kind = "argument" ->
            [DowngradeUsers(q, 1, t) EXCEPT !.root.ty = IF TooLarge(Gep(@, <<>>), t) THEN t ELSE @]
       [] OTHER -> q

(* Instruction k + 1 is stored through, uses a large structure, or takes a part
   that does not divide the whole. *)
IsStoredThrough(p, k) == p.acc.op # "load" /\ k >= Len(p.geps) - 1
DowngradeTarget(p, k) == IF k < Len(p.geps) THEN ReworkUnsizedType(ResultType(p.geps[k + 1]))
                         ELSE ReworkUnsizedType(p.acc.ty)
MustDowngrade(p, k) ==
  LET source == ReworkUnsizedType(PointerType(p, k))
      whole  == AllocSize(Innermost(source))
      part   == AllocSize(DowngradeTarget(p, k))
  IN /\ IsImplicitCast(p, k)
     /\ IsStoredThrough(p, k) \/ IsComplexStruct(source) \/ whole % part # 0
     /\ whole > part

DowngradeTy(p, k) ==
  LET whole == AllocSize(Innermost(ReworkUnsizedType(PointerType(p, k))))
      t     == DowngradeTarget(p, k)
      part  == AllocSize(t)
      Pow2  == {d \in {1, 2, 4, 8, 16} : whole % d = 0 /\ part % d = 0}
  IN IF whole % part = 0 THEN t ELSE IntTy(Max(Pow2))

DowngradeFirst(p) ==
  LET ks == {k \in 0 .. Len(p.geps) : MustDowngrade(p, k)}
      k  == CHOOSE k \in ks : \A j \in ks : k <= j
  IN IF ks = {} THEN p ELSE DowngradeSourceToTy(p, k, DowngradeTy(p, k))

------------------------------------------------------------------------------
(* ReduceType: go down to an element as small as the access allows. in: the
   indices of the gep folded, if any; whole: its offset in units of the access. *)
RECURSIVE ReduceObject(_, _, _), ReduceGep(_, _, _, _, _)
ReduceObject(t, dst, idxs) ==
  IF EleType(t) # t /\ AllocSize(t) > AllocSize(dst) /\ AllocSize(EleType(t)) >= AllocSize(dst)
  THEN ReduceObject(EleType(t), dst, Append(idxs, Cst(0)))
  ELSE [ty |-> t, idxs |-> Append(idxs, Cst(0))]
ReduceGep(t, dst, in, idxs, n) ==
  IF EleType(t) # t /\ AllocSize(t) > AllocSize(dst) /\ Len(in) > n
  THEN ReduceGep(EleType(t), dst, in, Append(idxs, in[n + 1]), n + 1)
  ELSE [ty |-> t, idxs |-> idxs]
ReduceType(t, dst, whole, in) ==
  IF in = <<>> THEN ReduceObject(t, dst, <<>>)
  ELSE IF AllocSize(t) = AllocSize(dst) /\ whole # None THEN ReduceGep(t, dst, in, <<whole>>, 0)
  ELSE ReduceGep(t, dst, in, <<in[1]>>, 1)

CalculateNumIter(n, m) == IF n < m THEN (n - 1 + m) \div n ELSE 1

(* Access number i is at the last index plus i. *)
NextAddress(idxs, i) == Append(Front(idxs), Add(idxs[Len(idxs)], Cst(i)))

(* A part of one loaded value, at idx in units of the part. *)
ExtractSubVector(v, idx, n) ==
  LET half == (Len(v.data) \div 2) \div n
      low  == SubSeq(v.data, 1, Len(v.data) \div 2)
      high == SubSeq(v.data, Len(v.data) \div 2 + 1, Len(v.data))
  IN [v |-> [ty |-> VectorTy(2, EleType(v.ty)),
             data |-> IF idx = None \/ CreateDiv(half, idx).val = 0 THEN low ELSE high],
      idx |-> IF idx = None THEN None ELSE CreateRem(half, idx)]

RECURSIVE ExtractUntilEleSizeLE(_, _, _)
ExtractUntilEleSizeLE(t, v, idx) ==
  LET n == AllocSize(t)
  IN IF IsStuck(v) \/ EleSize(v) <= n THEN [v |-> v, idx |-> idx]
     ELSE IF ~IsVector(v.ty)
     THEN ExtractUntilEleSizeLE(t, BitcastIntoVector(v, Min({4, AllocSize(v.ty) \div AllocSize(EleType(t))}), t), idx)
     ELSE IF NumEle(v.ty) = 2 THEN ExtractUntilEleSizeLE(t, BitcastIntoVector(v, 4, t), idx)
     ELSE IF NumEle(v.ty) = 4
     THEN LET s == ExtractSubVector(v, idx, n) IN ExtractUntilEleSizeLE(t, s.v, s.idx)
     ELSE [v |-> Stuck, idx |-> idx]

ExtractElementOrSubVector(t, v, idx) ==
  LET n == AllocSize(t) \div EleSize(v)
      i == IF idx = None THEN 0 ELSE idx.val
  IN IF n = 1 THEN IF i < NumEle(v.ty) THEN [ty |-> EleType(v.ty), data |-> Elements(v, EleSize(v))[i + 1]]
                   ELSE Stuck
     ELSE IF n = 2 THEN ExtractSubVector(v, idx, AllocSize(t)).v ELSE v

(* What ExtractSubElement converts in the end. *)
ExtractSubElement(t, v, idx) ==
  LET within == IF idx = None THEN None ELSE CreateRem(AllocSize(v.ty) \div AllocSize(t), idx)
      Part(s) == IF IsStuck(s.v) \/ ~IsVector(s.v.ty) THEN Stuck
                 ELSE ExtractElementOrSubVector(t, s.v, s.idx)
  IN IF v.ty = t THEN v ELSE Part(ExtractUntilEleSizeLE(t, v, within))

(* The effect of a load or store of a t through the indices of a gep. *)
PlacesAt(t, idxs) == Shift(DataPlaces(Indexed(t, idxs)), GepOffset(t, idxs))

IsVec3Access(src, dst) ==
  /\ IsVector(dst) /\ dst.num = 3
  /\ ~(IsVector(src) /\ src.num = 3 /\ AllocSize(EleType(src)) = AllocSize(EleType(dst)))

NoEffect == [done |-> FALSE, bytes |-> <<>>]
Effect(bytes) == [done |-> TRUE, bytes |-> bytes]

LoadAs(v, dst, whole) ==
  LET to == IF IsVec3Access(v.ty, dst) THEN VectorTy(4, EleType(dst)) ELSE dst
  IN ConvertInto(IF AllocSize(v.ty) > AllocSize(dst) THEN ExtractSubElement(to, v, whole) ELSE v, to)
ComputeLoad(src, dst, r, whole) ==
  LET n      == CalculateNumIter(AllocSize(r.ty), AllocSize(dst))
      loaded == FlattenSeq([i \in 1 .. n |-> PlacesAt(src, NextAddress(r.idxs, i - 1))])
      Result(v) == IF IsStuck(v) THEN NoEffect ELSE Effect(SubSeq(v.data, 1, DataSize(dst)))
  IN Result(LoadAs([ty |-> IF IsArray(r.ty) THEN EleType(r.ty) ELSE r.ty, data |-> loaded], dst, whole))

Written(src, v, idxs) ==
  LET size == DataSize(v.ty)
  IN IF IsStuck(v) THEN NoEffect
     ELSE Effect({<<PlacesAt(src, NextAddress(idxs, i - 1))[j], v.data[(i - 1) * size + j]>> :
                    i \in 1 .. NumValues(v), j \in 1 .. size})

(* A store of zero needs no conversion; any other value is converted. A vector of
   three is stored by its elements; in a larger type a part of it is stored. *)
ComputeStore(src, dst, r, in, isZero) ==
  LET n     == AllocSize(r.ty)
      split == IsVec3Access(r.ty, dst) /\ ~isZero
      unit  == IF split THEN EleType(dst) ELSE dst
      part  == n > AllocSize(unit)
      value == [ty |-> IF part \/ ~IsArray(dst) THEN unit ELSE EleType(dst), data |-> [i \in 1 .. DataSize(dst) |-> i]]
      zeros == [ty |-> r.ty, data |-> [i \in 1 .. DataSize(r.ty) * ((AllocSize(dst) + n - 1) \div n) |-> 0]]
      idxs  == IF ~part THEN r.idxs
               ELSE Append(r.idxs, IF in = <<>> THEN Cst(0) ELSE in[Len(r.idxs) + 1])
  IN IF part /\ (AllocSize(EleType(r.ty)) > AllocSize(unit) \/ Len(in) \in 1 .. Len(r.idxs)) THEN NoEffect
     ELSE Written(src, ConvertInto(IF isZero THEN zeros ELSE value, IF part THEN EleType(r.ty) ELSE r.ty), idxs)

------------------------------------------------------------------------------
(* ConvertIdxUnit, FoldGEPOffset: offsets in other units. *)
(* Mutant: an index in units of the gep is taken for one in units of the load. *)
ConvertIdxUnit_AsItIs(idx, from, to) == idx

ConvertIdxUnit(idx, from, to) ==
  IF idx = None \/ from = to THEN idx
  ELSE IF from > to THEN IF from % to = 0 THEN CreateMul(from \div to, idx) ELSE None
  ELSE IF to % from = 0 THEN CreateDiv(to \div from, idx) ELSE None

MinAlign(a, b) == Max({d \in {1, 2, 4, 8, 16, 32, 64} : a % d = 0 /\ b % d = 0})
Rescaled(o, unit) ==
  [o EXCEPT !.cst = @ * (o.unit \div unit), !.unit = unit,
            !.dyn = IF @ = None THEN None ELSE CreateMul(o.unit \div unit, @)]
SumOffset(a, b) ==
  [a EXCEPT !.cst = @ + b.cst, !.dyn = IF b.dyn = None THEN @ ELSE AddDyn(@, b.dyn)]
FoldGEPOffset(gep, base) ==
  LET o    == ExtractOffsetFromGEP(gep)
      unit == MinAlign(base.unit, o.unit)
  IN SumOffset(Rescaled(o, unit), Rescaled(base, unit))
RECURSIVE FoldedOffset(_, _, _)
FoldedOffset(geps, i, k) ==
  IF i = k THEN ExtractOffsetFromGEP(geps[k]) ELSE FoldGEPOffset(geps[k], FoldedOffset(geps, i, k - 1))

(* The work list: instructions 1 .. n are the geps, n + 1 is the access. An
   implicit cast is on it unless the gep it uses is, and so are the geps that
   use one on it as another type. *)
Followers(p, W) ==
  FoldLeft(LAMBDA V, j : IF j - 1 \in V /\ p.geps[j].ty # ResultType(p.geps[j - 1]) THEN V \cup {j} ELSE V,
           W, [j \in DOMAIN p.geps |-> j])
Visit(p, W, i) ==
  IF /\ IsImplicitCast(p, i - 1) /\ i - 1 \notin W
     /\ ~IsComplexStruct(ReworkUnsizedType(PointerType(p, i - 1)))
  THEN Followers(p, W \cup {i}) ELSE W
WorkList(p) == FoldLeft(LAMBDA W, i : Visit(p, W, i), {}, [i \in 1 .. Len(p.geps) + 1 |-> i])

(* The accesses made instead, from the pointer before the geps folded: o is the
   offset of those, in their indices into the type found there. *)
NoOffset == [cst |-> 0, dyn |-> None, unit |-> 0]
Whole(o) == CASE o.dyn = None -> Cst(o.cst)
              [] o.cst = 0 -> o.dyn
              [] OTHER -> Add(Cst(o.cst), o.dyn)
SourceType(p, first) == ReworkUnsizedType(PointerType(p, first - 1))
IndicesInto(p, first, o) ==
  IF o = NoOffset THEN <<>>
  ELSE GetIdxsForTyFromOffset(SourceType(p, first), ResultType(p.geps[Len(p.geps)]), o, PointerKind(p, first - 1))

AccessAt(p, src, idx, in) ==
  [load  |-> ComputeLoad(src, p.acc.ty, ReduceType(src, p.acc.ty, idx, in), idx),
   store |-> IF p.acc.op = "load" THEN NoEffect
             ELSE LET at == IF in # <<>> /\ ResultType(p.geps[Len(p.geps)]) # p.acc.ty THEN None ELSE idx
                  IN ComputeStore(src, p.acc.ty, ReduceType(src, p.acc.ty, at, in), in, p.acc.op = "store_zero")]
ComputeAccess(p, first, o, in) ==
  IF o # NoOffset /\ in = <<>> THEN [load |-> NoEffect, store |-> NoEffect]
  ELSE AccessAt(p, SourceType(p, first),
                IF o = NoOffset THEN None ELSE ConvertIdxUnit(Whole(o), o.unit, AllocSize(p.acc.ty)), in)

(* What the program does once its access is replaced: the bytes it loads, in
   order, or the bytes it stores <<place, which>>. A lane is loaded with its
   vector, and stored with the rest of the vector as it was. *)
LaneBytes(acc) ==
  LET size == DataSize(EleType(acc.ty))
  IN {i \in 1 .. DataSize(acc.ty) : (i - 1) \div size = acc.lane.val}
InLane(p, e) ==
  LET L == LaneBytes(p.acc)
  IN IF p.acc.lane = NoLane THEN IF p.acc.op = "load" THEN e.load ELSE e.store
     ELSE IF p.acc.op = "load" THEN [e.load EXCEPT !.bytes = SubSeq(@, Min(L), Max(L))]
     ELSE [done |-> e.load.done /\ e.store.done,
           bytes |-> {<<b[1], b[2] - Min(L) + 1>> : b \in {c \in e.store.bytes : c[2] \in L}}
                     \cup {b \in e.store.bytes : b[2] \notin L /\ e.load.bytes[b[2]] # b[1]}]
Moved(e, op, n) ==
  IF ~e.done THEN NoEffect
  ELSE IF op = "load" THEN [e EXCEPT !.bytes = [i \in DOMAIN @ |-> IF @[i] \in Int THEN @[i] + n ELSE @[i]]]
  ELSE [e EXCEPT !.bytes = {<<b[1] + n, b[2]>> : b \in @}]

IsReplaced(p) == {Len(p.geps), Len(p.geps) + 1} \cap WorkList(p) # {}
FirstFolded(n, W) ==
  IF n \in W THEN Max({i \in 1 .. n : i - 1 \notin W /\ i .. n \subseteq W}) ELSE n + 1
ReplacedFrom(p, first, o) ==
  Moved(InLane(p, ComputeAccess(p, first, o, IndicesInto(p, first, o))),
        p.acc.op, OffsetOf(SubSeq(p.geps, 1, first - 1)))
ReplacedFold(p, first) ==
  ReplacedFrom(p, first, IF first > Len(p.geps) THEN NoOffset ELSE FoldedOffset(p.geps, first, Len(p.geps)))
ReplacedAccess(p) == ReplacedFold(p, FirstFolded(Len(p.geps), WorkList(p)))
==============================================================================

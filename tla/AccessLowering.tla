---------------------------- MODULE AccessLowering ----------------------------
(* The way of one memory access through SimplifyPointerBitcastPass and
   ReplacePointerBitcastPass, one function of a pass at a time.

   First the functions of SimplifyPointerBitcastPass.cpp: casts between pointer
   types are moved into the indices of the geps around them. Every operator takes
   a program and is the program one of the functions of the pass makes of it.
   Instructions are named by their distance from the access, which insertions and
   deletions before them leave alone. *)
EXTENDS ReplacePointerBitcasts

UsedAt(p, d) == Len(p.geps) - d
At(p, ks) == {Len(p.geps) - k : k \in ks}
ForEach(Op(_, _), p, ds) == FoldLeft(Op, p, SetToSortSeq(ds, LAMBDA a, b : a > b))
Casts(p) == {k \in 0 .. Len(p.geps) : IsImplicitCast(p, k)}
SetGep(p, k, gep) == [p EXCEPT !.geps[k] = gep]
InsertGep(p, k, gep) == [p EXCEPT !.geps = InsertAt(@, k, gep)]
RemoveGep(p, k) == [p EXCEPT !.geps = RemoveAt(@, k)]

IsConstant(gep) == \A i \in DOMAIN gep.idxs : gep.idxs[i].cst
IsGVConstantGEP(p, k) == p.root.kind = "global" /\ k = 1 /\ IsConstant(p.geps[1])
InsideScalar(t, bytes) == GoThroughTypeAtOffset(t, NoType, bytes, <<>>).offset # 0
IsOffsetInsideScalar(gep, t) ==
  LET o == ExtractOffsetFromGEP(gep) IN InsideScalar(t, o.cst * o.unit)

------------------------------------------------------------------------------
(* runOnImplicitGEP: geps of zeroes that were left out are put in. Types are
   compared as they are, unsized ones too. *)
RawCasts(p) == {k \in 0 .. Len(p.geps) : PointerType(p, k) # UsedAs(p, k)}
Aliasing(p, k) == FindAliasingContainedType(PointerType(p, k), UsedAs(p, k))
IsGepAt(p, k) == k < Len(p.geps)

AliasingList(p) == {k \in RawCasts(p) : Aliasing(p, k).found /\ (IsGepAt(p, k) \/ Aliasing(p, k).perfect)}
OtherCasts(p) == {k \in RawCasts(p) : ~Aliasing(p, k).found}
IsBeforeStore(p, k) == k = Len(p.geps) /\ p.acc.op # "load" /\ k = 0
IsBeforeLoad(p, k) == k = Len(p.geps) /\ p.acc.op = "load" /\ k > 0
                      /\ AllocSize(p.acc.ty) < AllocSize(PointerType(p, k))
IsGepCast(p, k) == IsGepAt(p, k) /\ ((k = 0 /\ p.root.kind = "resource")
                                     \/ ResultType(p.geps[k + 1]) = PointerType(p, k))
IsGVCast(p, k) == IsGepAt(p, k) /\ ~IsGepCast(p, k) /\ k = 0 /\ IsGVConstantGEP(p, 1)

InsertZeros(p, k, found) ==
  LET zeros == Gep(PointerType(p, k), Zeros(found.steps + 1))
  IN InsertGep(IF IsGepAt(p, k) /\ ~found.perfect
               THEN [p EXCEPT !.geps[k + 1].ty = ResultType(zeros)] ELSE p, k + 1, zeros)

(* The offset of the gep is put in units of the access: what the division
   leaves is lost. *)
GepBeforeLoad(p) ==
  LET n    == Len(p.geps)
      size == AllocSize(p.acc.ty)
      o    == ExtractOffsetFromGEP(p.geps[n])
      dyn  == IF o.dyn = None THEN None ELSE CreateMul(o.unit \div size, o.dyn)
      at   == [cst |-> (o.cst * o.unit) \div size, dyn |-> dyn, unit |-> size]
  IN SetGep(p, n, Gep(p.acc.ty, GetIdxsForTyFromOffset(p.acc.ty, p.acc.ty, at, PointerKind(p, n - 1))))

(* Mutant: at the start of the variable, too. *)
BeforeLoad_Always(p) == GepBeforeLoad(p)

BeforeLoad(p) ==
  LET o == ExtractOffsetFromGEP(p.geps[Len(p.geps)])
  IN IF o.cst * o.unit < AllocSize(p.acc.ty) THEN p ELSE GepBeforeLoad(p)

Retyped(p, k, target) ==
  LET t == PointerType(p, k)
  IN SetGep(p, k + 1, Gep(t, GetIdxsForTyFromOffset(t, target, ExtractOffsetFromGEP(p.geps[k + 1]),
                                                    PointerKind(p, k))))
GepCast(p, d) == LET k == UsedAt(p, d) IN Retyped(p, k, ReworkUnsizedType(PointerType(p, k)))
GVCast(p, d) ==
  LET k == UsedAt(p, d)
  IN IF IsOffsetInsideScalar(p.geps[k + 1], PointerType(p, k)) THEN p ELSE Retyped(p, k, NoType)

AtAccess(p, others, q) ==
  IF \E k \in others : IsBeforeStore(p, k) THEN InsertGep(q, Len(q.geps) + 1, Gep(p.acc.ty, <<Cst(0)>>))
  ELSE IF \E k \in others : IsBeforeLoad(p, k) THEN BeforeLoad(q) ELSE q
RunOnImplicitGEP(p) ==
  LET others == OtherCasts(p)
      found  == [d \in At(p, AliasingList(p)) |-> Aliasing(p, UsedAt(p, d))]
      q == ForEach(LAMBDA r, d : InsertZeros(r, UsedAt(r, d), found[d]), p, At(p, AliasingList(p)))
  IN ForEach(GVCast,
             ForEach(GepCast, AtAccess(p, others, q), At(p, {k \in others : IsGepCast(p, k)})),
             At(p, {k \in others : IsGVCast(p, k)}))

------------------------------------------------------------------------------
(* runOnUpgradeableConstantCasts: a gep whose offset is a multiple of what the
   next instruction uses is made a gep of that. *)
GepIndicesCanBeUpgradedTo(t, gep) ==
  LET o == ExtractOffsetFromGEP(gep)
  IN IF IsConstant(gep) THEN (o.cst * o.unit) % AllocSize(t) = 0
     ELSE /\ gep.ty = IntTy(1) /\ Len(gep.idxs) = 1
          /\ gep.idxs[1].multiple % AllocSize(t) = 0

RECURSIVE FindBiggerTy(_, _, _)
FindBiggerTy(t, source, gep) ==
  IF GepIndicesCanBeUpgradedTo(t, gep) THEN t
  ELSE IF t.kind # "int" \/ t.num \div 2 <= AllocSize(source) THEN source
  ELSE FindBiggerTy(IntTy(t.num \div 2), source, gep)

Upgraded(p, k) == FindBiggerTy(ReworkUnsizedType(UsedAs(p, k)), ReworkUnsizedType(PointerType(p, k)), p.geps[k])
IsUpgradeable(p, k) ==
  /\ k > 0
  /\ AllocSize(ReworkUnsizedType(PointerType(p, k))) < AllocSize(ReworkUnsizedType(UsedAs(p, k)))
  /\ ~(k = 1 /\ p.root.kind = "resource")
  /\ IsGVConstantGEP(p, k) => IsOffsetInsideScalar(p.geps[k], PointerType(p, k - 1))
  /\ Upgraded(p, k) # ReworkUnsizedType(PointerType(p, k))

RunOnUpgradeableConstantCasts(p) ==
  LET list == At(p, {k \in Casts(p) : IsUpgradeable(p, k)})
      to   == [d \in list |-> Upgraded(p, UsedAt(p, d))]
      Upgrade(q, d) ==
        LET k == UsedAt(q, d)
            Into(t) == Gep(t, GetIdxsForTyFromOffset(t, t, ExtractOffsetFromGEP(q.geps[k]), PointerKind(q, k - 1)))
        IN SetGep(q, k, Into(to[d]))
  IN ForEach(Upgrade, p, list)

------------------------------------------------------------------------------
(* runOnUnneededIndices: trailing zeroes that lead to less than is used. *)
RECURSIVE DropZeros(_, _, _)
DropZeros(t, idxs, target) ==
  IF Len(idxs) = 1 \/ ~IsZero(Last(idxs)) THEN idxs
  ELSE IF AllocSize(Indexed(t, Front(idxs))) >= AllocSize(target) THEN Front(idxs)
  ELSE DropZeros(t, Front(idxs), target)

HasUnneededIndices(p, k) ==
  /\ k > 0 /\ Len(p.geps[k].idxs) > 1 /\ IsZero(Last(p.geps[k].idxs))
  /\ ~IsGVConstantGEP(p, k)
  /\ AllocSize(ReworkUnsizedType(PointerType(p, k))) < AllocSize(ReworkUnsizedType(UsedAs(p, k)))

RunOnUnneededIndices(p) ==
  LET Drop(q, d) ==
        LET k == UsedAt(q, d)
        IN [q EXCEPT !.geps[k].idxs = DropZeros(q.geps[k].ty, @, ReworkUnsizedType(UsedAs(p, UsedAt(p, d))))]
  IN ForEach(Drop, p, At(p, {k \in Casts(p) : HasUnneededIndices(p, k)}))

------------------------------------------------------------------------------
(* runOnImplicitCasts: a gep of a gep of another type. *)
HasThree(t) == IsVector(t) /\ t.num = 3
IsCastOfGep(p, k) ==
  LET s == ReworkUnsizedType(PointerType(p, k))
      t == ReworkUnsizedType(UsedAs(p, k))
  IN k > 0 /\ IsGepAt(p, k) /\ ~(IsVector(s) /\ IsVector(t) /\ (HasThree(s) \/ HasThree(t)))

(* Both offsets in the smaller unit of the two. *)
InSmallerUnit(o, unit) == IF unit < o.unit
                          THEN [o EXCEPT !.cst = @ * (o.unit \div unit),
                                         !.dyn = IF @ = None THEN None ELSE CreateMul(o.unit \div unit, @)]
                          ELSE o

CastGep(p, d) ==
  LET k   == UsedAt(p, d)
      src == p.geps[k]
      gep == p.geps[k + 1]
      t   == ResultType(src)
      To(ty, o) == Gep(ty, GetIdxsForTyFromOffset(ty, ResultType(gep), o, PointerKind(p, k - 1)))
      Sum(o, base) == SumOffset(InSmallerUnit(o, base.unit), InSmallerUnit(base, o.unit))
      Cast(o) == CASE o.dyn # None /\ ~IsDynOffsetExactForTy(t, ResultType(gep), o) -> p
                   [] o.dyn = None /\ InsideScalar(t, o.cst * o.unit) ->
                        RemoveGep(SetGep(p, k + 1, To(gep.ty, Sum(o, ExtractOffsetFromGEP(src)))), k)
                   [] OTHER -> SetGep(p, k + 1, To(t, o))
  IN IF \A i \in DOMAIN src.idxs : IsZero(src.idxs[i]) THEN RemoveGep(p, k)
     ELSE Cast(ExtractOffsetFromGEP(gep))

RunOnImplicitCasts(p) == ForEach(CastGep, p, At(p, {k \in Casts(p) : IsCastOfGep(p, k)}))

------------------------------------------------------------------------------
(* runOnAllocaNotAliasing: a variable gets the type it is used at. *)
RunOnAllocaNotAliasing(p) ==
  LET source == Innermost(ReworkUnsizedType(p.root.ty))
      t      == ResultType(p.geps[1])
  IN IF /\ p.root.kind = "alloca" /\ p.geps # <<>> /\ 0 \in Casts(p)
        /\ ~FindAliasingContainedType(source, t).found
        /\ AllocSize(t) < AllocSize(source)
     THEN [p EXCEPT !.root.ty = ArrayOf(t, AllocSize(@) \div AllocSize(t))]
     ELSE p

------------------------------------------------------------------------------
(* runOnGEPFromGEP: two geps, the second of what the first leads to, are one. *)
EnclosingType(gep) == Indexed(gep.ty, Front(gep.idxs))
IsOutOfStruct(other, gep) ==
  LET t == EnclosingType(other)
      i == gep.idxs[1]
  IN IsStruct(t) /\ IF IsArrayLike(t) THEN ~i.cst \/ i.val >= t.num ELSE ~IsZero(i)

IsGepOfGep(p, k) ==
  /\ k > 0 /\ IsGepAt(p, k) /\ ResultType(p.geps[k]) = p.geps[k + 1].ty
  /\ IsOutOfStruct(p.geps[k], p.geps[k + 1]) => IsConstant(p.geps[k]) /\ IsConstant(p.geps[k + 1])

(* FoldConstantGEPIntoEnclosingStruct: the innermost structure that holds the
   access is indexed anew, if there is one. *)
NoStruct == [holds |-> FALSE, idxs |-> <<>>]
RECURSIVE FoldIntoStruct(_, _, _, _, _)
FoldIntoStruct(other, gep, idxs, o, pointer) ==
  LET rest == Front(idxs)
      t    == Indexed(other.ty, rest)
      Into(new) == [holds |-> TRUE, idxs |-> IF new = <<>> THEN <<>> ELSE rest \o Tail(new)]
      From(in)  == IF in.cst * in.unit + StoreSize(ResultType(gep)) <= AllocSize(t)
                   THEN Into(GetIdxsForTyFromOffset(t, ResultType(gep), in, pointer))
                   ELSE FoldIntoStruct(other, gep, rest, in, pointer)
  IN IF Len(idxs) <= 1 \/ ~Last(idxs).cst \/ ~IsStruct(t) THEN NoStruct
     ELSE From(ExtractOffsetFromStruct(o, t, Last(idxs).val))
FoldConstantGEPIntoEnclosingStruct(other, gep, pointer) ==
  IF Len(other.idxs) <= 1 \/ ~IsConstant(gep) \/ IsArray(gep.ty) \/ IsStruct(gep.ty) THEN NoStruct
  ELSE FoldIntoStruct(other, gep, other.idxs, ExtractOffsetFromGEP(gep), pointer)

(* Two constant geps of private or local memory: one from the object. *)
SumOf(a, b, unit) == [cst |-> (a.cst * a.unit + b.cst * b.unit) \div unit, dyn |-> None, unit |-> unit]
ConstantSum(p, k) ==
  LET src == PointerType(p, k - 1)
      res == ResultType(p.geps[k + 1])
      To(t, o) == Gep(t, GetIdxsForTyFromOffset(t, res, o, PointerKind(p, k - 1)))
      From(o)  == To(IF GoThroughTypeAtOffset(src, res, o.cst * o.unit, <<>>).offset = 0 THEN src ELSE p.geps[k].ty, o)
      Sum(a, b) == SumOf(a, b, Gcd(a.unit, b.unit))
  IN From(Sum(ExtractOffsetFromGEP(p.geps[k]), ExtractOffsetFromGEP(p.geps[k + 1])))

(* How many elements the last index of the first gep counts through; 0 if they
   are not known, Many if none are counted. *)
Many == 2 ^ 20
VecOrArraySize(other) ==
  LET n == NumEle(EnclosingType(other))
  IN IF Len(other.idxs) = 1 THEN NumEle(other.ty) ELSE IF n = 1 THEN Many ELSE n

(* The first gep goes through a structure, after any type without a size. *)
CrossesStruct(other) ==
  \E i \in 2 .. Len(other.idxs) :
    /\ IsStruct(Indexed(other.ty, SubSeq(other.idxs, 1, i - 1)))
    /\ \A j \in i .. Len(other.idxs) : AllocSize(Indexed(other.ty, SubSeq(other.idxs, 1, j))) # 0

SumOfIndices(other, gep, pointer) ==
  LET a == Last(other.idxs)
      b == gep.idxs[1]
      Plus(o) == IF b.cst THEN [o EXCEPT !.cst = @ + b.val] ELSE [o EXCEPT !.dyn = AddDyn(@, b)]
  IN IF \/ a.cst /\ b.cst /\ a.val + b.val < VecOrArraySize(other)
        \/ IsZero(b) \/ VecOrArraySize(other) = 0 \/ CrossesStruct(other)
     THEN Append(Front(other.idxs), Add(a, b))
     ELSE GetIdxsForTyFromOffset(other.ty, ResultType(other), Plus(ExtractOffsetFromGEP(other)), pointer)

MergeGeps(p, d) ==
  LET k     == UsedAt(p, d)
      other == p.geps[k]
      gep   == p.geps[k + 1]
      With(idxs) == Gep(other.ty, IF idxs = <<>> THEN <<>> ELSE idxs \o Tail(gep.idxs))
      New(folded) ==
        CASE folded.holds -> Gep(other.ty, folded.idxs)
          [] ~folded.holds /\ IsConstant(gep) /\ IsConstant(other)
             /\ p.root.space \in {"private", "local"} -> ConstantSum(p, k)
          [] OTHER -> With(SumOfIndices(other, gep, PointerKind(p, k - 1)))
  IN RemoveGep(SetGep(p, k + 1, New(FoldConstantGEPIntoEnclosingStruct(other, gep, PointerKind(p, k - 1)))), k)

RunOnGEPFromGEP(p) == ForEach(MergeGeps, p, At(p, {k \in 0 .. Len(p.geps) : IsGepOfGep(p, k)}))

------------------------------------------------------------------------------
(* runOnGEPToVector: an element of a private vector is a lane of the vector. *)
RunOnGEPToVector(p) ==
  LET n   == Len(p.geps)
      gep == p.geps[n]
      t   == EnclosingType(gep)
      i   == Last(gep.idxs)
  IN IF /\ n > 0 /\ p.root.space = "private" /\ Len(gep.idxs) > 1
        /\ IsVector(t) /\ t.num <= 4 /\ (i.cst => i.val < t.num)
        /\ p.acc.ty = EleType(t) /\ p.acc.lane = NoLane
     THEN [p EXCEPT !.acc = [op |-> IF p.acc.op = "load" THEN "load" ELSE "store", ty |-> t, lane |-> i],
                    !.geps = IF gep.ty = t /\ Front(gep.idxs) = <<Cst(0)>> THEN Front(@) ELSE [@ EXCEPT ![n].idxs = Front(@)]]
     ELSE p

------------------------------------------------------------------------------
VARIABLES
  original,   \* the program as it was
  prog,       \* as it is now
  stage, pass,\* where the compiler is, and at which simplification
  changed,    \* this round of simplifications changed something
  effect      \* of the access, once it is replaced
vars == <<original, prog, stage, pass, changed, effect>>

(* The functions of SimplifyPointerBitcastPass::run in their order. *)
Simplifications == <<"ImplicitGEP", "UpgradeableConstantCasts", "UnneededIndices", "ImplicitCasts",
                     "AllocaNotAliasing", "GEPFromGEP", "GEPToVector">>
Simplify(name, p) ==
  CASE name = "ImplicitGEP"              -> RunOnImplicitGEP(p)
    [] name = "UpgradeableConstantCasts" -> RunOnUpgradeableConstantCasts(p)
    [] name = "UnneededIndices"          -> RunOnUnneededIndices(p)
    [] name = "ImplicitCasts"            -> RunOnImplicitCasts(p)
    [] name = "AllocaNotAliasing"        -> RunOnAllocaNotAliasing(p)
    [] name = "GEPFromGEP"               -> RunOnGEPFromGEP(p)
    [] name = "GEPToVector"              -> RunOnGEPToVector(p)

Start(p) ==
  /\ original = p /\ prog = p
  /\ stage = "simplify" /\ pass = 1 /\ changed = FALSE /\ effect = NoEffect

(* runOnUpgradeableConstantCasts is repeated before the next one runs. *)
RunSimplification ==
  /\ stage = "simplify" /\ pass \in DOMAIN Simplifications
  /\ prog' = Simplify(Simplifications[pass], prog)
  /\ changed' = (changed \/ prog' # prog)
  /\ pass' = IF Simplifications[pass] = "UpgradeableConstantCasts" /\ prog' # prog THEN pass ELSE pass + 1
  /\ stage' = IF IsBroken(prog') THEN "gave_up" ELSE stage
  /\ UNCHANGED <<original, effect>>

(* Until a round changes nothing. *)
AtRoundEnd == stage = "simplify" /\ pass = Len(Simplifications) + 1
RoundEnds ==
  /\ AtRoundEnd
  /\ pass' = 1
  /\ changed' = FALSE
  /\ stage' = IF changed THEN stage ELSE "downgrade"
  /\ UNCHANGED <<original, prog, effect>>

DowngradeModule ==
  /\ stage = "downgrade"
  /\ prog' = DowngradeFirst(prog)
  /\ stage' = CASE IsBroken(prog') -> "gave_up" [] prog' = prog -> "replace" [] OTHER -> stage
  /\ UNCHANGED <<original, pass, changed, effect>>

ReplaceAccess ==
  /\ stage = "replace"
  /\ effect' = IF IsReplaced(prog) THEN ReplacedAccess(prog) ELSE NoEffect
  /\ stage' = CASE effect'.done -> "done"
                [] IsReplaced(prog) /\ ~effect'.done -> "gave_up"
                [] OTHER -> IF Casts(prog) = {} THEN "done" ELSE "left"
  /\ UNCHANGED <<original, prog, pass, changed>>

Next == RunSimplification \/ RoundEnds \/ DowngradeModule \/ ReplaceAccess

Ended == stage \in {"done", "gave_up", "left"}

(* Weak fairness: the compiler does not stop between two steps.  The steps that
   rewrite the access can be taken whenever it is their turn; that is written out
   for them, as TLC takes long to evaluate ENABLED. *)
Rewriting == ~Ended /\ ~AtRoundEnd
Fairness == WF_vars(RoundEnds) /\ ([]<>~Rewriting \/ []<><<TRUE>>_vars)
------------------------------------------------------------------------------
(* Before it is replaced, the access reaches the bytes it reached at first;
   then a load returns those bytes in their order, and a store writes each of
   its bytes there and nothing else. *)
AccessReachesItsBytes ==
  /\ ~IsBroken(prog) => Places(prog) = Places(original)
  /\ effect.done =>
       CASE original.acc.op = "load"  -> effect.bytes = Places(original)
         [] original.acc.op = "store" -> effect.bytes = {<<Places(original)[i], i>> : i \in DOMAIN Places(original)}
         [] OTHER -> {b[1] : b \in effect.bytes} = {Places(original)[i] : i \in DOMAIN Places(original)}

(* "Loop over our simplification passes until they stop changing things." *)
LoweringEnds == <>Ended
==============================================================================

---------------------- MODULE ThreeElementVectorLowering ----------------------
(* ThreeElementVectorLoweringPass: vectors of three become vectors of four, of
   which the last element is nothing anyone reads. Registers as in
   LongVectorLowering, without the address. *)
LOCAL INSTANCE LLVMTypes

Either(e, t) == IF e = NoType THEN t ELSE e
EquivalentArray(n, e) == IF e = NoType THEN NoType ELSE ArrayTy(n, e)
EquivalentStruct(t, es) ==
  IF \A i \in 1 .. t.num : es[i] = NoType THEN NoType ELSE StructTy([i \in 1 .. t.num |-> Either(es[i], t.ele[i])])

RECURSIVE EquivalentType(_)
EquivalentType(t) ==
  CASE IsVector(t) -> IF t.num % 3 = 0 THEN VectorTy((t.num \div 3) * 4, t.ele[1]) ELSE NoType
    [] IsArray(t)  -> EquivalentArray(t.num, EquivalentType(t.ele[1]))
    [] t.kind = "struct" -> EquivalentStruct(t, [i \in 1 .. t.num |-> EquivalentType(t.ele[i])])
    [] OTHER -> NoType

OrSelf(t) == Either(EquivalentType(t), t)

(* A shuffle that drops elements or adds poison. *)
Resized(v, n) == [i \in 1 .. n |-> IF i <= Len(v) THEN v[i] ELSE Poison]

RECURSIVE ConvertEquivalentValue(_, _, _)
ConvertEquivalentValue(v, t, eq) ==
  IF t = eq THEN v
  ELSE IF IsStruct(eq) THEN [i \in 1 .. eq.num |-> ConvertEquivalentValue(v[i], t.ele[i], eq.ele[i])]
  ELSE Resized(v, eq.num)

(* The element added to a constant repeats the first, so that nothing is divided
   by what is not there. *)
WidenConstant_Poison(v) == Append(v, Poison)
WidenConstant(v) == Append(v, v[1])

RECURSIVE VisitConstant(_, _)
VisitConstant(t, v) ==
  IF EquivalentType(t) = NoType THEN v
  ELSE IF IsVector(t) THEN WidenConstant(v)
  ELSE [i \in 1 .. t.num |-> VisitConstant(MemberType(t, i), v[i])]

(* The variables of the SPIR-V environment keep their type, and so does what is
   loaded from them. *)
IsSpirvGlobalVariable(at) == at.object = "spirv"
LoweredAddress(at) ==
  IF IsSpirvGlobalVariable(at) THEN at ELSE [at EXCEPT !.src = OrSelf(@)]

HandlingRequired(ty, operands) == \E t \in {ty} \cup operands : EquivalentType(t) # NoType

------------------------------------------------------------------------------
(* The visitors, as in LongVectorLowering. *)
Result(ty, val, mem) == [reg |-> [ty |-> ty, val |-> val], mem |-> mem]
Values(a) == [j \in DOMAIN a |-> a[j].val]

(* The instruction itself, between vectors of four. The code stops if one of
   them was kept. *)
VisitNAryOperator(fn, a, mem) == Result(a[1].ty, Lanes(fn, Values(a)), mem)
VisitDivision(a, mem) == Result(a[1].ty, Quotients(a[1].val, a[2].val), mem)
AreAlike(a) == \A j, k \in DOMAIN a : IsVector(a[j].ty) /\ IsVector(a[k].ty) => a[j].ty.num = a[k].ty.num

VisitSelect(ty, a, mem) ==
  Result(a[2].ty, IF ~IsVector(a[1].ty)
                  THEN CASE a[1].val = Poison -> Splat(a[2].ty, Poison)
                         [] a[1].val = 0 -> a[3].val
                         [] OTHER -> a[2].val
                  ELSE Lanes("select", Values(a)), mem)

VisitExtractElement(a, index, mem) == Result(I8, a[1].val[index + 1], mem)
VisitInsertElement(a, index, mem) == Result(a[1].ty, Inserted(a[1].val, <<index>>, a[2].val), mem)
VisitExtractValue(ty, a, idxs, mem) == Result(OrSelf(ty), Extracted(a[1].val, idxs), mem)
VisitInsertValue(t, a, idxs, mem) == Result(OrSelf(t), Inserted(a[1].val, idxs, a[2].val), mem)

VisitLoad(ty, at, mem) ==
  LET t == IF IsSpirvGlobalVariable(at) THEN ty ELSE OrSelf(ty)
  IN Result(t, LoadFrom(mem, LoweredAddress(at), t), mem)
VisitStore(ty, at, a, mem) == StoreTo(mem, LoweredAddress(at), a[1].ty, a[1].val)

\* lhs is the type the first operand had.
VisitShuffleVector(ty, lhs, a, mask, mem) ==
  Result(OrSelf(ty), Resized([i \in DOMAIN mask |->
    IF mask[i] = -1 THEN Poison ELSE IF mask[i] < lhs.num THEN a[1].val[mask[i] + 1]
    ELSE a[2].val[mask[i] - lhs.num + 1]], OrSelf(ty).num), mem)

(* Builtins that work lane by lane are called with four lanes, the others with
   three; OpAny and OpAll are among the others. *)
IsBuiltinSIMD_Any(fn) == fn \in {"mad", "fract", "any"}
IsBuiltinSIMD(fn) == fn \in {"mad", "fract"}

Called(fn, vs) ==
  CASE fn = "any"  -> SomeLane(vs[1])
    [] fn = "all"  -> AllLanes(vs[1])
    [] fn = "cross" -> Cross(vs[1], vs[2])
    [] fn = "fract" -> Lanes("neg", vs)
    [] fn = "mad"   -> Lanes("sub", vs)

ConvertSIMDBuiltinCall(fn, ty, a, at, mem) ==
  Result(OrSelf(ty), Called(fn, Values(a)),
         IF fn = "fract" THEN StoreTo(mem, LoweredAddress(at), OrSelf(ty), a[1].val) ELSE mem)

ConvertBuiltinCall(fn, ty, a, mem) ==
  LET returned == Called(fn, [j \in DOMAIN a |-> IF IsVector(a[j].ty) THEN Resized(a[j].val, 3) ELSE a[j].val])
  IN Result(OrSelf(ty), IF IsVector(ty) THEN Resized(returned, 4) ELSE returned, mem)

VisitBuiltinCall(fn, ty, a, at, mem) ==
  IF IsBuiltinSIMD(fn) THEN ConvertSIMDBuiltinCall(fn, ty, a, at, mem)
  ELSE ConvertBuiltinCall(fn, ty, a, mem)

Wrapped(ty, eq, v, n) == ConvertEquivalentValue(UserFunction(ConvertEquivalentValue(v, eq, ty), n), ty, eq)
VisitUserCall(ty, a, mem) ==
  Result(EquivalentType(ty), Wrapped(ty, EquivalentType(ty), a[1].val, a[2].val), mem)
==============================================================================

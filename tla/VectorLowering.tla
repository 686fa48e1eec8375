---------------------------- MODULE VectorLowering ----------------------------
(* A function as LongVectorLoweringPass and ThreeElementVectorLoweringPass meet
   it, one instruction after the other: what the instruction computes, and what
   the code put in its place computes. At the end of the function the operands of
   the new phis are filled in, and what was replaced is removed. *)
EXTENDS LLVMTypes

CONSTANTS
  MaxInstructions,  \* after the arguments and constants
  StaleLoads        \* TRUE: a variable index may come after its memory changed

Long == INSTANCE LongVectorLowering
Three == INSTANCE ThreeElementVectorLowering

VARIABLES
  pass,      \* "long" or "three"
  family,    \* the instructions of this function
  regs,      \* the function's registers: type, value, operands, replaced
  low,       \* for each, the register that replaces it
  mem,       \* what the function makes of memory
  lowmem,    \* what the lowered function makes of it
  left,      \* replaced registers not removed yet
  phase      \* "visit", "clean", "end"
vars == <<pass, family, regs, low, mem, lowmem, left, phase>>

IsLong == pass = "long"
Vec == VectorTy(IF IsLong THEN 8 ELSE 3, I8)
Short == VectorTy(4, I8)
Agg == StructTy(<<I8, Vec, I8>>)
PackedAgg == PackedTy(<<I8, Vec>>)
Equivalent(t) == IF IsLong THEN Long!OrSelf(t) ELSE Three!OrSelf(t)
Constant(t, v) == IF IsLong THEN Long!VisitConstant(t, v) ELSE Three!VisitConstant(t, v)
Argument(t, v) == IF IsLong THEN Long!ConvertEquivalentValue(v, t, Equivalent(t))
                  ELSE Three!ConvertEquivalentValue(v, t, Equivalent(t))
Handled(ty, args) ==
  LET types == {regs[a].ty : a \in args}
  IN IF IsLong THEN Long!HandlingRequired(ty, types) ELSE Three!HandlingRequired(ty, types)

(* Arguments and constants. *)
Reg(t, v) == [ty |-> t, val |-> v, args |-> {}, replaced |-> FALSE, phi |-> FALSE]
LowReg(t, v) == [ty |-> Equivalent(t), val |-> v, from |-> Long!Nowhere]
VecValue == [i \in 1 .. Vec.num |-> i]
VecConstant == [i \in 1 .. Vec.num |-> 2 + (i % 2)]
AggValue == <<9, [i \in 1 .. Vec.num |-> 15 - i], 8>>
Given == << <<Vec, VecValue>>, <<Vec, VecConstant>>, <<I8, 1>>, <<Short, <<9, 1, 0, 7>> >>, <<Agg, AggValue>> >>
ConstantReg == 2
LaneReg == 3  \* a number that is also a variable index

ObjectType(o) ==
  CASE o \in {"private", "constant"} -> ArrayTy(2, Vec)
    [] o = "global"  -> ArrayTy(2, Agg)
    [] o = "packed"  -> PackedAgg
    [] o = "spirv"   -> Vec
    [] OTHER         -> Vec
Objects == {"private", "constant", "global", "packed", "spirv"}
Copies == <<"copy1", "copy2", "copy3", "copy4">>
LoweredObject(o) == IF o = "spirv" THEN Vec ELSE Equivalent(ObjectType(o))

(* What memory holds at the start: data where there are data; in the constant, its
   initializer (runOnGlobals). *)
InitialByte(t, b) == IF b \in Range(DataPlaces(t)) THEN (5 * b) % 16 ELSE Poison
Initializer == <<[i \in 1 .. Vec.num |-> i + 2], [i \in 1 .. Vec.num |-> 12 - i]>>
Initialized(t, v) == Stored(t, v, [b \in 0 .. AllocSize(t) - 1 |-> Poison], 0)

InitMem ==
  /\ mem = [o \in Objects |->
             IF o = "constant" THEN Initialized(ObjectType(o), Initializer)
             ELSE [b \in 0 .. AllocSize(ObjectType(o)) - 1 |-> InitialByte(ObjectType(o), b)]]
  /\ lowmem = [o \in Objects \cup Range(Copies) |->
                IF o = "constant" THEN Initialized(LoweredObject(o), Constant(ObjectType(o), Initializer))
                ELSE [b \in 0 .. AllocSize(LoweredObject(o)) - 1 |->
                       IF o \in Objects THEN InitialByte(ObjectType(o), b) ELSE Poison]]

Start(p, f) ==
  /\ pass = p /\ family = f
  /\ regs = [i \in DOMAIN Given |-> Reg(Given[i][1], Given[i][2])]
  /\ low = [i \in DOMAIN Given |->
             LowReg(Given[i][1], IF i = ConstantReg THEN Constant(Given[i][1], Given[i][2])
                                 ELSE Argument(Given[i][1], Given[i][2]))]
  /\ InitMem
  /\ left = {} /\ phase = "visit"

------------------------------------------------------------------------------
(* Each visitor: an instruction of type ty that computes v from the registers a,
   and what replaces it. *)
OfType(t) == {i \in DOMAIN regs : regs[i].ty = t}
Room == phase = "visit" /\ Len(regs) < Len(Given) + MaxInstructions
Lowers(a) == [j \in DOMAIN a |-> low[a[j]]]
WithFrom(r) == [ty |-> r.ty, val |-> r.val, from |-> IF IsLong THEN r.from ELSE Long!Nowhere]

Emit(ty, v, a, result) ==
  /\ regs' = Append(regs, [ty |-> ty, val |-> v, args |-> Range(a), replaced |-> TRUE, phi |-> FALSE])
  /\ low' = Append(low, WithFrom(result.reg))
  /\ lowmem' = result.mem
  /\ UNCHANGED <<pass, family, left, phase>>

(* An instruction on numbers only: what uses of replaced numbers became. *)
EmitSame(ty, v, a, w) ==
  /\ regs' = Append(regs, [ty |-> ty, val |-> v, args |-> Range(a), replaced |-> FALSE, phi |-> FALSE])
  /\ low' = Append(low, [ty |-> ty, val |-> w, from |-> Long!Nowhere])
  /\ UNCHANGED <<pass, family, left, phase, mem, lowmem>>

IsWidened(x) == low[x].ty = Equivalent(regs[x].ty)
Vals(a) == [j \in DOMAIN a |-> regs[a[j]].val]
LowVals(a) == [j \in DOMAIN a |-> low[a[j]].val]

VisitBinaryOperator ==
  \E t \in {Vec, I8} : \E x, y \in OfType(t), fn \in {"sub", "slt"} :
    LET a == <<x, y>>
        v == IF t = I8 THEN Scalar(fn, Vals(a)) ELSE Lanes(fn, Vals(a))
    IN IF t = I8 THEN EmitSame(t, v, a, Scalar(fn, LowVals(a)))
       ELSE /\ IsLong \/ Three!AreAlike(Lowers(a))
            /\ Emit(t, v, a, IF IsLong THEN Long!VisitNAryOperator(fn, t, Lowers(a), lowmem)
                             ELSE Three!VisitNAryOperator(fn, Lowers(a), lowmem))
            /\ UNCHANGED mem

VisitUnaryOperator ==
  \E x \in OfType(Vec) :
    /\ Emit(Vec, Lanes("neg", Vals(<<x>>)), <<x>>,
            IF IsLong THEN Long!VisitNAryOperator("neg", Vec, Lowers(<<x>>), lowmem)
            ELSE Three!VisitNAryOperator("neg", Lowers(<<x>>), lowmem))
    /\ UNCHANGED mem

(* By a constant, which is known not to be 0. *)
VisitDivision ==
  \E x \in OfType(Vec) :
    LET a == <<x, ConstantReg>>
    IN /\ IsLong \/ Three!AreAlike(Lowers(a))
       /\ Emit(Vec, Quotients(regs[x].val, regs[ConstantReg].val), a,
               IF IsLong THEN Long!VisitNAryOperator("div", Vec, Lowers(a), lowmem)
               ELSE Three!VisitDivision(Lowers(a), lowmem))
       /\ UNCHANGED mem

VisitSelectInst ==
  \E c \in OfType(I8) \cup OfType(Vec), x, y \in OfType(Vec) :
    LET a == <<c, x, y>>
        v == IF regs[c].ty = Vec THEN Lanes("select", Vals(a))
             ELSE IF regs[c].val = Poison THEN Splat(Vec, Poison)
             ELSE IF regs[c].val # 0 THEN regs[x].val ELSE regs[y].val
    IN /\ x # y
       /\ IsLong \/ Three!AreAlike(Lowers(a))
       /\ Emit(Vec, v, a, IF IsLong THEN Long!VisitSelect(Vec, Lowers(a), lowmem)
                          ELSE Three!VisitSelect(Vec, Lowers(a), lowmem))
       /\ UNCHANGED mem

(* A load that a variable index is applied to still finds what it found. *)
IsFresh(r) ==
  IF low[r].from = Long!Nowhere THEN TRUE ELSE LoadFrom(lowmem, low[r].from, low[r].ty) = low[r].val
MayIndex(r) == StaleLoads \/ IsFresh(r)

Index == regs[LaneReg].val
VisitExtractElementInst ==
  \E x \in OfType(Vec), dyn \in BOOLEAN, k \in {0, Vec.num - 1} :
    LET a == IF dyn THEN <<x, LaneReg>> ELSE <<x>>
        index == IF dyn THEN Index ELSE k
    IN /\ dyn => k = 0 /\ MayIndex(x)
       /\ Emit(I8, regs[x].val[index + 1], a,
               IF IsLong THEN Long!VisitExtractElement(Lowers(a), index, dyn, lowmem)
               ELSE Three!VisitExtractElement(Lowers(a), index, lowmem))
       /\ UNCHANGED mem

VisitInsertElementInst ==
  \E x \in OfType(Vec), n \in OfType(I8), dyn \in (IF IsLong THEN BOOLEAN ELSE {FALSE}), k \in {0, Vec.num - 1} :
    LET a == IF dyn THEN <<x, n, LaneReg>> ELSE <<x, n>>
        index == IF dyn THEN Index ELSE k
    IN /\ dyn => k = 0 /\ MayIndex(x) /\ (StaleLoads \/ low[x].from.object # "private")
       /\ Emit(Vec, Inserted(regs[x].val, <<index>>, regs[n].val), a,
               IF IsLong THEN Long!VisitInsertElement(Lowers(a), index, dyn, Copies[Len(regs) - Len(Given) + 1], lowmem)
               ELSE Three!VisitInsertElement(Lowers(a), index, lowmem))
       /\ UNCHANGED mem

VisitExtractValueInst ==
  \E x \in OfType(Agg), idxs \in {<<0>>, <<1>>, <<2>>} :
    LET ty == MemberType(Agg, idxs[1] + 1)
    IN /\ Emit(ty, Extracted(regs[x].val, idxs), <<x>>,
               IF IsLong THEN Long!VisitExtractValue(Agg, ty, Lowers(<<x>>), idxs, lowmem)
               ELSE Three!VisitExtractValue(ty, Lowers(<<x>>), idxs, lowmem))
       /\ UNCHANGED mem

VisitInsertValueInst ==
  \E x \in OfType(Agg), i \in 0 .. 2 :
    \E y \in OfType(MemberType(Agg, i + 1)) :
      LET a == <<x, y>>
      IN /\ IsWidened(y)
         /\ Emit(Agg, Inserted(regs[x].val, <<i>>, regs[y].val), a,
                 IF IsLong THEN Long!VisitInsertValue(Agg, Lowers(a), <<i>>, lowmem)
                 ELSE Three!VisitInsertValue(Agg, Lowers(a), <<i>>, lowmem))
         /\ UNCHANGED mem

(* The second operand of another shape than the result, in both directions. *)
Masks(n, m) ==
  {[i \in 1 .. m |-> IF i % 4 = 0 THEN -1 ELSE (3 * i) % n],
   [i \in 1 .. m |-> (n - 1) + (i % (n + 1))]}
VisitShuffleVectorInst ==
  \E from, to \in {Vec, Short} : \E x, y \in OfType(from), mask \in Masks(from.num, to.num) :
    LET a == <<x, y>>
    IN /\ Vec \in {from, to}
       /\ Emit(to, Shuffled(regs[x].val, regs[y].val, mask), a,
               IF IsLong THEN Long!VisitShuffleVector(to, from, Lowers(a), mask, lowmem)
               ELSE Three!VisitShuffleVector(to, from, Lowers(a), mask, lowmem))
       /\ UNCHANGED mem

------------------------------------------------------------------------------
Gep(o, t, idxs) == [object |-> o, src |-> t, idxs |-> idxs]
Addresses ==
  {<<Vec, Gep("private", Vec, <<Cst(i)>>)>> : i \in 0 .. 1}
    \cup {<<Vec, Gep("constant", ArrayTy(2, Vec), <<Cst(0), Cst(1)>>)>>,
          <<Vec, Gep("private", ArrayTy(2, Vec), <<Cst(0), Dyn(1, 1)>>)>>,
          <<I8, Gep("private", ArrayTy(2, Vec), <<Cst(0), Cst(0), Dyn(1, 1)>>)>>,
          <<Vec, Gep("packed", PackedAgg, <<Cst(0), Cst(1)>>)>>}
    \cup {<<MemberType(Agg, i + 1), Gep("global", Agg, <<Cst(1), Cst(i)>>)>> : i \in 0 .. 2}
    \cup {<<Agg, Gep("global", Agg, <<Cst(0)>>)>>}
SpirvAddress == <<Vec, Gep("spirv", Vec, <<Cst(0)>>)>>

VisitLoadInst ==
  \E x \in Addresses \cup (IF IsLong THEN {} ELSE {SpirvAddress}) :
    LET v == LoadFrom(mem, x[2], x[1])
    IN /\ IF Handled(x[1], {})
          THEN Emit(x[1], v, <<>>, IF IsLong THEN Long!VisitLoad(x[1], x[2], lowmem)
                                   ELSE Three!VisitLoad(x[1], x[2], lowmem)) /\ UNCHANGED mem
          ELSE EmitSame(x[1], v, <<>>,
                        LoadFrom(lowmem, IF IsLong THEN Long!LoweredAddress(x[2]) ELSE Three!LoweredAddress(x[2]), x[1]))

VisitStoreInst ==
  \E x \in Addresses : \E y \in OfType(x[1]) :
    /\ IsWidened(y)
    /\ mem' = StoreTo(mem, x[2], x[1], regs[y].val)
    /\ lowmem' = IF IsLong THEN Long!VisitStore(x[1], x[2], Lowers(<<y>>), lowmem)
                 ELSE Three!VisitStore(x[1], x[2], Lowers(<<y>>), lowmem)
    /\ regs' = Append(regs, [Reg(NoType, 0) EXCEPT !.args = {y}, !.replaced = Handled(x[1], {})])
    /\ low' = Append(low, [ty |-> NoType, val |-> 0, from |-> Long!Nowhere])
    /\ UNCHANGED <<pass, family, left, phase>>

(* Calls: of builtins, one of which writes through a pointer, and of a function of
   the program. *)
BuiltinCalls ==
  LET vecs == OfType(Vec)
      Call(fn, a) == [fn |-> fn, args |-> a, at |-> Long!Nowhere]
  IN {Call(fn, <<x, y>>) : fn \in {"mad"} \cup (IF IsLong THEN {} ELSE {"cross"}), x, y \in vecs}
     \cup {Call(fn, <<x>>) : fn \in {"any", "all"}, x \in vecs}
     \cup {[Call("fract", <<x>>) EXCEPT !.at = c[2]] : x \in vecs, c \in {b \in Addresses : b[1] = Vec}}
     \cup {Call("shuffle2", <<x, y, m>>) :
             x \in (IF IsLong THEN vecs ELSE {}), y \in vecs, m \in {i \in vecs : Poison \notin Range(regs[i].val)}}

Returned(fn, v) ==
  CASE fn = "mad"      -> Lanes("sub", v)
    [] fn = "cross"    -> Cross(v[1], v[2])
    [] fn = "shuffle2" -> Shuffle2(v[1], v[2], v[3])
    [] fn = "any"      -> SomeLane(v[1])
    [] fn = "all"      -> AllLanes(v[1])
    [] fn = "fract"    -> Lanes("neg", v)

VisitCallInst ==
  \E c \in BuiltinCalls :
    LET ty == IF c.fn \in {"any", "all"} THEN I8 ELSE Vec
    IN /\ c.fn = "shuffle2" => c.args[1] # c.args[2]
       /\ ~IsLong /\ Three!IsBuiltinSIMD(c.fn) => \A x \in Range(c.args) : IsWidened(x)
       /\ Emit(ty, Returned(c.fn, Vals(c.args)), c.args,
               IF IsLong THEN Long!VisitBuiltinCall(c.fn, ty, Lowers(c.args), c.at, lowmem)
               ELSE Three!VisitBuiltinCall(c.fn, ty, Lowers(c.args), c.at, lowmem))
       /\ mem' = IF c.fn = "fract" THEN StoreTo(mem, c.at, Vec, regs[c.args[1]].val) ELSE mem

VisitUserCallInst ==
  \E x \in OfType(Agg), n \in OfType(I8) :
    /\ Emit(Agg, UserFunction(regs[x].val, regs[n].val), <<x, n>>,
            IF IsLong THEN Long!VisitUserCall(Agg, Lowers(<<x, n>>), lowmem)
            ELSE Three!VisitUserCall(Agg, Lowers(<<x, n>>), lowmem))
    /\ UNCHANGED mem

(* A phi whose first operand is taken; the other one is a later register, found
   when the function has been read. *)
VisitPHINode ==
  \E x \in OfType(Vec) :
    /\ IsWidened(x)
    /\ regs' = Append(regs, [Reg(Vec, regs[x].val) EXCEPT !.args = {x}, !.replaced = TRUE, !.phi = TRUE])
    /\ low' = Append(low, [low[x] EXCEPT !.from = Long!Nowhere])
    /\ UNCHANGED <<pass, family, left, phase, mem, lowmem>>

Visit ==
  /\ Room
  /\ \/ "lanes" \in family /\ (VisitBinaryOperator \/ VisitUnaryOperator \/ VisitDivision \/ VisitSelectInst)
     \/ "elements" \in family /\ (VisitExtractElementInst \/ VisitInsertElementInst)
     \/ "members" \in family /\ (VisitExtractValueInst \/ VisitInsertValueInst)
     \/ "shuffles" \in family /\ VisitShuffleVectorInst
     \/ "memory" \in family /\ (VisitLoadInst \/ VisitStoreInst)
     \/ "calls" \in family /\ (VisitCallInst \/ VisitUserCallInst)
     \/ "phis" \in family /\ VisitPHINode

------------------------------------------------------------------------------
(* The function has been read. The operands of a phi move to the one in its
   place, and nothing uses a number that was replaced by a number. What other
   registers use is still used. *)
Operands_OfPhisToo(r, later) == r.args \cup later
Operands(r, later) == IF r.phi THEN {} ELSE r.args \cup later

Renamed(i) == regs[i].replaced /\ low[i].ty = regs[i].ty

FillPhis ==
  LET phis == {i \in DOMAIN regs : regs[i].phi}
  IN /\ phase = "visit" /\ Len(regs) = Len(Given) + MaxInstructions
     /\ \E back \in [phis -> OfType(Vec)] :
          regs' = [j \in DOMAIN regs |->
                    [regs[j] EXCEPT !.args = {i \in Operands(regs[j], IF j \in phis THEN {back[j]} ELSE {}) : ~Renamed(i)}]]
     /\ left' = {i \in DOMAIN regs : regs[i].replaced}
     /\ phase' = "clean"
     /\ UNCHANGED <<pass, family, low, mem, lowmem>>

(* Rounds that remove what has no use, until one makes no progress. *)
Used(i) == \E j \in DOMAIN regs : i \in regs[j].args /\ (regs[j].replaced => j \in left)
CleanDeadInstructions ==
  LET alive == {i \in left : Used(i)}
  IN /\ phase = "clean"
     /\ left' = alive
     /\ phase' = IF alive = left THEN "end" ELSE "clean"
     /\ UNCHANGED <<pass, family, regs, low, mem, lowmem>>

Next == Visit \/ FillPhis \/ CleanDeadInstructions

------------------------------------------------------------------------------
(* Every register is replaced by one with the same lanes and members, at the
   offsets they had; memory holds the same data. The code that two passes put in
   the place of vector instructions, with padding, parts, copies and lanes that
   nobody may read, is equivalent to the instructions. *)
AreSame(read, found) == \A leaf \in read : leaf[2] = Poison \/ leaf \in found
HoldsTheSame(bytes, lowbytes) ==
  \A b \in DOMAIN bytes : bytes[b] = Poison \/ (b \in DOMAIN lowbytes /\ lowbytes[b] = bytes[b])

LoweredComputesTheSame ==
  /\ \A i \in DOMAIN regs :
       i > Len(Given) \/ Len(regs) = Len(Given)  \* those do not change
         => AreSame(Leaves(regs[i].ty, regs[i].val), Leaves(low[i].ty, low[i].val))
  /\ \A o \in Objects : HoldsTheSame(mem[o], lowmem[o])

(* The pass stops unless all it replaced could be removed, phis that use each
   other around a loop included. *)
ReplacedIsRemoved == phase = "end" => left = {}
==============================================================================

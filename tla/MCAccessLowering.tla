--------------------------- MODULE MCAccessLowering ---------------------------
(* One of two things happens: an access through pointers of other types is
   lowered, or a function with vectors SPIR-V has not. *)
EXTENDS AccessLowering

CONSTANTS Ops, Chains

I16 == IntTy(2)
I32 == IntTy(4)
I64 == IntTy(8)
F32 == FloatTy(4)
V2 == VectorTy(2, I32)
V4 == VectorTy(4, F32)
Pair == StructTy(<<I32, I32>>)
Mixed == StructTy(<<I8, I32>>)

Object(kind, t) ==
  [kind |-> kind, ty |-> t,
   space |-> CASE kind = "alloca" -> "private" [] kind = "global" -> "local" [] OTHER -> "global"]
Objects ==
  {Object("alloca", t) : t \in {ArrayTy(4, I32), V4, ArrayTy(2, I64), ArrayTy(16, I8)}}
    \cup {Object("global", t) : t \in {ArrayTy(4, F32), ArrayTy(2, Mixed)}}
    \cup {Object("resource", StructTy(<<ArrayTy(0, t)>>)) : t \in {I32, V4, Pair}}
    \cup {Object("argument", t) : t \in {I8, I32, V4, Pair, I64}}

\* First indices: of bytes, also multiples of the sizes of larger types.
Heads(t) == {Cst(0), Cst(1), Dyn(1, 1)}
              \cup (IF t = I8 THEN {Cst(4), Dyn(4, 4), Dyn(8, 8), Dyn(4, 1)} ELSE {})
GepsOf(t) ==
  IF AllocSize(t) = 0 THEN {Gep(t, <<Cst(0), Cst(0), i>>) : i \in Heads(t)}
  ELSE {Gep(t, <<i>>) : i \in Heads(t)}
         \cup (IF IsStruct(t) THEN {Gep(t, <<i, Cst(1)>>) : i \in Heads(t)}
               ELSE IF IsComposite(t) THEN {Gep(t, <<Cst(0), i>>) : i \in Heads(t)} ELSE {})

FirstGeps(root) == UNION {GepsOf(t) : t \in {I8, I16, I32, F32, I64, V2, V4, Pair, ArrayTy(2, I32), root.ty}}
SecondGeps == UNION {GepsOf(t) : t \in {I8, I64, Pair}}

(* What clang writes: resources are accessed through their interface type; the
   access is aligned, and within the object. *)
Room(root) == IF root.kind \in {"resource", "argument"} THEN 32 ELSE AllocSize(root.ty)
IsWritten(p) ==
  /\ p.root.kind = "resource" => \A k \in RawCasts(p) : Aliasing(p, k).found
  /\ OffsetOf(p.geps) % Alignment(p.acc.ty) = 0
  /\ OffsetOf(p.geps) + AllocSize(p.acc.ty) <= Room(p.root)

(* Two geps: of constants, or of unknown multiples of eight bytes, the second in
   a unit that divides the first one's. Others are not always lowered right: the
   two parts of an offset are divided one by one, and what they leave is lost. *)
Unit(gep) == AllocSize(ResultType(gep))
IsUnknown(gep) == /\ ~gep.idxs[1].cst /\ gep.idxs[1].multiple * AllocSize(gep.ty) % 8 = 0
                  /\ \A i \in 2 .. Len(gep.idxs) : IsZero(gep.idxs[i])
AreTogether(a, b) ==
  /\ Unit(a) % Unit(b) = 0
  /\ (IsConstant(a) /\ IsConstant(b)) \/ (IsUnknown(a) /\ IsUnknown(b))

(* A part of a number in local memory, loaded through a constant offset: the gep
   is made one of the part's type before the load, and one of the variable's
   type again, for ever. *)
ScalarAt(t, offset) == Indexed(t, <<Cst(0)>> \o GoThrough(t, NoType, offset, <<>>).idxs)
IsEndless(p) ==
  /\ p.root.kind = "global" /\ p.acc.op = "load" /\ p.geps # <<>> /\ IsConstant(p.geps[1])
  /\ AllocSize(p.acc.ty) < AllocSize(ScalarAt(p.root.ty, OffsetOf(p.geps)))
  /\ OffsetOf(p.geps) > 0 /\ ~InsideScalar(p.root.ty, OffsetOf(p.geps))

SomeAccess(types) == {Access(op, t) : op \in Ops, t \in types}

AccessInit ==
  \/ /\ "one" \in Chains
     /\ \E root \in Objects, acc \in SomeAccess({I8, I16, I32, F32, I64, V2, V4}) :
          \E geps \in {<<>>} \cup {<<g>> : g \in FirstGeps(root)} :
            LET p == [root |-> root, geps |-> geps, acc |-> acc]
            IN IsWritten(p) /\ (IsEndless(p) <=> Chains = {"one", "endless"}) /\ Start(p)
  \/ /\ "two" \in Chains
     /\ \E root \in {r \in Objects : r.kind \in {"argument", "resource"}},
           acc \in {Access("load", t) : t \in {I8, I32, V4}} :
          \E a \in FirstGeps(root), b \in SecondGeps :
            LET p == [root |-> root, geps |-> <<a, b>>, acc |-> acc]
            IN AreTogether(a, b) /\ IsWritten(p) /\ Start(p)

------------------------------------------------------------------------------
CONSTANTS MaxInstructions, StaleLoads, Families
VARIABLES vectorPass, family, regs, low, mem, lowmem, left, phase
vectorVars == <<vectorPass, family, regs, low, mem, lowmem, left, phase>>

Vectors == INSTANCE VectorLowering WITH pass <- vectorPass

IsFunction == vectorPass # "none"
NoFunction == /\ vectorPass = "none" /\ family = {} /\ phase = "end" /\ left = {}
              /\ regs = <<>> /\ low = <<>> /\ mem = <<>> /\ lowmem = <<>>
NoAccess == /\ original = [root |-> Object("argument", I32), geps |-> <<>>, acc |-> Access("load", I32)]
            /\ prog = original /\ stage = "done" /\ pass = 1 /\ changed = FALSE /\ effect = NoEffect

VectorInit == \E p \in {"long", "three"}, f \in Families : Vectors!Start(p, f)

MCInit == (AccessInit /\ NoFunction) \/ (VectorInit /\ NoAccess)
MCNext == \/ ~IsFunction /\ Next /\ UNCHANGED vectorVars
          \/ IsFunction /\ Vectors!Next /\ UNCHANGED vars
MCSpec == MCInit /\ [][MCNext]_<<vars, vectorVars>> /\ Fairness

(* The code that two passes put in the place of instructions on vectors computes
   the same: every register is replaced by one with the same lanes and members at
   the offsets they had, and memory holds the same data. *)
LoweredComputesTheSame == IsFunction => Vectors!LoweredComputesTheSame

(* All that was replaced can be removed when the function has been read, phis
   that use each other around a loop included: the pass stops otherwise. *)
ReplacedIsRemoved == IsFunction => Vectors!ReplacedIsRemoved
==============================================================================

----------------------------- MODULE ConstantData -----------------------------
(* The __constant variables of a program, on their way into the one structure
   whose bytes the host is given to put in a buffer: NormalizeGlobalVariable,
   ClusterModuleScopeConstantVars, and ConstantEmitter for the bytes.

   A constant is [ty, leaf, parts]: a number, of which leaf says which, or a
   composite of parts. A use of a variable reads anywhere in it, by a
   getelementptr on a type of its own, or by none (gep is NoType). *)
EXTENDS LLVMTypes, FiniteSets

CONSTANTS ConstantPrograms    \* the [globals, accesses] a module may have

VARIABLES
  program,
  inBuffer,       \* -module-constants-in-storage-buffer
  constantStep,
  globals,        \* [init, align]
  accesses,       \* [of, gep]: the variable a use refers to now
  toNormalize,
  initializers,   \* in the order they are first met
  initializers_alignment,
  cluster,        \* the initializers and the padding, in order
  initializer_index,
  data            \* the bytes of the reflection instruction

constantVars == <<program, inBuffer, constantStep, globals, accesses, toNormalize,
                  initializers, initializers_alignment, cluster, initializer_index, data>>

Number(ty, leaf) == [ty |-> ty, leaf |-> leaf, parts |-> <<>>]
Composite(ty, parts) == [ty |-> ty, leaf |-> <<>>, parts |-> parts]
Zero == <<>>
Garbage(ty) == Number(ty, <<"garbage">>)

IsAggregate(t) == IsArray(t) \/ IsStruct(t)
ElementType(t, i) == IF IsStruct(t) THEN t.ele[i] ELSE t.ele[1]
Members(cs) == StructTy([i \in DOMAIN cs |-> cs[i].ty])

IsLive(g) == \E u \in DOMAIN accesses : accesses[u].of = g

------------------------------------------------------------------------------
(* NormalizeGlobalVariable. *)
RECURSIVE SoleContainedType(_, _)
SoleContainedType(t, stop) ==
  IF t = stop \/ ~IsAggregate(t) THEN t
  ELSE LET contained == {SoleContainedType(ElementType(t, i), stop) : i \in 1 .. t.num}
       IN IF Cardinality(contained) = 1 THEN CHOOSE c \in contained : TRUE ELSE NoType

(* GetNumElements is 0 of a vector, so vectors of numbers among the elements, and
   those of zeroes, are dropped. A vector that is written out, because an element of it
   is no plain number, or a splat that is one constant, would be kept; the
   constants here have neither. *)
RECURSIVE FlattenConstant(_, _)
FlattenConstant(c, stop) ==
  IF c.ty = stop THEN <<c>>
  ELSE FlattenSeq([i \in DOMAIN c.parts |->
         LET p == c.parts[i]
         IN IF p.ty = stop THEN <<p>>
            ELSE IF IsAggregate(p.ty) THEN FlattenConstant(p, stop)
            ELSE IF IsVector(p.ty) THEN <<>> ELSE <<p>>])

(* A constant of type t out of the first of the elements, and the others. *)
RECURSIVE BuildConstant(_, _, _)
BuildConstant(t, elements, stop) ==
  LET Member(s, i) ==
        LET sub == ElementType(t, i)
            built == BuildConstant(sub, s.rest, stop)
        IN IF sub # stop /\ IsAggregate(sub) THEN [parts |-> Append(s.parts, built.constant), rest |-> built.rest]
           ELSE IF s.rest = <<>> THEN [s EXCEPT !.parts = Append(@, Garbage(sub))]
           ELSE [parts |-> Append(s.parts, Head(s.rest)), rest |-> Tail(s.rest)]
      all == FoldLeft(Member, [parts |-> <<>>, rest |-> elements], [i \in 1 .. t.num |-> i])
  IN [constant |-> Composite(t, all.parts), rest |-> all.rest]

VariableNeedsNormalized(ty, contained, to_type, stop) ==
  /\ ty # to_type /\ IsAggregate(ty) /\ IsAggregate(to_type)
  /\ AllocSize(ty) = AllocSize(to_type)
  /\ contained = SoleContainedType(to_type, stop)

RECURSIVE InnermostElement(_)
InnermostElement(t) == IF IsArray(t) THEN InnermostElement(t.ele[1]) ELSE t

(* Where the types contain no single one, arrays of a structure may still: it is
   where to stop. *)
StopType(ty, to_type) ==
  IF SoleContainedType(ty, NoType) = NoType /\ InnermostElement(to_type) # to_type
  THEN InnermostElement(to_type) ELSE NoType

(* reuse[t] is the variable made for type t. *)
NormalizeUser(s, u) ==
  LET GV == s.globals[s.gv]
      to_type == s.accesses[u].gep
      stop == StopType(GV.init.ty, to_type)
      contained == SoleContainedType(GV.init.ty, stop)
      made == [init |-> BuildConstant(to_type, FlattenConstant(GV.init, stop), stop).constant, align |-> 1]
  IN IF \/ to_type = NoType \/ contained = NoType
        \/ ~VariableNeedsNormalized(GV.init.ty, contained, to_type, stop)
     THEN s
     ELSE IF \E r \in s.reuse : r.ty = to_type
     THEN [s EXCEPT !.accesses[u].of = (CHOOSE r \in s.reuse : r.ty = to_type).of]
     ELSE [s EXCEPT !.globals = Append(@, made), !.accesses[u].of = Len(s.globals) + 1,
                    !.reuse = @ \cup {[ty |-> to_type, of |-> Len(s.globals) + 1]}]

NormalizeVariableUsers ==
  /\ constantStep = "normalize" /\ toNormalize # <<>>
  /\ LET users == SelectSeq([u \in DOMAIN accesses |-> u], LAMBDA u : accesses[u].of = Head(toNormalize))
         s == FoldLeft(NormalizeUser,
                       [gv |-> Head(toNormalize), globals |-> globals, accesses |-> accesses, reuse |-> {}], users)
     IN globals' = s.globals /\ accesses' = s.accesses
  /\ toNormalize' = Tail(toNormalize)
  /\ UNCHANGED <<program, inBuffer, constantStep, initializers, initializers_alignment, cluster, initializer_index, data>>

------------------------------------------------------------------------------
(* ClusterModuleScopeConstantVars: each initializer once, and the alignment of the
   last variable that has it. Without the option variables become private ones. *)
LiveGlobals == SelectSeq([g \in DOMAIN globals |-> g], IsLive)

CollectConstants ==
  /\ constantStep = "normalize" /\ toNormalize = <<>>
  /\ LET inits == [i \in DOMAIN LiveGlobals |-> globals[LiveGlobals[i]].init]
         last(c) == Max({i \in DOMAIN inits : inits[i] = c})
     IN /\ initializers' = FoldLeft(LAMBDA s, c : IF c \in ToSet(s) THEN s ELSE Append(s, c), <<>>, inits)
        /\ initializers_alignment' = [c \in ToSet(inits) |-> globals[LiveGlobals[last(c)]].align]
  /\ constantStep' = IF inBuffer THEN "cluster" ELSE "end"
  /\ UNCHANGED <<program, inBuffer, globals, accesses, toNormalize, cluster, initializer_index, data>>

PaddingType(padding) ==
  CASE padding % 4 = 0                      -> ArrayTy(padding \div 4, IntTy(4))
    [] padding % 4 # 0 /\ padding % 2 = 0 -> ArrayTy(padding \div 2, IntTy(2))
    [] padding % 2 # 0                      -> ArrayTy(padding, IntTy(1))
ZeroArray(t) == Composite(t, [i \in 1 .. t.num |-> Number(t.ele[1], Zero)])

\* Wrong variant: variables come as they would without an alignment of their own.
Padded_Never(cs, init, align) == Append(cs, init)
Padded(cs, init, align) ==
  LET offset == MemberOffset(Members(Append(cs, init)), Len(cs) + 1)
      padding == (align - (offset % align)) % align
  IN IF padding = 0 THEN Append(cs, init) ELSE cs \o <<ZeroArray(PaddingType(padding)), init>>

PlaceInitializer ==
  /\ constantStep = "cluster" /\ initializers # <<>>
  /\ LET init == Head(initializers)
     IN /\ cluster' = Padded(cluster, init, initializers_alignment[init])
        /\ initializer_index' = [c \in DOMAIN initializer_index \cup {init} |->
                                   IF c = init THEN Len(cluster') ELSE initializer_index[c]]
  /\ initializers' = Tail(initializers)
  /\ UNCHANGED <<program, inBuffer, constantStep, globals, accesses, toNormalize, initializers_alignment, data>>

------------------------------------------------------------------------------
(* ConstantEmitter. *)
EmitZeroes(out, n) == out \o [i \in 1 .. n |-> Zero]
AlignTo(out, a) == EmitZeroes(out, RoundUp(Len(out), a) - Len(out))

RECURSIVE Emit(_, _)
EmitStruct(out, c) ==
  LET base == Len(out)
      member(o, i) == Emit(EmitZeroes(o, MemberOffset(c.ty, i) - (Len(o) - base)), c.parts[i])
      all == FoldLeft(member, out, [i \in DOMAIN c.parts |-> i])
  IN EmitZeroes(all, AllocSize(c.ty) - (Len(all) - base))
Emit(out, c) ==
  LET o == AlignTo(out, Alignment(c.ty))
  IN IF IsStruct(c.ty) THEN EmitStruct(o, c)
     ELSE IF IsComposite(c.ty) THEN FoldLeft(Emit, o, c.parts)
     ELSE o \o [b \in 1 .. c.ty.num |-> IF c.leaf = Zero THEN Zero ELSE Append(c.leaf, b - 1)]

EmitConstants ==
  /\ constantStep = "cluster" /\ initializers = <<>>
  /\ data' = Emit(<<>>, Composite(Members(cluster), cluster))
  /\ constantStep' = "end"
  /\ UNCHANGED <<program, inBuffer, globals, accesses, toNormalize, initializers, initializers_alignment, cluster, initializer_index>>

------------------------------------------------------------------------------
ConstantInit ==
  /\ program \in ConstantPrograms
  /\ inBuffer \in BOOLEAN
  /\ constantStep = "normalize"
  /\ globals = program.globals /\ accesses = program.accesses
  /\ toNormalize = [g \in DOMAIN globals |-> g]
  /\ initializers = <<>> /\ initializers_alignment = <<>>
  /\ cluster = <<>> /\ initializer_index = <<>> /\ data = <<>>

ConstantNext == NormalizeVariableUsers \/ CollectConstants \/ PlaceInitializer \/ EmitConstants

------------------------------------------------------------------------------
(* What a constant is in memory, at the places of its numbers. *)
RECURSIVE DataOf(_)
DataOf(c) ==
  IF c.parts = <<>> THEN [b \in 1 .. c.ty.num |-> Append(c.leaf, b - 1)]
  ELSE FlattenSeq([i \in DOMAIN c.parts |-> DataOf(c.parts[i])])

RECURSIVE HasVector(_)
HasVector(t) == IsVector(t) \/ (IsAggregate(t) /\ \E i \in 1 .. t.num : HasVector(ElementType(t, i)))

Written(u) == program.globals[program.accesses[u].of]
IsNormalized(u) == accesses[u].of # program.accesses[u].of
MemberOf(u) == initializer_index[globals[accesses[u].of].init]

(* What must not be: vectors in a variable that is made another, as they are
   dropped; alignment is only kept for a variable that is not made another, whose
   initializer no other has with another alignment. *)
KeepsItsData(u) == IsNormalized(u) => ~HasVector(Written(u).init.ty)
KeepsItsAlignment(u) ==
  /\ ~IsNormalized(u)
  /\ \A g \in DOMAIN globals : globals[g].init = Written(u).init => globals[g].align = Written(u).align

(* Whatever a use of a variable reads is what the program initialized the variable
   with, from the variable it refers to now or from the buffer the host was given
   the bytes of; and it is where its alignment says. *)
ConstantsReadBack ==
  constantStep = "end" =>
    \A u \in DOMAIN accesses :
      LET init == Written(u).init
          places == DataPlaces(init.ty)
          now == globals[accesses[u].of].init
          offset == MemberOffset(Members(cluster), MemberOf(u))
      IN /\ KeepsItsData(u) =>
              IF inBuffer THEN \A i \in DOMAIN places : data[offset + places[i] + 1] = DataOf(init)[i]
              ELSE DataPlaces(now.ty) = places /\ DataOf(now) = DataOf(init)
         /\ inBuffer /\ KeepsItsAlignment(u) => offset % Written(u).align = 0
================================================================================

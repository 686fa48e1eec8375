---------------------- MODULE AllocateDescriptorsProofs ----------------------
(***************************************************************************)
(* For any kernels, arguments and options: descriptors, SpecIds and the    *)
(* resource variables made of them are unambiguous.  The two hypotheses    *)
(* are what AllocateDescriptorsPass relies on and does not see to itself:  *)
(* AllocateDescriptorsUnused.cfg and AllocateDescriptorsPods.cfg show what *)
(* happens without them.                                                   *)
(***************************************************************************)
EXTENDS ResourceVars, NaturalFacts, TLAPS, FiniteSetTheorems, SequenceTheorems

\* The loops agree on what arguments they skip.
OneWalkOfArgs == \A o \in Options : ~(o.kernelArgInfo /\ o.distinctSets)

\* Arguments of one type at one index are of one kind, as they are when all
\* kernels have their plain-old-data arguments in the same place.
KindGoesByType ==
    \A p \in Programs : \A k, l \in Kernels :
        \A i \in DOMAIN p.args[k] \cap DOMAIN p.args[l] :
            /\ p.args[k][i].type = p.args[l][i].type
            /\ ~NeedsNoDescriptor(p.args[k][i]) /\ ~NeedsNoDescriptor(p.args[l][i])
            => p.args[k][i].kind = p.args[l][i].kind

-----------------------------------------------------------------------------
(* Where the pass is. *)

Loops == {"classify", "assign", "rewrite", "spec_ids"}

Earlier ==
    [classify |-> {"samplers"},
     assign   |-> {"samplers", "classify"},
     rewrite  |-> {"samplers", "classify", "assign"},
     spec_ids |-> {"samplers", "classify", "assign", "rewrite"}]

\* The arguments of kernel k that a loop is done with.
ArgsDone(loop, k) ==
    IF pc \in Earlier[loop] \/ (pc = loop /\ k > kernel) THEN 0
    ELSE IF pc = loop /\ k = kernel THEN arg - 1 ELSE NumArgs(k)

Located ==
    /\ program \in Programs /\ options \in Options
    /\ pc \in {"samplers", "done"} \cup Loops
    /\ kernel \in Kernels
    /\ arg \in 1..(NumArgs(kernel) + 1)
    /\ pc = "samplers" => kernel = 1 /\ arg = 1
    /\ pc = "assign" /\ options.distinctSets => arg = 1

-----------------------------------------------------------------------------
(* The inductive invariant of the SpecIds of __local arguments. *)

SpecIds(pairs, t) == {pairs[i][2] : i \in {j \in DOMAIN pairs : pairs[j][1] = t}}

\* The SpecIds that stand for type t.
IdsOfType(t) == SpecIds(specIdTypes, t) \cup SpecIds(functionAllocations, t)

SpecIdTypeOK ==
    /\ nextSpecId \in Nat /\ nextSpecId >= FirstSpecId
    /\ specIdTypes \in Seq(Types \X Nat)
    /\ functionAllocations \in Seq(Types \X Nat)
    /\ localSpecIds \subseteq Kernels \X Nat \X Nat

\* SpecIds come from the counter, and one never stands for two types.
IdsByType ==
    /\ \A t \in Types : \A id \in IdsOfType(t) :
          id \in Nat /\ FirstSpecId <= id /\ id < nextSpecId
    /\ \A t, u \in Types : IdsOfType(t) \cap IdsOfType(u) # {} => t = u

\* The kernels that are done, and the arguments of the one that is not.
IsLocalArg(k, i) ==
    ~Skipped(program.args[k][i]) /\ program.args[k][i].kind = "local"

IdsOfArgs ==
    /\ \A x \in localSpecIds :
          /\ x[2] \in 1..ArgsDone("spec_ids", x[1])
          /\ IsLocalArg(x[1], x[2])
          /\ TypeOfArg(x[1], x[2]) \in Types
          /\ x[3] \in IdsOfType(TypeOfArg(x[1], x[2]))
          /\ x[1] = kernel /\ pc = "spec_ids" => x[3] \in functionSpecIds
    /\ \A x, y \in localSpecIds : x[1] = y[1] /\ x[3] = y[3] => x = y
    /\ \A k \in Kernels : \A i \in 1..ArgsDone("spec_ids", k) :
          IsLocalArg(k, i) => \E x \in localSpecIds : x[1] = k /\ x[2] = i

\* The list of specialization constants has what the counter gave out, and
\* perhaps the workgroup size: each SpecId once.
SpecKinds == {"local_memory_size", "workgroup_size_x", "workgroup_size_y",
              "workgroup_size_z", "work_dim", "global_offset_x",
              "global_offset_y", "global_offset_z", "subgroup_max_size"}

IsOfWorkgroupSize(c) ==
    c \in {<<"workgroup_size_x", 0>>, <<"workgroup_size_y", 1>>, <<"workgroup_size_z", 2>>}

ListOK ==
    /\ nextSpecId \in Nat /\ nextSpecId >= FirstSpecId
    /\ specConstants \in Seq(SpecKinds \X Nat)
    /\ \A c \in ToSet(specConstants) :
          c[2] < nextSpecId /\ (c[2] >= FirstSpecId \/ IsOfWorkgroupSize(c))
    /\ \A c, d \in ToSet(specConstants) : c[2] = d[2] => c = d

IdsListed ==
    \A t \in Types : \A id \in IdsOfType(t) :
        <<"local_memory_size", id>> \in ToSet(specConstants)

SpecIdInv == Located /\ SpecIdTypeOK /\ IdsByType /\ IdsOfArgs /\ ListOK /\ IdsListed

-----------------------------------------------------------------------------
(* The inductive invariant of sets and bindings. *)

Keys == [type : Types, argIndex : Nat, coherent : BOOLEAN, separation : Nat]

DescriptorTypeOK ==
    /\ nextSet \in Nat
    /\ numImageSampler \in Nat
    /\ keys \in Seq(Keys)
    /\ discriminants \in [Kernels -> Seq([index : Int, key : Keys])]
    /\ setAndBinding \in [Kernels -> Seq(Int \X Int)]
    /\ allKernelsSet \in Int

\* The literal samplers have the first set, if there are any.
SamplerSet ==
    /\ pc = "samplers" => nextSet = 0 /\ samplerCalls = {}
    /\ samplerCalls # {} => nextSet # 0
    /\ \A s \in samplerCalls :
          \E i \in DOMAIN program.literals :
              s = [value |-> program.literals[i], set |-> 0,
                   binding |-> SamplerBinding(i)]

IsArgSet(set) ==
    /\ set \in Nat /\ set < nextSet
    /\ samplerCalls # {} => set # 0

SharedSet == allKernelsSet = Unallocated \/ IsArgSet(allKernelsSet)

\* Argument indexes get the bindings 0, 1, ... as they come.
SharedBindings ==
    /\ DOMAIN allKernelsBinding \subseteq Nat
    /\ IsFiniteSet(DOMAIN allKernelsBinding)
    /\ \A i \in DOMAIN allKernelsBinding :
          /\ allKernelsBinding[i] \in Nat
          /\ allKernelsBinding[i] < Cardinality(DOMAIN allKernelsBinding)
    /\ \A i, j \in DOMAIN allKernelsBinding :
          allKernelsBinding[i] = allKernelsBinding[j] => i = j

\* What the lists hold for an argument, at its position.
InfoOf(k, i) == discriminants[k][Position(k, i)]
PairOf(k, i) == setAndBinding[k][Position(k, i)]

IsClassified(k, i) ==
    LET a == program.args[k][i]
        info == InfoOf(k, i)
    IN  /\ info.key.type = a.type
        /\ info.key.argIndex = i
        /\ info.key.coherent = a.coherent
        /\ info.index = Unallocated <=> NeedsNoDescriptor(a)
        /\ info.index # Unallocated =>
              info.index + 1 \in DOMAIN keys /\ keys[info.index + 1] = info.key

Classified ==
    \A k \in Kernels :
        /\ Len(discriminants[k]) = Position(k, ArgsDone("classify", k))
        /\ \A i \in 1..ArgsDone("classify", k) :
              ~Skipped(program.args[k][i]) => IsClassified(k, i)

\* The arguments before position that have a descriptor.
DescriptorsBefore(k, position) ==
    Cardinality({j \in 1..(position - 1) : discriminants[k][j].index # Unallocated})

IsAssigned(k, i) ==
    LET a == program.args[k][i]
        pair == PairOf(k, i)
    IN  /\ IF IsPushConstant(a) THEN pair[1] = Unallocated ELSE IsArgSet(pair[1])
        /\ options.distinctSets => pair[2] = DescriptorsBefore(k, Position(k, i))
        /\ ~options.distinctSets =>
              /\ i \in DOMAIN allKernelsBinding /\ pair[2] = allKernelsBinding[i]
              /\ ~IsPushConstant(a) => pair[1] = allKernelsSet

Assigned ==
    \A k \in Kernels :
        /\ Len(setAndBinding[k]) = Position(k, ArgsDone("assign", k))
        /\ \A i \in 1..ArgsDone("assign", k) :
              ~Skipped(program.args[k][i]) /\ ~NeedsNoDescriptor(program.args[k][i])
                  => IsAssigned(k, i)

\* A call has what the lists hold for its argument.
CallOf(k, i) ==
    [kernel |-> k, arg |-> i, accessor |-> InfoOf(k, i).index,
     set |-> PairOf(k, i)[1], binding |-> PairOf(k, i)[2],
     kind |-> program.args[k][i].kind, coherent |-> InfoOf(k, i).key.coherent]

CallsByLists ==
    /\ IsFiniteSet(calls)
    /\ \A c \in calls :
          \E k \in Kernels : \E i \in 1..ArgsDone("rewrite", k) :
              /\ ~Skipped(program.args[k][i])
              /\ ~NeedsNoDescriptor(program.args[k][i])
              /\ c = CallOf(k, i)

IInv ==
    /\ Located /\ DescriptorTypeOK
    /\ SamplerSet /\ SharedSet /\ SharedBindings
    /\ Classified /\ Assigned /\ CallsByLists
-----------------------------------------------------------------------------
(* Numbers, and how many elements of a set come before one. *)

LEMMA SubsetOfInterval ==
    \A n \in Nat : \A S \in SUBSET (1..n) : IsFiniteSet(S) /\ Cardinality(S) \in Nat
<1>. TAKE n \in Nat
<1>. TAKE S \in SUBSET (1..n)
<1>1. IsFiniteSet(1..n)
  BY FS_Interval
<1>2. IsFiniteSet(S)
  BY <1>1, FS_Subset
<1>. QED  BY <1>2, FS_CardinalityType

LEMMA ArgLists ==
    ASSUME program \in Programs, options \in Options
    PROVE  /\ program.args \in [Kernels -> Seq(Args)]
           /\ \A k \in Kernels : /\ NumArgs(k) \in Nat
                                 /\ \A i \in 1..NumArgs(k) : program.args[k][i] \in Args
           /\ program.literals \in Seq(ToSet(program.literals))
           /\ options.kernelArgInfo \in BOOLEAN /\ options.distinctSets \in BOOLEAN
           /\ Kernels \subseteq Nat /\ 1 \in Kernels /\ NumKernels \in Kernels
BY ParametersAssumption DEF NumArgs, Kernels

\* The counter of a loop in a step that handles the next argument.
LEMMA NextArg ==
    ASSUME Located, pc \in Loops, arg <= NumArgs(kernel), arg' = arg + 1,
           UNCHANGED <<program, options, pc, kernel>>
    PROVE  /\ \A k \in Kernels : NumArgs(k)' = NumArgs(k)
           /\ pc # "assign" \/ ~options.distinctSets => Located'
           /\ ArgsDone(pc, kernel) = arg - 1
           /\ \A loop \in Loops, k \in Kernels :
                 ArgsDone(loop, k)' = IF loop = pc /\ k = kernel THEN arg
                                                             ELSE ArgsDone(loop, k)
<1>1. \A k \in Kernels : NumArgs(k)' = NumArgs(k)
  BY DEF NumArgs
<1>2. arg \in Nat /\ kernel \in Nat /\ NumArgs(kernel) \in Nat
  BY ArgLists DEF Located
<1>3. pc # "assign" \/ ~options.distinctSets => Located'
  BY <1>1, <1>2 DEF Located, Loops
<1>4. ArgsDone(pc, kernel) = arg - 1
  BY <1>2 DEF ArgsDone, Loops, Earlier
<1>5. ASSUME NEW loop \in Loops, NEW k \in Kernels
      PROVE  ArgsDone(loop, k)' = IF loop = pc /\ k = kernel THEN arg
                                                         ELSE ArgsDone(loop, k)
  <2>1. CASE loop = pc /\ k = kernel
    BY <2>1, <1>2 DEF ArgsDone, Loops, Earlier
  <2>2. CASE ~(loop = pc /\ k = kernel)
    BY <2>2, <1>1 DEF ArgsDone
  <2>. QED  BY <2>1, <2>2
<1>. QED  BY <1>1, <1>3, <1>4, <1>5

\* The counters at the end of the arguments of a kernel.
LEMMA NextKernelArgs ==
    ASSUME Located, pc \in Loops, NextKernel, UNCHANGED <<program, options>>,
           arg > NumArgs(kernel) \/ (pc = "assign" /\ options.distinctSets)
    PROVE  /\ \A k \in Kernels : NumArgs(k)' = NumArgs(k)
           /\ Located'
           /\ \A loop \in Loops, k \in Kernels :
                 ArgsDone(loop, k)' = IF loop = pc /\ k = kernel THEN NumArgs(k)
                                                             ELSE ArgsDone(loop, k)
           /\ arg > NumArgs(kernel) => ArgsDone(pc, kernel) = NumArgs(kernel)
<1>1. \A k \in Kernels : NumArgs(k)' = NumArgs(k)
  BY DEF NumArgs
<1>2. /\ arg \in Nat /\ kernel \in Nat /\ NumArgs(kernel) \in Nat
      /\ NumKernels \in Nat
      /\ \A k \in Kernels : k \in 1..NumKernels
  BY ArgLists, ParametersAssumption DEF Located, Kernels
<1>3. Located'
  BY <1>1, <1>2, ArgLists DEF Located, NextKernel, FollowingLoop, Loops, Kernels
<1>4. arg > NumArgs(kernel) => arg - 1 = NumArgs(kernel)
  BY <1>2 DEF Located
<1>5. ASSUME NEW loop \in Loops, NEW k \in Kernels
      PROVE  ArgsDone(loop, k)' = IF loop = pc /\ k = kernel THEN NumArgs(k)
                                                         ELSE ArgsDone(loop, k)
  <2>1. CASE kernel < NumKernels
    BY <2>1, <1>1, <1>2, <1>4, <1>5
    DEF NextKernel, ArgsDone, Earlier, Loops
  <2>2. CASE ~(kernel < NumKernels)
    BY <2>2, <1>1, <1>2, <1>4, <1>5
    DEF NextKernel, ArgsDone, Earlier, Loops, FollowingLoop
  <2>. QED  BY <2>1, <2>2
<1>6. arg > NumArgs(kernel) => ArgsDone(pc, kernel) = NumArgs(kernel)
  BY <1>2, <1>4 DEF ArgsDone, Earlier, Loops
<1>. QED  BY <1>1, <1>3, <1>5, <1>6

LEMMA InitLocated == Init => Located /\ \A loop \in Loops, k \in Kernels : ArgsDone(loop, k) = 0
BY ArgLists, ParametersAssumption
DEF Init, Located, ArgsDone, Earlier, Loops, Kernels
-----------------------------------------------------------------------------
(* The SpecIds of __local arguments. *)

LEMMA SpecIdsEmpty == \A t : SpecIds(<<>>, t) = {}
BY DEF SpecIds

LEMMA SpecIdsConcat ==
    \A t : \A a, b \in Seq(Types \X Nat) :
        SpecIds(a \o b, t) = SpecIds(a, t) \cup SpecIds(b, t)
<1>. TAKE t
<1>. TAKE a, b \in Seq(Types \X Nat)
<1>1. /\ DOMAIN a = 1..Len(a) /\ DOMAIN b = 1..Len(b) /\ DOMAIN (a \o b) = 1..(Len(a) + Len(b))
      /\ Len(a) \in Nat /\ Len(b) \in Nat
  OBVIOUS
<1>2. \A i \in DOMAIN a : i \in DOMAIN (a \o b) /\ (a \o b)[i] = a[i]
  BY <1>1
<1>3. \A i \in DOMAIN b : Len(a) + i \in DOMAIN (a \o b) /\ (a \o b)[Len(a) + i] = b[i]
  BY <1>1
<1>4. ASSUME NEW i \in DOMAIN (a \o b)
      PROVE  \/ i \in DOMAIN a /\ (a \o b)[i] = a[i]
             \/ i - Len(a) \in DOMAIN b /\ (a \o b)[i] = b[i - Len(a)]
  BY <1>1
<1>5. SpecIds(a, t) \subseteq SpecIds(a \o b, t)
  BY <1>2 DEF SpecIds
<1>6. SpecIds(b, t) \subseteq SpecIds(a \o b, t)
  <2>1. ASSUME NEW x \in SpecIds(b, t) PROVE x \in SpecIds(a \o b, t)
    <3>1. PICK i \in DOMAIN b : b[i][1] = t /\ x = b[i][2]
      BY <2>1 DEF SpecIds
    <3>2. Len(a) + i \in DOMAIN (a \o b) /\ (a \o b)[Len(a) + i] = b[i]
      BY <1>3
    <3>. QED  BY <3>1, <3>2 DEF SpecIds
  <2>. QED  BY <2>1
<1>7. SpecIds(a \o b, t) \subseteq SpecIds(a, t) \cup SpecIds(b, t)
  BY <1>4 DEF SpecIds
<1>. QED  BY <1>5, <1>6, <1>7

LEMMA SpecIdsAppend ==
    \A a \in Seq(Types \X Nat) : \A u \in Types, id \in Nat : \A b, t :
        b = Append(a, <<u, id>>) =>
            SpecIds(b, t) = SpecIds(a, t) \cup {n \in {id} : u = t}
<1>. SUFFICES ASSUME NEW a \in Seq(Types \X Nat), NEW u \in Types, NEW id \in Nat,
                     NEW b, NEW t, b = Append(a, <<u, id>>)
              PROVE  SpecIds(b, t) = SpecIds(a, t) \cup {n \in {id} : u = t}
  OBVIOUS
<1>1. /\ DOMAIN a = 1..Len(a) /\ DOMAIN b = 1..(Len(a) + 1) /\ Len(a) \in Nat
  OBVIOUS
<1>2. /\ \A i \in DOMAIN a : i \in DOMAIN b /\ b[i] = a[i]
      /\ Len(a) + 1 \in DOMAIN b /\ b[Len(a) + 1] = <<u, id>>
      /\ \A i \in DOMAIN b : i \in DOMAIN a \/ i = Len(a) + 1
  OBVIOUS
<1>3. <<u, id>>[1] = u /\ <<u, id>>[2] = id
  OBVIOUS
<1>. QED  BY <1>2, <1>3 DEF SpecIds

LEMMA ListConcat ==
    \A a, b \in Seq(SpecKinds \X Nat) :
        /\ a \o b \in Seq(SpecKinds \X Nat)
        /\ ToSet(a \o b) = ToSet(a) \cup ToSet(b)
<1>. TAKE a, b \in Seq(SpecKinds \X Nat)
<1>1. /\ DOMAIN a = 1..Len(a) /\ DOMAIN b = 1..Len(b) /\ DOMAIN (a \o b) = 1..(Len(a) + Len(b))
      /\ Len(a) \in Nat /\ Len(b) \in Nat
  OBVIOUS
<1>2. \A i \in DOMAIN a : i \in DOMAIN (a \o b) /\ (a \o b)[i] = a[i]
  BY <1>1
<1>3. \A i \in DOMAIN b : Len(a) + i \in DOMAIN (a \o b) /\ (a \o b)[Len(a) + i] = b[i]
  BY <1>1
<1>4. ASSUME NEW i \in DOMAIN (a \o b)
      PROVE  \/ i \in DOMAIN a /\ (a \o b)[i] = a[i]
             \/ i - Len(a) \in DOMAIN b /\ (a \o b)[i] = b[i - Len(a)]
  BY <1>1
<1>5. ToSet(a) \subseteq ToSet(a \o b)
  BY <1>2 DEF ToSet
<1>6. ToSet(b) \subseteq ToSet(a \o b)
  BY <1>3 DEF ToSet
<1>7. ToSet(a \o b) \subseteq ToSet(a) \cup ToSet(b)
  BY <1>4 DEF ToSet
<1>. QED  BY <1>5, <1>6, <1>7, ConcatProperties

\* AllocateSpecConstant gives IDs nothing has, one after the other.
LEMMA AllocatedIds ==
    ASSUME ListOK, NEW kinds \in Seq(SpecKinds), AllocateSpecConstants(kinds)
    PROVE  /\ ListOK'
           /\ nextSpecId' = nextSpecId + Len(kinds) /\ Len(kinds) \in Nat
           /\ ToSet(specConstants') = ToSet(specConstants) \cup
                  {<<kinds[i], nextSpecId + (i - 1)>> : i \in 1..Len(kinds)}
           /\ ToSet(SpecConstantsOf(kinds)) =
                  {<<kinds[i], nextSpecId + (i - 1)>> : i \in 1..Len(kinds)}
<1>. DEFINE new == {<<kinds[i], nextSpecId + (i - 1)>> : i \in 1..Len(kinds)}
<1>1. /\ DOMAIN kinds = 1..Len(kinds) /\ Len(kinds) \in Nat
      /\ nextSpecId \in Nat /\ specConstants \in Seq(SpecKinds \X Nat)
      /\ specConstants' = specConstants \o SpecConstantsOf(kinds)
      /\ nextSpecId' = nextSpecId + Len(kinds)
  BY DEF ListOK, AllocateSpecConstants
<1>2. \A i \in 1..Len(kinds) : kinds[i] \in SpecKinds /\ nextSpecId + (i - 1) \in Nat
  BY <1>1
<1>3. SpecConstantsOf(kinds) \in Seq(SpecKinds \X Nat)
  <2>1. SpecConstantsOf(kinds) \in [1..Len(kinds) -> SpecKinds \X Nat]
    BY <1>1, <1>2 DEF SpecConstantsOf
  <2>2. ASSUME NEW n \in Nat PROVE [1..n -> SpecKinds \X Nat] \subseteq Seq(SpecKinds \X Nat)
    OBVIOUS
  <2>. QED  BY <1>1, <2>1, <2>2
<1>4. ToSet(SpecConstantsOf(kinds)) = new
  BY <1>1 DEF ToSet, SpecConstantsOf
<1>. HIDE DEF new
<1>5. /\ specConstants' \in Seq(SpecKinds \X Nat)
      /\ ToSet(specConstants') = ToSet(specConstants) \cup new
  BY <1>1, <1>3, <1>4, ListConcat
<1>6. \A c \in ToSet(specConstants) : c[2] \in Nat
  BY <1>1 DEF ToSet
<1>7. ASSUME NEW c \in new
      PROVE  \E i \in 1..Len(kinds) :
                c = <<kinds[i], nextSpecId + (i - 1)>> /\ c[2] = nextSpecId + (i - 1)
  BY DEF new
<1>8. ASSUME NEW c \in ToSet(specConstants')
      PROVE  c[2] < nextSpecId' /\ (c[2] >= FirstSpecId \/ IsOfWorkgroupSize(c))
  <2>1. CASE c \in ToSet(specConstants)
    <3>1. c[2] < nextSpecId /\ (c[2] >= FirstSpecId \/ IsOfWorkgroupSize(c))
      BY <2>1 DEF ListOK
    <3>2. c[2] < nextSpecId'
      BY <2>1, <3>1, <1>1, <1>6
    <3>. QED  BY <3>1, <3>2
  <2>2. CASE c \in new
    BY <2>2, <1>1, <1>7 DEF ListOK, FirstSpecId
  <2>. QED  BY <2>1, <2>2, <1>5
<1>9. ASSUME NEW c \in ToSet(specConstants'), NEW d \in ToSet(specConstants'), c[2] = d[2]
      PROVE  c = d
  <2>1. \A e \in ToSet(specConstants) : e[2] < nextSpecId /\ e[2] \in Nat
    BY <1>6 DEF ListOK
  <2>2. \A e \in new : e[2] >= nextSpecId
    BY <1>1, <1>7
  <2>3. CASE c \in ToSet(specConstants) /\ d \in ToSet(specConstants)
    BY <2>3, <1>9 DEF ListOK
  <2>4. CASE c \in new /\ d \in new
    BY <2>4, <1>1, <1>7, <1>9
  <2>. QED  BY <2>1, <2>2, <2>3, <2>4, <1>1, <1>5, <1>9
<1>10. ListOK'
  BY <1>1, <1>5, <1>8, <1>9 DEF ListOK, FirstSpecId, IsOfWorkgroupSize
<1>. QED  BY <1>1, <1>4, <1>5, <1>10 DEF new

LEMMA ListUntouched ==
    ASSUME ListOK, UNCHANGED <<nextSpecId, specConstants>> PROVE ListOK'
BY DEF ListOK, IsOfWorkgroupSize, FirstSpecId

\* A step that has nothing to do with SpecIds.
LEMMA SpecIdsUntouched ==
    ASSUME SpecIdInv, Located', UNCHANGED <<program, options, specIdVars>>,
           \A k \in Kernels : ArgsDone("spec_ids", k)' = ArgsDone("spec_ids", k),
           pc' = "spec_ids" => pc = "spec_ids" /\ UNCHANGED kernel
    PROVE  SpecIdInv'
<1>. USE DEF SpecIdInv
<1>1. SpecIdTypeOK'
  BY DEF SpecIdTypeOK, specIdVars
<1>2. \A t : IdsOfType(t)' = IdsOfType(t)
  BY DEF IdsOfType, SpecIds, specIdVars
<1>3. IdsByType'
  BY <1>2 DEF IdsByType, specIdVars
<1>4. IdsOfArgs'
  <2>1. \A x \in localSpecIds : x[1] \in Kernels
    BY DEF SpecIdTypeOK
  <2>2. \A k, a : TypeOfArg(k, a)' = TypeOfArg(k, a)
    BY DEF TypeOfArg
  <2>3. \A k, i : IsLocalArg(k, i)' = IsLocalArg(k, i)
    BY DEF IsLocalArg, Skipped
  <2>. QED  BY <1>2, <2>1, <2>2, <2>3 DEF IdsOfArgs, specIdVars
<1>5. ListOK' /\ IdsListed'
  BY <1>2, ListUntouched DEF IdsListed, specIdVars
<1>. QED  BY <1>1, <1>3, <1>4, <1>5

LEMMA SpecIdInvInit == Init => SpecIdInv
<1>. SUFFICES ASSUME Init PROVE SpecIdInv
  OBVIOUS
<1>1. SpecIdTypeOK
  BY DEF Init, SpecIdTypeOK, FirstSpecId
<1>2. \A t : IdsOfType(t) = {}
  BY SpecIdsEmpty DEF Init, IdsOfType
<1>3. IdsByType
  BY <1>2 DEF IdsByType
<1>4. IdsOfArgs
  BY InitLocated DEF Init, IdsOfArgs, Loops
<1>5. ListOK
  <2>1. ToSet(specConstants) = {}
    BY DEF Init, ToSet
  <2>. QED  BY <2>1 DEF Init, ListOK, FirstSpecId
<1>6. IdsListed
  BY <1>2 DEF IdsListed
<1>. QED  BY <1>1, <1>3, <1>4, <1>5, <1>6, InitLocated DEF SpecIdInv

LEMMA AllocateSpecIdInv == SpecIdInv /\ AllocateSpecId => SpecIdInv'
<1>. SUFFICES ASSUME SpecIdInv, AllocateSpecId PROVE SpecIdInv'
  OBVIOUS
<1>. USE DEF SpecIdInv
<1>1. /\ pc = "spec_ids" /\ arg <= NumArgs(kernel) /\ arg' = arg + 1
      /\ UNCHANGED <<program, options, pc, kernel>>
  BY DEF AllocateSpecId
<1>2. Located' /\ ArgsDone("spec_ids", kernel) = arg - 1
  BY <1>1, NextArg DEF Loops
<1>3. \A k \in Kernels : ArgsDone("spec_ids", k)' = IF k = kernel THEN arg
                                                              ELSE ArgsDone("spec_ids", k)
  BY <1>1, NextArg DEF Loops
<1>4. kernel \in Kernels /\ arg \in Nat /\ TheArg \in Args /\ arg >= 1
  BY <1>1, ArgLists DEF Located, TheArg
<1>5. \A k, a : TypeOfArg(k, a)' = TypeOfArg(k, a)
  BY <1>1 DEF TypeOfArg
<1>. DEFINE isTold(ids) ==
              \A k \in Kernels : \A i \in 1..ArgsDone("spec_ids", k)' :
                  IsLocalArg(k, i) => \E x \in ids : x[1] = k /\ x[2] = i
<1>9. ASSUME NEW ids, localSpecIds \subseteq ids,
             IsLocalArg(kernel, arg) => \E x \in ids : x[1] = kernel /\ x[2] = arg
      PROVE  isTold(ids)
  <2>. SUFFICES ASSUME NEW k \in Kernels, NEW i \in 1..ArgsDone("spec_ids", k)',
                       IsLocalArg(k, i)
                PROVE  \E x \in ids : x[1] = k /\ x[2] = i
    OBVIOUS
  <2>1. CASE k = kernel /\ i = arg
    BY <2>1, <1>9
  <2>2. CASE ~(k = kernel /\ i = arg)
    <3>1. i \in 1..ArgsDone("spec_ids", k)
      BY <2>2, <1>2, <1>3, <1>4
    <3>. QED  BY <3>1, <1>9 DEF IdsOfArgs
  <2>. QED  BY <2>1, <2>2
<1>10. \A k, i : IsLocalArg(k, i)' = IsLocalArg(k, i)
  BY <1>1 DEF IsLocalArg, Skipped
<1>. HIDE DEF isTold
<1>6. CASE Skipped(TheArg) \/ TheArg.kind # "local"
  <2>1. UNCHANGED specIdVars
    BY <1>6 DEF AllocateSpecId
  <2>2. SpecIdTypeOK'
    BY <2>1 DEF SpecIdTypeOK, specIdVars
  <2>3. \A t : IdsOfType(t)' = IdsOfType(t)
    BY <2>1 DEF IdsOfType, SpecIds, specIdVars
  <2>4. IdsByType'
    BY <2>1, <2>3 DEF IdsByType, specIdVars
  <2>5. \A x \in localSpecIds : x[1] \in Kernels /\ x[2] \in Nat
    BY DEF SpecIdTypeOK
  <2>6. \A x \in localSpecIds : x[2] \in 1..ArgsDone("spec_ids", x[1])'
    BY <2>5, <1>2, <1>3, <1>4 DEF IdsOfArgs
  <2>7. isTold(localSpecIds)
    BY <1>6, <1>9 DEF IsLocalArg, TheArg
  <2>8. IdsOfArgs'
    BY <2>1, <2>3, <2>5, <2>6, <2>7, <1>1, <1>5, <1>10 DEF IdsOfArgs, specIdVars, isTold
  <2>9. ListOK' /\ IdsListed'
    BY <2>1, <2>3, ListUntouched DEF IdsListed, specIdVars
  <2>. QED  BY <1>2, <2>2, <2>4, <2>8, <2>9
<1>7. CASE ~(Skipped(TheArg) \/ TheArg.kind # "local")
  <2>. PICK type : type = TheArg.type
    OBVIOUS
  <2>. DEFINE reuse == ReusableAt(type) # {}
              id == IF reuse THEN FirstReusable(type) ELSE nextSpecId
  <2>1. /\ IF reuse THEN UNCHANGED <<nextSpecId, specConstants>>
           ELSE AllocateSpecConstants(<<"local_memory_size">>)
        /\ functionAllocations' = Append(functionAllocations, <<type, id>>)
        /\ functionSpecIds' = functionSpecIds \cup {id}
        /\ localSpecIds' = localSpecIds \cup {<<kernel, arg, id>>}
        /\ specIdTypes' = specIdTypes
    BY <1>7 DEF AllocateSpecId
  <2>2. type \in Types /\ TypeOfArg(kernel, arg) = type
    BY <1>4 DEF Args, TypeOfArg, TheArg
  <2>3. reuse => id \in SpecIds(specIdTypes, type) /\ id \notin functionSpecIds
    <3>. SUFFICES ASSUME reuse
                  PROVE  id \in SpecIds(specIdTypes, type) /\ id \notin functionSpecIds
      OBVIOUS
    <3>1. ReusableAt(type) \subseteq Nat
      BY DEF ReusableAt, SpecIdTypeOK
    <3>2. \E i \in ReusableAt(type) : \A j \in ReusableAt(type) : i <= j
      BY <3>1, LeastNatural
    <3>3. PICK i \in ReusableAt(type) : FirstReusable(type) = specIdTypes[i][2]
      BY <3>2 DEF FirstReusable
    <3>. QED  BY <3>3 DEF ReusableAt, SpecIds
  <2>4. /\ id \in Nat /\ id >= FirstSpecId /\ id < nextSpecId'
        /\ nextSpecId' \in Nat /\ nextSpecId' >= nextSpecId
        /\ nextSpecId \in Nat /\ FirstSpecId \in Nat
    <3>1. CASE reuse
      <4>1. id \in Nat /\ FirstSpecId <= id /\ id < nextSpecId
        BY <3>1, <2>2, <2>3 DEF IdsByType, IdsOfType
      <4>. QED  BY <4>1, <3>1, <2>1 DEF SpecIdTypeOK, FirstSpecId
    <3>2. CASE ~reuse
      <4>1. nextSpecId' = nextSpecId + 1
        BY <3>2, <2>1 DEF AllocateSpecConstants
      <4>. QED  BY <4>1, <3>2 DEF SpecIdTypeOK, FirstSpecId
    <3>. QED  BY <3>1, <3>2
  <2>. HIDE DEF reuse, id
  <2>5. /\ SpecIdTypeOK'
        /\ functionAllocations \in Seq(Types \X Nat)
    BY <2>1, <2>2, <2>4, <1>4, AppendProperties DEF SpecIdTypeOK
  <2>6. \A t : IdsOfType(t)' = IdsOfType(t) \cup {n \in {id} : type = t}
    <3>1. functionAllocations \in Seq(Types \X Nat) /\ type \in Types /\ id \in Nat
      BY <2>2, <2>4, <2>5
    <3>2. functionAllocations' = Append(functionAllocations, <<type, id>>)
      BY <2>1
    <3>3. \A t : SpecIds(functionAllocations', t) =
                    SpecIds(functionAllocations, t) \cup {n \in {id} : type = t}
      <4>1. \A u \in Types, n \in Nat : \A b, t :
               b = Append(functionAllocations, <<u, n>>) =>
                   SpecIds(b, t) = SpecIds(functionAllocations, t) \cup {m \in {n} : u = t}
        BY <3>1, SpecIdsAppend
      <4>2. \A n \in Nat : \A b, t :
               b = Append(functionAllocations, <<type, n>>) =>
                   SpecIds(b, t) = SpecIds(functionAllocations, t) \cup {m \in {n} : type = t}
        BY <3>1, <4>1
      <4>3. \A b, t :
               b = Append(functionAllocations, <<type, id>>) =>
                   SpecIds(b, t) = SpecIds(functionAllocations, t) \cup {m \in {id} : type = t}
        BY <3>1, <4>2
      <4>. QED  BY <3>2, <4>3
    <3>. QED  BY <3>3, <2>1 DEF IdsOfType
  <2>7. \A t \in Types : id \in IdsOfType(t) => t = type
    <3>. SUFFICES ASSUME NEW t \in Types, id \in IdsOfType(t) PROVE t = type
      OBVIOUS
    <3>1. id < nextSpecId
      BY <2>4 DEF IdsByType
    <3>2. reuse
      BY <3>1, <2>4 DEF id
    <3>3. id \in IdsOfType(type)
      BY <3>2, <2>3 DEF IdsOfType
    <3>. QED  BY <3>3, <2>2 DEF IdsByType
  <2>8. IdsByType'
    <3>1. ASSUME NEW t \in Types, NEW x \in IdsOfType(t)'
          PROVE  x \in Nat /\ FirstSpecId <= x /\ x < nextSpecId'
      <4>1. CASE x \in IdsOfType(t)
        <5>1. x \in Nat /\ FirstSpecId <= x /\ x < nextSpecId
          BY <4>1 DEF IdsByType
        <5>. QED  BY <5>1, <2>4
      <4>2. CASE x = id
        BY <4>2, <2>4
      <4>. QED  BY <4>1, <4>2, <2>6
    <3>2. ASSUME NEW t \in Types, NEW u \in Types,
                 NEW x, x \in IdsOfType(t)', x \in IdsOfType(u)'
          PROVE  t = u
      <4>1. CASE x = id
        BY <4>1, <3>2, <2>6, <2>7
      <4>2. CASE x # id
        BY <4>2, <3>2, <2>6 DEF IdsByType
      <4>. QED  BY <4>1, <4>2
    <3>. QED  BY <3>1, <3>2 DEF IdsByType
  <2>9. IdsOfArgs'
    <3>. PICK new : new = <<kernel, arg, id>>
      OBVIOUS
    <3>1. new[1] = kernel /\ new[2] = arg /\ new[3] = id
      OBVIOUS
    <3>2. localSpecIds' = localSpecIds \cup {new}
      BY <2>1
    <3>3. ASSUME NEW x \in localSpecIds
          PROVE  /\ x[1] \in Kernels /\ x[2] \in Nat
                 /\ x[2] \in 1..ArgsDone("spec_ids", x[1])'
                 /\ IsLocalArg(x[1], x[2])
                 /\ TypeOfArg(x[1], x[2]) \in Types
                 /\ x[3] \in IdsOfType(TypeOfArg(x[1], x[2]))
                 /\ x[1] = kernel => x[3] \in functionSpecIds /\ x[2] < arg
      <4>1. x[1] \in Kernels /\ x[2] \in Nat
        BY DEF SpecIdTypeOK
      <4>2. x[2] \in 1..ArgsDone("spec_ids", x[1])
        BY DEF IdsOfArgs
      <4>3. x[1] = kernel => x[2] < arg
        BY <4>1, <4>2, <1>2, <1>4
      <4>. QED  BY <4>1, <4>2, <4>3, <1>1, <1>3, <1>4 DEF IdsOfArgs
    <3>4. /\ new[2] \in 1..ArgsDone("spec_ids", new[1])' /\ IsLocalArg(new[1], new[2])
          /\ TypeOfArg(new[1], new[2]) \in Types
          /\ new[3] \in IdsOfType(type)' /\ TypeOfArg(new[1], new[2]) = type
      <4>1. ArgsDone("spec_ids", new[1])' = arg
        BY <3>1, <1>3, <1>4
      <4>2. new[2] \in 1..ArgsDone("spec_ids", new[1])'
        BY <4>1, <3>1, <1>4
      <4>3. TypeOfArg(new[1], new[2]) = type
        BY <3>1, <2>2
      <4>4. IsLocalArg(new[1], new[2])
        BY <3>1, <1>7 DEF IsLocalArg, TheArg
      <4>. QED  BY <4>2, <4>3, <4>4, <3>1, <2>2, <2>6
    <3>5. ASSUME NEW x \in localSpecIds, x[1] = kernel PROVE x[3] # id
      <4>1. CASE reuse
        BY <4>1, <3>5, <3>3, <2>3
      <4>2. CASE ~reuse
        <5>1. x[3] < nextSpecId
          BY <3>3, <2>4 DEF IdsByType
        <5>. QED  BY <4>2, <5>1, <2>4 DEF id
      <4>. QED  BY <4>1, <4>2
    <3>6. \A x, y \in localSpecIds' : x[1] = y[1] /\ x[3] = y[3] => x = y
      BY <3>1, <3>2, <3>5 DEF IdsOfArgs
    <3>7. ASSUME NEW x \in localSpecIds'
          PROVE  /\ x[2] \in 1..ArgsDone("spec_ids", x[1])' /\ IsLocalArg(x[1], x[2])
                 /\ TypeOfArg(x[1], x[2]) \in Types
                 /\ \E t \in Types : t = TypeOfArg(x[1], x[2]) /\ x[3] \in IdsOfType(t)'
                 /\ x[1] = kernel => x[3] \in functionSpecIds'
      <4>1. CASE x \in localSpecIds
        BY <4>1, <3>3, <2>1, <2>6
      <4>2. CASE x = new
        <5>1. x[3] \in IdsOfType(type)' /\ TypeOfArg(x[1], x[2]) = type
          BY <4>2, <3>4
        <5>. QED  BY <4>2, <5>1, <3>1, <3>4, <2>1
      <4>. QED  BY <4>1, <4>2, <3>2
    <3>8. \A x \in localSpecIds' : TypeOfArg(x[1], x[2])' = TypeOfArg(x[1], x[2])
      BY <1>5
    <3>9. isTold(localSpecIds')
      BY <3>1, <3>2, <1>9
    <3>. QED  BY <3>6, <3>7, <3>8, <3>9, <1>1, <1>10 DEF IdsOfArgs, isTold
  <2>10. /\ ListOK' /\ ToSet(specConstants) \subseteq ToSet(specConstants')
         /\ <<"local_memory_size", id>> \in ToSet(specConstants')
    <3>1. CASE reuse
      BY <3>1, <2>1, <2>2, <2>3, ListUntouched DEF IdsListed, IdsOfType
    <3>2. CASE ~reuse
      <4>. DEFINE kinds == <<"local_memory_size">>
      <4>1. kinds \in Seq(SpecKinds) /\ Len(kinds) = 1 /\ kinds[1] = "local_memory_size"
        BY DEF SpecKinds
      <4>2. AllocateSpecConstants(kinds)
        BY <3>2, <2>1
      <4>. HIDE DEF kinds
      <4>3. /\ ListOK'
            /\ ToSet(specConstants') = ToSet(specConstants) \cup
                   {<<kinds[i], nextSpecId + (i - 1)>> : i \in 1..Len(kinds)}
        BY <4>1, <4>2, AllocatedIds
      <4>4. <<kinds[1], nextSpecId + (1 - 1)>> \in ToSet(specConstants')
        BY <4>1, <4>3
      <4>5. nextSpecId + (1 - 1) = id
        BY <3>2, <2>4 DEF id
      <4>. QED  BY <4>1, <4>3, <4>4, <4>5
    <3>. QED  BY <3>1, <3>2
  <2>11. IdsListed'
    BY <2>6, <2>10 DEF IdsListed
  <2>. QED  BY <1>2, <2>5, <2>8, <2>9, <2>10, <2>11
<1>. QED  BY <1>6, <1>7
LEMMA EndOfArgsSpecIdInv == SpecIdInv /\ EndOfArgs => SpecIdInv'
<1>. SUFFICES ASSUME SpecIdInv, EndOfArgs PROVE SpecIdInv'
  OBVIOUS
<1>. USE DEF SpecIdInv
<1>1. /\ pc \in Loops /\ NextKernel /\ arg > NumArgs(kernel)
      /\ UNCHANGED <<program, options, nextSpecId, specConstants, localSpecIds>>
      /\ specIdTypes' = specIdTypes \o functionAllocations
      /\ functionAllocations' = <<>>
  BY DEF EndOfArgs, Loops
<1>2. /\ Located'
      /\ \A k \in Kernels : ArgsDone("spec_ids", k)' = ArgsDone("spec_ids", k)
  BY <1>1, NextKernelArgs DEF Loops
<1>3. SpecIdTypeOK'
  BY <1>1, ConcatProperties DEF SpecIdTypeOK
<1>4. \A t : IdsOfType(t)' = IdsOfType(t)
  <2>1. ASSUME NEW t PROVE IdsOfType(t)' = IdsOfType(t)
    <3>1. SpecIds(specIdTypes \o functionAllocations, t)
             = SpecIds(specIdTypes, t) \cup SpecIds(functionAllocations, t)
      <4>1. /\ specIdTypes \in Seq(Types \X Nat)
            /\ functionAllocations \in Seq(Types \X Nat)
        BY DEF SpecIdTypeOK
      <4>. QED  BY <4>1, SpecIdsConcat
    <3>2. SpecIds(specIdTypes', t) = SpecIds(specIdTypes \o functionAllocations, t)
      BY <1>1
    <3>3. SpecIds(functionAllocations', t) = {}
      BY <1>1, SpecIdsEmpty
    <3>. QED  BY <3>1, <3>2, <3>3 DEF IdsOfType
  <2>. QED  BY <2>1
<1>5. IdsByType'
  BY <1>1, <1>4 DEF IdsByType
<1>6. \A x \in localSpecIds : x[1] \in Kernels
  BY DEF SpecIdTypeOK
<1>7. \A k, a : TypeOfArg(k, a)' = TypeOfArg(k, a)
  BY <1>1 DEF TypeOfArg
<1>8. ASSUME pc' = "spec_ids", NEW k \in Kernels, k = kernel'
      PROVE  ArgsDone("spec_ids", k)' = 0
  <2>1. arg' = 1
    BY <1>1 DEF NextKernel
  <2>. QED  BY <1>8, <2>1 DEF ArgsDone, Earlier
<1>9. ASSUME NEW x \in localSpecIds, pc' = "spec_ids" PROVE x[1] # kernel'
  <2>1. x[2] \in 1..ArgsDone("spec_ids", x[1])'
    BY <1>2, <1>6 DEF IdsOfArgs
  <2>2. x[1] = kernel' => ArgsDone("spec_ids", x[1])' = 0
    BY <1>6, <1>8, <1>9
  <2>. QED  BY <2>1, <2>2
<1>10. IdsOfArgs'
  <2>1. ASSUME NEW x \in localSpecIds
        PROVE  /\ x[2] \in 1..ArgsDone("spec_ids", x[1])' /\ IsLocalArg(x[1], x[2])
               /\ TypeOfArg(x[1], x[2])' \in Types
               /\ x[3] \in IdsOfType(TypeOfArg(x[1], x[2]))'
    BY <1>2, <1>4, <1>6, <1>7 DEF IdsOfArgs
  <2>2. \A k, i : IsLocalArg(k, i)' = IsLocalArg(k, i)
    BY <1>1 DEF IsLocalArg, Skipped
  <2>. QED  BY <2>1, <2>2, <1>1, <1>2, <1>9 DEF IdsOfArgs
<1>11. ListOK' /\ IdsListed'
  BY <1>1, <1>4, ListUntouched DEF IdsListed
<1>. QED  BY <1>2, <1>3, <1>5, <1>10, <1>11

LEMMA NextSpecIdInv == SpecIdInv /\ [Next]_vars => SpecIdInv'
<1>. SUFFICES ASSUME SpecIdInv, [Next]_vars PROVE SpecIdInv'
  OBVIOUS
<1>1. CASE AllocateLiteralSamplers
  <2>1. /\ Located' /\ UNCHANGED <<program, options, specIdVars>> /\ pc' # "spec_ids"
        /\ \A k \in Kernels : ArgsDone("spec_ids", k)' = ArgsDone("spec_ids", k)
    BY <1>1, ArgLists
    DEF AllocateLiteralSamplers, SpecIdInv, Located, Loops, ArgsDone, Earlier, NumArgs
  <2>. QED  BY <2>1, SpecIdsUntouched
<1>2. CASE ClassifyArg \/ AssignSharedArg \/ RewriteArg
  <2>1. /\ pc \in Loops /\ pc # "spec_ids" /\ arg <= NumArgs(kernel) /\ arg' = arg + 1
        /\ UNCHANGED <<program, options, pc, kernel, specIdVars>>
        /\ pc = "assign" => ~options.distinctSets
    BY <1>2 DEF ClassifyArg, AssignSharedArg, RewriteArg, Loops
  <2>2. /\ Located'
        /\ \A k \in Kernels : ArgsDone("spec_ids", k)' = ArgsDone("spec_ids", k)
    BY <2>1, NextArg DEF SpecIdInv, Loops
  <2>. QED  BY <2>1, <2>2, SpecIdsUntouched
<1>3. CASE AssignDistinctSet
  <2>1. /\ pc = "assign" /\ options.distinctSets /\ NextKernel
        /\ UNCHANGED <<program, options, specIdVars>>
    BY <1>3 DEF AssignDistinctSet
  <2>2. pc' # "spec_ids"
    BY <2>1 DEF NextKernel, FollowingLoop
  <2>3. /\ Located'
        /\ \A k \in Kernels : ArgsDone("spec_ids", k)' = ArgsDone("spec_ids", k)
    BY <2>1, NextKernelArgs DEF SpecIdInv, Loops
  <2>. QED  BY <2>1, <2>2, <2>3, SpecIdsUntouched
<1>4. CASE AllocateSpecId
  BY <1>4, AllocateSpecIdInv
<1>5. CASE EndOfArgs
  BY <1>5, EndOfArgsSpecIdInv
<1>6. CASE UNCHANGED vars
  <2>1. /\ UNCHANGED <<program, options, pc, kernel, arg, specIdVars>>
    BY <1>6 DEF vars
  <2>2. /\ Located'
        /\ \A k \in Kernels : ArgsDone("spec_ids", k)' = ArgsDone("spec_ids", k)
    BY <2>1 DEF SpecIdInv, Located, ArgsDone, NumArgs
  <2>. QED  BY <2>1, <2>2, SpecIdsUntouched
<1>. QED  BY <1>1, <1>2, <1>3, <1>4, <1>5, <1>6 DEF Next, Finished

(***************************************************************************)
(* No two __local arguments of a kernel are sized by one SpecId, and no    *)
(* SpecId sizes arguments of two types, whatever the kernels, their        *)
(* arguments and the options (AllocateLocalKernelArgSpecIds).              *)
(***************************************************************************)
THEOREM LocalArgsAreSizedApart == Spec => []LocalArgsSizedApart
<1>1. SpecIdInv => LocalArgsSizedApart
  BY DEF SpecIdInv, IdsByType, IdsOfArgs, LocalArgsSizedApart, SpecIdTypeOK
<1>. QED  BY <1>1, SpecIdInvInit, NextSpecIdInv, PTL DEF Spec
-----------------------------------------------------------------------------
(* Positions of arguments in the lists. *)

LEMMA PositionStep ==
    ASSUME NEW k, NEW i \in Nat
    PROVE  /\ Position(k, i) \in Nat
           /\ Position(k, 0) = 0
           /\ Position(k, i + 1) = IF Skipped(program.args[k][i + 1])
                                   THEN Position(k, i) ELSE Position(k, i) + 1
<1>. DEFINE S(n) == {j \in 1..n : ~Skipped(program.args[k][j])}
<1>1. \A n \in Nat : IsFiniteSet(S(n)) /\ Cardinality(S(n)) \in Nat
  BY SubsetOfInterval
<1>2. Cardinality(S(0)) = 0
  <2>1. S(0) = {}
    OBVIOUS
  <2>. QED  BY <2>1, FS_EmptySet
<1>3. CASE Skipped(program.args[k][i + 1])
  <2>1. S(i + 1) = S(i)
    BY <1>3
  <2>. QED  BY <1>1, <1>2, <1>3, <2>1 DEF Position
<1>4. CASE ~Skipped(program.args[k][i + 1])
  <2>1. S(i + 1) = S(i) \cup {i + 1} /\ i + 1 \notin S(i)
    BY <1>4
  <2>2. Cardinality(S(i + 1)) = Cardinality(S(i)) + 1
    BY <1>1, <2>1, FS_AddElement
  <2>. QED  BY <1>1, <1>2, <1>4, <2>2 DEF Position
<1>. QED  BY <1>3, <1>4

LEMMA PositionOrder ==
    ASSUME NEW k, NEW i \in Nat, NEW j \in Nat
    PROVE  /\ i <= j => Position(k, i) <= Position(k, j)
           /\ i < j /\ ~Skipped(program.args[k][j]) => Position(k, i) < Position(k, j)
<1>. DEFINE S(n) == {h \in 1..n : ~Skipped(program.args[k][h])}
<1>1. \A n \in Nat : IsFiniteSet(S(n)) /\ Cardinality(S(n)) \in Nat
  BY SubsetOfInterval
<1>2. ASSUME i <= j PROVE S(i) \subseteq S(j)
  BY <1>2
<1>3. ASSUME i <= j PROVE /\ Cardinality(S(i)) <= Cardinality(S(j))
                          /\ Cardinality(S(i)) = Cardinality(S(j)) => S(i) = S(j)
  BY <1>1, <1>2, <1>3, FS_Subset
<1>4. ASSUME i < j, ~Skipped(program.args[k][j]) PROVE S(i) # S(j)
  <2>1. j \in S(j) /\ j \notin S(i)
    BY <1>4
  <2>. QED  BY <2>1
<1>. HIDE DEF S
<1>5. i < j /\ ~Skipped(program.args[k][j]) => Cardinality(S(i)) < Cardinality(S(j))
  BY <1>1, <1>3, <1>4
<1>6. Position(k, i) = Cardinality(S(i)) /\ Position(k, j) = Cardinality(S(j))
  BY DEF Position, S
<1>. QED  BY <1>3, <1>5, <1>6

\* An argument that is not skipped is the only one at its position.
LEMMA PositionOfArg ==
    ASSUME NEW k, NEW n \in Nat, NEW i \in 1..n, ~Skipped(program.args[k][i])
    PROVE  /\ Position(k, i) \in 1..Position(k, n)
           /\ Position(k, i) = Position(k, i - 1) + 1
           /\ \A j \in 1..n : ~Skipped(program.args[k][j]) /\ i # j
                                   => Position(k, i) # Position(k, j)
<1>1. i - 1 \in Nat /\ i \in Nat /\ i <= n /\ (i - 1) + 1 = i
  OBVIOUS
<1>2. Position(k, i) = Position(k, i - 1) + 1 /\ Position(k, i - 1) \in Nat
  BY <1>1, PositionStep
<1>3. Position(k, i) <= Position(k, n) /\ Position(k, n) \in Nat
  BY <1>1, PositionOrder, PositionStep
<1>4. ASSUME NEW j \in 1..n, ~Skipped(program.args[k][j]), i # j
      PROVE  Position(k, i) # Position(k, j)
  <2>1. Position(k, j) \in Nat /\ Position(k, i) \in Nat
    BY PositionStep
  <2>2. CASE i < j
    BY <2>1, <2>2, <1>4, PositionOrder
  <2>3. CASE j < i
    BY <2>1, <2>3, PositionOrder
  <2>. QED  BY <2>2, <2>3, <1>4
<1>. QED  BY <1>2, <1>3, <1>4

LEMMA PositionStays ==
    ASSUME UNCHANGED <<program, options>>
    PROVE  /\ \A a : Skipped(a)' = Skipped(a)
           /\ \A k, i : Position(k, i)' = Position(k, i)
<1>1. \A a : Skipped(a)' = Skipped(a)
  BY DEF Skipped
<1>2. \A k, i : Position(k, i)' = Position(k, i)
  BY <1>1 DEF Position
<1>. QED  BY <1>1, <1>2
-----------------------------------------------------------------------------
(* Sets and bindings: each step preserves the invariant. *)

LEMMA IInvInit == Init => IInv
<1>. SUFFICES ASSUME Init PROVE IInv
  OBVIOUS
<1>1. Located /\ \A loop \in Loops, k \in Kernels : ArgsDone(loop, k) = 0
  BY InitLocated
<1>2. DescriptorTypeOK
  BY DEF Init, DescriptorTypeOK, Unallocated
<1>3. SamplerSet /\ SharedSet /\ CallsByLists
  BY FS_EmptySet DEF Init, SamplerSet, SharedSet, CallsByLists
<1>4. SharedBindings
  <2>1. DOMAIN allKernelsBinding = {}
    BY DEF Init
  <2>. QED  BY <2>1, FS_EmptySet DEF SharedBindings
<1>5. Classified /\ Assigned
  <2>1. \A k \in Kernels : discriminants[k] = <<>> /\ setAndBinding[k] = <<>>
    BY DEF Init
  <2>2. \A k \in Kernels : Position(k, 0) = 0
    BY PositionStep
  <2>. QED  BY <1>1, <2>1, <2>2 DEF Classified, Assigned, Loops
<1>. QED  BY <1>1, <1>2, <1>3, <1>4, <1>5 DEF IInv

\* What the invariant says of a loop that has not begun.
LEMMA NothingDone ==
    ASSUME NEW loop \in Loops, NEW k \in Kernels, pc \in Earlier[loop]
    PROVE  ArgsDone(loop, k) = 0
BY DEF ArgsDone

\* Sets are taken in order, and none is given back.
LEMMA ArgSetsStay ==
    ASSUME nextSet \in Nat, nextSet' \in Nat, nextSet' >= nextSet, UNCHANGED samplerCalls
    PROVE  \A set : IsArgSet(set) => IsArgSet(set)'
BY DEF IsArgSet

LEMMA SamplersUntouched ==
    ASSUME SamplerSet, nextSet \in Nat, nextSet' \in Nat, nextSet' >= nextSet,
           UNCHANGED <<program, samplerCalls>>,
           pc' # "samplers" \/ UNCHANGED <<pc, nextSet>>
    PROVE  SamplerSet'
<1>1. \A i : SamplerBinding(i)' = SamplerBinding(i)
  BY DEF SamplerBinding
<1>2. samplerCalls # {} => nextSet' # 0
  BY DEF SamplerSet
<1>. QED  BY <1>1, <1>2 DEF SamplerSet

LEMMA ClassifiedUntouched ==
    ASSUME Classified, UNCHANGED <<program, options, keys, discriminants>>,
           \A k \in Kernels : ArgsDone("classify", k)' = ArgsDone("classify", k)
    PROVE  Classified'
<1>1. /\ \A a : Skipped(a)' = Skipped(a)
      /\ \A k, i : Position(k, i)' = Position(k, i)
  BY PositionStays
<1>2. \A k, i : InfoOf(k, i)' = InfoOf(k, i)
  BY <1>1 DEF InfoOf
<1>3. \A k, i : IsClassified(k, i)' = IsClassified(k, i)
  BY <1>2 DEF IsClassified
<1>. QED  BY <1>1, <1>3 DEF Classified

\* What is known of an argument that has its set and binding stays true.
LEMMA AssignedStays ==
    ASSUME UNCHANGED <<program, options, discriminants>>,
           NEW k, NEW i, IsAssigned(k, i), PairOf(k, i)' = PairOf(k, i),
           \A set : IsArgSet(set) => IsArgSet(set)',
           i \in DOMAIN allKernelsBinding =>
               /\ i \in DOMAIN allKernelsBinding'
               /\ allKernelsBinding'[i] = allKernelsBinding[i],
           PairOf(k, i)[1] = allKernelsSet /\ IsArgSet(allKernelsSet)
               => UNCHANGED allKernelsSet
    PROVE  IsAssigned(k, i)'
<1>1. DescriptorsBefore(k, Position(k, i))' = DescriptorsBefore(k, Position(k, i))
  BY PositionStays DEF DescriptorsBefore
<1>. DEFINE a == program.args[k][i]
            pair == PairOf(k, i)
<1>2. IF IsPushConstant(a) THEN pair[1] = Unallocated ELSE IsArgSet(pair[1])
  BY Zenon DEF IsAssigned
<1>3. IF IsPushConstant(a) THEN pair[1] = Unallocated ELSE IsArgSet(pair[1])'
  BY <1>2
<1>4. (IF IsPushConstant(a) THEN pair[1] = Unallocated ELSE IsArgSet(pair[1]))'
  BY <1>3 DEF IsArgSet
<1>5. options.distinctSets => pair[2] = DescriptorsBefore(k, Position(k, i))
  BY Zenon DEF IsAssigned
<1>6. (options.distinctSets => pair[2] = DescriptorsBefore(k, Position(k, i)))'
  BY <1>1, <1>5
<1>7. ~options.distinctSets =>
         /\ i \in DOMAIN allKernelsBinding /\ pair[2] = allKernelsBinding[i]
         /\ ~IsPushConstant(a) => pair[1] = allKernelsSet
  BY Zenon DEF IsAssigned
<1>8. (~options.distinctSets =>
         /\ i \in DOMAIN allKernelsBinding /\ pair[2] = allKernelsBinding[i]
         /\ ~IsPushConstant(a) => pair[1] = allKernelsSet)'
  BY <1>2, <1>7
<1>. QED  BY <1>4, <1>6, <1>8 DEF IsAssigned

LEMMA AssignedUntouched ==
    ASSUME Assigned,
           UNCHANGED <<program, options, nextSet, samplerCalls, discriminants,
                       allKernelsSet, allKernelsBinding, setAndBinding>>,
           \A k \in Kernels : ArgsDone("assign", k)' = ArgsDone("assign", k)
    PROVE  Assigned'
<1>1. /\ \A a : Skipped(a)' = Skipped(a)
      /\ \A k, i : Position(k, i)' = Position(k, i)
  BY PositionStays
<1>2. \A set : IsArgSet(set) => IsArgSet(set)'
  BY DEF IsArgSet
<1>3. ASSUME NEW k, NEW i, IsAssigned(k, i) PROVE IsAssigned(k, i)'
  <2>1. PairOf(k, i)' = PairOf(k, i)
    BY <1>1 DEF PairOf
  <2>. QED  BY <1>2, <1>3, <2>1, AssignedStays
<1>. QED  BY <1>1, <1>3 DEF Assigned, NeedsNoDescriptor

\* No argument has a set, so the lists are empty.
LEMMA AssignedByNone ==
    ASSUME Assigned, UNCHANGED <<program, options, setAndBinding>>,
           \A k \in Kernels : ArgsDone("assign", k) = 0 /\ ArgsDone("assign", k)' = 0
    PROVE  Assigned'
<1>1. \A k, i : Position(k, i)' = Position(k, i)
  BY PositionStays
<1>. QED  BY <1>1 DEF Assigned

LEMMA NoCalls ==
    ASSUME CallsByLists, \A k \in Kernels : ArgsDone("rewrite", k) = 0
    PROVE  calls = {}
BY DEF CallsByLists

LEMMA CallsUntouched ==
    ASSUME CallsByLists, UNCHANGED <<program, options, discriminants, setAndBinding, calls>>,
           \A k \in Kernels : ArgsDone("rewrite", k)' = ArgsDone("rewrite", k)
    PROVE  CallsByLists'
<1>1. /\ \A a : Skipped(a)' = Skipped(a)
      /\ \A k, i : Position(k, i)' = Position(k, i)
  BY PositionStays
<1>2. \A k, i : CallOf(k, i)' = CallOf(k, i)
  BY <1>1 DEF CallOf, InfoOf, PairOf
<1>. QED  BY <1>1, <1>2 DEF CallsByLists, NeedsNoDescriptor

\* A step that changes no set, no binding and no list of an argument.
LEMMA DescriptorsUntouched ==
    ASSUME IInv, Located', UNCHANGED <<program, options, descriptorVars>>,
           pc' # "samplers" \/ UNCHANGED pc,
           \A loop \in Loops \ {"spec_ids"}, k \in Kernels :
               ArgsDone(loop, k)' = ArgsDone(loop, k)
    PROVE  IInv'
<1>. USE DEF IInv
<1>1. UNCHANGED <<nextSet, samplerCalls, numImageSampler, keys, discriminants,
                  allKernelsSet, allKernelsBinding, setAndBinding, calls>>
  BY DEF descriptorVars
<1>2. DescriptorTypeOK' /\ SharedBindings'
  BY <1>1 DEF DescriptorTypeOK, SharedBindings
<1>3. SamplerSet' /\ SharedSet'
  <2>1. nextSet \in Nat /\ nextSet' = nextSet
    BY <1>1 DEF DescriptorTypeOK
  <2>. QED  BY <1>1, <2>1, SamplersUntouched DEF SharedSet, IsArgSet
<1>4. Classified'
  BY <1>1, ClassifiedUntouched DEF Loops
<1>5. Assigned'
  BY <1>1, AssignedUntouched DEF Loops
<1>6. CallsByLists'
  BY <1>1, CallsUntouched DEF Loops
<1>. QED  BY <1>2, <1>3, <1>4, <1>5, <1>6

LEMMA AllocateLiteralSamplersIInv == IInv /\ AllocateLiteralSamplers => IInv'
<1>. SUFFICES ASSUME IInv, AllocateLiteralSamplers PROVE IInv'
  OBVIOUS
<1>. USE DEF IInv
<1>1. /\ pc = "samplers" /\ pc' = "classify"
      /\ nextSet' = IF program.literals = <<>> THEN nextSet ELSE nextSet + 1
      /\ samplerCalls' = {[value |-> program.literals[i], set |-> nextSet,
                           binding |-> SamplerBinding(i)] :
                              i \in DOMAIN program.literals}
      /\ UNCHANGED <<program, options, kernel, arg, numImageSampler, keys,
                     discriminants, allKernelsSet, allKernelsBinding,
                     setAndBinding, calls>>
  BY DEF AllocateLiteralSamplers
<1>2. nextSet = 0 /\ samplerCalls = {} /\ kernel = 1 /\ arg = 1
  BY <1>1 DEF SamplerSet, Located
<1>3. \A k \in Kernels : NumArgs(k)' = NumArgs(k)
  BY <1>1 DEF NumArgs
<1>4. Located'
  BY <1>1, <1>3 DEF Located, Loops
<1>5. \A loop \in Loops, k \in Kernels :
          ArgsDone(loop, k) = 0 /\ ArgsDone(loop, k)' = 0
  <2>1. \A k \in Kernels : k \in Nat /\ k >= 1
    BY ParametersAssumption DEF Kernels
  <2>. QED  BY <1>1, <1>2, <2>1 DEF ArgsDone, Loops, Earlier
<1>6. DescriptorTypeOK'
  <2>1. nextSet' \in Nat
    BY <1>1, <1>2
  <2>. QED  BY <1>1, <2>1 DEF DescriptorTypeOK
<1>7. SharedSet' /\ SharedBindings'
  <2>1. allKernelsSet = Unallocated
    BY <1>2 DEF SharedSet, IsArgSet
  <2>. QED  BY <1>1, <2>1 DEF SharedSet, SharedBindings
<1>8. SamplerSet'
  <2>1. \A i : SamplerBinding(i)' = SamplerBinding(i)
    BY <1>1 DEF SamplerBinding
  <2>2. samplerCalls' # {} => nextSet' # 0
    <3>1. program.literals = <<>> => DOMAIN program.literals = {}
      BY ArgLists DEF Located
    <3>. QED  BY <1>1, <1>2, <3>1
  <2>3. DOMAIN program.literals' = DOMAIN program.literals
    BY <1>1
  <2>. QED  BY <1>1, <1>2, <2>1, <2>2 DEF SamplerSet
<1>9. Classified'
  BY <1>1, <1>5, ClassifiedUntouched DEF Loops
<1>10. Assigned'
  BY <1>1, <1>5, AssignedByNone DEF Loops
<1>11. CallsByLists'
  BY <1>1, <1>5, CallsUntouched DEF Loops
<1>. QED  BY <1>4, <1>6, <1>7, <1>8, <1>9, <1>10, <1>11

LEMMA IndexOfKey ==
    ASSUME DescriptorTypeOK, NEW key \in Keys
    PROVE  /\ IndexOf(key) \in Nat
           /\ \/ IndexOf(key) = Len(keys)
              \/ /\ IndexOf(key) + 1 \in DOMAIN keys
                 /\ keys[IndexOf(key) + 1] = key
<1>1. Len(keys) \in Nat /\ DOMAIN keys = 1..Len(keys)
  BY DEF DescriptorTypeOK
<1>2. CASE \E i \in DOMAIN keys : keys[i] = key
  <2>1. PICK i \in DOMAIN keys :
            i = (CHOOSE j \in DOMAIN keys : keys[j] = key) /\ keys[i] = key
    BY <1>2
  <2>2. IndexOf(key) = i - 1
    BY <1>2, <2>1 DEF IndexOf
  <2>. QED  BY <1>1, <2>1, <2>2
<1>3. CASE ~ \E i \in DOMAIN keys : keys[i] = key
  BY <1>1, <1>3 DEF IndexOf
<1>. QED  BY <1>2, <1>3

LEMMA ClassifyArgIInv == IInv /\ ClassifyArg => IInv'
<1>. SUFFICES ASSUME IInv, ClassifyArg PROVE IInv'
  OBVIOUS
<1>. USE DEF IInv
<1>1. /\ pc = "classify" /\ arg <= NumArgs(kernel) /\ arg' = arg + 1
      /\ UNCHANGED <<program, options, pc, kernel, nextSet, samplerCalls,
                     allKernelsSet, allKernelsBinding, setAndBinding, calls>>
  BY DEF ClassifyArg
<1>2. /\ Located'
      /\ ArgsDone("classify", kernel) = arg - 1
      /\ \A loop \in Loops, k \in Kernels :
            ArgsDone(loop, k)' = IF loop = "classify" /\ k = kernel
                                 THEN arg ELSE ArgsDone(loop, k)
  BY <1>1, NextArg DEF Loops
<1>3. /\ kernel \in Kernels /\ arg \in Nat /\ arg - 1 \in Nat /\ (arg - 1) + 1 = arg
      /\ arg \in 1..NumArgs(kernel) /\ TheArg = program.args[kernel][arg]
      /\ TheArg \in Args
  BY <1>1, ArgLists DEF Located, TheArg
<1>4. /\ \A a : Skipped(a)' = Skipped(a)
      /\ \A k, i : Position(k, i)' = Position(k, i)
  BY <1>1, PositionStays
<1>5. \A k \in Kernels : /\ ArgsDone("assign", k) = 0 /\ ArgsDone("assign", k)' = 0
                         /\ ArgsDone("rewrite", k) = 0 /\ ArgsDone("rewrite", k)' = 0
  BY <1>1, <1>2, NothingDone DEF Loops, Earlier
<1>6. SamplerSet' /\ SharedSet' /\ SharedBindings'
  <2>1. nextSet \in Nat /\ nextSet' = nextSet
    BY <1>1 DEF DescriptorTypeOK
  <2>2. SamplerSet'
    BY <1>1, <2>1, SamplersUntouched
  <2>3. SharedSet' /\ SharedBindings'
    BY <1>1 DEF SharedSet, IsArgSet, SharedBindings
  <2>. QED  BY <2>2, <2>3
<1>7. Assigned'
  BY <1>1, <1>5, AssignedByNone
<1>8. CallsByLists'
  BY <1>1, <1>5, NoCalls DEF CallsByLists
<1>9. CASE Skipped(TheArg)
  <2>1. UNCHANGED <<numImageSampler, keys, discriminants>>
    BY <1>9 DEF ClassifyArg
  <2>2. DescriptorTypeOK'
    BY <1>1, <2>1 DEF DescriptorTypeOK
  <2>3. \A k, i : IsClassified(k, i)' = IsClassified(k, i)
    BY <1>1, <1>4, <2>1 DEF IsClassified, InfoOf
  <2>4. Position(kernel, arg) = Position(kernel, arg - 1)
    BY <1>3, <1>9, PositionStep
  <2>5. ASSUME NEW k \in Kernels, NEW i \in 1..ArgsDone("classify", k)',
               ~Skipped(program.args[k][i])
        PROVE  i \in 1..ArgsDone("classify", k)
    BY <2>5, <1>2, <1>3, <1>9 DEF Loops
  <2>6. \A k \in Kernels : Position(k, ArgsDone("classify", k)')
                               = Position(k, ArgsDone("classify", k))
    BY <1>2, <2>4 DEF Loops
  <2>7. Classified'
    BY <1>1, <1>4, <2>1, <2>3, <2>5, <2>6 DEF Classified
  <2>. QED  BY <1>2, <1>6, <1>7, <1>8, <2>2, <2>7
<1>10. CASE ~Skipped(TheArg)
  <2>. DEFINE theKey == Discriminant(TheArg, arg)
              theIndex == IF NeedsNoDescriptor(TheArg) THEN Unallocated
                                                       ELSE IndexOf(theKey)
  <2>1. /\ numImageSampler' = IF IsImageOrSampler(TheArg) THEN numImageSampler + 1
                                                         ELSE numImageSampler
        /\ keys' = IF theIndex = Len(keys) THEN Append(keys, theKey) ELSE keys
        /\ discriminants' = [discriminants EXCEPT ![kernel] =
                                Append(@, [index |-> theIndex, key |-> theKey])]
    BY <1>10 DEF ClassifyArg
  <2>2. PICK key \in Keys : /\ key = theKey /\ key.type = TheArg.type
                            /\ key.argIndex = arg /\ key.coherent = TheArg.coherent
    <3>1. theKey \in Keys
      BY <1>3 DEF Discriminant, Args, Keys, DescriptorTypeOK
    <3>. QED  BY <3>1 DEF Discriminant
  <2>3. /\ IndexOf(key) \in Nat
        /\ \/ IndexOf(key) = Len(keys)
           \/ /\ IndexOf(key) + 1 \in DOMAIN keys
              /\ keys[IndexOf(key) + 1] = key
    BY IndexOfKey
  <2>4. PICK index \in Int :
            /\ index = theIndex
            /\ index = Unallocated <=> NeedsNoDescriptor(TheArg)
            /\ index # Unallocated =>
                  \/ index = Len(keys)
                  \/ index + 1 \in DOMAIN keys /\ keys[index + 1] = key
    <3>1. theIndex \in Int /\ (theIndex = Unallocated <=> NeedsNoDescriptor(TheArg))
      BY <2>2, <2>3 DEF Unallocated
    <3>. QED  BY <2>2, <2>3, <3>1
  <2>5. /\ keys' = IF index = Len(keys) THEN Append(keys, key) ELSE keys
        /\ discriminants' = [discriminants EXCEPT ![kernel] =
                                Append(@, [index |-> index, key |-> key])]
    BY <2>1, <2>2, <2>4
  <2>. HIDE DEF theKey, theIndex
  <2>6. PICK info \in [index : Int, key : Keys] :
            /\ info = [index |-> index, key |-> key]
            /\ info.index = index /\ info.key = key
    <3>. DEFINE info == [index |-> index, key |-> key]
    <3>1. info \in [index : Int, key : Keys]
      BY <2>2, <2>4, Zenon
    <3>2. info.index = index /\ info.key = key
      OBVIOUS
    <3>. QED  BY <3>1, <3>2
  <2>7. /\ discriminants \in [Kernels -> Seq([index : Int, key : Keys])]
        /\ discriminants' = [discriminants EXCEPT ![kernel] = Append(@, info)]
    BY <2>5, <2>6 DEF DescriptorTypeOK
  <2>8. DescriptorTypeOK'
    <3>1. numImageSampler' \in Nat
      BY <2>1 DEF DescriptorTypeOK
    <3>2. keys' \in Seq(Keys)
      BY <2>5 DEF DescriptorTypeOK
    <3>3. discriminants' \in [Kernels -> Seq([index : Int, key : Keys])]
      <4>1. Append(discriminants[kernel], info) \in Seq([index : Int, key : Keys])
        <5>1. discriminants[kernel] \in Seq([index : Int, key : Keys])
          BY <2>7, <1>3
        <5>2. ASSUME NEW S, NEW s \in Seq(S), NEW e \in S PROVE Append(s, e) \in Seq(S)
          OBVIOUS
        <5>. QED  BY <2>6, <5>1, <5>2
      <4>. QED  BY <2>7, <1>3, <4>1, Zenon
    <3>. QED  BY <1>1, <3>1, <3>2, <3>3 DEF DescriptorTypeOK
  <2>9. \A i \in DOMAIN keys : i \in DOMAIN keys' /\ keys'[i] = keys[i]
    BY <2>5 DEF DescriptorTypeOK
  <2>10. index # Unallocated => index + 1 \in DOMAIN keys' /\ keys'[index + 1] = key
    <3>1. keys \in Seq(Keys)
      BY DEF DescriptorTypeOK
    <3>2. index = Len(keys) => index + 1 \in DOMAIN keys' /\ keys'[index + 1] = key
      BY <2>5, <3>1
    <3>. QED  BY <2>4, <2>9, <3>2
  <2>11. Position(kernel, arg) = Position(kernel, arg - 1) + 1
    BY <1>3, <1>10, PositionStep
  <2>12. /\ Len(discriminants[kernel]) = Position(kernel, arg - 1)
         /\ Position(kernel, arg - 1) \in Nat
         /\ discriminants'[kernel] = Append(discriminants[kernel], info)
         /\ discriminants[kernel] \in Seq([index : Int, key : Keys])
         /\ \A k \in Kernels : k # kernel => discriminants'[k] = discriminants[k]
    BY <1>2, <1>3, <2>7, PositionStep DEF Classified
  <2>13. ASSUME NEW k \in Kernels, NEW i \in 1..ArgsDone("classify", k),
                ~Skipped(program.args[k][i])
         PROVE  InfoOf(k, i)' = InfoOf(k, i)
    <3>1. CASE k = kernel
      <4>1. Position(k, i) \in 1..Position(k, arg - 1)
        BY <1>2, <1>3, <2>13, <3>1, PositionOfArg
      <4>. QED  BY <1>4, <2>12, <3>1, <4>1 DEF InfoOf
    <3>2. CASE k # kernel
      BY <1>4, <2>12, <3>2 DEF InfoOf
    <3>. QED  BY <3>1, <3>2
  <2>14. ASSUME NEW k \in Kernels, NEW i \in 1..ArgsDone("classify", k),
                ~Skipped(program.args[k][i])
         PROVE  IsClassified(k, i)'
    <3>1. IsClassified(k, i)
      BY <2>14 DEF Classified
    <3>. QED  BY <1>1, <2>9, <2>13, <2>14, <3>1 DEF IsClassified
  <2>15. PICK k0 \in Kernels, i0 \in Nat : k0 = kernel /\ i0 = arg
    BY <1>3
  <2>16. IsClassified(k0, i0)'
    <3>1. Position(k0, i0)' = Len(discriminants[k0]) + 1
      BY <1>4, <2>11, <2>12, <2>15
    <3>2. discriminants'[k0][Len(discriminants[k0]) + 1] = info
      <4>1. ASSUME NEW S, NEW s \in Seq(S), NEW e PROVE Append(s, e)[Len(s) + 1] = e
        OBVIOUS
      <4>. QED  BY <2>12, <2>15, <4>1
    <3>3. InfoOf(k0, i0)' = info
      BY <3>1, <3>2 DEF InfoOf
    <3>4. /\ InfoOf(k0, i0)'.index = index /\ InfoOf(k0, i0)'.key = key
          /\ program'.args[k0][i0] = TheArg
      BY <1>1, <1>3, <2>6, <2>15, <3>3
    <3>. QED  BY <1>1, <2>2, <2>4, <2>10, <2>15, <3>4
         DEF IsClassified, NeedsNoDescriptor
  <2>17. ASSUME NEW k \in Kernels
         PROVE  Len(discriminants'[k]) = Position(k, ArgsDone("classify", k)')
    <3>1. CASE k = kernel
      BY <1>2, <2>11, <2>12, <3>1 DEF Loops
    <3>2. CASE k # kernel
      BY <1>2, <2>12, <3>2 DEF Loops, Classified
    <3>. QED  BY <3>1, <3>2
  <2>18. ASSUME NEW k \in Kernels, NEW i \in 1..ArgsDone("classify", k)'
         PROVE  i \in 1..ArgsDone("classify", k) \/ (k = k0 /\ i = i0)
    BY <1>2, <1>3, <2>15 DEF Loops
  <2>19. Classified'
    <3>1. \A k \in Kernels : Position(k, ArgsDone("classify", k))'
                                 = Position(k, ArgsDone("classify", k)')
      BY <1>4
    <3>2. ASSUME NEW k \in Kernels, NEW i \in 1..ArgsDone("classify", k)',
                 ~Skipped(program.args[k][i])
          PROVE  IsClassified(k, i)'
      BY <2>14, <2>16, <2>18, <3>2
    <3>. QED  BY <1>1, <1>4, <2>17, <3>1, <3>2 DEF Classified
  <2>. QED  BY <1>2, <1>6, <1>7, <1>8, <2>8, <2>19
<1>. QED  BY <1>9, <1>10

LEMMA BindingForNext ==
    ASSUME SharedBindings, NEW n \in Nat,
           allKernelsBinding' = [i \in DOMAIN allKernelsBinding \cup {n} |-> BindingFor(i)]
    PROVE  /\ SharedBindings'
           /\ n \in DOMAIN allKernelsBinding' /\ allKernelsBinding'[n] = BindingFor(n)
           /\ BindingFor(n) \in Nat
           /\ \A i \in DOMAIN allKernelsBinding :
                 /\ i \in DOMAIN allKernelsBinding'
                 /\ allKernelsBinding'[i] = allKernelsBinding[i]
<1>. PICK D : D = DOMAIN allKernelsBinding
  OBVIOUS
<1>. PICK b : b = allKernelsBinding
  OBVIOUS
<1>. PICK c : c = allKernelsBinding'
  OBVIOUS
<1>1. /\ D \subseteq Nat /\ IsFiniteSet(D) /\ Cardinality(D) \in Nat
      /\ \A i \in D : b[i] \in Nat /\ b[i] < Cardinality(D)
      /\ \A i, j \in D : b[i] = b[j] => i = j
  BY FS_CardinalityType DEF SharedBindings
<1>2. /\ DOMAIN c = D \cup {n}
      /\ \A i \in D \cup {n} : c[i] = IF i \in D THEN b[i] ELSE Cardinality(D)
      /\ BindingFor(n) = IF n \in D THEN b[n] ELSE Cardinality(D)
  BY DEF BindingFor
<1>3. CASE n \in D
  <2>1. D \cup {n} = D
    BY <1>3
  <2>2. SharedBindings'
    BY <1>1, <1>2, <2>1 DEF SharedBindings
  <2>. QED  BY <1>1, <1>2, <1>3, <2>2
<1>4. CASE n \notin D
  <2>1. IsFiniteSet(D \cup {n}) /\ Cardinality(D \cup {n}) = Cardinality(D) + 1
    BY <1>1, <1>4, FS_AddElement
  <2>2. \A i \in D \cup {n} : c[i] \in Nat /\ c[i] < Cardinality(D) + 1
    <3>1. ASSUME NEW i \in D PROVE c[i] \in Nat /\ c[i] < Cardinality(D) + 1
      <4>1. c[i] = b[i] /\ b[i] \in Nat /\ b[i] < Cardinality(D)
        BY <1>1, <1>2
      <4>. QED  BY <1>1, <4>1
    <3>2. c[n] = Cardinality(D)
      BY <1>2, <1>4
    <3>. QED  BY <1>1, <3>1, <3>2
  <2>3. \A i, j \in D \cup {n} : c[i] = c[j] => i = j
    <3>1. \A i \in D : c[i] = b[i] /\ b[i] \in Nat /\ b[i] < Cardinality(D)
      BY <1>1, <1>2
    <3>2. c[n] = Cardinality(D) /\ Cardinality(D) \in Nat
      BY <1>1, <1>2, <1>4
    <3>3. \A i \in D : c[i] # c[n]
      <4>1. \A x, y \in Nat : x < y => x # y
        OBVIOUS
      <4>. QED  BY <3>1, <3>2, <4>1
    <3>. QED  BY <1>1, <3>1, <3>3
  <2>4. SharedBindings'
    BY <1>1, <1>2, <2>1, <2>2, <2>3 DEF SharedBindings
  <2>. QED  BY <1>1, <1>2, <1>4, <2>4
<1>. QED  BY <1>3, <1>4

\* Once the discriminants are known, what they are for an argument.
LEMMA AllClassified ==
    ASSUME IInv, pc \in {"assign", "rewrite", "spec_ids", "done"}, NEW k \in Kernels
    PROVE  /\ ArgsDone("classify", k) = NumArgs(k)
           /\ Len(discriminants[k]) = Position(k, NumArgs(k))
           /\ \A i \in 1..NumArgs(k) : ~Skipped(program.args[k][i]) => IsClassified(k, i)
<1>1. ArgsDone("classify", k) = NumArgs(k)
  BY DEF ArgsDone, Earlier
<1>. QED  BY <1>1 DEF IInv, Classified

LEMMA AssignSharedArgIInv == IInv /\ AssignSharedArg => IInv'
<1>. SUFFICES ASSUME IInv, AssignSharedArg PROVE IInv'
  OBVIOUS
<1>. USE DEF IInv
<1>1. /\ pc = "assign" /\ ~options.distinctSets
      /\ arg <= NumArgs(kernel) /\ arg' = arg + 1
      /\ UNCHANGED <<program, options, pc, kernel, samplerCalls,
                     numImageSampler, keys, discriminants, calls>>
  BY DEF AssignSharedArg
<1>2. /\ Located'
      /\ ArgsDone("assign", kernel) = arg - 1
      /\ \A loop \in Loops, k \in Kernels :
            ArgsDone(loop, k)' = IF loop = "assign" /\ k = kernel
                                 THEN arg ELSE ArgsDone(loop, k)
  BY <1>1, NextArg DEF Loops
<1>3. PICK k0 \in Kernels, i0 \in Nat :
          /\ k0 = kernel /\ i0 = arg
          /\ i0 - 1 \in Nat /\ (i0 - 1) + 1 = i0
          /\ i0 \in 1..NumArgs(k0) /\ TheArg = program.args[k0][i0]
          /\ TheArg \in Args
  BY <1>1, ArgLists DEF Located, TheArg
<1>4. /\ \A a : Skipped(a)' = Skipped(a)
      /\ \A k, i : Position(k, i)' = Position(k, i)
  BY <1>1, PositionStays
<1>5. Classified'
  BY <1>1, <1>2, ClassifiedUntouched DEF Loops
<1>6. CallsByLists'
  <2>1. \A k \in Kernels : ArgsDone("rewrite", k) = 0
    BY <1>1, NothingDone DEF Loops, Earlier
  <2>. QED  BY <1>1, <2>1, NoCalls DEF CallsByLists
<1>7. /\ Len(setAndBinding[k0]) = Position(k0, i0 - 1) /\ Position(k0, i0 - 1) \in Nat
      /\ setAndBinding \in [Kernels -> Seq(Int \X Int)]
  BY <1>2, <1>3, PositionStep DEF Assigned, DescriptorTypeOK
<1>8. \A k \in Kernels : Position(k, ArgsDone("assign", k))'
                             = Position(k, ArgsDone("assign", k)')
  BY <1>4
<1>9. CASE Skipped(TheArg)
  <2>1. UNCHANGED <<nextSet, allKernelsBinding, allKernelsSet, setAndBinding>>
    BY <1>9 DEF AssignSharedArg
  <2>2. DescriptorTypeOK' /\ SharedSet' /\ SharedBindings' /\ SamplerSet'
    <3>1. nextSet \in Nat
      BY DEF DescriptorTypeOK
    <3>2. DescriptorTypeOK' /\ SharedSet' /\ SharedBindings'
      BY <1>1, <2>1 DEF DescriptorTypeOK, SharedSet, IsArgSet, SharedBindings
    <3>3. SamplerSet'
      BY <1>1, <2>1, <3>1, SamplersUntouched
    <3>. QED  BY <3>2, <3>3
  <2>3. \A k \in Kernels : Position(k, ArgsDone("assign", k)')
                               = Position(k, ArgsDone("assign", k))
    <3>1. Position(k0, i0) = Position(k0, i0 - 1)
      BY <1>3, <1>9, PositionStep
    <3>. QED  BY <1>2, <1>3, <3>1 DEF Loops
  <2>4. ASSUME NEW k \in Kernels, NEW i \in 1..ArgsDone("assign", k)',
               ~Skipped(program.args[k][i]), ~NeedsNoDescriptor(program.args[k][i])
        PROVE  IsAssigned(k, i)'
    <3>1. IsAssigned(k, i)
      <4>1. i \in 1..ArgsDone("assign", k)
        BY <1>2, <1>3, <1>9, <2>4 DEF Loops
      <4>. QED  BY <2>4, <4>1 DEF Assigned
    <3>2. PairOf(k, i)' = PairOf(k, i)
      BY <1>4, <2>1 DEF PairOf
    <3>3. \A set : IsArgSet(set) => IsArgSet(set)'
      BY <1>1, <2>1 DEF IsArgSet
    <3>. QED  BY <1>1, <2>1, <3>1, <3>2, <3>3, AssignedStays
  <2>5. Assigned'
    BY <1>1, <1>4, <1>8, <2>1, <2>3, <2>4 DEF Assigned, NeedsNoDescriptor
  <2>. QED  BY <1>2, <1>5, <1>6, <2>2, <2>5
<1>10. CASE ~Skipped(TheArg)
  <2>1. /\ Position(k0, i0) = Position(k0, i0 - 1) + 1
        /\ Position(k0, i0) = Len(setAndBinding[k0]) + 1
    BY <1>3, <1>7, <1>10, PositionStep
  <2>2. PICK allocate \in BOOLEAN :
            /\ allocate = (discriminants[kernel][Len(setAndBinding[kernel]) + 1].index
                               # Unallocated)
            /\ allocate <=> ~NeedsNoDescriptor(TheArg)
    <3>1. IsClassified(k0, i0)
      BY <1>1, <1>3, <1>10, AllClassified
    <3>. QED  BY <1>3, <2>1, <3>1 DEF IsClassified, InfoOf
  <2>3. PICK take \in BOOLEAN :
            take = (~IsPushConstant(TheArg) /\ allKernelsSet = Unallocated)
    OBVIOUS
  <2>4. PICK set \in Int :
            set = IF IsPushConstant(TheArg) THEN Unallocated
                  ELSE IF take THEN nextSet ELSE allKernelsSet
    BY DEF DescriptorTypeOK, Unallocated
  <2>5. PICK pair : pair = IF allocate THEN <<set, BindingFor(arg)>>
                                       ELSE <<Unallocated, Unallocated>>
    OBVIOUS
  <2>6. setAndBinding' = [setAndBinding EXCEPT ![k0] = Append(@, pair)]
    BY <1>3, <1>10, <2>2, <2>3, <2>4, <2>5 DEF AssignSharedArg
  <2>7. /\ nextSet \in Nat /\ nextSet' \in Nat /\ nextSet' >= nextSet
        /\ allKernelsSet' \in Int /\ pair \in Int \X Int
        /\ \A s : IsArgSet(s) => IsArgSet(s)'
        /\ SharedSet' /\ SharedBindings'
        /\ \A i \in DOMAIN allKernelsBinding :
              /\ i \in DOMAIN allKernelsBinding'
              /\ allKernelsBinding'[i] = allKernelsBinding[i]
        /\ IsArgSet(allKernelsSet) => UNCHANGED allKernelsSet
        /\ allocate =>
              /\ i0 \in DOMAIN allKernelsBinding' /\ pair[2] = allKernelsBinding'[i0]
              /\ IF IsPushConstant(TheArg) THEN pair[1] = Unallocated
                 ELSE IsArgSet(pair[1])' /\ pair[1] = allKernelsSet'
    <3>1. CASE ~allocate
      <4>1. UNCHANGED <<nextSet, allKernelsBinding, allKernelsSet>>
        BY <2>2, <3>1 DEF AssignSharedArg
      <4>2. pair \in Int \X Int
        BY <2>5, <3>1 DEF Unallocated
      <4>3. SharedSet' /\ SharedBindings' /\ \A s : IsArgSet(s) => IsArgSet(s)'
        BY <1>1, <4>1 DEF SharedSet, SharedBindings, IsArgSet
      <4>. QED  BY <3>1, <4>1, <4>2, <4>3 DEF DescriptorTypeOK
    <3>2. CASE allocate
      <4>1. /\ allKernelsBinding' =
                   [i \in DOMAIN allKernelsBinding \cup {i0} |-> BindingFor(i)]
            /\ IF take THEN allKernelsSet' = nextSet /\ nextSet' = nextSet + 1
                       ELSE UNCHANGED <<allKernelsSet, nextSet>>
        BY <1>3, <1>10, <2>2, <2>3, <3>2 DEF AssignSharedArg
      <4>2. /\ SharedBindings'
            /\ i0 \in DOMAIN allKernelsBinding' /\ allKernelsBinding'[i0] = BindingFor(i0)
            /\ BindingFor(i0) \in Nat
            /\ \A i \in DOMAIN allKernelsBinding :
                  /\ i \in DOMAIN allKernelsBinding'
                  /\ allKernelsBinding'[i] = allKernelsBinding[i]
        BY <4>1, BindingForNext
      <4>3. pair = <<set, BindingFor(i0)>> /\ pair \in Int \X Int
        BY <1>3, <2>4, <2>5, <3>2, <4>2
      <4>4. nextSet \in Nat /\ allKernelsSet \in Int
        BY DEF DescriptorTypeOK
      <4>5. samplerCalls # {} => nextSet # 0
        BY DEF SamplerSet
      <4>6. CASE take
        <5>1. allKernelsSet' = nextSet /\ nextSet' = nextSet + 1 /\ allKernelsSet = -1
          BY <2>3, <4>1, <4>6 DEF Unallocated
        <5>2. ~IsPushConstant(TheArg) /\ set = nextSet
          BY <2>3, <2>4, <4>6
        <5>3. IsArgSet(set)' /\ SharedSet' /\ \A s : IsArgSet(s) => IsArgSet(s)'
          BY <1>1, <4>4, <4>5, <5>1, <5>2 DEF IsArgSet, SharedSet
        <5>4. ~IsArgSet(allKernelsSet)
          BY <5>1 DEF IsArgSet
        <5>5. pair[1] = set /\ pair[2] = BindingFor(i0)
          BY <4>3
        <5>6. IsArgSet(pair[1])'
          BY <5>3, <5>5
        <5>. QED  BY <4>2, <4>3, <4>4, <5>1, <5>2, <5>3, <5>4, <5>5, <5>6
      <4>7. CASE ~take
        <5>1. UNCHANGED <<allKernelsSet, nextSet>>
          BY <4>1, <4>7
        <5>2. SharedSet' /\ \A s : IsArgSet(s) => IsArgSet(s)'
          BY <1>1, <5>1 DEF IsArgSet, SharedSet
        <5>3. pair[1] = set /\ pair[2] = BindingFor(i0)
          BY <4>3
        <5>4. IF IsPushConstant(TheArg) THEN pair[1] = Unallocated
              ELSE IsArgSet(pair[1]) /\ pair[1] = allKernelsSet
          BY <2>3, <2>4, <4>7, <5>3 DEF SharedSet
        <5>5. IF IsPushConstant(TheArg) THEN pair[1] = Unallocated
              ELSE IsArgSet(pair[1])' /\ pair[1] = allKernelsSet'
          BY <5>1, <5>2, <5>4
        <5>. QED  BY <4>2, <4>3, <4>4, <5>1, <5>2, <5>3, <5>5
      <4>. QED  BY <4>6, <4>7
    <3>. QED  BY <3>1, <3>2
  <2>8. DescriptorTypeOK'
    <3>1. setAndBinding' \in [Kernels -> Seq(Int \X Int)]
      <4>1. ASSUME NEW S, NEW s \in Seq(S), NEW e \in S PROVE Append(s, e) \in Seq(S)
        OBVIOUS
      <4>2. Append(setAndBinding[k0], pair) \in Seq(Int \X Int)
        BY <1>7, <2>7, <4>1
      <4>. QED  BY <1>7, <2>6, <4>2, Zenon
    <3>. QED  BY <1>1, <2>7, <3>1 DEF DescriptorTypeOK
  <2>9. SamplerSet'
    BY <1>1, <2>7, SamplersUntouched
  <2>10. /\ setAndBinding'[k0] = Append(setAndBinding[k0], pair)
         /\ \A k \in Kernels : k # k0 => setAndBinding'[k] = setAndBinding[k]
    BY <1>7, <2>6
  <2>11. ASSUME NEW S, NEW s \in Seq(S), NEW e
         PROVE  /\ Len(Append(s, e)) = Len(s) + 1
                /\ Append(s, e)[Len(s) + 1] = e
                /\ \A i \in 1..Len(s) : Append(s, e)[i] = s[i]
    OBVIOUS
  <2>12. ASSUME NEW k \in Kernels
         PROVE  Len(setAndBinding'[k]) = Position(k, ArgsDone("assign", k)')
    <3>1. CASE k = k0
      BY <1>2, <1>3, <1>7, <2>1, <2>10, <2>11, <3>1 DEF Loops
    <3>2. CASE k # k0
      BY <1>2, <1>3, <2>10, <3>2 DEF Loops, Assigned
    <3>. QED  BY <3>1, <3>2
  <2>13. ASSUME NEW k \in Kernels, NEW i \in 1..ArgsDone("assign", k),
                ~Skipped(program.args[k][i]), ~NeedsNoDescriptor(program.args[k][i])
         PROVE  IsAssigned(k, i)'
    <3>1. IsAssigned(k, i)
      BY <2>13 DEF Assigned
    <3>2. PairOf(k, i)' = PairOf(k, i)
      <4>1. CASE k = k0
        <5>1. Position(k, i) \in 1..Position(k, i0 - 1)
          BY <1>2, <1>3, <2>13, <4>1, PositionOfArg
        <5>. QED  BY <1>4, <1>7, <2>10, <2>11, <4>1, <5>1 DEF PairOf
      <4>2. CASE k # k0
        BY <1>4, <2>10, <4>2 DEF PairOf
      <4>. QED  BY <4>1, <4>2
    <3>. QED  BY <1>1, <2>7, <3>1, <3>2, AssignedStays
  <2>14. ASSUME allocate PROVE IsAssigned(k0, i0)'
    <3>1. PairOf(k0, i0)' = pair
      BY <1>4, <1>7, <2>1, <2>10, <2>11 DEF PairOf
    <3>2. program'.args[k0][i0] = TheArg /\ ~options'.distinctSets
      BY <1>1, <1>3
    <3>3. IF IsPushConstant(TheArg) THEN PairOf(k0, i0)'[1] = Unallocated
          ELSE (IsArgSet(PairOf(k0, i0)[1]))'
      BY <2>7, <2>14, <3>1 DEF IsArgSet
    <3>4. /\ i0 \in DOMAIN allKernelsBinding'
          /\ PairOf(k0, i0)'[2] = allKernelsBinding'[i0]
          /\ ~IsPushConstant(TheArg) => PairOf(k0, i0)'[1] = allKernelsSet'
      BY <2>7, <2>14, <3>1
    <3>. QED  BY <3>2, <3>3, <3>4 DEF IsAssigned, IsPushConstant
  <2>15. ASSUME NEW k \in Kernels, NEW i \in 1..ArgsDone("assign", k)'
         PROVE  i \in 1..ArgsDone("assign", k) \/ (k = k0 /\ i = i0)
    BY <1>2, <1>3 DEF Loops
  <2>16. Assigned'
    <3>1. ASSUME NEW k \in Kernels, NEW i \in 1..ArgsDone("assign", k)',
                 ~Skipped(program.args[k][i]), ~NeedsNoDescriptor(program.args[k][i])
          PROVE  IsAssigned(k, i)'
      BY <1>3, <2>2, <2>13, <2>14, <2>15, <3>1
    <3>. QED  BY <1>1, <1>4, <1>8, <2>12, <3>1 DEF Assigned, NeedsNoDescriptor
  <2>. QED  BY <1>2, <1>5, <1>6, <2>7, <2>8, <2>9, <2>16
<1>. QED  BY <1>9, <1>10

\* With distinct sets the arguments in use are those that are not skipped.
LEMMA UsedArgsNotSkipped ==
    ASSUME OneWalkOfArgs, options \in Options, program \in Programs,
           options.distinctSets, NEW k \in Kernels
    PROVE  /\ Cardinality(UsedArgs(k)) = Position(k, NumArgs(k))
           /\ \A i \in 1..NumArgs(k) :
                 ~Skipped(program.args[k][i])
                     => UsedArg(k, Position(k, i)) = program.args[k][i]
<1>1. NumArgs(k) \in Nat /\ \A a : Skipped(a) <=> ~a.used
  BY ArgLists DEF OneWalkOfArgs, Skipped
<1>2. UsedArgs(k) = {i \in 1..NumArgs(k) : ~Skipped(program.args[k][i])}
  BY <1>1 DEF UsedArgs
<1>3. ASSUME NEW i \in 1..NumArgs(k)
      PROVE  Cardinality({j \in UsedArgs(k) : j <= i}) = Position(k, i)
  <2>1. {j \in UsedArgs(k) : j <= i} = {j \in 1..i : ~Skipped(program.args[k][j])}
    BY <1>1, <1>2
  <2>. QED  BY <2>1 DEF Position
<1>4. ASSUME NEW i \in 1..NumArgs(k), ~Skipped(program.args[k][i])
      PROVE  UsedArg(k, Position(k, i)) = program.args[k][i]
  <2>. DEFINE Here(j) == Cardinality({h \in UsedArgs(k) : h <= j}) = Position(k, i)
  <2>1. i \in UsedArgs(k) /\ Here(i)
    BY <1>2, <1>3, <1>4
  <2>2. ASSUME NEW j \in UsedArgs(k), Here(j) PROVE j = i
    BY <1>1, <1>2, <1>3, <1>4, <2>2, PositionOfArg
  <2>. HIDE DEF Here
  <2>3. (CHOOSE j \in UsedArgs(k) : Here(j)) = i
    BY <2>1, <2>2
  <2>. QED  BY <2>3 DEF UsedArg, Here
<1>. QED  BY <1>2, <1>4 DEF Position

LEMMA AssignDistinctSetIInv == OneWalkOfArgs /\ IInv /\ AssignDistinctSet => IInv'
<1>. SUFFICES ASSUME OneWalkOfArgs, IInv, AssignDistinctSet PROVE IInv'
  OBVIOUS
<1>. USE DEF IInv
<1>1. /\ pc = "assign" /\ options.distinctSets
      /\ nextSet' = nextSet + 1 /\ nextSet \in Nat
      /\ NextKernel
      /\ UNCHANGED <<program, options, samplerCalls, numImageSampler, keys,
                     discriminants, allKernelsSet, allKernelsBinding, calls>>
  BY DEF AssignDistinctSet, DescriptorTypeOK
<1>2. PICK k0 \in Kernels :
          /\ k0 = kernel /\ NumArgs(k0) \in Nat
          /\ Len(discriminants[k0]) = Position(k0, NumArgs(k0))
          /\ \A i \in 1..NumArgs(k0) :
                ~Skipped(program.args[k0][i]) => IsClassified(k0, i)
  BY <1>1, AllClassified, ArgLists DEF Located
<1>3. /\ Located'
      /\ \A loop \in Loops, k \in Kernels :
            ArgsDone(loop, k)' = IF loop = "assign" /\ k = k0
                                 THEN NumArgs(k0) ELSE ArgsDone(loop, k)
  BY <1>1, <1>2, NextKernelArgs DEF Loops
<1>4. /\ \A a : Skipped(a)' = Skipped(a)
      /\ \A k, i : Position(k, i)' = Position(k, i)
      /\ \A k \in Kernels : Position(k, ArgsDone("assign", k))'
                                = Position(k, ArgsDone("assign", k)')
  BY <1>1, PositionStays
<1>5. \A s : IsArgSet(s) => IsArgSet(s)'
  BY <1>1 DEF IsArgSet
<1>6. SharedSet' /\ SharedBindings'
  BY <1>1, <1>5 DEF SharedSet, SharedBindings, IsArgSet
<1>7. SamplerSet'
  <2>1. pc' # "samplers"
    BY <1>1 DEF NextKernel, FollowingLoop
  <2>. QED  BY <1>1, <2>1, SamplersUntouched
<1>8. Classified'
  BY <1>1, <1>3, ClassifiedUntouched DEF Loops
<1>9. CallsByLists'
  <2>1. \A k \in Kernels : ArgsDone("rewrite", k) = 0
    BY <1>1, NothingDone DEF Loops, Earlier
  <2>. QED  BY <1>1, <2>1, NoCalls DEF CallsByLists
<1>. PICK info : info = discriminants[k0]
  OBVIOUS
<1>. DEFINE n == Position(k0, NumArgs(k0))
            pair(i) ==
              IF info[i].index = Unallocated THEN <<Unallocated, Unallocated>>
              ELSE <<IF IsPushConstant(UsedArg(k0, i)) THEN Unallocated ELSE nextSet,
                     Cardinality({j \in 1..(i - 1) : info[j].index # Unallocated})>>
<1>10. /\ Cardinality(UsedArgs(k0)) = n /\ n \in Nat
       /\ setAndBinding' = [setAndBinding EXCEPT ![k0] = [i \in 1..n |-> pair(i)]]
  <2>1. Cardinality(UsedArgs(k0)) = n /\ n \in Nat
    BY <1>1, <1>2, UsedArgsNotSkipped, PositionStep DEF Located
  <2>. QED  BY <1>2, <2>1 DEF AssignDistinctSet
<1>11. \A i \in 1..n : pair(i) \in Int \X Int
  <2>1. ASSUME NEW i \in 1..n
        PROVE  Cardinality({j \in 1..(i - 1) : info[j].index # Unallocated}) \in Nat
    <3>1. i - 1 \in Nat
      BY <1>10
    <3>2. {j \in 1..(i - 1) : info[j].index # Unallocated} \in SUBSET (1..(i - 1))
      OBVIOUS
    <3>. QED  BY <3>1, <3>2, SubsetOfInterval, Zenon
  <2>. QED  BY <1>1, <2>1 DEF Unallocated
<1>12. PICK pairs : pairs = [i \in 1..n |-> pair(i)]
  OBVIOUS
<1>13. pairs \in Seq(Int \X Int) /\ Len(pairs) = n /\ \A i \in 1..n : pairs[i] = pair(i)
  <2>. HIDE DEF n, pair
  <2>1. pairs \in [1..n -> Int \X Int]
    BY <1>11, <1>12
  <2>2. \A i \in 1..n : pairs[i] = pair(i)
    BY <1>12
  <2>. QED  BY <1>10, <2>1, <2>2
<1>14. setAndBinding' = [setAndBinding EXCEPT ![k0] = pairs]
  BY <1>10, <1>12
<1>15. /\ setAndBinding \in [Kernels -> Seq(Int \X Int)]
       /\ setAndBinding'[k0] = pairs
       /\ \A k \in Kernels : k # k0 => setAndBinding'[k] = setAndBinding[k]
  <2>. HIDE DEF n, pair
  <2>. QED  BY <1>14 DEF DescriptorTypeOK
<1>16. DescriptorTypeOK'
  <2>. HIDE DEF n, pair
  <2>1. setAndBinding' \in [Kernels -> Seq(Int \X Int)]
    BY <1>13, <1>14, <1>15
  <2>2. nextSet' \in Nat
    BY <1>1
  <2>. QED  BY <1>1, <2>1, <2>2 DEF DescriptorTypeOK
<1>17. ASSUME NEW i \in 1..NumArgs(k0), ~Skipped(program.args[k0][i]),
              ~NeedsNoDescriptor(program.args[k0][i])
       PROVE  IsAssigned(k0, i)'
  <2>1. PICK p : p = Position(k0, i)
    OBVIOUS
  <2>2. p \in 1..n /\ UsedArg(k0, p) = program.args[k0][i]
    BY <1>1, <1>2, <1>17, <2>1, UsedArgsNotSkipped, PositionOfArg DEF Located
  <2>3. info[p].index # Unallocated
    BY <1>2, <1>17, <2>1 DEF IsClassified, InfoOf
  <2>4. pairs[p] = <<IF IsPushConstant(program.args[k0][i]) THEN Unallocated ELSE nextSet,
                     DescriptorsBefore(k0, p)>>
    BY <1>13, <2>2, <2>3 DEF DescriptorsBefore
  <2>. HIDE DEF n, pair
  <2>5. PairOf(k0, i)' = pairs[p]
    BY <1>4, <1>15, <2>1 DEF PairOf
  <2>7. PICK s : s = nextSet /\ IsArgSet(s)'
    BY <1>1 DEF IsArgSet, SamplerSet
  <2>8. DescriptorsBefore(k0, Position(k0, i))' = DescriptorsBefore(k0, p)
    BY <1>1, <1>4, <2>1 DEF DescriptorsBefore
  <2>9. PICK pr : pr = pairs[p] /\ pr[2] = DescriptorsBefore(k0, p)
                  /\ pr[1] = IF IsPushConstant(program.args[k0][i]) THEN Unallocated ELSE s
    BY <2>4, <2>7
  <2>10. IF IsPushConstant(program.args[k0][i]) THEN pr[1] = Unallocated
         ELSE IsArgSet(pr[1])'
    BY <2>7, <2>9
  <2>11. PairOf(k0, i)' = pr
    BY <2>5, <2>9
  <2>12. (IF IsPushConstant(program.args[k0][i]) THEN PairOf(k0, i)[1] = Unallocated
          ELSE IsArgSet(PairOf(k0, i)[1]))'
    BY <1>1, <2>10, <2>11 DEF IsArgSet, IsPushConstant
  <2>13. options'.distinctSets /\ PairOf(k0, i)'[2] = DescriptorsBefore(k0, Position(k0, i))'
    BY <1>1, <2>8, <2>9, <2>11
  <2>. QED  BY <2>12, <2>13 DEF IsAssigned
<1>. HIDE DEF n, pair
<1>18. ASSUME NEW k \in Kernels, k # k0, NEW i \in 1..ArgsDone("assign", k),
              ~Skipped(program.args[k][i]), ~NeedsNoDescriptor(program.args[k][i])
       PROVE  IsAssigned(k, i)'
  <2>1. IsAssigned(k, i)
    BY <1>18 DEF Assigned
  <2>2. PairOf(k, i)' = PairOf(k, i)
    BY <1>4, <1>15, <1>18 DEF PairOf
  <2>. QED  BY <1>1, <1>5, <2>1, <2>2, AssignedStays
<1>19. Assigned'
  <2>1. ASSUME NEW k \in Kernels, NEW i \in 1..ArgsDone("assign", k)',
               ~Skipped(program.args[k][i]), ~NeedsNoDescriptor(program.args[k][i])
        PROVE  IsAssigned(k, i)'
    BY <1>3, <1>17, <1>18, <2>1 DEF Loops
  <2>2. ASSUME NEW k \in Kernels
        PROVE  Len(setAndBinding'[k]) = Position(k, ArgsDone("assign", k)')
    <3>1. CASE k = k0
      BY <1>3, <1>13, <1>15, <3>1 DEF Loops, n
    <3>2. CASE k # k0
      BY <1>3, <1>15, <3>2 DEF Loops, Assigned
    <3>. QED  BY <3>1, <3>2
  <2>. QED  BY <1>1, <1>4, <2>1, <2>2 DEF Assigned, NeedsNoDescriptor
<1>. QED  BY <1>3, <1>6, <1>7, <1>8, <1>9, <1>16, <1>19

LEMMA RewriteArgIInv == IInv /\ RewriteArg => IInv'
<1>. SUFFICES ASSUME IInv, RewriteArg PROVE IInv'
  OBVIOUS
<1>. USE DEF IInv
<1>1. /\ pc = "rewrite" /\ arg <= NumArgs(kernel) /\ arg' = arg + 1
      /\ UNCHANGED <<program, options, pc, kernel, nextSet, samplerCalls,
                     numImageSampler, keys, discriminants, allKernelsSet,
                     allKernelsBinding, setAndBinding>>
  BY DEF RewriteArg
<1>2. PICK k0 \in Kernels, i0 \in Nat :
          /\ k0 = kernel /\ i0 = arg /\ i0 - 1 \in Nat
          /\ i0 \in 1..NumArgs(k0) /\ TheArg = program.args[k0][i0]
          /\ NumArgs(k0) \in Nat
  BY <1>1, ArgLists DEF Located, TheArg
<1>3. /\ Located'
      /\ ArgsDone("rewrite", k0) = i0 - 1
      /\ \A loop \in Loops, k \in Kernels :
            ArgsDone(loop, k)' = IF loop = "rewrite" /\ k = k0
                                 THEN i0 ELSE ArgsDone(loop, k)
  BY <1>1, <1>2, NextArg DEF Loops
<1>4. DescriptorTypeOK' /\ SharedSet' /\ SharedBindings'
  BY <1>1 DEF DescriptorTypeOK, SharedSet, IsArgSet, SharedBindings
<1>5. SamplerSet'
  <2>1. nextSet \in Nat /\ nextSet' = nextSet
    BY <1>1 DEF DescriptorTypeOK
  <2>. QED  BY <1>1, <2>1, SamplersUntouched
<1>6. Classified'
  BY <1>1, <1>3, ClassifiedUntouched DEF Loops
<1>7. Assigned'
  BY <1>1, <1>3, AssignedUntouched DEF Loops
<1>8. /\ \A a : Skipped(a)' = Skipped(a)
      /\ \A k, i : CallOf(k, i)' = CallOf(k, i)
  BY <1>1, PositionStays DEF CallOf, InfoOf, PairOf
<1>9. \A c \in calls' : \/ c \in calls
                        \/ /\ ~Skipped(TheArg) /\ ~NeedsNoDescriptor(TheArg)
                           /\ c = CallOf(k0, i0)
  <2>1. CASE Skipped(TheArg)
    BY <2>1 DEF RewriteArg
  <2>2. CASE ~Skipped(TheArg)
    <3>1. IsClassified(k0, i0)
      BY <1>1, <1>2, <2>2, AllClassified
    <3>2. discriminants[kernel][Position(kernel, arg)] = InfoOf(k0, i0)
      BY <1>2 DEF InfoOf
    <3>3. CASE InfoOf(k0, i0).index = Unallocated
      BY <3>2, <3>3 DEF RewriteArg
    <3>4. CASE InfoOf(k0, i0).index # Unallocated
      <4>1. ~NeedsNoDescriptor(TheArg)
        BY <1>2, <3>1, <3>4 DEF IsClassified
      <4>2. ArgsDone("assign", k0) = NumArgs(k0)
        BY <1>1 DEF ArgsDone, Earlier
      <4>3. Position(k0, i0) \in DOMAIN setAndBinding[k0]
        <5>1. Position(k0, i0) \in 1..Position(k0, NumArgs(k0))
          BY <1>2, <2>2, PositionOfArg
        <5>2. Len(setAndBinding[k0]) = Position(k0, NumArgs(k0))
          BY <4>2 DEF Assigned
        <5>. QED  BY <5>1, <5>2 DEF DescriptorTypeOK
      <4>4. PairsAt(kernel, Position(kernel, arg)) = {PairOf(k0, i0)}
        BY <1>2, <4>3 DEF PairsAt, PairOf
      <4>5. calls' = calls \cup {CallOf(k0, i0)}
        BY <1>2, <2>2, <3>2, <3>4, <4>4 DEF RewriteArg, CallOf
      <4>. QED  BY <2>2, <4>1, <4>5
    <3>. QED  BY <3>3, <3>4
  <2>. QED  BY <2>1, <2>2
<1>10. CallsByLists'
  <2>1. ASSUME NEW c \in calls'
        PROVE  \E k \in Kernels : \E i \in 1..ArgsDone("rewrite", k)' :
                  /\ ~Skipped(program.args[k][i]) /\ ~NeedsNoDescriptor(program.args[k][i])
                  /\ c = CallOf(k, i)
    <3>1. CASE c \in calls
      <4>1. PICK k \in Kernels : \E i \in 1..ArgsDone("rewrite", k) :
                /\ ~Skipped(program.args[k][i]) /\ ~NeedsNoDescriptor(program.args[k][i])
                /\ c = CallOf(k, i)
        BY <3>1 DEF CallsByLists
      <4>2. \A i \in 1..ArgsDone("rewrite", k) : i \in 1..ArgsDone("rewrite", k)'
        BY <1>2, <1>3 DEF Loops
      <4>. QED  BY <4>1, <4>2
    <3>2. CASE /\ ~Skipped(TheArg) /\ ~NeedsNoDescriptor(TheArg)
               /\ c = CallOf(k0, i0)
      <4>1. i0 \in 1..ArgsDone("rewrite", k0)'
        BY <1>2, <1>3 DEF Loops
      <4>. QED  BY <1>2, <3>2, <4>1
    <3>. QED  BY <1>9, <3>1, <3>2
  <2>2. IsFiniteSet(calls')
    <3>1. calls' \subseteq calls \cup {CallOf(k0, i0)}
      BY <1>9
    <3>2. IsFiniteSet(calls \cup {CallOf(k0, i0)})
      BY FS_AddElement DEF CallsByLists
    <3>. QED  BY <3>1, <3>2, FS_Subset
  <2>. QED  BY <1>1, <1>8, <2>1, <2>2 DEF CallsByLists, NeedsNoDescriptor
<1>. QED  BY <1>3, <1>4, <1>5, <1>6, <1>7, <1>10

LEMMA NextIInv == OneWalkOfArgs /\ IInv /\ [Next]_vars => IInv'
<1>. SUFFICES ASSUME OneWalkOfArgs, IInv, [Next]_vars PROVE IInv'
  OBVIOUS
<1>1. CASE AllocateLiteralSamplers
  BY <1>1, AllocateLiteralSamplersIInv
<1>2. CASE ClassifyArg
  BY <1>2, ClassifyArgIInv
<1>3. CASE AssignDistinctSet
  BY <1>3, AssignDistinctSetIInv
<1>4. CASE AssignSharedArg
  BY <1>4, AssignSharedArgIInv
<1>5. CASE RewriteArg
  BY <1>5, RewriteArgIInv
<1>6. CASE AllocateSpecId
  <2>1. /\ pc = "spec_ids" /\ arg <= NumArgs(kernel) /\ arg' = arg + 1
        /\ UNCHANGED <<program, options, pc, kernel, descriptorVars>>
    BY <1>6 DEF AllocateSpecId
  <2>. QED  BY <2>1, NextArg, DescriptorsUntouched DEF IInv, Loops
<1>7. CASE EndOfArgs
  <2>1. /\ pc \in Loops /\ arg > NumArgs(kernel) /\ NextKernel
        /\ UNCHANGED <<program, options, descriptorVars>>
    BY <1>7 DEF EndOfArgs, Loops
  <2>2. /\ Located'
        /\ \A loop \in Loops, k \in Kernels : ArgsDone(loop, k)' = ArgsDone(loop, k)
    BY <2>1, NextKernelArgs DEF IInv
  <2>3. pc' # "samplers"
    BY <2>1 DEF NextKernel, FollowingLoop, Loops
  <2>. QED  BY <2>1, <2>2, <2>3, DescriptorsUntouched
<1>8. CASE UNCHANGED vars
  <2>1. UNCHANGED <<program, options, pc, kernel, arg, descriptorVars>>
    BY <1>8 DEF vars
  <2>2. /\ Located'
        /\ \A loop \in Loops, k \in Kernels : ArgsDone(loop, k)' = ArgsDone(loop, k)
    BY <2>1 DEF IInv, Located, ArgsDone, NumArgs
  <2>. QED  BY <2>1, <2>2, DescriptorsUntouched
<1>. QED  BY <1>1, <1>2, <1>3, <1>4, <1>5, <1>6, <1>7, <1>8 DEF Next, Finished

(***************************************************************************)
(* As long as its loops agree on what arguments they skip, the lists of    *)
(* AllocateDescriptorsPass have one entry for each argument, at its        *)
(* position, and the accessor calls have what the lists say.               *)
(***************************************************************************)
THEOREM InvariantCorrect ==
    ASSUME OneWalkOfArgs PROVE Spec => []IInv
BY IInvInit, NextIInv, PTL DEF Spec
-----------------------------------------------------------------------------
(* What follows from the invariant. *)

LEMMA CallFacts ==
    ASSUME IInv, NEW c \in calls
    PROVE  /\ pc \in {"rewrite", "spec_ids", "done"}
           /\ c.kernel \in Kernels /\ c.arg \in 1..NumArgs(c.kernel)
           /\ NumArgs(c.kernel) \in Nat
           /\ ~Skipped(program.args[c.kernel][c.arg])
           /\ ~NeedsNoDescriptor(program.args[c.kernel][c.arg])
           /\ c = CallOf(c.kernel, c.arg)
           /\ IsClassified(c.kernel, c.arg) /\ IsAssigned(c.kernel, c.arg)
<1>. USE DEF IInv
<1>1. PICK k \in Kernels : \E i \in 1..ArgsDone("rewrite", k) :
          /\ ~Skipped(program.args[k][i]) /\ ~NeedsNoDescriptor(program.args[k][i])
          /\ c = CallOf(k, i)
  BY DEF CallsByLists
<1>2. PICK i \in 1..ArgsDone("rewrite", k) :
          /\ ~Skipped(program.args[k][i]) /\ ~NeedsNoDescriptor(program.args[k][i])
          /\ c = CallOf(k, i)
  BY <1>1
<1>3. c.kernel = k /\ c.arg = i
  BY <1>2 DEF CallOf
<1>4. arg \in Nat /\ NumArgs(k) \in Nat /\ arg \in 1..(NumArgs(kernel) + 1)
  BY ArgLists DEF Located
<1>5. pc \in {"rewrite", "spec_ids", "done"}
  BY <1>2 DEF ArgsDone, Earlier, Located, Loops
<1>6. i \in 1..NumArgs(k)
  BY <1>2, <1>4 DEF ArgsDone
<1>7. IsClassified(k, i)
  BY <1>2, <1>5, <1>6, AllClassified
<1>8. ArgsDone("assign", k) = NumArgs(k)
  BY <1>5 DEF ArgsDone, Earlier
<1>9. IsAssigned(k, i)
  BY <1>2, <1>6, <1>8 DEF Assigned
<1>. QED  BY <1>2, <1>3, <1>4, <1>5, <1>6, <1>7, <1>9

\* The descriptors before two arguments differ in number.
LEMMA DescriptorsBeforeOrder ==
    ASSUME NEW k, NEW p \in Nat \ {0}, NEW q \in Nat, p < q,
           discriminants[k][p].index # Unallocated
    PROVE  DescriptorsBefore(k, p) # DescriptorsBefore(k, q)
<1>. DEFINE S(n) == {j \in 1..(n - 1) : discriminants[k][j].index # Unallocated}
<1>1. S(p) \subseteq S(q) /\ p \in S(q) /\ p \notin S(p)
  OBVIOUS
<1>2. IsFiniteSet(S(q))
  <2>1. q - 1 \in Nat /\ S(q) \in SUBSET (1..(q - 1))
    OBVIOUS
  <2>. QED  BY <2>1, SubsetOfInterval
<1>. HIDE DEF S
<1>3. Cardinality(S(p)) # Cardinality(S(q))
  BY <1>1, <1>2, FS_Subset
<1>. QED  BY <1>3 DEF DescriptorsBefore, S

(***************************************************************************)
(* However many kernels and arguments there are, and whether the kernels   *)
(* share a set or not, two arguments of a kernel that are in memory or     *)
(* opaque get different descriptors ("we have to use distinct              *)
(* descriptors", AllocateDescriptorsPass.h).                               *)
(***************************************************************************)
THEOREM ArgsGetTheirOwnBinding ==
    ASSUME OneWalkOfArgs PROVE Spec => []ArgsHaveTheirOwnBinding
<1>1. ASSUME IInv, NEW c \in calls, NEW d \in calls,
             c.kernel = d.kernel, c.arg < d.arg,
             c.kind # "pod_pushconstant", d.kind # "pod_pushconstant"
      PROVE  c.binding # d.binding
  <2>. PICK k \in Kernels : k = c.kernel
    BY <1>1, CallFacts
  <2>. PICK i, j : i = c.arg /\ j = d.arg
    OBVIOUS
  <2>1. /\ i \in 1..NumArgs(k) /\ j \in 1..NumArgs(k) /\ NumArgs(k) \in Nat /\ i < j
        /\ ~Skipped(program.args[k][i]) /\ ~Skipped(program.args[k][j])
        /\ ~NeedsNoDescriptor(program.args[k][i])
        /\ IsClassified(k, i) /\ IsAssigned(k, i) /\ IsAssigned(k, j)
        /\ c = CallOf(k, i) /\ d = CallOf(k, j)
    BY <1>1, CallFacts
  <2>2. /\ c.binding = PairOf(k, i)[2] /\ d.binding = PairOf(k, j)[2]
    BY <2>1 DEF CallOf
  <2>3. CASE options.distinctSets
    <3>1. /\ c.binding = DescriptorsBefore(k, Position(k, i))
          /\ d.binding = DescriptorsBefore(k, Position(k, j))
      BY <2>1, <2>2, <2>3 DEF IsAssigned
    <3>2. /\ Position(k, i) \in Nat \ {0} /\ Position(k, j) \in Nat
          /\ Position(k, i) < Position(k, j)
      <4>1. i \in Nat /\ j \in Nat
        BY <2>1
      <4>2. Position(k, i) \in Nat /\ Position(k, j) \in Nat
        BY <4>1, PositionStep
      <4>3. Position(k, i) \in 1..Position(k, NumArgs(k))
        BY <2>1, PositionOfArg
      <4>4. Position(k, i) < Position(k, j)
        BY <2>1, <4>1, PositionOrder
      <4>. QED  BY <4>2, <4>3, <4>4
    <3>3. discriminants[k][Position(k, i)].index # Unallocated
      BY <2>1 DEF IsClassified, InfoOf
    <3>. QED  BY <3>1, <3>2, <3>3, DescriptorsBeforeOrder
  <2>4. CASE ~options.distinctSets
    <3>1. /\ i \in DOMAIN allKernelsBinding /\ c.binding = allKernelsBinding[i]
          /\ j \in DOMAIN allKernelsBinding /\ d.binding = allKernelsBinding[j]
      BY <2>1, <2>2, <2>4 DEF IsAssigned
    <3>2. i # j
      BY <2>1
    <3>. QED  BY <1>1, <3>1, <3>2 DEF IInv, SharedBindings
  <2>. QED  BY <2>3, <2>4
<1>2. ASSUME IInv PROVE ArgsHaveTheirOwnBinding
  <2>1. \A c \in calls : c.arg \in Nat
    BY <1>2, CallFacts
  <2>. QED  BY <1>1, <1>2, <2>1 DEF ArgsHaveTheirOwnBinding
<1>. QED  BY <1>2, InvariantCorrect, PTL

\* Samplers are numbered by the values that came before their own.
LEMMA SamplerBindings ==
    ASSUME Located, NEW i \in DOMAIN program.literals, NEW j \in DOMAIN program.literals
    PROVE  program.literals[i] = program.literals[j] <=> SamplerBinding(i) = SamplerBinding(j)
<1>. DEFINE v == program.literals
<1>1. v \in Seq(ToSet(v)) /\ DOMAIN v = 1..Len(v) /\ Len(v) \in Nat
  BY ArgLists DEF Located
<1>. DEFINE First(n, f) == v[f] = v[n] /\ \A h \in 1..(f - 1) : v[h] # v[n]
            Before(f) == {v[h] : h \in 1..(f - 1)}
<1>2. ASSUME NEW n \in DOMAIN v
      PROVE  \E f \in 1..n : /\ First(n, f)
                             /\ \A g \in 1..n : First(n, g) => g = f
                             /\ SamplerBinding(n) = Cardinality(Before(f))
  <2>1. n \in Nat /\ n \in 1..n
    BY <1>1
  <2>. DEFINE S == {h \in 1..n : v[h] = v[n]}
  <2>2. S \subseteq Nat /\ S # {}
    BY <2>1
  <2>3. PICK f \in S : \A h \in S : f <= h
    <3>. HIDE DEF S
    <3>. QED  BY <2>2, LeastNatural
  <2>4. f \in 1..n /\ First(n, f)
    BY <2>1, <2>3
  <2>5. ASSUME NEW g \in 1..n, First(n, g) PROVE g = f
    BY <2>1, <2>4, <2>5
  <2>. HIDE DEF First, Before
  <2>6. (CHOOSE g \in 1..n : First(n, g)) = f
    BY <2>4, <2>5
  <2>7. SamplerBinding(n) = Cardinality(Before(f))
    BY <2>6 DEF SamplerBinding, First, Before
  <2>. QED  BY <2>4, <2>5, <2>7
<1>3. PICK f \in 1..i : First(i, f) /\ SamplerBinding(i) = Cardinality(Before(f))
  BY <1>2
<1>4. PICK g \in 1..j : First(j, g) /\ SamplerBinding(j) = Cardinality(Before(g))
  BY <1>2
<1>5. /\ i \in 1..Len(v) /\ j \in 1..Len(v) /\ f \in Nat /\ g \in Nat
      /\ f \in 1..Len(v) /\ g \in 1..Len(v)
  BY <1>1
<1>6. CASE v[i] = v[j]
  <2>1. f = g
    BY <1>3, <1>4, <1>5, <1>6
  <2>. QED  BY <1>3, <1>4, <1>6, <2>1
<1>7. ASSUME NEW a \in Nat \ {0}, NEW b \in Nat \ {0}, a < b,
             \A h \in 1..(a - 1) : v[h] # v[a]
      PROVE  Cardinality(Before(a)) # Cardinality(Before(b))
  <2>1. Before(a) \subseteq Before(b) /\ v[a] \in Before(b) /\ v[a] \notin Before(a)
    BY <1>7
  <2>2. IsFiniteSet(Before(b))
    <3>1. IsFiniteSet(1..(b - 1))
      <4>1. b - 1 \in Nat
        BY <1>7
      <4>. QED  BY <4>1, SubsetOfInterval
    <3>2. [h \in 1..(b - 1) |-> v[h]] \in Surjection(1..(b - 1), Before(b))
      BY DEF Surjection
    <3>. QED  BY <3>1, <3>2, FS_Surjection
  <2>. HIDE DEF Before
  <2>. QED  BY <2>1, <2>2, FS_Subset
<1>8. CASE v[i] # v[j]
  <2>1. f # g
    BY <1>3, <1>4, <1>8
  <2>2. /\ \A h \in 1..(f - 1) : v[h] # v[f]
        /\ \A h \in 1..(g - 1) : v[h] # v[g]
    BY <1>3, <1>4
  <2>. HIDE DEF Before, First
  <2>3. Cardinality(Before(f)) # Cardinality(Before(g))
    <3>1. f \in Nat \ {0} /\ g \in Nat \ {0} /\ (f < g \/ g < f)
      BY <1>5, <2>1
    <3>2. CASE f < g
      BY <1>7, <2>2, <3>1, <3>2
    <3>3. CASE g < f
      BY <1>7, <2>2, <3>1, <3>3
    <3>. QED  BY <3>1, <3>2, <3>3
  <2>. QED  BY <1>3, <1>4, <1>8, <2>3
<1>. QED  BY <1>6, <1>8

(***************************************************************************)
(* Literal samplers never share a set with an argument, and two of them    *)
(* share a binding just when they are the same sampler.                    *)
(***************************************************************************)
THEOREM SamplersAreApart ==
    ASSUME OneWalkOfArgs PROVE Spec => []SamplersApart
<1>1. ASSUME IInv PROVE SamplersApart
  <2>1. ASSUME NEW s \in samplerCalls, NEW c \in calls PROVE s.set # c.set
    <3>1. s.set = 0
      BY <1>1 DEF IInv, SamplerSet
    <3>2. PICK k, i : c = CallOf(k, i) /\ IsAssigned(k, i)
      BY <1>1, CallFacts
    <3>3. c.set = PairOf(k, i)[1]
      BY <3>2 DEF CallOf
    <3>4. c.set = Unallocated \/ IsArgSet(c.set)
      BY <3>2, <3>3 DEF IsAssigned
    <3>. QED  BY <3>1, <3>4 DEF IsArgSet, Unallocated
  <2>2. ASSUME NEW s \in samplerCalls, NEW t \in samplerCalls
        PROVE  s.value = t.value <=> s.binding = t.binding
    <3>1. PICK i \in DOMAIN program.literals :
              s.value = program.literals[i] /\ s.binding = SamplerBinding(i)
      BY <1>1 DEF IInv, SamplerSet
    <3>2. PICK j \in DOMAIN program.literals :
              t.value = program.literals[j] /\ t.binding = SamplerBinding(j)
      BY <1>1 DEF IInv, SamplerSet
    <3>. QED  BY <1>1, <3>1, <3>2, SamplerBindings DEF IInv
  <2>. QED  BY <2>1, <2>2 DEF SamplersApart
<1>. QED  BY <1>1, InvariantCorrect, PTL

(***************************************************************************)
(* With -cl-kernel-arg-info and -distinct-kernel-descriptor-sets a list may *)
(* be read past its end; with one of them, or neither, none is.            *)
(***************************************************************************)
THEOREM PairsForEveryArg ==
    ASSUME OneWalkOfArgs PROVE Spec => []APairForEveryArg
<1>1. ASSUME IInv PROVE APairForEveryArg
  <2>1. ASSUME pc \in {"rewrite", "spec_ids", "done"}, NEW k \in Kernels
        PROVE  DOMAIN discriminants[k] = DOMAIN setAndBinding[k]
    <3>1. ArgsDone("assign", k) = NumArgs(k)
      BY <2>1 DEF ArgsDone, Earlier
    <3>2. Len(setAndBinding[k]) = Position(k, NumArgs(k))
      BY <1>1, <3>1 DEF IInv, Assigned
    <3>3. Len(discriminants[k]) = Position(k, NumArgs(k))
      BY <1>1, <2>1, AllClassified
    <3>. QED  BY <1>1, <3>2, <3>3 DEF IInv, DescriptorTypeOK
  <2>. QED  BY <2>1 DEF APairForEveryArg
<1>. QED  BY <1>1, InvariantCorrect, PTL
-----------------------------------------------------------------------------
(* The resource variables. *)

\* Calls of one accessor are of arguments with one discriminant.
LEMMA CallsOfOneAccessor ==
    ASSUME IInv, KindGoesByType,
           NEW c \in calls, NEW d \in calls, c.accessor = d.accessor
    PROVE  /\ c.arg = d.arg /\ c.kind = d.kind /\ c.coherent = d.coherent
           /\ c.coherent = program.args[c.kernel][c.arg].coherent
           /\ ~options.distinctSets => c.set = d.set /\ c.binding = d.binding
<1>. PICK k, i : k = c.kernel /\ i = c.arg
  OBVIOUS
<1>. PICK l, j : l = d.kernel /\ j = d.arg
  OBVIOUS
<1>1. /\ k \in Kernels /\ i \in 1..NumArgs(k) /\ NumArgs(k) \in Nat
      /\ ~NeedsNoDescriptor(program.args[k][i])
      /\ c = CallOf(k, i) /\ IsClassified(k, i) /\ IsAssigned(k, i)
  BY CallFacts
<1>2. /\ l \in Kernels /\ j \in 1..NumArgs(l) /\ NumArgs(l) \in Nat
      /\ ~NeedsNoDescriptor(program.args[l][j])
      /\ d = CallOf(l, j) /\ IsClassified(l, j) /\ IsAssigned(l, j)
  BY CallFacts
<1>3. /\ c.accessor = InfoOf(k, i).index /\ c.coherent = InfoOf(k, i).key.coherent
      /\ c.kind = program.args[k][i].kind
      /\ c.set = PairOf(k, i)[1] /\ c.binding = PairOf(k, i)[2]
  BY <1>1 DEF CallOf
<1>4. /\ d.accessor = InfoOf(l, j).index /\ d.coherent = InfoOf(l, j).key.coherent
      /\ d.kind = program.args[l][j].kind
      /\ d.set = PairOf(l, j)[1] /\ d.binding = PairOf(l, j)[2]
  BY <1>2 DEF CallOf
<1>5. PICK key : key = InfoOf(k, i).key /\ key = InfoOf(l, j).key
  <2>1. InfoOf(k, i).key = keys[c.accessor + 1]
    BY <1>1, <1>3 DEF IsClassified
  <2>2. InfoOf(l, j).key = keys[c.accessor + 1]
    BY <1>2, <1>4 DEF IsClassified
  <2>. QED  BY <2>1, <2>2
<1>6. /\ i = j /\ program.args[k][i].type = program.args[l][j].type
      /\ c.coherent = d.coherent /\ c.coherent = program.args[k][i].coherent
  <2>1. /\ key.type = program.args[k][i].type /\ key.argIndex = i
        /\ key.coherent = program.args[k][i].coherent
    BY <1>1, <1>5 DEF IsClassified
  <2>2. key.type = program.args[l][j].type /\ key.argIndex = j
    BY <1>2, <1>5 DEF IsClassified
  <2>. QED  BY <1>3, <1>4, <1>5, <2>1, <2>2
<1>7. c.kind = d.kind
  <2>1. program \in Programs /\ program.args \in [Kernels -> Seq(Args)]
    BY ArgLists DEF IInv, Located
  <2>2. i \in DOMAIN program.args[k] \cap DOMAIN program.args[l]
    BY <1>1, <1>2, <1>6, <2>1 DEF NumArgs
  <2>3. program.args[k][i].kind = program.args[l][i].kind
    <3>1. \A h, m \in Kernels :
             \A n \in DOMAIN program.args[h] \cap DOMAIN program.args[m] :
                /\ program.args[h][n].type = program.args[m][n].type
                /\ ~NeedsNoDescriptor(program.args[h][n])
                /\ ~NeedsNoDescriptor(program.args[m][n])
                => program.args[h][n].kind = program.args[m][n].kind
      BY <2>1, Zenon DEF KindGoesByType
    <3>2. /\ program.args[k][i].type = program.args[l][i].type
          /\ ~NeedsNoDescriptor(program.args[l][i])
      BY <1>2, <1>6
    <3>. QED  BY <1>1, <1>2, <2>2, <3>1, <3>2, Zenon
  <2>. QED  BY <1>3, <1>4, <1>6, <2>3
<1>8. ASSUME ~options.distinctSets PROVE c.set = d.set /\ c.binding = d.binding
  <2>1. IsPushConstant(program.args[k][i]) <=> IsPushConstant(program.args[l][j])
    BY <1>3, <1>4, <1>7 DEF IsPushConstant
  <2>2. c.binding = allKernelsBinding[i] /\ d.binding = allKernelsBinding[j]
    BY <1>1, <1>2, <1>3, <1>4, <1>8 DEF IsAssigned
  <2>3. c.set = d.set
    <3>1. CASE IsPushConstant(program.args[k][i])
      BY <1>1, <1>2, <1>3, <1>4, <2>1, <3>1 DEF IsAssigned
    <3>2. CASE ~IsPushConstant(program.args[k][i])
      BY <1>1, <1>2, <1>3, <1>4, <1>8, <2>1, <3>2 DEF IsAssigned
    <3>. QED  BY <3>1, <3>2
  <2>. QED  BY <1>6, <2>2, <2>3
<1>. QED  BY <1>6, <1>7, <1>8

\* An argument has at most one call.
LEMMA OneCallOfAnArg ==
    ASSUME IInv, NEW c \in calls, NEW d \in calls, c.kernel = d.kernel, c.arg = d.arg
    PROVE  c = d
BY CallFacts

\* The variable a call finds among those of its accessor.
LEMMA VarAmongAccessors ==
    ASSUME IInv, KindGoesByType, NEW c \in calls,
           NEW V, V \in VarsOfAccessor(c.accessor)
    PROVE  \E v \in V :
              /\ v.accessor = c.accessor /\ v.set = c.set /\ v.binding = c.binding
              /\ v.kind = c.kind /\ v.coherent = c.coherent
              /\ \A w \in V : w.set = c.set /\ w.binding = c.binding => w = v
              /\ ~options.distinctSets => V = {v}
<1>1. c \in CallsOf(c.accessor) /\ CallsOf(c.accessor) \subseteq calls
  BY DEF CallsOf
<1>2. ASSUME NEW d \in CallsOf(c.accessor)
      PROVE  /\ ResourceVar(d).accessor = c.accessor
             /\ ResourceVar(d).kind = c.kind /\ ResourceVar(d).coherent = c.coherent
             /\ ResourceVar(d).set = d.set /\ ResourceVar(d).binding = d.binding
             /\ ~options.distinctSets => d.set = c.set /\ d.binding = c.binding
  <2>1. d \in calls /\ d.accessor = c.accessor
    BY DEF CallsOf
  <2>2. /\ d.kind = c.kind /\ d.coherent = c.coherent
        /\ ~options.distinctSets => d.set = c.set /\ d.binding = c.binding
    BY <2>1, CallsOfOneAccessor
  <2>. QED  BY <2>1, <2>2 DEF ResourceVar
<1>3. CASE options.distinctSets
  <2>1. /\ V \subseteq {ResourceVar(d) : d \in CallsOf(c.accessor)}
        /\ Cardinality({v \in V : v.set = c.set /\ v.binding = c.binding}) = 1
    BY <1>1, <1>3 DEF VarsOfAccessor
  <2>. DEFINE found == {v \in V : v.set = c.set /\ v.binding = c.binding}
  <2>2. IsFiniteSet(found)
    <3>1. IsFiniteSet(CallsOf(c.accessor))
      BY <1>1, FS_Subset DEF IInv, CallsByLists
    <3>2. [d \in CallsOf(c.accessor) |-> ResourceVar(d)]
              \in Surjection(CallsOf(c.accessor), {ResourceVar(d) : d \in CallsOf(c.accessor)})
      BY DEF Surjection
    <3>3. IsFiniteSet({ResourceVar(d) : d \in CallsOf(c.accessor)})
      BY <3>1, <3>2, FS_Surjection
    <3>. QED  BY <2>1, <3>3, FS_Subset
  <2>3. PICK v : found = {v}
    BY <2>1, <2>2, FS_Singleton
  <2>4. v \in V /\ v.set = c.set /\ v.binding = c.binding
    BY <2>3
  <2>5. PICK d \in CallsOf(c.accessor) : v = ResourceVar(d)
    BY <2>1, <2>4
  <2>6. v.accessor = c.accessor /\ v.kind = c.kind /\ v.coherent = c.coherent
    BY <1>2, <2>5
  <2>7. \A w \in V : w.set = c.set /\ w.binding = c.binding => w = v
    BY <2>3
  <2>. QED  BY <1>3, <2>4, <2>6, <2>7
<1>4. CASE ~options.distinctSets
  <2>1. PICK d \in CallsOf(c.accessor) : V = {ResourceVar(d)}
    BY <1>4 DEF VarsOfAccessor
  <2>. QED  BY <1>2, <1>4, <2>1
<1>. QED  BY <1>3, <1>4

LEMMA FindResourceVarsGivesOne ==
    ASSUME IInv, KindGoesByType, FindResourceVars
    PROVE  EveryCallHasItsVariable'
<1>1. /\ UNCHANGED <<program, options, calls>> /\ produced'
  BY DEF FindResourceVars, vars, descriptorVars, produced
<1>2. PICK vs :
          /\ \A a \in Accessors : vs[a] \in VarsOfAccessor(a)
          /\ resourceVars' = UNION {vs[a] : a \in Accessors}
          /\ mapping' = UNION {{<<c.kernel, c.arg, v>> :
                                   v \in {v \in vs[c.accessor] :
                                             options.distinctSets =>
                                                 /\ v.set = c.set
                                                 /\ v.binding = c.binding}} :
                               c \in calls}
  BY DEF FindResourceVars
<1>3. ASSUME NEW c \in calls
      PROVE  \E v \in {w \in resourceVars' : /\ w.accessor = c.accessor
                                             /\ w.set = c.set /\ w.binding = c.binding} :
                /\ {w \in resourceVars' : /\ w.accessor = c.accessor
                                          /\ w.set = c.set /\ w.binding = c.binding} = {v}
                /\ v.kind = c.kind
                /\ v.coherent = program.args[c.kernel][c.arg].coherent
                /\ {m[3] : m \in {m \in mapping' : m[1] = c.kernel /\ m[2] = c.arg}} = {v}
  <2>1. c.accessor \in Accessors /\ vs[c.accessor] \in VarsOfAccessor(c.accessor)
    BY <1>2 DEF Accessors
  <2>2. PICK v \in vs[c.accessor] :
            /\ v.accessor = c.accessor /\ v.set = c.set /\ v.binding = c.binding
            /\ v.kind = c.kind /\ v.coherent = c.coherent
            /\ \A w \in vs[c.accessor] : w.set = c.set /\ w.binding = c.binding => w = v
            /\ ~options.distinctSets => vs[c.accessor] = {v}
    BY <2>1, VarAmongAccessors
  <2>3. v.coherent = program.args[c.kernel][c.arg].coherent
    BY <2>2, CallsOfOneAccessor
  <2>4. ASSUME NEW w \in resourceVars', w.accessor = c.accessor,
               w.set = c.set, w.binding = c.binding
        PROVE  w = v
    <3>1. PICK a \in Accessors : w \in vs[a]
      BY <1>2
    <3>2. w.accessor = a
      <4>1. vs[a] \in VarsOfAccessor(a)
        BY <1>2
      <4>2. PICK d \in CallsOf(a) : w = ResourceVar(d)
        BY <3>1, <4>1 DEF VarsOfAccessor
      <4>. QED  BY <4>2 DEF CallsOf, ResourceVar
    <3>. QED  BY <2>2, <2>4, <3>1, <3>2
  <2>5. v \in resourceVars'
    BY <1>2, <2>1, <2>2
  <2>6. ASSUME NEW m \in mapping', m[1] = c.kernel, m[2] = c.arg PROVE m[3] = v
    <3>1. PICK d \in calls : \E w \in vs[d.accessor] :
              /\ m = <<d.kernel, d.arg, w>>
              /\ options.distinctSets => w.set = d.set /\ w.binding = d.binding
      BY <1>2
    <3>2. d.kernel = c.kernel /\ d.arg = c.arg
      BY <2>6, <3>1
    <3>3. d = c
      BY <3>2, OneCallOfAnArg
    <3>. QED  BY <2>2, <3>1, <3>3
  <2>7. <<c.kernel, c.arg, v>> \in mapping'
    BY <1>2, <2>2
  <2>8. {m[3] : m \in {m \in mapping' : m[1] = c.kernel /\ m[2] = c.arg}} = {v}
    <3>1. PICK n \in mapping' : n[1] = c.kernel /\ n[2] = c.arg /\ n[3] = v
      BY <2>7
    <3>. QED  BY <2>6, <3>1
  <2>. QED  BY <2>2, <2>3, <2>4, <2>5, <2>8
<1>. QED  BY <1>1, <1>3 DEF EveryCallHasItsVariable, VarOf

\* The resource variables are made last, and of what stays as it is.
RVInv == IInv /\ (produced => pc = "done" /\ EveryCallHasItsVariable)

\* The steps of SPIRVProducerPass after that.
LEMMA ConstantsAlone ==
    ASSUME \/ \E b \in Builtins : GenerateGlobalVar(b)
           \/ GenerateWorkgroupVars
           \/ GenerateReflection
    PROVE  /\ UNCHANGED <<program, options, pc, kernel, arg, descriptorVars, specIdTypes,
                          functionSpecIds, functionAllocations, localSpecIds,
                          resourceVarVars>>
           /\ stage # "info" /\ stage' # "info"
BY DEF GenerateGlobalVar, GenerateWorkgroupVars, GenerateReflection, vars, specIdVars

LEMMA RVInvariant ==
    ASSUME OneWalkOfArgs, KindGoesByType PROVE RVSpec => []RVInv
<1>1. RVInit => RVInv
  BY IInvInit DEF RVInit, RVInv, produced
<1>2. RVInv /\ [RVNext]_rvVars => RVInv'
  <2>. SUFFICES ASSUME RVInv, [RVNext]_rvVars PROVE RVInv'
    OBVIOUS
  <2>1. CASE FindResourceVars
    <3>1. UNCHANGED vars /\ pc = "done"
      BY <2>1 DEF FindResourceVars
    <3>2. IInv'
      BY <3>1, NextIInv DEF RVInv
    <3>3. EveryCallHasItsVariable'
      BY <2>1, FindResourceVarsGivesOne DEF RVInv
    <3>4. pc' = "done"
      BY <3>1 DEF vars
    <3>. QED  BY <3>2, <3>3, <3>4 DEF RVInv
  <2>2. ASSUME IInv', UNCHANGED <<resourceVars, mapping>>, produced' <=> produced,
               produced => UNCHANGED <<program, options, pc, calls>>
        PROVE  RVInv'
    BY <2>2 DEF RVInv, EveryCallHasItsVariable, VarOf
  <2>3. CASE [Next]_vars /\ UNCHANGED <<stage, resourceVarVars, constantVars>>
    <3>1. IInv'
      BY <2>3, NextIInv DEF RVInv
    <3>2. ASSUME produced PROVE UNCHANGED <<program, options, pc, calls>>
      <4>1. pc = "done"
        BY <3>2 DEF RVInv
      <4>2. UNCHANGED vars
        BY <2>3, <4>1
        DEF Next, AllocateLiteralSamplers, ClassifyArg, AssignDistinctSet,
            AssignSharedArg, RewriteArg, AllocateSpecId, EndOfArgs, Finished
      <4>. QED  BY <4>2 DEF vars, descriptorVars
    <3>. QED  BY <2>2, <2>3, <3>1, <3>2 DEF produced, resourceVarVars
  <2>4. CASE \/ \E b \in Builtins : GenerateGlobalVar(b)
             \/ GenerateWorkgroupVars
             \/ GenerateReflection
    <3>1. /\ UNCHANGED <<program, options, pc, kernel, arg, descriptorVars, resourceVarVars>>
          /\ produced /\ produced'
      BY <2>4, ConstantsAlone DEF produced
    <3>2. /\ Located'
          /\ \A loop \in Loops, k \in Kernels : ArgsDone(loop, k)' = ArgsDone(loop, k)
      BY <3>1 DEF RVInv, IInv, Located, ArgsDone, NumArgs
    <3>3. IInv'
      BY <3>1, <3>2, DescriptorsUntouched DEF RVInv
    <3>. QED  BY <2>2, <3>1, <3>3 DEF resourceVarVars, descriptorVars
  <2>. QED  BY <2>1, <2>3, <2>4 DEF RVNext, rvVars
<1>. QED  BY <1>1, <1>2, PTL DEF RVSpec

(***************************************************************************)
(* Where arguments of one type at one index are of one kind, the variable  *)
(* of an accessor suits all the kernels that call it, and the reflection   *)
(* names the variable the kernel uses (FindResourceVars).                  *)
(***************************************************************************)
THEOREM CallsHaveTheirVariables ==
    ASSUME OneWalkOfArgs, KindGoesByType
    PROVE  RVSpec => []EveryCallHasItsVariable
<1>1. RVInv => EveryCallHasItsVariable
  BY DEF RVInv, EveryCallHasItsVariable
<1>. QED  BY <1>1, RVInvariant, PTL

(***************************************************************************)
(* Under the same hypotheses the variable of a plain-old-data argument is  *)
(* of the kind AutoPodArgsPass chose.                                      *)
(***************************************************************************)
THEOREM PodsKeepTheirKind ==
    ASSUME OneWalkOfArgs, KindGoesByType
    PROVE  RVSpec => []KernelsKeepTheirPodKind
<1>1. RVInv => KernelsKeepTheirPodKind
  BY DEF RVInv, EveryCallHasItsVariable, KernelsKeepTheirPodKind
<1>. QED  BY <1>1, RVInvariant, PTL
-----------------------------------------------------------------------------
(* Specialization constants. *)

BuiltinKinds(b) ==
    IF b = "WorkgroupSize"
    THEN {"workgroup_size_x", "workgroup_size_y", "workgroup_size_z"}
    ELSE {ConstantKinds[b][i] : i \in 1..Len(ConstantKinds[b])}

BuiltinConstants == {c \in ToSet(specConstants) : c[1] # "local_memory_size"}

\* Constants of builtin variables are listed when the variable is generated,
\* one of a kind, and decorated as they are listed.
ConstantsListed ==
    /\ globalVars \subseteq Builtins
    /\ stage \in {"info", "variables", "reflection", "end"}
    /\ stage = "info" => globalVars = {}
    /\ stage # "info" => pc = "done"
    /\ \A c \in BuiltinConstants : \E b \in globalVars : c[1] \in BuiltinKinds(b)
    /\ \A c, d \in BuiltinConstants : c[1] = d[1] => c = d

\* What is decorated and told, at each stage.
ConstantsDecorated ==
    /\ stage \in {"info", "variables"} => decorations = BuiltinConstants
    /\ stage \in {"reflection", "end"} =>
          /\ decorations = BuiltinConstants \cup {<<"local_memory_size", id>> : id \in LocalIds}
          /\ \A x \in localSpecIds : workgroupVars[x[3]] = TypeOfArg(x[1], x[2])
    /\ stage = "end" =>
          /\ reflection = BuiltinConstants
          /\ localArgs = {[kernel |-> x[1], arg |-> x[2], specId |-> x[3],
                           type |-> TypeOfArg(x[1], x[2])] : x \in localSpecIds}

ConstantsInv == SpecIdInv /\ ConstantsListed /\ ConstantsDecorated

LEMMA KindsOfBuiltins ==
    /\ \A b \in Builtins : \A k \in BuiltinKinds(b) : k # "local_memory_size"
    /\ \A b, c \in Builtins : BuiltinKinds(b) \cap BuiltinKinds(c) # {} => b = c
    /\ \A b \in Builtins \ {"WorkgroupSize"} :
          /\ ConstantKinds[b] \in Seq(SpecKinds)
          /\ \A i, j \in 1..Len(ConstantKinds[b]) :
                ConstantKinds[b][i] = ConstantKinds[b][j] => i = j
<1>1. /\ BuiltinKinds("WorkDim") = {"work_dim"}
      /\ BuiltinKinds("SubgroupMaxSize") = {"subgroup_max_size"}
      /\ BuiltinKinds("GlobalOffset") =
            {"global_offset_x", "global_offset_y", "global_offset_z"}
      /\ BuiltinKinds("WorkgroupSize") =
            {"workgroup_size_x", "workgroup_size_y", "workgroup_size_z"}
  BY DEF BuiltinKinds, ConstantKinds
<1>2. \A b \in Builtins : \A k \in BuiltinKinds(b) : k # "local_memory_size"
  BY <1>1 DEF Builtins
<1>3. \A b, c \in Builtins : BuiltinKinds(b) \cap BuiltinKinds(c) # {} => b = c
  BY <1>1 DEF Builtins
<1>4. ASSUME NEW b \in Builtins \ {"WorkgroupSize"}
      PROVE  /\ ConstantKinds[b] \in Seq(SpecKinds)
             /\ \A i, j \in 1..Len(ConstantKinds[b]) :
                   ConstantKinds[b][i] = ConstantKinds[b][j] => i = j
  <2>1. CASE b = "WorkDim"
    BY <2>1 DEF ConstantKinds, SpecKinds
  <2>2. CASE b = "GlobalOffset"
    BY <2>2 DEF ConstantKinds, SpecKinds
  <2>3. CASE b = "SubgroupMaxSize"
    BY <2>3 DEF ConstantKinds, SpecKinds
  <2>. QED  BY <2>1, <2>2, <2>3 DEF Builtins
<1>. QED  BY <1>2, <1>3, <1>4

\* AllocateDescriptorsPass lists constants of __local arguments only.
LEMMA LocalsListed ==
    ASSUME SpecIdInv, [Next]_vars
    PROVE  BuiltinConstants' = BuiltinConstants
<1>1. CASE UNCHANGED specConstants
  BY <1>1 DEF BuiltinConstants
<1>2. CASE AllocateSpecConstants(<<"local_memory_size">>)
  <2>. DEFINE kinds == <<"local_memory_size">>
  <2>1. kinds \in Seq(SpecKinds) /\ Len(kinds) = 1 /\ kinds[1] = "local_memory_size"
    BY DEF SpecKinds
  <2>. HIDE DEF kinds
  <2>2. ToSet(specConstants') = ToSet(specConstants) \cup
               {<<kinds[i], nextSpecId + (i - 1)>> : i \in 1..Len(kinds)}
    <3>1. AllocateSpecConstants(kinds)
      BY <1>2 DEF kinds
    <3>. QED  BY <3>1, <2>1, AllocatedIds DEF SpecIdInv
  <2>3. \A c \in {<<kinds[i], nextSpecId + (i - 1)>> : i \in 1..Len(kinds)} :
            c[1] = "local_memory_size"
    BY <2>1
  <2>. QED  BY <2>2, <2>3 DEF BuiltinConstants
<1>3. UNCHANGED specConstants \/ AllocateSpecConstants(<<"local_memory_size">>)
  BY DEF Next, AllocateLiteralSamplers, ClassifyArg, AssignDistinctSet, AssignSharedArg,
         RewriteArg, AllocateSpecId, EndOfArgs, Finished, vars, specIdVars
<1>. QED  BY <1>1, <1>2, <1>3

\* SpecIds of __local arguments are not given up.
LEMMA SpecIdsStay ==
    ASSUME SpecIdInv, ListOK', ToSet(specConstants) \subseteq ToSet(specConstants'),
           nextSpecId' \in Nat, nextSpecId' >= nextSpecId,
           UNCHANGED <<program, options, pc, kernel, arg, specIdTypes, functionSpecIds,
                       functionAllocations, localSpecIds>>
    PROVE  SpecIdInv'
<1>. USE DEF SpecIdInv
<1>1. /\ \A t : IdsOfType(t)' = IdsOfType(t)
      /\ \A k, i : IsLocalArg(k, i)' = IsLocalArg(k, i)
      /\ \A k, i : TypeOfArg(k, i)' = TypeOfArg(k, i)
      /\ \A k : NumArgs(k)' = NumArgs(k)
  BY DEF IdsOfType, SpecIds, IsLocalArg, Skipped, TypeOfArg, NumArgs
<1>2. /\ \A loop, k : ArgsDone(loop, k)' = ArgsDone(loop, k)
  BY <1>1 DEF ArgsDone
<1>3. Located'
  BY <1>1 DEF Located
<1>4. nextSpecId \in Nat /\ nextSpecId >= FirstSpecId
  BY DEF SpecIdTypeOK
<1>5. SpecIdTypeOK'
  BY <1>4 DEF SpecIdTypeOK, FirstSpecId
<1>6. IdsByType'
  <2>1. ASSUME NEW t \in Types, NEW id \in IdsOfType(t)
        PROVE  id \in Nat /\ FirstSpecId <= id /\ id < nextSpecId'
    <3>1. id \in Nat /\ FirstSpecId <= id /\ id < nextSpecId
      BY DEF IdsByType
    <3>. QED  BY <3>1, <1>4
  <2>2. \A t, u \in Types : IdsOfType(t) \cap IdsOfType(u) # {} => t = u
    BY DEF IdsByType
  <2>. QED  BY <2>1, <2>2, <1>1 DEF IdsByType, FirstSpecId
<1>7. IdsOfArgs'
  BY <1>1, <1>2 DEF IdsOfArgs
<1>8. IdsListed'
  BY <1>1 DEF IdsListed
<1>. QED  BY <1>3, <1>5, <1>6, <1>7, <1>8

\* A variable whose constants are of kinds nothing else has.
LEMMA ListedWithVar ==
    ASSUME ConstantsListed, ConstantsDecorated, stage = "variables",
           NEW b \in Builtins \ globalVars, NEW new,
           globalVars' = globalVars \cup {b}, UNCHANGED <<stage, pc>>,
           ToSet(specConstants') = ToSet(specConstants) \cup new,
           decorations' = decorations \cup new,
           \A c \in new : c[1] \in BuiltinKinds(b),
           \A c, d \in new : c[1] = d[1] => c = d
    PROVE  ConstantsListed' /\ ConstantsDecorated'
<1>1. BuiltinConstants' = BuiltinConstants \cup new
  BY KindsOfBuiltins DEF BuiltinConstants
<1>2. globalVars \subseteq Builtins
  BY DEF ConstantsListed
<1>3. ASSUME NEW c \in BuiltinConstants, NEW d \in new PROVE c[1] # d[1]
  <2>1. PICK a \in globalVars : c[1] \in BuiltinKinds(a)
    BY DEF ConstantsListed
  <2>2. d[1] \in BuiltinKinds(b) /\ a # b /\ a \in Builtins
    BY <1>2, <2>1
  <2>. QED  BY <2>1, <2>2, KindsOfBuiltins
<1>4. \A c \in BuiltinConstants' : \E a \in globalVars' : c[1] \in BuiltinKinds(a)
  BY <1>1 DEF ConstantsListed
<1>5. \A c, d \in BuiltinConstants' : c[1] = d[1] => c = d
  BY <1>1, <1>3 DEF ConstantsListed
<1>6. ConstantsListed'
  BY <1>4, <1>5 DEF ConstantsListed
<1>7. ConstantsDecorated'
  BY <1>1 DEF ConstantsDecorated
<1>. QED  BY <1>6, <1>7

LEMMA GenerateGlobalVarInv ==
    ASSUME ConstantsInv, NEW b \in Builtins, GenerateGlobalVar(b)
    PROVE  ConstantsInv'
<1>. USE DEF ConstantsInv
<1>1. /\ stage = "variables" /\ b \notin globalVars /\ globalVars' = globalVars \cup {b}
      /\ UNCHANGED <<program, options, pc, kernel, arg, specIdTypes, functionSpecIds,
                     functionAllocations, localSpecIds, stage>>
  BY DEF GenerateGlobalVar
<1>2. ListOK /\ nextSpecId \in Nat
  BY DEF SpecIdInv, ListOK
<1>3. CASE b # "WorkgroupSize"
  <2>. PICK kinds : kinds = ConstantKinds[b]
    OBVIOUS
  <2>. DEFINE new == {<<kinds[i], nextSpecId + (i - 1)>> : i \in 1..Len(kinds)}
  <2>1. /\ AllocateSpecConstants(kinds)
        /\ decorations' = decorations \cup ToSet(SpecConstantsOf(kinds))
    BY <1>3 DEF GenerateGlobalVar
  <2>2. /\ kinds \in Seq(SpecKinds)
        /\ \A i, j \in 1..Len(kinds) : kinds[i] = kinds[j] => i = j
    BY <1>3, KindsOfBuiltins
  <2>3. /\ ListOK'
        /\ nextSpecId' = nextSpecId + Len(kinds) /\ Len(kinds) \in Nat
        /\ ToSet(specConstants') = ToSet(specConstants) \cup new
        /\ decorations' = decorations \cup new
    BY <2>1, <2>2, <1>2, AllocatedIds
  <2>4. SpecIdInv'
    BY <2>3, <1>1, <1>2, SpecIdsStay
  <2>5. \A c \in new : c[1] \in BuiltinKinds(b)
    BY <1>3 DEF BuiltinKinds
  <2>6. \A c, d \in new : c[1] = d[1] => c = d
    BY <2>2
  <2>. HIDE DEF new
  <2>. QED  BY <2>3, <2>4, <2>5, <2>6, <1>1, ListedWithVar
<1>4. CASE b = "WorkgroupSize" /\ ~SizeIsRequired
  <2>. DEFINE new == {<<"workgroup_size_x", 0>>, <<"workgroup_size_y", 1>>,
                      <<"workgroup_size_z", 2>>}
  <2>1. AddWorkgroupSpecConstants
    BY <1>4 DEF GenerateGlobalVar
  <2>2. ToSet(WorkgroupSizes) = new /\ WorkgroupSizes \in Seq(SpecKinds \X Nat)
    BY DEF ToSet, WorkgroupSizes, SpecKinds
  <2>3. /\ \A c \in new : c[1] \in BuiltinKinds(b)
        /\ \A c, d \in new : c[1] = d[1] => c = d
        /\ \A c, d \in new : c[2] = d[2] => c = d
        /\ \A c \in new : c[2] < FirstSpecId /\ IsOfWorkgroupSize(c)
    BY <1>4 DEF BuiltinKinds, FirstSpecId, IsOfWorkgroupSize
  <2>. HIDE DEF new
  <2>4. /\ specConstants' \in Seq(SpecKinds \X Nat)
        /\ ToSet(specConstants') = ToSet(specConstants) \cup new
        /\ decorations' = decorations \cup new
        /\ nextSpecId' = nextSpecId
    BY <2>1, <2>2, <1>2, ListConcat DEF AddWorkgroupSpecConstants, ListOK
  <2>5. \A c \in ToSet(specConstants) : c[2] \in Nat
    BY <1>2 DEF ListOK, ToSet
  <2>6. ASSUME NEW c \in ToSet(specConstants), NEW d \in new PROVE c[2] # d[2]
    <3>1. CASE c[2] >= FirstSpecId
      BY <3>1, <2>3, <2>5 DEF FirstSpecId
    <3>2. CASE IsOfWorkgroupSize(c)
      <4>1. c \in BuiltinConstants /\ c[1] \in BuiltinKinds(b)
        BY <3>2, <1>4 DEF BuiltinConstants, IsOfWorkgroupSize, BuiltinKinds
      <4>2. PICK a \in globalVars : c[1] \in BuiltinKinds(a)
        BY <4>1 DEF ConstantsListed
      <4>3. a \in Builtins /\ a # b
        BY <1>1 DEF ConstantsListed
      <4>. QED  BY <4>1, <4>2, <4>3, KindsOfBuiltins
    <3>. QED  BY <3>1, <3>2, <1>2 DEF ListOK
  <2>7. \A c \in new : c[2] < nextSpecId
    BY <2>3, <1>2 DEF ListOK, FirstSpecId, IsOfWorkgroupSize
  <2>8. \A c \in ToSet(specConstants') :
            c[2] < nextSpecId' /\ (c[2] >= FirstSpecId \/ IsOfWorkgroupSize(c))
    BY <2>4, <2>3, <2>7, <1>2 DEF ListOK
  <2>9. \A c, d \in ToSet(specConstants') : c[2] = d[2] => c = d
    BY <2>4, <2>3, <2>6, <1>2 DEF ListOK
  <2>10. ListOK'
    BY <2>4, <2>8, <2>9, <1>2 DEF ListOK, FirstSpecId, IsOfWorkgroupSize
  <2>11. SpecIdInv'
    <3>1. nextSpecId' \in Nat /\ nextSpecId' >= nextSpecId
      BY <2>4, <1>2
    <3>. QED  BY <3>1, <2>4, <2>10, <1>1, SpecIdsStay
  <2>. QED  BY <2>4, <2>3, <2>11, <1>1, ListedWithVar
<1>5. CASE b = "WorkgroupSize" /\ SizeIsRequired
  <2>1. UNCHANGED <<nextSpecId, specConstants, decorations>>
    BY <1>5 DEF GenerateGlobalVar
  <2>2. SpecIdInv'
    BY <2>1, <1>1, <1>2, ListUntouched, SpecIdsStay
  <2>. DEFINE new == {}
  <2>3. /\ ToSet(specConstants') = ToSet(specConstants) \cup new
        /\ decorations' = decorations \cup new
        /\ \A c \in new : c[1] \in BuiltinKinds(b)
        /\ \A c, d \in new : c[1] = d[1] => c = d
    BY <2>1
  <2>. HIDE DEF new
  <2>. QED  BY <2>2, <2>3, <1>1, ListedWithVar
<1>. QED  BY <1>3, <1>4, <1>5

\* Nothing of this changes what is listed.
LEMMA SpecIdInvStutters == SpecIdInv /\ UNCHANGED vars => SpecIdInv'
BY NextSpecIdInv

LEMMA LocalArgsApart == SpecIdInv => LocalArgsSizedApart
BY DEF SpecIdInv, IdsByType, IdsOfArgs, LocalArgsSizedApart, SpecIdTypeOK

LEMMA GenerateWorkgroupVarsInv == ConstantsInv /\ GenerateWorkgroupVars => ConstantsInv'
<1>. SUFFICES ASSUME ConstantsInv, GenerateWorkgroupVars PROVE ConstantsInv'
  OBVIOUS
<1>. USE DEF ConstantsInv
<1>1. /\ UNCHANGED vars /\ UNCHANGED <<globalVars, reflection, localArgs>>
      /\ stage = "variables" /\ stage' = "reflection"
      /\ decorations' = decorations \cup {<<"local_memory_size", id>> : id \in LocalIds}
  BY DEF GenerateWorkgroupVars
<1>2. UNCHANGED <<program, pc, specConstants, localSpecIds>>
  BY <1>1 DEF vars, specIdVars
<1>3. ConstantsListed' /\ BuiltinConstants' = BuiltinConstants
  BY <1>1, <1>2 DEF ConstantsListed, BuiltinConstants
<1>4. ASSUME NEW x \in localSpecIds PROVE workgroupVars'[x[3]] = TypeOfArg(x[1], x[2])
  <2>1. PICK call \in [LocalIds -> localSpecIds] :
            /\ \A id \in LocalIds : call[id][3] = id
            /\ workgroupVars' = [id \in LocalIds |->
                                   program.args[call[id][1]][call[id][2]].type]
    BY DEF GenerateWorkgroupVars
  <2>2. x[3] \in LocalIds
    BY DEF LocalIds
  <2>3. PICK y \in localSpecIds : y = call[x[3]] /\ y[3] = x[3]
    BY <2>1, <2>2
  <2>4. workgroupVars'[x[3]] = TypeOfArg(y[1], y[2])
    BY <2>1, <2>2, <2>3 DEF TypeOfArg
  <2>. QED  BY <2>3, <2>4, LocalArgsApart DEF LocalArgsSizedApart
<1>5. ConstantsDecorated'
  BY <1>1, <1>2, <1>3, <1>4 DEF ConstantsDecorated, LocalIds, TypeOfArg
<1>. QED  BY <1>1, <1>3, <1>5, SpecIdInvStutters

\* The reflection names the one constant of a kind there is.
LEMMA LastConstant ==
    ASSUME SpecIdInv, ConstantsListed
    PROVE  {<<kind, specConstants[LastOf(kind)][2]>> : kind \in ListedKinds} = BuiltinConstants
<1>1. specConstants \in Seq(SpecKinds \X Nat)
  BY DEF SpecIdInv, ListOK
<1>2. ASSUME NEW kind \in ListedKinds
      PROVE  /\ LastOf(kind) \in DOMAIN specConstants
             /\ specConstants[LastOf(kind)][1] = kind
  <2>. DEFINE at == {i \in DOMAIN specConstants : specConstants[i][1] = kind}
  <2>1. at \subseteq 1..Len(specConstants) /\ Len(specConstants) \in Nat
    BY <1>1
  <2>2. at # {}
    BY DEF ListedKinds, ToSet
  <2>3. \E i \in at : \A j \in at : j <= i
    <3>. DEFINE fromTheEnd == {n \in Nat : Len(specConstants) - n \in at}
    <3>1. PICK i \in at : TRUE
      BY <2>2
    <3>2. Len(specConstants) - i \in fromTheEnd
      BY <2>1
    <3>3. PICK n \in fromTheEnd : \A m \in fromTheEnd : n <= m
      BY <3>2, LeastNatural
    <3>4. ASSUME NEW j \in at PROVE j <= Len(specConstants) - n
      <4>1. Len(specConstants) - j \in fromTheEnd
        BY <2>1
      <4>2. n <= Len(specConstants) - j
        BY <3>3, <4>1
      <4>. QED  BY <2>1, <3>3, <4>2
    <3>. QED  BY <3>3, <3>4
  <2>4. \E i \in DOMAIN specConstants :
            /\ specConstants[i][1] = kind
            /\ \A j \in DOMAIN specConstants : specConstants[j][1] = kind => j <= i
    BY <2>3
  <2>. QED  BY <2>4 DEF LastOf
<1>3. \A i \in DOMAIN specConstants :
          /\ specConstants[i] \in ToSet(specConstants)
          /\ specConstants[i] = <<specConstants[i][1], specConstants[i][2]>>
  BY <1>1 DEF ToSet
<1>4. ASSUME NEW kind \in ListedKinds
      PROVE  /\ <<kind, specConstants[LastOf(kind)][2]>> \in BuiltinConstants
             /\ <<kind, specConstants[LastOf(kind)][2]>>[1] = kind
  <2>1. <<kind, specConstants[LastOf(kind)][2]>> = specConstants[LastOf(kind)]
    BY <1>2, <1>3
  <2>. QED  BY <2>1, <1>2, <1>3 DEF BuiltinConstants, ListedKinds
<1>5. ASSUME NEW c \in BuiltinConstants
      PROVE  \E kind \in ListedKinds : c = <<kind, specConstants[LastOf(kind)][2]>>
  <2>1. c[1] \in ListedKinds
    BY DEF BuiltinConstants, ListedKinds
  <2>. QED  BY <2>1, <1>4 DEF ConstantsListed
<1>. QED  BY <1>4, <1>5

LEMMA GenerateReflectionInv == ConstantsInv /\ GenerateReflection => ConstantsInv'
<1>. SUFFICES ASSUME ConstantsInv, GenerateReflection PROVE ConstantsInv'
  OBVIOUS
<1>. USE DEF ConstantsInv
<1>1. /\ UNCHANGED vars /\ UNCHANGED <<globalVars, decorations, workgroupVars>>
      /\ stage = "reflection" /\ stage' = "end"
      /\ reflection' = {<<kind, specConstants[LastOf(kind)][2]>> : kind \in ListedKinds}
      /\ localArgs' = {[kernel |-> x[1], arg |-> x[2], specId |-> x[3],
                        type |-> workgroupVars[x[3]]] : x \in localSpecIds}
  BY DEF GenerateReflection
<1>2. UNCHANGED <<program, pc, specConstants, localSpecIds>>
  BY <1>1 DEF vars, specIdVars
<1>3. ConstantsListed' /\ BuiltinConstants' = BuiltinConstants
  BY <1>1, <1>2 DEF ConstantsListed, BuiltinConstants
<1>4. reflection' = BuiltinConstants
  BY <1>1, LastConstant
<1>5. \A x \in localSpecIds : workgroupVars[x[3]] = TypeOfArg(x[1], x[2])
  BY <1>1 DEF ConstantsDecorated
<1>6. localArgs' = {[kernel |-> x[1], arg |-> x[2], specId |-> x[3],
                     type |-> TypeOfArg(x[1], x[2])] : x \in localSpecIds}
  BY <1>1, <1>5
<1>7. ConstantsDecorated'
  BY <1>1, <1>2, <1>3, <1>4, <1>5, <1>6 DEF ConstantsDecorated, LocalIds, TypeOfArg
<1>. QED  BY <1>1, <1>3, <1>7, SpecIdInvStutters

LEMMA ConstantsInvariant == RVSpec => []ConstantsInv
<1>1. RVInit => ConstantsInv
  <2>. SUFFICES ASSUME RVInit PROVE ConstantsInv
    OBVIOUS
  <2>1. BuiltinConstants = {}
    BY DEF RVInit, Init, BuiltinConstants, ToSet
  <2>. QED  BY <2>1, SpecIdInvInit
            DEF RVInit, ConstantsInv, ConstantsListed, ConstantsDecorated
<1>2. ConstantsInv /\ [RVNext]_rvVars => ConstantsInv'
  <2>. SUFFICES ASSUME ConstantsInv, [RVNext]_rvVars PROVE ConstantsInv'
    OBVIOUS
  <2>. USE DEF ConstantsInv
  <2>1. CASE [Next]_vars /\ UNCHANGED <<stage, resourceVarVars, constantVars>>
    <3>1. SpecIdInv' /\ BuiltinConstants' = BuiltinConstants
      BY <2>1, NextSpecIdInv, LocalsListed
    <3>2. CASE stage = "info"
      BY <3>1, <3>2, <2>1 DEF ConstantsListed, ConstantsDecorated, constantVars
    <3>3. CASE stage # "info"
      <4>1. pc = "done"
        BY <3>3 DEF ConstantsListed
      <4>2. UNCHANGED vars
        BY <2>1, <4>1
        DEF Next, AllocateLiteralSamplers, ClassifyArg, AssignDistinctSet,
            AssignSharedArg, RewriteArg, AllocateSpecId, EndOfArgs, Finished
      <4>3. UNCHANGED <<program, pc, localSpecIds>>
        BY <4>2 DEF vars, specIdVars
      <4>. QED  BY <3>1, <4>3, <2>1
                DEF ConstantsListed, ConstantsDecorated, constantVars, LocalIds, TypeOfArg
    <3>. QED  BY <3>2, <3>3
  <2>2. CASE FindResourceVars
    <3>1. /\ UNCHANGED vars /\ UNCHANGED constantVars
          /\ pc = "done" /\ stage = "info" /\ stage' = "variables"
      BY <2>2 DEF FindResourceVars
    <3>2. UNCHANGED <<pc, specConstants>>
      BY <3>1 DEF vars, specIdVars
    <3>3. BuiltinConstants' = BuiltinConstants
      BY <3>2 DEF BuiltinConstants
    <3>. QED  BY <3>1, <3>2, <3>3, SpecIdInvStutters
              DEF ConstantsListed, ConstantsDecorated, constantVars
  <2>3. CASE \E b \in Builtins : GenerateGlobalVar(b)
    BY <2>3, GenerateGlobalVarInv
  <2>4. CASE GenerateWorkgroupVars
    BY <2>4, GenerateWorkgroupVarsInv
  <2>5. CASE GenerateReflection
    BY <2>5, GenerateReflectionInv
  <2>. QED  BY <2>1, <2>2, <2>3, <2>4, <2>5 DEF RVNext, rvVars
<1>. QED  BY <1>1, <1>2, PTL DEF RVSpec

(***************************************************************************)
(* For any kernels, builtin variables, required sizes and options, no two  *)
(* specialization constants have one SpecId, the reflection names each     *)
(* with the SpecId it is decorated with, and each __local argument in use  *)
(* with that of the variable it becomes (AllocateSpecConstant,             *)
(* GenerateGlobalVar, GenerateWorkgroupVars, the reflections).             *)
(***************************************************************************)
THEOREM SpecConstantsAreTold == RVSpec => []ConstantsAreTold
<1>1. ASSUME ConstantsInv PROVE ConstantsAreTold
  <2>. USE <1>1 DEF ConstantsInv
  <2>1. ASSUME NEW x \in localSpecIds
        PROVE  <<"local_memory_size", x[3]>> \in ToSet(specConstants)
    BY DEF SpecIdInv, IdsOfArgs, IdsListed
  <2>2. decorations \subseteq ToSet(specConstants)
    BY <2>1 DEF ConstantsListed, ConstantsDecorated, BuiltinConstants, LocalIds
  <2>3. \A c, d \in decorations : c[2] = d[2] => c = d
    BY <2>2 DEF SpecIdInv, ListOK
  <2>4. ASSUME stage = "end"
        PROVE  /\ reflection = {d \in decorations : d[1] # "local_memory_size"}
               /\ \A a \in localArgs :
                     /\ <<"local_memory_size", a.specId>> \in decorations
                     /\ a.type = TypeOfArg(a.kernel, a.arg)
               /\ \A k \in Kernels :
                     {a.arg : a \in {a \in localArgs : a.kernel = k}} = LocalArgsOf(k)
    <3>1. /\ decorations = BuiltinConstants \cup {<<"local_memory_size", id>> : id \in LocalIds}
          /\ reflection = BuiltinConstants
          /\ localArgs = {[kernel |-> x[1], arg |-> x[2], specId |-> x[3],
                           type |-> TypeOfArg(x[1], x[2])] : x \in localSpecIds}
      BY <2>4 DEF ConstantsDecorated
    <3>2. reflection = {d \in decorations : d[1] # "local_memory_size"}
      BY <3>1 DEF BuiltinConstants
    <3>3. ASSUME NEW a \in localArgs
          PROVE  \E x \in localSpecIds :
                    a.kernel = x[1] /\ a.arg = x[2] /\ a.specId = x[3]
                    /\ a.type = TypeOfArg(x[1], x[2])
      BY <3>1
    <3>4. ASSUME NEW a \in localArgs
          PROVE  /\ <<"local_memory_size", a.specId>> \in decorations
                 /\ a.type = TypeOfArg(a.kernel, a.arg)
      BY <3>1, <3>3 DEF LocalIds
    <3>5. ASSUME NEW k \in Kernels
          PROVE  {a.arg : a \in {a \in localArgs : a.kernel = k}} = LocalArgsOf(k)
      <4>1. pc = "done" /\ ArgsDone("spec_ids", k) = NumArgs(k)
        BY <2>4 DEF ConstantsListed, ArgsDone, Earlier
      <4>2. ASSUME NEW a \in localArgs, a.kernel = k PROVE a.arg \in LocalArgsOf(k)
        BY <3>3, <4>1, <4>2 DEF SpecIdInv, IdsOfArgs, IsLocalArg, LocalArgsOf
      <4>3. ASSUME NEW i \in LocalArgsOf(k)
            PROVE  \E a \in localArgs : a.kernel = k /\ a.arg = i
        <5>1. PICK x \in localSpecIds : x[1] = k /\ x[2] = i
          BY <4>1 DEF SpecIdInv, IdsOfArgs, IsLocalArg, LocalArgsOf
        <5>. DEFINE a == [kernel |-> x[1], arg |-> x[2], specId |-> x[3],
                          type |-> TypeOfArg(x[1], x[2])]
        <5>2. a \in localArgs /\ a.kernel = k /\ a.arg = i
          BY <3>1, <5>1
        <5>. QED  BY <5>2
      <4>. QED  BY <4>2, <4>3
    <3>. QED  BY <3>2, <3>4, <3>5
  <2>. QED  BY <2>3, <2>4, LocalArgsApart DEF ConstantsAreTold
<1>. QED  BY <1>1, ConstantsInvariant, PTL
=============================================================================

------------------------ MODULE AllocateDescriptors ------------------------
(***************************************************************************)
(* AllocateDescriptorsPass: literal samplers and the arguments of kernels  *)
(* get a descriptor set and a binding, and the arguments that point to     *)
(* __local memory the ID of the specialization constant that will size     *)
(* their variable.                                                         *)
(*                                                                         *)
(* Sets, bindings and discriminants count from 0 as in the code, arguments *)
(* and list positions from 1.                                              *)
(***************************************************************************)
EXTENDS Integers, Sequences, FiniteSets, SequencesExt

CONSTANTS
    NumKernels,   \* the kernels with a body are 1..NumKernels, in module order
    Types,
    Programs,     \* the modules the pass may be given
    Options       \* the command lines it may be given

Kernels == 1..NumKernels

Kinds == {"buffer", "pod", "pod_ubo", "pod_pushconstant", "image", "sampler",
          "local"}

\* kind: of a plain-old-data argument, what AutoPodArgsPass chose for its kernel.
\* type: the inferred type and, for a pointer, its address space.
\* coherent: uses_barriers, and HasReadsAndWrites finds both.
\* metadataOnly: HasOnlyImageMetadataQueries.
Args == [kind : Kinds, type : Types, used : BOOLEAN,
         coherent : BOOLEAN, metadataOnly : BOOLEAN]

ASSUME ParametersAssumption ==
    /\ NumKernels \in Nat \ {0}
    /\ \A p \in Programs : /\ p.args \in [Kernels -> Seq(Args)]
                           /\ p.literals \in Seq(ToSet(p.literals))
    /\ Options \subseteq [kernelArgInfo : BOOLEAN, distinctSets : BOOLEAN,
                          distinctImageSampler : BOOLEAN, nonUniform : BOOLEAN]

VARIABLES
    program, options,
    pc, kernel, arg,      \* the loop the pass is in and where it is in it
    nextSet,              \* the counter of TakeDescriptorIndex
    samplerCalls,         \* [value, set, binding] of each literal sampler call
    numImageSampler,      \* num_image_sampler_arguments
    keys,                 \* discriminant_map: keys[i + 1] has index i
    discriminants,        \* discriminants_used_by_function
    allKernelsSet,        \* all_kernels_descriptor_set
    allKernelsBinding,    \* all_kernels_binding_for_arg_index
    setAndBinding,        \* set_and_binding_pairs_for_function
    calls                 \* the calls of resource accessors

descriptorVars == <<nextSet, samplerCalls, numImageSampler, keys, discriminants,
                    allKernelsSet, allKernelsBinding, setAndBinding, calls>>

VARIABLES
    nextSpecId,           \* the counter of AllocateSpecConstant
    specConstants,        \* the list of what has been allocated: <<kind, SpecId>>
    specIdTypes,          \* spec_id_types: <<type, SpecId>>, in order for a type
    functionSpecIds,      \* function_spec_ids
    functionAllocations,  \* function_allocations
    localSpecIds          \* the metadata: <<kernel, argument, SpecId>>

specIdVars == <<nextSpecId, specConstants, specIdTypes, functionSpecIds,
                functionAllocations, localSpecIds>>

vars == <<program, options, pc, kernel, arg, descriptorVars, specIdVars>>

FirstSpecId == 3     \* first_spec_id: the workgroup size has the IDs before it
Unallocated == -1    \* kUnallocated, and the index of no discriminant

TheArg == program.args[kernel][arg]
NumArgs(k) == Len(program.args[k])
Skipped(a) == ~a.used /\ ~options.kernelArgInfo
IsPushConstant(a) == a.kind = "pod_pushconstant"

FollowingLoop ==
    [classify |-> "assign", assign |-> "rewrite", rewrite |-> "spec_ids",
     spec_ids |-> "done"]

NextKernel ==
    /\ IF kernel < NumKernels
       THEN kernel' = kernel + 1 /\ UNCHANGED pc
       ELSE kernel' = 1 /\ pc' = FollowingLoop[pc]
    /\ arg' = 1

Init ==
    /\ program \in Programs
    /\ options \in Options
    /\ pc = "samplers"
    /\ kernel = 1 /\ arg = 1
    /\ nextSet = 0
    /\ samplerCalls = {}
    /\ numImageSampler = 0
    /\ keys = <<>>
    /\ discriminants = [k \in Kernels |-> <<>>]
    /\ allKernelsSet = Unallocated
    /\ allKernelsBinding = <<>>
    /\ setAndBinding = [k \in Kernels |-> <<>>]
    /\ calls = {}
    /\ nextSpecId = FirstSpecId
    /\ specConstants = <<>>
    /\ specIdTypes = <<>>
    /\ functionSpecIds = {}
    /\ functionAllocations = <<>>
    /\ localSpecIds = {}

(***************************************************************************)
(* AllocateLiteralSamplerDescriptors.  program.literals are the values of  *)
(* the calls of the sampler initializer, in the order of its users.        *)
(***************************************************************************)
SamplerBinding(i) ==
    LET first == CHOOSE j \in 1..i :
                    /\ program.literals[j] = program.literals[i]
                    /\ \A h \in 1..(j - 1) : program.literals[h] # program.literals[i]
    IN  Cardinality({program.literals[h] : h \in 1..(first - 1)})

\* Wrong variant: the set is looked at and not taken.
AllocateLiteralSamplers_NotTaken ==
    /\ pc = "samplers"
    /\ samplerCalls' = {[value |-> program.literals[i], set |-> nextSet,
                         binding |-> SamplerBinding(i)] :
                           i \in DOMAIN program.literals}
    /\ nextSet' = nextSet
    /\ pc' = "classify"
    /\ UNCHANGED <<program, options, kernel, arg, numImageSampler, keys,
                   discriminants, allKernelsSet, allKernelsBinding,
                   setAndBinding, calls, specIdVars>>

AllocateLiteralSamplers ==
    /\ pc = "samplers"
    /\ samplerCalls' = {[value |-> program.literals[i], set |-> nextSet,
                         binding |-> SamplerBinding(i)] :
                           i \in DOMAIN program.literals}
    /\ nextSet' = IF program.literals = <<>> THEN nextSet ELSE nextSet + 1
    /\ pc' = "classify"
    /\ UNCHANGED <<program, options, kernel, arg, numImageSampler, keys,
                   discriminants, allKernelsSet, allKernelsBinding,
                   setAndBinding, calls, specIdVars>>

(***************************************************************************)
(* First loop: the discriminant of an argument, and its index unless the   *)
(* argument needs no descriptor.                                           *)
(***************************************************************************)
IsImageOrSampler(a) == a.kind \in {"image", "sampler"}
NeedsNoDescriptor(a) == a.kind = "local" \/ (a.kind = "image" /\ a.metadataOnly)

\* Wrong variant: what makes a variable coherent is not part of the key.
Discriminant_NotCoherent(a, i) ==
    [type |-> a.type, argIndex |-> i, coherent |-> FALSE,
     separation |-> IF IsImageOrSampler(a) /\ options.distinctImageSampler
                    THEN numImageSampler ELSE 0]

Discriminant(a, i) ==
    [type |-> a.type, argIndex |-> i, coherent |-> a.coherent,
     separation |-> IF IsImageOrSampler(a) /\ options.distinctImageSampler
                    THEN numImageSampler ELSE 0]

IndexOf(key) ==
    IF \E i \in DOMAIN keys : keys[i] = key
    THEN (CHOOSE i \in DOMAIN keys : keys[i] = key) - 1
    ELSE Len(keys)

ClassifyArg ==
    /\ pc = "classify"
    /\ arg <= NumArgs(kernel)
    /\ IF Skipped(TheArg)
       THEN UNCHANGED <<numImageSampler, keys, discriminants>>
       ELSE LET key == Discriminant(TheArg, arg)
                index == IF NeedsNoDescriptor(TheArg) THEN Unallocated
                                                      ELSE IndexOf(key)
            IN  /\ numImageSampler' = IF IsImageOrSampler(TheArg)
                                      THEN numImageSampler + 1
                                      ELSE numImageSampler
                /\ keys' = IF index = Len(keys) THEN Append(keys, key) ELSE keys
                /\ discriminants' =
                       [discriminants EXCEPT ![kernel] =
                           Append(@, [index |-> index, key |-> key])]
    /\ arg' = arg + 1
    /\ UNCHANGED <<program, options, pc, kernel, nextSet, samplerCalls,
                   allKernelsSet, allKernelsBinding, setAndBinding, calls,
                   specIdVars>>

(***************************************************************************)
(* Second loop, -distinct-kernel-descriptor-sets: a kernel takes a set of  *)
(* its own.  It walks the arguments in use, and the list of discriminants  *)
(* by the number of arguments in use it has met.                           *)
(***************************************************************************)
UsedArgs(k) == {i \in 1..NumArgs(k) : program.args[k][i].used}
UsedArg(k, position) ==
    program.args[k][CHOOSE i \in UsedArgs(k) :
                        Cardinality({j \in UsedArgs(k) : j <= i}) = position]

AssignDistinctSet ==
    LET info == discriminants[kernel]
        pair(i) ==
            IF info[i].index = Unallocated THEN <<Unallocated, Unallocated>>
            ELSE <<IF IsPushConstant(UsedArg(kernel, i)) THEN Unallocated
                                                        ELSE nextSet,
                   Cardinality({j \in 1..(i - 1) : info[j].index # Unallocated})>>
    IN  /\ pc = "assign" /\ options.distinctSets
        /\ setAndBinding' = [setAndBinding EXCEPT ![kernel] =
                                [i \in 1..Cardinality(UsedArgs(kernel)) |-> pair(i)]]
        /\ nextSet' = nextSet + 1
        /\ NextKernel
        /\ UNCHANGED <<program, options, samplerCalls, numImageSampler, keys,
                       discriminants, allKernelsSet, allKernelsBinding, calls,
                       specIdVars>>

(***************************************************************************)
(* Second loop, by default: all kernels use one set, which is taken when   *)
(* it is first needed, and one binding for an argument index.              *)
(***************************************************************************)
\* Wrong variant: the first two indexes get one binding.
BindingFor_OffByOne(i) ==
    IF i \in DOMAIN allKernelsBinding
    THEN allKernelsBinding[i]
    ELSE IF allKernelsBinding = <<>> THEN 0 ELSE Cardinality(DOMAIN allKernelsBinding) - 1

BindingFor(i) ==
    IF i \in DOMAIN allKernelsBinding
    THEN allKernelsBinding[i]
    ELSE Cardinality(DOMAIN allKernelsBinding)

AssignSharedArg ==
    LET position == Len(setAndBinding[kernel]) + 1
        allocate == discriminants[kernel][position].index # Unallocated
        take == ~IsPushConstant(TheArg) /\ allKernelsSet = Unallocated
        set == IF IsPushConstant(TheArg) THEN Unallocated
               ELSE IF take THEN nextSet ELSE allKernelsSet
    IN  /\ pc = "assign" /\ ~options.distinctSets
        /\ arg <= NumArgs(kernel)
        /\ IF ~Skipped(TheArg) /\ allocate
           THEN /\ allKernelsBinding' =
                       [i \in DOMAIN allKernelsBinding \cup {arg} |-> BindingFor(i)]
                /\ IF take
                   THEN allKernelsSet' = nextSet /\ nextSet' = nextSet + 1
                   ELSE UNCHANGED <<allKernelsSet, nextSet>>
           ELSE UNCHANGED <<allKernelsBinding, allKernelsSet, nextSet>>
        /\ setAndBinding' =
               IF Skipped(TheArg) THEN setAndBinding
               ELSE [setAndBinding EXCEPT ![kernel] =
                        Append(@, IF allocate THEN <<set, BindingFor(arg)>>
                                  ELSE <<Unallocated, Unallocated>>)]
        /\ arg' = arg + 1
        /\ UNCHANGED <<program, options, pc, kernel, samplerCalls,
                       numImageSampler, keys, discriminants, calls, specIdVars>>

(***************************************************************************)
(* Third loop: the uses of an argument become uses of a call of the        *)
(* accessor function of its discriminant.  A list that is too short is     *)
(* read past its end, where there is no telling what is found.             *)
(***************************************************************************)
Position(k, i) == Cardinality({j \in 1..i : ~Skipped(program.args[k][j])})

PairsAt(k, position) ==
    IF position \in DOMAIN setAndBinding[k]
    THEN {setAndBinding[k][position]}
    ELSE ({Unallocated} \cup 0..nextSet) \X {Unallocated, 0, 1}

RewriteArg ==
    LET position == Position(kernel, arg)
        info == discriminants[kernel][position]
    IN  /\ pc = "rewrite"
        /\ arg <= NumArgs(kernel)
        /\ IF ~Skipped(TheArg) /\ info.index # Unallocated
           THEN \E pair \in PairsAt(kernel, position) :
                    calls' = calls \cup
                        {[kernel |-> kernel, arg |-> arg, accessor |-> info.index,
                          set |-> pair[1], binding |-> pair[2],
                          kind |-> TheArg.kind, coherent |-> info.key.coherent]}
           ELSE UNCHANGED calls
        /\ arg' = arg + 1
        /\ UNCHANGED <<program, options, pc, kernel, nextSet, samplerCalls,
                       numImageSampler, keys, discriminants, allKernelsSet,
                       allKernelsBinding, setAndBinding, specIdVars>>

(***************************************************************************)
(* AllocateSpecConstant, for one kind after the other.                     *)
(***************************************************************************)
SpecConstantsOf(kinds) == [i \in DOMAIN kinds |-> <<kinds[i], nextSpecId + (i - 1)>>]

AllocateSpecConstants(kinds) ==
    /\ specConstants' = specConstants \o SpecConstantsOf(kinds)
    /\ nextSpecId' = nextSpecId + Len(kinds)

(***************************************************************************)
(* AllocateLocalKernelArgSpecIds: a SpecId another kernel uses for the     *)
(* same type is used again, unless this kernel uses it already.            *)
(***************************************************************************)
\* Wrong variant: a SpecId of any type is used again.
ReusableAt_AnyType(type) ==
    {i \in DOMAIN specIdTypes : specIdTypes[i][2] \notin functionSpecIds}

ReusableAt(type) ==
    {i \in DOMAIN specIdTypes : /\ specIdTypes[i][1] = type
                                /\ specIdTypes[i][2] \notin functionSpecIds}

FirstReusable(type) ==
    specIdTypes[CHOOSE i \in ReusableAt(type) :
                    \A j \in ReusableAt(type) : i <= j][2]

AllocateSpecId ==
    /\ pc = "spec_ids"
    /\ arg <= NumArgs(kernel)
    /\ IF Skipped(TheArg) \/ TheArg.kind # "local"
       THEN UNCHANGED specIdVars
       ELSE LET reuse == ReusableAt(TheArg.type) # {}
                id == IF reuse THEN FirstReusable(TheArg.type) ELSE nextSpecId
            IN  /\ IF reuse THEN UNCHANGED <<nextSpecId, specConstants>>
                   ELSE AllocateSpecConstants(<<"local_memory_size">>)
                /\ functionAllocations' =
                       Append(functionAllocations, <<TheArg.type, id>>)
                /\ functionSpecIds' = functionSpecIds \cup {id}
                /\ localSpecIds' = localSpecIds \cup {<<kernel, arg, id>>}
                /\ UNCHANGED specIdTypes
    /\ arg' = arg + 1
    /\ UNCHANGED <<program, options, pc, kernel, descriptorVars>>

\* The end of the argument loop of a kernel.  Its SpecIds become those that
\* other kernels may use.
EndOfArgs ==
    /\ pc \in {"classify", "assign", "rewrite", "spec_ids"}
    /\ ~(pc = "assign" /\ options.distinctSets)
    /\ arg > NumArgs(kernel)
    /\ NextKernel
    /\ specIdTypes' = specIdTypes \o functionAllocations
    /\ functionSpecIds' = {}
    /\ functionAllocations' = <<>>
    /\ UNCHANGED <<program, options, nextSpecId, specConstants, localSpecIds,
                   descriptorVars>>

Finished == pc = "done" /\ UNCHANGED vars

Next ==
    \/ AllocateLiteralSamplers
    \/ ClassifyArg
    \/ AssignDistinctSet
    \/ AssignSharedArg
    \/ RewriteArg
    \/ AllocateSpecId
    \/ EndOfArgs
    \/ Finished

Spec == Init /\ [][Next]_vars

-----------------------------------------------------------------------------

(***************************************************************************)
(* Two arguments of a kernel never get the same set and binding, so the    *)
(* program can bind different resources to them                            *)
(* (AllocateDescriptorsPass.h, "we have to use distinct descriptors").     *)
(***************************************************************************)
ArgsHaveTheirOwnBinding ==
    \A c, d \in calls :
        /\ c.kernel = d.kernel /\ c.arg # d.arg
        /\ c.kind # "pod_pushconstant" /\ d.kind # "pod_pushconstant"
        => <<c.set, c.binding>> # <<d.set, d.binding>>

(***************************************************************************)
(* Literal samplers have a descriptor set of their own, and in it one      *)
(* binding for each value (AllocateDescriptorsPass.cpp:128 and 152-180).   *)
(***************************************************************************)
SamplersApart ==
    /\ \A s \in samplerCalls : \A c \in calls : s.set # c.set
    /\ \A s, t \in samplerCalls : s.value = t.value <=> s.binding = t.binding

(***************************************************************************)
(* Two __local arguments of a kernel never get the same SpecId: each is    *)
(* sized on its own (line 793).  A SpecId stands for one element type in   *)
(* all the kernels that use it, and is none of the IDs the workgroup size  *)
(* and other passes took (lines 788-809; SpecConstant.cpp:29).             *)
(***************************************************************************)
TypeOfArg(k, a) == program.args[k][a].type

LocalArgsSizedApart ==
    /\ \A x \in localSpecIds : x[3] >= FirstSpecId
    /\ \A x, y \in localSpecIds : x[3] = y[3] =>
          /\ TypeOfArg(x[1], x[2]) = TypeOfArg(y[1], y[2])
          /\ x[1] = y[1] => x = y

(***************************************************************************)
(* "Maps a function to the list of set and binding to use, per argument"   *)
(* (AllocateDescriptorsPass.cpp:405): once all kernels have their lists,   *)
(* a list has a pair for every argument that is to be rewritten.           *)
(***************************************************************************)
APairForEveryArg ==
    pc \in {"rewrite", "spec_ids", "done"} =>
        \A k \in Kernels : \A i \in DOMAIN discriminants[k] :
            discriminants[k][i].index # Unallocated =>
                i \in DOMAIN setAndBinding[k]
=============================================================================

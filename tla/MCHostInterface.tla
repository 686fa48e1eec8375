---------------------------- MODULE MCHostInterface ----------------------------
(* What a kernel and its host have between them, one at a time: the printf buffer,
   the arguments of the kernels of a module, the place of a work-item, the layout of
   a structure, or the __constant variables. *)
EXTENDS PrintfBuffer, WorkItems

\* printf("..."), printf("%v2hhd %ld", char2, long), printf("%d", int)
MCSites == 0..2
MCTypes == 0 :> <<>> @@ 1 :> <<2, 8>> @@ 2 :> <<4>>
MCArgEnd == [s \in MCSites |-> RunningTotals(MCTypes[s])]

\* printf("%v3hd", short3)
MCSites3 == {0}
MCArgEnd3 == [s \in MCSites3 |-> RunningTotals(<<6>>)]

------------------------------------------------------------------------------

VARIABLES mod, opts, stage, args, impl, block, pods, podIndex, argMap, imageOps, samplerOps, reflection,
          uses, layoutOpts, checked, rejected, remapped, pending, generated

argumentVars == <<mod, opts, stage, args, impl, block, pods, podIndex, argMap, imageOps, samplerOps, reflection>>
layoutVars == <<uses, layoutOpts, checked, rejected, remapped, pending, generated>>

Types == INSTANCE LLVMTypes

------------------------------------------------------------------------------
(* Kernels: every list of arguments with one kernel that has something else, and
   some with each other. *)
I8 == Types!IntTy(1)
I16 == Types!IntTy(2)
I32 == Types!IntTy(4)
Arr == Types!StructTy(<<Types!ArrayTy(2, I16), I32>>)
S8 == Types!StructTy(<<I8, I8>>)
S32 == Types!StructTy(<<I32, I8>>)
Resource(kind) == [kind |-> kind, num |-> 0, ele |-> <<>>]
Buffer == Resource("buffer")
Image == Resource("image")
Sampler == Resource("sampler")

Kernel(a, u, metadata) == [args |-> a, used |-> u, uses |-> metadata]
All(a) == Kernel(a, DOMAIN a, {})
Use(name, a, d) == [pc |-> name, arg |-> a, depth |-> d]

ArgLists ==
  {<<I32, Buffer, I8, I16>>, <<I8, Types!VectorTy(3, I16), Buffer>>, <<I16, Types!VectorTy(2, I8), Types!IntTy(8)>>,
   <<Buffer, I8, Types!VectorTy(3, I32)>>, <<I16, Arr>>, <<S32, Buffer, I16>>, <<I8, S8>>,
   <<Types!VectorTy(8, I16)>>, <<Arr, I8, I8>>}
Others ==
  {Kernel(<<I32, Image, I8, Image>>, {1, 2, 3, 4}, u) :
     u \in {{Use("ChannelOrder", 4, 1), Use("ChannelDataType", 2, 0)}, {Use("ChannelOrder", 2, 0), Use("ChannelOrder", 4, 0)}}}
  \cup {Kernel(<<I16, Image, Sampler>>, {1, 2, 3}, {Use("NormalizedSamplerMask", 3, 1)})}
  \cup {All(<<Buffer, Image>>), Kernel(<<I8, Buffer, I32>>, {3}, {}), All(<<I8, S8>>), All(<<I32, Buffer, I8, I16>>)}
MCModules ==
  {[kernels |-> <<All(a), k>>, functions |-> f] :
    a \in ArgLists, k \in Others, f \in {{}, {"get_global_id", "printf"}, {"get_group_id", "get_global_size"}}}

Option(pod, cluster, nonUniform, physical, max) ==
  [pod |-> pod, cluster |-> cluster, nonUniform |-> nonUniform, globalOffset |-> TRUE, globalOffsetPC |-> FALSE,
   constantsInBuffer |-> FALSE, printf |-> TRUE, physical |-> physical, std430 |-> FALSE,
   storage |-> {"UBO", "PushConstant"} \X {8, 16}, maxPushConstants |-> max]
MCOptions ==
  {Option("auto", TRUE, n, FALSE, m) : n \in BOOLEAN, m \in {8, 16, 64}}
  \cup {Option("auto", TRUE, TRUE, TRUE, 64), Option("auto", FALSE, FALSE, FALSE, 64),
        Option("kUBO", TRUE, FALSE, FALSE, 64), Option("kPushConstant", TRUE, TRUE, TRUE, 64),
        [Option("auto", TRUE, FALSE, FALSE, 16) EXCEPT !.storage = {<<"UBO", 8>>, <<"PushConstant", 16>>}, !.std430 = TRUE]}

Arguments == INSTANCE KernelArguments WITH Modules <- MCModules, Options <- MCOptions

------------------------------------------------------------------------------
(* Work-items: each builtin alone, and those that share inputs together. *)
MCUsed ==
  LET builtins == {"get_global_offset", "get_global_id", "get_local_size", "get_local_id", "get_num_groups",
                   "get_group_id", "get_global_size", "get_work_dim", "get_enqueued_local_size",
                   "get_enqueued_num_sub_groups", "get_global_linear_id", "get_local_linear_id"}
  IN [functions : {{f} : f \in builtins}
        \cup {{}, {"get_global_linear_id", "get_group_id"}, {"get_global_size", "get_num_groups", "get_local_size"},
              {"get_global_id", "get_local_linear_id"}, {"get_enqueued_num_sub_groups", "get_global_id"}},
      required : {<<>>, <<2, 1, 3>>}]
MCWorkItemOptions ==
  {[nonUniform |-> n, globalOffset |-> o, globalOffsetPC |-> p, workDim |-> TRUE,
    constantsInBuffer |-> FALSE, printf |-> FALSE, physical |-> FALSE] : n \in BOOLEAN, o \in BOOLEAN, p \in BOOLEAN}
MCRanges ==
  [size : {<<4, 2, 3>>, <<5, 1, 4>>, <<3, 3, 1>>}, local : {<<2, 1, 3>>, <<2, 2, 1>>, <<3, 1, 2>>},
   offset : {<<0, 0, 0>>, <<1, 0, 4>>}]

------------------------------------------------------------------------------
(* Structures: records of two or three fields of all kinds, and modules that use
   one structure in several places. *)
CSource == INSTANCE UniformLayout WITH LayoutModules <- {}, LayoutOptions <- {}
V(n, t) == Types!VectorTy(n, t)
Nested ==
  {CSource!Record(<<I32, I32>>, <<1, 16>>, FALSE), CSource!Record(<<V(4, I32), I32>>, <<1, 1>>, FALSE),
   CSource!Record(<<I32, I8>>, <<4, 1>>, TRUE)}
Fields ==
  {I8, I16, I32, V(2, I16), V(2, I32), V(3, I32), V(4, I32), V(4, Types!IntTy(8)),
   Types!ArrayTy(2, I32), Types!ArrayTy(2, V(4, I32)), Types!ArrayTy(16, I8)}
    \cup Nested \cup {Types!ArrayTy(2, r) : r \in Nested}
Records ==
  {CSource!Record(<<a, b>>, <<1, n>>, packed) : a \in Fields, b \in Fields, n \in {1, 16}, packed \in BOOLEAN}
    \cup {CSource!Record(<<a, b, V(4, I32)>>, <<1, n, 1>>, FALSE) :
             a \in {I8, Types!ArrayTy(2, V(4, I32))} \cup Nested, b \in Fields, n \in {1, 16}}
StructUse(t, space) == [ty |-> t, space |-> space]
MCStructures ==
  {<<StructUse(r, "constant")>> : r \in Records}
    \cup {<<StructUse(r, "global"), StructUse(CSource!Record(<<r, I32>>, <<1, 1>>, FALSE), "private"), StructUse(r, "constant")>> :
            r \in Nested}
LayoutOption(constantUBO, std430, relaxed, int8) ==
  [constantUBO |-> constantUBO, std430 |-> std430, relaxed |-> relaxed, int8 |-> int8]
MCLayoutOptions ==
  {LayoutOption(TRUE, FALSE, FALSE, TRUE), LayoutOption(TRUE, FALSE, FALSE, FALSE), LayoutOption(TRUE, TRUE, FALSE, TRUE),
   LayoutOption(TRUE, FALSE, TRUE, TRUE), LayoutOption(FALSE, FALSE, FALSE, TRUE)}

Layouts == INSTANCE UniformLayout WITH LayoutModules <- MCStructures, LayoutOptions <- MCLayoutOptions

------------------------------------------------------------------------------
(* Constant data: modules of three variables; each is used as what it is or by a
   getelementptr of another type, one is used twice. *)
VARIABLES program, inBuffer, constantStep, globals, accesses, toNormalize,
          initializers, initializers_alignment, cluster, initializer_index, data
constantVars == <<program, inBuffer, constantStep, globals, accesses, toNormalize,
                  initializers, initializers_alignment, cluster, initializer_index, data>>

Constants == INSTANCE ConstantData WITH ConstantPrograms <- {}
RECURSIVE Filled(_, _)
Filled(t, leaf) ==
  IF Types!IsComposite(t)
  THEN Constants!Composite(t, [i \in 1 .. t.num |-> Filled(Constants!ElementType(t, i), Append(leaf, i))])
  ELSE Constants!Number(t, leaf)
ConstantUse(t, align, gep) == [ty |-> t, align |-> align, gep |-> gep]
Square == Types!ArrayTy(2, Types!ArrayTy(2, I16))
TwoVectors == Types!ArrayTy(2, V(2, I16))
ConstantUses ==
  { ConstantUse(I8, 1, Types!NoType), ConstantUse(I32, 4, Types!NoType), ConstantUse(I32, 32, Types!NoType),
    ConstantUse(Types!ArrayTy(4, I16), 8, Types!NoType), ConstantUse(V(3, I32), 16, Types!NoType),
    ConstantUse(Types!ArrayTy(2, V(3, I16)), 8, Types!NoType),
    ConstantUse(S32, 4, S32),
    ConstantUse(Square, 2, Types!ArrayTy(4, I16)),
    ConstantUse(Square, 2, Types!StructTy(<<Types!ArrayTy(2, I16), I16, I16>>)),
    ConstantUse(Types!StructTy(<<S32, S32>>), 4, Types!ArrayTy(2, S32)),
    ConstantUse(TwoVectors, 4, Types!StructTy(<<V(2, I16), V(2, I16)>>)) }
\* What has the number 0 for a name is the same in every variable of its type.
ConstantOf(c, n) == [init |-> Filled(c.ty, <<IF c.ty \in {I32, V(3, I32)} THEN 0 ELSE n>>), align |-> c.align]
UseOf(g, c) == [of |-> g, gep |-> c.gep]
MCConstantPrograms ==
  { [globals |-> <<ConstantOf(a, 1), ConstantOf(b, 2), ConstantOf(c, 3)>>,
     accesses |-> <<UseOf(1, a)>> \o (IF isUsed THEN <<UseOf(2, b)>> ELSE <<>>)
                    \o <<UseOf(3, c), UseOf(3, [c EXCEPT !.gep = Types!NoType])>>] :
      a \in ConstantUses, b \in ConstantUses, c \in ConstantUses, isUsed \in BOOLEAN }

Data == INSTANCE ConstantData WITH ConstantPrograms <- MCConstantPrograms

------------------------------------------------------------------------------
NoArguments ==
  /\ stage = "none" /\ mod = {} /\ opts = {} /\ args = {} /\ impl = {} /\ block = {} /\ pods = {}
  /\ podIndex = {} /\ argMap = {} /\ imageOps = {} /\ samplerOps = {} /\ reflection = {}
NoItems ==
  /\ step = -1 /\ used = {} /\ wiOptions = {} /\ functions = {} /\ variables = {} /\ sound = {}
  /\ range = NoRange
NoLayout ==
  /\ checked = -1 /\ uses = {} /\ layoutOpts = {} /\ rejected = {} /\ remapped = {} /\ pending = {} /\ generated = {}
NoConstants ==
  /\ constantStep = "none" /\ program = {} /\ inBuffer = FALSE /\ globals = <<>> /\ accesses = <<>>
  /\ toNormalize = <<>> /\ initializers = <<>> /\ initializers_alignment = <<>> /\ cluster = <<>>
  /\ initializer_index = <<>> /\ data = <<>>
IsArguments == stage # "none"
IsItems == step # -1
IsLayout == checked # -1
IsConstants == constantStep # "none"

MCInit == \/ Init /\ NoArguments /\ NoItems /\ NoLayout /\ NoConstants
          \/ Init /\ Arguments!ArgInit /\ NoItems /\ NoLayout /\ NoConstants
          \/ Init /\ NoArguments /\ WorkItemsInit /\ NoLayout /\ NoConstants
          \/ Init /\ NoArguments /\ NoItems /\ Layouts!LayoutInit /\ NoConstants
          \/ Init /\ NoArguments /\ NoItems /\ NoLayout /\ Data!ConstantInit
MCNext == \/ /\ ~IsArguments /\ ~IsItems /\ ~IsLayout /\ ~IsConstants
             /\ Next /\ UNCHANGED <<argumentVars, wiVars, layoutVars, constantVars>>
          \/ IsArguments /\ Arguments!ArgNext /\ UNCHANGED <<vars, wiVars, layoutVars, constantVars>>
          \/ IsItems /\ WorkItemsNext /\ UNCHANGED <<vars, argumentVars, layoutVars, constantVars>>
          \/ IsLayout /\ Layouts!LayoutNext /\ UNCHANGED <<vars, argumentVars, wiVars, constantVars>>
          \/ IsConstants /\ Data!ConstantNext /\ UNCHANGED <<vars, argumentVars, wiVars, layoutVars>>
MCSpec == MCInit /\ [][MCNext]_<<vars, argumentVars, wiVars, layoutVars, constantVars>>

(* Every byte of an argument, resource or value of the host that a kernel reads is
   the one the host, following reflection, wrote for it. *)
KernelReadsItsArguments == IsArguments => Arguments!KernelReadsItsArguments

(* What is put in push constants fits, though it was decided before the block that
   all kernels share was laid out. *)
PushConstantsFit == IsArguments => Arguments!PushConstantsFit

(* What the front end takes for a uniform or storage buffer is a type Vulkan allows
   there in the end, with all the data where the host has them. *)
UniformBlocksAreLegal == IsLayout => Layouts!UniformBlocksAreLegal

(* Whatever a use of a __constant variable reads is what the program initialized
   the variable with, also from the bytes the host is given to put in a buffer. *)
ConstantsReadBack == IsConstants => Data!ConstantsReadBack
================================================================================

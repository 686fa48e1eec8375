# clspv in TLA+

clspv compiles OpenCL C kernels to SPIR-V for Vulkan. This directory models the
parts of it whose correctness depends on more than one instruction: algorithms
that run concurrently on the device, passes whose decisions about one function
depend on all the others, what the host and the kernels have to agree on, and
passes that rewrite accesses, vectors, integers and control flow. TLC checks the
models on small instances, TLAPS proves the most important results for all
instances.

Paths are relative to the repository (`lib/X.cpp` is `src/lib/X.cpp` in
`PROJECT.json`, which maps every definition to the lines it models).

## 1. The system

clang turns OpenCL C into LLVM IR; `lib/Compiler.cpp` runs about eighty passes
over the module, one after the other on one thread; the last,
`SPIRVProducerPass`, writes SPIR-V. A pass keeps its state in members and in
metadata of the module that later passes read: this metadata, and the functions
clspv makes up as markers (`clspv.resource.var`, `clspv.sampler.var`,
`_Z8spirv.op`), are the interfaces between components. The compiler itself
is sequential; the code it generates is run by many work-items at once.

| Component | State | Operations | What is hard | Correct when |
|---|---|---|---|---|
| Device printf buffer (`PrintfPass.cpp`) | buffer of words shared by all work-items, counter in word 0 | reserve with an atomic add, store arguments, store the ID | interleavings, a full buffer, sizes that are no whole words | finished records are intact, nothing outside a record is written, the host can walk the records |
| Sharing of `__local` variables (`ShareModuleScopeVariables.cpp`) | entry points of functions and of variables, dead variables | trace the call graph, merge greedily, erase | entry points change with every merge | no kernel finds two of its variables merged, no use dangles |
| Descriptor allocation (`AllocateDescriptorsPass.cpp`, `DescriptorCounter.cpp`) | counter of sets, discriminants, bindings by argument index, lists by kernel | literal samplers, classify arguments, sets and bindings, rewrite to accessors | lists that must agree by position; bindings shared by kernels | arguments of a kernel are told apart, literal samplers keep to themselves |
| Specialization constants (`SpecConstant.cpp`, `AllocateDescriptorsPass.cpp`, `SPIRVProducerPass.cpp`) | counter, list of constants, IDs by type, IDs used by the kernel at hand, decorations | allocate, reuse across kernels, decorate, reflect | reuse never within a kernel; two passes draw from one counter; a constant is decorated here and reflected there | each constant has a SpecId of its own and the host is told it, each `__local` argument is sized alone |
| Resource variables (`SPIRVProducerPass.cpp`) | variables by set, binding, type | find the accessor calls, make variables, reflect them | a variable is made of the first call met | every call has the variable it describes |
| Coherent memory (`AllocateDescriptorsPass.cpp`, `SPIRVProducerPass.cpp`) | which functions synchronize, walks over uses | find synchronization, reads and writes, decorate | two walks in opposite directions, remembered visits | memory shared under synchronization is decorated, on the variable and on every parameter it reaches |
| SPIR-V generation: control flow (`FixupStructuredCFGPass.cpp`, `ComputeStructuredOrder.cpp`, `ReorderBasicBlocksPass.cpp`, `SPIRVProducerPass.cpp`) | blocks, phis, merge and continue blocks, deferred instructions | isolate blocks, remove phis, order blocks, record merges, generate, patch | merges are guessed in three places; phis name blocks that move | the control flow is structured and the function runs as before |
| SPIR-V generation: the rest (`SPIRVProducerPass.cpp`) | sections, ID maps | types, constants, instructions, decorations | size | not modelled |
| Pod arguments and push constants (`PhysicalPointerArgsPass.cpp`, `AutoPodArgsPass.cpp`, `DeclarePushConstantsPass.cpp`, `PushConstant.cpp`, `ClusterPodKernelArgumentsPass.cpp`, `SetImageMetadataPass.cpp`) | kind of each kernel's arguments, one block of push constants, maps of old to new arguments | choose, declare, cluster, renumber, reflect | one block for kernels that choose separately; two renumberings | a kernel reads what the host wrote where reflection told it to |
| Layout of uniform and storage buffers (`FrontendPlugin.cpp`, `UBOTypeTransformPass.cpp`, `Layout.cpp`) | cache of mapped types, remapped offsets | refuse, take padding apart, lay out | the same structure in two storage classes | types are legal in Vulkan, data are where the host has them |
| Constant data (`NormalizeGlobalVariable.cpp`, `ClusterConstants.cpp`, `ConstantEmitter.cpp`) | list of initializers, one structure of all, its bytes | normalize, cluster, emit | padding computed here and bytes there | a use reads what the variable was initialized with |
| Work-item builtins (`DefineOpenCLWorkItemBuiltinsPass.cpp`) | bodies, input variables | define each builtin used | ranges run in regions; offsets; definition order | a work-item is told its place in the range |
| Call graph (`CallGraphOrderedFunctions.cpp`, `DirectResourceAccessPass.cpp`, `RemoveUnusedArguments.cpp`, `MultiVersionUBOFunctionsPass.cpp`, inliners, `FunctionInternalizerPass.cpp`) | candidates by function, work lists | order, inline, specialize, remove | fixpoints over call sites, termination | accesses stay where they were, nothing is left to do |
| Pointer and bitcast lowering (`SimplifyPointerBitcastPass.cpp`, `ReplacePointerBitcastPass.cpp`, `BitcastUtils.cpp`) | the access being rewritten, work lists | ten simplifications in rounds, then replacement | byte offsets through divisions, termination | the same bytes are read and written |
| Vector lowering (`LongVectorLoweringPass.cpp`, `ThreeElementVectorLoweringPass.cpp`) | maps of old to new types and values, dead instructions | rewrite each kind of instruction | offsets of members, phis, variable indices | the same values are computed |
| Vector and half memory builtins (`ReplaceOpenCLBuiltinPass.cpp`) | memory words two halves share | vload/vstore and their half variants | a store of half a word is a read and a later atomic | calls move exactly their elements, whatever others do to the same words |
| Integer builtins and intrinsics (`ReplaceOpenCLBuiltinPass.cpp`, `ReplaceLLVMIntrinsicsPass.cpp`, `SPIRVOp.cpp`) | the call being rewritten | two passes of rewriting | wrapping arithmetic, shifts by the width, halves of 64-bit products | the code computes what the builtin is defined to |
| Clean-up of LLVM transformations (`UndoInstCombinePass.cpp`, `UndoBoolPass.cpp`, `UndoTruncateToOddIntegerPass.cpp`, `SignedCompareFixupPass.cpp`, ...) | extended values by value, zombies | undo what LLVM made | signedness, odd widths, a memo | no odd width is left, the function computes what it did |
| Other OpenCL builtins (`ReplaceOpenCLBuiltinPass.cpp`, `Builtins.cpp`) | none | barriers, fences, async copies, atomics, images, math | order of copies and barriers | not modelled |
| Image specialization (`SpecializeImageTypes.cpp`) | uses to look at, visited uses, type by argument | search for a read or write, hand the type on, rewrite functions | functions shared by images, what was visited before | functions and builtins are declared for the image they are given |
| Driver, options, C API (`Compiler.cpp`, `Option.cpp`, `tools/`) | options; buffers handed to the caller | compile, link, free | ownership of buffers | not modelled, but the order of the call graph passes |
| Reflection reader (`tools/reflection`) | none | read a module | none | not modelled: input and output |

## 2. Modules

A component whose models are small enough shares an MC module, and a run, with
another: `MCHostInterface`, `MCFunctionBodies`, `MCBuiltins`, `MCCallGraphPasses`
and `MCAccessLowering` are joined that way. *One* of several things happens in a
behaviour; the variables of the others keep a value that means "none", and the
properties of a part are implications of "it is this part that runs". A
`...Proofs` module holds theorems. `X_Y` is a wrong variant of the
definition `X`: replacing `X` by it must break the property named in
`PROJECT.json` ("mutants").

### What host and kernels agree on

**printf: `PrintfLog`, `PrintfBuffer`, `HostInterfaceProofs`.**
`PrintfLog` is what printf promises: calls are made in an order, each is printed
once and told 0 or refused and told -1, and nothing is printed after a refusal.
`PrintfBuffer` is the code of `DefinePrintfInstance`: `Reserve` is the entry
block with its atomic add and the two tests of room; `StoreArg` stores one
argument (the block copy_args, a store per step, as other work-items see them);
`StorePrintfID` ends the call. Memory is addressed by bytes: `PrintfPass` counts
in words but stores values of any size. `ArgEnd` gives running totals of the
sizes by site, so that no sum over a sequence has to be reasoned about in the
proofs; `MCHostInterface` computes it from sizes with `RunningTotals`. The runtime's
walk over the records goes from one record to the next by the size it looks up
under its ID (`RecordsSeen`, `RecordsFound`). A value in memory says who wrote it,
so `RecordIntact` can ask that nobody else did.

**Pod arguments: `PushConstants`, `KernelArguments`.** `KernelArguments`
has an action per pass, in their order: `PhysicalPointerArgs`, `AutoPodArgs`,
`DeclarePushConstants`, `ClusterPodKernelArguments`, `SetImageMetadata`,
`GenerateReflection`. Each applies to all kernels, as each pass does. A module is
kernels with lists of argument types, which are used, and the image metadata
asked for. `PushConstants` has which values the host is asked for
(`ShouldDeclare`: the option is on and one of the builtins is there that use the
value); `WorkItems` asks the same. How a type is put together from the words of
the block is `BuildFromElements`. `LLVMTypes` has the rules
of `Layout.cpp`. The property has two sides: `HostWrites` follows the reflection as a
runtime would, byte by byte with the value each byte belongs to; `Reads` follows
the kernel from its original arguments through every renumbering.

**Work-items: `WorkItems`, `HostInterfaceProofs`.** `DefineBuiltin` gives the next
used builtin its body (`Inputs`, `BuiltinsCalled`: what it needs from SPIR-V and from other builtins),
`AddWorkgroupSizeIfRequired` ends the pass, and `Launch` is the host running a
range, in up to two regions by dimension. `Body` has the bodies of the builtins,
`OpenCL` what OpenCL C says of them. What `SubgroupMaxSize` may be is left to the
device (`SubgroupSizes`).

**Buffers: `UniformLayout`.** `HandleParameter` is the check of the front end on
one parameter; `StartTransform` lowers what was accepted as clang does (`Lowered`,
explicit padding) and begins `UBOTypeTransformPass`; `MapNext` maps the next type,
with the cache types are kept in; `GenerateTypes` is what the producer decorates.
C types are records with alignments; LLVM types are those of `LLVMTypes`.

**`__constant` data: `ConstantData`.** `NormalizeVariableUsers`, then
`CollectConstants` and `PlaceInitializer` (one initializer at a time, with its
padding), and `EmitConstants`. A number in a constant is known by a name, so the
bytes emitted say which number of which variable they are.

### Passes over all functions

**`__local` variables: `ShareModuleScopeVars`, `KernelResourcesProofs`.**
`TraceFunction` is one call of the recursive function of that name, taken in any
order; `CollectUserEntryPoints` the loop over users; `VisitGlobal`, `TryNext`,
`Merge`, `LeaveGlobal` the two nested loops; `EraseDeadGlobals` the last one. The
module is picked in Init from `Programs`. `mergedInto` is a history variable.

**Descriptors: `AllocateDescriptors`, `ResourceVars`, `AllocateDescriptorsProofs`.** `AllocateDescriptors` runs
the loops of the pass over kernels and arguments, a
step per argument: `AllocateLiteralSamplers`, `ClassifyArg`,
`AssignDistinctSet` and `AssignSharedArg` (the two modes), `RewriteArg`, and
`AllocateSpecId` for `__local` arguments. `ResourceVars` composes it with what
`SPIRVProducerPass` makes of its accessor calls: `FindResourceVars` (with
`GenerateResourceVars`); `GenerateGlobalVar`, for the builtin variables that take
specialization constants; `GenerateWorkgroupVars`, for `__local` arguments; and
`GenerateReflection`, which reads the list of constants and the IDs of arguments back
from metadata. Types of arguments are members of a small set; how
types are inferred is not modelled, as nothing here depends on it.

**The call graph: `FunctionCalls`, `CallGraphOrder`, `CallGraphOrderProofs`,
`CallGraphPasses`, `CallGraphPassesProofs`.** `FunctionCalls` is
what the passes see: functions, the pointers handed over at calls (a resource or
parameter with the geps applied to it) and accesses. `Runs` are the functions as
kernels run them, each with the call sites on its way and what it is given in the
end; `Meaning` is all accesses of all kernels in them. `CallGraphOrder` is Kahn's algorithm over the reversed
edges, a step per turn of its loops, on any graph.
`CallGraphPasses` has the two passes that put resources in the place of
parameters: by rewriting the function (`RewriteResourceAccesses`), or by cloning it
for a call (`SpecializeOrInline`, where the arguments and the parameters a version gains
are matched by position, each made by a walk of its own: `ExtraArgs`, `ExtraParams`); the rounds that inline (into entry points, single
call sites, functions that ask for metadata of an image, read a 3D image with a
sampler that is not literal, or take a private pointer), erase uncalled functions
and remove unused parameters; and it runs all in the order `RunPassPipeline` adds
them (`Pipeline`). A source module is one the verifier of LLVM and the front end let
through (`IsModule`, assumed of all programs in `PassAssumption`).

**Images: `SpecializeImageTypes`, `KernelResourcesProofs`.** A module is the uses
of its images: builtins by the kind of component they read or write, queries, and
calls that hand an image on. `RemapUse` is one call of the function of that name,
which takes the next use in any order; `EndRemap` decides when no use is left;
`SpecializeArg` gives one argument its type and goes on to the functions that take it;
`RewriteFunctions` declares them anew.

**Coherence: `Coherence`, `CoherenceProofs`.** A kernel is met by `StartKernel` (which asks
`CallTreeContainsGlobalSynchronization`), each of its arguments is walked
forward by `StartArgument`, `VisitUser`, `EndArgument` (`HasReadsAndWrites`), and
`DecorateParameters` does what `GenerateFuncPrologue` does, backward from
parameters (`Sources`). Programs are given as data: instructions by their effect
on synchronization, values by what they do to pointers. What a walk can meet, and
the names of an argument, are least closed sets (`MetFrom`, `Aliases`).

### Passes over one function

**Control flow: `FixupStructuredCFG`, `StructuredControlFlow`,
`StructurizedFunctions`.** `FixupStructuredCFG` has functions as graphs of
blocks (the one definition of a followed variable and its phis included), what
LLVM's analyses say of them (dominators, loops), and the four parts of the pass
as operators. `StructuredControlFlow` takes a function through the phases: `Fixup`
four times, `ReorderBasicBlocks` in either order, `PopulateStructuredCFGMaps`,
`GenerateFuncBody` with a placeholder where a branch or phi will be, and
`HandleDeferredInstruction` one at a time; then the function runs
side by side with the one it was made from (`FollowBranch`,
`FollowBranchOfPass`). `StructurizedFunctions` enumerates functions as LLVM's
StructurizeCFG leaves them, and those of `test/FixupStructuredCFG`.

**Accesses: `LLVMTypes`, `BitcastUtils`, `ReplacePointerBitcasts`,
`AccessLowering`.** A program is an object, the geps
from it to one access, and the access. Every simplification is an operator on
programs; `RunSimplification` applies the next one, `RoundEnds` begins another
round if something changed, `DowngradeModule` goes on to the second pass, and
`ReplaceAccess` leaves the effect: the bytes a load returns, or those a store
writes, each with where it comes from. `Places` is the meaning: the bytes reached,
for constant and variable indices, as combinations of them.

**Vectors: `LLVMTypes`, `LongVectorLowering`,
`ThreeElementVectorLowering`, `VectorLowering`.** `LLVMTypes` also has the instructions
on vectors. `VectorLowering` visits a
function instruction by instruction, with the values it computes and, beside
them, what the code put in its place computes (`regs` and `low`, `mem` and
`lowmem`); `FillPhis` and `CleanDeadInstructions` end it. The two passes are
operators instantiated in it.

**Memory builtins: `HalfBuiltins`, `HalfArray`, `HalfMemory`, `HalfMemoryProofs`.**
`HalfBuiltins` is
the vocabulary of OpenCL C: the elements and places of a call.
`HalfArray` is the promise: memory is an array of halves and a call moves its
elements. `HalfMemory` lowers a call the way the pass does
(`LoweredLoad`, `LoweredStore`: one operator per function of the pass) to
instructions on words, run by concurrent work-items. `ReadCurrent` and
`AtomicXor` are the two halves of `createVstoreHalf`, apart in time.
A half is a set of bits, so that the exclusive-or is real. Calls that race in the
sense of OpenCL C (two that touch the same half, one storing) are not begun.

**Integers: `WordArithmetic`, `LLVMIntrinsics`, `IntegerBuiltins`,
`IntegerCleanUp`.** `WordArithmetic` has the instructions of LLVM on n-bit words
and `InsertOpMulExtended` of `SPIRVOp.cpp`; `LLVMIntrinsics` the code of
`ReplaceLLVMIntrinsicsPass`, as functions; `IntegerBuiltins` the rest, and a
call on its way: `ReplaceByIntrinsic` and `ReplaceByCode` are the first pass,
`ReplaceIntrinsic` is the second, which also meets intrinsics LLVM made. The code
put in place is evaluated on the call's operands. Vectors are taken by component.
`IntegerCleanUp` has bodies of instructions that refer to each other, and the
passes that rewrite them: `UndoInstCombine`, `UndoBool`, `UndoTruncates` with its
work list and memo, `EraseZombies`, `SignedCompareFixup`. `Value` evaluates a
body, with LLVM's poison as `Undefined`.

## 3. Runs

Sizes are distinct states with the given bounds. All bounds are constants of the
cfg or definitions of the MC module.

| Run | States | Bounds | Checks |
|---|---|---|---|
| `host_interface` | 105 thousand | printf: 2 work-items, 3 sites (no argument; char2 and long; int), 7 words of buffer, at most 9 words asked for. Arguments: each of 9 lists of arguments in a kernel, with one of 7 other kernels, 3 sets of builtins, 11 command lines. Work-items: each builtin and the sets that share inputs, 8 command lines, 18 ranges, run in up to eight regions, sub-groups of up to 3. Structures: records of 2 or 3 fields of 17 types, packed or not, 5 command lines. Constants: three variables of 11 kinds | `PrintedRecordsIntact`, `IDFoundArgsFound`, `WritesStayInRecord`, `RuntimeReadsPrinted`, the inductive invariant `IInv`, that the buffer implements the log (`ImplementsLog`); `KernelReadsItsArguments`, `PushConstantsFit`; `WorkItemsKnowTheirPlace`; `UniformBlocksAreLegal`; `ConstantsReadBack` |
| `printf_short3` | violation | one site with a short3 | a short3 is stored past its record (below) |
| `descriptors` | 1.3 million | 2 kernels of 2 arguments of 9 kinds, 3 command lines, with and without literal samplers. Constants: `__local` arguments of two types, used or not, with no builtin variable, two of them or all, and no, different or the same required workgroup sizes | `ArgsHaveTheirOwnBinding`, `SamplersApart`, `ConstantsAreTold`, `EveryCallHasItsVariable` |
| `descriptors_pods` | violation | pod arguments that are not clustered, in uniform buffers for one kernel and storage buffers for the other | a kernel gets a variable of the kind the other needs (below) |
| `descriptors_unused` | violation | the options -cl-kernel-arg-info and -distinct-kernel-descriptor-sets together | lists that should agree by position do not (below) |
| `function_bodies` | 152 thousand | coherence: a kernel, two helpers, two pointer arguments, two families of programs. Control flow: an if or a loop around every body of up to two items, two ifs or loops after each other, loops up to three deep, and 5 graphs of the tests, with a number or a pointer defined in any block, convergent or not, both block orders | `FencesFound`, `ReadAndWrittenIsCoherent`, `CoherenceReachesParameters`; `ControlFlowIsStructured`, `ExecutesTheSame` |
| `coherence_atomics` | violation | blocks of up to two synchronizing instructions | an ordered atomic is forgotten (below) |
| `builtins` | 456 thousand | halves: 2 work-items, one call each out of 56, 16 words of 2-bit halves, three kinds of target. Integers: every builtin on all values of char, short and int scaled to 1, 2 and 4 bits, and on 13 values of an 8-bit long; all four settings of the two options. Clean-up: three instructions on odd integers of 3 or 5 bits and one use, divisions and comparisons, on 100 inputs | `CurrentHalfIsFresh`, that memory implements the array of halves (`ImplementsArray`); `SumsAreExact`, `ProductsAreExact`, `BitsAreInPlace`; `CleanedUpComputesTheSame` |
| `mad_sat` | violation | all operands of a 4-bit int | the signed mad_sat does not saturate (below) |
| `call_graph` | 659 thousand | sharing: 2 kernels and 2 helpers with all call graphs, 3 variables of 2 types, all choices of one user or both kernels. Passes over functions: two kernels and two helpers with all the ways to hand down two pointers; all acyclic call graphs of two kernels and three helpers; helpers that use images and samplers, or private pointers; 4 pipelines. Images: two of kernels and two parameters, all ways to hand them on, each read, queried or neither | `NoKernelSharesWithItself`, `UsersFollowTheirVariable`, `NothingLeftToShare`; `AccessesKeepTheirPlace`, `CallersFirst`, `SharedResourcesAreDirect`, `FunctionsAreLegal`, `InlinedOnlyIfNeeded`, `CompilationEnds`; `ImagesAgree` |
| `access_lowering` | 180 thousand | accesses: loads and stores of 7 types through one gep of 10 types, loads of 3 types through two, from 14 objects. Vectors: 2 instructions after 5 given values, in 4 families of kinds of instructions, for vectors of 8 and of 3 | `AccessReachesItsBytes`, `LoweringEnds`; `LoweredComputesTheSame`, `ReplacedIsRemoved` |
| `access_endless` | violation | loads of parts of numbers of a `__local` variable | two simplifications undo each other (below) |

Why the bounds are enough to see the interesting cases:

- *printf*: seven words hold some records and not others: a buffer that is full, one
  with room for the ID only, a record of two arguments that ends at the last word, and
  two records being filled at once. `WordModulus` is 16 and `MaxReserved` 9, so the
  counter does not wrap; what a wrap does is a hazard the runs exclude (`NoWrap`).
- *arguments*: two kernels are the fewest that share a block. The lists mix sizes
  and alignments of 1 to 16 bytes, resources between pod arguments, structures and
  arrays, and image metadata asked for in any order, in the kernel or a function it
  calls; the sizes of the push constants make each choice of `AutoPodArgsPass`
  happen and fail.
- *work-items*: ranges that are a multiple of the workgroup in some dimensions
  and not in others, with and without offset; two regions in a dimension
  already tell where each begins from where the range does.
- *structures*: each pair of fields has each alignment and padding between and
  after them; a third field sees what follows padding. A structure used in a uniform
  buffer, a storage buffer and a private variable sees the cache in every state.
- *constants*: three variables are the fewest with one between two others that may
  be dropped, shared by two names, or padded.
- *sharing*: three variables are the fewest with which a merge can go wrong
  (the third is compared with what the first two became), two kernels with two
  levels of helpers are the fewest in which tracing takes several paths.
- *descriptors*: two arguments and two kernels bring out every pair of kinds in
  one kernel, and every reuse of a binding or SpecId by the next. The IDs of builtin
  variables follow those of the arguments, in any order.
- *images*: two images are the fewest of which one meets what the other left behind;
  two parameters are reached one through the other, in one call together, or both ways.
- *coherence*: two levels of calls, pointers merged by phis (also in a loop) and
  two arguments; each family varies what its half of the algorithm looks at.
- *control flow*: nesting brings loops in loops, ifs at the end of a loop
  and behind it, and latches that several branches reach: the cases the four parts of
  the pass are for.
- *call graph*: what a pass decides depends on a function, its callers and their
  callers: two levels. Removal cascades over three helpers. Functions are ordered
  before any is cloned, so `MaxFunctions` is the number of those in a program; the
  number of clones is not bounded.
- *accesses*: the types have sizes 1 to 16 with each a divisor or multiple of
  the others, so an access is narrower than, as wide as and wider than what is there;
  first indices are 0, constant, and variable with each divisor the code asks for.
- *vectors*: the second instruction sees any result of the first. A phi joins any
  earlier value with one from around a loop; a value stored, reloaded and taken apart
  takes an instruction each, hence the family of memory and elements.
- *half memory*: two work-items are the parties of a race for a word; the calls
  cover each function of the pass, at both halves of a word.
- *integers*: the code has only the widths as parameters, and branches on
  "narrower than int", "int", "twice that". Scaling keeps the four widths and their
  ratios. The three narrow widths are exhausted for operations of two operands.
  For three, the last one is at the borders. Two-bit halves of an int already carry
  in `MulInHalves`.
- *clean-up*: legal widths are scaled to 1, 2, 4, 8 and 16 bits; 3 and 5 are odd widths
  between them, so that the next legal one is one of several. Each operation the pass
  extends is both the user and the operand of another.

`CHECK_DEADLOCK FALSE` is set where a part may really stop: work-items are done
with their bounded number of calls (printf, half memory), the kernel is reflected,
the range launched, the call replaced, the function returned. In the
others the last state repeats, and a deadlock would be a pass that
stops half way.

### Fairness and liveness

Two kinds of loops of the compiler have no bound one can see: the rounds of the call
graph passes and those of the simplifications of accesses. For both, that they end
is stated and checked: `CompilationEnds` under `WF_vars(Next)`, `LoweringEnds`
under weak fairness of the rounds. The code justifies it: the compiler is one
thread, and while a loop has something to do it does it. In `AccessLowering` the
fairness of the steps within a round is written out (`Rewriting`), to the same
effect as `WF`, because TLC takes long to evaluate ENABLED of rewriting steps.
The device code has no loop that waits for another work-item, and Vulkan promises no
fairness among work-items, so progress there is only claimed by the absence of waiting.
The other passes are loops over finite lists.

### What the runs found

Each is a `finding` in `PROJECT.json`, with the lines.

- `printf_short3`: an argument of more than four bytes that is no multiple of
  four is stored unextended, past the rounded-down end of the record.
  `docs/OpenCLCOnVulkan.md` says such arguments are zero-extended.
- `descriptors_unused`: with both options, the list of bindings of a
  kernel leaves out unused arguments and the list of discriminants does not. The
  loop that walks both gives arguments the bindings of others.
- `descriptors_pods`: with `-cluster-pod-kernel-args=0` and, say,
  `-no-8bit-storage=ubo`, `AutoPodArgsPass` puts the pod arguments of a kernel with
  a char in storage buffers and those of one without in uniform buffers. The key that
  kernels share an accessor by does not hold the kind, so the second kernel
  reads through a variable of the first one's kind.
- `coherence_atomics`: in `CallTreeContainsGlobalSynchronization`, an ordered
  atomic is overwritten by a later instruction of its block that does not
  synchronize. Arguments then lack their Coherent decoration.
- `mad_sat`: `mad_sat(0, -1, c)` is the least int, and `mad_sat(1, 100, INT_MAX)`
  wraps. The tests of the code do not ask for a product of 0, or a sum that
  overflows from a small product.
- `access_endless`: for a char loaded from byte 4 of a `__local` array of floats,
  `runOnImplicitGEP` makes the gep one of chars before the load, and another
  simplification makes it one of the array again. The loop that goes on "until they
  stop changing things" does not end.

### What the runs leave out

Met while modelling; a passing run excludes each by a condition with a name, or by
the inputs it enumerates. They state where the properties stop holding.

*Calls and builtins.* A call that takes a pointer twice is followed through one of the
operands (`NoCallTakesItTwice`, `Coherence`). A funnel shift by a variable that is
0 returns both words joined, where LLVM returns one (`Rotations`). The signed `mad_sat` of
char and short multiplies and adds its sign-extended operands with `nuw`
(`ReplaceOpenCLBuiltinPass.cpp:3925-3927`: "so no overflows occur"), which a negative operand
makes poison. InstCombine runs later (`Compiler.cpp:729`) and folds `add nuw x, -1` to
-1, so `mad_sat(a, b, -1)` may become -1 for any a and b. `MadSatNarrow` has the poison,
and `ProductsAreExact` leaves these operands out (`BreaksNoUnsignedWrap`).
`add_sat` and `sub_sat` have the same flags (`ReplaceLLVMIntrinsicsPass.cpp:1046, 1048`)
but no pass after that simplifies arithmetic and SPIR-V is not told of them, so
`SaturateNarrow` does without.

*Images* (`IsReadAlike`). What was visited is remembered by call
(`SpecializeImageTypes.cpp:118`), so of a call that is handed an image twice one
parameter is not followed; kernels that hand images with different components to a
function that only queries them cannot agree on its type; an image handed to a
function that ignores it gets no type.

*Arguments and push constants* (`PaddedOnlyAtTheEnd`, `BuiltRight`,
`OneKindOfMetadata`, `IsAllowed` in `KernelArguments`).

- `ClusterPodKernelArgumentsPass.cpp:149-190`: each argument's index in a padded
  structure counts its own padding and not that of the arguments before it.
- `PushConstant.cpp`, `BuildFromElements`: the offset within a word is not carried from
  one member of a structure to the next, and elements of arrays follow each
  other by store size (arrays of vectors of three).
- `SetImageMetadataPass.cpp`: the list of samplers' metadata is appended to that of
  image channels and then overwritten; of two samplers only the last is reflected.
- `AutoPodArgsPass` decides before the words for image metadata are added
  (`PushConstantsFit` leaves them out).
- `Compiler.cpp:980-993`: the check that push constants are exclusive does not look at
  OpenCL C 3.0, -arm-non-uniform-work-group-size or printf.
- `get_enqueued_local_size` reads a push constant whether or not one was declared
  (`WorkItemsInit` asks for the option that declares it).

*Buffers* (`IsOutOfScope`, `UniformLayout`). A packed structure whose size is no
multiple of its members' alignment is accepted; with `-relaxed-ubo-layout` an array of
char of the program is taken for padding; without 8-bit integers padding
that is not made of words is only asserted against. `Layout.cpp:190` returns true for
a vector that straddles improperly.

*Constant data* (`KeepsItsData`, `KeepsItsAlignment`). Vectors in a variable that is
normalized are dropped; alignments are kept by initial value, so the last variable
with the same one wins, and normalized variables lose theirs.

*Control flow* (`MisjudgesPhi`, 52 of the functions are left out).
`FixupStructuredCFGPass.cpp:53` looks at operand i, the index of the outer phi,
where it walks the operands of the inner one by j. Loops with several exits are
unreachable in the producer, and StructurizeCFG makes none.

*Accesses* (`IsWritten`, `AreTogether`, `IsEndless`, `GepsOf`).

- `BitcastUtils.cpp:1493-1500`: the constant and the variable part of an offset are
  divided one by one, and what they leave together is lost.
- `SimplifyPointerBitcastPass.cpp:835-850`: for a variable of the function or the module a
  variable index is dropped; elsewhere the value is scaled and the unit is not.
- `ReplacePointerBitcastPass.cpp:390-441`: a constant of zero stored to a part of a
  larger vector or array writes the whole of it.

*Vectors* (`StaleLoads`, and the shapes of instructions in `VectorLowering`). A variable
index into a loaded vector is applied to the memory it came from, when it may have
changed (`LongVectorLoweringPass.cpp:1093-1116, 1250-1266`); indices of
extractvalue are looked up as a gep's (1118-1147); a constant of a padded
structure gets too few members (858-867); `ThreeElementVectorLoweringPass.cpp:1018`
makes a phi of a null type for a pointer.

*Clean-up* (`DifferencesFit`, `MCBodies`). `SignedCompareFixupPass` takes the sign of a
wrapped difference for the order. `UndoTruncateToOddIntegerPass` remembers what a
value became by value only, whatever width was asked for; an instruction that already has
the width is returned without a look at its operands; phis around a loop are
followed without end; signed uses of odd values see them zero-extended. The bodies
of the run are connected by one width and have no such use.

## 4. Proofs

tlapm checks the theorems of the `...Proofs` modules: of the printf buffer, work-items,
sharing, the order of functions, the call graph passes, memory builtins, descriptors,
images and coherence. `NaturalFacts` has
the one lemma several of them do induction with: a set of numbers has a least one, so
that an exception to a claim has a first one. The recursive functions of a model
are shown to exist that way (`FoundByStep`, `ContainsByStep`), since the library's
induction theorems take operators the provers cannot supply.

### printf

For any number of work-items and sites, any sizes of arguments and any size of
buffer, under the two assumptions the code does not check:

- `NoWrap`: all words asked for fit the counter (`MaxReserved + 1 < WordModulus`);
- `Aligned`: every argument fills whole words. Without it `printf_short3` is a
  counterexample.

`Spec => []IInv` (`InvariantCorrect`) carries the rest. The properties are not
inductive: that a record is intact after a store of another call needs that
records are disjoint (`RecordsDisjoint`), which after a reservation needs that all
end before the counter (`CounterCorrect`); that a store goes to the caller's own
record needs that its registers belong to its call and are as far as its arguments
(`RegistersCorrect`); that no field of a record is overwritten by a later one of
the same needs that every byte written is owned (`BytesOwned`) and
that stored fields stay (`StoredIntact`). `IInv` conjoins them.
Lemmas on layout (`SiteFacts`, `AlignedSites`, `FieldsInRecord`,
`FieldsDisjoint`) do the arithmetic once. There is one lemma per action
(`ReserveIInv`, `StoreArgIInv`, `StorePrintfIDIInv`), with a step per conjunct.

From it: `PrintedRecordsStayIntact`, `StoresStayInRecord`, `IDsFollowArgs`, and
`BufferImplementsLog`, the refinement. Under the mapping, the log is the set of
calls whose record is intact. The proof shows by `PrintedIsReturned` that it is
the set of calls that returned 0, so `Reserve` is `Call` or `CallRefused`,
`StoreArg` stutters and `StorePrintfID` prints or refuses.

`RuntimeReads`: when no call is under way, the runtime's walk finds just the calls that
were told 0. This needs two facts more (`WalkInv`): records follow each other without a
gap up to the counter (`Chained`), and a call that was made is under way or has returned
(`CallsReturn`). A record that ends within the buffer is printed and one that does not
is not, so the walk goes from each printed record to the next. That it reaches all of
them goes by the first one it would miss.

### Work-items

For any builtins used together, all options, any required size and any ranges, under the
assumptions that the module names builtins and sizes that are not zero
(`UsedFunctionsAssumption`, `RangesAssumption`, `SubgroupSizesAssumption`):
`BuiltinsAreMadeInOrder` and `PlacesAreKnown`. A body is right only if the bodies it
calls and the variables it reads are there by then. `WorkItemsInv` says of each place in
the list: the builtins looked at that somebody asks for are sound, what is in the module is
what it used and what those ask for, and variables are the inputs of those. The rest is
arithmetic over regions, groups and sizes that need not divide the range: the item's
place is the region's first one and the group's start and its own (`GlobalIDIs`, `LinearIDsAre`,
`EnqueuedNumSubGroupsIs`).

### Sharing

For any sets of functions and variables and any call graph, recursive ones
included, with no assumption but the types of the data: `SharingInvariant`,
`SharingIsSafe` (no kernel has two of its variables merged) and
`UsersKeepAVariable`. The call tree of a kernel is the least set closed under
calls. `CallTreeTraced` shows that when nothing is left to trace, the functions
marked with a kernel are such a set, so they hold the call tree: this uses only
that the call tree is contained in every closed set, and no induction. `Merged`
says that variables merged together have disjoint entry points, and that nothing
merges into a variable the outer loop has not reached; `InnerLoop` that
`userFunctions` is what the variable at hand has accumulated.

`SharingIsThorough` is the other half: when the pass is done no two variables of a
type are left that could share (`NothingLeftToShare`). A pair that was tried
and clashed clashes for good, because the entry points of a
variable only grow as others merge into it (`Tried`, `Clash`). That needs `Traced` to
be exact: functions are marked with no kernel whose call tree does not hold them.

### Order of functions

For any functions, kernels and calls, cycles included, with no assumption:
`OrderInvariant` and `OrderIsTopological`: a function in the result that is no
kernel comes after all its callers. By itself this is not inductive. A
function is visited when it is taken from the work list, so what waits there
must have no caller left (`WaitingIsReady`); that an edge is gone must mean its
caller was visited (`ErasedIsVisited`), and edges are erased one by one, while their
caller is the last one visited (`CallerIsVisited`). Functions in or behind a cycle
are never taken, which the theorem allows; the code calls a cycle "that erroneous
case" and does not care.

`OrderIsComplete` is the other half: without cycles, and where no function but kernels is
called by nobody, the order has every function, once. What is not in it yet
waits or has an edge left to a caller (`NotForgotten`), edges left are those of callers that
are not done (`EdgesAreOpen`). So, when nothing waits, each missing function has a missing
caller, and the missing functions would be a group in which each is called: a cycle.

### Call graph passes

For any modules (of any number of functions, parameters, calls and accesses) and all
options, assuming of a source module what the verifier of LLVM and the front end see to
(`PassAssumption`, `IsModule`): arguments match parameters, pointers into private memory
are passed for parameters of that kind, nothing is recursive, and a pointer into a uniform
buffer stays in its address space (`UniformCallsAreLegal`). `PassInvariant` carries
`CallersComeFirst` and `FunctionsBecomeLegal`. Its parts, and why each is needed:

- `IsModule`: every transformation leaves a module, and needs to be given one. An inlined
  body must use no parameter of another function, a rebuilt call must have as many arguments
  as parameters are left, and no transformation makes functions recursive: the call graph
  goes with the functions (`InlinedIs`, `ReplaceAllUsesIs`, `SpecializedNotRecursive`).
- `PassOK`, `InBounds`: what is ahead is an end of the pipeline, with removal last and right
  after versions are made. Only versions get numbers beyond those of the source.
- `LegalOK`: what a pass was there for stays so in all later ones. For private pointers
  this is about calls of functions that kernels reach (`PrivateCallsAreLegal`); for metadata
  and samplers, that no function that does such a thing is called (`NoneIsCalled`): the
  passes leave behind functions that nobody calls.
- `CalledOK`: so, from the order on, every function must be called by another, except one
  that is being replaced by its versions. The `FunctionInternalizer` before the order
  establishes this.
- `ToInlineOK`, `CandidatesOK`: what a round has collected stays true while it is worked off:
  calls are where they were found, and a parameter that is to be removed has no
  uses, though other functions are rebuilt in between.
- `OrderOK`: `CallGraphOrder` runs within the pipeline on the functions it finds, so its
  invariants, `OrderIsComplete` included, are used through an instance.
- `VersionsOK` (`MakingVersions`): functions not done yet are those left in the order;
  all others, versions included, use no pointer into a uniform buffer. As the order is
  complete, nothing is left at the end (`UboOK`), and the removal of unused parameters takes
  the pointers away (`UsedOK`). A function is erased only when other functions
  call what it calls, or `CalledOK` would fail.

`InliningIsNeeded` (`InlinedOnlyIfNeeded`) says that the order was worth it: a call is inlined,
and its function lost to the kernel that makes it, only if some kernel hands that function a
pointer that was chosen from several. It needs two more invariants. `UniformCallsAreLegal`
holds through all passes, for what replaces such a pointer is a resource or is one where
it goes to (`FitsUniform`). `OrderIsLeft` says that among the functions
left the order is still callers first: none of them gets a new call, as whoever calls the
function at hand is no longer among them. So the caller of a call that cannot be given a version
has no use of its own pointers left (`MakingVersions`), and what it hands over was chosen from
several there (`CannotSpecialize`). That this is what a kernel gives, through calls of
calls, needs a run of the caller: as every function is called by another, a kernel gets to
each of them with fewer calls than there are functions (`AllAreReached`).

### Memory builtins

For any number of work-items and calls, with the assumption that calls are calls of
the builtins there are (`CallsAreCalls`, `MemoriesAreMemories`):
`InvariantCorrect`, `CurrentHalfStaysFresh` and `MemoryImplementsArray`. That the half an
exclusive-or is about to replace is what was read is not inductive: it needs that no
other work-item stores to that half (`NoRaces`: a call that would race in the sense
of OpenCL C is not begun), and that what is left of the code is what is left to move
(`CodeOfCalls`). The latter makes the refinement go through: an instruction moves
the elements its place in the code stands for (`ToMove`), one or none for halves, and
`AtomicXor` on a fresh half is a store of it, while another half of the word
may have changed in between.

### Descriptors

For any number of kernels and arguments, literal samplers, builtin variables and options:
`LocalArgsAreSizedApart` and `SpecConstantsAreTold` (`ConstantsAreTold`) without
hypotheses. An ID is taken for one
type (`IdsByType`) and used at most once in a kernel: what `functionSpecIds` holds is
what the arguments before have (`IdsOfArgs`). That the host is told the right constants
rests on the list they are kept in: no ID is on it twice, and all but the workgroup
size's lie between `FirstSpecId` and the counter (`ListOK`), although two passes take
IDs; IDs of `__local` arguments are on it (`IdsListed`); of the kinds a builtin variable
stands for, the list has just the ones of the variables generated
(`ConstantsListed`), each once, so the last of a kind, which the reflection names, is
the one that was decorated (`ConstantsDecorated`).

`InvariantCorrect`, `ArgsGetTheirOwnBinding`, `SamplersAreApart` and `PairsForEveryArg`
hold under `OneWalkOfArgs`: -cl-kernel-arg-info and -distinct-kernel-descriptor-sets
do not meet (else `descriptors_unused` is a counterexample). Lists go by position and
arguments by index; `Position` counts the arguments a loop does not skip, and
`Classified`, `Assigned` and `CallsByLists` say, loop by loop, what a list holds at
the position of an argument. `SharedBindings` says that the map of shared bindings is
one to one, with values below its size, so the next one is free.

`CallsHaveTheirVariables` and `PodsKeepTheirKind` also need `KindGoesByType`: two
arguments of one type at one index are of one kind, which clustering and pointer
arguments see to, and which `descriptors_pods` shows to be needed otherwise.

### Images

For any kernels, functions and uses of images (recursive calls included):
`ImageInvariantCorrect` and `ImagesAgreeCorrect`. The claim is about modules
that say what their images hold (`IsReadAlike`): there is a
choice of components under which all uses of an image agree, an image without
a read or write is only queried, or not used, and no call is handed one image twice. While the search
goes on, every use of what it has seen waits or was visited, and what it has seen is in
every closed set around the argument (`SearchIsThorough`). So when it ends without a
type, what it has seen is a closed set that nobody reads (`SearchFindsTheRest`), and the
image holds floats, as the pass assumes. When it ends with a type, it was found on an
image that holds what the argument holds (`SeenHoldsTheSame`), whether a builtin told
it or an earlier argument left it (`TypesAreContents`).

### Coherence

For any functions, call depth, values and uses of them, with the assumption
`ProgramsAssumption`: functions call later ones, a call passes a pointer for
each parameter, and pointers are arguments or made of others. `FencesAreFound` goes by
the last function of the call tree that is found to synchronize: it has the
instruction, for its callees are later (`SynchronizationIsFound`).
`CoherentIfReadAndWritten` rests on an account of the walk (`Walk`): each
use of a name the walk has been through waits or was visited. When
nothing waits, the names it has been through are closed under making pointers and
passing them on, and hold all aliases, which are the least such set (`WalkEnds`). The
order of visits is free, and so is what the walk does after both a read and a write are
known. A call visited through one operand passes no other name
(`NoCallTakesItTwice`), so its parameter was entered. `ParametersAreCoherent`:
going back from a parameter reaches an argument just when going forward from the
argument reaches the parameter (`WalksMeet`), as both are least closed sets.

### Only checked

Of the properties the runs check, these are left to TLC:

- `AccessesKeepTheirPlace` (call graph): it compares all runs of all kernels (`Runs`) before
  and after. What a transformation does to every one of them is an induction over their
  length, once for inlining, once for versions, once for each way to replace or remove parameters.
- `SharedResourcesAreDirect` (call graph) is about the modules of the run and not about all: an
  index that is handed down, and is zero in every run, is no zero to the pass.
- `KernelReadsItsArguments`, `PushConstantsFit`, `UniformBlocksAreLegal`,
  `ConstantsReadBack`, `AccessReachesItsBytes`, `LoweredComputesTheSame`,
  `ReplacedIsRemoved`: types are trees, and what is computed over them is recursive
  (`LLVMTypes` and all that use it have RECURSIVE operators).
- `SumsAreExact`, `ProductsAreExact`, `BitsAreInPlace`, `CleanedUpComputesTheSame`: words of n bits
  through powers of two and `Bitwise`, which the provers have no theory of.
- `ControlFlowIsStructured`, `ExecutesTheSame`: dominators, loops and orders of blocks are
  found by recursion over graphs.
- `CompilationEnds`, `LoweringEnds`: liveness under fairness, which needs ENABLED.

## 5. What is not modelled

Whole components, as in the table of section 1:

- *Other OpenCL builtins*: floating-point and image builtins are rewritten
  instruction by instruction to extended instructions. Async copies and
  barriers are worth a model (section 6).
- *The rest of SPIR-V generation*: types, constants, decorations and the
  translation of single instructions; its size is its difficulty.
- *Driver and options* (plumbing of clang and of command lines), *reflection reader*
  (input and output).

Of the modelled components these parts are left out (each component's note in
`PROJECT.json` says so): how `PrintfPass` reads format strings; type inference of kernel arguments and the branch
of `AllocateDescriptorsPass` behind a constant flag; pointers returned by functions
(`Coherence`); debug information and calls deferred in the producer; names
and attributes that clustering carries along; the rewriting of functions for types
`UBOTypeTransformPass` remaps, and `RewritePackedStructs`; geps put in front of uses
of constant data, and the pointer to it with physical addressing; the inliner for
arguments of another type than the parameter, and that of builtins; images that are
selected or stored, and their samplers; phis and selects of pointers,
memcpy and atomics in the lowering of accesses; builtins that vector lowering
replaces by name, and casts to other element types; conversions to and from floats,
and overloads OpenCL C does not have (`IntegerBuiltins`); clean-ups that
rewrite single instructions without arithmetic.

## 6. Plan

1. **More proofs**: that accesses keep their place, by a lemma for each transformation on
   how the runs after it correspond to those before; that `HandleDeferred` leaves no
   placeholder.
2. **Pointer phis and selects** in `AccessLowering`: several uses of one gep.
3. **Device algorithms** (`AsyncCopy`): async copies, their events and barriers; the
   loops put in place of memcpy and memset.

---------------------------- MODULE KernelArguments ----------------------------
(* How the plain-old-data (POD) arguments of the kernels of a module come from the
   host: which kernel gets them in push constants, a uniform or a storage buffer
   (AutoPodArgsPass), the structure they are clustered in
   (ClusterPodKernelArgumentsPass), and what reflection tells the host.

   A module is [kernels, functions]: functions are the builtins it uses. A kernel is
   [args, used, uses]: the types of its arguments, those that are used, and the image
   metadata it asks for, [pc, arg, depth], depth calls away from the kernel. *)
EXTENDS PushConstants, LLVMTypes

------------------------------------------------------------------------------
(* The block of push constants: a sequence of [pc, ty], the members of the variable
   and where they are, and how an argument of a kernel is put together from words. *)
WordTy == IntTy(4)
WordsTy(n) == StructTy([i \in 1 .. n |-> WordTy])

PushConstantType(pc) ==
  IF pc \in {"ModuleConstantsPointer", "PrintfBufferPointer"} THEN IntTy(8) ELSE VectorTy(3, WordTy)

DeclaredPushConstants(mod, opts) ==
  LET inOrder == <<"GlobalOffset", "EnqueuedLocalSize", "GlobalSize", "RegionOffset",
                   "NumWorkgroups", "RegionGroupOffset", "ModuleConstantsPointer", "PrintfBufferPointer">>
      asked == SelectSeq(inOrder, LAMBDA pc : ShouldDeclare(mod, opts, pc))
  IN [i \in DOMAIN asked |-> [pc |-> asked[i], ty |-> PushConstantType(asked[i])]]

UsesGlobalPushConstants(mod, opts) == DeclaredPushConstants(mod, opts) # <<>>

------------------------------------------------------------------------------
BlockTy(block) == StructTy([i \in DOMAIN block |-> block[i].ty])

(* The type of the variable, of what it would be when there is none. *)
GlobalPushConstantsType(mod, opts, block) ==
  BlockTy(IF block # <<>> THEN block ELSE DeclaredPushConstants(mod, opts))

RedeclareGlobalPushConstants(block, ty, pc) == Append(block, [pc |-> pc, ty |-> ty])

MemberOf(block, pc) == CHOOSE i \in DOMAIN block : block[i].pc = pc
IsDeclared(block, pc) == \E i \in DOMAIN block : block[i].pc = pc
PushConstantOffset(block, pc) == MemberOffset(BlockTy(block), MemberOf(block, pc))

------------------------------------------------------------------------------
(* The bytes of a t, padding left out, that starts base_offset bytes into word
   base_index of words. A word is the sequence of its four bytes. *)
NoWord == [i \in 1 .. 4 |-> <<>>]
Word(words, i) == IF i + 1 \in DOMAIN words THEN words[i + 1] ELSE NoWord

RECURSIVE BuildFromElements(_, _, _, _)
BuildFromElements(t, base_offset, base_index, words) ==
  LET member(i) ==
        LET place == MemberOffset(t, i)
        IN BuildFromElements(t.ele[i], (base_offset + place) % 4, base_index + place \div 4, words)
      num_ints == Max({1, (t.num * t.ele[1].num + 3) \div 4})
      casts == FlattenSeq([i \in 1 .. num_ints |-> Word(words, base_index + i - 1)])
      aligned(n) == FlattenSeq([i \in 1 .. n |-> Word(words, base_index + i - 1)])
  IN CASE IsStruct(t) -> FlattenSeq([i \in 1 .. t.num |-> member(i)])
       [] IsVector(t) /\ t.num * t.ele[1].num = 4 -> Word(words, base_index)
       [] IsVector(t) /\ t.num * t.ele[1].num # 4 /\ t.ele[1].num < 4 ->
            SubSeq(casts, base_offset + 1, base_offset + t.num * t.ele[1].num)
       [] IsArray(t) \/ (IsVector(t) /\ t.ele[1].num >= 4) ->
            FlattenSeq([i \in 1 .. t.num |->
              LET place == (i - 1) * StoreSize(t.ele[1])
              IN BuildFromElements(t.ele[1], (base_offset + place) % 4,
                                   base_index + (base_offset + place) \div 4, words)])
       [] IsScalar(t) /\ t.num < 4 -> SubSeq(Word(words, base_index), base_offset + 1, base_offset + t.num)
       [] IsScalar(t) /\ t.num >= 4 -> aligned(t.num \div 4)

(* Member index of pod_struct, whose bytes are those of the kernel arguments'
   member of the block. *)
ConvertToType(pod_struct, index, bytes) ==
  LET t == pod_struct.ele[index]
      offset == MemberOffset(pod_struct, index)
      first == offset \div 4
      last == Max({first + 1, (offset + StoreSize(t) + 3) \div 4})
      words == [i \in 1 .. last - first |-> [b \in 1 .. 4 |-> bytes[4 * (first + i - 1) + b]]]
  IN BuildFromElements(t, offset % 4, 0, words)

(* A structure or an array that is put together right: BuildFromElements forgets
   that the start of a structure within a word may carry a member into the next
   word, and takes the elements of an array of vectors of three to be adjacent. *)
RECURSIVE IsBuiltRight(_, _)
IsBuiltRight(t, base_offset) ==
  CASE IsStruct(t) ->
         \A i \in 1 .. t.num :
           LET place == MemberOffset(t, i)
           IN base_offset + (place % 4) < 4 /\ IsBuiltRight(t.ele[i], (base_offset + place) % 4)
    [] IsArray(t) ->
         \A i \in 1 .. t.num :
           LET place == (i - 1) * AllocSize(t.ele[1])
           IN StoreSize(t.ele[1]) = AllocSize(t.ele[1]) /\ IsBuiltRight(t.ele[1], (base_offset + place) % 4)
    [] OTHER -> TRUE

------------------------------------------------------------------------------
CONSTANTS Modules, Options

VARIABLES
  mod, opts,
  stage,     \* the pass that runs next
  args,      \* args[k]: the types of the arguments of kernel k
  impl,      \* the pod_args_impl metadata
  block,     \* the push constants of the module, <<>> if there are none
  pods,      \* PodArgsStructTy
  podIndex,  \* PodIndexMap: the member an argument is in
  argMap,    \* the kernel_arg_map metadata, <<>> without
  imageOps, samplerOps,  \* operands of the image metadata of a kernel
  reflection

argVars == <<mod, opts, stage, args, impl, block, pods, podIndex, argMap, imageOps, samplerOps, reflection>>

Kernels == DOMAIN mod.kernels
Resource(kind) == [kind |-> kind, num |-> 0, ele |-> <<>>]
IsResource(t) == t.kind \in {"buffer", "local", "image", "sampler"}
Ordinals(k) == DOMAIN args[k]
PodOrdinals(k) == SelectSeq([i \in Ordinals(k) |-> i], LAMBDA i : ~IsResource(args[k][i]))
ResourceOrdinals(k) == SelectSeq([i \in Ordinals(k) |-> i], LAMBDA i : IsResource(args[k][i]))
PodTypes(k) == [i \in DOMAIN PodOrdinals(k) |-> args[k][PodOrdinals(k)[i]]]
Position(s, x) == CHOOSE i \in DOMAIN s : s[i] = x

------------------------------------------------------------------------------
RECURSIVE ContainsArrayType(_), ContainsSizedType(_, _)
ContainsArrayType(t) == IsArray(t) \/ (IsStruct(t) /\ \E i \in DOMAIN t.ele : ContainsArrayType(t.ele[i]))
ContainsSizedType(t, width) ==
  IF IsScalar(t) THEN 8 * t.num = width ELSE \E i \in DOMAIN t.ele : ContainsSizedType(t.ele[i], width)

Supports(t, sclass) == \A w \in {8, 16} : ContainsSizedType(t, w) => <<sclass, w>> \in opts.storage

(* Looks through all the functions called. *)
Asks(k, pcs) == \E u \in mod.kernels[k].uses : u.pc \in pcs
ContainsImageChannelGetter(k) == Asks(k, {"ChannelOrder", "ChannelDataType"})
ContainsReadImage3DNonLiteralSampler_Direct(k) ==
  \E u \in mod.kernels[k].uses : u.pc = "NormalizedSamplerMask" /\ u.depth = 0
ContainsReadImage3DNonLiteralSampler(k) == Asks(k, {"NormalizedSamplerMask"})

PodStructSize(k) == RoundUp(StoreSize(StructTy(PodTypes(k))), 4)

SatisfiesPushConstant(k) ==
  LET t == StructTy(PodTypes(k))
  IN /\ opts.cluster /\ Supports(t, "PushConstant") /\ PodStructSize(k) <= opts.maxPushConstants
     /\ ~UsesGlobalPushConstants(mod, opts) /\ ~ContainsArrayType(t)
     /\ ~ContainsImageChannelGetter(k) /\ ~ContainsReadImage3DNonLiteralSampler(k)

SatisfiesGlobalPushConstant_Alone(k) == opts.cluster /\ PodStructSize(k) <= opts.maxPushConstants
MaxStructMembers == 16383 - 64    \* some are left to other push constants
SatisfiesGlobalPushConstant(k) ==
  LET global_size == AllocSize(GlobalPushConstantsType(mod, opts, block)) + PodStructSize(k)
  IN opts.cluster /\ global_size <= opts.maxPushConstants /\ global_size \div 4 < MaxStructMembers

SatisfiesUBO(k) ==
  \A i \in DOMAIN PodTypes(k) :
    LET t == PodTypes(k)[i]
    IN Supports(t, "UBO") /\ (IsStruct(t) => IsValidExplicitLayout(t, "Uniform", opts))

ChosenImpl(k) ==
  CASE opts.pod # "auto"              -> opts.pod
    [] opts.pod = "auto" /\ SatisfiesPushConstant(k) -> "kPushConstant"
    [] opts.pod = "auto" /\ ~SatisfiesPushConstant(k) ->
         IF SatisfiesGlobalPushConstant(k) THEN "kGlobalPushConstant"
         ELSE IF SatisfiesUBO(k) THEN "kUBO" ELSE "kSSBO"

------------------------------------------------------------------------------
Pass(name, next) == stage = name /\ stage' = next /\ UNCHANGED <<mod, opts>>

(* A pointer to a buffer becomes a number, the address of the buffer. *)
PhysicalPointerArgs ==
  /\ Pass("PhysicalPointerArgs", "AutoPodArgs")
  /\ args' = [k \in Kernels |-> [i \in Ordinals(k) |->
               IF opts.physical /\ args[k][i].kind = "buffer" THEN IntTy(8) ELSE args[k][i]]]
  /\ UNCHANGED <<impl, block, pods, podIndex, argMap, imageOps, samplerOps, reflection>>

AutoPodArgs ==
  /\ Pass("AutoPodArgs", "DeclarePushConstants")
  /\ impl' = [k \in Kernels |-> ChosenImpl(k)]
  /\ UNCHANGED <<args, block, pods, podIndex, argMap, imageOps, samplerOps, reflection>>

DeclarePushConstants ==
  /\ Pass("DeclarePushConstants", "ClusterPodKernelArguments")
  /\ block' = DeclaredPushConstants(mod, opts)
  /\ UNCHANGED <<args, impl, pods, podIndex, argMap, imageOps, samplerOps, reflection>>

------------------------------------------------------------------------------
IsPointerArg(k, i) == mod.kernels[k].args[i].kind = "buffer" /\ args[k][i].kind = "int"

PodKind(k, i) ==
  LET inPushConstants == impl[k] \in {"kPushConstant", "kGlobalPushConstant"}
  IN IF IsPointerArg(k, i) THEN IF inPushConstants THEN "PointerPushConstant" ELSE "PointerUBO"
     ELSE IF inPushConstants THEN "PodPushConstant" ELSE IF impl[k] = "kUBO" THEN "PodUBO" ELSE "Pod"
ArgKind(k, i) == IF IsResource(args[k][i]) THEN args[k][i].kind ELSE PodKind(k, i)

(* The most words any kernel needs in the block all of them share. *)
TypeMangledPodArgsWords ==
  Max({0} \cup {PodStructSize(k) \div 4 : k \in {k \in Kernels : impl[k] = "kGlobalPushConstant"}})

(* Numbers that take a structure or array to a multiple of 16 in a uniform buffer,
   where it would be without them. *)
IsPadded(k, p) ==
  impl[k] = "kUBO" /\ ~opts.std430 /\ (IsStruct(PodTypes(k)[p]) \/ IsArray(PodTypes(k)[p]))
Padding(k, p) ==
  LET offset == MemberOffset(StructTy(PodTypes(k)), p)
      missing == RoundUp(offset, 16) - offset
  IN IF IsPadded(k, p) THEN [i \in 1 .. missing % 4 |-> IntTy(1)] \o [i \in 1 .. missing \div 4 |-> WordTy] ELSE <<>>

PodMember(k, p) == p + Len(Padding(k, p))
PodArgsStruct(k) ==
  StructTy(FlattenSeq([p \in DOMAIN PodTypes(k) |-> Append(Padding(k, p), PodTypes(k)[p])]))

(* Where the arguments start in the block, with the words added at the end. *)
KernelArgumentOffset ==
  LET globals == GlobalPushConstantsType(mod, opts, block)
  IN MemberOffset(StructTy(Append(globals.ele, WordsTy(TypeMangledPodArgsWords))), globals.num + 1)

Clustered == {k \in Kernels : opts.cluster /\ PodTypes(k) # <<>>}

PodMapping(k, p) ==
  LET o == PodOrdinals(k)[p]
      offset == MemberOffset(PodArgsStruct(k), PodMember(k, p))
      isGlobal == impl[k] = "kGlobalPushConstant"
  IN [old |-> o, new |-> IF isGlobal THEN -1 ELSE Len(ResourceOrdinals(k)),
      offset |-> IF isGlobal THEN offset + KernelArgumentOffset ELSE offset,
      size |-> StoreSize(args[k][o]), kind |-> ArgKind(k, o)]
ResourceMapping(k, n) ==
  [old |-> ResourceOrdinals(k)[n], new |-> n - 1, offset |-> 0, size |-> 0, kind |-> ArgKind(k, ResourceOrdinals(k)[n])]

ClusterPodKernelArguments ==
  /\ Pass("ClusterPodKernelArguments", "SetImageMetadata")
  /\ block' = IF opts.cluster /\ TypeMangledPodArgsWords > 0
              THEN RedeclareGlobalPushConstants(block, WordsTy(TypeMangledPodArgsWords), "KernelArgument")
              ELSE block
  /\ pods' = [k \in Kernels |-> IF k \in Clustered THEN PodArgsStruct(k) ELSE StructTy(<<>>)]
  /\ podIndex' = [k \in Kernels |-> IF k \in Clustered THEN [p \in DOMAIN PodTypes(k) |-> PodMember(k, p)] ELSE <<>>]
  /\ argMap' = [k \in Kernels |->
       IF k \in Clustered
       THEN [n \in DOMAIN ResourceOrdinals(k) |-> ResourceMapping(k, n)] \o [p \in DOMAIN PodTypes(k) |-> PodMapping(k, p)]
       ELSE <<>>]
  /\ UNCHANGED <<args, impl, imageOps, samplerOps, reflection>>

------------------------------------------------------------------------------
(* The number of an argument in the kernel as it is now. *)
NewOrdinal(k, i) == IF k \in Clustered THEN Position(ResourceOrdinals(k), i) - 1 ELSE i - 1

MetadataRank == [ChannelOrder |-> 0, ChannelDataType |-> 1, NormalizedSamplerMask |-> 2]
(* The keys of Map, in its order: the first has word 0 of the structure. *)
ImageMetadata(k) ==
  SetToSortSeq({<<MetadataRank[u.pc], NewOrdinal(k, u.arg)>> : u \in mod.kernels[k].uses},
               LAMBDA a, b : a[1] < b[1] \/ (a[1] = b[1] /\ a[2] < b[2]))

(* Operands are put before those there are. What a sampler gets are the operands
   of the image channels. *)
IndicesOf(k, ranks) == SelectSeq([i \in DOMAIN ImageMetadata(k) |-> i], LAMBDA i : ImageMetadata(k)[i][1] \in ranks)
ImageChannelOps(k) ==
  FlattenSeq(Reverse([n \in DOMAIN IndicesOf(k, {0, 1}) |->
    LET i == IndicesOf(k, {0, 1})[n] IN <<ImageMetadata(k)[i][2], i - 1, ImageMetadata(k)[i][1]>>]))
ImageSamplerOps(k) ==
  IF IndicesOf(k, {2}) = <<>> THEN <<>>
  ELSE LET i == Last(IndicesOf(k, {2})) IN <<ImageMetadata(k)[i][2], i - 1>> \o ImageChannelOps(k)

SetImageMetadata ==
  LET max_elements == Max({Len(ImageMetadata(k)) : k \in Kernels})
  IN /\ Pass("SetImageMetadata", "GenerateReflection")
     /\ imageOps' = [k \in Kernels |-> ImageChannelOps(k)]
     /\ samplerOps' = [k \in Kernels |-> ImageSamplerOps(k)]
     /\ block' = IF max_elements = 0 THEN block
                 ELSE RedeclareGlobalPushConstants(block, WordsTy(max_elements), "ImageMetadata")
     /\ UNCHANGED <<args, impl, pods, podIndex, argMap, reflection>>

------------------------------------------------------------------------------
(* A resource variable stands for an argument that is used; the pod arguments of a
   kernel that are clustered have one. Its binding is named by its number. *)
HasVariable(k, new) ==
  IF k \in Clustered
  THEN IF new = Len(ResourceOrdinals(k)) THEN \E p \in DOMAIN PodTypes(k) : PodOrdinals(k)[p] \in mod.kernels[k].used
       ELSE ResourceOrdinals(k)[new + 1] \in mod.kernels[k].used
  ELSE new + 1 \in mod.kernels[k].used

Argument(k, kind, old, new, offset, size) ==
  [inst |-> "Argument", kernel |-> k, kind |-> kind, ordinal |-> old - 1, binding |-> new, offset |-> offset, size |-> size]

MappedArguments(k) ==
  {Argument(k, m.kind, m.old, m.new, m.offset, m.size) :
     m \in {m \in ToSet(argMap[k]) : m.new >= 0 => HasVariable(k, m.new)}}
UnmappedArguments(k) ==
  {Argument(k, ArgKind(k, i), i, i - 1, 0, IF IsResource(args[k][i]) THEN 0 ELSE StoreSize(args[k][i])) :
     i \in {i \in Ordinals(k) : HasVariable(k, i - 1)}}

OldOrdinal(k, new) ==
  IF \E m \in ToSet(argMap[k]) : m.new = new
  THEN (CHOOSE m \in ToSet(argMap[k]) : m.new = new).old - 1 ELSE new

ImageInfo(k, ordinal, index, pc) ==
  [inst |-> "ImageMetadata", kernel |-> k, ordinal |-> OldOrdinal(k, ordinal), pc |-> pc,
   offset |-> MemberOffset(BlockTy(block), Len(block)) + MemberOffset(Last(block).ty, index + 1), size |-> 4]
ImageChannels(k) ==
  {ImageInfo(k, imageOps[k][i], imageOps[k][i + 1], imageOps[k][i + 2]) : i \in {i \in DOMAIN imageOps[k] : i % 3 = 1}}
ImageSamplers(k) ==
  {ImageInfo(k, samplerOps[k][i], samplerOps[k][i + 1], 2) : i \in {i \in DOMAIN samplerOps[k] : i % 2 = 1}}

ReflectedPushConstants ==
  {[inst |-> "PushConstant", pc |-> block[i].pc,
    offset |-> MemberOffset(BlockTy(block), i), size |-> StoreSize(block[i].ty)] :
     i \in {i \in DOMAIN block : block[i].pc \notin {"KernelArgument", "ImageMetadata", "ModuleConstantsPointer"}}}

GenerateReflection ==
  /\ Pass("GenerateReflection", "end")
  /\ reflection' = ReflectedPushConstants \cup
       UNION {(IF argMap[k] # <<>> THEN MappedArguments(k) ELSE UnmappedArguments(k))
                \cup ImageSamplers(k) \cup ImageChannels(k) : k \in Kernels}
  /\ UNCHANGED <<args, impl, block, pods, podIndex, argMap, imageOps, samplerOps>>

------------------------------------------------------------------------------
ArgNext == \/ PhysicalPointerArgs \/ AutoPodArgs \/ DeclarePushConstants
           \/ ClusterPodKernelArguments \/ SetImageMetadata \/ GenerateReflection

(* What a module may not have, for its arguments to arrive: a padded argument with
   others behind it, whose members are counted without the padding; structures and
   arrays that are not put together right from words; and more image metadata in a
   kernel than one sampler mask or the channels of images. *)
PaddedOnlyAtTheEnd(k) ==
  \A p \in DOMAIN PodTypes(k) : IsPadded(k, p) => p = Len(PodTypes(k))
BuiltRight(k) ==
  impl[k] = "kGlobalPushConstant" =>
    LET t == StructTy(PodTypes(k)) IN \A p \in 1 .. t.num : IsBuiltRight(t.ele[p], MemberOffset(t, p) % 4)
OneKindOfMetadata(k) ==
  Asks(k, {"NormalizedSamplerMask"}) => Cardinality({<<u.pc, u.arg>> : u \in mod.kernels[k].uses}) = 1

(* With POD arguments forced into push constants there must be nothing else in them:
   docs/OpenCLCOnVulkan.md:365 calls that incompatible. *)
IsAllowed(m, o) ==
  o.pod = "kPushConstant" =>
    o.cluster /\ DeclaredPushConstants(m, o) = <<>> /\ \A k \in DOMAIN m.kernels : m.kernels[k].uses = {}

ArgInit ==
  /\ mod \in Modules /\ opts \in Options /\ IsAllowed(mod, opts)
  /\ stage = "PhysicalPointerArgs"
  /\ args = [k \in Kernels |-> mod.kernels[k].args]
  /\ impl = [k \in Kernels |-> "kSSBO"]
  /\ block = <<>>
  /\ pods = [k \in Kernels |-> StructTy(<<>>)]
  /\ podIndex = [k \in Kernels |-> <<>>] /\ argMap = podIndex
  /\ imageOps = podIndex /\ samplerOps = podIndex
  /\ reflection = {}

ArgSpec == ArgInit /\ [][ArgNext]_argVars

------------------------------------------------------------------------------
(* The host writes byte b of argument a of kernel k where reflection says the
   argument is, and the values it is asked for in push constants. Places are bytes
   of a binding or of the push constants. *)
Push == <<"push">>
Binding(n) == <<"binding", n>>
InPushConstants(kind) == kind \in {"PodPushConstant", "PointerPushConstant"}
IsPod(kind) == kind \in {"Pod", "PodUBO", "PodPushConstant", "PointerUBO", "PointerPushConstant"}

Bytes(at, value, offset, size) ==
  {[at |-> Append(at, offset + b), value |-> Append(value, b)] : b \in 0 .. size - 1}

WrittenFor(k, r) ==
  CASE r.inst = "PushConstant"  -> Bytes(Push, <<r.pc>>, r.offset, r.size)
    [] r.inst = "ImageMetadata" -> Bytes(Push, <<"image", r.pc, r.ordinal>>, r.offset, r.size)
    [] r.inst = "Argument" /\ IsPod(r.kind) ->
         Bytes(IF InPushConstants(r.kind) THEN Push ELSE Binding(r.binding), <<"arg", r.ordinal>>, r.offset, r.size)
    [] r.inst = "Argument" /\ ~IsPod(r.kind) ->
         {[at |-> Binding(r.binding), value |-> <<"arg", r.ordinal>>]}
HostWrites(k) ==
  UNION {WrittenFor(k, r) : r \in {r \in reflection : r.inst = "PushConstant" \/ r.kernel = k}}

(* Where kernel k looks for the bytes of POD argument p. *)
PodPlaces(k, p) ==
  LET t == PodTypes(k)[p]
      at == IF impl[k] = "kPushConstant" THEN Push ELSE Binding(Len(ResourceOrdinals(k)))
      inBlock == [b \in 1 .. AllocSize(Last(SelectSeq(block, LAMBDA m : m.pc = "KernelArgument")).ty) |->
                    Append(Push, PushConstantOffset(block, "KernelArgument") + b - 1)]
  IN IF k \notin Clustered THEN [i \in 1 .. DataSize(t) |-> Append(Binding(PodOrdinals(k)[p] - 1), DataPlaces(t)[i])]
     ELSE IF impl[k] = "kGlobalPushConstant" THEN ConvertToType(pods[k], podIndex[k][p], inBlock)
     ELSE IF pods[k].ele[podIndex[k][p]] # t THEN [i \in 1 .. DataSize(t) |-> <<>>]
     ELSE [i \in 1 .. DataSize(t) |-> Append(at, MemberOffset(pods[k], podIndex[k][p]) + DataPlaces(t)[i])]

PodReads(k, p) ==
  LET o == PodOrdinals(k)[p]
  IN IF o \notin mod.kernels[k].used THEN {}
     ELSE {[at |-> PodPlaces(k, p)[i], value |-> <<"arg", o - 1, DataPlaces(args[k][o])[i]>>] : i \in 1 .. DataSize(args[k][o])}
ResourceReads(k) ==
  {[at |-> Binding(NewOrdinal(k, i)), value |-> <<"arg", i - 1>>] :
     i \in {i \in Ordinals(k) : IsResource(args[k][i]) /\ i \in mod.kernels[k].used}}
ImageReads(k) ==
  UNION {LET i == Position(ImageMetadata(k), <<MetadataRank[u.pc], NewOrdinal(k, u.arg)>>)
         IN Bytes(Push, <<"image", MetadataRank[u.pc], u.arg - 1>>, PushConstantOffset(block, "ImageMetadata") + 4 * (i - 1), 4) :
           u \in mod.kernels[k].uses}
PushConstantReads ==
  UNION {Bytes(Push, <<block[i].pc>>, MemberOffset(BlockTy(block), i), StoreSize(block[i].ty)) :
           i \in {i \in DOMAIN block : block[i].pc \notin {"KernelArgument", "ImageMetadata", "ModuleConstantsPointer"}}}

Reads(k) == UNION {PodReads(k, p) : p \in DOMAIN PodTypes(k)} \cup ResourceReads(k) \cup ImageReads(k) \cup PushConstantReads

(* Every byte of an argument, every resource and every value of the host a kernel
   uses is what the host wrote for it, and nothing else was written there: choosing
   the implementation, clustering, the block shared by all kernels, the renumbered
   arguments and the reflection agree. *)
KernelReadsItsArguments ==
  stage = "end" =>
    \A k \in Kernels :
      (PaddedOnlyAtTheEnd(k) /\ BuiltRight(k) /\ OneKindOfMetadata(k)) =>
        \A r \in Reads(k) : {w.value : w \in {w \in HostWrites(k) : w.at = r.at}} = {r.value}

(* What AutoPodArgsPass puts in push constants fits in them, though the block is
   only laid out later and by the needs of all kernels (the words for images, which
   are added last, left out). *)
PushConstantsFit ==
  stage = "SetImageMetadata" /\ opts.pod = "auto" =>
    \A k \in Kernels :
      /\ impl[k] = "kPushConstant" => StoreSize(pods[k]) <= opts.maxPushConstants
      /\ impl[k] = "kGlobalPushConstant" => AllocSize(BlockTy(block)) <= opts.maxPushConstants
================================================================================

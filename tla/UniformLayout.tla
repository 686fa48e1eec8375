----------------------------- MODULE UniformLayout -----------------------------
(* Structures in uniform and storage buffers. The front end of clspv refuses what
   cannot be laid out in the storage class a pointer argument gets (FrontendPlugin);
   clang lowers the structure with explicit padding; UBOTypeTransformPass takes the
   arrays out of the padding, which uniform buffers do not allow, and records where
   the members were, for SPIRVProducerPass to decorate them.

   A module is a sequence of uses of C types, [ty, space]: what a __constant or a
   __global argument of a kernel points to, or a private value. Types of C are those
   of LLVMTypes and records. *)
EXTENDS LLVMTypes

CONSTANTS LayoutModules, LayoutOptions

VARIABLES
  uses, layoutOpts,
  checked,     \* the uses the front end has taken
  rejected,
  remapped,    \* remapped_types_
  pending,     \* the uses MapType is still to be called for, <<use, rewrite>>
  generated    \* the types of SPIR-V, by use

layoutVars == <<uses, layoutOpts, checked, rejected, remapped, pending, generated>>

Record(fields, aligned, packed) ==
  [kind |-> "record", num |-> Len(fields), ele |-> fields, aligned |-> aligned, packed |-> packed]
IsRecord(t) == t.kind = "record"

------------------------------------------------------------------------------
(* What clang knows of a C type. A field may ask for a larger alignment. *)
RECURSIVE CAlign(_), CSize(_), FieldEnd(_, _)
FieldAlign(r, i) == Max({r.aligned[i], IF r.packed THEN 1 ELSE CAlign(r.ele[i])})
CAlign(t) ==
  CASE IsRecord(t) -> Max({FieldAlign(t, i) : i \in 1 .. t.num})
    [] IsArray(t)  -> CAlign(t.ele[1])
    [] OTHER       -> Alignment(t)
FieldEnd(r, i) == IF i = 0 THEN 0 ELSE RoundUp(FieldEnd(r, i - 1), FieldAlign(r, i)) + CSize(r.ele[i])
FieldOffset(r, i) == RoundUp(FieldEnd(r, i - 1), FieldAlign(r, i))
CSize(t) ==
  CASE IsRecord(t) -> RoundUp(FieldEnd(t, t.num), CAlign(t))
    [] IsArray(t)  -> t.num * CSize(t.ele[1])
    [] OTHER       -> AllocSize(t)

(* How clang lowers it: arrays of bytes are put where LLVM would not place a field,
   or end the structure, where it has to be. *)
PaddingTy(n) == IF n = 0 THEN <<>> ELSE <<ArrayTy(n, IntTy(1))>>

RECURSIVE Lowered(_)
FieldPadding(r, i) ==
  LET field == Lowered(r.ele[i])
      end == IF i = 1 THEN 0 ELSE FieldOffset(r, i - 1) + AllocSize(Lowered(r.ele[i - 1]))
  IN IF FieldOffset(r, i) = RoundUp(end, IF r.packed THEN 1 ELSE Alignment(field)) THEN <<>>
     ELSE PaddingTy(FieldOffset(r, i) - end)
EndPadding(r) ==
  LET end == FieldOffset(r, r.num) + AllocSize(Lowered(r.ele[r.num]))
      align == Max({Alignment(Lowered(r.ele[i])) : i \in 1 .. r.num})
  IN IF CSize(r) = RoundUp(end, IF r.packed THEN 1 ELSE align) THEN <<>> ELSE PaddingTy(CSize(r) - end)
Lowered(t) ==
  IF IsRecord(t)
  THEN LET members == FlattenSeq([i \in 1 .. t.num |-> Append(FieldPadding(t, i), Lowered(t.ele[i]))]) \o EndPadding(t)
       IN IF t.packed THEN PackedTy(members) ELSE StructTy(members)
  ELSE IF IsArray(t) THEN ArrayTy(t.num, Lowered(t.ele[1])) ELSE t

(* The member of the structure a field is. *)
MemberOfField(r, i) == i + Cardinality({j \in 1 .. i : FieldPadding(r, j) # <<>>})

------------------------------------------------------------------------------
(* FrontendPlugin. *)
GetAlignment(t, layout) ==
  IF layout = "UBO" /\ (IsRecord(t) \/ IsArray(t)) THEN RoundUp(CAlign(t), 16) ELSE CAlign(t)

RECURSIVE IsSupportedLayout(_, _, _)

IsSupportedScalarLayout(t, offset) == offset % CSize(t) = 0

IsSupportedVectorLayout(t, offset, layout) ==
  /\ offset % ((IF t.num = 2 THEN 2 ELSE 4) * CSize(t.ele[1])) = 0
  /\ CSize(t) <= 16 => offset \div 16 = (offset + CSize(t) - 1) \div 16
  /\ CSize(t) > 16 => offset % 16 = 0
  /\ IsSupportedLayout(t.ele[1], offset, layout)

IsSupportedArrayLayout(t, offset, layout) ==
  LET element_align == GetAlignment(t.ele[1], layout)
      type_align == IF layout = "UBO" THEN RoundUp(element_align, 16) ELSE element_align
  IN /\ offset % type_align = 0
     /\ layout = "UBO" /\ ~layoutOpts.relaxed => CSize(t.ele[1]) % type_align = 0
     /\ IsSupportedLayout(t.ele[1], offset, layout)

NextAvailable(r, i, layout) ==
  LET next == FieldOffset(r, i) + RoundUp(CSize(r.ele[i]), GetAlignment(r.ele[i], layout))
  IN IF layout = "UBO" THEN RoundUp(next, 16) ELSE next

(* The alignment of a record is used as it is: its rounding is thrown away. *)
IsSupportedRecordLayout(t, offset, layout) ==
  /\ offset % GetAlignment(t, layout) = 0
  /\ \A i \in 1 .. t.num :
       /\ IsSupportedLayout(t.ele[i], FieldOffset(t, i) + offset, layout)
       /\ i > 1 /\ (IsArray(t.ele[i - 1]) \/ IsRecord(t.ele[i - 1])) =>
            NextAvailable(t, i - 1, layout) <= FieldOffset(t, i)

IsSupportedLayout(t, offset, layout) ==
  /\ CASE IsScalar(t) -> IsSupportedScalarLayout(t, offset)
       [] IsVector(t) -> IsSupportedVectorLayout(t, offset, layout)
       [] IsArray(t)  -> IsSupportedArrayLayout(t, offset, layout)
       [] IsRecord(t) -> IsSupportedRecordLayout(t, offset, layout)
  /\ layout = "UBO" => CSize(t) % GetAlignment(t, layout) = 0

UsesUniformBuffer(u) == layoutOpts.constantUBO /\ u.space = "constant"
LayoutOf(u) == IF UsesUniformBuffer(u) /\ ~layoutOpts.std430 THEN "UBO" ELSE "SSBO"

HandleParameter ==
  /\ ~rejected /\ checked < Len(uses)
  /\ LET u == uses[checked + 1]
         ok == u.space = "private" \/ IsSupportedLayout(ArrayTy(0, u.ty), 0, LayoutOf(u))
     IN rejected' = ~ok /\ checked' = IF ok THEN checked + 1 ELSE checked
  /\ UNCHANGED <<uses, layoutOpts, remapped, pending, generated>>

------------------------------------------------------------------------------
(* UBOTypeTransformPass. A replaced structure comes with the offsets and the size
   that are recorded for it, and so do arrays of it. *)
SizeOf(t) == IF "alloc" \in DOMAIN t THEN t.alloc ELSE AllocSize(t)
Offsets(t) == IF "offsets" \in DOMAIN t THEN t.offsets ELSE MemberOffsets(t)

support_int8_array == layoutOpts.int8 /\ layoutOpts.std430
IsReplaced(t, rewrite) == rewrite /\ IsArray(t) /\ t.ele[1] = IntTy(1) /\ ~support_int8_array
Replacement == IF layoutOpts.int8 THEN IntTy(1) ELSE IntTy(4)

Rebuilt(t, cache, rewrite) ==
  LET elements == [i \in DOMAIN t.ele |->
        IF IsStruct(t) /\ IsReplaced(t.ele[i], rewrite) THEN Replacement ELSE cache[t.ele[i]]]
  IN CASE elements = t.ele -> t
       [] elements # t.ele /\ IsStruct(t) ->
            [kind |-> t.kind, num |-> t.num, ele |-> elements, offsets |-> MemberOffsets(t), alloc |-> AllocSize(t)]
       [] elements # t.ele /\ ~IsStruct(t) ->
            [kind |-> t.kind, num |-> t.num, ele |-> elements, alloc |-> AllocSize(t)]

(* The cache after MapType(t). *)
RECURSIVE MapType(_, _, _)
MapType(cache, t, rewrite) ==
  IF t \in DOMAIN cache THEN cache
  ELSE LET inner == FoldLeft(LAMBDA c, e : IF IsStruct(t) /\ IsReplaced(e, rewrite) THEN c ELSE MapType(c, e, rewrite),
                             cache, t.ele)
       IN inner @@ (t :> IF IsStruct(t) \/ IsArray(t) THEN Rebuilt(t, inner, rewrite) ELSE t)

(* What goes to a uniform buffer is mapped before anything else is, which would
   put types in the cache as they are. *)
InUniform == SelectSeq([i \in DOMAIN uses |-> i], LAMBDA i : UsesUniformBuffer(uses[i]))
PopulateTypes_InOrder == [i \in DOMAIN uses |-> <<i, UsesUniformBuffer(uses[i])>>]
PopulateTypes ==
  [n \in DOMAIN InUniform |-> <<InUniform[n], TRUE>>]
    \o (IF InUniform = <<>> THEN <<>> ELSE [i \in DOMAIN uses |-> <<i, FALSE>>])

StartTransform ==
  /\ checked = Len(uses) /\ pending = <<>> /\ remapped = <<>> /\ generated = <<>>
  /\ remapped' = (NoType :> NoType)
  /\ pending' = PopulateTypes
  /\ UNCHANGED <<uses, layoutOpts, checked, rejected, generated>>

MapNext ==
  /\ pending # <<>>
  /\ remapped' = MapType(remapped, Lowered(uses[Head(pending)[1]].ty), Head(pending)[2])
  /\ pending' = Tail(pending)
  /\ UNCHANGED <<uses, layoutOpts, checked, rejected, generated>>

GenerateTypes ==
  /\ remapped # <<>> /\ pending = <<>> /\ generated = <<>>
  /\ generated' = [i \in DOMAIN uses |->
       LET t == Lowered(uses[i].ty) IN IF t \in DOMAIN remapped THEN remapped[t] ELSE t]
  /\ UNCHANGED <<uses, layoutOpts, checked, rejected, remapped, pending>>

LayoutNext == HandleParameter \/ StartTransform \/ MapNext \/ GenerateTypes

RECURSIVE Parts(_)
Parts(t) == {t} \cup UNION {Parts(t.ele[i]) : i \in DOMAIN t.ele}

(* Without 8-bit integers, char becomes a word in SPIR-V: only uniform buffers of
   programs that have no char are looked at then. *)
LayoutInit ==
  /\ uses \in LayoutModules /\ layoutOpts \in LayoutOptions
  /\ layoutOpts.int8 \/ \A i \in DOMAIN uses : UsesUniformBuffer(uses[i]) /\ IntTy(1) \notin Parts(uses[i].ty)
  /\ checked = 0 /\ rejected = FALSE
  /\ remapped = <<>> /\ pending = <<>> /\ generated = <<>>

LayoutSpec == LayoutInit /\ [][LayoutNext]_layoutVars

------------------------------------------------------------------------------
(* What Vulkan asks of a structure in a storage class. Options that are there to
   break one of its rules are taken at their word. *)
ClassOf(u) == IF UsesUniformBuffer(u) THEN "Uniform" ELSE "StorageBuffer"
StrideOf(t) == SizeOf(t.ele[1])
RECURSIVE EndOf(_)
EndOf(t) ==
  IF IsStruct(t) THEN Offsets(t)[t.num] + EndOf(t.ele[t.num])
  ELSE IF IsArray(t) THEN t.num * StrideOf(t) ELSE StoreSize(t)

RECURSIVE IsLegal(_, _)
IsLegalStride(t, sclass) ==
  layoutOpts.relaxed \/ StrideOf(t) % StandardAlignment(t, sclass, layoutOpts) = 0
IsLegalMember(t, i, sclass) ==
  LET offset == Offsets(t)[i]
      end(j) == Offsets(t)[j] + EndOf(t.ele[j])
  IN /\ offset % StandardAlignment(t.ele[i], sclass, layoutOpts) = 0
     /\ IsVector(t.ele[i]) => ~ImproperlyStraddles(t.ele[i], offset)
     /\ i > 1 => offset >= end(i - 1)
     /\ i > 1 /\ (IsStruct(t.ele[i - 1]) \/ IsArray(t.ele[i - 1])) =>
          offset >= RoundUp(end(i - 1), StandardAlignment(t.ele[i - 1], sclass, layoutOpts))
IsLegal(t, sclass) ==
  /\ IsStruct(t) => \A i \in 1 .. t.num : IsLegalMember(t, i, sclass) /\ IsLegal(t.ele[i], sclass)
  /\ IsArray(t) => IsLegalStride(t, sclass) /\ IsLegal(t.ele[1], sclass)

(* Where the data of a C type are, in the order of its scalars, and where SPIR-V
   finds them; beyond is what stands for data that are not there any more. *)
RECURSIVE CPlaces(_), Places(_, _)
CPlaces(t) ==
  CASE IsRecord(t) -> FlattenSeq([i \in 1 .. t.num |-> Shift(CPlaces(t.ele[i]), FieldOffset(t, i))])
    [] IsArray(t)  -> FlattenSeq([i \in 1 .. t.num |-> Shift(CPlaces(t.ele[1]), (i - 1) * CSize(t.ele[1]))])
    [] OTHER       -> DataPlaces(t)
Places(t, spv) ==
  CASE IsRecord(t) ->
         FlattenSeq([i \in 1 .. t.num |->
           LET m == MemberOfField(t, i) IN Shift(Places(t.ele[i], spv.ele[m]), Offsets(spv)[m])])
    [] IsArray(t) ->
         IF IsArray(spv)
         THEN FlattenSeq([i \in 1 .. t.num |-> Shift(Places(t.ele[1], spv.ele[1]), (i - 1) * StrideOf(spv))])
         ELSE <<>>
    [] OTHER -> IF spv = t THEN DataPlaces(t) ELSE <<>>

(* What the front end lets pass though it cannot work: packed records in which
   not all elements of an array are aligned, arrays of char of the program's own
   with -relaxed-ubo-layout, and, without 8-bit integers, padding that is not made
   of words. *)
Natural(t) == Max({CSize(s) : s \in {s \in Parts(t) : IsScalar(s) \/ IsVector(s)}})
IsOutOfScope(u) ==
  \/ \E r \in Parts(u.ty) : IsRecord(r) /\ r.packed /\ CSize(r) % Natural(r) # 0
  \/ layoutOpts.relaxed /\ \E t \in Parts(u.ty) : IsArray(t) /\ t.ele[1] = IntTy(1)
  \/ ~layoutOpts.int8 /\ \E t \in Parts(Lowered(u.ty)) : IsArray(t) /\ t.ele[1] = IntTy(1) /\ t.num % 4 # 0

(* What the front end takes for a uniform or storage buffer ends up as a type of
   SPIR-V that Vulkan allows there, with every byte of the program's data where the
   host has it, whatever other uses of the same structures the module has. *)
UniformBlocksAreLegal ==
  generated # <<>> =>
    \A i \in DOMAIN uses :
      (uses[i].space # "private" /\ ~IsOutOfScope(uses[i])) =>
        /\ IsLegal(ArrayTy(1, generated[i]), ClassOf(uses[i]))
        /\ Places(uses[i].ty, generated[i]) = CPlaces(uses[i].ty)
================================================================================

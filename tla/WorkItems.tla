------------------------------- MODULE WorkItems -------------------------------
(* DefineOpenCLWorkItemBuiltinsPass gives the work-item builtins a module uses
   their bodies, from variables of SPIR-V and from push constants; then the host
   launches an NDRange. Vulkan runs workgroups of one size only: a range that is not
   a multiple of the workgroup's size is run as up to two regions in each dimension.

   A range is [size, local, offset], numbers for the dimensions 1 to 3. *)
EXTENDS PushConstants, Sequences, FiniteSetsExt

CONSTANTS
  UsedFunctions, WorkItemOptions, Ranges,
  SubgroupSizes   \* what SubgroupMaxSize may be

VARIABLES
  used,       \* the module: the builtins its functions call, and required, the size
              \* a kernel asks for with reqd_work_group_size, or <<>>
  wiOptions,
  step,       \* the builtins that have been looked at
  functions,  \* the builtins that are in the module now
  variables,  \* the variables of SPIR-V that are there
  sound,      \* the builtins all whose inputs are what their names say
  range       \* what the host launches

wiVars == <<used, wiOptions, step, functions, variables, sound, range>>

Dims == 1 .. 3
NoRange == [size |-> <<>>]
IsSize(n) == n \in [Dims -> Nat \ {0}]

------------------------------------------------------------------------------
Order ==
  <<"get_global_offset", "get_global_id", "get_local_size", "get_local_id", "get_num_groups",
    "get_group_id", "get_global_size", "get_work_dim", "get_enqueued_local_size",
    "get_max_sub_group_size", "get_enqueued_num_sub_groups", "__spirv_WorkgroupSize",
    "get_global_linear_id", "get_local_linear_id">>

Builtins == {Order[i] : i \in DOMAIN Order} \ {"__spirv_WorkgroupSize"}

Dependents(f) ==
  CASE f = "get_global_offset"            -> {"get_global_id", "get_global_linear_id"}
    [] f \in {"get_global_id", "get_global_size"} -> {"get_global_linear_id"}
    [] f \in {"get_local_size", "get_local_id"} -> {"get_local_linear_id"}
    [] f \in {"get_enqueued_local_size", "get_max_sub_group_size"} -> {"get_enqueued_num_sub_groups"}
    [] OTHER -> {}

IsNeeded(f) == f \in functions \/ Dependents(f) \cap functions # {}

ASSUME UsedFunctionsAssumption ==
  \A u \in UsedFunctions : u.functions \subseteq Builtins /\ (u.required = <<>> \/ IsSize(u.required))
ASSUME RangesAssumption ==
  \A r \in Ranges : r.size \in [Dims -> Nat] /\ IsSize(r.local) /\ r.offset \in [Dims -> Nat]
ASSUME SubgroupSizesAssumption == SubgroupSizes \subseteq Nat \ {0}

HasOffset == wiOptions.globalOffset \/ wiOptions.globalOffsetPC
OffsetIsPushed == ShouldDeclare(used, wiOptions, "GlobalOffset")

(* Variables a body reads, those it makes even when they are there, the push
   constants it reads and the builtins it calls. *)
Inputs(f) ==
  CASE f = "get_global_offset" -> IF HasOffset /\ ~OffsetIsPushed THEN {"GlobalOffset"} ELSE {}
    [] f = "get_global_id"     -> {"GlobalInvocationId"}
    [] f = "get_local_size"    -> {"WorkgroupSize"}
    [] f = "get_local_id"      -> {"LocalInvocationId"}
    [] f = "get_num_groups"    -> IF wiOptions.nonUniform THEN {} ELSE {"NumWorkgroups"}
    [] f = "get_group_id"      -> {"WorkgroupId"}
    [] f = "get_global_size"   -> IF wiOptions.nonUniform THEN {} ELSE {"WorkgroupSize", "NumWorkgroups"}
    [] f = "get_work_dim"      -> IF wiOptions.workDim THEN {"WorkDim"} ELSE {}
    [] f = "get_max_sub_group_size" -> {"SubgroupMaxSize"}
    [] OTHER -> {}

MakesItsOwn(f) == f # "get_global_size"

PushedInputs(f) ==
  CASE f = "get_global_offset" -> IF HasOffset /\ OffsetIsPushed THEN {"GlobalOffset"} ELSE {}
    [] f = "get_enqueued_local_size" -> {"EnqueuedLocalSize"}
    [] f \notin {"get_global_offset", "get_enqueued_local_size"} ->
         IF ~wiOptions.nonUniform THEN {}
         ELSE CASE f = "get_global_id" -> {"RegionOffset"} [] f = "get_global_size" -> {"GlobalSize"}
                [] f = "get_num_groups" -> {"NumWorkgroups"} [] f = "get_group_id" -> {"RegionGroupOffset"}
                [] OTHER -> {}

BuiltinsCalled(f) ==
  CASE f = "get_global_id" -> IF ~wiOptions.nonUniform /\ HasOffset THEN {"get_global_offset"} ELSE {}
    [] f = "get_global_linear_id" ->
         {"get_global_id", "get_global_size"} \cup (IF HasOffset THEN {"get_global_offset"} ELSE {})
    [] f = "get_local_linear_id" -> {"get_local_id", "get_local_size"}
    [] f = "get_enqueued_num_sub_groups" -> {"get_enqueued_local_size", "get_max_sub_group_size"}
    [] OTHER -> {}

(* A variable made a second time gets another name, and is not what the first is. *)
IsSound(f) ==
  /\ MakesItsOwn(f) => Inputs(f) \cap variables = {}
  /\ \A pc \in PushedInputs(f) : ShouldDeclare(used, wiOptions, pc)
  /\ BuiltinsCalled(f) \subseteq sound

DefineBuiltin ==
  LET f == Order[step + 1]
  IN /\ step < Len(Order) /\ f # "__spirv_WorkgroupSize"
     /\ step' = step + 1
     /\ IF IsNeeded(f)
        THEN /\ functions' = functions \cup {f}
             /\ variables' = variables \cup Inputs(f)
             /\ sound' = IF IsSound(f) THEN sound \cup {f} ELSE sound
        ELSE UNCHANGED <<functions, variables, sound>>
     /\ UNCHANGED <<used, wiOptions, range>>

AddWorkgroupSizeIfRequired ==
  /\ step < Len(Order) /\ Order[step + 1] = "__spirv_WorkgroupSize"
  /\ step' = step + 1
  /\ variables' = IF used.required = <<>> \/ wiOptions.nonUniform
                  THEN variables \cup {"WorkgroupSize"} ELSE variables
  /\ UNCHANGED <<used, wiOptions, functions, sound, range>>

(* The host launches what the options let it. *)
IsAccepted(r) ==
  /\ wiOptions.nonUniform \/ \A d \in Dims : r.size[d] % r.local[d] = 0
  /\ HasOffset \/ \A d \in Dims : r.offset[d] = 0
  /\ used.required # <<>> => r.local = used.required

Launch ==
  /\ step = Len(Order) /\ range = NoRange
  /\ \E r \in Ranges : IsAccepted(r) /\ range' = r
  /\ UNCHANGED <<used, wiOptions, step, functions, variables, sound>>

WorkItemsNext == DefineBuiltin \/ AddWorkgroupSizeIfRequired \/ Launch

(* get_enqueued_local_size reads a push constant also when the options declare none. *)
WorkItemsInit ==
  /\ used \in UsedFunctions /\ wiOptions \in WorkItemOptions
  /\ wiOptions.nonUniform \/ used.functions \cap {"get_enqueued_local_size", "get_enqueued_num_sub_groups"} = {}
  /\ step = 0 /\ functions = used.functions
  /\ variables = {} /\ sound = {} /\ range = NoRange

WorkItemsSpec == WorkItemsInit /\ [][WorkItemsNext]_wiVars

------------------------------------------------------------------------------
(* The regions of a range in dimension d: where it starts, of how many groups of
   which size. A work-item is a group and a local number in a region. *)
Whole(d) == range.size[d] \div range.local[d]
Rest(d) == range.size[d] % range.local[d]
Regions(d) ==
  {r \in {[first |-> 0, group |-> 0, groups |-> Whole(d), local |-> range.local[d]],
          [first |-> Whole(d) * range.local[d], group |-> Whole(d), groups |-> 1, local |-> Rest(d)]} :
     r.groups > 0 /\ r.local > 0}
ItemsOf(d) ==
  UNION {[region : {r}, group : 0 .. r.groups - 1, local : 0 .. r.local - 1] : r \in Regions(d)}
Items == {<<x, y, z>> : x \in ItemsOf(1), y \in ItemsOf(2), z \in ItemsOf(3)}

(* What the variables and push constants hold for work-item w. Without the variable
   WorkgroupSize the groups have the size the kernel requires. *)
GroupSize(w, d) == IF "WorkgroupSize" \in variables THEN w[d].region.local ELSE used.required[d]
Variable(name, w, d) ==
  CASE name = "GlobalInvocationId" -> w[d].group * GroupSize(w, d) + w[d].local
    [] name = "LocalInvocationId"  -> w[d].local
    [] name = "WorkgroupId"        -> w[d].group
    [] name = "NumWorkgroups"      -> w[d].region.groups
    [] name = "WorkgroupSize"      -> GroupSize(w, d)
    [] name = "GlobalOffset"       -> range.offset[d]
Pushed(pc, w, d) ==
  CASE pc = "GlobalOffset"      -> range.offset[d]
    [] pc = "RegionOffset"      -> range.offset[d] + w[d].region.first
    [] pc = "RegionGroupOffset" -> w[d].region.group
    [] pc = "GlobalSize"        -> range.size[d]
    [] pc = "NumWorkgroups"     -> Whole(d) + (IF Rest(d) = 0 THEN 0 ELSE 1)
    [] pc = "EnqueuedLocalSize" -> range.local[d]

(* The bodies. d is the number of a dimension, 0 to 2 in OpenCL, or a larger one. *)
InBoundsOr(d, value, default) == IF d < 3 THEN value ELSE default
Index(d) == InBoundsOr(d, d, 0) + 1

GlobalOffset(w, d) ==
  IF ~HasOffset THEN 0
  ELSE InBoundsOr(d, IF OffsetIsPushed THEN Pushed("GlobalOffset", w, Index(d))
                     ELSE Variable("GlobalOffset", w, Index(d)), 0)
GlobalID(w, d) ==
  InBoundsOr(d, Variable("GlobalInvocationId", w, Index(d)), 0)
    + (IF wiOptions.nonUniform THEN InBoundsOr(d, Pushed("RegionOffset", w, Index(d)), 0)
       ELSE GlobalOffset(w, d))
LocalSize(w, d) == InBoundsOr(d, Variable("WorkgroupSize", w, Index(d)), 1)
LocalID(w, d) == InBoundsOr(d, Variable("LocalInvocationId", w, Index(d)), 0)
NumGroups(w, d) ==
  InBoundsOr(d, IF wiOptions.nonUniform THEN Pushed("NumWorkgroups", w, Index(d))
                ELSE Variable("NumWorkgroups", w, Index(d)), 1)
GroupID_OfRegion(w, d) == InBoundsOr(d, Variable("WorkgroupId", w, Index(d)), 0)
GroupID(w, d) ==
  InBoundsOr(d, Variable("WorkgroupId", w, Index(d)), 0)
    + (IF wiOptions.nonUniform THEN InBoundsOr(d, Pushed("RegionGroupOffset", w, Index(d)), 0) ELSE 0)
GlobalSize(w, d) ==
  InBoundsOr(d, IF wiOptions.nonUniform THEN Pushed("GlobalSize", w, Index(d))
                ELSE Variable("WorkgroupSize", w, Index(d)) * Variable("NumWorkgroups", w, Index(d)), 1)
EnqueuedLocalSize(w, d) == InBoundsOr(d, Pushed("EnqueuedLocalSize", w, Index(d)), 1)

Linear(n, size) == n[3] * (size[1] * size[2]) + n[2] * size[1] + n[1]
GlobalLinearID(w) ==
  Linear([d \in Dims |-> GlobalID(w, d - 1) - (IF HasOffset THEN GlobalOffset(w, d - 1) ELSE 0)],
         [d \in Dims |-> GlobalSize(w, d - 1)])
LocalLinearID(w) == Linear([d \in Dims |-> LocalID(w, d - 1)], [d \in Dims |-> LocalSize(w, d - 1)])

EnqueuedNumSubGroups(w, max) ==
  LET local == EnqueuedLocalSize(w, 0) * EnqueuedLocalSize(w, 1) * EnqueuedLocalSize(w, 2)
  IN (local + max - 1) \div max

------------------------------------------------------------------------------
(* What OpenCL C says, of the work-item that is at[d] from the start of the range. *)
At(w, d) == w[d].region.first + w[d].group * w[d].region.local + w[d].local
Start(w, d) == w[d].region.first + w[d].group * w[d].region.local
OpenCL(f, w, d) ==
  CASE f = "get_global_offset" -> range.offset[d]
    [] f = "get_global_id"     -> range.offset[d] + At(w, d)
    [] f = "get_local_id"      -> At(w, d) - Start(w, d)
    [] f = "get_group_id"      -> Start(w, d) \div range.local[d]
    [] f = "get_local_size"    -> Min({range.local[d], range.size[d] - Start(w, d)})
    [] f = "get_num_groups"    -> (range.size[d] + range.local[d] - 1) \div range.local[d]
    [] f = "get_global_size"   -> range.size[d]
    [] f = "get_enqueued_local_size" -> range.local[d]
Beyond(f) == IF f \in {"get_local_size", "get_num_groups", "get_global_size", "get_enqueued_local_size"} THEN 1 ELSE 0

Body(f, w, d) ==
  CASE f = "get_global_offset" -> GlobalOffset(w, d)
    [] f = "get_global_id"     -> GlobalID(w, d)
    [] f = "get_local_id"      -> LocalID(w, d)
    [] f = "get_group_id"      -> GroupID(w, d)
    [] f = "get_local_size"    -> LocalSize(w, d)
    [] f = "get_num_groups"    -> NumGroups(w, d)
    [] f = "get_global_size"   -> GlobalSize(w, d)
    [] f = "get_enqueued_local_size" -> EnqueuedLocalSize(w, d)

ByDimension == {"get_global_offset", "get_global_id", "get_local_id", "get_group_id", "get_local_size",
                "get_num_groups", "get_global_size", "get_enqueued_local_size"}

(* groups of at most max make items, and one less does not. *)
IsEnoughFor(groups, max, items) == groups * max >= items /\ (groups - 1) * max < items

(* In whichever region it runs, a work-item is told its place in the whole range:
   the bodies, the push constants that were declared before they were written, and
   what the host puts in them for each region agree; each builtin finds its inputs,
   although later ones share them. *)
WorkItemsKnowTheirPlace ==
  range # NoRange =>
    /\ used.functions \subseteq sound
    /\ \A w \in Items :
         /\ \A f \in ByDimension \cap functions :
              /\ \A d \in Dims : Body(f, w, d - 1) = OpenCL(f, w, d)
              /\ Body(f, w, 3) = Beyond(f)
         /\ "get_global_linear_id" \in functions =>
              GlobalLinearID(w) = Linear([d \in Dims |-> At(w, d)], range.size)
         /\ "get_local_linear_id" \in functions =>
              LocalLinearID(w) = Linear([d \in Dims |-> w[d].local], [d \in Dims |-> w[d].region.local])
         /\ "get_enqueued_num_sub_groups" \in functions =>
              \A max \in SubgroupSizes :
                IsEnoughFor(EnqueuedNumSubGroups(w, max), max, range.local[1] * range.local[2] * range.local[3])
================================================================================

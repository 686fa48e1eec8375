---------------------------- MODULE ResourceVars ----------------------------
(***************************************************************************)
(* What SPIRVProducerPass makes of what AllocateDescriptorsPass decided:   *)
(* the resource variables, in one step when the other pass is done         *)
(* (FindResourceVars, GenerateResourceVars); the variables of __local      *)
(* arguments and the specialization constants of the module, and what the  *)
(* reflection says of them.                                                *)
(*                                                                         *)
(* Beside its fields for AllocateDescriptors a program has the builtin     *)
(* variables with specialization constants, and the workgroup size each    *)
(* kernel requires (reqd_work_group_size) or NoSize.                       *)
(***************************************************************************)
EXTENDS AllocateDescriptors

CONSTANT NoSize

Builtins == {"WorkgroupSize", "WorkDim", "GlobalOffset", "SubgroupMaxSize"}

ASSUME BuiltinsAssumption == \A p \in Programs : p.builtins \subseteq Builtins

VARIABLES
    stage,         \* "info", "variables", "reflection", "end"
    resourceVars,  \* ResourceVarInfoList
    mapping,       \* FunctionToResourceVarsMap: <<kernel, argument, variable>>
    globalVars,    \* the builtin variables that have been generated
    decorations,   \* <<kind, SpecId>> of the constants decorated with a SpecId
    workgroupVars, \* LocalSpecIdInfoMap: the element type, by SpecId
    reflection,    \* the constants the reflection names: <<kind, SpecId>>
    localArgs      \* the __local arguments it describes

resourceVarVars == <<resourceVars, mapping>>
constantVars == <<globalVars, decorations, workgroupVars, reflection, localArgs>>
rvVars == <<vars, stage, resourceVarVars, constantVars>>

produced == stage # "info"    \* FindResourceVars has run

ResourceVar(c) == [accessor |-> c.accessor, set |-> c.set, binding |-> c.binding,
                   kind |-> c.kind, coherent |-> c.coherent]

CallsOf(accessor) == {c \in calls : c.accessor = accessor}
Accessors == {c.accessor : c \in calls}

RVInit ==
    /\ Init
    /\ stage = "info"
    /\ resourceVars = {} /\ mapping = {}
    /\ globalVars = {}
    /\ decorations = {}
    /\ workgroupVars = <<>>
    /\ reflection = {} /\ localArgs = {}

(***************************************************************************)
(* With distinct sets there is a variable for each pair a call of an       *)
(* accessor has.  Otherwise an accessor has one variable, made of the call *)
(* that comes first among its uses, whichever that is.                     *)
(***************************************************************************)
VarsOfAccessor(accessor) ==
    IF options.distinctSets
    THEN {V \in SUBSET {ResourceVar(c) : c \in CallsOf(accessor)} :
             \A c \in CallsOf(accessor) :
                 Cardinality({v \in V : v.set = c.set /\ v.binding = c.binding}) = 1}
    ELSE {{ResourceVar(c)} : c \in CallsOf(accessor)}

FindResourceVars ==
    /\ pc = "done" /\ stage = "info"
    /\ \E vs \in [Accessors -> UNION {VarsOfAccessor(a) : a \in Accessors}] :
           /\ \A a \in Accessors : vs[a] \in VarsOfAccessor(a)
           /\ resourceVars' = UNION {vs[a] : a \in Accessors}
           /\ mapping' = UNION {{<<c.kernel, c.arg, v>> :
                                    v \in {v \in vs[c.accessor] :
                                              options.distinctSets =>
                                                  /\ v.set = c.set
                                                  /\ v.binding = c.binding}} :
                                c \in calls}
    /\ stage' = "variables"
    /\ UNCHANGED <<vars, constantVars>>

(***************************************************************************)
(* GenerateGlobalVar: a builtin variable is initialized with constants of  *)
(* its own, each with a SpecId.  Those of the workgroup size are needed    *)
(* unless all kernels require the same size (HasMD), and always have the   *)
(* IDs 0, 1 and 2.                                                         *)
(***************************************************************************)
WorkgroupSizes == <<<<"workgroup_size_x", 0>>, <<"workgroup_size_y", 1>>,
                    <<"workgroup_size_z", 2>>>>

ConstantKinds ==
    [WorkDim         |-> <<"work_dim">>,
     GlobalOffset    |-> <<"global_offset_x", "global_offset_y", "global_offset_z">>,
     SubgroupMaxSize |-> <<"subgroup_max_size">>]

SizeIsRequired ==
    /\ ~options.nonUniform
    /\ \A k \in Kernels : program.required[k] # NoSize
    /\ \A k, l \in Kernels : program.required[k] = program.required[l]

AddWorkgroupSpecConstants ==
    /\ specConstants' = specConstants \o WorkgroupSizes
    /\ decorations' = decorations \cup ToSet(WorkgroupSizes)
    /\ UNCHANGED nextSpecId

GenerateGlobalVar(b) ==
    /\ stage = "variables"
    /\ b \in program.builtins \ globalVars
    /\ globalVars' = globalVars \cup {b}
    /\ CASE b # "WorkgroupSize" ->
               /\ AllocateSpecConstants(ConstantKinds[b])
               /\ decorations' = decorations \cup
                                     ToSet(SpecConstantsOf(ConstantKinds[b]))
         [] b = "WorkgroupSize" /\ ~SizeIsRequired -> AddWorkgroupSpecConstants
         [] b = "WorkgroupSize" /\ SizeIsRequired ->
               UNCHANGED <<nextSpecId, specConstants, decorations>>
    /\ UNCHANGED <<program, options, pc, kernel, arg, descriptorVars, specIdTypes,
                   functionSpecIds, functionAllocations, localSpecIds, stage,
                   resourceVarVars, workgroupVars, reflection, localArgs>>

(***************************************************************************)
(* A variable for each SpecId of a __local argument, made of one of the    *)
(* calls that have it.  The calls are those AllocateSpecId left.           *)
(***************************************************************************)
LocalIds == {x[3] : x \in localSpecIds}

GenerateWorkgroupVars ==
    /\ stage = "variables" /\ globalVars = program.builtins
    /\ \E call \in [LocalIds -> localSpecIds] :
           /\ \A id \in LocalIds : call[id][3] = id
           /\ workgroupVars' = [id \in LocalIds |->
                                   program.args[call[id][1]][call[id][2]].type]
    /\ decorations' = decorations \cup {<<"local_memory_size", id>> : id \in LocalIds}
    /\ stage' = "reflection"
    /\ UNCHANGED <<vars, resourceVarVars, globalVars, reflection, localArgs>>

(***************************************************************************)
(* GenerateSpecConstantReflection names the last constant of each kind;    *)
(* GenerateKernelReflection the size and element of a __local argument.    *)
(***************************************************************************)
ListedKinds == {c[1] : c \in ToSet(specConstants)} \ {"local_memory_size"}

LastOf(kind) ==
    CHOOSE i \in DOMAIN specConstants :
        /\ specConstants[i][1] = kind
        /\ \A j \in DOMAIN specConstants : specConstants[j][1] = kind => j <= i

GenerateReflection ==
    /\ stage = "reflection"
    /\ reflection' = {<<kind, specConstants[LastOf(kind)][2]>> : kind \in ListedKinds}
    /\ localArgs' = {[kernel |-> x[1], arg |-> x[2], specId |-> x[3],
                      type |-> workgroupVars[x[3]]] : x \in localSpecIds}
    /\ stage' = "end"
    /\ UNCHANGED <<vars, resourceVarVars, globalVars, decorations, workgroupVars>>

RVNext ==
    \/ Next /\ UNCHANGED <<stage, resourceVarVars, constantVars>>
    \/ FindResourceVars
    \/ \E b \in Builtins : GenerateGlobalVar(b)
    \/ GenerateWorkgroupVars
    \/ GenerateReflection

RVSpec == RVInit /\ [][RVNext]_rvVars

-----------------------------------------------------------------------------

\* The variable an accessor call is replaced by (SPIRVProducerPass.cpp:2921).
VarOf(c) == {v \in resourceVars : /\ v.accessor = c.accessor
                                  /\ v.set = c.set /\ v.binding = c.binding}

(***************************************************************************)
(* Every accessor call becomes one variable, which is decorated as the     *)
(* kernel of the call needs it and as the reflection says it is: "a single *)
(* resource variable can only be decorated once"                           *)
(* (AllocateDescriptorsPass.cpp:240).                                      *)
(***************************************************************************)
EveryCallHasItsVariable ==
    produced =>
        \A c \in calls : \E v \in VarOf(c) :
            /\ VarOf(c) = {v}
            /\ v.kind = c.kind
            /\ v.coherent = program.args[c.kernel][c.arg].coherent
            /\ {m[3] : m \in {m \in mapping : m[1] = c.kernel /\ m[2] = c.arg}}
                   = {v}

(***************************************************************************)
(* The host can set every specialization constant and no other by mistake: *)
(* no SpecId is on two constants; the reflection names for each kind the   *)
(* constant that has the SpecId; each __local argument in use is described *)
(* with the SpecId of its own variable and the type of its elements, and   *)
(* no two of a kernel share one ("Clspv only shares spec ids if the data   *)
(* types match", SPIRVProducerPass.cpp:1511).                              *)
(***************************************************************************)
LocalArgsOf(k) ==
    {i \in 1..NumArgs(k) : /\ ~Skipped(program.args[k][i])
                           /\ program.args[k][i].kind = "local"}

ConstantsAreTold ==
    /\ LocalArgsSizedApart
    /\ \A c, d \in decorations : c[2] = d[2] => c = d
    /\ stage = "end" =>
          /\ reflection = {d \in decorations : d[1] # "local_memory_size"}
          /\ \A a \in localArgs :
                /\ <<"local_memory_size", a.specId>> \in decorations
                /\ a.type = TypeOfArg(a.kernel, a.arg)
          /\ \A k \in Kernels :
                {a.arg : a \in {a \in localArgs : a.kernel = k}} = LocalArgsOf(k)

(***************************************************************************)
(* AutoPodArgsPass "Decides the pod args implementation for each kernel    *)
(* individually" and "Makes kernel |F| use |impl|" (AutoPodArgsPass.h:28   *)
(* and 34): the variable a plain-old-data argument becomes is of the kind  *)
(* chosen for its kernel.                                                  *)
(***************************************************************************)
KernelsKeepTheirPodKind ==
    produced =>
        \A c \in calls : c.kind \in {"pod", "pod_ubo", "pod_pushconstant"} =>
            \A v \in VarOf(c) : v.kind = c.kind
=============================================================================

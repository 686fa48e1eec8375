----------------------------- MODULE Coherence -----------------------------
(***************************************************************************)
(* Which buffers and images are decorated Coherent.                        *)
(*                                                                         *)
(* AllocateDescriptorsPass makes the variable of a kernel argument         *)
(* coherent when the call tree of the kernel synchronizes on global memory *)
(* and the argument is both read and written.  SPIRVProducerPass then      *)
(* decorates the parameters such a variable is passed to.                  *)
(*                                                                         *)
(* Functions are numbered so that one calls only functions with a larger   *)
(* number: OpenCL C has no recursion.                                      *)
(***************************************************************************)
EXTENDS Integers, Sequences

CONSTANTS
    NumFunctions,
    NumKernels,   \* functions 1..NumKernels are the entry points
    Values,       \* the arguments and instructions that matter to pointers
    Programs

Functions == 1..NumFunctions
Kernels == 1..NumKernels

\* What an instruction is to CallTreeContainsGlobalSynchronization.  sync: it
\* orders accesses to global or image memory with more than monotonic order.
\* "spirv_op" is a barrier, fence or atomic whose semantics are a constant.
SyncInstructions ==
    [kind : {"rmw", "spirv_op", "builtin", "other"}, sync : BOOLEAN]
    \cup [kind : {"call"}, callee : Functions]

\* What a value is to the walks over uses.  operands: the pointers it takes.
\* "pointer" stands for every instruction that makes a pointer of pointers.
Definitions ==
    [kind : {"argument", "pointer", "load", "store", "rmw", "other"},
     operands : Seq(Values)]
    \cup [kind : {"call"}, operands : Seq(Values), callee : Functions]
    \cup [kind : {"builtin"}, operands : Seq(Values), reads : BOOLEAN,
          writes : BOOLEAN]

\* A call passes a pointer for each pointer the callee takes.  Every pointer that
\* is used is an argument or made of others: none is loaded from memory or
\* returned.  Kernels are not called any more (InlineEntryPointsPass).
IsModule(p) ==
    /\ p.code \in [Functions -> Seq(Seq(SyncInstructions))]
    /\ p.params \in [Functions -> Seq(Values)]
    /\ p.def \in [Values -> Definitions]
    /\ \A f \in Functions : \A b \in DOMAIN p.code[f] : \A n \in DOMAIN p.code[f][b] :
          p.code[f][b][n].kind = "call" => p.code[f][b][n].callee > f
    /\ \A f, h \in Functions : \A i \in DOMAIN p.params[f], j \in DOMAIN p.params[h] :
          /\ p.def[p.params[f][i]].kind = "argument"
          /\ p.params[f][i] = p.params[h][j] => f = h /\ i = j
    /\ \A v \in Values :
          /\ p.def[v].kind = "argument" => p.def[v].operands = <<>>
          /\ p.def[v].kind = "call" =>
                /\ p.def[v].callee \notin Kernels
                /\ DOMAIN p.def[v].operands = DOMAIN p.params[p.def[v].callee]
          /\ \A i \in DOMAIN p.def[v].operands :
                p.def[p.def[v].operands[i]].kind \in {"argument", "pointer"}

ASSUME ProgramsAssumption ==
    /\ NumKernels \in Nat /\ NumFunctions \in Nat /\ NumKernels <= NumFunctions
    /\ \A p \in Programs : IsModule(p)

VARIABLES
    program,
    pc, kernel, arg,   \* the kernel and argument the pass is at
    barrierMap,        \* barrier_map_, of the kernels met so far
    stack,             \* pairs <<user, operandNo>> still to look at
    visited, read, write,
    coherentArgs,      \* the kernel arguments whose discriminant is coherent
    coherentParams     \* the function parameters decorated Coherent

walkVars == <<stack, visited, read, write>>
vars == <<program, pc, kernel, arg, barrierMap, walkVars, coherentArgs, coherentParams>>

(***************************************************************************)
(* CallTreeContainsGlobalSynchronization.  An instruction that may         *)
(* synchronize overwrites what is known; only a call ends the walk.        *)
(***************************************************************************)
\* Wrong variant: functions that are called are not looked into.
UsesBarrierAfter_NoCalls(instr, before, inCallee) ==
    IF instr.kind \in {"rmw", "spirv_op"} THEN instr.sync ELSE before

UsesBarrierAfter(instr, before, inCallee) ==
    CASE instr.kind \in {"rmw", "spirv_op"} -> instr.sync
      [] instr.kind = "call" -> inCallee[instr.callee]
      [] OTHER -> before

IsCall(instr) == instr.kind \in {"spirv_op", "builtin", "call"}

\* What is known after each instruction of a block, and whether the walk ended.
Found(block, inCallee) ==
    LET found[n \in 0..Len(block)] ==
            IF n = 0 THEN [uses |-> FALSE, stop |-> FALSE]
            ELSE IF found[n - 1].stop THEN found[n - 1]
            ELSE LET uses == UsesBarrierAfter(block[n], found[n - 1].uses, inCallee)
                 IN  [uses |-> uses, stop |-> uses /\ IsCall(block[n])]
    IN  found

BlockUsesBarrier(block, inCallee) == Found(block, inCallee)[Len(block)].uses

\* By function, for the code of a module.
ContainsGlobalSynchronization(code) ==
    LET contains[f \in Functions] ==
            LET inCallee == [g \in (f + 1)..NumFunctions |-> contains[g]]
            IN  \E b \in DOMAIN code[f] : BlockUsesBarrier(code[f][b], inCallee)
    IN  contains

CallTreeContainsGlobalSynchronization(f) ==
    ContainsGlobalSynchronization(program.code)[f]

(***************************************************************************)
(* HasReadsAndWrites.  In what order a value's uses are listed is not      *)
(* determined, so the walk takes any pending pair.                         *)
(***************************************************************************)
Pairs == UNION {{u} \X DOMAIN program.def[u].operands : u \in Values}

Uses(v) ==
    {use \in Pairs : /\ program.def[use[1]].operands[use[2]] = v
                     /\ program.def[use[1]].kind # "other"}

Init ==
    /\ program \in Programs
    /\ pc = "kernel"
    /\ kernel = 1 /\ arg = 1
    /\ barrierMap = <<>>
    /\ stack = {} /\ visited = {}
    /\ read = FALSE /\ write = FALSE
    /\ coherentArgs = {}
    /\ coherentParams = {}

StartKernel ==
    /\ pc = "kernel"
    /\ kernel \in Kernels
    /\ barrierMap' = Append(barrierMap, CallTreeContainsGlobalSynchronization(kernel))
    /\ pc' = "argument"
    /\ arg' = 1
    /\ UNCHANGED <<program, kernel, walkVars, coherentArgs, coherentParams>>

StartArgument ==
    /\ pc = "argument"
    /\ arg \in DOMAIN program.params[kernel]
    /\ IF barrierMap[kernel]
       THEN /\ stack' = Uses(program.params[kernel][arg])
            /\ pc' = "walk"
            /\ UNCHANGED arg
       ELSE /\ arg' = arg + 1
            /\ UNCHANGED <<pc, stack>>
    /\ visited' = {}
    /\ read' = FALSE /\ write' = FALSE
    /\ UNCHANGED <<program, kernel, barrierMap, coherentArgs, coherentParams>>

NextKernel ==
    /\ pc = "argument"
    /\ arg \notin DOMAIN program.params[kernel]
    /\ kernel' = kernel + 1
    /\ pc' = "kernel"
    /\ UNCHANGED <<program, arg, barrierMap, walkVars, coherentArgs, coherentParams>>

Reads(d) == d.kind \in {"load", "rmw"} \/ (d.kind = "builtin" /\ d.reads)
Writes(d) == d.kind \in {"store", "rmw"} \/ (d.kind = "builtin" /\ d.writes)

\* The argument of the callee that operand i of a call is passed to.
Parameter(d, i) == program.params[d.callee][i]

\* Wrong variant: a call is not followed into the function it calls.
Follow_NotIntoCalls(d, v, i) == IF d.kind = "pointer" THEN Uses(v) ELSE {}

\* The pairs that visiting operand i of user v pushes.
Follow(d, v, i) ==
    CASE d.kind = "call" -> IF Parameter(d, i) \in visited THEN {}
                            ELSE Uses(Parameter(d, i))
      [] d.kind = "pointer" -> Uses(v)
      [] OTHER -> {}

VisitUser ==
    /\ pc = "walk"
    /\ ~(read /\ write)
    /\ \E use \in stack :
          LET v == use[1]
              d == program.def[v]
              new == v \notin visited
          IN  /\ stack' = (stack \ {use}) \cup
                              (IF new THEN Follow(d, v, use[2]) ELSE {})
              /\ visited' = visited \cup {v} \cup
                                (IF new /\ d.kind = "call"
                                 THEN {Parameter(d, use[2])} ELSE {})
              /\ read' = (read \/ (new /\ Reads(d)))
              /\ write' = (write \/ (new /\ Writes(d)))
    /\ UNCHANGED <<program, pc, kernel, arg, barrierMap, coherentArgs, coherentParams>>

\* Wrong variant: one of the two is enough.
EndArgument_ReadOrWrite ==
    /\ pc = "walk"
    /\ stack = {} \/ (read /\ write)
    /\ coherentArgs' = IF read \/ write
                       THEN coherentArgs \cup {program.params[kernel][arg]}
                       ELSE coherentArgs
    /\ arg' = arg + 1
    /\ pc' = "argument"
    /\ UNCHANGED <<program, kernel, barrierMap, walkVars, coherentParams>>

EndArgument ==
    /\ pc = "walk"
    /\ stack = {} \/ (read /\ write)
    /\ coherentArgs' = IF read /\ write
                       THEN coherentArgs \cup {program.params[kernel][arg]}
                       ELSE coherentArgs
    /\ arg' = arg + 1
    /\ pc' = "argument"
    /\ UNCHANGED <<program, kernel, barrierMap, walkVars, coherentParams>>

EndKernels ==
    /\ pc = "kernel"
    /\ kernel \notin Kernels
    /\ pc' = "parameters"
    /\ UNCHANGED <<program, kernel, arg, barrierMap, walkVars, coherentArgs,
                   coherentParams>>

(***************************************************************************)
(* SPIRVProducerPass: CalledWithCoherentResource.  The walk goes from a    *)
(* parameter to what callers pass, and from there to operands, up to the   *)
(* variables the arguments of kernels have become.                         *)
(***************************************************************************)
CallsOf(f) == {c \in Values : program.def[c].kind = "call" /\ program.def[c].callee = f}

Passed(f, i) == {program.def[c].operands[i] : c \in CallsOf(f)}

Operands(v) == {program.def[v].operands[i] : i \in DOMAIN program.def[v].operands}

\* What callers pass as v, if v is a parameter.
PassedAs(v) ==
    UNION {UNION {Passed(f, i) : i \in {i \in DOMAIN program.params[f] :
                                           program.params[f][i] = v}} :
           f \in Functions \ Kernels}

\* Wrong variant: only the direct callers of the function are looked at.
Sources_NoCallers(v) == Operands(v)

Sources(v) == Operands(v) \cup PassedAs(v)

Pointers == {v \in Values : program.def[v].kind \in {"argument", "pointer"}}

\* All the walk can meet.
MetFrom(start) ==
    {v \in Pointers : \A S \in SUBSET Pointers :
        start \subseteq S /\ (\A w \in S : Sources(w) \subseteq S) => v \in S}

CalledWithCoherentResource(f, i) == MetFrom(Passed(f, i)) \cap coherentArgs # {}

DecorateParameters ==
    /\ pc = "parameters"
    /\ coherentParams' =
           UNION {{program.params[f][i] : i \in {i \in DOMAIN program.params[f] :
                                                   CalledWithCoherentResource(f, i)}} :
                  f \in Functions \ Kernels}
    /\ pc' = "done"
    /\ UNCHANGED <<program, kernel, arg, barrierMap, walkVars, coherentArgs>>

Finished == pc = "done" /\ UNCHANGED vars

Next ==
    \/ StartKernel
    \/ StartArgument
    \/ NextKernel
    \/ VisitUser
    \/ EndArgument
    \/ EndKernels
    \/ DecorateParameters
    \/ Finished

Spec == Init /\ [][Next]_vars

-----------------------------------------------------------------------------

\* The instructions of a function.
Instructions(f) ==
    UNION {{program.code[f][b][n] : n \in DOMAIN program.code[f][b]} :
           b \in DOMAIN program.code[f]}

Callees(f) == {n.callee : n \in {m \in Instructions(f) : m.kind = "call"}}

\* The functions a call of f may run: the least set closed under calls.
CallTree(f) ==
    {g \in Functions : \A S \in SUBSET Functions :
        f \in S /\ (\A h \in S : Callees(h) \subseteq S) => g \in S}

Synchronizes(f, kinds) ==
    \E g \in CallTree(f) : \E n \in Instructions(g) : n.kind \in kinds /\ n.sync

(***************************************************************************)
(* "Returns true if |F| or call function |F| calls contains a global       *)
(* synchronization primitive" (AllocateDescriptorsPass.h:57).  Every "true"*)
(* is one, and every barrier, fence and SPIR-V atomic is found, however    *)
(* deep in the call tree and whatever follows it (lines 941-991),          *)
(***************************************************************************)
FencesFound ==
    \A k \in DOMAIN barrierMap :
        /\ barrierMap[k] => Synchronizes(k, {"rmw", "spirv_op"})
        /\ Synchronizes(k, {"spirv_op"}) => barrierMap[k]

(***************************************************************************)
(* and every atomic read-modify-write instruction as well.                 *)
(***************************************************************************)
AtomicsFound ==
    \A k \in DOMAIN barrierMap :
        Synchronizes(k, {"rmw"}) => barrierMap[k]

\* What an argument points to, by whichever name: the least set that holds the
\* argument, the pointers made of its members and the parameters they go to.
Aliases(a) ==
    {v \in Pointers : \A S \in SUBSET Pointers :
        /\ a \in S
        /\ \A w \in Pointers :
              (Operands(w) \cup PassedAs(w)) \cap S # {} => w \in S
        => v \in S}

Accesses(a) ==
    LET names == Aliases(a)
    IN  {program.def[v] : v \in {v \in Values : Operands(v) \cap names # {}}}

IsRead(a) == \E d \in Accesses(a) : Reads(d)
IsWritten(a) == \E d \in Accesses(a) : Writes(d)

\* No call takes two pointers into what the argument points to.
NoCallTakesItTwice(a) ==
    LET names == Aliases(a)
    IN  \A c \in Values : \A i, j \in DOMAIN program.def[c].operands :
            /\ program.def[c].kind = "call"
            /\ {program.def[c].operands[i], program.def[c].operands[j]} \subseteq names
            => i = j

(***************************************************************************)
(* "Coherency is only required if the argument is [...] both read and      *)
(* written to" (AllocateDescriptorsPass.cpp:328): where the kernel is      *)
(* known to synchronize, exactly those arguments are coherent, through     *)
(* whatever pointers, calls and loops of phis they are accessed.  A call   *)
(* that takes the argument twice is followed for one of the two operands   *)
(* only (line 1040), so an argument no call takes twice is asked for.      *)
(***************************************************************************)
ReadAndWrittenIsCoherent ==
    pc = "done" =>
        \A k \in Kernels : \A i \in DOMAIN program.params[k] :
            LET a == program.params[k][i]
                needed == barrierMap[k] /\ IsRead(a) /\ IsWritten(a)
            IN  /\ a \in coherentArgs => needed
                /\ needed /\ NoCallTakesItTwice(a) => a \in coherentArgs

(***************************************************************************)
(* "If the arg is passed a coherent resource ever, then decorate this      *)
(* parameter with Coherent too" (SPIRVProducerPass.cpp:3503): no function  *)
(* accesses a coherent variable through a parameter that is not coherent,  *)
(* and no parameter is decorated that never sees one.                      *)
(***************************************************************************)
CoherenceReachesParameters ==
    pc = "done" =>
        coherentParams =
            {p \in UNION {Aliases(a) : a \in coherentArgs} :
                \E f \in Functions \ Kernels : \E i \in DOMAIN program.params[f] :
                    p = program.params[f][i]}
=============================================================================

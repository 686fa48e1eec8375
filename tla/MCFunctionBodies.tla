--------------------------- MODULE MCFunctionBodies ---------------------------
(* What becomes of the functions of a module on the way to SPIR-V, one question at
   a time: what has to be coherent, or the control flow of a function. *)
EXTENDS Coherence, TLC

(* A kernel of two pointer arguments that calls a helper, which may call another.
   One family of programs varies where the functions synchronize, the other how
   pointers flow. *)
CONSTANTS a1, a2, g, call2, p1, p2, q, call3, r1, ld, st

MCValues == {a1, a2, g, call2, p1, p2, q, call3, r1, ld, st}

Rmw(sync) == [kind |-> "rmw", sync |-> sync]
SpirvOp(sync) == [kind |-> "spirv_op", sync |-> sync]
Builtin == [kind |-> "builtin", sync |-> FALSE]
Call(f) == [kind |-> "call", callee |-> f]

UpTo2(S) == {<<>>} \cup {<<x>> : x \in S} \cup {<<x, y>> : x, y \in S}

Def(kind, operands) == [kind |-> kind, operands |-> operands]
DefCall(f, operands) == [kind |-> "call", operands |-> operands, callee |-> f]

Params == <<<<a1, a2>>, <<p1, p2>>, <<r1>>>>

\* K(a1, a2) { g = pointer; F(c1, c2); } F(p1, p2) { q = pointer; G(d1); }
\* G(r1) { }, one load or builtin and one store somewhere.
FlowDefs ==
    {a1 :> Def("argument", <<>>) @@ a2 :> Def("argument", <<>>) @@
     g :> Def("pointer", go) @@ call2 :> DefCall(2, co) @@
     p1 :> Def("argument", <<>>) @@ p2 :> Def("argument", <<>>) @@
     q :> Def("pointer", qo) @@ call3 :> DefCall(3, do) @@
     r1 :> Def("argument", <<>>) @@
     ld :> Def("load", <<lo>>) @@ st :> [kind |-> "builtin", operands |-> <<so>>,
                                         reads |-> FALSE, writes |-> TRUE] :
        go \in {<<a1>>, <<a1, a2>>}, co \in {<<x, y>> : x, y \in {a1, a2, g}},
        qo \in {<<p1, q>>, <<p1, p2>>}, do \in {<<q>>, <<p2>>},
        lo \in {a1, p1, q, r1}, so \in {a2, g, p2, q, r1}}

FlowPrograms ==
    {[code |-> <<<<<<Call(2)>>>>, <<<<Call(3)>>>>, <<<<SpirvOp(TRUE)>>>>>>,
      params |-> Params, def |-> f] : f \in FlowDefs}

SimpleDef ==
    [v \in MCValues |->
        IF v = ld THEN Def("load", <<a1>>)
        ELSE IF v = st THEN Def("store", <<a1>>)
        ELSE IF v \in {a1, a2, p1, p2, r1} THEN Def("argument", <<>>)
        ELSE Def("other", <<>>)]

SyncPrograms(Instrs, Ends) ==
    {[code |-> <<f, <<h>>, <<last>>>>, params |-> Params, def |-> SimpleDef] :
        f \in UpTo2(UpTo2(Instrs)), h \in {<<>>, <<Call(3)>>, <<Call(3), Rmw(FALSE)>>},
        last \in Ends}

NoAtomics == {SpirvOp(TRUE), SpirvOp(FALSE), Rmw(FALSE), Call(2)}

MCPrograms ==
    UNION {FlowPrograms,
           SyncPrograms(NoAtomics, {<<>>, <<SpirvOp(TRUE)>>}),
           SyncPrograms({Rmw(TRUE), Builtin, Call(2)}, {<<Rmw(TRUE)>>})}

MCAtomicPrograms ==
    SyncPrograms({Rmw(TRUE), Rmw(FALSE), SpirvOp(FALSE)}, {<<>>})

-------------------------------------------------------------------------------

VARIABLES phase, structurized, f, hackBlockOrder, order, merges, code, deferred, at, last, phiValues

flowVars == <<phase, structurized, f, hackBlockOrder, order, merges, code, deferred, at, last, phiValues>>

Shapes == INSTANCE StructurizedFunctions
Flow == INSTANCE StructuredControlFlow WITH
            Functions <- Shapes!MCStructurizedFunctions, BlockOrders <- BOOLEAN

NoCoherence ==
    /\ pc = "none" /\ program = {} /\ kernel = 0 /\ arg = 0 /\ barrierMap = <<>>
    /\ stack = {} /\ visited = {} /\ read = FALSE /\ write = FALSE
    /\ coherentArgs = {} /\ coherentParams = {}
NoFlow ==
    /\ phase = "none" /\ structurized = {} /\ f = {} /\ hackBlockOrder = FALSE
    /\ order = {} /\ merges = {} /\ code = {} /\ deferred = {}
    /\ at = {} /\ last = {} /\ phiValues = {}
IsFlow == phase # "none"

MCInit == \/ Init /\ NoFlow
          \/ NoCoherence /\ Flow!CFInit
MCNext == \/ ~IsFlow /\ Next /\ UNCHANGED flowVars
          \/ IsFlow /\ Flow!CFNext /\ UNCHANGED vars
MCSpec == MCInit /\ [][MCNext]_<<vars, flowVars>>

(* What is generated has the structure Vulkan asks of it. *)
ControlFlowIsStructured == IsFlow => Flow!ControlFlowIsStructured

(* The function runs as it would have run before the passes. *)
ExecutesTheSame == IsFlow => Flow!ExecutesTheSame
===============================================================================

--------------------------- MODULE MCCallGraphPasses ---------------------------
(* What passes do along the call graph of a module: __local variables are shared
   by kernels that never meet, or functions are inlined, ordered, made direct and
   given versions, or images are given types. One of these happens in a behaviour. *)
EXTENDS ShareModuleScopeVars, SpecializeImageTypes, CallGraphPasses

CONSTANTS k1, k2, f1, f2, p1, p2

(* Two kernels that may call two helpers, the first of which may call the second;
   each of three __local variables has its users in at most one function, or in
   both kernels. *)
MCKernels == {k1, k2}
MCFunctions == MCKernels \cup {f1, f2}

MCCalls == {c \in [MCFunctions -> SUBSET {f1, f2}] :
               c[f1] \subseteq {f2} /\ c[f2] = {}}

MCUsers == {U \in SUBSET MCFunctions : Cardinality(U) <= 1 \/ U = MCKernels}

MCPrograms == [calls : MCCalls,
               typeOf : {t \in [1..3 -> Types] : \E u \in Types : t[1] = u /\ t[2] = u},
               users : [1..3 -> MCUsers]]

(* Two image arguments of kernels and two image parameters: all ways to hand them on
   without recursion, the first argument to both parameters in one call or in two,
   and what is done with them: the first one and the parameters may be read as ints
   or queried, the second may be read as floats. *)
MCParams == {p1, p2}
MCImageCalls == (1..2 \cup MCParams) \X ({"float", "int", "query"} \cup MCParams)

Builtin(i, kind) == [image |-> i, call |-> <<i, kind>>, kind |-> kind, param |-> i]
HandOn(i, p, c) == [image |-> i, call |-> c, kind |-> "call", param |-> p]

HandedOn(edges, together) ==
  {HandOn(e[1], e[2], IF together /\ e[1] = 1 THEN <<1, p1>> ELSE e) : e \in edges}

MCImagePrograms ==
  {UNION {{Builtin(i, kind) : kind \in done[i]} : i \in DOMAIN done} \cup HandedOn(edges, together) :
     done \in {d \in [1..2 \cup MCParams -> {{}, {"int"}, {"float"}, {"query"}}] :
                  d[2] \in {{}, {"float"}} /\ \A i \in {1} \cup MCParams : d[i] # {"float"}},
     edges \in SUBSET {<<1, p1>>, <<1, p2>>, <<2, p1>>, <<p1, p2>>}, together \in BOOLEAN}

------------------------------------------------------------------------------
P == <<1>>
Q == <<2>>

Dyn(n) == [kind |-> "dyn", id |-> n]
With(v, geps) == [v EXCEPT !.geps = geps]

R1 == Pointer("resource", 1)
R2 == Pointer("resource", 2)
Selected == Pointer("other", 1)

Use(n, op, operands) == [site |-> <<n>>, op |-> op, operands |-> operands]
Access(n, v) == Use(n, "memory", <<v>>)
Call(n, f, args) == [site |-> <<n>>, callee |-> f, args |-> args]
Fun(kernel, noinline, params, ubo, calls, accesses) ==
  [kernel |-> kernel, noinline |-> noinline, params |-> params, ubo |-> ubo, private |-> {},
   calls |-> calls, accesses |-> accesses]
Kernel(calls) == Fun(TRUE, FALSE, <<>>, {}, calls, {})

R3 == Pointer("resource", 3)

(* Two kernels call helper 4, which calls helper 3, which kernel 1 may call, too.
   Helper 4 has the larger number: its callee comes first in the module. P is a
   __constant pointer, as are resources 1 and 2. Q is, too, or a __global one. *)
FromKernel(ubo) ==
  IF Q \in ubo
  THEN {<<R1, R2>>, <<R2, R2>>, <<With(R1, <<<<Zero, Const(1)>>>>), R1>>,
        <<With(R1, <<<<Zero, Dyn(1)>>, <<Zero, Dyn(2)>>>>), With(R2, <<<<Dyn(6)>>>>)>>}
  ELSE {<<R1, R3>>, <<With(R1, <<<<Zero, Zero>>>>), R3>>, <<Selected, R3>>}

FromHelper(ubo) ==
  IF Q \in ubo
  THEN {<<With(Pointer("param", P), <<<<Zero>>, <<Zero, Zero>>>>), Pointer("param", P)>>,
        <<With(Pointer("param", Q), <<<<Zero, Dyn(3)>>>>), Pointer("param", P)>>}
  ELSE {<<Pointer("param", P), Pointer("param", Q)>>, <<Selected, Pointer("param", Q)>>}

Direct(ubo) == IF Q \in ubo THEN {<<With(R2, <<<<Dyn(5)>>>>), R1>>} ELSE {<<R1, R3>>}

TwoLevels ==
  UNION {{[f \in 1..4 |->
     CASE f = 1 -> Kernel({Call(1, 4, a1)} \cup {Call(2, 3, x) : x \in direct})
       [] f = 2 -> Kernel({Call(3, 4, x) : x \in a2})
       [] f = 3 -> Fun(FALSE, FALSE, <<P, Q>>, ubo, {}, {Access(10, With(Pointer("param", P), <<<<Zero, Dyn(4)>>>>))})
       [] f = 4 -> Fun(FALSE, noinline, <<P, Q>>, ubo, {Call(4, 3, inner)},
                       {Access(11, v) : v \in used})] :
     a1 \in FromKernel(ubo), a2 \in {{}} \cup {{a} : a \in FromKernel(ubo)},
     direct \in {{}} \cup {{a} : a \in Direct(ubo)},
     inner \in FromHelper(ubo),
     used \in {{}, {Pointer("param", Q)}}, noinline \in {FALSE, TRUE}} : ubo \in {{P}, {P, Q}}}

(* All call graphs of two kernels and three helpers that are not recursive, to
   see all orders of functions, rounds of inlining and of removal. *)
Graphs ==
  {[f \in 1..5 |->
     Fun(f <= 2, FALSE, IF f <= 2 THEN <<>> ELSE <<P, Q>>, IF f <= 2 THEN {} ELSE {P, Q},
         {Call(10 * f + g, g, IF f <= 2 THEN <<R1, R2>> ELSE <<Pointer("param", P), Pointer("param", P)>>) :
            g \in {h \in 3..5 : <<f, h>> \in edges}},
         IF f = 3 THEN {Access(1, Pointer("param", P))} ELSE {})] :
     edges \in {fromKernels \cup order : fromKernels \in {({1} \X a) \cup ({2} \X b) : a \in SUBSET (3..5), b \in {{}, {3}, {4}, {4, 5}}},
                order \in SUBSET {<<4, 3>>, <<5, 3>>, <<5, 4>>} \cup SUBSET {<<3, 4>>, <<5, 3>>, <<5, 4>>}
                                 \cup SUBSET {<<3, 4>>, <<3, 5>>, <<4, 5>>}}}

(* Two kernels, helper 4 and helper 3, which helper 4 and kernel 1 call: with an
   image and a sampler, that of a kernel or a literal one; and with a private
   pointer, that of a variable, of a part of it, or a selected one. *)
ParamP == Pointer("param", P)
ParamQ == Pointer("param", Q)
Literal == Pointer("literal", 1)
Variable == Pointer("alloca", 1)

ImageUses(n) ==
  {{}, {Use(n, "get_image_channel", <<ParamP>>)}, {Use(n, "read_image2d", <<ParamP, ParamQ>>)},
   {Use(n, "read_image3d", <<ParamP, ParamQ>>)}, {Use(n, "read_image3d", <<ParamP, Literal>>)}}

ImageReaders ==
  {[f \in 1..4 |->
     CASE f = 1 -> Kernel({Call(1, 4, <<R1, sampler>>)} \cup direct)
       [] f = 2 -> Kernel({Call(3, 4, <<R2, R3>>)})
       [] f = 3 -> Fun(FALSE, FALSE, <<P, Q>>, {}, {}, used3)
       [] f = 4 -> Fun(FALSE, FALSE, <<P, Q>>, {}, {Call(4, 3, <<ParamP, inner>>)}, used4)] :
     used3 \in ImageUses(10), used4 \in ImageUses(11), inner \in {ParamQ, Literal},
     sampler \in {R3, Literal}, direct \in {{}, {Call(2, 3, <<R2, R3>>)}}}

PrivateUses(n) ==
  {{}, {Access(n, With(ParamP, <<<<Zero, Dyn(1)>>>>))}, {Access(n, With(ParamP, <<<<Dyn(2)>>>>))},
   {Use(n, "kept", <<ParamP>>)}}

Privates ==
  {[f \in 1..4 |->
     CASE f = 1 -> Kernel({Call(1, 4, <<a>>)} \cup {Call(2, 3, <<v>>) : v \in direct})
       [] f = 2 -> Kernel({Call(3, 4, <<Variable>>)})
       [] f = 3 -> [Fun(FALSE, FALSE, <<P>>, {}, {}, used3) EXCEPT !.private = {P}]
       [] f = 4 -> [Fun(FALSE, FALSE, <<P>>, {}, {Call(4, 3, <<inner>>)}, used4) EXCEPT !.private = {P}]] :
     a \in {Variable, With(Variable, <<<<Zero, Const(1)>>>>), Selected}, direct \in {{}, {Variable}},
     inner \in {ParamP, With(ParamP, <<<<Zero, Zero>>>>), Pointer("alloca", 2)},
     used3 \in PrivateUses(10), used4 \in PrivateUses(11)}

MCPassPrograms == TwoLevels \cup Graphs \cup ImageReaders \cup Privates

MCPassOptions ==
  {[inlineEntryPoints |-> TRUE, inlineSingle |-> FALSE, direct |-> TRUE, uniform |-> TRUE]}
  \cup {[inlineEntryPoints |-> FALSE, inlineSingle |-> s, direct |-> ~s, uniform |-> TRUE] : s \in BOOLEAN}
  \cup {[inlineEntryPoints |-> FALSE, inlineSingle |-> FALSE, direct |-> FALSE, uniform |-> TRUE]}

------------------------------------------------------------------------------
NoSharing ==
  /\ program = [calls |-> [f \in Functions |-> {}],
                typeOf |-> [g \in Globals |-> CHOOSE t \in Types : TRUE],
                users |-> [g \in Globals |-> {}]]
  /\ Init
NoPasses ==
  /\ functions = <<>> /\ pass = <<>> /\ turn = 0 /\ source = <<>>
  /\ options = [inlineEntryPoints |-> FALSE, inlineSingle |-> FALSE, direct |-> FALSE, uniform |-> FALSE]
  /\ reverseEdges = {} /\ workList = <<>> /\ caller = 0 /\ callees = {} /\ result = <<>>
  /\ toInline = {} /\ candidates = <<>> /\ usersLeft = {} /\ localChanged = FALSE
IsPasses == functions # <<>>

NoImages ==
  /\ step = "none" /\ uses = {} /\ arg = 0 /\ pending = {} /\ visited = {} /\ visitedParams = {}
  /\ found = "none" /\ newType = "none" /\ toSpecialize = {} /\ remapped = {} /\ typeOf = <<>>
  /\ specializedImages = {} /\ declared = <<>> /\ signature = <<>>
IsImages == step # "none"

MCInit == \/ Init /\ NoPasses /\ NoImages
          \/ NoSharing /\ PassInit /\ NoImages
          \/ NoSharing /\ NoPasses /\ ImageInit
MCNext == \/ ~IsPasses /\ ~IsImages /\ Next /\ UNCHANGED <<passVars, imageVars>>
          \/ IsPasses /\ PassNext /\ UNCHANGED <<vars, imageVars>>
          \/ IsImages /\ ImageNext /\ UNCHANGED <<vars, passVars>>

MCVars == <<vars, passVars, imageVars>>

(* The passes are loops of one thread: it goes on as long as it can. *)
MCSpec == MCInit /\ [][MCNext]_MCVars /\ WF_MCVars(MCNext)
==============================================================================

----------------------- MODULE ShareModuleScopeVars -----------------------
(***************************************************************************)
(* ShareModuleScopeVariablesPass: __local variables of one type that no    *)
(* entry point uses together become one variable, to save workgroup        *)
(* memory.  The pass finds the entry points whose call tree reaches each   *)
(* function, then merges greedily, in module order.                        *)
(***************************************************************************)
EXTENDS Integers

CONSTANTS
    Functions,    \* the functions with a body
    Kernels,      \* those that are entry points
    NumGlobals,   \* the __local variables are 1..NumGlobals, in module order
    Types,
    Programs      \* the modules the pass may be given

Globals == 1..NumGlobals

\* calls[f]: the functions with a body that f calls.
\* users[g]: the functions with an instruction that uses g, be it through
\* constant expressions.
ASSUME ProgramsAssumption ==
    /\ NumGlobals \in Nat
    /\ Kernels \subseteq Functions
    /\ Programs \subseteq [calls : [Functions -> SUBSET Functions],
                           typeOf : [Globals -> Types],
                           users : [Globals -> SUBSET Functions]]

VARIABLES
    program,            \* the module as it comes in
    pc,
    toTrace,            \* pending calls of TraceFunction(function, entry point)
    entryPoints,        \* function_to_entry_points_
    users,              \* program.users, as replaceAllUsesWith changes it
    globalEntryPoints,  \* global_entry_points
    userFunctions,      \* user_functions
    global, next,       \* the two loops
    deadGlobals,        \* dead_globals
    erased,             \* the variables erased from the module
    mergedInto          \* history: the variable that stands for each one

vars == <<program, pc, toTrace, entryPoints, users, globalEntryPoints,
          userFunctions, global, next, deadGlobals, erased, mergedInto>>

TypeOK ==
    /\ program \in Programs
    /\ pc \in {"trace", "outer", "inner", "done"}
    /\ toTrace \subseteq Functions \X Kernels
    /\ entryPoints \in [Functions -> SUBSET Kernels]
    /\ users \in [Globals -> SUBSET Functions]
    /\ globalEntryPoints \in [Globals -> SUBSET Kernels]
    /\ userFunctions \subseteq Kernels
    /\ global \in 1..(NumGlobals + 1)
    /\ next \in 1..(NumGlobals + 1)
    /\ deadGlobals \subseteq Globals
    /\ erased \subseteq Globals
    /\ mergedInto \in [Globals -> Globals]

Init ==
    /\ program \in Programs
    /\ pc = "trace"
    /\ toTrace = {<<k, k>> : k \in Kernels}
    /\ entryPoints = [f \in Functions |-> {}]
    /\ users = program.users
    /\ globalEntryPoints = [g \in Globals |-> {}]
    /\ userFunctions = {}
    /\ global = 1
    /\ next = 1
    /\ deadGlobals = {}
    /\ erased = {}
    /\ mergedInto = [g \in Globals |-> g]

\* Wrong variant: a function some kernel reached is not traced again.
TraceFunction_OncePerFunction ==
    \E p \in toTrace :
        /\ pc = "trace"
        /\ p = CHOOSE q \in toTrace : TRUE
        /\ IF entryPoints[p[1]] # {}
           THEN /\ toTrace' = toTrace \ {p}
                /\ UNCHANGED entryPoints
           ELSE /\ toTrace' = (toTrace \ {p}) \cup (program.calls[p[1]] \X {p[2]})
                /\ entryPoints' = [entryPoints EXCEPT ![p[1]] = @ \cup {p[2]}]
        /\ UNCHANGED <<program, pc, users, globalEntryPoints, userFunctions,
                       global, next, deadGlobals, erased, mergedInto>>

(***************************************************************************)
(* One call of TraceFunction.  The order of the calls changes nothing: a   *)
(* call only adds its own entry point to its own function.                 *)
(***************************************************************************)
TraceFunction ==
    \E p \in toTrace :
        /\ pc = "trace"
        /\ p = CHOOSE q \in toTrace : TRUE
        /\ IF p[2] \in entryPoints[p[1]]
           THEN /\ toTrace' = toTrace \ {p}
                /\ UNCHANGED entryPoints
           ELSE /\ toTrace' = (toTrace \ {p}) \cup (program.calls[p[1]] \X {p[2]})
                /\ entryPoints' = [entryPoints EXCEPT ![p[1]] = @ \cup {p[2]}]
        /\ UNCHANGED <<program, pc, users, globalEntryPoints, userFunctions,
                       global, next, deadGlobals, erased, mergedInto>>

CollectUserEntryPoints ==
    /\ pc = "trace"
    /\ toTrace = {}
    /\ globalEntryPoints' =
           [g \in Globals |-> UNION {entryPoints[f] : f \in users[g]}]
    /\ pc' = "outer"
    /\ UNCHANGED <<program, toTrace, entryPoints, users, userFunctions,
                   global, next, deadGlobals, erased, mergedInto>>

\* Wrong variant: the inner loop starts one variable too late.
VisitGlobal_SkipNeighbour ==
    /\ pc = "outer"
    /\ global \in Globals
    /\ IF users[global] = {}
       THEN /\ global' = global + 1
            /\ UNCHANGED <<pc, userFunctions, next>>
       ELSE /\ userFunctions' = globalEntryPoints[global]
            /\ next' = global + 2
            /\ pc' = "inner"
            /\ UNCHANGED global
    /\ UNCHANGED <<program, toTrace, entryPoints, users, globalEntryPoints,
                   deadGlobals, erased, mergedInto>>

\* The head of the outer loop.
VisitGlobal ==
    /\ pc = "outer"
    /\ global \in Globals
    /\ IF users[global] = {}
       THEN /\ global' = global + 1
            /\ UNCHANGED <<pc, userFunctions, next>>
       ELSE /\ userFunctions' = globalEntryPoints[global]
            /\ next' = global + 1
            /\ pc' = "inner"
            /\ UNCHANGED global
    /\ UNCHANGED <<program, toTrace, entryPoints, users, globalEntryPoints,
                   deadGlobals, erased, mergedInto>>

HasSharedEntryPoints(others) == userFunctions \cap others # {}

\* Wrong variant: the type of the two variables is not compared.
CanShare_AnyType ==
    /\ users[next] # {}
    /\ ~HasSharedEntryPoints(globalEntryPoints[next])

CanShare ==
    /\ program.typeOf[global] = program.typeOf[next]
    /\ users[next] # {}
    /\ ~HasSharedEntryPoints(globalEntryPoints[next])

\* Wrong variants: the entry points of the merged variable are forgotten; its
\* users are added instead.
Merge_ForgetEntryPoints ==
    /\ users' = [users EXCEPT ![global] = @ \cup users[next], ![next] = {}]
    /\ userFunctions' = userFunctions
    /\ deadGlobals' = deadGlobals \cup {next}
    /\ mergedInto' = [g \in Globals |->
                         IF mergedInto[g] = next THEN global ELSE mergedInto[g]]

Merge_AddUsers ==
    /\ users' = [users EXCEPT ![global] = @ \cup users[next], ![next] = {}]
    /\ userFunctions' = userFunctions \cup users[next]
    /\ deadGlobals' = deadGlobals \cup {next}
    /\ mergedInto' = [g \in Globals |->
                         IF mergedInto[g] = next THEN global ELSE mergedInto[g]]

\* next->replaceAllUsesWith(global), and what follows from it.
Merge ==
    /\ users' = [users EXCEPT ![global] = @ \cup users[next], ![next] = {}]
    /\ userFunctions' = userFunctions \cup globalEntryPoints[next]
    /\ deadGlobals' = deadGlobals \cup {next}
    /\ mergedInto' = [g \in Globals |->
                         IF mergedInto[g] = next THEN global ELSE mergedInto[g]]

\* The body of the inner loop.
TryNext ==
    /\ pc = "inner"
    /\ next \in Globals
    /\ IF CanShare
       THEN Merge
       ELSE UNCHANGED <<users, userFunctions, deadGlobals, mergedInto>>
    /\ next' = next + 1
    /\ UNCHANGED <<program, pc, toTrace, entryPoints, globalEntryPoints,
                   global, erased>>

LeaveGlobal ==
    /\ pc = "inner"
    /\ next \notin Globals
    /\ global' = global + 1
    /\ pc' = "outer"
    /\ UNCHANGED <<program, toTrace, entryPoints, users, globalEntryPoints,
                   userFunctions, next, deadGlobals, erased, mergedInto>>

EraseDeadGlobals ==
    /\ pc = "outer"
    /\ global \notin Globals
    /\ erased' = deadGlobals
    /\ pc' = "done"
    /\ UNCHANGED <<program, toTrace, entryPoints, users, globalEntryPoints,
                   userFunctions, global, next, deadGlobals, mergedInto>>

Finished == pc = "done" /\ UNCHANGED vars

Next ==
    \/ TraceFunction
    \/ CollectUserEntryPoints
    \/ VisitGlobal
    \/ TryNext
    \/ LeaveGlobal
    \/ EraseDeadGlobals
    \/ Finished

Spec == Init /\ [][Next]_vars

-----------------------------------------------------------------------------

\* The functions that run when kernel k does: the least set that holds k and
\* is closed under calls.
Closed(S) == \A f \in S : program.calls[f] \subseteq S

CallTree(k) ==
    {f \in Functions : \A S \in SUBSET Functions : k \in S /\ Closed(S) => f \in S}

\* The variables that g stands for.
MergedWith(g) == {h \in Globals : mergedInto[h] = g}

\* The kernels that use variable g of the module as it came in.
UsingKernels(g) == {k \in Kernels : CallTree(k) \cap program.users[g] # {}}

(***************************************************************************)
(* Two variables one kernel uses never become the same variable, so no     *)
(* kernel finds one __local variable overwritten through another           *)
(* (ShareModuleScopeVariables.cpp:124).                                    *)
(***************************************************************************)
NoKernelSharesWithItself ==
    \A g, h \in Globals :
        g # h /\ mergedInto[g] = mergedInto[h] =>
            UsingKernels(g) \cap UsingKernels(h) = {}

(***************************************************************************)
(* A variable stands only for variables of its type, it is what all their  *)
(* users use now, and no user is left with a variable that is erased       *)
(* (lines 117, 130 and 143).                                               *)
(***************************************************************************)
UsersFollowTheirVariable ==
    /\ \A g \in Globals :
        /\ program.typeOf[mergedInto[g]] = program.typeOf[g]
        /\ users[g] = UNION {program.users[h] : h \in MergedWith(g)}
    /\ \A g \in erased : users[g] = {}

(***************************************************************************)
(* The pass leaves nothing to share: two variables of one type that are    *)
(* both in use when it ends have a kernel that uses both, or variables     *)
(* merged into both (the greedy loops of lines 97-140).                    *)
(***************************************************************************)
NothingLeftToShare ==
    pc = "done" =>
        \A g, h \in Globals :
            /\ g # h
            /\ program.typeOf[g] = program.typeOf[h]
            /\ users[g] # {} /\ users[h] # {}
            => \E i, j \in Globals :
                   /\ mergedInto[i] = g /\ mergedInto[j] = h
                   /\ UsingKernels(i) \cap UsingKernels(j) # {}

-----------------------------------------------------------------------------

\* What TraceFunction has not done yet is pending, and it has gone nowhere
\* but where calls lead.
Traced ==
    /\ \A p \in toTrace : p[1] \in CallTree(p[2])
    /\ \A f \in Functions : \A k \in entryPoints[f] : f \in CallTree(k)
    /\ \A k \in Kernels : k \in entryPoints[k] \/ <<k, k>> \in toTrace
    /\ \A f \in Functions : \A k \in entryPoints[f] : \A c \in program.calls[f] :
          k \in entryPoints[c] \/ <<c, k>> \in toTrace
    /\ pc # "trace" => toTrace = {}

Collected ==
    IF pc = "trace"
    THEN users = program.users /\ mergedInto = [g \in Globals |-> g]
    ELSE \A g \in Globals : globalEntryPoints[g] = UsingKernels(g)

\* Only the variables the outer loop has come to have taken in others, and
\* the entry points of what they took in are disjoint.
Merged ==
    /\ \A g \in Globals : users[g] # {} => mergedInto[g] = g
    /\ \A g \in Globals : mergedInto[g] # g =>
          mergedInto[g] < global \/ (pc = "inner" /\ mergedInto[g] = global)
    /\ pc # "trace" =>
          \A g, h \in Globals : g # h /\ mergedInto[g] = mergedInto[h] =>
              globalEntryPoints[g] \cap globalEntryPoints[h] = {}

InnerLoop ==
    pc = "inner" =>
        /\ global \in Globals
        /\ global < next
        /\ users[global] # {}
        /\ userFunctions = UNION {globalEntryPoints[h] : h \in MergedWith(global)}

\* Variables that g and h stand for are used by one kernel.
Clash(g, h) ==
    \E i \in MergedWith(g), j \in MergedWith(h) :
        globalEntryPoints[i] \cap globalEntryPoints[j] # {}

\* The loops have not shared g and h, which they have come by.
Tried ==
    /\ \A g, h \in Globals :
          /\ g < h
          /\ g < global \/ (pc = "inner" /\ g = global /\ h < next)
          /\ program.typeOf[g] = program.typeOf[h]
          /\ users[g] # {} /\ users[h] # {}
          => Clash(g, h)
    /\ pc = "trace" => global = 1
    /\ pc = "done" => global \notin Globals

DeadUnused ==
    /\ \A g \in deadGlobals : users[g] = {}
    /\ erased \subseteq deadGlobals

IInv ==
    /\ TypeOK
    /\ Traced
    /\ Collected
    /\ Merged
    /\ InnerLoop
    /\ Tried
    /\ DeadUnused
    /\ UsersFollowTheirVariable
=============================================================================

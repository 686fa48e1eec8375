---------------------------- MODULE KernelResourcesProofs ----------------------------
(***************************************************************************)
(* What kernels share.  ShareModuleScopeVariablesPass never gives one      *)
(* variable to two __local variables that a kernel uses, for every module. *)
(* SpecializeImageTypesPass, for any kernels, functions and uses of        *)
(* images: what is left when the search for the type of an image ends      *)
(* without one is a set that nothing leads out of and that no one reads,   *)
(* so that the image holds floats; and what the image is handed on to gets *)
(* the type the image holds.                                               *)
(***************************************************************************)
EXTENDS ShareModuleScopeVars, SpecializeImageTypes, TLAPS

LEMMA ProgramFacts ==
    ASSUME program \in Programs
    PROVE  /\ program.calls \in [Functions -> SUBSET Functions]
           /\ program.users \in [Globals -> SUBSET Functions]
BY ProgramsAssumption

\* When nothing is left to trace, the functions that know entry point k are
\* a closed set that holds k.
LEMMA CallTreeTraced ==
    ASSUME TypeOK, Traced, toTrace = {}, NEW k \in Kernels
    PROVE  \A f \in CallTree(k) : k \in entryPoints[f]
<1> DEFINE S == {f \in Functions : k \in entryPoints[f]}
<1>1. k \in S
  BY ProgramsAssumption DEF Traced
<1>2. Closed(S)
  <2> SUFFICES ASSUME NEW f \in S, NEW c \in program.calls[f]
               PROVE  c \in S
    BY DEF Closed
  <2>1. c \in Functions
    BY ProgramFacts DEF TypeOK
  <2> QED
    BY <2>1 DEF Traced
<1>3. S \in SUBSET Functions
  OBVIOUS
<1> QED
  BY <1>1, <1>2, <1>3 DEF CallTree

LEMMA CallTreeGrows ==
    ASSUME program \in Programs, NEW k \in Kernels
    PROVE  /\ k \in CallTree(k)
           /\ \A f \in CallTree(k) : program.calls[f] \subseteq CallTree(k)
<1>1. k \in CallTree(k)
  BY ProgramsAssumption DEF CallTree
<1>2. ASSUME NEW f \in CallTree(k), NEW c \in program.calls[f]
      PROVE  c \in CallTree(k)
  <2>1. f \in Functions /\ c \in Functions
    BY ProgramFacts DEF CallTree
  <2>2. ASSUME NEW S \in SUBSET Functions, k \in S, Closed(S) PROVE c \in S
    BY <2>2 DEF CallTree, Closed
  <2> QED
    BY <2>1, <2>2 DEF CallTree
<1> QED
  BY <1>1, <1>2

LEMMA CallTreeStays ==
    ASSUME UNCHANGED program
    PROVE  /\ \A k : CallTree(k)' = CallTree(k)
           /\ \A g : UsingKernels(g)' = UsingKernels(g)
<1>1. \A S : Closed(S)' <=> Closed(S)
  BY DEF Closed
<1>2. \A k : CallTree(k)' = CallTree(k)
  BY <1>1 DEF CallTree
<1> QED
  BY <1>2 DEF UsingKernels

LEMMA InitIInv == Init => IInv
<1> SUFFICES ASSUME Init PROVE IInv
  OBVIOUS
<1> USE DEF Init
<1>1. TypeOK
  BY ProgramFacts, ProgramsAssumption DEF TypeOK, Globals
<1>2. Traced
  <2>1. \A p \in toTrace : p[1] \in CallTree(p[2])
    BY CallTreeGrows
  <2> QED
    BY <2>1, ProgramsAssumption DEF Traced
<1>3. Collected
  BY DEF Collected
<1>4. Merged /\ InnerLoop /\ DeadUnused /\ Tried
  BY DEF Merged, InnerLoop, DeadUnused, Tried, Globals
<1>5. UsersFollowTheirVariable
  <2>1. \A g \in Globals : MergedWith(g) = {g}
    BY DEF MergedWith
  <2> QED
    BY <2>1, ProgramFacts DEF UsersFollowTheirVariable
<1> QED
  BY <1>1, <1>2, <1>3, <1>4, <1>5 DEF IInv

LEMMA TraceFunctionIInv == IInv /\ TraceFunction => IInv'
<1> SUFFICES ASSUME IInv, TraceFunction PROVE IInv'
  OBVIOUS
<1> USE DEF IInv
<1>1. PICK p \in toTrace :
        /\ pc = "trace"
        /\ IF p[2] \in entryPoints[p[1]]
           THEN /\ toTrace' = toTrace \ {p}
                /\ UNCHANGED entryPoints
           ELSE /\ toTrace' = (toTrace \ {p}) \cup (program.calls[p[1]] \X {p[2]})
                /\ entryPoints' = [entryPoints EXCEPT ![p[1]] = @ \cup {p[2]}]
        /\ UNCHANGED <<program, pc, users, globalEntryPoints, userFunctions,
                       global, next, deadGlobals, erased, mergedInto>>
  BY DEF TraceFunction
<1>2. PICK f \in Functions, k \in Kernels : p = <<f, k>>
  BY DEF TypeOK
<1>3. p[1] = f /\ p[2] = k
  BY <1>2
<1>4. program.calls[f] \subseteq Functions
  BY ProgramFacts DEF TypeOK
<1>5. TypeOK'
  BY <1>1, <1>3, <1>4 DEF TypeOK
<1>6. Traced'
  <2>1. ASSUME NEW g \in Functions, NEW e \in entryPoints[g]
        PROVE  e \in entryPoints'[g]
    BY <1>1, <1>3 DEF TypeOK
  <2>2. f \in Functions /\ k \in entryPoints'[f]
    BY <1>1, <1>3 DEF TypeOK
  <2>3. ASSUME NEW q \in toTrace, q # p PROVE q \in toTrace'
    BY <1>1, <2>3
  <2>4. ASSUME NEW e \in Kernels
        PROVE  e \in entryPoints'[e] \/ <<e, e>> \in toTrace'
    <3>1. CASE e \in entryPoints[e]
      BY <3>1, <2>1, ProgramsAssumption
    <3>2. CASE <<e, e>> \in toTrace /\ <<e, e>> # p
      BY <3>2, <2>3
    <3>3. CASE <<e, e>> = p
      BY <3>3, <1>2, <2>2
    <3> QED
      BY <3>1, <3>2, <3>3 DEF Traced
  <2>5. ASSUME NEW g \in Functions, NEW e \in entryPoints'[g],
               NEW c \in program.calls[g]
        PROVE  e \in entryPoints'[c] \/ <<c, e>> \in toTrace'
    <3>1. c \in Functions
      BY ProgramFacts DEF TypeOK
    <3>2. CASE e \in entryPoints[g]
      <4>1. CASE e \in entryPoints[c]
        BY <4>1, <3>1, <2>1
      <4>2. CASE <<c, e>> \in toTrace /\ <<c, e>> # p
        BY <4>2, <2>3
      <4>3. CASE <<c, e>> = p
        BY <4>3, <1>2, <2>2
      <4> QED
        BY <3>2, <4>1, <4>2, <4>3 DEF Traced
    <3>3. CASE e \notin entryPoints[g]
      <4>1. k \notin entryPoints[f] /\ g = f /\ e = k
        BY <3>3, <1>1, <1>3 DEF TypeOK
      <4> QED
        BY <4>1, <1>1, <1>3
    <3> QED
      BY <3>2, <3>3
  <2>6. ASSUME NEW q \in toTrace' PROVE q[1] \in CallTree(q[2])
    <3>1. CASE q \in toTrace
      BY <3>1 DEF Traced
    <3>2. CASE q \notin toTrace
      <4>1. PICK c \in program.calls[f] : q = <<c, k>>
        BY <3>2, <1>1, <1>3
      <4>2. f \in CallTree(k)
        BY <1>1, <1>3 DEF Traced
      <4>3. c \in CallTree(k)
        BY <4>1, <4>2, CallTreeGrows DEF TypeOK
      <4> QED
        BY <4>1, <4>3
    <3> QED
      BY <3>1, <3>2
  <2>7. ASSUME NEW g \in Functions, NEW e \in entryPoints'[g]
        PROVE  g \in CallTree(e)
    <3>1. CASE e \in entryPoints[g]
      BY <3>1 DEF Traced
    <3>2. CASE e \notin entryPoints[g]
      <4>1. g = f /\ e = k
        BY <3>2, <2>7, <1>1, <1>3 DEF TypeOK
      <4> QED
        BY <4>1, <1>1, <1>3 DEF Traced
    <3> QED
      BY <3>1, <3>2
  <2> QED
    BY <2>4, <2>5, <2>6, <2>7, <1>1, CallTreeStays DEF Traced
<1>7. Collected'
  BY <1>1 DEF Collected
<1>8. Merged' /\ InnerLoop' /\ DeadUnused' /\ Tried'
  <2>1. Merged' /\ InnerLoop' /\ DeadUnused'
    BY <1>1 DEF Merged, InnerLoop, DeadUnused
  <2>2. Tried'
    BY <1>1 DEF Tried, Clash, MergedWith, Globals
  <2> QED
    BY <2>1, <2>2
<1>9. UsersFollowTheirVariable'
  BY <1>1 DEF UsersFollowTheirVariable, MergedWith
<1> QED
  BY <1>5, <1>6, <1>7, <1>8, <1>9

LEMMA CollectIInv == IInv /\ CollectUserEntryPoints => IInv'
<1> SUFFICES ASSUME IInv, CollectUserEntryPoints PROVE IInv'
  OBVIOUS
<1> USE DEF IInv, CollectUserEntryPoints
<1>1. users \in [Globals -> SUBSET Functions]
  BY DEF TypeOK
<1>2. \A g \in Globals : globalEntryPoints'[g] \subseteq Kernels
  BY <1>1 DEF TypeOK
<1>3. TypeOK'
  BY <1>2 DEF TypeOK
<1>4. Traced'
  BY CallTreeStays DEF Traced
<1>5. Collected'
  <2>1. ASSUME NEW g \in Globals
        PROVE  globalEntryPoints'[g] = UsingKernels(g)
    <3>1. globalEntryPoints'[g] = UNION {entryPoints[f] : f \in program.users[g]}
      BY DEF Collected
    <3>2. program.users[g] \subseteq Functions
      BY ProgramFacts DEF TypeOK
    <3>3. \A f \in Functions : entryPoints[f] = {k \in Kernels : f \in CallTree(k)}
      BY CallTreeTraced DEF Traced, TypeOK
    <3> QED
      BY <3>1, <3>2, <3>3 DEF UsingKernels
  <2> QED
    BY <2>1, CallTreeStays DEF Collected
<1>6. Merged'
  BY DEF Merged, Collected
<1>7. InnerLoop' /\ DeadUnused' /\ Tried'
  BY DEF InnerLoop, DeadUnused, Tried, Globals
<1>8. UsersFollowTheirVariable'
  BY DEF UsersFollowTheirVariable, MergedWith
<1> QED
  BY <1>3, <1>4, <1>5, <1>6, <1>7, <1>8

\* The steps that only move the loops on.
LEMMA LoopIInv ==
    ASSUME IInv, VisitGlobal \/ LeaveGlobal \/ EraseDeadGlobals
    PROVE  IInv'
<1> USE DEF IInv
<1>1. UNCHANGED <<program, toTrace, entryPoints, users, globalEntryPoints,
                  deadGlobals, mergedInto>>
      /\ pc # "trace" /\ pc' # "trace"
  BY DEF VisitGlobal, LeaveGlobal, EraseDeadGlobals
<1>2. TypeOK'
  <2>1. global' \in 1..(NumGlobals + 1) /\ next' \in 1..(NumGlobals + 1)
    <3>1. CASE VisitGlobal
      BY <3>1, ProgramsAssumption DEF TypeOK, VisitGlobal, Globals
    <3>2. CASE LeaveGlobal
      <4>1. global \in Globals
        BY <3>2 DEF LeaveGlobal, InnerLoop
      <4> QED
        BY <3>2, <4>1, ProgramsAssumption DEF TypeOK, LeaveGlobal, Globals
    <3>3. CASE EraseDeadGlobals
      BY <3>3 DEF TypeOK, EraseDeadGlobals
    <3> QED
      BY <3>1, <3>2, <3>3
  <2>2. /\ pc' \in {"trace", "outer", "inner", "done"}
        /\ userFunctions' \subseteq Kernels
        /\ erased' \subseteq Globals
    BY DEF TypeOK, VisitGlobal, LeaveGlobal, EraseDeadGlobals
  <2> QED
    BY <1>1, <2>1, <2>2 DEF TypeOK
<1>3. Traced'
  BY <1>1, CallTreeStays DEF Traced
<1>4. Collected'
  BY <1>1, CallTreeStays DEF Collected
<1>5. Merged'
  <2>1. ASSUME NEW g \in Globals, mergedInto[g] # g
        PROVE  mergedInto[g] < global' \/ (pc' = "inner" /\ mergedInto[g] = global')
    <3>1. mergedInto[g] \in Int /\ global \in Int
      BY DEF TypeOK, Globals
    <3>2. mergedInto[g] < global \/ (pc = "inner" /\ mergedInto[g] = global)
      BY <2>1 DEF Merged
    <3>3. CASE VisitGlobal
      BY <3>1, <3>2, <3>3 DEF VisitGlobal
    <3>4. CASE LeaveGlobal
      BY <3>1, <3>2, <3>4 DEF LeaveGlobal
    <3>5. CASE EraseDeadGlobals
      BY <3>1, <3>2, <3>5 DEF EraseDeadGlobals
    <3> QED
      BY <3>3, <3>4, <3>5
  <2> QED
    BY <1>1, <2>1 DEF Merged
<1>6. InnerLoop'
  <2>1. CASE VisitGlobal /\ users[global] # {}
    <3>1. pc' = "inner" /\ global' = global /\ next' = global + 1
          /\ userFunctions' = globalEntryPoints[global] /\ global \in Globals
      BY <2>1 DEF VisitGlobal
    <3>2. MergedWith(global)' = {global}
      <4>1. mergedInto[global] = global
        BY <2>1, <3>1 DEF Merged
      <4>2. ASSUME NEW h \in Globals, mergedInto[h] = global PROVE h = global
        <5>1. SUFFICES ASSUME h # global PROVE FALSE
          OBVIOUS
        <5>2. mergedInto[h] < global
          BY <5>1, <4>2, <2>1 DEF Merged, VisitGlobal
        <5> QED
          BY <5>2, <4>2, <3>1 DEF Globals
      <4> QED
        BY <3>1, <1>1, <4>1, <4>2 DEF MergedWith
    <3>3. global < next'
      BY <3>1 DEF Globals
    <3> QED
      BY <3>1, <3>2, <3>3, <1>1, <2>1 DEF InnerLoop
  <2>2. CASE ~(VisitGlobal /\ users[global] # {})
    <3>1. pc' # "inner"
      BY <2>2 DEF VisitGlobal, LeaveGlobal, EraseDeadGlobals
    <3> QED
      BY <3>1 DEF InnerLoop
  <2> QED
    BY <2>1, <2>2
<1>7. DeadUnused'
  BY <1>1 DEF DeadUnused, VisitGlobal, LeaveGlobal, EraseDeadGlobals
<1>8. UsersFollowTheirVariable'
  <2>1. erased' = erased \/ erased' = deadGlobals
    BY DEF VisitGlobal, LeaveGlobal, EraseDeadGlobals
  <2>2. \A g \in erased' : users[g] = {}
    BY <2>1 DEF DeadUnused
  <2> QED
    BY <1>1, <2>2 DEF UsersFollowTheirVariable, MergedWith
<1>9. Tried'
  <2>1. \A g, h \in Globals : Clash(g, h)' <=> Clash(g, h)
    BY <1>1 DEF Clash, MergedWith
  <2>2. global \in Int /\ next \in Int /\ \A g \in Globals : g \in Int
    BY DEF TypeOK, Globals
  <2>3. ASSUME NEW g \in Globals, NEW h \in Globals, g < h,
               g < global' \/ (pc' = "inner" /\ g = global' /\ h < next'),
               users[g] # {}
        PROVE  g < global \/ (pc = "inner" /\ g = global /\ h < next)
    <3>1. CASE VisitGlobal
      BY <3>1, <2>2, <2>3 DEF VisitGlobal
    <3>2. CASE LeaveGlobal
      <4>1. h < next
        <5>1. next \in 1..(NumGlobals + 1) /\ next \notin 1..NumGlobals
          BY <3>2 DEF LeaveGlobal, TypeOK, Globals
        <5> QED
          BY <5>1, ProgramsAssumption DEF Globals
      <4> QED
        BY <3>2, <4>1, <2>2, <2>3 DEF LeaveGlobal
    <3>3. CASE EraseDeadGlobals
      BY <3>3, <2>3 DEF EraseDeadGlobals
    <3> QED
      BY <3>1, <3>2, <3>3
  <2>4. pc' = "done" => global' \notin Globals
    BY DEF VisitGlobal, LeaveGlobal, EraseDeadGlobals
  <2> QED
    BY <1>1, <2>1, <2>3, <2>4 DEF Tried
<1> QED
  BY <1>2, <1>3, <1>4, <1>5, <1>6, <1>7, <1>8, <1>9

\* A merge gives the users of next, which stands for itself alone, to global.
LEMMA MergeIInv ==
    ASSUME IInv, TryNext, CanShare
    PROVE  IInv'
<1> USE DEF IInv
<1>1. /\ pc = "inner" /\ pc' = pc
      /\ next \in Globals /\ next' = next + 1
      /\ UNCHANGED <<program, toTrace, entryPoints, globalEntryPoints,
                     global, erased>>
      /\ Merge
      /\ program.typeOf[global] = program.typeOf[next]
      /\ users[next] # {}
      /\ userFunctions \cap globalEntryPoints[next] = {}
  BY DEF TryNext, CanShare, HasSharedEntryPoints
<1>2. global \in Globals /\ global < next /\ users[global] # {}
      /\ userFunctions = UNION {globalEntryPoints[h] : h \in MergedWith(global)}
  BY <1>1 DEF InnerLoop
<1>3. global # next
  BY <1>1, <1>2 DEF Globals
<1>4. mergedInto[global] = global /\ mergedInto[next] = next
  BY <1>1, <1>2 DEF Merged
<1>5. ASSUME NEW h \in Globals, mergedInto[h] = next PROVE h = next
  <2>1. SUFFICES ASSUME h # next PROVE FALSE
    OBVIOUS
  <2>2. next <= global
    BY <2>1, <1>5, <1>1, <1>2 DEF Merged, Globals
  <2> QED
    BY <2>2, <1>1, <1>2 DEF Globals
<1>6. /\ mergedInto'[next] = global
      /\ \A h \in Globals : h # next => mergedInto'[h] = mergedInto[h]
  BY <1>1, <1>4, <1>5 DEF Merge
<1>7. /\ users'[next] = {}
      /\ users'[global] = users[global] \cup users[next]
      /\ \A h \in Globals : h # next /\ h # global => users'[h] = users[h]
  BY <1>1, <1>2, <1>3 DEF Merge, TypeOK
<1>8. TypeOK'
  <2>1. users' \in [Globals -> SUBSET Functions]
    BY <1>1 DEF Merge, TypeOK
  <2>2. mergedInto' \in [Globals -> Globals]
    BY <1>1, <1>2 DEF Merge, TypeOK
  <2>3. next' \in 1..(NumGlobals + 1)
    BY <1>1, ProgramsAssumption DEF Globals
  <2>4. userFunctions' \subseteq Kernels /\ deadGlobals' \subseteq Globals
    BY <1>1 DEF Merge, TypeOK
  <2> QED
    BY <1>1, <2>1, <2>2, <2>3, <2>4 DEF TypeOK
<1>9. Traced'
  BY <1>1, CallTreeStays DEF Traced
<1>10. Collected'
  BY <1>1, CallTreeStays DEF Collected
<1>11. Merged'
  <2>1. ASSUME NEW g \in Globals, users'[g] # {} PROVE mergedInto'[g] = g
    BY <2>1, <1>2, <1>3, <1>4, <1>6, <1>7 DEF Merged
  <2>2. ASSUME NEW g \in Globals, mergedInto'[g] # g
        PROVE  mergedInto'[g] < global \/ mergedInto'[g] = global
    BY <2>2, <1>1, <1>6 DEF Merged
  <2>3. ASSUME NEW g \in Globals, g # next, mergedInto'[g] = global
        PROVE  globalEntryPoints[g] \cap globalEntryPoints[next] = {}
    <3>1. g \in MergedWith(global)
      BY <2>3, <1>6 DEF MergedWith
    <3> QED
      BY <3>1, <1>1, <1>2
  <2>4. ASSUME NEW g \in Globals, NEW h \in Globals, g # h,
               mergedInto'[g] = mergedInto'[h]
        PROVE  globalEntryPoints[g] \cap globalEntryPoints[h] = {}
    <3>1. CASE g = next
      BY <3>1, <2>3, <2>4, <1>6
    <3>2. CASE h = next
      BY <3>2, <2>3, <2>4, <1>6
    <3>3. CASE g # next /\ h # next
      BY <3>3, <2>4, <1>1, <1>6 DEF Merged
    <3> QED
      BY <3>1, <3>2, <3>3
  <2> QED
    BY <2>1, <2>2, <2>4, <1>1 DEF Merged
<1>12. MergedWith(global)' = MergedWith(global) \cup {next}
  BY <1>1, <1>6 DEF MergedWith
<1>13. InnerLoop'
  <2>1. userFunctions' = UNION {globalEntryPoints[h] :
                                   h \in MergedWith(global) \cup {next}}
    BY <1>1, <1>2 DEF Merge
  <2>2. global < next'
    BY <1>1, <1>2 DEF Globals
  <2> QED
    BY <1>1, <1>2, <1>7, <1>12, <2>1, <2>2 DEF InnerLoop
<1>14. DeadUnused'
  <2>1. deadGlobals' = deadGlobals \cup {next}
    BY <1>1 DEF Merge
  <2>2. global \notin deadGlobals
    BY <1>2 DEF DeadUnused
  <2>3. deadGlobals \subseteq Globals
    BY DEF TypeOK
  <2> QED
    BY <1>1, <1>7, <2>1, <2>2, <2>3 DEF DeadUnused
<1>15. UsersFollowTheirVariable'
  <2>1. ASSUME NEW g \in Globals
        PROVE  program.typeOf[mergedInto'[g]] = program.typeOf[g]
    BY <1>1, <1>6 DEF UsersFollowTheirVariable
  <2>2. ASSUME NEW g \in Globals
        PROVE  users'[g] = UNION {program.users[h] : h \in MergedWith(g)'}
    <3>1. CASE g = next
      <4>1. MergedWith(g)' = {}
        BY <3>1, <1>1, <1>3, <1>5, <1>6 DEF MergedWith
      <4>2. UNION {program.users[h] : h \in {}} = {}
        OBVIOUS
      <4> QED
        BY <3>1, <4>1, <4>2, <1>1, <1>7
    <3>2. CASE g = global
      <4>1. users[global] = UNION {program.users[h] : h \in MergedWith(global)}
        BY <1>2 DEF UsersFollowTheirVariable
      <4>2. MergedWith(next) = {next}
        BY <1>1, <1>4, <1>5 DEF MergedWith
      <4>3. users[next] = UNION {program.users[h] : h \in MergedWith(next)}
        BY <1>1 DEF UsersFollowTheirVariable
      <4>4. users[next] = program.users[next]
        BY <4>2, <4>3
      <4>5. MergedWith(g)' = MergedWith(global) \cup {next}
        BY <3>2, <1>1, <1>6 DEF MergedWith
      <4>6. users'[g] = users[global] \cup users[next]
        BY <3>2, <1>7
      <4> QED
        BY <4>1, <4>4, <4>5, <4>6
    <3>3. CASE g # next /\ g # global
      <4>1. MergedWith(g)' = MergedWith(g)
        BY <3>3, <1>4, <1>6 DEF MergedWith
      <4> QED
        BY <3>3, <4>1, <1>7 DEF UsersFollowTheirVariable
    <3> QED
      BY <3>1, <3>2, <3>3
  <2>3. \A g \in erased' : users'[g] = {}
    BY <1>1, <1>14 DEF DeadUnused
  <2> QED
    BY <1>1, <2>1, <2>2, <2>3 DEF UsersFollowTheirVariable
<1>16. Tried'
  <2>1. ASSUME NEW g \in Globals, g # next
        PROVE  MergedWith(g) \subseteq MergedWith(g)'
    BY <2>1, <1>4, <1>6 DEF MergedWith
  <2>2. ASSUME NEW g \in Globals, NEW h \in Globals, g < h,
               g < global \/ (pc = "inner" /\ g = global /\ h < next'),
               program.typeOf[g] = program.typeOf[h],
               users'[g] # {}, users'[h] # {}
        PROVE  Clash(g, h)'
    <3>1. g # next /\ h # next
      BY <2>2, <1>7
    <3>2. users[g] # {} /\ users[h] # {}
      BY <2>2, <3>1, <1>2, <1>7
    <3>3. g < global \/ (pc = "inner" /\ g = global /\ h < next)
      BY <2>2, <3>1, <1>1 DEF Globals
    <3>4. Clash(g, h)
      BY <2>2, <3>2, <3>3 DEF Tried
    <3> QED
      BY <3>1, <3>4, <2>1, <1>1 DEF Clash
  <2> QED
    BY <2>2, <1>1 DEF Tried
<1> QED
  BY <1>8, <1>9, <1>10, <1>11, <1>13, <1>14, <1>15, <1>16

LEMMA NoMergeIInv ==
    ASSUME IInv, TryNext, ~CanShare
    PROVE  IInv'
<1> USE DEF IInv
<1>1. /\ pc = "inner" /\ next \in Globals /\ next' = next + 1
      /\ UNCHANGED <<program, pc, toTrace, entryPoints, users, globalEntryPoints,
                     userFunctions, global, deadGlobals, erased, mergedInto>>
  BY DEF TryNext
<1>2. TypeOK'
  BY <1>1, ProgramsAssumption DEF TypeOK, Globals
<1>3. Traced' /\ Merged' /\ DeadUnused'
  BY <1>1, CallTreeStays DEF Traced, Merged, DeadUnused
<1>4. Collected'
  BY <1>1, CallTreeStays DEF Collected
<1>5. InnerLoop' /\ UsersFollowTheirVariable'
  BY <1>1 DEF InnerLoop, UsersFollowTheirVariable, MergedWith, Globals
\* What is not shared has a reason, and that becomes one of the pairs tried.
<1>6. Tried'
  <2>1. \A g, h \in Globals : Clash(g, h)' <=> Clash(g, h)
    BY <1>1 DEF Clash, MergedWith
  <2>2. ASSUME program.typeOf[global] = program.typeOf[next], users[next] # {}
        PROVE  Clash(global, next)
    <3>1. userFunctions \cap globalEntryPoints[next] # {}
      BY <2>2 DEF CanShare, HasSharedEntryPoints
    <3>2. PICK i \in MergedWith(global) :
              globalEntryPoints[i] \cap globalEntryPoints[next] # {}
      BY <3>1, <1>1 DEF InnerLoop
    <3>3. next \in MergedWith(next)
      BY <2>2, <1>1 DEF Merged, MergedWith
    <3> QED
      BY <3>2, <3>3 DEF Clash
  <2>3. ASSUME NEW g \in Globals, NEW h \in Globals, g < h,
               g < global \/ (pc = "inner" /\ g = global /\ h < next'),
               program.typeOf[g] = program.typeOf[h],
               users[g] # {}, users[h] # {}
        PROVE  Clash(g, h)
    <3>1. CASE g = global /\ h = next
      BY <3>1, <2>2, <2>3
    <3>2. CASE ~(g = global /\ h = next)
      <4>1. g < global \/ (pc = "inner" /\ g = global /\ h < next)
        BY <3>2, <2>3, <1>1 DEF Globals
      <4> QED
        BY <4>1, <2>3 DEF Tried
    <3> QED
      BY <3>1, <3>2
  <2> QED
    BY <1>1, <2>1, <2>3 DEF Tried
<1> QED
  BY <1>2, <1>3, <1>4, <1>5, <1>6

LEMMA NextIInv == IInv /\ [Next]_vars => IInv'
<1> SUFFICES ASSUME IInv, [Next]_vars PROVE IInv'
  OBVIOUS
<1>1. CASE TraceFunction
  BY <1>1, TraceFunctionIInv
<1>2. CASE CollectUserEntryPoints
  BY <1>2, CollectIInv
<1>3. CASE VisitGlobal \/ LeaveGlobal \/ EraseDeadGlobals
  BY <1>3, LoopIInv
<1>4. CASE TryNext
  BY <1>4, MergeIInv, NoMergeIInv
<1>5. CASE UNCHANGED vars
  <2>1. /\ TypeOK' /\ Traced' /\ Collected'
        /\ Merged' /\ InnerLoop' /\ DeadUnused' /\ UsersFollowTheirVariable'
    BY <1>5, CallTreeStays DEF vars, IInv, TypeOK, Traced, Collected, Merged,
       InnerLoop, DeadUnused, UsersFollowTheirVariable, MergedWith
  <2>2. Tried'
    BY <1>5 DEF vars, IInv, Tried, Clash, MergedWith
  <2> QED
    BY <2>1, <2>2 DEF IInv
<1> QED
  BY <1>1, <1>2, <1>3, <1>4, <1>5 DEF Next, Finished

(***************************************************************************)
(* The inductive invariant holds of every reachable state of the pass.     *)
(***************************************************************************)
THEOREM SharingInvariant == Spec => []IInv
BY InitIInv, NextIInv, PTL DEF Spec

(***************************************************************************)
(* No module makes ShareModuleScopeVariablesPass give two __local          *)
(* variables that one kernel uses the same storage.                        *)
(***************************************************************************)
THEOREM SharingIsSafe == Spec => []NoKernelSharesWithItself
<1>1. IInv => NoKernelSharesWithItself
  <2> SUFFICES ASSUME IInv, NEW g \in Globals, NEW h \in Globals,
                      g # h, mergedInto[g] = mergedInto[h]
               PROVE  UsingKernels(g) \cap UsingKernels(h) = {}
    BY DEF NoKernelSharesWithItself
  <2>1. CASE pc = "trace"
    BY <2>1 DEF IInv, Collected
  <2>2. CASE pc # "trace"
    BY <2>2 DEF IInv, Collected, Merged
  <2> QED
    BY <2>1, <2>2
<1> QED
  BY <1>1, SharingInvariant, PTL

(***************************************************************************)
(* The users of a variable end up with a variable of its type that is      *)
(* still in the module.                                                    *)
(***************************************************************************)
THEOREM UsersKeepAVariable == Spec => []UsersFollowTheirVariable
<1>1. IInv => UsersFollowTheirVariable
  BY DEF IInv
<1> QED
  BY <1>1, SharingInvariant, PTL

(***************************************************************************)
(* The greedy loops miss nothing: of two variables of one type that are    *)
(* still in use when the pass ends, some kernel uses both, through the     *)
(* variables they stand for.                                               *)
(***************************************************************************)
THEOREM SharingIsThorough == Spec => []NothingLeftToShare
<1>1. ASSUME IInv, pc = "done", NEW g \in Globals, NEW h \in Globals, g < h,
             program.typeOf[g] = program.typeOf[h], users[g] # {}, users[h] # {}
      PROVE  \E i, j \in Globals : /\ mergedInto[i] = g /\ mergedInto[j] = h
                                   /\ UsingKernels(i) \cap UsingKernels(j) # {}
  <2>1. g < global
    <3>1. global \in 1..(NumGlobals + 1) /\ global \notin 1..NumGlobals
      BY <1>1 DEF IInv, Tried, TypeOK, Globals
    <3> QED
      BY <3>1, ProgramsAssumption DEF Globals
  <2>2. Clash(g, h)
    BY <1>1, <2>1 DEF IInv, Tried
  <2> QED
    BY <1>1, <2>2 DEF Clash, MergedWith, IInv, Collected
<1>2. IInv => NothingLeftToShare
  <2> SUFFICES ASSUME IInv, pc = "done", NEW g \in Globals, NEW h \in Globals,
                      g # h, program.typeOf[g] = program.typeOf[h],
                      users[g] # {}, users[h] # {}
               PROVE  \E i, j \in Globals :
                          /\ mergedInto[i] = g /\ mergedInto[j] = h
                          /\ UsingKernels(i) \cap UsingKernels(j) # {}
    BY DEF NothingLeftToShare
  <2>1. g < h \/ h < g
    BY DEF Globals
  <2>2. CASE g < h
    BY <2>2, <1>1
  <2>3. CASE h < g
    <3>1. PICK i, j \in Globals : /\ mergedInto[i] = h /\ mergedInto[j] = g
                                  /\ UsingKernels(i) \cap UsingKernels(j) # {}
      BY <2>3, <1>1
    <3> QED
      BY <3>1
  <2> QED
    BY <2>1, <2>2, <2>3
<1> QED
  BY <1>2, SharingInvariant, PTL

--------------------------------------------------------------------------------
LEMMA UseFacts ==
    ASSUME uses \in ImagePrograms
    PROVE  \A u \in uses : /\ u.image \in ImageArgs
                           /\ u.call \in Calls
                           /\ u.kind \in Components \cup {"query", "call"}
                           /\ u.kind = "call" => u.param \in Params /\ u.param \in ImageArgs
                           /\ \A v \in uses : u.call = v.call /\ u.kind # "call" => u = v
  BY ImageProgramsAssumption DEF ImageArgs

LEMMA ContentsFacts ==
    ASSUME NEW p, NEW holds \in Contents(p)
    PROVE  /\ holds \in [ImageArgs -> Components]
           /\ \A u \in p : /\ u.kind = "call" => holds[u.param] = holds[u.image]
                           /\ u.kind \in Components => holds[u.image] = u.kind
           /\ \A a \in KernelArgs :
                 \/ IsMet(p, a, Components)
                 \/ /\ holds[a] = "float"
                    /\ IsMet(p, a, {"query"}) \/ \A u \in p : u.image # a
  BY DEF Contents, IsContents

LEMMA KindFacts == "void" \notin Components /\ "query" \notin Components /\ "call" \notin Components
                     /\ "float" \in Components
  BY DEF Components

(***************************************************************************)
(* A search that ends without a type has found that there is none to find  *)
(* (the image was queried, or has no use at all), if the program is one    *)
(* whose contents can be told.                                             *)
(***************************************************************************)
LEMMA SearchFindsTheRest ==
    ASSUME ImageIInv, step = "remap", pending = {}, IsReadAlike(uses),
           NEW holds \in Contents(uses)
    PROVE  found = "kNotSpecialized" /\ holds[arg] = "float"
<1>. USE DEF ImageIInv
<1>1. arg \in KernelArgs /\ Seen \subseteq ImageArgs
  BY DEF ImageTypeOK, Seen, ImageArgs
<1>2. PICK S \in SUBSET ImageArgs :
         /\ arg \in S
         /\ IsClosed(uses, S)
         /\ \A u, v \in uses : u.image \in S /\ v.image \in S /\ u.call = v.call => u = v
  BY <1>1 DEF IsReadAlike, IsHandedOnce
<1>3. Seen \subseteq S
  BY <1>2 DEF SearchIsThorough
<1>4. ASSUME NEW u \in uses, u.image \in Seen PROVE WasLookedAt(u)
  <2>1. u.call \in visited
    BY <1>4 DEF SearchIsThorough
  <2>2. PICK v \in uses : v.call = u.call /\ v.image \in Seen /\ WasLookedAt(v)
    BY <2>1 DEF SearchIsThorough
  <2>3. u = v
    BY <1>2, <1>3, <1>4, <2>2
  <2>. QED  BY <2>2, <2>3
<1>5. IsClosed(uses, Seen)
  BY <1>4 DEF IsClosed, WasLookedAt, Seen
<1>6. arg \in Seen
  BY DEF Seen
<1>7. ~ IsMet(uses, arg, Components)
  BY <1>1, <1>4, <1>5, <1>6 DEF IsMet, WasLookedAt
<1>8. /\ holds[arg] = "float"
      /\ IsMet(uses, arg, {"query"}) \/ \A u \in uses : u.image # arg
  BY <1>1, <1>7, ContentsFacts
<1>9. CASE IsMet(uses, arg, {"query"})
  <2>1. PICK u \in uses : u.image \in Seen /\ u.kind \in {"query"}
    BY <1>1, <1>5, <1>6, <1>9 DEF IsMet
  <2>. QED  BY <1>4, <1>8, <2>1 DEF WasLookedAt
<1>10. CASE \A u \in uses : u.image # arg
  BY <1>8, <1>10 DEF SearchIsThorough, UsesOf
<1>. QED  BY <1>8, <1>9, <1>10

-------------------------------------------------------------------------------
LEMMA ImageInitInv == ImageInit => ImageIInv
<1>. SUFFICES ASSUME ImageInit PROVE ImageIInv
  OBVIOUS
<1>. USE DEF ImageInit
<1>1. ImageTypeOK
  BY ImageProgramsAssumption DEF ImageTypeOK, ImageTypes, KernelArgs
<1>2. SearchIsThorough /\ SeenHoldsTheSame
  BY DEF SearchIsThorough, SeenHoldsTheSame
<1>3. TypesAreContents /\ TypesAreHandedOn
  BY DEF TypesAreContents, TypesAreHandedOn
<1>4. ArgsAreSpecialized
  BY DEF ArgsAreSpecialized, KernelArgs
<1>. QED  BY <1>1, <1>2, <1>3, <1>4 DEF ImageIInv

LEMMA ImageTypeStep == ImageIInv /\ [ImageNext]_imageVars => ImageTypeOK'
<1>. SUFFICES ASSUME ImageIInv, [ImageNext]_imageVars PROVE ImageTypeOK'
  OBVIOUS
<1>. USE UseFacts, ImageProgramsAssumption DEF ImageIInv, ImageTypeOK
<1>1. CASE RemapType
  BY <1>1 DEF RemapType, StartRemap, UsesOf
<1>2. CASE RemapUse
  <2>1. PICK u \in pending : SkipVisited(u) \/ EnterCallee(u) \/ MeetQuery(u) \/ MeetType(u)
    BY <1>2 DEF RemapUse
  <2>. USE <1>2, <2>1 DEF RemapUse
  <2>2. CASE SkipVisited(u)
    BY <2>2 DEF SkipVisited
  <2>3. CASE EnterCallee(u)
    BY <2>3 DEF EnterCallee, UsesOf
  <2>4. CASE MeetQuery(u)
    BY <2>4 DEF MeetQuery
  <2>5. CASE MeetType(u)
    <3>1. arg \in ImageArgs
      BY DEF ImageArgs
    <3>2. (IF IsSpecialized(u.image) THEN typeOf[u.image] ELSE u.kind) \in Components
      BY <2>5 DEF MeetType, IsSpecialized
    <3>. QED  BY <2>5, <3>1, <3>2 DEF MeetType, Specialize, ImageTypes
  <2>. QED  BY <2>1, <2>2, <2>3, <2>4, <2>5
<1>3. CASE EndRemap
  <2>1. CASE found = "kNotSpecialized"
    <3>1. arg \in ImageArgs
      BY <1>3 DEF EndRemap, ImageArgs
    <3>. QED  BY <1>3, <2>1, <3>1, KindFacts DEF EndRemap, Specialize, ImageTypes
  <2>2. CASE found # "kNotSpecialized"
    BY <1>3, <2>2 DEF EndRemap, KernelArgs
  <2>. QED  BY <2>1, <2>2
<1>4. CASE SpecializeArg
  BY <1>4 DEF SpecializeArg, ReplaceImageBuiltin, HandedTo, UsesOf
<1>5. CASE EndArg
  BY <1>5 DEF EndArg, KernelArgs
<1>6. CASE RewriteFunctions
  BY <1>6 DEF RewriteFunctions, RewriteFunction
<1>7. CASE Specialized \/ UNCHANGED imageVars
  BY <1>7 DEF Specialized, imageVars
<1>. QED  BY <1>1, <1>2, <1>3, <1>4, <1>5, <1>6, <1>7 DEF ImageNext

LEMMA SearchStep == ImageIInv /\ [ImageNext]_imageVars => SearchIsThorough' /\ SeenHoldsTheSame'
<1>. SUFFICES ASSUME ImageIInv, [ImageNext]_imageVars
             PROVE  SearchIsThorough' /\ SeenHoldsTheSame'
  OBVIOUS
<1>. USE DEF ImageIInv
<1>1. CASE RemapType
  BY <1>1 DEF RemapType, StartRemap, SearchIsThorough, SeenHoldsTheSame, Seen, UsesOf
<1>2. CASE RemapUse
  <2>1. PICK u \in pending : SkipVisited(u) \/ EnterCallee(u) \/ MeetQuery(u) \/ MeetType(u)
    BY <1>2 DEF RemapUse
  <2>2. u \in uses /\ u.image \in Seen /\ uses \in ImagePrograms
    BY <1>2 DEF RemapUse, SearchIsThorough, ImageTypeOK
  <2>3. CASE SkipVisited(u)
    <3>1. Seen' = Seen /\ UNCHANGED <<uses, arg, visited, found>>
      BY <1>2, <2>3 DEF RemapUse, SkipVisited, Seen
    <3>2. SearchIsThorough'
      BY <1>2, <2>3, <3>1 DEF RemapUse, SkipVisited, SearchIsThorough, WasLookedAt, UsesOf
    <3>3. SeenHoldsTheSame'
      BY <1>2, <3>1 DEF RemapUse, SeenHoldsTheSame
    <3>. QED  BY <3>2, <3>3
  <2>4. CASE EnterCallee(u)
    <3>. USE <1>2, <2>4, UseFacts DEF RemapUse, EnterCallee
    <3>1. Seen' = Seen \cup {u.param} /\ UNCHANGED <<uses, arg, found>>
      BY DEF Seen
    <3>2. \A v \in pending' : v.image \in Seen'
      BY <3>1 DEF SearchIsThorough, UsesOf
    <3>3. \A v \in uses' : v.image \in Seen' => v \in pending' \/ v.call \in visited'
      <4>1. SUFFICES ASSUME NEW v \in uses, v.image \in Seen'
                     PROVE  v \in pending' \/ v.call \in visited'
        BY <3>1
      <4>2. CASE v.image \in Seen
        BY <4>2 DEF SearchIsThorough
      <4>3. CASE v.image = u.param /\ u.param \notin visitedParams
        BY <4>3 DEF UsesOf
      <4>. QED  BY <3>1, <4>1, <4>2, <4>3 DEF Seen
    <3>4. \A c \in visited' : \E v \in uses' : v.call = c /\ v.image \in Seen' /\ WasLookedAt(v)'
      <4>1. SUFFICES ASSUME NEW c \in visited'
                     PROVE  \E v \in uses : v.call = c /\ v.image \in Seen' /\ WasLookedAt(v)'
        BY <3>1
      <4>2. CASE c = u.call
        BY <2>2, <3>1, <4>2, KindFacts DEF WasLookedAt
      <4>3. CASE c \in visited
        <5>1. PICK v \in uses : v.call = c /\ v.image \in Seen /\ WasLookedAt(v)
          BY <1>2, <4>3 DEF SearchIsThorough
        <5>. QED  BY <3>1, <5>1 DEF WasLookedAt
      <4>. QED  BY <4>1, <4>2, <4>3
    <3>5. ASSUME NEW S \in SUBSET ImageArgs, arg \in S, IsClosed(uses, S) PROVE Seen' \subseteq S
      BY <2>2, <3>1, <3>5 DEF SearchIsThorough, IsClosed
    <3>6. SearchIsThorough'
      BY <3>1, <3>2, <3>3, <3>4, <3>5 DEF SearchIsThorough, UsesOf
    <3>7. SeenHoldsTheSame'
      BY <2>2, <3>1, ContentsFacts DEF SeenHoldsTheSame
    <3>. QED  BY <3>6, <3>7
  <2>5. CASE MeetQuery(u)
    <3>. USE <1>2, <2>5 DEF RemapUse, MeetQuery
    <3>1. Seen' = Seen /\ UNCHANGED <<uses, arg>>
      BY DEF Seen
    <3>2. \A c \in visited' : \E v \in uses' : v.call = c /\ v.image \in Seen' /\ WasLookedAt(v)'
      <4>1. SUFFICES ASSUME NEW c \in visited'
                     PROVE  \E v \in uses : v.call = c /\ v.image \in Seen /\ WasLookedAt(v)'
        BY <3>1
      <4>2. CASE c = u.call
        BY <2>2, <4>2, KindFacts DEF WasLookedAt
      <4>3. CASE c \in visited
        <5>1. PICK v \in uses : v.call = c /\ v.image \in Seen /\ WasLookedAt(v)
          BY <1>2, <4>3 DEF SearchIsThorough
        <5>. QED  BY <5>1 DEF WasLookedAt
      <4>. QED  BY <4>1, <4>2, <4>3
    <3>3. SearchIsThorough'
      BY <3>1, <3>2 DEF SearchIsThorough, UsesOf
    <3>4. SeenHoldsTheSame'
      BY <3>1 DEF SeenHoldsTheSame
    <3>. QED  BY <3>3, <3>4
  <2>6. CASE MeetType(u)
    BY <2>6 DEF MeetType, Specialize, SearchIsThorough, SeenHoldsTheSame
  <2>. QED  BY <2>1, <2>3, <2>4, <2>5, <2>6
<1>3. CASE EndRemap
  BY <1>3 DEF EndRemap, Specialize, SearchIsThorough, SeenHoldsTheSame
<1>4. CASE SpecializeArg \/ EndArg \/ RewriteFunctions
  BY <1>4 DEF SpecializeArg, EndArg, RewriteFunctions, SearchIsThorough, SeenHoldsTheSame
<1>5. CASE Specialized \/ UNCHANGED imageVars
  BY <1>5 DEF Specialized, imageVars, SearchIsThorough, SeenHoldsTheSame, Seen, WasLookedAt, UsesOf
<1>. QED  BY <1>1, <1>2, <1>3, <1>4, <1>5 DEF ImageNext

LEMMA ContentsStep == ImageIInv /\ [ImageNext]_imageVars => TypesAreContents'
<1>. SUFFICES ASSUME ImageIInv, [ImageNext]_imageVars PROVE TypesAreContents'
  OBVIOUS
<1>. USE DEF ImageIInv
<1>1. CASE RemapUse
  <2>1. PICK u \in pending : SkipVisited(u) \/ EnterCallee(u) \/ MeetQuery(u) \/ MeetType(u)
    BY <1>1 DEF RemapUse
  <2>2. CASE ~ MeetType(u)
    BY <1>1, <2>1, <2>2 DEF RemapUse, SkipVisited, EnterCallee, MeetQuery, TypesAreContents
  <2>3. CASE MeetType(u)
    <3>1. u \in uses /\ u.image \in Seen /\ u.image \in ImageArgs /\ u.kind \in Components \cup {"query", "call"}
      BY <1>1, UseFacts DEF RemapUse, SearchIsThorough, ImageTypeOK
    <3>2. ASSUME NEW holds \in Contents(uses), IsReadAlike(uses) PROVE newType' = holds[arg]
      <4>1. holds[u.image] = holds[arg]
        BY <1>1, <3>1 DEF RemapUse, SeenHoldsTheSame
      <4>2. CASE IsSpecialized(u.image)
        <5>1. u.image \in remapped
          BY <3>1, <4>2, KindFacts DEF TypesAreContents, IsSpecialized, ImageTypeOK
        <5>. QED  BY <2>3, <3>2, <4>1, <4>2, <5>1 DEF MeetType, Specialize, TypesAreContents
      <4>3. CASE ~ IsSpecialized(u.image)
        BY <2>3, <3>1, <4>1, <4>3, ContentsFacts DEF MeetType, Specialize
      <4>. QED  BY <4>2, <4>3
    <3>. QED  BY <1>1, <2>3, <3>2 DEF RemapUse, MeetType, Specialize, TypesAreContents
  <2>. QED  BY <2>2, <2>3
<1>2. CASE EndRemap
  <2>1. CASE found = "kNotSpecialized"
    <3>1. ASSUME NEW holds \in Contents(uses), IsReadAlike(uses) PROVE holds[arg] = "float"
      BY <1>2, <3>1, SearchFindsTheRest DEF EndRemap
    <3>. QED  BY <1>2, <2>1, <3>1 DEF EndRemap, Specialize, TypesAreContents
  <2>2. CASE found # "kNotSpecialized"
    BY <1>2, <2>2 DEF EndRemap, TypesAreContents
  <2>. QED  BY <2>1, <2>2
<1>3. CASE SpecializeArg
  <2>1. PICK i \in toSpecialize :
           IF i \in remapped
           THEN /\ toSpecialize' = toSpecialize \ {i}
                /\ UNCHANGED <<remapped, typeOf, declared>>
           ELSE /\ toSpecialize' = (toSpecialize \ {i}) \cup HandedTo(i)
                /\ remapped' = remapped \cup {i}
                /\ typeOf' = [typeOf EXCEPT ![i] = newType]
                /\ declared' = [c \in Calls |-> IF IsBuiltinOf(c, i) THEN newType ELSE declared[c]]
    BY <1>3 DEF SpecializeArg, ReplaceImageBuiltin
  <2>2. UNCHANGED <<uses, newType>>
    BY <1>3 DEF SpecializeArg
  <2>3. CASE i \in remapped
    BY <2>1, <2>2, <2>3 DEF TypesAreContents
  <2>4. CASE i \notin remapped
    <3>1. typeOf \in [ImageArgs -> ImageTypes] /\ i \in ImageArgs
      BY DEF ImageTypeOK
    <3>2. \A j \in ImageArgs \ remapped' : typeOf'[j] = "void"
      BY <2>1, <2>4, <3>1 DEF TypesAreContents
    <3>3. ASSUME NEW holds \in Contents(uses), IsReadAlike(uses)
          PROVE  /\ \A j \in remapped' : typeOf'[j] = holds[j]
                 /\ \A j \in toSpecialize' : newType = holds[j]
      <4>1. newType = holds[i]
        BY <3>3 DEF TypesAreContents
      <4>2. \A j \in HandedTo(i) : holds[j] = holds[i]
        BY ContentsFacts DEF HandedTo, UsesOf
      <4>3. remapped \subseteq ImageArgs
        BY DEF ImageTypeOK
      <4>. QED  BY <2>1, <2>4, <3>1, <3>3, <4>1, <4>2, <4>3 DEF TypesAreContents
    <3>. QED  BY <2>2, <3>2, <3>3 DEF TypesAreContents
  <2>. QED  BY <2>3, <2>4
<1>4. CASE RemapType \/ EndArg \/ RewriteFunctions \/ Specialized \/ UNCHANGED imageVars
  BY <1>4 DEF RemapType, EndArg, RewriteFunctions, Specialized, imageVars, TypesAreContents
<1>. QED  BY <1>1, <1>2, <1>3, <1>4 DEF ImageNext

LEMMA HandedOnStep == ImageIInv /\ [ImageNext]_imageVars => TypesAreHandedOn'
<1>. SUFFICES ASSUME ImageIInv, [ImageNext]_imageVars PROVE TypesAreHandedOn'
  OBVIOUS
<1>. USE DEF ImageIInv
<1>1. CASE RemapUse
  <2>1. PICK u \in pending : SkipVisited(u) \/ EnterCallee(u) \/ MeetQuery(u) \/ MeetType(u)
    BY <1>1 DEF RemapUse
  <2>. QED  BY <1>1, <2>1 DEF RemapUse, SkipVisited, EnterCallee, MeetQuery, MeetType, Specialize,
                              TypesAreHandedOn, HandedTo, UsesOf
<1>2. CASE EndRemap
  BY <1>2 DEF EndRemap, Specialize, TypesAreHandedOn, HandedTo, UsesOf
<1>3. CASE SpecializeArg
  <2>1. PICK i \in toSpecialize :
           IF i \in remapped
           THEN /\ toSpecialize' = toSpecialize \ {i}
                /\ UNCHANGED <<remapped, typeOf, declared>>
           ELSE /\ toSpecialize' = (toSpecialize \ {i}) \cup HandedTo(i)
                /\ remapped' = remapped \cup {i}
                /\ typeOf' = [typeOf EXCEPT ![i] = newType]
                /\ declared' = [c \in Calls |-> IF IsBuiltinOf(c, i) THEN newType ELSE declared[c]]
    BY <1>3 DEF SpecializeArg, ReplaceImageBuiltin
  <2>2. UNCHANGED <<uses, step, signature>> /\ step = "specialize"
    BY <1>3 DEF SpecializeArg
  <2>3. \A j : HandedTo(j)' = HandedTo(j) /\ UsesOf(j)' = UsesOf(j)
    BY <2>2 DEF HandedTo, UsesOf
  <2>4. CASE i \in remapped
    BY <2>1, <2>2, <2>3, <2>4 DEF TypesAreHandedOn
  <2>5. CASE i \notin remapped
    <3>1. \A j \in remapped' : HandedTo(j) \subseteq remapped' \cup toSpecialize'
      BY <2>1, <2>5 DEF TypesAreHandedOn
    <3>2. ASSUME NEW j \in remapped', NEW u \in UsesOf(j), u.kind # "call"
          PROVE  declared'[u.call] = typeOf'[j]
      <4>1. u \in uses /\ u.image = j /\ u.call \in Calls /\ j \in ImageArgs
        BY UseFacts DEF UsesOf, ImageTypeOK
      <4>2. CASE j = i
        <5>1. IsBuiltinOf(u.call, i)
          BY <3>2, <4>2 DEF IsBuiltinOf
        <5>. QED  BY <2>1, <2>5, <4>1, <4>2, <5>1 DEF ImageTypeOK
      <4>3. CASE j # i
        <5>1. ~ IsBuiltinOf(u.call, i)
          BY <3>2, <4>1, <4>3, UseFacts DEF IsBuiltinOf, UsesOf, ImageTypeOK
        <5>2. declared[u.call] = typeOf[j]
          BY <2>1, <2>5, <3>2, <4>3 DEF TypesAreHandedOn
        <5>. QED  BY <2>1, <2>5, <4>1, <4>3, <5>1, <5>2 DEF ImageTypeOK
      <4>. QED  BY <4>2, <4>3
    <3>. QED  BY <2>2, <2>3, <3>1, <3>2 DEF TypesAreHandedOn
  <2>. QED  BY <2>4, <2>5
<1>4. CASE RewriteFunctions
  BY <1>4 DEF RewriteFunctions, RewriteFunction, TypesAreHandedOn, HandedTo, UsesOf, ImageTypeOK
<1>5. CASE RemapType \/ EndArg \/ Specialized \/ UNCHANGED imageVars
  BY <1>5 DEF RemapType, EndArg, Specialized, imageVars, TypesAreHandedOn, HandedTo, UsesOf
<1>. QED  BY <1>1, <1>2, <1>3, <1>4, <1>5 DEF ImageNext

LEMMA ArgsStep == ImageIInv /\ [ImageNext]_imageVars => ArgsAreSpecialized'
<1>. SUFFICES ASSUME ImageIInv, [ImageNext]_imageVars PROVE ArgsAreSpecialized'
  OBVIOUS
<1>. USE DEF ImageIInv
<1>1. CASE RemapUse
  <2>1. PICK u \in pending : SkipVisited(u) \/ EnterCallee(u) \/ MeetQuery(u) \/ MeetType(u)
    BY <1>1 DEF RemapUse
  <2>. QED  BY <1>1, <2>1 DEF RemapUse, SkipVisited, EnterCallee, MeetQuery, MeetType, Specialize,
                              ArgsAreSpecialized
<1>2. CASE EndRemap
  <2>1. CASE found = "kNotSpecialized"
    BY <1>2, <2>1 DEF EndRemap, Specialize, ArgsAreSpecialized
  <2>2. CASE found # "kNotSpecialized"
    <3>1. ~ IsReadAlike(uses)
      BY <1>2, <2>2, SearchFindsTheRest DEF EndRemap, IsReadAlike
    <3>. QED  BY <1>2, <2>2, <3>1 DEF EndRemap, ArgsAreSpecialized
  <2>. QED  BY <2>1, <2>2
<1>3. CASE SpecializeArg
  BY <1>3 DEF SpecializeArg, ArgsAreSpecialized
<1>4. CASE EndArg
  <2>1. arg \in KernelArgs /\ arg \in remapped
    BY <1>4 DEF EndArg, ArgsAreSpecialized, ImageTypeOK
  <2>2. \A a \in KernelArgs : a < arg + 1 => a < arg \/ a = arg
    BY <2>1, ImageProgramsAssumption DEF KernelArgs
  <2>. QED  BY <1>4, <2>1, <2>2 DEF EndArg, ArgsAreSpecialized
<1>5. CASE RewriteFunctions
  <2>1. arg = NumArgs + 1
    BY <1>5, ImageProgramsAssumption DEF RewriteFunctions, ImageTypeOK, KernelArgs
  <2>. QED  BY <1>5, <2>1 DEF RewriteFunctions, ArgsAreSpecialized
<1>6. CASE RemapType \/ Specialized \/ UNCHANGED imageVars
  BY <1>6 DEF RemapType, Specialized, imageVars, ArgsAreSpecialized
<1>. QED  BY <1>1, <1>2, <1>3, <1>4, <1>5, <1>6 DEF ImageNext

(***************************************************************************)
(* The search and the specialization keep what the proofs below rest on    *)
(* (SpecializeImageTypes.cpp:45-73).                                       *)
(***************************************************************************)
THEOREM ImageInvariantCorrect == ImageSpec => []ImageIInv
<1>1. ImageInit => ImageIInv
  BY ImageInitInv
<1>2. ImageIInv /\ [ImageNext]_imageVars => ImageIInv'
  BY ImageTypeStep, SearchStep, ContentsStep, HandedOnStep, ArgsStep DEF ImageIInv
<1>. QED  BY <1>1, <1>2, PTL DEF ImageSpec

(***************************************************************************)
(* If it can be told what the images of a program hold, every kernel       *)
(* argument gets the type of that, and so do all the functions and         *)
(* builtins it is handed on to (SpecializeImageTypes.cpp:213-257).         *)
(***************************************************************************)
THEOREM ImagesAgreeCorrect == ImageSpec => []ImagesAgree
<1>1. ImageIInv => ImagesAgree
  <2>. SUFFICES ASSUME ImageIInv, step = "done", IsReadAlike(uses)
                PROVE  /\ KernelArgs \subseteq remapped
                       /\ \A i \in remapped :
                             /\ signature[i] = typeOf[i]
                             /\ typeOf[i] # "void"
                             /\ \A u \in UsesOf(i) :
                                   IF u.kind = "call" THEN u.param \in remapped /\ signature[u.param] = typeOf[i]
                                   ELSE /\ declared[u.call] = typeOf[i]
                                        /\ u.kind \in Components => typeOf[i] = u.kind
    BY DEF ImagesAgree
  <2>. USE DEF ImageIInv
  <2>1. KernelArgs \subseteq remapped
    BY ImageProgramsAssumption DEF ArgsAreSpecialized, KernelArgs
  <2>2. PICK holds \in Contents(uses) : TRUE
    BY DEF IsReadAlike
  <2>3. \A i \in remapped : signature[i] = typeOf[i] /\ typeOf[i] = holds[i] /\ typeOf[i] # "void"
    BY ContentsFacts, KindFacts DEF TypesAreHandedOn, TypesAreContents, ImageTypeOK
  <2>4. ASSUME NEW i \in remapped, NEW u \in UsesOf(i), u.kind = "call"
        PROVE  u.param \in remapped /\ signature[u.param] = typeOf[i]
    <3>1. u.param \in HandedTo(i) /\ u \in uses /\ u.image = i
      BY <2>4 DEF HandedTo, UsesOf
    <3>2. u.param \in remapped
      BY <3>1 DEF TypesAreHandedOn
    <3>. QED  BY <2>3, <2>4, <3>1, <3>2, ContentsFacts
  <2>5. ASSUME NEW i \in remapped, NEW u \in UsesOf(i), u.kind # "call"
        PROVE  /\ declared[u.call] = typeOf[i]
               /\ u.kind \in Components => typeOf[i] = u.kind
    BY <2>3, <2>5, ContentsFacts DEF TypesAreHandedOn, UsesOf
  <2>. QED  BY <2>1, <2>3, <2>4, <2>5
<1>. QED  BY <1>1, ImageInvariantCorrect, PTL
================================================================================

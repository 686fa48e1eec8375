--------------------------- MODULE CoherenceProofs ---------------------------
(***************************************************************************)
(* For any functions, values and uses of them: what synchronizes is found, *)
(* and the two walks along pointers agree on what has to be coherent.      *)
(***************************************************************************)
EXTENDS Coherence, NaturalFacts, TLAPS, SequenceTheorems

-----------------------------------------------------------------------------
(* The walk through a block. *)

\* The recursion of Found, as a step from what is known before instruction n.
Known(before, n, block, inCallee) ==
    IF before.stop THEN before
    ELSE LET uses == UsesBarrierAfter(block[n], before.uses, inCallee)
         IN  [uses |-> uses, stop |-> uses /\ IsCall(block[n])]

Nothing == [uses |-> FALSE, stop |-> FALSE]

(***************************************************************************)
(* What is known after an instruction of a block comes from what is known  *)
(* before it: the recursive definition of Found has a solution.            *)
(***************************************************************************)
LEMMA FoundByStep ==
    ASSUME NEW block, Len(block) \in Nat, NEW inCallee
    PROVE  /\ Found(block, inCallee)[0] = Nothing
           /\ \A n \in 1..Len(block) :
                 Found(block, inCallee)[n] =
                     Known(Found(block, inCallee)[n - 1], n, block, inCallee)
<1>. DEFINE L == Len(block)
            K(before, n) == Known(before, n, block, inCallee)
            Solves(g, m) == g = [n \in 0..m |-> IF n = 0 THEN Nothing ELSE K(g[n - 1], n)]
            Bad == {m \in 0..L : \A g : ~Solves(g, m)}
<1>1. Found(block, inCallee) = CHOOSE g : Solves(g, L)
  BY DEF Found, Known, Nothing
<1>. HIDE DEF K
<1>2. Bad = {}
  <2>1. SUFFICES ASSUME Bad # {} PROVE FALSE
    OBVIOUS
  <2>2. PICK m \in Bad : \A n \in Bad : m <= n
    <3>1. Bad \subseteq Nat
      OBVIOUS
    <3>. HIDE DEF Bad
    <3>. QED  BY <2>1, <3>1, LeastNatural
  <2>3. CASE m = 0
    <3>1. Solves([n \in 0..0 |-> Nothing], 0)
      OBVIOUS
    <3>. QED  BY <2>2, <2>3, <3>1
  <2>4. CASE m # 0
    <3>1. m - 1 \in 0..L /\ m - 1 \notin Bad
      <4>1. m \in 0..L /\ L \in Nat
        BY <2>2
      <4>2. m - 1 \in 0..L /\ ~(m <= m - 1)
        BY <4>1, <2>4
      <4>. HIDE DEF Bad
      <4>. QED  BY <4>2, <2>2
    <3>2. PICK g : Solves(g, m - 1)
      BY <3>1
    <3>. DEFINE h == [n \in 0..m |-> IF n = m THEN K(g[m - 1], m) ELSE g[n]]
    <3>3. \A n \in 0..m : h[n] = IF n = 0 THEN Nothing ELSE K(h[n - 1], n)
      <4>1. TAKE n \in 0..m
      <4>2. CASE n = m
        BY <4>2, <2>4, <3>1
      <4>3. CASE n # m
        <5>1. n \in 0..(m - 1) /\ h[n] = g[n]
          BY <4>3, <2>4, <3>1
        <5>2. n # 0 => n - 1 \in 0..(m - 1) /\ h[n - 1] = g[n - 1]
          BY <5>1, <3>1
        <5>. HIDE DEF h
        <5>. QED  BY <5>1, <5>2, <3>2
      <4>. QED  BY <4>2, <4>3
    <3>4. h = [n \in 0..m |-> h[n]]
      OBVIOUS
    <3>. HIDE DEF h
    <3>5. Solves(h, m)
      BY <3>3, <3>4
    <3>. QED  BY <3>5, <2>2
  <2>. QED  BY <2>3, <2>4
<1>3. \E g : Solves(g, L)
  BY <1>2
<1>. DEFINE F == Found(block, inCallee)
<1>4. Solves(F, L)
  BY <1>1, <1>3
<1>. HIDE DEF F
<1>5. /\ F[0] = Nothing
      /\ \A n \in 1..L : F[n] = K(F[n - 1], n)
  BY <1>4
<1>. QED  BY <1>5 DEF F, K

\* What an instruction says by itself, and what it says that ends the walk.
Tells(instr, inCallee) ==
    \/ instr.kind \in {"rmw", "spirv_op"} /\ instr.sync
    \/ instr.kind = "call" /\ inCallee[instr.callee]

Settles(instr, inCallee) ==
    \/ instr.kind = "spirv_op" /\ instr.sync
    \/ instr.kind = "call" /\ inCallee[instr.callee]

(***************************************************************************)
(* An instruction makes the walk believe in a barrier if it tells of one,  *)
(* or leaves the belief as it is; one that settles it ends the walk.       *)
(***************************************************************************)
LEMMA KnownFacts ==
    ASSUME NEW block, NEW n, NEW before, NEW inCallee,
           block[n] \in SyncInstructions,
           NEW after, after = Known(before, n, block, inCallee)
    PROVE  /\ after.uses => before.uses \/ Tells(block[n], inCallee)
           /\ before.stop => after = before
           /\ ~before.stop /\ Settles(block[n], inCallee) => after.stop
           /\ (before.stop => before.uses) => (after.stop => after.uses)
<1>. DEFINE instr == block[n]
            uses == UsesBarrierAfter(instr, before.uses, inCallee)
<1>1. /\ instr.kind \in {"rmw", "spirv_op"} => uses = instr.sync
      /\ instr.kind = "call" => uses = inCallee[instr.callee]
      /\ instr.kind \notin {"rmw", "spirv_op", "call"} => uses = before.uses
  BY Zenon DEF UsesBarrierAfter
<1>2. /\ before.stop => after = before
      /\ ~before.stop => after = [uses |-> uses, stop |-> uses /\ IsCall(instr)]
  BY DEF Known
<1>. HIDE DEF uses
<1>3. CASE before.stop
  BY <1>2, <1>3
<1>4. CASE ~before.stop
  <2>1. after.uses = uses /\ after.stop = (uses /\ IsCall(instr))
    BY <1>2, <1>4
  <2>2. uses => before.uses \/ Tells(instr, inCallee)
    BY <1>1 DEF Tells
  <2>3. Settles(instr, inCallee) => uses /\ IsCall(instr)
    BY <1>1 DEF Settles, IsCall
  <2>. HIDE DEF instr
  <2>4. /\ after.uses => before.uses \/ Tells(instr, inCallee)
        /\ Settles(instr, inCallee) => after.stop
        /\ after.stop => after.uses
    BY <2>1, <2>2, <2>3
  <2>. QED  BY <2>4, <1>4 DEF instr
<1>. QED  BY <1>3, <1>4

(***************************************************************************)
(* A block that is found to synchronize has an instruction that does, or   *)
(* calls a function that is; and no barrier, fence or call that settles it *)
(* is lost (CallTreeContainsGlobalSynchronization).                        *)
(***************************************************************************)
LEMMA BlockFacts ==
    ASSUME NEW block \in Seq(SyncInstructions), NEW inCallee
    PROVE  /\ BlockUsesBarrier(block, inCallee) =>
                  \E n \in DOMAIN block : Tells(block[n], inCallee)
           /\ (\E n \in DOMAIN block : Settles(block[n], inCallee)) =>
                  BlockUsesBarrier(block, inCallee)
<1>. DEFINE L == Len(block)
            F == Found(block, inCallee)
<1>1. /\ L \in Nat /\ DOMAIN block = 1..L
      /\ \A n \in 1..L : block[n] \in SyncInstructions
  OBVIOUS
<1>2. /\ F[0] = Nothing
      /\ \A n \in 1..L : F[n] = Known(F[n - 1], n, block, inCallee)
  BY <1>1, FoundByStep
<1>. HIDE DEF F, L
<1>3. \A n \in 1..L :
         /\ F[n].uses => F[n - 1].uses \/ Tells(block[n], inCallee)
         /\ F[n - 1].stop => F[n] = F[n - 1]
         /\ ~F[n - 1].stop /\ Settles(block[n], inCallee) => F[n].stop
         /\ (F[n - 1].stop => F[n - 1].uses) => (F[n].stop => F[n].uses)
  <2>1. TAKE n \in 1..L
  <2>2. block[n] \in SyncInstructions
    BY <1>1
  <2>3. F[n] = Known(F[n - 1], n, block, inCallee)
    BY <1>2
  <2>. QED  BY <2>2, <2>3, KnownFacts
<1>. DEFINE Good(n) ==
         /\ F[n].uses => \E m \in 1..n : Tells(block[m], inCallee)
         /\ F[n].stop => F[n].uses
         /\ (\E m \in 1..n : Settles(block[m], inCallee)) => F[n].stop
     Bad == {n \in 0..L : ~Good(n)}
<1>4. Bad = {}
  <2>1. SUFFICES ASSUME Bad # {} PROVE FALSE
    OBVIOUS
  <2>2. PICK n \in Bad : \A m \in Bad : n <= m
    <3>1. Bad \subseteq Nat
      BY <1>1
    <3>. HIDE DEF Bad
    <3>. QED  BY <2>1, <3>1, LeastNatural
  <2>3. n \in 0..L /\ ~Good(n)
    OBVIOUS
  <2>4. CASE n = 0
    BY <2>3, <2>4, <1>2 DEF Nothing
  <2>5. CASE n # 0
    <3>1. n \in 1..L /\ n - 1 \in 0..L /\ ~(n <= n - 1)
      BY <2>3, <2>5, <1>1
    <3>2. Good(n - 1)
      <4>. HIDE DEF Good
      <4>. QED  BY <3>1, <2>2
    <3>3. \A m \in 1..n : m = n \/ m \in 1..(n - 1)
      BY <3>1, <1>1
    <3>4. \A m \in 1..(n - 1) : m \in 1..n
      BY <3>1, <1>1
    <3>5. n \in 1..n
      BY <3>1, <1>1
    <3>6. Good(n)
      BY <1>3, <3>1, <3>2, <3>3, <3>4, <3>5
    <3>. QED  BY <3>6, <2>3
  <2>. QED  BY <2>4, <2>5
<1>5. Good(L) /\ (BlockUsesBarrier(block, inCallee) <=> F[L].uses)
  BY <1>1, <1>4 DEF BlockUsesBarrier, F, L
<1>. QED  BY <1>1, <1>5

-----------------------------------------------------------------------------
(* The walk through the call tree. *)

(***************************************************************************)
(* A function synchronizes if one of its blocks is found to, given what is *)
(* known of the functions after it: the recursive definition of            *)
(* ContainsGlobalSynchronization has a solution.                           *)
(***************************************************************************)
LEMMA ContainsByStep ==
    ASSUME NEW code
    PROVE  \A f \in Functions :
              ContainsGlobalSynchronization(code)[f] =
                 \E b \in DOMAIN code[f] :
                     BlockUsesBarrier(code[f][b],
                         [g \in (f + 1)..NumFunctions |->
                             ContainsGlobalSynchronization(code)[g]])
<1>. DEFINE N == NumFunctions
            After(h, f) == [g \in (f + 1)..N |-> h[g]]
            Blocks(known, f) ==
                \E b \in DOMAIN code[f] : BlockUsesBarrier(code[f][b], known)
            Top(m) == (N - m + 1)..N
            Solves(h, m) == h = [f \in Top(m) |-> Blocks(After(h, f), f)]
            Bad == {m \in 0..N : \A h : ~Solves(h, m)}
<1>1. N \in Nat /\ Top(N) = Functions
  BY ProgramsAssumption DEF Functions
<1>2. ContainsGlobalSynchronization(code) =
          CHOOSE h : h = [f \in Functions |-> Blocks(After(h, f), f)]
  BY DEF ContainsGlobalSynchronization
<1>. HIDE DEF Blocks, N
<1>3. Bad = {}
  <2>1. SUFFICES ASSUME Bad # {} PROVE FALSE
    OBVIOUS
  <2>2. PICK m \in Bad : \A n \in Bad : m <= n
    <3>1. Bad \subseteq Nat
      BY <1>1
    <3>. HIDE DEF Bad
    <3>. QED  BY <2>1, <3>1, LeastNatural
  <2>3. m \in 0..N /\ \A h : ~Solves(h, m)
    OBVIOUS
  <2>4. CASE m = 0
    <3>1. Top(0) = {}
      BY <1>1
    <3>2. Solves([f \in {} |-> FALSE], 0)
      BY <3>1
    <3>. QED  BY <2>3, <2>4, <3>2
  <2>5. CASE m # 0
    <3>1. m - 1 \in 0..N /\ ~(m <= m - 1)
      BY <2>3, <2>5, <1>1
    <3>2. m - 1 \notin Bad
      <4>. HIDE DEF Bad
      <4>. QED  BY <3>1, <2>2
    <3>3. PICK h : Solves(h, m - 1)
      BY <3>1, <3>2
    <3>. DEFINE low == N - m + 1
                h2 == [f \in Top(m) |-> IF f = low THEN Blocks(After(h, low), low)
                                        ELSE h[f]]
    <3>4. /\ low \in Top(m)
          /\ \A f \in Top(m) : f # low => f \in Top(m - 1)
          /\ \A f \in Top(m) : \A g \in (f + 1)..N :
                g \in Top(m) /\ g # low
      BY <1>1, <2>3, <2>5
    <3>5. \A f \in Top(m) : After(h2, f) = After(h, f)
      BY <3>4
    <3>6. \A f \in Top(m) : h2[f] = Blocks(After(h, f), f)
      <4>1. TAKE f \in Top(m)
      <4>2. CASE f = low
        BY <4>2, <3>4
      <4>3. CASE f # low
        <5>1. f \in Top(m - 1) /\ h2[f] = h[f]
          BY <4>3, <3>4
        <5>. HIDE DEF h2, Top, low, After
        <5>. QED  BY <5>1, <3>3
      <4>. QED  BY <4>2, <4>3
    <3>7. h2 = [f \in Top(m) |-> h2[f]]
      OBVIOUS
    <3>. HIDE DEF h2, After, Top
    <3>8. h2 = [f \in Top(m) |-> Blocks(After(h2, f), f)]
      BY <3>5, <3>6, <3>7
    <3>. QED  BY <3>8, <2>3
  <2>. QED  BY <2>4, <2>5
<1>4. \E h : Solves(h, N)
  <2>1. N \in 0..N
    BY <1>1
  <2>. HIDE DEF Solves
  <2>. QED  BY <1>3, <2>1
<1>. DEFINE C == ContainsGlobalSynchronization(code)
<1>. HIDE DEF After, Top
<1>5. C = [f \in Functions |-> Blocks(After(C, f), f)]
  BY <1>1, <1>2, <1>4
<1>. HIDE DEF C
<1>6. \A f \in Functions : C[f] = Blocks(After(C, f), f)
  BY <1>5
<1>. QED  BY <1>6 DEF C, Blocks, After, N

LEMMA CodeFacts ==
    ASSUME program \in Programs, NEW f \in Functions
    PROVE  /\ \A b \in DOMAIN program.code[f] :
                 /\ program.code[f][b] \in Seq(SyncInstructions)
                 /\ \A n \in DOMAIN program.code[f][b] :
                       program.code[f][b][n] \in Instructions(f)
           /\ \A i \in Instructions(f) : i.kind = "call" =>
                 i.callee \in Callees(f) /\ i.callee \in (f + 1)..NumFunctions
           /\ Callees(f) \subseteq Functions
<1>1. IsModule(program) /\ Functions = 1..NumFunctions /\ NumFunctions \in Nat
  BY ProgramsAssumption DEF Functions
<1>2. program.code[f] \in Seq(Seq(SyncInstructions))
  BY <1>1 DEF IsModule
<1>3. \A b \in DOMAIN program.code[f] :
         /\ program.code[f][b] \in Seq(SyncInstructions)
         /\ \A n \in DOMAIN program.code[f][b] :
               program.code[f][b][n] \in SyncInstructions
  BY <1>2
<1>4. ASSUME NEW i \in Instructions(f), i.kind = "call"
      PROVE  i.callee \in Callees(f) /\ i.callee \in Functions /\ i.callee > f
  <2>1. PICK b \in DOMAIN program.code[f] :
            \E n \in DOMAIN program.code[f][b] : i = program.code[f][b][n]
    BY DEF Instructions
  <2>2. i \in SyncInstructions /\ i.callee > f
    BY <1>1, <1>3, <1>4, <2>1 DEF IsModule
  <2>. QED  BY <1>4, <2>2 DEF Callees, SyncInstructions
<1>. QED  BY <1>1, <1>3, <1>4 DEF Instructions, Callees

LEMMA CallTreeFacts ==
    ASSUME program \in Programs, NEW f \in Functions
    PROVE  /\ f \in CallTree(f) /\ CallTree(f) \subseteq Functions
           /\ \A g \in CallTree(f) : Callees(g) \subseteq CallTree(f)
           /\ \A S \in SUBSET Functions :
                 f \in S /\ (\A g \in S : Callees(g) \subseteq S) => CallTree(f) \subseteq S
<1>1. \A g \in Functions : Callees(g) \subseteq Functions
  BY CodeFacts
<1>. QED  BY <1>1 DEF CallTree

(***************************************************************************)
(* What AllocateDescriptorsPass.h:57 says of a kernel, of the module at    *)
(* hand: a walk that says so has met an instruction that synchronizes, and *)
(* no barrier or fence is missed.                                          *)
(***************************************************************************)
LEMMA SynchronizationIsFound ==
    ASSUME program \in Programs, NEW k \in Functions
    PROVE  /\ CallTreeContainsGlobalSynchronization(k) =>
                  Synchronizes(k, {"rmw", "spirv_op"})
           /\ Synchronizes(k, {"spirv_op"}) =>
                  CallTreeContainsGlobalSynchronization(k)
<1>. DEFINE N == NumFunctions
            C == ContainsGlobalSynchronization(program.code)
            Known1(f) == [g \in (f + 1)..N |-> C[g]]
<1>1. N \in Nat /\ Functions = 1..N
  BY ProgramsAssumption DEF Functions
<1>2. \A f \in Functions :
         C[f] = \E b \in DOMAIN program.code[f] :
                    BlockUsesBarrier(program.code[f][b], Known1(f))
  BY ContainsByStep
<1>. HIDE DEF C
<1>4. ASSUME NEW f \in Functions, C[f]
      PROVE  \/ \E i \in Instructions(f) : i.kind \in {"rmw", "spirv_op"} /\ i.sync
             \/ \E g \in Callees(f) : g \in Functions /\ g > f /\ C[g]
  <2>1. PICK b \in DOMAIN program.code[f] :
            BlockUsesBarrier(program.code[f][b], Known1(f))
    BY <1>2, <1>4
  <2>2. PICK n \in DOMAIN program.code[f][b] :
            Tells(program.code[f][b][n], Known1(f))
    BY <2>1, CodeFacts, BlockFacts
  <2>. DEFINE i == program.code[f][b][n]
  <2>3. i \in Instructions(f)
    BY CodeFacts
  <2>4. i.kind = "call" => /\ i.callee \in Callees(f) /\ i.callee \in Functions
                           /\ i.callee > f /\ Known1(f)[i.callee] = C[i.callee]
    BY <1>1, <2>3, CodeFacts
  <2>. HIDE DEF i
  <2>. QED  BY <2>2, <2>3, <2>4 DEF Tells, i
<1>5. ASSUME NEW f \in Functions, NEW i \in Instructions(f),
             \/ i.kind = "spirv_op" /\ i.sync
             \/ i.kind = "call" /\ C[i.callee]
      PROVE  C[f]
  <2>1. PICK b \in DOMAIN program.code[f] :
            \E n \in DOMAIN program.code[f][b] : i = program.code[f][b][n]
    BY DEF Instructions
  <2>2. Settles(i, Known1(f))
    BY <1>5, CodeFacts DEF Settles
  <2>3. BlockUsesBarrier(program.code[f][b], Known1(f))
    BY <2>1, <2>2, CodeFacts, BlockFacts
  <2>. QED  BY <1>2, <2>3
<1>6. ASSUME C[k] PROVE Synchronizes(k, {"rmw", "spirv_op"})
  <2>. DEFINE T == {f \in CallTree(k) : C[f]}
              Rest == {N - f : f \in T}
  <2>1. k \in T /\ T \subseteq Functions
    BY <1>6, CallTreeFacts
  <2>2. Rest \subseteq Nat /\ Rest # {}
    <3>1. \A f \in T : N - f \in Nat
      BY <2>1, <1>1
    <3>. HIDE DEF T
    <3>. QED  BY <3>1, <2>1
  <2>3. PICK f \in T : \A g \in T : N - f <= N - g
    <3>1. PICK r \in Rest : \A n \in Rest : r <= n
      <4>. HIDE DEF Rest
      <4>. QED  BY <2>2, LeastNatural
    <3>. HIDE DEF T
    <3>. QED  BY <3>1
  <2>4. ~\E g \in Callees(f) : g \in Functions /\ g > f /\ C[g]
    <3>1. SUFFICES ASSUME NEW g \in Callees(f), g \in Functions, g > f, C[g]
                   PROVE  FALSE
      OBVIOUS
    <3>2. g \in T
      BY <2>3, <3>1, CallTreeFacts
    <3>3. N - f <= N - g
      <4>. HIDE DEF T
      <4>. QED  BY <2>3, <3>2
    <3>4. f \in Nat /\ g \in Nat
      BY <2>1, <2>3, <3>1, <1>1
    <3>. QED  BY <3>1, <3>3, <3>4, <1>1
  <2>5. f \in CallTree(k) /\ f \in Functions /\ C[f]
    BY <2>1, <2>3
  <2>. QED  BY <1>4, <2>4, <2>5 DEF Synchronizes
<1>7. ASSUME Synchronizes(k, {"spirv_op"}) PROVE C[k]
  <2>1. PICK g \in CallTree(k) : \E i \in Instructions(g) : i.kind = "spirv_op" /\ i.sync
    BY <1>7 DEF Synchronizes
  <2>2. g \in Functions
    BY CallTreeFacts
  <2>3. C[g]
    BY <1>5, <2>1, <2>2
  <2>. DEFINE S == {f \in Functions : C[f] => C[k]}
  <2>4. ASSUME NEW f \in S, NEW h \in Callees(f) PROVE h \in S
    <3>1. PICK i2 \in Instructions(f) : i2.kind = "call" /\ i2.callee = h
      BY DEF Callees
    <3>2. h \in Functions
      BY CodeFacts
    <3>. QED  BY <1>5, <3>1, <3>2
  <2>5. CallTree(k) \subseteq S
    BY <2>4, CallTreeFacts
  <2>. QED  BY <2>3, <2>5
<1>. QED  BY <1>6, <1>7 DEF CallTreeContainsGlobalSynchronization, C

-----------------------------------------------------------------------------
(* The two walks along pointers. *)

LEMMA ModuleFacts ==
    ASSUME program \in Programs
    PROVE  /\ \A f \in Functions : \A i \in DOMAIN program.params[f] :
                 /\ program.params[f][i] \in Pointers
                 /\ program.def[program.params[f][i]].kind = "argument"
                 /\ \A h \in Functions : \A j \in DOMAIN program.params[h] :
                       program.params[f][i] = program.params[h][j] => f = h /\ i = j
           /\ \A v \in Values :
                 /\ Operands(v) \subseteq Pointers
                 /\ program.def[v].kind = "argument" =>
                       Operands(v) = {} /\ DOMAIN program.def[v].operands = {}
                 /\ program.def[v].kind = "call" =>
                       /\ program.def[v].callee \in Functions \ Kernels
                       /\ \A i \in DOMAIN program.def[v].operands :
                             i \in DOMAIN program.params[program.def[v].callee]
<1>1. IsModule(program)
  BY ProgramsAssumption
<1>2. ASSUME NEW f \in Functions, NEW i \in DOMAIN program.params[f]
      PROVE  program.params[f][i] \in Values
  <2>1. program.params[f] \in Seq(Values)
    BY <1>1 DEF IsModule
  <2>. QED  BY <2>1
<1>3. ASSUME NEW v \in Values
      PROVE  /\ program.def[v] \in Definitions
             /\ \A i \in DOMAIN program.def[v].operands :
                   program.def[v].operands[i] \in Values
  <2>1. program.def[v] \in Definitions
    BY <1>1 DEF IsModule
  <2>2. program.def[v].operands \in Seq(Values)
    BY <2>1 DEF Definitions
  <2>. QED  BY <2>1, <2>2
<1>4. ASSUME NEW v \in Values, program.def[v].kind = "call"
      PROVE  program.def[v].callee \in Functions
  BY <1>3, <1>4 DEF Definitions
<1>. QED  BY <1>1, <1>2, <1>3, <1>4 DEF IsModule, Pointers, Operands

LEMMA PassedFacts ==
    ASSUME program \in Programs
    PROVE  /\ \A v : PassedAs(v) \subseteq Pointers
           /\ \A f \in Functions \ Kernels : \A i \in DOMAIN program.params[f] :
                 PassedAs(program.params[f][i]) = Passed(f, i)
           /\ \A v, w : w \in PassedAs(v) =>
                 \E f \in Functions \ Kernels : \E i \in DOMAIN program.params[f] :
                     v = program.params[f][i] /\ w \in Passed(f, i)
           /\ \A c \in Values : \A i \in DOMAIN program.def[c].operands :
                 program.def[c].kind = "call" =>
                     program.def[c].operands[i] \in
                         PassedAs(program.params[program.def[c].callee][i])
           /\ \A f \in Functions \ Kernels : \A i \in DOMAIN program.params[f] :
                 \A w \in Passed(f, i) : \E c \in Values :
                     /\ program.def[c].kind = "call" /\ program.def[c].callee = f
                     /\ i \in DOMAIN program.def[c].operands
                     /\ w = program.def[c].operands[i]
<1>1. IsModule(program)
  BY ProgramsAssumption
<1>2. ASSUME NEW f \in Functions \ Kernels, NEW i \in DOMAIN program.params[f],
             NEW w \in Passed(f, i)
      PROVE  /\ w \in Pointers
             /\ \E c \in Values :
                   /\ program.def[c].kind = "call" /\ program.def[c].callee = f
                   /\ i \in DOMAIN program.def[c].operands
                   /\ w = program.def[c].operands[i]
  <2>1. PICK c \in Values : /\ program.def[c].kind = "call"
                            /\ program.def[c].callee = f
                            /\ w = program.def[c].operands[i]
    BY DEF Passed, CallsOf
  <2>2. i \in DOMAIN program.def[c].operands
    BY <1>1, <2>1 DEF IsModule
  <2>3. w \in Operands(c)
    BY <2>1, <2>2 DEF Operands
  <2>. QED  BY <2>1, <2>2, <2>3, ModuleFacts
<1>3. ASSUME NEW c \in Values, NEW i \in DOMAIN program.def[c].operands,
             program.def[c].kind = "call"
      PROVE  program.def[c].operands[i] \in
                 PassedAs(program.params[program.def[c].callee][i])
  <2>1. /\ program.def[c].callee \in Functions \ Kernels
        /\ i \in DOMAIN program.params[program.def[c].callee]
    BY <1>3, ModuleFacts
  <2>2. program.def[c].operands[i] \in Passed(program.def[c].callee, i)
    BY <1>3 DEF Passed, CallsOf
  <2>. QED  BY <2>1, <2>2 DEF PassedAs
<1>4. \A v, w : w \in PassedAs(v) =>
         \E f \in Functions \ Kernels : \E i \in DOMAIN program.params[f] :
             v = program.params[f][i] /\ w \in Passed(f, i)
  BY DEF PassedAs
<1>5. ASSUME NEW f \in Functions \ Kernels, NEW i \in DOMAIN program.params[f]
      PROVE  PassedAs(program.params[f][i]) = Passed(f, i)
  <2>1. ASSUME NEW w \in PassedAs(program.params[f][i]) PROVE w \in Passed(f, i)
    BY <1>4, ModuleFacts
  <2>2. Passed(f, i) \subseteq PassedAs(program.params[f][i])
    BY DEF PassedAs
  <2>. QED  BY <2>1, <2>2
<1>6. \A v : PassedAs(v) \subseteq Pointers
  BY <1>2, <1>4
<1>. QED  BY <1>2, <1>3, <1>4, <1>5, <1>6

(***************************************************************************)
(* The names of what an argument points to are the least set closed under  *)
(* making pointers and passing them on.                                    *)
(***************************************************************************)
LEMMA AliasFacts ==
    ASSUME program \in Programs, NEW a \in Pointers
    PROVE  /\ a \in Aliases(a) /\ Aliases(a) \subseteq Pointers
           /\ \A w \in Pointers :
                 (Operands(w) \cup PassedAs(w)) \cap Aliases(a) # {} => w \in Aliases(a)
           /\ \A S \in SUBSET Pointers :
                 /\ a \in S
                 /\ \A w \in Pointers :
                       (Operands(w) \cup PassedAs(w)) \cap S # {} => w \in S
                 => Aliases(a) \subseteq S
BY DEF Aliases

(***************************************************************************)
(* What CalledWithCoherentResource meets is the least set that is closed   *)
(* under going back to operands and to what callers pass.                  *)
(***************************************************************************)
LEMMA MetFacts ==
    ASSUME program \in Programs, NEW start \in SUBSET Pointers
    PROVE  /\ start \subseteq MetFrom(start) /\ MetFrom(start) \subseteq Pointers
           /\ \A w \in MetFrom(start) : Sources(w) \subseteq MetFrom(start)
           /\ \A S \in SUBSET Pointers :
                 start \subseteq S /\ (\A w \in S : Sources(w) \subseteq S) =>
                     MetFrom(start) \subseteq S
<1>1. \A w \in Pointers : Sources(w) \subseteq Pointers
  BY ModuleFacts, PassedFacts DEF Sources, Pointers
<1>. QED  BY <1>1 DEF MetFrom

(***************************************************************************)
(* The walk back from a parameter meets a variable of a kernel just when   *)
(* the walk forward from the variable meets the parameter.                 *)
(***************************************************************************)
LEMMA WalksMeet ==
    ASSUME program \in Programs,
           NEW f \in Functions \ Kernels, NEW i \in DOMAIN program.params[f],
           NEW a \in Pointers, a # program.params[f][i]
    PROVE  a \in MetFrom(Passed(f, i)) <=> program.params[f][i] \in Aliases(a)
<1>. DEFINE p == program.params[f][i]
<1>1. p \in Pointers /\ Sources(p) = Passed(f, i) /\ Passed(f, i) \subseteq Pointers
  BY ModuleFacts, PassedFacts DEF Sources, Pointers
<1>2. \A w \in Pointers : Sources(w) \subseteq Pointers
  BY ModuleFacts, PassedFacts DEF Sources, Pointers
<1>. HIDE DEF p
<1>3. ASSUME a \in MetFrom(Passed(f, i)) PROVE p \in Aliases(a)
  <2>. DEFINE S == {v \in Pointers : p \in Aliases(v)}
  <2>1. Passed(f, i) \subseteq S
    BY <1>1, AliasFacts DEF Sources
  <2>2. ASSUME NEW w \in S, NEW u \in Sources(w) PROVE u \in S
    <3>1. u \in Pointers /\ w \in Pointers
      BY <1>2
    <3>2. w \in Aliases(u)
      BY <3>1, AliasFacts DEF Sources
    <3>3. Aliases(w) \subseteq Aliases(u)
      BY <3>1, <3>2, AliasFacts
    <3>. QED  BY <3>1, <3>3
  <2>3. MetFrom(Passed(f, i)) \subseteq S
    <3>1. S \subseteq Pointers
      OBVIOUS
    <3>. HIDE DEF S
    <3>. QED  BY <1>1, <2>1, <2>2, <3>1, MetFacts
  <2>. QED  BY <1>3, <2>3
<1>4. ASSUME p \in Aliases(a) PROVE a \in MetFrom(Passed(f, i))
  <2>. DEFINE S == {v \in Pointers : v = a \/ a \in MetFrom(Sources(v))}
  <2>1. ASSUME NEW w \in Pointers, NEW u \in S, u \in Operands(w) \cup PassedAs(w)
        PROVE  w \in S
    <3>1. u \in Sources(w) /\ u \in Pointers
      BY <2>1 DEF Sources
    <3>2. u \in MetFrom(Sources(w)) /\ Sources(u) \subseteq MetFrom(Sources(w))
      BY <3>1, <1>2, MetFacts
    <3>3. MetFrom(Sources(u)) \subseteq MetFrom(Sources(w))
      BY <3>1, <3>2, <1>2, MetFacts
    <3>. QED  BY <3>2, <3>3
  <2>2. Aliases(a) \subseteq S
    <3>. HIDE DEF S
    <3>1. a \in S /\ S \subseteq Pointers
      BY DEF S
    <3>. QED  BY <3>1, <2>1, AliasFacts
  <2>. QED  BY <1>1, <1>4, <2>2 DEF p
<1>. QED  BY <1>3, <1>4 DEF p

-----------------------------------------------------------------------------
(* The inductive invariant. *)

Position ==
    /\ program \in Programs
    /\ pc \in {"kernel", "argument", "walk", "parameters", "done"}
    /\ kernel \in 1..(NumKernels + 1) /\ arg \in Nat \ {0}
    /\ pc \in {"argument", "walk"} => kernel \in Kernels
    /\ pc = "walk" => arg \in DOMAIN program.params[kernel]
    /\ pc \in {"parameters", "done"} => kernel = NumKernels + 1

\* The kernels StartKernel has asked about, and the arguments that are done with.
KernelsMet == IF pc \in {"argument", "walk"} THEN kernel ELSE kernel - 1

Examined(k, i) ==
    k < kernel \/ (k = kernel /\ pc \in {"argument", "walk"} /\ i < arg)

BarriersKnown ==
    /\ barrierMap \in Seq(BOOLEAN) /\ Len(barrierMap) = KernelsMet
    /\ \A k \in 1..KernelsMet :
          barrierMap[k] = CallTreeContainsGlobalSynchronization(k)

\* What HasReadsAndWrites has done for argument a: what waits and what was
\* visited are uses of names of it, and of the names it has been through, each
\* use waits or was visited.
Walk(a) ==
    /\ \A use \in stack :
          /\ use \in Pairs /\ program.def[use[1]].kind # "other"
          /\ program.def[use[1]].operands[use[2]] \in Aliases(a)
    /\ \A v \in visited :
          v \in Values /\ (v \in Aliases(a) \/ Operands(v) \cap Aliases(a) # {})
    /\ read <=> \E v \in visited : Reads(program.def[v])
    /\ write <=> \E v \in visited : Writes(program.def[v])
    /\ \A v \in Pointers : v = a \/ v \in visited =>
          \A use \in Uses(v) : use \in stack \/ use[1] \in visited
    /\ NoCallTakesItTwice(a) =>
          \A c \in visited : program.def[c].kind = "call" =>
              \A i \in DOMAIN program.def[c].operands :
                  program.def[c].operands[i] \in Aliases(a) =>
                      Parameter(program.def[c], i) \in visited

Walking == pc = "walk" => /\ barrierMap[kernel]
                          /\ Walk(program.params[kernel][arg])

\* What is asked of ReadAndWrittenIsCoherent, of one argument.
IsJudged(a, k) ==
    LET needed == barrierMap[k] /\ IsRead(a) /\ IsWritten(a)
    IN  /\ a \in coherentArgs => needed
        /\ needed /\ NoCallTakesItTwice(a) => a \in coherentArgs

Judged ==
    /\ \A k \in Kernels : \A i \in DOMAIN program.params[k] :
          Examined(k, i) => IsJudged(program.params[k][i], k)
    /\ \A a \in coherentArgs :
          \E k \in Kernels : \E i \in DOMAIN program.params[k] :
              Examined(k, i) /\ a = program.params[k][i]

IInv == Position /\ BarriersKnown /\ Walking /\ Judged

-----------------------------------------------------------------------------
(* The walk. *)

LEMMA Untouched ==
    ASSUME UNCHANGED program
    PROVE  /\ Pointers' = Pointers /\ Pairs' = Pairs
           /\ \A a : /\ Aliases(a)' = Aliases(a) /\ Uses(a)' = Uses(a)
                     /\ Operands(a)' = Operands(a)
                     /\ IsRead(a)' = IsRead(a) /\ IsWritten(a)' = IsWritten(a)
                     /\ NoCallTakesItTwice(a)' = NoCallTakesItTwice(a)
                     /\ CallTreeContainsGlobalSynchronization(a)' =
                            CallTreeContainsGlobalSynchronization(a)
<1>1. Pointers' = Pointers /\ Pairs' = Pairs
  BY DEF Pointers, Pairs
<1>2. \A a : Operands(a)' = Operands(a) /\ PassedAs(a)' = PassedAs(a)
  BY DEF Operands, PassedAs, Passed, CallsOf
<1>3. \A a : Aliases(a)' = Aliases(a)
  BY <1>1, <1>2 DEF Aliases
<1>4. \A a : Uses(a)' = Uses(a)
  BY <1>1 DEF Uses
<1>5. \A a : Accesses(a)' = Accesses(a)
  BY <1>2, <1>3 DEF Accesses
<1>6. \A a : IsRead(a)' = IsRead(a) /\ IsWritten(a)' = IsWritten(a)
  BY <1>5 DEF IsRead, IsWritten, Reads, Writes
<1>7. \A a : NoCallTakesItTwice(a)' = NoCallTakesItTwice(a)
  BY <1>3 DEF NoCallTakesItTwice
<1>8. \A a : CallTreeContainsGlobalSynchronization(a)' =
                 CallTreeContainsGlobalSynchronization(a)
  BY DEF CallTreeContainsGlobalSynchronization
<1>. QED  BY <1>1, <1>2, <1>3, <1>4, <1>6, <1>7, <1>8

LEMMA UseFacts ==
    ASSUME program \in Programs, NEW use \in Pairs
    PROVE  /\ use = <<use[1], use[2]>>
           /\ use[1] \in Values /\ use[2] \in DOMAIN program.def[use[1]].operands
           /\ program.def[use[1]].operands[use[2]] \in Operands(use[1])
           /\ program.def[use[1]].kind # "argument"
<1>1. use = <<use[1], use[2]>> /\ use[1] \in Values
      /\ use[2] \in DOMAIN program.def[use[1]].operands
  BY DEF Pairs
<1>. QED  BY <1>1, ModuleFacts DEF Operands

LEMMA UsesFacts ==
    /\ \A w : \A use \in Uses(w) : /\ use \in Pairs
                                   /\ program.def[use[1]].kind # "other"
                                   /\ program.def[use[1]].operands[use[2]] = w
    /\ \A v \in Values : \A i \in DOMAIN program.def[v].operands :
          program.def[v].kind # "other" => <<v, i>> \in Uses(program.def[v].operands[i])
<1>1. \A v \in Values : \A i \in DOMAIN program.def[v].operands : <<v, i>> \in Pairs
  BY DEF Pairs
<1>. QED  BY <1>1 DEF Uses

(***************************************************************************)
(* The loop of HasReadsAndWrites begins with the uses of the argument.     *)
(***************************************************************************)
LEMMA WalkBegins ==
    ASSUME program \in Programs, NEW a \in Pointers, UNCHANGED program,
           stack' = Uses(a), visited' = {}, ~read', ~write'
    PROVE  Walk(a)'
<1>1. a \in Aliases(a)
  BY AliasFacts
<1>. QED  BY <1>1, Untouched, UsesFacts DEF Walk

(***************************************************************************)
(* A turn of the loop of HasReadsAndWrites keeps account of the uses that  *)
(* were not yet seen.                                                      *)
(***************************************************************************)
LEMMA WalkGoesOn ==
    ASSUME program \in Programs, NEW a \in Pointers, Walk(a), VisitUser
    PROVE  Walk(a)'
<1>1. program' = program
  BY DEF VisitUser
<1>2. PICK use \in stack :
         LET v == use[1]
             d == program.def[v]
             new == v \notin visited
         IN  /\ stack' = (stack \ {use}) \cup
                             (IF new THEN Follow(d, v, use[2]) ELSE {})
             /\ visited' = visited \cup {v} \cup
                               (IF new /\ d.kind = "call"
                                THEN {Parameter(d, use[2])} ELSE {})
             /\ read' = (read \/ (new /\ Reads(d)))
             /\ write' = (write \/ (new /\ Writes(d)))
  BY DEF VisitUser
<1>. DEFINE v == use[1]
            o == use[2]
            d == program.def[v]
            A == Aliases(a)
            Par == Parameter(d, o)
<1>3. /\ use = <<v, o>> /\ v \in Values /\ o \in DOMAIN d.operands
      /\ d.operands[o] \in Operands(v) /\ d.operands[o] \in A
      /\ d.kind # "argument" /\ d.kind # "other"
  BY UseFacts DEF Walk
<1>4. Follow(d, v, o) = IF d.kind = "call"
                        THEN IF Par \in visited THEN {} ELSE Uses(Par)
                        ELSE IF d.kind = "pointer" THEN Uses(v) ELSE {}
  BY Zenon DEF Follow
<1>5. d.kind = "pointer" => v \in A /\ v \in Pointers
  BY <1>3, AliasFacts DEF Pointers
<1>6. d.kind = "call" => /\ Par \in A /\ Par \in Pointers /\ Par \in Values
                         /\ program.def[Par].kind = "argument"
                         /\ Operands(Par) = {}
  <2>1. SUFFICES ASSUME d.kind = "call" PROVE /\ Par \in A /\ Par \in Pointers
                                              /\ Par \in Values
                                              /\ program.def[Par].kind = "argument"
                                              /\ Operands(Par) = {}
    OBVIOUS
  <2>2. d.callee \in Functions \ Kernels /\ o \in DOMAIN program.params[d.callee]
    BY <1>3, <2>1, ModuleFacts
  <2>3. /\ Par = program.params[d.callee][o] /\ Par \in Pointers
        /\ program.def[Par].kind = "argument"
    BY <2>2, ModuleFacts DEF Parameter
  <2>4. d.operands[o] \in PassedAs(Par)
    BY <1>3, <2>1, PassedFacts DEF Parameter
  <2>5. Par \in A
    BY <1>3, <2>3, <2>4, AliasFacts
  <2>. QED  BY <2>3, <2>5, ModuleFacts DEF Pointers
<1>7. \A w : (Reads(program.def[w]) \/ Writes(program.def[w])) =>
                program.def[w].kind # "argument"
  BY DEF Reads, Writes
<1>8. /\ stack' = (stack \ {use}) \cup
                      (IF v \notin visited THEN Follow(d, v, o) ELSE {})
      /\ visited' = visited \cup {v} \cup
                        (IF v \notin visited /\ d.kind = "call" THEN {Par} ELSE {})
      /\ read' = (read \/ (v \notin visited /\ Reads(d)))
      /\ write' = (write \/ (v \notin visited /\ Writes(d)))
  BY <1>2
<1>9. /\ Aliases(a)' = A /\ A' = A /\ Pairs' = Pairs /\ Pointers' = Pointers
      /\ \A w : Uses(w)' = Uses(w) /\ Operands(w)' = Operands(w)
      /\ NoCallTakesItTwice(a)' = NoCallTakesItTwice(a)
  BY <1>1, Untouched
<1>10. (\A u \in stack :
          /\ u \in Pairs /\ program.def[u[1]].kind # "other"
          /\ program.def[u[1]].operands[u[2]] \in A)'
  <2>1. ASSUME NEW u \in stack'
        PROVE  /\ u \in Pairs /\ program.def[u[1]].kind # "other"
               /\ program.def[u[1]].operands[u[2]] \in A
    <3>1. CASE u \in stack
      BY <3>1 DEF Walk
    <3>2. CASE u \in Uses(Par) /\ d.kind = "call"
      BY <3>2, <1>6, UsesFacts
    <3>3. CASE u \in Uses(v) /\ d.kind = "pointer"
      BY <3>3, <1>5, UsesFacts
    <3>. HIDE DEF v, o, d, Par, A
    <3>. QED  BY <1>4, <1>8, <3>1, <3>2, <3>3
  <2>. HIDE DEF A
  <2>. QED  BY <2>1, <1>1, <1>9
<1>11. (\A w \in visited :
          w \in Values /\ (w \in A \/ Operands(w) \cap A # {}))'
  <2>1. \A w \in visited : w \in Values /\ (w \in A \/ Operands(w) \cap A # {})
    BY DEF Walk
  <2>. HIDE DEF v, o, d, Par, A
  <2>. QED  BY <1>3, <1>6, <1>8, <1>9, <2>1
<1>12. /\ (read <=> \E w \in visited : Reads(program.def[w]))'
       /\ (write <=> \E w \in visited : Writes(program.def[w]))'
  <2>1. /\ read <=> \E w \in visited : Reads(program.def[w])
        /\ write <=> \E w \in visited : Writes(program.def[w])
    BY DEF Walk
  <2>2. \A w : /\ Reads(program'.def[w]) <=> Reads(program.def[w])
               /\ Writes(program'.def[w]) <=> Writes(program.def[w])
    BY <1>1
  <2>3. d.kind = "call" => ~Reads(program.def[Par]) /\ ~Writes(program.def[Par])
    BY <1>6, <1>7
  <2>. HIDE DEF o, Par, v
  <2>. QED  BY <1>1, <1>8, <2>1, <2>3
<1>13. (\A w \in Pointers : w = a \/ w \in visited =>
          \A u \in Uses(w) : u \in stack \/ u[1] \in visited)'
  <2>1. ASSUME NEW w \in Pointers, w = a \/ w \in visited', NEW u \in Uses(w)
        PROVE  u \in stack' \/ u[1] \in visited'
    <3>1. CASE w = a \/ w \in visited
      <4>1. u \in stack \/ u[1] \in visited
        BY <3>1, <2>1 DEF Walk
      <4>. QED  BY <4>1, <1>8
    <3>2. CASE w \notin visited /\ w # a
      <4>1. CASE w = v
        <5>1. d.kind = "pointer"
          BY <4>1, <1>3 DEF Pointers
        <5>2. u \in stack \ {use} \/ u \in stack'
          BY <5>1, <4>1, <3>2, <1>4, <1>8, <2>1
        <5>. QED  BY <5>2, <1>8
      <4>2. CASE w # v
        <5>1. w = Par /\ d.kind = "call" /\ v \notin visited
          BY <4>2, <3>2, <2>1, <1>8
        <5>. QED  BY <5>1, <3>2, <1>4, <1>8, <2>1
      <4>. QED  BY <4>1, <4>2
    <3>. QED  BY <3>1, <3>2
  <2>. HIDE DEF v, o, d, Par, A
  <2>. QED  BY <2>1, <1>9
<1>14. (NoCallTakesItTwice(a) =>
          \A c \in visited : program.def[c].kind = "call" =>
              \A i \in DOMAIN program.def[c].operands :
                  program.def[c].operands[i] \in A =>
                      Parameter(program.def[c], i) \in visited)'
  <2>1. ASSUME NoCallTakesItTwice(a), NEW c \in visited', program.def[c].kind = "call",
               NEW i \in DOMAIN program.def[c].operands,
               program.def[c].operands[i] \in A
        PROVE  Parameter(program.def[c], i) \in visited'
    <3>1. CASE c \in visited
      <4>1. Parameter(program.def[c], i) \in visited
        BY <3>1, <2>1 DEF Walk
      <4>. QED  BY <4>1, <1>8
    <3>2. CASE c \notin visited
      <4>1. c = v
        BY <3>2, <2>1, <1>6, <1>8
      <4>2. i = o
        BY <4>1, <2>1, <1>3 DEF NoCallTakesItTwice
      <4>. QED  BY <4>1, <4>2, <3>2, <2>1, <1>8
    <3>. QED  BY <3>1, <3>2
  <2>2. \A e, i : Parameter(e, i)' = Parameter(e, i)
    BY <1>1 DEF Parameter
  <2>. HIDE DEF v, o, d, Par, A
  <2>. QED  BY <2>1, <2>2, <1>1, <1>9
<1>. QED  BY <1>9, <1>10, <1>11, <1>12, <1>13, <1>14 DEF Walk

(***************************************************************************)
(* When the loop of HasReadsAndWrites ends, it has seen a read, or a       *)
(* write, only if there is one, and has missed none if no call takes two   *)
(* pointers into what the argument points to.                              *)
(***************************************************************************)
LEMMA WalkEnds ==
    ASSUME program \in Programs, NEW a \in Pointers, Walk(a),
           stack = {} \/ (read /\ write)
    PROVE  /\ read /\ write => IsRead(a) /\ IsWritten(a)
           /\ IsRead(a) /\ IsWritten(a) /\ NoCallTakesItTwice(a) => read /\ write
<1>. DEFINE A == Aliases(a)
            Access(v) == v \in Values /\ Operands(v) \cap A # {}
<1>1. Accesses(a) = {program.def[v] : v \in {v \in Values : Operands(v) \cap A # {}}}
  BY DEF Accesses
<1>2. \A v \in visited : Reads(program.def[v]) \/ Writes(program.def[v]) => Access(v)
  <2>1. ASSUME NEW v \in visited, Reads(program.def[v]) \/ Writes(program.def[v])
        PROVE  Access(v)
    <3>1. v \in Values /\ (v \in A \/ Operands(v) \cap A # {})
      BY DEF Walk
    <3>2. v \notin Pointers
      BY <2>1 DEF Reads, Writes, Pointers
    <3>. QED  BY <3>1, <3>2, AliasFacts
  <2>. QED  BY <2>1
<1>3. ASSUME read, write PROVE IsRead(a) /\ IsWritten(a)
  <2>1. PICK v \in visited : Reads(program.def[v])
    BY <1>3 DEF Walk
  <2>2. PICK w \in visited : Writes(program.def[w])
    BY <1>3 DEF Walk
  <2>3. program.def[v] \in Accesses(a) /\ program.def[w] \in Accesses(a)
    BY <1>1, <1>2, <2>1, <2>2
  <2>. QED  BY <2>1, <2>2, <2>3 DEF IsRead, IsWritten
<1>4. ASSUME IsRead(a), IsWritten(a), NoCallTakesItTwice(a), stack = {}
      PROVE  read /\ write
  <2>. DEFINE E == {v \in Pointers : v = a \/ v \in visited}
  <2>1. ASSUME NEW w \in E, NEW v \in Values, NEW i \in DOMAIN program.def[v].operands,
               program.def[v].operands[i] = w, program.def[v].kind # "other"
        PROVE  v \in visited
    <3>1. <<v, i>> \in Uses(w)
      BY <2>1, UsesFacts
    <3>2. \A u \in Uses(w) : u[1] \in visited
      BY <1>4 DEF Walk
    <3>. QED  BY <3>1, <3>2
  <2>2. E \subseteq A
    <3>1. ASSUME NEW v \in Pointers, v \in visited PROVE v \in A
      BY <3>1, AliasFacts DEF Walk
    <3>. QED  BY <3>1, AliasFacts
  <2>3. ASSUME NEW w \in Pointers, NEW u \in E, u \in Operands(w) \cup PassedAs(w)
        PROVE  w \in E
    <3>1. CASE u \in Operands(w)
      <4>1. PICK i \in DOMAIN program.def[w].operands : program.def[w].operands[i] = u
        BY <3>1 DEF Operands
      <4>2. w \in Values /\ program.def[w].kind # "other"
        BY DEF Pointers
      <4>. QED  BY <2>1, <4>1, <4>2
    <3>2. CASE u \in PassedAs(w)
      <4>1. PICK f \in Functions \ Kernels : \E i \in DOMAIN program.params[f] :
                w = program.params[f][i] /\ u \in Passed(f, i)
        BY <3>2, PassedFacts
      <4>2. PICK i \in DOMAIN program.params[f] :
                w = program.params[f][i] /\ u \in Passed(f, i)
        BY <4>1
      <4>3. PICK c \in Values : /\ program.def[c].kind = "call"
                                /\ program.def[c].callee = f
                                /\ i \in DOMAIN program.def[c].operands
                                /\ u = program.def[c].operands[i]
        BY <4>2, PassedFacts
      <4>4. c \in visited
        BY <2>1, <4>3
      <4>5. Parameter(program.def[c], i) \in visited
        BY <1>4, <2>2, <4>3, <4>4 DEF Walk
      <4>. QED  BY <4>2, <4>3, <4>5 DEF Parameter
    <3>. QED  BY <2>3, <3>1, <3>2
  <2>4. A \subseteq E
    <3>1. a \in E /\ E \subseteq Pointers
      OBVIOUS
    <3>. HIDE DEF E
    <3>. QED  BY <2>3, <3>1, AliasFacts
  <2>5. ASSUME NEW e \in Accesses(a), e.kind # "other"
        PROVE  \E v \in visited : e = program.def[v]
    <3>1. PICK v \in Values : e = program.def[v] /\ Operands(v) \cap A # {}
      BY <1>1
    <3>2. PICK i \in DOMAIN program.def[v].operands : program.def[v].operands[i] \in A
      BY <3>1 DEF Operands
    <3>3. v \in visited
      BY <2>1, <2>4, <2>5, <3>1, <3>2
    <3>. QED  BY <3>1, <3>3
  <2>6. PICK r \in Accesses(a) : Reads(r)
    BY <1>4 DEF IsRead
  <2>7. PICK w \in Accesses(a) : Writes(w)
    BY <1>4 DEF IsWritten
  <2>8. r.kind # "other" /\ w.kind # "other"
    BY <2>6, <2>7 DEF Reads, Writes
  <2>. QED  BY <2>5, <2>6, <2>7, <2>8 DEF Walk
<1>. QED  BY <1>3, <1>4

-----------------------------------------------------------------------------
(* The invariant. *)

LEMMA ParamsFacts ==
    ASSUME program \in Programs, NEW k \in Functions
    PROVE  DOMAIN program.params[k] = 1..Len(program.params[k])
           /\ Len(program.params[k]) \in Nat
  BY ProgramsAssumption DEF IsModule

LEMMA NumbersFacts ==
    /\ NumKernels \in Nat /\ Kernels = 1..NumKernels /\ Kernels \subseteq Functions
  BY ProgramsAssumption DEF Kernels, Functions

LEMMA InitIInv == Init => IInv
<1>. SUFFICES ASSUME Init PROVE IInv
  OBVIOUS
<1>1. Position
  BY NumbersFacts DEF Init, Position
<1>2. BarriersKnown
  BY DEF Init, BarriersKnown, KernelsMet
<1>3. Judged
  BY NumbersFacts DEF Init, Judged, Examined
<1>. QED  BY <1>1, <1>2, <1>3 DEF IInv, Walking, Init

(***************************************************************************)
(* What was found of an argument stands while other arguments are looked   *)
(* at.                                                                     *)
(***************************************************************************)
LEMMA JudgedStays ==
    ASSUME IInv, UNCHANGED <<program, coherentArgs>>,
           \A k \in 1..KernelsMet : barrierMap'[k] = barrierMap[k],
           \A k \in Kernels : \A i \in DOMAIN program.params[k] :
               /\ Examined(k, i)' <=> Examined(k, i)
               /\ Examined(k, i) => k \in 1..KernelsMet
    PROVE  Judged'
<1>1. \A a, k : k \in 1..KernelsMet => (IsJudged(a, k)' <=> IsJudged(a, k))
  <2>1. \A a : /\ IsRead(a)' = IsRead(a) /\ IsWritten(a)' = IsWritten(a)
               /\ NoCallTakesItTwice(a)' = NoCallTakesItTwice(a)
    BY Untouched
  <2>. QED  BY <2>1 DEF IsJudged
<1>. QED  BY <1>1 DEF IInv, Judged

LEMMA StartKernelIInv == IInv /\ StartKernel => IInv'
<1>. SUFFICES ASSUME IInv, StartKernel PROVE IInv'
  OBVIOUS
<1>1. /\ program' = program /\ kernel' = kernel /\ arg' = 1
      /\ pc = "kernel" /\ pc' = "argument" /\ kernel \in Kernels
      /\ coherentArgs' = coherentArgs
      /\ barrierMap' = Append(barrierMap, CallTreeContainsGlobalSynchronization(kernel))
  BY DEF StartKernel
<1>2. kernel \in Nat \ {0} /\ KernelsMet = kernel - 1 /\ KernelsMet' = kernel
  BY <1>1, NumbersFacts DEF KernelsMet
<1>3. Position'
  BY <1>1 DEF IInv, Position
<1>4. BarriersKnown'
  <2>1. CallTreeContainsGlobalSynchronization(kernel) \in BOOLEAN
    BY <1>1, NumbersFacts, ContainsByStep DEF CallTreeContainsGlobalSynchronization
  <2>2. /\ barrierMap \in Seq(BOOLEAN) /\ Len(barrierMap) = kernel - 1
        /\ \A k \in 1..(kernel - 1) :
              barrierMap[k] = CallTreeContainsGlobalSynchronization(k)
    BY <1>2 DEF IInv, BarriersKnown
  <2>3. /\ barrierMap' \in Seq(BOOLEAN) /\ Len(barrierMap') = kernel
        /\ \A k \in 1..kernel : barrierMap'[k] = CallTreeContainsGlobalSynchronization(k)
    BY <2>1, <2>2, <1>1, <1>2
  <2>. QED  BY <2>3, <1>1, <1>2, Untouched DEF BarriersKnown
<1>5. Judged'
  <2>1. \A k \in Kernels : \A i \in DOMAIN program.params[k] :
           /\ Examined(k, i)' <=> Examined(k, i)
           /\ Examined(k, i) => k \in 1..KernelsMet
    <3>1. TAKE k \in Kernels
    <3>2. TAKE i \in DOMAIN program.params[k]
    <3>3. i \in Nat /\ i >= 1 /\ k \in Nat /\ k >= 1
      BY <3>1, <3>2, ParamsFacts, NumbersFacts DEF IInv, Position
    <3>. QED  BY <3>3, <1>1, <1>2 DEF Examined
  <2>2. \A k \in 1..KernelsMet : barrierMap'[k] = barrierMap[k]
    BY <1>1, <1>2 DEF IInv, BarriersKnown
  <2>. QED  BY <1>1, <2>1, <2>2, JudgedStays
<1>. QED  BY <1>1, <1>3, <1>4, <1>5 DEF IInv, Walking

\* An argument is one of one kernel, at one place.
LEMMA OneArgument ==
    ASSUME program \in Programs,
           NEW k \in Kernels, NEW i \in DOMAIN program.params[k],
           NEW h \in Functions, NEW j \in DOMAIN program.params[h],
           program.params[k][i] = program.params[h][j]
    PROVE  k = h /\ i = j
<1>1. k \in Functions
  BY NumbersFacts
<1>. QED  BY <1>1, ModuleFacts

LEMMA StartArgumentIInv == IInv /\ StartArgument => IInv'
<1>. SUFFICES ASSUME IInv, StartArgument PROVE IInv'
  OBVIOUS
<1>1. /\ program' = program /\ kernel' = kernel /\ pc = "argument"
      /\ coherentArgs' = coherentArgs /\ barrierMap' = barrierMap
      /\ visited' = {} /\ ~read' /\ ~write'
      /\ kernel \in Kernels /\ arg \in DOMAIN program.params[kernel]
  BY DEF StartArgument, IInv, Position
<1>2. PICK k0 : k0 = kernel
  OBVIOUS
<1>3. PICK i0 : i0 = arg
  OBVIOUS
<1>4. PICK a : a = program.params[k0][i0]
  OBVIOUS
<1>5. k0 \in Functions /\ i0 \in DOMAIN program.params[k0] /\ a \in Pointers
      /\ program \in Programs /\ k0 \in Nat /\ i0 \in Nat \ {0}
  BY <1>1, <1>2, <1>3, <1>4, NumbersFacts, ModuleFacts DEF IInv, Position
<1>6. KernelsMet = kernel /\ kernel \in Nat
  BY <1>1, NumbersFacts DEF KernelsMet
<1>7. CASE barrierMap[kernel]
  <2>1. arg' = arg /\ pc' = "walk" /\ stack' = Uses(a)
    BY <1>2, <1>3, <1>4, <1>7 DEF StartArgument
  <2>2. Position'
    BY <1>1, <2>1 DEF IInv, Position
  <2>3. BarriersKnown' /\ KernelsMet' = KernelsMet
    BY <1>1, <2>1, Untouched DEF IInv, BarriersKnown, KernelsMet
  <2>4. Walk(a)'
    BY <1>1, <1>5, <2>1, WalkBegins
  <2>5. Walking'
    BY <1>1, <1>2, <1>3, <1>4, <1>7, <2>1, <2>4 DEF Walking
  <2>6. Judged'
    <3>1. \A k \in Kernels : \A i \in DOMAIN program.params[k] :
             /\ Examined(k, i)' <=> Examined(k, i)
             /\ Examined(k, i) => k \in 1..KernelsMet
      BY <1>1, <1>6, <2>1, NumbersFacts DEF Examined
    <3>. QED  BY <1>1, <3>1, JudgedStays
  <2>. QED  BY <2>2, <2>3, <2>5, <2>6 DEF IInv
<1>8. CASE ~barrierMap[kernel]
  <2>1. arg' = arg + 1 /\ pc' = "argument"
    BY <1>1, <1>8 DEF StartArgument
  <2>2. Position'
    BY <1>1, <2>1 DEF IInv, Position
  <2>3. BarriersKnown' /\ KernelsMet' = KernelsMet
    BY <1>1, <2>1, Untouched DEF IInv, BarriersKnown, KernelsMet
  <2>4. \A k \in Kernels : \A i \in DOMAIN program.params[k] :
           Examined(k, i)' <=> Examined(k, i) \/ (k = k0 /\ i = i0)
    <3>1. TAKE k \in Kernels
    <3>2. TAKE i \in DOMAIN program.params[k]
    <3>3. i \in Nat /\ k \in Nat
      BY <3>1, <3>2, ParamsFacts, NumbersFacts DEF IInv, Position
    <3>. QED  BY <3>3, <1>1, <1>2, <1>3, <1>5, <2>1 DEF Examined
  <2>5. a \notin coherentArgs
    <3>1. SUFFICES ASSUME a \in coherentArgs PROVE FALSE
      OBVIOUS
    <3>2. PICK k \in Kernels : \E i \in DOMAIN program.params[k] :
              Examined(k, i) /\ a = program.params[k][i]
      BY <3>1 DEF IInv, Judged
    <3>3. PICK i \in DOMAIN program.params[k] :
              Examined(k, i) /\ a = program.params[k][i]
      BY <3>2
    <3>4. k = k0 /\ i = i0
      BY <1>4, <1>5, <3>3, OneArgument
    <3>. QED  BY <3>3, <3>4, <1>2, <1>3, <1>5 DEF Examined
  <2>6. \A b, k : IsJudged(b, k)' <=> IsJudged(b, k)
    BY <1>1, Untouched DEF IsJudged
  <2>7. IsJudged(a, k0)
    BY <1>2, <1>8, <2>5 DEF IsJudged
  <2>8. Judged'
    BY <1>1, <1>4, <2>4, <2>6, <2>7 DEF IInv, Judged
  <2>. QED  BY <2>1, <2>2, <2>3, <2>8 DEF IInv, Walking
<1>. QED  BY <1>7, <1>8

LEMMA NextKernelIInv == IInv /\ NextKernel => IInv'
<1>. SUFFICES ASSUME IInv, NextKernel PROVE IInv'
  OBVIOUS
<1>1. /\ program' = program /\ kernel' = kernel + 1 /\ arg' = arg
      /\ pc = "argument" /\ pc' = "kernel"
      /\ coherentArgs' = coherentArgs /\ barrierMap' = barrierMap
      /\ kernel \in Kernels /\ arg \notin DOMAIN program.params[kernel]
      /\ kernel \in Nat /\ arg \in Nat \ {0} /\ program \in Programs
  BY NumbersFacts DEF NextKernel, IInv, Position
<1>2. KernelsMet = kernel /\ KernelsMet' = kernel
  BY <1>1 DEF KernelsMet
<1>3. Position'
  BY <1>1, NumbersFacts DEF IInv, Position
<1>4. BarriersKnown'
  BY <1>1, <1>2, Untouched DEF IInv, BarriersKnown
<1>5. Judged'
  <2>1. \A k \in Kernels : \A i \in DOMAIN program.params[k] :
           /\ Examined(k, i)' <=> Examined(k, i)
           /\ Examined(k, i) => k \in 1..KernelsMet
    <3>1. TAKE k \in Kernels
    <3>2. TAKE i \in DOMAIN program.params[k]
    <3>3. /\ DOMAIN program.params[k] = 1..Len(program.params[k])
          /\ Len(program.params[k]) \in Nat
      BY <1>1, ParamsFacts, NumbersFacts
    <3>4. k = kernel => i < arg
      BY <3>3, <1>1
    <3>5. k \in Nat /\ k >= 1
      BY NumbersFacts
    <3>. QED  BY <3>4, <3>5, <1>1, <1>2 DEF Examined
  <2>. QED  BY <1>1, <2>1, JudgedStays
<1>. QED  BY <1>1, <1>3, <1>4, <1>5 DEF IInv, Walking

LEMMA VisitUserIInv == IInv /\ VisitUser => IInv'
<1>. SUFFICES ASSUME IInv, VisitUser PROVE IInv'
  OBVIOUS
<1>1. /\ program' = program /\ kernel' = kernel /\ arg' = arg
      /\ pc = "walk" /\ pc' = pc
      /\ coherentArgs' = coherentArgs /\ barrierMap' = barrierMap
      /\ kernel \in Kernels /\ arg \in DOMAIN program.params[kernel]
      /\ program \in Programs
  BY DEF VisitUser, IInv, Position
<1>2. KernelsMet = kernel /\ KernelsMet' = KernelsMet /\ kernel \in Nat
  BY <1>1, NumbersFacts DEF KernelsMet
<1>3. Position'
  BY <1>1 DEF IInv, Position
<1>4. BarriersKnown'
  BY <1>1, <1>2, Untouched DEF IInv, BarriersKnown
<1>5. Walking'
  <2>1. PICK a : a = program.params[kernel][arg]
    OBVIOUS
  <2>2. a \in Pointers /\ Walk(a)
    BY <1>1, <2>1, ModuleFacts, NumbersFacts DEF IInv, Walking
  <2>3. Walk(a)'
    BY <1>1, <2>2, WalkGoesOn
  <2>. QED  BY <1>1, <2>1, <2>3 DEF IInv, Walking
<1>6. Judged'
  <2>1. \A k \in Kernels : \A i \in DOMAIN program.params[k] :
           /\ Examined(k, i)' <=> Examined(k, i)
           /\ Examined(k, i) => k \in 1..KernelsMet
    BY <1>1, <1>2, NumbersFacts DEF Examined
  <2>. QED  BY <1>1, <2>1, JudgedStays
<1>. QED  BY <1>3, <1>4, <1>5, <1>6 DEF IInv

LEMMA EndArgumentIInv == IInv /\ EndArgument => IInv'
<1>. SUFFICES ASSUME IInv, EndArgument PROVE IInv'
  OBVIOUS
<1>1. /\ program' = program /\ kernel' = kernel /\ arg' = arg + 1
      /\ pc = "walk" /\ pc' = "argument" /\ barrierMap' = barrierMap
      /\ stack = {} \/ (read /\ write)
      /\ kernel \in Kernels /\ arg \in DOMAIN program.params[kernel]
      /\ program \in Programs /\ barrierMap[kernel]
  BY DEF EndArgument, IInv, Position, Walking
<1>2. PICK k0 : k0 = kernel
  OBVIOUS
<1>3. PICK i0 : i0 = arg
  OBVIOUS
<1>4. PICK a : a = program.params[k0][i0]
  OBVIOUS
<1>5. k0 \in Functions /\ i0 \in DOMAIN program.params[k0] /\ a \in Pointers
      /\ k0 \in Nat /\ i0 \in Nat \ {0}
  BY <1>1, <1>2, <1>3, <1>4, NumbersFacts, ModuleFacts DEF IInv, Position
<1>6. coherentArgs' = IF read /\ write THEN coherentArgs \cup {a} ELSE coherentArgs
  BY <1>2, <1>3, <1>4 DEF EndArgument
<1>7. KernelsMet = kernel /\ KernelsMet' = kernel
  BY <1>1 DEF KernelsMet
<1>8. Position'
  BY <1>1 DEF IInv, Position
<1>9. BarriersKnown'
  BY <1>1, <1>7, Untouched DEF IInv, BarriersKnown
<1>10. \A k \in Kernels : \A i \in DOMAIN program.params[k] :
         /\ Examined(k, i)' <=> Examined(k, i) \/ (k = k0 /\ i = i0)
         /\ ~Examined(k0, i0)
  <2>1. TAKE k \in Kernels
  <2>2. TAKE i \in DOMAIN program.params[k]
  <2>3. i \in Nat /\ k \in Nat
    BY <2>1, <2>2, <1>1, ParamsFacts, NumbersFacts
  <2>. QED  BY <2>3, <1>1, <1>2, <1>3, <1>5 DEF Examined
<1>11. a \notin coherentArgs
  <2>1. SUFFICES ASSUME a \in coherentArgs PROVE FALSE
    OBVIOUS
  <2>2. PICK k \in Kernels : \E i \in DOMAIN program.params[k] :
            Examined(k, i) /\ a = program.params[k][i]
    BY <2>1 DEF IInv, Judged
  <2>3. PICK i \in DOMAIN program.params[k] :
            Examined(k, i) /\ a = program.params[k][i]
    BY <2>2
  <2>4. k = k0 /\ i = i0
    BY <1>1, <1>4, <1>5, <2>3, OneArgument
  <2>. QED  BY <2>3, <2>4, <1>10
<1>12. \A b : /\ IsRead(b)' = IsRead(b) /\ IsWritten(b)' = IsWritten(b)
              /\ NoCallTakesItTwice(b)' = NoCallTakesItTwice(b)
  BY <1>1, Untouched
<1>13. IsJudged(a, k0)'
  <2>1. /\ read /\ write => IsRead(a) /\ IsWritten(a)
        /\ IsRead(a) /\ IsWritten(a) /\ NoCallTakesItTwice(a) => read /\ write
    <3>1. Walk(a)
      BY <1>1, <1>2, <1>3, <1>4 DEF IInv, Walking
    <3>. QED  BY <1>1, <1>5, <3>1, WalkEnds
  <2>2. a \in coherentArgs' <=> read /\ write
    BY <1>6, <1>11
  <2>. QED  BY <2>1, <2>2, <1>1, <1>2, <1>12 DEF IsJudged
<1>14. ASSUME NEW k \in Kernels, NEW i \in DOMAIN program.params[k],
              Examined(k, i)
       PROVE  IsJudged(program.params[k][i], k)'
  <2>. DEFINE b == program.params[k][i]
  <2>1. b # a
    BY <1>1, <1>4, <1>5, <1>10, <1>14, OneArgument
  <2>2. IsJudged(b, k)
    BY <1>14 DEF IInv, Judged
  <2>3. b' = b /\ (b \in coherentArgs' <=> b \in coherentArgs)
    BY <2>1, <1>1, <1>6
  <2>. HIDE DEF b
  <2>4. IsJudged(b, k)'
    BY <2>2, <2>3, <1>1, <1>12 DEF IsJudged
  <2>. QED  BY <2>4 DEF b
<1>15. Judged'
  <2>1. \A k \in Kernels : \A i \in DOMAIN program.params[k] :
           Examined(k, i)' => IsJudged(program.params[k][i], k)'
    BY <1>1, <1>4, <1>10, <1>13, <1>14
  <2>2. \A b \in coherentArgs' :
           \E k \in Kernels : \E i \in DOMAIN program.params[k] :
               Examined(k, i)' /\ b = program.params[k][i]
    <3>1. ASSUME NEW b \in coherentArgs
          PROVE  \E k \in Kernels : \E i \in DOMAIN program.params[k] :
                     Examined(k, i)' /\ b = program.params[k][i]
      BY <1>10 DEF IInv, Judged
    <3>2. /\ k0 \in Kernels /\ i0 \in DOMAIN program.params[k0]
          /\ Examined(k0, i0)' /\ a = program.params[k0][i0]
      BY <1>1, <1>2, <1>4, <1>5, <1>10
    <3>. QED  BY <3>1, <3>2, <1>6
  <2>. QED  BY <2>1, <2>2, <1>1 DEF Judged
<1>. QED  BY <1>1, <1>8, <1>9, <1>15 DEF IInv, Walking

\* The steps after the last kernel change nothing the invariant looks at.
LEMMA LastStepsIInv ==
    ASSUME IInv, EndKernels \/ DecorateParameters \/ UNCHANGED vars
    PROVE  IInv'
<1>1. /\ program' = program /\ kernel' = kernel /\ arg' = arg
      /\ barrierMap' = barrierMap /\ coherentArgs' = coherentArgs
      /\ stack' = stack /\ visited' = visited /\ read' = read /\ write' = write
  BY DEF EndKernels, DecorateParameters, vars, walkVars
<1>2. /\ pc' = pc \/ (pc \in {"kernel", "parameters"} /\ pc' \in {"parameters", "done"})
      /\ kernel \notin Kernels \/ pc' = pc
  BY NumbersFacts DEF EndKernels, DecorateParameters, vars, IInv, Position
<1>3. kernel \in 1..(NumKernels + 1) /\ NumKernels \in Nat /\ Kernels = 1..NumKernels
  BY NumbersFacts DEF IInv, Position
<1>4. Position'
  BY <1>1, <1>2, <1>3 DEF IInv, Position
<1>5. KernelsMet' = KernelsMet
  BY <1>1, <1>2 DEF KernelsMet
<1>6. BarriersKnown'
  BY <1>1, <1>5, Untouched DEF IInv, BarriersKnown
<1>7. Judged'
  <2>1. \A k, i : Examined(k, i)' <=> Examined(k, i)
    BY <1>1, <1>2 DEF Examined
  <2>2. \A a, k : IsJudged(a, k)' <=> IsJudged(a, k)
    BY <1>1, Untouched DEF IsJudged
  <2>. QED  BY <2>1, <2>2, <1>1 DEF IInv, Judged
<1>8. Walking'
  <2>1. CASE pc' = pc
    <3>1. \A a : Walk(a)' <=> Walk(a)
      BY <1>1, Untouched DEF Walk, Parameter
    <3>. QED  BY <3>1, <2>1, <1>1 DEF IInv, Walking
  <2>2. CASE pc' # pc
    BY <2>2, <1>2 DEF Walking
  <2>. QED  BY <2>1, <2>2
<1>. QED  BY <1>4, <1>6, <1>7, <1>8 DEF IInv

(***************************************************************************)
(* Whatever the module: the pass knows which kernels synchronize as        *)
(* CallTreeContainsGlobalSynchronization tells, the walk at hand keeps     *)
(* account of the uses it has still to see, and the arguments it is done   *)
(* with are judged right.                                                  *)
(***************************************************************************)
THEOREM InvariantCorrect == Spec => []IInv
<1>1. IInv /\ [Next]_vars => IInv'
  <2>. SUFFICES ASSUME IInv, [Next]_vars PROVE IInv'
    OBVIOUS
  <2>1. CASE StartKernel
    BY <2>1, StartKernelIInv
  <2>2. CASE StartArgument
    BY <2>2, StartArgumentIInv
  <2>3. CASE NextKernel
    BY <2>3, NextKernelIInv
  <2>4. CASE VisitUser
    BY <2>4, VisitUserIInv
  <2>5. CASE EndArgument
    BY <2>5, EndArgumentIInv
  <2>6. CASE EndKernels \/ DecorateParameters \/ UNCHANGED vars
    BY <2>6, LastStepsIInv
  <2>. QED  BY <2>1, <2>2, <2>3, <2>4, <2>5, <2>6 DEF Next, Finished
<1>. QED  BY <1>1, InitIInv, PTL DEF Spec

(***************************************************************************)
(* However deep the calls and whatever follows in a block, no barrier,     *)
(* fence or SPIR-V atomic is missed and none is made up ("contains a       *)
(* global synchronization primitive", AllocateDescriptorsPass.h:57).       *)
(***************************************************************************)
THEOREM FencesAreFound == Spec => []FencesFound
<1>1. IInv => FencesFound
  <2>. SUFFICES ASSUME IInv, NEW k \in DOMAIN barrierMap
                PROVE  /\ barrierMap[k] => Synchronizes(k, {"rmw", "spirv_op"})
                       /\ Synchronizes(k, {"spirv_op"}) => barrierMap[k]
    BY DEF FencesFound
  <2>1. /\ k \in 1..KernelsMet /\ program \in Programs
        /\ barrierMap[k] = CallTreeContainsGlobalSynchronization(k)
    BY DEF IInv, BarriersKnown, Position
  <2>2. k \in Functions
    BY <2>1, NumbersFacts DEF IInv, Position, KernelsMet
  <2>. QED  BY <2>1, <2>2, SynchronizationIsFound
<1>. QED  BY <1>1, InvariantCorrect, PTL

(***************************************************************************)
(* Through any pointers, calls and loops of phis, exactly the arguments    *)
(* both read and written of the kernels that synchronize are coherent      *)
(* ("Coherency is only required if the argument is [...] both read and     *)
(* written to", AllocateDescriptorsPass.cpp:328).                          *)
(***************************************************************************)
THEOREM CoherentIfReadAndWritten == Spec => []ReadAndWrittenIsCoherent
<1>1. IInv => ReadAndWrittenIsCoherent
  <2>. SUFFICES ASSUME IInv, pc = "done",
                       NEW k \in Kernels, NEW i \in DOMAIN program.params[k]
                PROVE  IsJudged(program.params[k][i], k)
    BY DEF ReadAndWrittenIsCoherent, IsJudged
  <2>1. Examined(k, i)
    BY NumbersFacts DEF IInv, Position, Examined
  <2>. QED  BY <2>1 DEF IInv, Judged
<1>. QED  BY <1>1, InvariantCorrect, PTL

(***************************************************************************)
(* A parameter is decorated just when it may be handed a coherent variable *)
(* ("If the arg is passed a coherent resource ever",                       *)
(* SPIRVProducerPass.cpp:3503), through any number of calls.               *)
(***************************************************************************)
THEOREM ParametersAreCoherent == Spec => []CoherenceReachesParameters
<1>1. ASSUME IInv, DecorateParameters PROVE CoherenceReachesParameters'
  <2>1. program \in Programs /\ program' = program /\ coherentArgs' = coherentArgs
    BY <1>1 DEF IInv, Position, DecorateParameters
  <2>2. ASSUME NEW a \in coherentArgs, NEW f \in Functions \ Kernels,
               NEW i \in DOMAIN program.params[f]
        PROVE  a \in Pointers /\ a # program.params[f][i]
    <3>1. PICK k \in Kernels : \E j \in DOMAIN program.params[k] :
              a = program.params[k][j]
      BY <1>1 DEF IInv, Judged
    <3>2. PICK j \in DOMAIN program.params[k] : a = program.params[k][j]
      BY <3>1
    <3>3. k \in Functions
      BY NumbersFacts
    <3>. QED  BY <2>1, <3>2, <3>3, ModuleFacts, OneArgument
  <2>3. ASSUME NEW f \in Functions \ Kernels, NEW i \in DOMAIN program.params[f]
        PROVE  CalledWithCoherentResource(f, i) <=>
                   \E a \in coherentArgs : program.params[f][i] \in Aliases(a)
    <3>1. \A a \in coherentArgs :
             a \in MetFrom(Passed(f, i)) <=> program.params[f][i] \in Aliases(a)
      BY <2>1, <2>2, WalksMeet
    <3>. QED  BY <3>1 DEF CalledWithCoherentResource
  <2>4. coherentParams' =
            UNION {{program.params[f][i] : i \in {i \in DOMAIN program.params[f] :
                                                    CalledWithCoherentResource(f, i)}} :
                   f \in Functions \ Kernels}
    BY <1>1 DEF DecorateParameters
  <2>5. coherentParams' =
            {p \in UNION {Aliases(a) : a \in coherentArgs} :
                \E f \in Functions \ Kernels : \E i \in DOMAIN program.params[f] :
                    p = program.params[f][i]}
    <3>1. ASSUME NEW p
          PROVE  p \in coherentParams' <=>
                     /\ \E a \in coherentArgs : p \in Aliases(a)
                     /\ \E f \in Functions \ Kernels :
                           \E i \in DOMAIN program.params[f] : p = program.params[f][i]
      BY <2>3, <2>4
    <3>. QED  BY <3>1
  <2>. QED  BY <2>1, <2>5, Untouched DEF CoherenceReachesParameters
<1>2. ASSUME CoherenceReachesParameters, UNCHANGED vars
      PROVE  CoherenceReachesParameters'
  BY <1>2, Untouched DEF CoherenceReachesParameters, vars
<1>3. ASSUME IInv, CoherenceReachesParameters, [Next]_vars
      PROVE  CoherenceReachesParameters'
  <2>1. CASE StartKernel \/ StartArgument \/ NextKernel \/ VisitUser
             \/ EndArgument \/ EndKernels
    <3>1. pc' # "done"
      BY <2>1 DEF StartKernel, StartArgument, NextKernel, VisitUser, EndArgument,
                  EndKernels
    <3>. QED  BY <3>1 DEF CoherenceReachesParameters
  <2>. QED  BY <1>1, <1>2, <1>3, <2>1 DEF Next, Finished
<1>4. Init => CoherenceReachesParameters
  BY DEF Init, CoherenceReachesParameters
<1>. QED  BY <1>3, <1>4, InvariantCorrect, PTL DEF Spec
=============================================================================

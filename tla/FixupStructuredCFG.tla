-------------------------- MODULE FixupStructuredCFG --------------------------
(***************************************************************************)
(* FixupStructuredCFGPass: what is wanting in the control flow that        *)
(* StructurizeCFG leaves, for SPIR-V.  Each operator is one of the four    *)
(* parts of the pass on a whole function.                                  *)
(***************************************************************************)
EXTENDS Naturals, Sequences, FiniteSets, SequencesExt

(***************************************************************************)
(* Functions as graphs of basic blocks, and what LLVM's analyses know of   *)
(* them.  Blocks are numbered in the order they are made; the first is the *)
(* entry.  Of a block we keep its successors (the true one of a            *)
(* conditional branch first), the block of the original function whose     *)
(* branch ends it (0 for a branch that a pass made), its phi, and what its *)
(* code reads of the one variable that is followed.                        *)
(***************************************************************************)

\* The same sequence; TLC computes its elements once.
AsTuple(s) == <<>> \o s

Undef == <<"undef", 0>>
Defined(b) == <<"defined", b>>      \* by the code of block b
Phi(b) == <<"phi", b>>              \* the phi of block b
Incoming(block, value) == [block |-> block, value |-> value]

Blocks(f) == DOMAIN f.succ
Successors(f, b) == ToSet(f.succ[b])
Preds(f, b) == {p \in Blocks(f) : b \in Successors(f, p)}
IsConditional(f, b) == Len(f.succ[b]) > 1

\* What is reached from the blocks of S on paths around the blocks of around.
Reached(f, S, around) ==
    LET within[k \in 0 .. Len(f.succ)] ==
            IF k = 0 THEN S \ around
            ELSE LET known == within[k - 1]
                 IN known \cup (UNION {Successors(f, b) : b \in known} \ around)
    IN within[Len(f.succ)]

(* DominatorTree, as the set of the dominators of every block. *)
Dominators(f) ==
    LET without == AsTuple([d \in Blocks(f) |-> Reached(f, {1}, {d})])
    IN AsTuple([b \in Blocks(f) |-> {d \in Blocks(f) : d = b \/ b \notin without[d]}])

(* LoopInfo, as the blocks of the natural loop of every header; {} for the others. *)
LoopInfo(f) ==
    LET dom == Dominators(f)
        Latches(h) == {p \in Preds(f, h) : h \in dom[p]}
        NaturalLoop(h, latches) ==
            {h} \cup {b \in Blocks(f) : h \in dom[b] /\ Reached(f, {b}, {h}) \cap latches # {}}
    IN AsTuple([h \in Blocks(f) |-> IF Latches(h) = {} THEN {} ELSE NaturalLoop(h, Latches(h))])

TheOnly(S) == IF Cardinality(S) = 1 THEN CHOOSE x \in S : TRUE ELSE 0   \* 0: nullptr

IsLoopHeader(loops, b) == loops[b] # {}
Headers(loops) == {b \in DOMAIN loops : IsLoopHeader(loops, b)}
LoopLatch(f, loops, h) == TheOnly(Preds(f, h) \cap loops[h])
ExitEdges(f, loops, h) ==
    {<<b, i>> \in loops[h] \X (1 .. 2) : i \in DOMAIN f.succ[b] /\ f.succ[b][i] \notin loops[h]}
UniqueExitBlock(f, loops, h) ==
    TheOnly({f.succ[e[1]][e[2]] : e \in ExitEdges(f, loops, h)})
\* getExitBlock() wants a single edge.
ExitBlock(f, loops, h) ==
    IF Cardinality(ExitEdges(f, loops, h)) = 1 THEN UniqueExitBlock(f, loops, h) ELSE 0
LoopsAround(loops, b) == {h \in DOMAIN loops : b \in loops[h]}
ParentLoop(loops, h) ==
    LET outer == LoopsAround(loops, h) \ {h}
    IN TheOnly({p \in outer : \A q \in outer : loops[p] \subseteq loops[q]})

------------------------------------------------------------------------------
(* What passes do to a function. *)

NewBlock(f) == Len(f.succ) + 1

\* A block of its own that goes to target.
AddBlock(f, target, phi) ==
    [f EXCEPT !.succ = Append(@, <<target>>), !.branch = Append(@, 0),
              !.phi = Append(@, phi), !.reads = Append(@, Undef)]

Replaced(seq, old, new) == AsTuple([i \in DOMAIN seq |-> IF seq[i] = old THEN new ELSE seq[i]])
Retarget(f, b, old, new) == [f EXCEPT !.succ[b] = Replaced(@, old, new)]

\* The phis of blocks know pred by another block from now on.
ReplaceIncomingBlock(f, blocks, pred, new) ==
    [f EXCEPT !.phi =
        AsTuple([b \in Blocks(f) |->
            IF b \notin blocks THEN f.phi[b]
            ELSE AsTuple([i \in DOMAIN f.phi[b] |->
                    IF f.phi[b][i].block = pred THEN Incoming(new, f.phi[b][i].value) ELSE f.phi[b][i]])])]

\* splitBasicBlockBefore(terminator): b keeps its phi and code, the new block
\* gets the branch.  (In LLVM the first part is the new object.)
SplitBeforeBranch(f, b) ==
    LET new == NewBlock(f)
        added == ReplaceIncomingBlock(AddBlock(f, b, <<>>), Successors(f, b), b, new)
    IN [added EXCEPT !.succ[new] = f.succ[b], !.branch[new] = f.branch[b],
                     !.succ[b] = <<new>>, !.branch[b] = 0]

ReplaceAllUses(f, old, new) ==
    LET InPhi(in) == IF in.value = old THEN Incoming(in.block, new) ELSE in
    IN [f EXCEPT
            !.reads = Replaced(@, old, new),
            !.phi = AsTuple([b \in Blocks(f) |->
                        AsTuple([i \in DOMAIN f.phi[b] |-> InPhi(f.phi[b][i])])])]

ErasePhi(f, b, value) == [ReplaceAllUses(f, Phi(b), value) EXCEPT !.phi[b] = <<>>]

\* removePredecessor(): a phi with one value left is replaced by it.
RemovePredecessors(f, b, preds) ==
    LET left == SelectSeq(f.phi[b], LAMBDA in : in.block \notin preds)
        values == {in.value : in \in ToSet(left)} \ {Phi(b)}
        removed == [f EXCEPT !.phi[b] = left]
    IN IF Cardinality(values) = 1 THEN ErasePhi(removed, b, CHOOSE v \in values : TRUE) ELSE removed

------------------------------------------------------------------------------
\* The headers of a function, those of inner loops first.
LoopsInnerFirst(f) ==
    LET loops == LoopInfo(f)
    IN SetToSortSeq(Headers(loops),
            LAMBDA g, h : \/ Cardinality(loops[g]) < Cardinality(loops[h])
                          \/ Cardinality(loops[g]) = Cardinality(loops[h]) /\ g < h)

------------------------------------------------------------------------------
(* The exit of an inner loop is the latch of the outer one: the inner loop gets
   an exit of its own, and the phi is split between them. *)

\* Wrong variant: the first value for all blocks of the loop.
SplitPhi_FirstValue(f, exit, loopPreds) ==
    LET new == NewBlock(f)
        fromLoop == SelectSeq(f.phi[exit], LAMBDA in : in.block \in loopPreds)
        added == AddBlock(f, exit, <<>>)
    IN IF fromLoop = <<>> THEN added
       ELSE [added EXCEPT !.phi[exit] = Append(@, Incoming(new, fromLoop[1].value))]

\* The value the exit's phi has for the new exit: the one value of the loop, or a phi.
SplitPhi(f, exit, loopPreds) ==
    LET new == NewBlock(f)
        fromLoop == SelectSeq(f.phi[exit], LAMBDA in : in.block \in loopPreds)
        isSingle == Len(fromLoop) = 1
        added == AddBlock(f, exit, IF isSingle THEN <<>> ELSE fromLoop)
    IN IF fromLoop = <<>> THEN added
       ELSE [added EXCEPT !.phi[exit] =
                Append(@, Incoming(new, IF isSingle THEN fromLoop[1].value ELSE Phi(new)))]

IsolateExit(f, h) ==
    LET loops == LoopInfo(f)
        exit == UniqueExitBlock(f, loops, h)
        parent == ParentLoop(loops, h)
        loopPreds == Preds(f, exit) \cap loops[h]
        retargeted == FoldSet(LAMBDA p, g : Retarget(g, p, exit, NewBlock(f)),
                              SplitPhi(f, exit, loopPreds), loopPreds)
    IN IF parent # 0 /\ exit # 0 /\ exit = LoopLatch(f, loops, parent)
       THEN RemovePredecessors(retargeted, exit, loopPreds)
       ELSE f

IsolateContinue(f) == FoldLeft(IsolateExit, f, LoopsInnerFirst(f))

------------------------------------------------------------------------------
(* A latch with a convergent call where the two ways from the header meet: the
   call must be at a merge, so the back edge gets a block of its own. *)

IsolateLatch(f, h) ==
    LET loops == LoopInfo(f)
        latch == LoopLatch(f, loops, h)
        new == NewBlock(f)
    IN IF \/ latch \in {0, h}
          \/ Cardinality(Preds(f, latch)) # 2
          \/ ~IsConditional(f, h)
          \/ latch \notin Successors(f, h)
          \/ latch \notin f.convergent
       THEN f
       ELSE IF ~IsConditional(f, latch) THEN SplitBeforeBranch(f, latch)
       ELSE IF Successors(f, latch) \subseteq loops[h] THEN f
       ELSE ReplaceIncomingBlock(Retarget(AddBlock(f, h, <<>>), latch, h, new), {h}, latch, new)

IsolateConvergentLatch(f) == FoldLeft(IsolateLatch, f, LoopsInnerFirst(f))

------------------------------------------------------------------------------
(* A header that branches into the body both ways: its branch becomes a selection
   of the body. *)

BreakHeader(f, h) ==
    LET loops == LoopInfo(f)
    IN IF /\ IsConditional(f, h)
          /\ Successors(f, h) \cap {LoopLatch(f, loops, h), UniqueExitBlock(f, loops, h)} = {}
       THEN SplitBeforeBranch(f, h)
       ELSE f

BreakConditionalHeader(f) == FoldLeft(BreakHeader, f, LoopsInnerFirst(f))

------------------------------------------------------------------------------
(* Phis of pointers that are undefined whichever way the block is reached. *)

\* Of a phi at position i only its own operand i is looked at.
SeenValues(f, b) ==
    {LET value == f.phi[b][i].value
     IN IF value[1] = "phi" /\ i \in DOMAIN f.phi[value[2]] THEN f.phi[value[2]][i].value ELSE value :
        i \in DOMAIN f.phi[b]}

RemoveIfUndef(f, b) ==
    IF f.pointer /\ f.phi[b] # <<>> /\ SeenValues(f, b) \subseteq {Undef, Phi(b)}
    THEN ErasePhi(f, b, Undef)
    ELSE f

RemoveUndefPHI(f) == FoldLeft(RemoveIfUndef, f, [b \in Blocks(f) |-> b])

(* The operand looked at may not be the one that is defined, and it may not be
   there: then a pointer is lost. *)
MisjudgesPhi(f) ==
    LET InnerPhi(b, i) == f.phi[f.phi[b][i].value[2]]
        PhisIn(b) == {i \in DOMAIN f.phi[b] : f.phi[b][i].value[1] = "phi" /\ f.phi[b][i].value # Phi(b)}
    IN f.pointer /\ \E b \in Blocks(f) : \E i \in PhisIn(b) :
        \/ i \notin DOMAIN InnerPhi(b, i)
        \/ /\ SeenValues(f, b) \subseteq {Undef, Phi(b)}
           /\ \E in \in ToSet(InnerPhi(b, i)) : in.value \notin {Undef, Phi(b), f.phi[b][i].value}
===============================================================================

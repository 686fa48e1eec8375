------------------------ MODULE StructuredControlFlow ------------------------
(***************************************************************************)
(* A function from StructurizeCFG to the structured control flow of        *)
(* SPIR-V: FixupStructuredCFGPass, ReorderBasicBlocksPass, and of          *)
(* SPIRVProducerPass the merge and continue blocks, the generation of the  *)
(* body with placeholders, and the instructions that take their place.     *)
(* Then the function runs, side by side with the one it was made from.     *)
(***************************************************************************)
EXTENDS FixupStructuredCFG

CONSTANTS
    Functions,      \* functions as StructurizeCFG leaves them
    BlockOrders     \* values of -hack-block-order

VARIABLES
    phase,          \* what was done last
    structurized,   \* the function as StructurizeCFG left it
    f,              \* the function now
    hackBlockOrder,
    order,          \* its blocks as they are laid out
    merges,         \* MergeBlocks and ContinueBlocks, 0 where there is none
    code,           \* the instructions of the SPIR-V function
    deferred,       \* DeferredInstVec
    at,             \* where the structurized function and the function are
    last,           \* the last definition of the variable that is followed
    phiValues       \* values of the phis of the function now

compileVars == <<structurized, f, hackBlockOrder, order, merges, code, deferred>>
runVars == <<at, last, phiValues>>
cfVars == <<phase, compileVars, runVars>>

------------------------------------------------------------------------------
(* Orders of blocks. *)

\* The merge and continue blocks of ComputeStructuredOrder, 0 for nullptr.  The
\* last block of a loop that dominates its latch is the latch.
MergeFirst(loops, b) ==
    IF IsLoopHeader(loops, b)
    THEN [merge |-> ExitBlock(f, loops, b), continue |-> LoopLatch(f, loops, b)]
    ELSE [merge |-> IF IsConditional(f, b) /\ \A s \in Successors(f, b) : ~IsLoopHeader(loops, s)
                    THEN f.succ[b][2] ELSE 0,
          continue |-> 0]

RECURSIVE VisitStructured(_, _, _)
VisitStructured(loops, done, b) ==
    LET first == MergeFirst(loops, b)
        others == SelectSeq(f.succ[b], LAMBDA s : s \notin {first.merge, first.continue})
        next == SelectSeq(<<first.merge, first.continue>>, LAMBDA s : s # 0) \o others
        after == FoldLeft(LAMBDA d, s : VisitStructured(loops, d, s),
                          [done EXCEPT !.visited = @ \cup {b}], next)
    IN IF b \in done.visited THEN done
       ELSE [after EXCEPT !.order = <<b>> \o @]

ComputeStructuredOrder ==
    VisitStructured(LoopInfo(f), [visited |-> {}, order |-> <<>>], 1).order

\* Depth first in the dominator tree.
RECURSIVE VisitDominated(_, _)
VisitDominated(dom, b) ==
    LET children == {c \in Blocks(f) \ {b} : b \in dom[c] /\ dom[c] \ {c} \subseteq dom[b]}
    IN <<b>> \o FoldLeft(LAMBDA s, c : s \o VisitDominated(dom, c), <<>>,
                         SetToSortSeq(children, LAMBDA c, d : c < d))

------------------------------------------------------------------------------
(* SPIRVProducerPass. *)

\* Loops without exactly one exit edge and one latch are llvm_unreachable.
IsReachable == LET loops == LoopInfo(f)
               IN \A h \in Headers(loops) : 0 \notin {ExitBlock(f, loops, h), LoopLatch(f, loops, h)}

HasBackedge(loops, b) == \E h \in LoopsAround(loops, b) : LoopLatch(f, loops, h) = b

\* Wrong variant: a branch to the continue or merge block of a loop is a selection too.
RecordMerge_AnyBranch(loops, m, b) ==
    IF IsLoopHeader(loops, b)
    THEN [m EXCEPT !.merge[b] = ExitBlock(f, loops, b), !.continue[b] = LoopLatch(f, loops, b)]
    ELSE IF IsConditional(f, b) /\ ~HasBackedge(loops, b) THEN [m EXCEPT !.merge[b] = f.succ[b][2]]
    ELSE m

\* One block of PopulateStructuredCFGMaps: m.taken is LoopMergesAndContinues.
RecordMerge(loops, m, b) ==
    IF IsLoopHeader(loops, b)
    THEN LET exit == ExitBlock(f, loops, b)
             latch == LoopLatch(f, loops, b)
         IN [m EXCEPT !.merge[b] = exit, !.continue[b] = latch, !.taken = @ \cup {exit, latch}]
    ELSE IF IsConditional(f, b) /\ ~HasBackedge(loops, b) /\ Successors(f, b) \cap m.taken = {}
    THEN [m EXCEPT !.merge[b] = f.succ[b][2]]
    ELSE m

StructuredCFGMaps ==
    LET none == [b \in Blocks(f) |-> 0]
        loops == LoopInfo(f)
    IN FoldLeft(LAMBDA m, b : RecordMerge(loops, m, b),
                [merge |-> none, continue |-> none, taken |-> {}], ComputeStructuredOrder)

Inst(op, block) == [op |-> op, block |-> block]
NeedsMerge(b) == merges.continue[b] # 0 \/ merges.merge[b] # 0

\* The label, what can be generated at once, and placeholders for the rest.
BlockInsts(b) ==
    <<Inst("Label", b)>>
        \o (IF f.phi[b] = <<>> THEN <<>> ELSE <<Inst("Phi", b)>>)
        \o (IF b \in f.code THEN <<Inst("Code", b)>> ELSE <<>>)
        \o (IF NeedsMerge(b) THEN <<Inst("Branch", b), Inst("Branch", b)>> ELSE <<Inst("Branch", b)>>)
Placeholder == [op |-> "ExtInst"]
IsDeferred(inst) == inst.op \in {"Phi", "Branch"}

\* GenerateFuncBody: [code, deferred], a deferred instruction with its placeholder.
FuncBody ==
    LET insts == FlattenSeq([i \in DOMAIN order |-> BlockInsts(order[i])])
        places == SelectSeq([i \in DOMAIN insts |-> i], LAMBDA i : IsDeferred(insts[i]))
    IN [code |-> [i \in DOMAIN insts |-> IF IsDeferred(insts[i]) THEN Placeholder ELSE insts[i]],
        deferred |-> [i \in DOMAIN places |-> [inst |-> insts[places[i]], placeholder |-> places[i]]]]

BranchInst(b) ==
    [op |-> IF IsConditional(f, b) THEN "BranchConditional" ELSE "Branch", targets |-> f.succ[b]]
MergeInst(b) ==
    IF merges.continue[b] # 0
    THEN [op |-> "LoopMerge", merge |-> merges.merge[b], continue |-> merges.continue[b]]
    ELSE [op |-> "SelectionMerge", merge |-> merges.merge[b]]
PhiInst(b) == [op |-> "Phi", incoming |-> f.phi[b]]

\* One instruction of HandleDeferredInstruction; a merge takes a placeholder more.
HandleDeferred(h, i) ==
    LET b == deferred[i].inst.block
        place == deferred[i].placeholder
    IN IF i < h.next THEN h
       ELSE IF deferred[i].inst.op = "Phi"
       THEN [next |-> i + 1, code |-> [h.code EXCEPT ![place] = PhiInst(b)]]
       ELSE IF NeedsMerge(b)
       THEN [next |-> i + 2, code |-> [h.code EXCEPT ![place] = MergeInst(b),
                                                     ![deferred[i + 1].placeholder] = BranchInst(b)]]
       ELSE [next |-> i + 1, code |-> [h.code EXCEPT ![place] = BranchInst(b)]]

------------------------------------------------------------------------------
(* Running. *)

Value(v, values) == IF v[1] = "phi" THEN values[v[2]] ELSE v

\* The phi of block b on the way from block from.
Entered(from, b) ==
    IF f.phi[b] = <<>> THEN phiValues
    ELSE LET in == CHOOSE in \in ToSet(f.phi[b]) : in.block = from
         IN (b :> Value(in.value, phiValues)) @@ phiValues

CFInit ==
    /\ structurized \in Functions
    /\ hackBlockOrder \in BlockOrders
    /\ phase = "structurized" /\ f = structurized
    /\ order = <<>> /\ merges = <<>> /\ code = <<>> /\ deferred = <<>>
    /\ at = [before |-> 1, now |-> 1] /\ last = Undef /\ phiValues = [b \in {} |-> Undef]

\* The pass does the four in this order.
Fixup(from, to, part) ==
    /\ phase = from /\ phase' = to
    /\ f' = part
    /\ UNCHANGED <<structurized, hackBlockOrder, order, merges, code, deferred, runVars>>

ReorderBasicBlocks ==
    /\ phase = "fixed" /\ phase' = "reordered"
    /\ order' = IF hackBlockOrder THEN ComputeStructuredOrder ELSE VisitDominated(Dominators(f), 1)
    /\ UNCHANGED <<structurized, f, hackBlockOrder, merges, code, deferred, runVars>>

PopulateStructuredCFGMaps ==
    /\ phase = "reordered" /\ phase' = "maps"
    /\ IsReachable
    /\ merges' = StructuredCFGMaps
    /\ UNCHANGED <<structurized, f, hackBlockOrder, order, code, deferred, runVars>>

GenerateFuncBody ==
    /\ phase = "maps" /\ phase' = "body"
    /\ code' = FuncBody.code /\ deferred' = FuncBody.deferred
    /\ UNCHANGED <<structurized, f, hackBlockOrder, order, merges, runVars>>

HandleDeferredInstruction ==
    /\ phase = "body" /\ phase' = "generated"
    /\ code' = FoldLeft(HandleDeferred, [next |-> 1, code |-> code],
                        [i \in DOMAIN deferred |-> i]).code
    /\ UNCHANGED <<structurized, f, hackBlockOrder, order, merges, deferred, runVars>>

\* What the passes made runs even if it has a loop the producer does not take.
CanRun == phase \in {"generated", "running"} \/ (phase = "reordered" /\ ~IsReachable)

GoTo(before, now) ==
    /\ at' = [before |-> before, now |-> now]
    /\ phiValues' = Entered(at.now, now)
    /\ phase' = "running"
    /\ UNCHANGED compileVars

FollowBranchOfPass ==
    /\ CanRun /\ f.branch[at.now] = 0 /\ f.succ[at.now] # <<>>
    /\ GoTo(at.before, f.succ[at.now][1])
    /\ UNCHANGED last

FollowBranch ==
    /\ CanRun /\ f.branch[at.now] # 0
    /\ \E i \in DOMAIN structurized.succ[at.before] \cap DOMAIN f.succ[at.now] :
        GoTo(structurized.succ[at.before][i], f.succ[at.now][i])
    /\ last' = IF at.before \in structurized.defines THEN Defined(at.before) ELSE last

CFNext ==
    \/ Fixup("structurized", "isolated", IsolateContinue(f))
    \/ Fixup("isolated", "latches", IsolateConvergentLatch(f))
    \/ Fixup("latches", "headers", BreakConditionalHeader(f))
    \/ Fixup("headers", "fixed", RemoveUndefPHI(f))
    \/ ReorderBasicBlocks
    \/ PopulateStructuredCFGMaps
    \/ GenerateFuncBody
    \/ HandleDeferredInstruction
    \/ FollowBranchOfPass
    \/ FollowBranch

CFSpec == CFInit /\ [][CFNext]_cfVars

------------------------------------------------------------------------------
(* The SPIR-V function as its instructions say. *)

Labels == {i \in DOMAIN code : code[i].op = "Label"}
LabelOf(i) == code[CHOOSE l \in Labels : l <= i /\ \A k \in Labels : k <= i => k <= l].block
InstsOf(op) == {i \in DOMAIN code : code[i].op = op}
BranchInsts == InstsOf("Branch") \cup InstsOf("BranchConditional")
Emitted ==
    [succ |-> [b \in Blocks(f) |->
        LET own == {i \in BranchInsts : LabelOf(i) = b}
        IN IF Cardinality(own) = 1 THEN code[CHOOSE i \in own : TRUE].targets ELSE <<>>]]
\* Merge instructions that come right before the branch of their block, by block.
MergesOf(op) ==
    LET good == {i \in InstsOf(op) : i + 1 \in BranchInsts}
    IN [b \in {LabelOf(i) : i \in good} |-> code[CHOOSE i \in good : LabelOf(i) = b]]

(* 2.11 of the SPIR-V specification, "Structured Control Flow": constructs are   *)
(* sets of blocks that dominance gives, entered at their header and left only    *)
(* for where their merge instruction, or that of a loop around them, says.       *)
IsStructured(g) ==
    LET dom == Dominators(g)
        DominatedBy(b) == {c \in Blocks(g) : b \in dom[c]}
        loopMerge == MergesOf("LoopMerge")
        selection == MergesOf("SelectionMerge")
        loops == DOMAIN loopMerge
        backEdges == {<<p, h>> \in Blocks(g) \X Blocks(g) : h \in Successors(g, p) /\ h \in dom[p]}
        MergeOf(h) == IF h \in loops THEN loopMerge[h].merge ELSE selection[h].merge
        Construct(h) == DominatedBy(h) \ DominatedBy(MergeOf(h))
        around(b) == {h \in loops : b \in Construct(h)}
        innermost(b) == {h \in around(b) : \A k \in around(b) : Construct(h) \subseteq Construct(k)}
        Exits(b) == UNION {{loopMerge[h].merge, loopMerge[h].continue, h} : h \in innermost(b)}
        headers == loops \cup DOMAIN selection
    IN /\ loops \cap DOMAIN selection = {}
       /\ \A e \in backEdges : e[2] \in loops
       /\ \A h \in loops :
            /\ Cardinality({e \in backEdges : e[2] = h}) = 1
            /\ h \in dom[loopMerge[h].continue]
            /\ \A e \in backEdges : e[2] = h => loopMerge[h].continue \in dom[e[1]]
            /\ IsConditional(g, h) =>
                 Successors(g, h) \cap {loopMerge[h].merge, loopMerge[h].continue} # {}
       /\ \A h \in headers :
            /\ h \in dom[MergeOf(h)] /\ h # MergeOf(h)
            /\ \A k \in headers \ {h} : MergeOf(k) # MergeOf(h)
            /\ \A k \in loops : MergeOf(h) = loopMerge[k].continue => MergeOf(h) = k   \* a loop of one block
            /\ \A b \in Construct(h) : \A s \in Successors(g, b) \ Construct(h) :
                 s = MergeOf(h) \/ s \in Exits(h)
       /\ \A b \in Blocks(g) \ headers :
            IsConditional(g, b) => Cardinality(Successors(g, b) \ Exits(b)) <= 1

\* Definitions come before their uses: blocks before those they dominate, and what
\* a phi takes from a block is known at its end.
IsInOrder(g) ==
    LET dom == Dominators(g)
        labels == [b \in Blocks(g) |-> {i \in Labels : code[i].block = b}]
    IN /\ \A b \in Blocks(g) : Cardinality(labels[b]) = 1
       /\ \A b \in Blocks(g), d \in Blocks(g) :
            d \in dom[b] => \A i \in labels[d], j \in labels[b] : i <= j
       /\ \A i \in InstsOf("Phi") :
            /\ {in.block : in \in ToSet(code[i].incoming)} = Preds(g, LabelOf(i))
            /\ Len(code[i].incoming) = Cardinality(Preds(g, LabelOf(i)))
            /\ \A in \in ToSet(code[i].incoming) :
                 in.value # Undef => in.value[2] \in dom[in.block]

\* A latch with a convergent call where the header and one other block meet.
\* The pass looks no further.
ConvergentMeetsHeader(g) ==
    \E h \in DOMAIN MergesOf("LoopMerge") :
        LET latch == MergesOf("LoopMerge")[h].continue
        IN /\ latch \in f.convergent /\ latch # h
           /\ Cardinality(Preds(g, latch)) = 2 /\ h \in Preds(g, latch)

(* What is generated has the structure Vulkan asks of it: each loop and selection
   declares where it merges, in blocks that are no other's, control flow enters
   and leaves them only there, a convergent call is not where the ways from a
   header meet unmerged, and definitions come before what they dominate. *)
ControlFlowIsStructured ==
    phase = "generated" =>
        /\ InstsOf("ExtInst") = {}
        /\ IsStructured(Emitted)
        /\ IsInOrder(Emitted)
        /\ ~ConvergentMeetsHeader(Emitted)

(* The function goes the way it would have gone before the passes, and its code
   reads there, through what is left of the phis, what was defined last. *)
ExecutesTheSame ==
    CanRun =>
        /\ f.branch[at.now] # 0 => f.branch[at.now] = at.before
        /\ at.now \in Blocks(structurized) => at.now = at.before
        /\ at.now \in f.code /\ last # Undef => Value(f.reads[at.now], phiValues) = last
===============================================================================

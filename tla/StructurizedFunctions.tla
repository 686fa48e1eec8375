------------------------- MODULE StructurizedFunctions -------------------------
(***************************************************************************)
(* Functions as StructurizeCFG makes them, for TLC.  Items follow each     *)
(* other from the open block.  The branch of an If takes its body or skips *)
(* it; the branch at the end of a Loop leaves it or goes back.  own: the   *)
(* item begins with a block of its own.                                    *)
(***************************************************************************)
EXTENDS FixupStructuredCFG, TLC

Code(own) == [kind |-> "code", own |-> own, body |-> <<>>]
If(own, body) == [kind |-> "if", own |-> own, body |-> body]
Loop(own, body) == [kind |-> "loop", own |-> own, body |-> body]

Open(g, from, targets) ==     \* a new open block, and the branch of the block from
    [g EXCEPT !.open = Len(g.succ) + 1, !.succ = Append([g.succ EXCEPT ![from] = targets], <<>>)]
Begun(g, own) == IF own THEN Open(g, g.open, <<Len(g.succ) + 1>>) ELSE g

RECURSIVE Wired(_, _)
WiredItem(g, item) ==
    LET b == Begun(g, item.own)
        inIf == Wired(Open(b, b.open, <<Len(b.succ) + 1>>), item.body)
        merge == Len(inIf.succ) + 1
        inLoop == Wired([b EXCEPT !.loops = @ \cup {b.open}], item.body)
    IN CASE item.kind = "code" -> [b EXCEPT !.code = @ \cup {b.open}]
         [] item.kind = "if" ->
              LET done == Open(inIf, inIf.open, <<merge>>)
              IN [done EXCEPT !.succ[b.open] = Append(@, merge)]
         [] item.kind = "loop" ->
              Open(inLoop, inLoop.open, <<Len(inLoop.succ) + 1, b.open>>)
Wired(g, items) == FoldLeft(WiredItem, g, items)

Start == [succ |-> <<<<>>>>, open |-> 1, code |-> {}, loops |-> {}]

\* Code is put in an empty block, and a loop begins at no other's header.
RECURSIVE IsWireable(_, _)
IsWireable(g, items) ==
    items = <<>> \/
    LET item == Head(items)
        b == Begun(g, item.own)
    IN /\ (b.open \notin b.code) \/ item.kind = "if"
       /\ item.kind = "loop" => b.open \notin b.loops \cup {1}
       /\ item.kind = "loop" => IsWireable([b EXCEPT !.loops = @ \cup {b.open}], item.body)
       /\ item.kind = "if" => IsWireable(Open(b, b.open, <<>>), item.body)
       /\ IsWireable(WiredItem(g, item), Tail(items))

UpToTwo(S) == {<<x>> : x \in S} \cup {<<x, y>> : x, y \in S}
Around(Bodies) == {If(o, b) : o \in BOOLEAN, b \in Bodies} \cup {Loop(o, b) : o \in BOOLEAN, b \in Bodies}
Flat == {<<Code(FALSE)>>}
Nested == {<<Code(FALSE), i>> : i \in Around(Flat)}
Bodies == UpToTwo({Code(TRUE), Code(FALSE)} \cup Around(Flat))
            \cup {<<Code(FALSE), Loop(TRUE, b)>> : b \in Nested}
Shapes == {<<Code(FALSE), i, Code(FALSE)>> : i \in Around(Bodies)}
            \cup {<<Code(FALSE), i, j, Code(FALSE)>> : i \in Around(Flat), j \in Around(Flat \cup Nested)}
Structurized == {Wired(Start, s) : s \in {t \in Shapes : IsWireable(Start, t)}}

\* Graphs of test/FixupStructuredCFG, all blocks with code.
Graph(succ) == [succ |-> succ, code |-> DOMAIN succ]
Tests ==
    {Graph(<<<<2>>, <<3, 4>>, <<3, 4>>, <<2, 5>>, <<>>>>),              \* single_block_loop_phi
     Graph(<<<<2>>, <<3, 5>>, <<4, 5>>, <<3, 5>>, <<2, 6>>, <<>>>>),    \* multiple_inner_loop_phi_values
     Graph(<<<<2>>, <<3>>, <<4>>, <<4, 5>>, <<3, 6>>, <<2, 7>>, <<>>>>),  \* nested_loop_isolate_continue
     Graph(<<<<2>>, <<3, 4>>, <<4, 5>>, <<2>>, <<>>>>),                 \* split_convergent_continue_branch
     Graph(<<<<2>>, <<3, 4>>, <<4>>, <<2, 5>>, <<>>>>)}                 \* split_convergent_continue_cond_branch

------------------------------------------------------------------------------
(* The variable that is followed is defined in the blocks of defines; SSA has a phi
   wherever ways meet. *)

WithPhis(g, defines) ==
    LET in[b \in Blocks(g)] ==
            IF Cardinality(Preds(g, b)) > 1 THEN Phi(b)
            ELSE IF b = 1 THEN Undef
            ELSE LET p == TheOnly(Preds(g, b)) IN IF p \in defines THEN Defined(p) ELSE in[p]
        out(p) == IF p \in defines THEN Defined(p) ELSE in[p]
        phi(b) == LET preds == SetToSortSeq(Preds(g, b), LAMBDA p, q : p < q)
                  IN AsTuple([i \in DOMAIN preds |-> Incoming(preds[i], out(preds[i]))])
    IN [succ |-> g.succ, branch |-> AsTuple([b \in Blocks(g) |-> b]),
        phi |-> AsTuple([b \in Blocks(g) |-> IF Cardinality(Preds(g, b)) > 1 THEN phi(b) ELSE <<>>]),
        reads |-> AsTuple([b \in Blocks(g) |-> in[b]]),
        code |-> g.code, defines |-> defines, convergent |-> {}, pointer |-> FALSE]

\* A number every code defines, or a pointer one does; then calls may be convergent.
WithValues(g) ==
    {[WithPhis(g, g.code) EXCEPT !.convergent = c] : c \in {{}, g.code}}
        \cup {[WithPhis(g, {d}) EXCEPT !.pointer = TRUE] : d \in g.code \ {1}}

\* RemoveUndefPHI loses the pointers of some functions; they are left out.
KeepsPointers(f) ==
    ~MisjudgesPhi(BreakConditionalHeader(IsolateConvergentLatch(IsolateContinue(f))))

MCStructurizedFunctions == {f \in UNION {WithValues(g) : g \in Structurized \cup Tests} : KeepsPointers(f)}
===============================================================================

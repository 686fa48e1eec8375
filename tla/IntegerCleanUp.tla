---------------------------- MODULE IntegerCleanUp ----------------------------
(* The passes that undo what LLVM makes of integers and Vulkan, or a driver,
   does not have: UndoInstCombinePass (divisions), UndoBoolPass,
   UndoTruncateToOddIntegerPass and SignedCompareFixupPass.

   The body of a function is a sequence of instructions, in no particular
   order; they refer to each other by number. The instructions of a pass are
   added at the end and those erased stay as "erased". *)
EXTENDS WordArithmetic, Sequences
LOCAL INSTANCE SequencesExt

CONSTANTS
  Bodies,        \* the functions to compile
  Inputs         \* their arguments, for the properties: a, b and which edge phis take

VARIABLES
  body,          \* [op, width, args, flag, num]: flag is a predicate or nuw, nsw
  todo,          \* the passes to come
  hackSCF,       \* -hack-scf
  workList,      \* of UndoTruncateToOddInteger: <<instruction, width>>, the last first
  extended_value,
  zombies,
  written        \* history: the body before the passes

cleanUpVars == <<body, todo, hackSCF, workList, extended_value, zombies, written>>

Null == [kind |-> "null", num |-> 0, width |-> 0]
Const(n, w) == [kind |-> "const", num |-> n, width |-> w]
Inst(i) == [kind |-> "inst", num |-> i, width |-> 0]
New(op, w, args) == [op |-> op, width |-> w, args |-> args, flag |-> "", num |-> 0]
Flagged(flag, inst) == [inst EXCEPT !.flag = flag]

Bool1 == 1
Char == WordBits \div 4
LegalWidths == {Bool1, Char, 2 * Char, WordBits, 2 * WordBits}

IsInst(b, r, ops) == r.kind = "inst" /\ b[r.num].op \in ops
WidthOf(b, r) == IF r.kind = "inst" THEN b[r.num].width ELSE r.width
Users(b, i) == {j \in DOMAIN b : Inst(i) \in Range(b[j].args)}
ReplaceAllUsesWith(b, i, r) ==
  [j \in DOMAIN b |-> [b[j] EXCEPT !.args = [k \in DOMAIN @ |-> IF @[k] = Inst(i) THEN r ELSE @[k]]]]
Erase(b, i) == [b EXCEPT ![i] = New("erased", 0, <<>>)]
EraseIfUnused(b, i) == IF Users(b, i) = {} THEN Erase(b, i) ELSE b

------------------------------------------------------------------------------
(* UndoInstCombinePass::UndoNarrowedIntDiv: the division of two numbers made
   narrow is done on the wide ones. *)
DivisionsOf(cast) == IF cast.op = "sext" THEN {"sdiv", "srem"} ELSE {"udiv", "urem"}
NoWrap(cast) == IF cast.op = "sext" THEN "nsw" ELSE "nuw"

IsNarrowedIntDiv(b, i) ==
  /\ b[i].op \in {"sext", "zext"}
  /\ IsInst(b, b[i].args[1], DivisionsOf(b[i]))
  /\ b[i].width <= WordBits

\* get_widened_operand, the first part: what the number was before
Unnarrowed(b, cast, r) ==
  IF /\ IsInst(b, r, {"trunc"})
     /\ b[r.num].flag = NoWrap(cast)
     /\ WidthOf(b, b[r.num].args[1]) = cast.width
  THEN b[r.num].args[1] ELSE Null

UndoNarrowedIntDiv(b, i) ==
  LET cast == b[i]
      division == b[cast.args[1].num]
      wide(k) == Unnarrowed(b, cast, division.args[k])
      Widen(c, k) == IF wide(k) # Null THEN c ELSE Append(c, New(cast.op, cast.width, <<division.args[k]>>))
      both == Widen(Widen(b, 1), 2)
      operand(k, n) == IF wide(k) # Null THEN wide(k) ELSE Inst(n)
      lhs == operand(1, Len(b) + 1)
      made == Append(both, New(division.op, cast.width, <<lhs, operand(2, Len(both))>>))
  IN EraseIfUnused(Erase(ReplaceAllUsesWith(made, i, Inst(Len(made))), i), cast.args[1].num)

UndoInstCombine ==
  /\ todo # <<>> /\ Head(todo) = "UndoInstCombine"
  /\ LET found == {i \in DOMAIN body : IsNarrowedIntDiv(body, i)}
     IN IF found = {} THEN UNCHANGED body /\ todo' = Tail(todo)
        ELSE body' = UndoNarrowedIntDiv(body, CHOOSE i \in found : \A j \in found : i <= j)
             /\ UNCHANGED todo
  /\ UNCHANGED <<hackSCF, workList, extended_value, zombies, written>>

------------------------------------------------------------------------------
(* UndoBoolPass: a truth value made a char and then one again is taken as it
   was. *)
BoolAsChar(b) == {i \in DOMAIN b : b[i].op = "zext" /\ b[i].width = Char /\ WidthOf(b, b[i].args[1]) = Bool1}
CharAsBool(b, i) == {j \in Users(b, i) : b[j].op = "trunc" /\ b[j].width = Bool1}

UndoBoolIn(b, i) ==
  LET toReplace == CharAsBool(b, i)
      replaced == FoldSet(LAMBDA j, c : Erase(ReplaceAllUsesWith(c, j, b[i].args[1]), j), b, toReplace)
  IN EraseIfUnused(replaced, i)

UndoBool ==
  /\ todo # <<>> /\ Head(todo) = "UndoBool"
  /\ body' = FoldSet(LAMBDA i, c : UndoBoolIn(c, i), body, BoolAsChar(body))
  /\ todo' = Tail(todo)
  /\ UNCHANGED <<hackSCF, workList, extended_value, zombies, written>>

------------------------------------------------------------------------------
(* UndoTruncateToOddIntegerPass::ZeroExtend: the value v in d bits, the bits
   above its own zero. s is what the recursion changes, result what it returns.
   What is extended already is returned whatever d is. Numbers of more than
   WordBits bits are not met ("Unhandled bit width"). *)
Made(s, inst) == [s EXCEPT !.b = Append(@, inst), !.result = Inst(Len(s.b) + 1)]
Masked(s, width, d) == Made(s, New("and", d, <<s.result, Const(AllOnes(width), d)>>))

Noted(s, v) ==
  IF s.result = Null THEN s
  ELSE [s EXCEPT !.ext = [i \in DOMAIN @ \cup {v.num} |-> IF i = v.num THEN s.result ELSE @[i]],
                 !.dead = IF s.result = v \/ v.num \in Range(@) THEN @ ELSE Append(@, v.num)]

RECURSIVE ZeroExtend(_, _, _)

ZeroExtendAll(s, refs, d) ==
  FoldLeft(LAMBDA t, r : LET u == ZeroExtend(t.s, r, d) IN [s |-> u, refs |-> Append(t.refs, u.result)],
           [s |-> s, refs |-> <<>>], refs)

ZeroExtendTrunc(s, inst, d) ==
  LET input == inst.args[1]
      width == WidthOf(s.b, input)
  IN Masked(IF width > d THEN Made(s, New("trunc", d, <<input>>))
            ELSE IF width = d THEN [s EXCEPT !.result = input]
            ELSE Made(s, New("zext", d, <<input>>)), inst.width, d)

ZeroExtendZExt(s, v, d) ==
  LET inst == s.b[v.num]
      t == ZeroExtend(s, inst.args[1], d)
  IN IF inst.width < d THEN Made(t, New("trunc", inst.width, <<t.result>>))
     ELSE IF inst.width > d THEN [t EXCEPT !.b[v.num].args = <<t.result>>, !.result = v]
     ELSE t

\* Wrong variant: what overflows the odd width stays.
ZeroExtendBinary_Unmasked(s, inst, d) ==
  LET t == ZeroExtendAll(s, inst.args, d)
  IN Made(t.s, New(inst.op, d, t.refs))

ZeroExtendBinary(s, inst, d) ==
  LET t == ZeroExtendAll(s, inst.args, d)
      made == Made(t.s, New(inst.op, d, t.refs))
  IN IF inst.op \in {"add", "sub", "mul"} THEN Masked(made, inst.width, d) ELSE made

ZeroExtendChoice(s, inst, d) ==
  LET fixed == IF inst.op = "select" THEN 1 ELSE 0    \* the condition stays
      t == ZeroExtendAll(s, SubSeq(inst.args, fixed + 1, Len(inst.args)), d)
  IN Made(t.s, New(inst.op, d, SubSeq(inst.args, 1, fixed) \o t.refs))

\* Any other instruction, and switch: it gets the extended operands.
ZeroExtendOperands(s, v, d) ==
  LET args == s.b[v.num].args
      t == ZeroExtendAll(s, args, d)
  IN [t.s EXCEPT !.b[v.num].args = [k \in DOMAIN args |-> IF t.refs[k] = Null THEN args[k] ELSE t.refs[k]],
                 !.result = Null]

ZeroExtend(s, v, d) ==
  IF v.kind = "inst" /\ v.num \in DOMAIN s.ext THEN [s EXCEPT !.result = s.ext[v.num]]
  ELSE IF WidthOf(s.b, v) = d /\ ~IsInst(s.b, v, {"zext"}) THEN [s EXCEPT !.result = v]
  ELSE IF v.kind = "const" THEN [s EXCEPT !.result = Const(v.num, d)]
  ELSE LET inst == s.b[v.num] IN
       Noted(CASE inst.op = "trunc" -> ZeroExtendTrunc(s, inst, d)
               [] inst.op = "zext" -> ZeroExtendZExt(s, v, d)
               [] inst.op \in {"add", "sub", "mul", "and", "or", "xor"} -> ZeroExtendBinary(s, inst, d)
               [] inst.op \in {"select", "phi"} -> ZeroExtendChoice(s, inst, d)
               [] OTHER -> ZeroExtendOperands(s, v, d), v)

RECURSIVE PowerOf2Ceil(_)
PowerOf2Ceil(n) == IF n <= 1 THEN 1 ELSE 2 * PowerOf2Ceil((n + 1) \div 2)

InOrder(S) == SetToSortSeq(S, <)

UndoTruncates ==
  /\ todo # <<>> /\ Head(todo) = "UndoTruncateToOddInteger"
  /\ workList' =
       LET odd == {i \in DOMAIN body : body[i].op = "trunc" /\ body[i].width \notin LegalWidths}
       IN [k \in DOMAIN InOrder(odd) |->
             <<InOrder(odd)[k], PowerOf2Ceil(WidthOf(body, body[InOrder(odd)[k]].args[1]))>>]
  /\ todo' = <<"ZeroExtend">> \o Tail(todo)
  /\ UNCHANGED <<body, hackSCF, extended_value, zombies, written>>

ExtendNext ==
  /\ todo # <<>> /\ Head(todo) = "ZeroExtend"
  /\ workList # <<>>
  /\ LET inst == Last(workList)[1]
         desired == Last(workList)[2]
         s == ZeroExtend([b |-> body, ext |-> extended_value, dead |-> zombies, result |-> Null],
                         Inst(inst), desired)
         users == InOrder(Users(s.b, inst))
     IN /\ body' = s.b /\ extended_value' = s.ext /\ zombies' = s.dead
        /\ workList' = Front(workList)
                         \o (IF s.result \in {Null, Inst(inst)} THEN <<>>
                             ELSE [k \in DOMAIN users |-> <<users[k], desired>>])
  /\ UNCHANGED <<todo, hackSCF, written>>

\* From the last one added to the first.
EraseZombies ==
  /\ todo # <<>> /\ Head(todo) = "ZeroExtend"
  /\ workList = <<>>
  /\ body' = FoldRight(LAMBDA i, b : EraseIfUnused(b, i), zombies, body)
  /\ todo' = Tail(todo)
  /\ UNCHANGED <<hackSCF, workList, extended_value, zombies, written>>

------------------------------------------------------------------------------
(* SignedCompareFixupPass: signed minima, maxima and clamps become comparisons,
   and signed comparisons the sign of a difference. *)
SignedPredicates == {"sgt", "sge", "slt", "sle"}

\* ReplaceBuiltin: each comparison with the choice it makes.
ReplaceBuiltin(b, i) ==
  LET inst == b[i]
      w == inst.width
      x == inst.args[1]
      y == inst.args[2]
      Compared(c, l, r, yes, no) ==
        c \o <<Flagged("slt", New("icmp", Bool1, <<l, r>>)), New("select", w, <<Inst(Len(c) + 1), yes, no>>)>>
      made == CASE inst.op = "smin" -> Compared(b, y, x, y, x)
                [] inst.op = "smax" -> Compared(b, x, y, y, x)
                [] inst.op = "clamp" -> LET low == Compared(b, x, y, y, x)
                                        IN Compared(low, inst.args[3], x, inst.args[3], Inst(Len(low)))
  IN Erase(ReplaceAllUsesWith(made, i, Inst(Len(made))), i)

FixupCompare(b, i) ==
  LET greater == b[i].flag \in {"sgt", "sge"}
      x == IF greater THEN b[i].args[1] ELSE b[i].args[2]
      y == IF greater THEN b[i].args[2] ELSE b[i].args[1]
      w == WidthOf(b, b[i].args[1])
      diff == Append(b, New("sub", w, <<x, y>>))
      one_less == IF b[i].flag \in {"sgt", "slt"}
                  THEN Append(diff, New("sub", w, <<Inst(Len(diff)), Const(1, w)>>)) ELSE diff
      sign == Append(one_less, New("and", w, <<Inst(Len(one_less)), Const(SignedMin(w), w)>>))
      made == Append(sign, Flagged("eq", New("icmp", Bool1, <<Inst(Len(sign)), Const(0, w)>>)))
  IN Erase(ReplaceAllUsesWith(made, i, Inst(Len(made))), i)

SignedCompareFixup ==
  /\ todo # <<>> /\ Head(todo) = "SignedCompareFixup"
  /\ LET calls == {i \in DOMAIN body : body[i].op \in {"smin", "smax", "clamp"}}
         compares == FoldSet(LAMBDA i, b : ReplaceBuiltin(b, i), body, calls)
     IN body' = IF ~hackSCF THEN body
                ELSE FoldSet(LAMBDA i, b : FixupCompare(b, i), compares,
                             {i \in DOMAIN compares : compares[i].op = "icmp" /\ compares[i].flag \in SignedPredicates})
  /\ todo' = Tail(todo)
  /\ UNCHANGED <<hackSCF, workList, extended_value, zombies, written>>

------------------------------------------------------------------------------
CleanUpInit ==
  /\ body \in Bodies
  /\ hackSCF \in BOOLEAN
  /\ todo = <<"UndoInstCombine", "UndoBool", "UndoTruncateToOddInteger", "SignedCompareFixup">>
  /\ workList = <<>> /\ extended_value = <<>> /\ zombies = <<>>
  /\ written = body

CleanUpNext == UndoInstCombine \/ UndoBool \/ UndoTruncates \/ ExtendNext \/ EraseZombies \/ SignedCompareFixup

------------------------------------------------------------------------------
(* What instructions compute. *)
Abs(x) == IF x < 0 THEN -x ELSE x

Quotient(x, y) == LET q == Abs(x) \div Abs(y) IN IF (x < 0) = (y < 0) THEN q ELSE -q

Divided(op, n, x, y) ==
  LET signed == op \in {"sdiv", "srem"}
      p == IF signed THEN Signed(n, x) ELSE x
      q == IF signed THEN Signed(n, y) ELSE y
  IN IF y = 0 \/ (signed /\ x = SignedMin(n) /\ y = AllOnes(n)) THEN Undefined
     ELSE (IF op \in {"udiv", "sdiv"} THEN Quotient(p, q) ELSE p - q * Quotient(p, q)) % Modulus(n)

Compares(flag, n, x, y) ==
  LET p == Signed(n, x)
      q == Signed(n, y)
  IN CASE flag = "eq" -> x = y [] flag = "ult" -> x < y
       [] flag = "sgt" -> p > q [] flag = "sge" -> p >= q [] flag = "slt" -> p < q [] flag = "sle" -> p <= q

Computed(inst, n, a) ==
  LET w == inst.width
      first(k) == Signed(w, a[k])
  IN CASE inst.op = "trunc" ->
            IF \/ inst.flag = "nuw" /\ a[1] > AllOnes(w)
               \/ inst.flag = "nsw" /\ SExt(w, n, Trunc(w, a[1])) # a[1]
            THEN Undefined ELSE Trunc(w, a[1])
       [] inst.op \in {"zext", "ret"} -> a[1]
       [] inst.op = "sext" -> SExt(n, w, a[1])
       [] inst.op = "add" -> Add(w, a[1], a[2])
       [] inst.op = "sub" -> Sub(w, a[1], a[2])
       [] inst.op = "mul" -> Mul(w, a[1], a[2])
       [] inst.op = "and" -> a[1] & a[2]
       [] inst.op = "or" -> a[1] | a[2]
       [] inst.op = "xor" -> a[1] ^^ a[2]
       [] inst.op \in {"udiv", "sdiv", "urem", "srem"} -> Divided(inst.op, w, a[1], a[2])
       [] inst.op = "icmp" -> Bool(Compares(inst.flag, n, a[1], a[2]))
       [] inst.op = "smin" -> IF first(1) < first(2) THEN a[1] ELSE a[2]
       [] inst.op = "smax" -> IF first(1) > first(2) THEN a[1] ELSE a[2]
       [] inst.op = "clamp" ->
            IF first(2) > first(3) THEN Undefined
            ELSE IF first(1) < first(2) THEN a[2] ELSE IF first(1) > first(3) THEN a[3] ELSE a[1]
       [] inst.op = "switch" ->     \* the first case that matches, if any
            LET matching == {k \in 2 .. Len(a) : a[k] = a[1]}
            IN IF matching = {} THEN 0 ELSE CHOOSE k \in matching : \A j \in matching : k <= j

RECURSIVE Value(_, _, _)
Value(b, r, in) ==
  IF r.kind = "const" THEN r.num
  ELSE LET inst == b[r.num]
           arg(k) == Value(b, inst.args[k], in)
           all == [k \in DOMAIN inst.args |-> arg(k)]
       IN CASE inst.op = "arg" -> in.args[inst.num]
            [] inst.op = "phi" -> arg(in.edge)
            [] inst.op = "select" ->
                 LET c == arg(1) IN IF c = Undefined THEN c ELSE IF c = 1 THEN arg(2) ELSE arg(3)
            [] OTHER -> IF Undefined \in Range(all) THEN Undefined
                        ELSE Computed(inst, WidthOf(b, inst.args[1]), all)

Outcome(b, in) == Value(b, Inst(CHOOSE i \in DOMAIN b : b[i].op \in {"ret", "switch"}), in)

IsWellTyped(b, inst) ==
  LET w(k) == WidthOf(b, inst.args[k])
      same == \A k \in DOMAIN inst.args : w(k) = w(1)
  IN CASE inst.op \in {"arg", "erased"} -> TRUE
       [] inst.op = "trunc" -> w(1) > inst.width
       [] inst.op \in {"zext", "sext"} -> w(1) < inst.width
       [] inst.op \in {"icmp", "switch"} -> same
       [] inst.op = "select" -> w(1) = Bool1 /\ w(2) = inst.width /\ w(3) = inst.width
       [] inst.op = "ret" -> w(1) = inst.num
       [] OTHER -> same /\ w(1) = inst.width

(* SignedCompareFixupPass takes the sign of a difference for its sign, which it
   is unless the difference overflows. *)
DifferencesFit(b, in) ==
  \A i \in DOMAIN b :
    LET w == WidthOf(b, b[i].args[1])
        num(k) == Signed(w, Value(b, b[i].args[k], in))
    IN b[i].flag \in SignedPredicates \/ b[i].op \in {"smin", "smax", "clamp"} =>
         \A k \in 2 .. Len(b[i].args) : Abs(num(1) - num(k)) <= SignedMax(w)

(* No integer of an odd width is left, and the function computes what it did
   wherever LLVM defines it. *)
CleanedUpComputesTheSame ==
  todo = <<>> =>
    /\ \A i \in DOMAIN body : body[i].width \in LegalWidths \cup {0} /\ IsWellTyped(body, body[i])
    /\ \A in \in Inputs :
         Outcome(written, in) # Undefined /\ (hackSCF => DifferencesFit(written, in)) =>
           Outcome(body, in) = Outcome(written, in)
==============================================================================

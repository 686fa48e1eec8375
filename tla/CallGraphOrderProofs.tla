------------------------- MODULE CallGraphOrderProofs -------------------------
(* Functions are ordered callers first, for every module: any number of
   functions, any kernels, any call graph. Cycles are allowed; what is in one or
   behind one is not in the result. Without cycles the result has everything
   that is called, once. *)
EXTENDS CallGraphOrder, TLAPS

(* A prefix of the work list is a list of functions whose elements wait, too. *)
LEMMA PopLast ==
  ASSUME NEW S, NEW s \in Seq(S), s # <<>>
  PROVE  /\ s[Len(s)] \in S
         /\ SubSeq(s, 1, Len(s) - 1) \in Seq(S)
         /\ \A i \in DOMAIN SubSeq(s, 1, Len(s) - 1) :
              i \in DOMAIN s /\ SubSeq(s, 1, Len(s) - 1)[i] = s[i]
  OBVIOUS

(* Append keeps the elements and adds one at the end. *)
LEMMA AppendFacts ==
  ASSUME NEW S, NEW s \in Seq(S), NEW x \in S
  PROVE  /\ Append(s, x) \in Seq(S)
         /\ DOMAIN Append(s, x) = DOMAIN s \cup {Len(s) + 1}
         /\ \A i \in DOMAIN s : Append(s, x)[i] = s[i] /\ i < Len(s) + 1
         /\ Append(s, x)[Len(s) + 1] = x
  OBVIOUS

(* At the start no edge is erased and only kernels wait. *)
LEMMA InitIInv == Init => IInv
<1> SUFFICES ASSUME Init PROVE IInv
  OBVIOUS
<1> USE DEF Init
<1>1. PICK s \in KernelList : kernels = {s[i] : i \in DOMAIN s} /\ workList = s
  OBVIOUS
<1>2. s \in Seq(Function) /\ kernels \subseteq Function
  BY <1>1 DEF KernelList
<1>3. TypeOK
  BY <1>1, <1>2 DEF TypeOK, ReversedCalls
<1>4. ErasedIsVisited
  BY DEF ErasedIsVisited, ReversedCalls
<1>5. WaitingIsReady
  BY <1>1 DEF WaitingIsReady
<1>6. CallerIsVisited /\ CallersFirst
  BY DEF CallerIsVisited, CallersFirst
<1> QED
  BY <1>3, <1>4, <1>5, <1>6 DEF IInv

(* The function taken has all its callers in the result already. *)
LEMMA TakeCallerIInv == IInv /\ TakeCaller /\ UNCHANGED <<kernels, calls>> => IInv'
<1> SUFFICES ASSUME IInv, TakeCaller, UNCHANGED <<kernels, calls>> PROVE IInv'
  OBVIOUS
<1> USE DEF IInv
<1> DEFINE x == workList[Len(workList)]
<1>1. /\ x \in Function
      /\ workList' \in Seq(Function)
      /\ \A i \in DOMAIN workList' : i \in DOMAIN workList /\ workList'[i] = workList[i]
  BY PopLast DEF TakeCaller, TypeOK
<1>2. caller' = x /\ reverseEdges' = reverseEdges
  BY DEF TakeCaller
<1>3. TypeOK'
  <2>1. result' \in Seq(Function)
    BY <1>1, <1>2, AppendFacts DEF TakeCaller, TypeOK
  <2> QED
    BY <1>1, <2>1 DEF TypeOK, TakeCaller, CalleesOf
<1>4. Visited \subseteq Visited' /\ x \in Visited'
  <2>1. CASE x \in Visited
    BY <1>2, <2>1 DEF TakeCaller, Visited
  <2>2. CASE x \notin Visited
    <3>1. result' = Append(result, x)
      BY <1>2, <2>2 DEF TakeCaller
    <3>2. result \in Seq(Function)
      BY DEF TypeOK
    <3> QED
      BY <1>1, <3>1, <3>2, AppendFacts DEF Visited
  <2> QED
    BY <2>1, <2>2
<1>5. ErasedIsVisited'
  BY <1>2, <1>4 DEF ErasedIsVisited
<1>6. WaitingIsReady'
  BY <1>1, <1>2 DEF WaitingIsReady
<1>7. CallerIsVisited'
  BY <1>2, <1>4 DEF CallerIsVisited
<1>8. CallersFirst'
  <2>1. CASE x \in Visited
    BY <1>2, <2>1 DEF CallersFirst, TakeCaller
  <2>2. CASE x \notin Visited
    <3>1. result' = Append(result, x) /\ result \in Seq(Function)
      BY <1>2, <2>2 DEF TakeCaller, TypeOK
    <3>2. SUFFICES ASSUME NEW i \in DOMAIN result', result'[i] \notin kernels,
                          NEW f \in Function, <<f, result'[i]>> \in calls
                   PROVE  \E j \in DOMAIN result' : j < i /\ result'[j] = f
      BY DEF CallersFirst
    <3>3. CASE i \in DOMAIN result
      <4>1. result'[i] = result[i]
        BY <1>1, <3>1, <3>3, AppendFacts
      <4>2. PICK j \in DOMAIN result : j < i /\ result[j] = f
        BY <3>2, <3>3, <4>1 DEF CallersFirst
      <4> QED
        BY <1>1, <3>1, <4>2, AppendFacts
    <3>4. CASE i = Len(result) + 1
      <4>1. result'[i] = x
        BY <1>1, <3>1, <3>4, AppendFacts
      <4>2. Len(workList) \in DOMAIN workList
        BY DEF TakeCaller, TypeOK
      <4>3. <<x, f>> \notin reverseEdges
        BY <3>2, <4>1, <4>2 DEF WaitingIsReady
      <4>4. f \in Visited
        BY <1>1, <3>2, <4>1, <4>3 DEF ErasedIsVisited
      <4>5. PICK j \in DOMAIN result : result[j] = f
        BY <4>4 DEF Visited
      <4> QED
        BY <1>1, <3>1, <3>4, <4>5, AppendFacts
    <3> QED
      BY <1>1, <3>1, <3>3, <3>4, AppendFacts
  <2> QED
    BY <2>1, <2>2
<1> QED
  BY <1>3, <1>5, <1>6, <1>7, <1>8

(* Erasing an edge of the function being visited, which is in the result. *)
LEMMA VisitCalleeIInv ==
  ASSUME IInv, NEW g \in Function, VisitCallee(g), UNCHANGED <<kernels, calls>>
  PROVE  IInv'
<1> USE DEF IInv
<1>1. result' = result /\ Visited' = Visited /\ caller' = caller
  BY DEF VisitCallee, Visited
<1>2. caller \in Visited
  BY DEF CallerIsVisited, VisitCallee
<1>3. workList \in Seq(Function)
  BY DEF TypeOK
<1>4. TypeOK'
  <2>1. workList' \in Seq(Function)
    BY <1>3, AppendFacts DEF VisitCallee
  <2> QED
    BY <1>1, <2>1 DEF TypeOK, VisitCallee
<1>5. ErasedIsVisited'
  BY <1>1, <1>2 DEF ErasedIsVisited, VisitCallee
<1>6. WaitingIsReady'
  <2>1. reverseEdges' \subseteq reverseEdges
    BY DEF VisitCallee
  <2>2. CASE workList' = workList
    BY <2>1, <2>2 DEF WaitingIsReady
  <2>3. CASE workList' = Append(workList, g) /\ \A f \in Function : <<g, f>> \notin reverseEdges'
    <3> SUFFICES ASSUME NEW i \in DOMAIN workList'
                 PROVE  workList'[i] \in kernels' \/ \A f \in Function : <<workList'[i], f>> \notin reverseEdges'
      BY DEF WaitingIsReady
    <3>1. CASE i \in DOMAIN workList
      BY <1>3, <2>1, <2>3, <3>1, AppendFacts DEF WaitingIsReady
    <3>2. CASE i = Len(workList) + 1
      BY <1>3, <2>3, <3>2, AppendFacts
    <3> QED
      BY <1>3, <2>3, <3>1, <3>2, AppendFacts
  <2> QED
    BY <2>2, <2>3 DEF VisitCallee
<1>7. CallerIsVisited' /\ CallersFirst'
  BY <1>1, <1>2 DEF CallerIsVisited, CallersFirst
<1> QED
  BY <1>4, <1>5, <1>6, <1>7

(* The inductive invariant of CallGraphOrderedFunctions. *)
THEOREM OrderInvariant == Spec => []IInv
<1>1. IInv /\ [Next]_vars => IInv'
  <2> SUFFICES ASSUME IInv, [Next]_vars PROVE IInv'
    OBVIOUS
  <2>1. CASE TakeCaller /\ UNCHANGED <<kernels, calls>>
    BY <2>1, TakeCallerIInv
  <2>2. CASE \E g \in Function : VisitCallee(g) /\ UNCHANGED <<kernels, calls>>
    BY <2>2, VisitCalleeIInv
  <2>3. CASE UNCHANGED vars
    BY <2>3 DEF vars, orderVars, IInv, TypeOK, ErasedIsVisited, WaitingIsReady,
                CallerIsVisited, CallersFirst, Visited
  <2> QED
    BY <2>1, <2>2, <2>3 DEF Next, OrderStep
<1> QED
  BY <1>1, InitIInv, PTL DEF Spec

(* CallGraphOrderedFunctions puts every function that is no kernel after all its
   callers, for every module. *)
THEOREM OrderIsTopological == Spec => []CallersFirst
<1>1. IInv => CallersFirst
  BY DEF IInv
<1> QED
  BY <1>1, OrderInvariant, PTL

------------------------------------------------------------------------------
(* Nothing is forgotten: a kernel, or a function with a caller, is in the result,
   waits, or has a caller that was not visited. *)
IsKnown(f) == f \in kernels \/ \E g \in Function : <<g, f>> \in calls

OnlyKnown ==
  /\ \A i \in DOMAIN workList : IsKnown(workList[i])
  /\ \A i \in DOMAIN result : IsKnown(result[i])

CalleesAreCalled == \A g \in callees : <<caller, g>> \in calls

EdgesAreOpen ==
  \A f, g \in Function : <<g, f>> \in reverseEdges =>
    <<f, g>> \in calls /\ (f \in Visited => f = caller /\ g \in callees)

NotForgotten ==
  \A f \in Function : IsKnown(f) =>
    \/ f \in Visited
    \/ \E i \in DOMAIN workList : workList[i] = f
    \/ \E g \in Function : <<f, g>> \in reverseEdges

Once == \A i, j \in DOMAIN result : result[i] = result[j] => i = j

CompleteInv == OnlyKnown /\ CalleesAreCalled /\ EdgesAreOpen /\ NotForgotten /\ Once

(* At the start kernels wait, and every other function that is called has an edge. *)
LEMMA InitCompleteInv == Init => CompleteInv
<1> SUFFICES ASSUME Init PROVE CompleteInv
  OBVIOUS
<1> USE DEF Init
<1>1. PICK s \in KernelList : kernels = {s[i] : i \in DOMAIN s} /\ workList = s
  OBVIOUS
<1>2. OnlyKnown /\ CalleesAreCalled /\ Once
  BY <1>1 DEF OnlyKnown, CalleesAreCalled, Once, IsKnown
<1>3. EdgesAreOpen
  <2> SUFFICES ASSUME NEW f \in Function, NEW g \in Function, <<g, f>> \in reverseEdges
               PROVE  <<f, g>> \in calls /\ f \notin Visited
    BY DEF EdgesAreOpen
  <2>1. PICK c \in calls : <<g, f>> = <<c[2], c[1]>>
    BY DEF ReversedCalls
  <2>2. c = <<f, g>>
    BY <2>1
  <2> QED
    BY <2>2 DEF Visited
<1>4. NotForgotten
  <2> SUFFICES ASSUME NEW f \in Function, NEW g \in Function, <<g, f>> \in calls
               PROVE  <<f, g>> \in reverseEdges
    BY <1>1 DEF NotForgotten, IsKnown
  <2> QED
    BY DEF ReversedCalls
<1> QED
  BY <1>2, <1>3, <1>4 DEF CompleteInv

(* What was taken from the work list is in the result, once, and its edges are
   those the inner loop will erase. *)
LEMMA TakeCallerCompleteInv ==
  ASSUME TypeOK, CompleteInv, TakeCaller, UNCHANGED <<kernels, calls>>
  PROVE  CompleteInv'
<1> USE DEF CompleteInv
<1> DEFINE x == workList[Len(workList)]
<1>1. /\ x \in Function
      /\ workList' \in Seq(Function)
      /\ \A i \in DOMAIN workList' : i \in DOMAIN workList /\ workList'[i] = workList[i]
  BY PopLast DEF TakeCaller, TypeOK
<1>2. caller' = x /\ reverseEdges' = reverseEdges /\ callees = {}
      /\ callees' = {g \in Function : <<x, g>> \in calls}
  BY DEF TakeCaller, CalleesOf
<1>3. /\ workList \in Seq(Function) /\ Len(workList) \in DOMAIN workList
      /\ result \in Seq(Function)
      /\ \A i \in DOMAIN workList : i \in DOMAIN workList' \/ workList[i] = x
  <2>1. workList \in Seq(Function) /\ workList # <<>>
    BY DEF TypeOK, TakeCaller
  <2>2. workList' = SubSeq(workList, 1, Len(workList) - 1)
    BY DEF TakeCaller
  <2>3. DOMAIN workList' = 1 .. Len(workList) - 1
    BY <2>1, <2>2
  <2> QED
    BY <2>1, <2>3 DEF TypeOK
<1>4. Visited' = Visited \cup {x} /\ Once' /\ (\A i \in DOMAIN result' : IsKnown(result'[i]))
  <2>1. CASE x \in Visited
    <3>1. result' = result
      BY <1>2, <2>1 DEF TakeCaller
    <3> QED
      BY <2>1, <3>1 DEF Visited, Once, OnlyKnown
  <2>2. CASE x \notin Visited
    <3>1. result' = Append(result, x)
      BY <1>2, <2>2 DEF TakeCaller
    <3>2. /\ DOMAIN result' = DOMAIN result \cup {Len(result) + 1}
          /\ \A i \in DOMAIN result : result'[i] = result[i] /\ i < Len(result) + 1
          /\ result'[Len(result) + 1] = x
      BY <1>1, <1>3, <3>1, AppendFacts
    <3>3. Visited' = Visited \cup {x}
      BY <3>2 DEF Visited
    <3>4. Once'
      BY <2>2, <3>2 DEF Once, Visited
    <3>5. \A i \in DOMAIN result' : IsKnown(result'[i])
      BY <1>3, <3>2 DEF OnlyKnown
    <3> QED
      BY <3>3, <3>4, <3>5
  <2> QED
    BY <2>1, <2>2
<1>5. \A f \in Function : IsKnown(f)' <=> IsKnown(f)
  BY DEF IsKnown
<1>6. OnlyKnown'
  <2>1. \A i \in DOMAIN workList' : IsKnown(workList'[i])
    BY <1>1 DEF OnlyKnown
  <2> QED
    BY <1>4, <2>1 DEF OnlyKnown, IsKnown
<1>7. CalleesAreCalled'
  BY <1>2 DEF CalleesAreCalled, CalleesOf
<1>8. EdgesAreOpen'
  <2> SUFFICES ASSUME NEW f \in Function, NEW g \in Function, <<g, f>> \in reverseEdges, f \in Visited'
               PROVE  f = x /\ g \in callees'
    BY <1>2 DEF EdgesAreOpen
  <2>1. <<f, g>> \in calls /\ f \notin Visited
    BY <1>2 DEF EdgesAreOpen
  <2> QED
    BY <1>2, <1>4, <2>1 DEF CalleesOf
<1>9. NotForgotten'
  BY <1>1, <1>2, <1>3, <1>4, <1>5 DEF NotForgotten
<1> QED
  BY <1>4, <1>6, <1>7, <1>8, <1>9

(* A callee whose last edge is erased waits. *)
LEMMA VisitCalleeCompleteInv ==
  ASSUME TypeOK, CompleteInv, NEW g \in Function, VisitCallee(g), UNCHANGED <<kernels, calls>>
  PROVE  CompleteInv'
<1> USE DEF CompleteInv
<1>1. /\ result' = result /\ Visited' = Visited /\ caller' = caller
      /\ g \in callees /\ callees' = callees \ {g}
      /\ reverseEdges' = reverseEdges \ {<<g, caller>>}
  BY DEF VisitCallee, Visited
<1>2. workList \in Seq(Function)
  BY DEF TypeOK
<1>3. \A f : IsKnown(f)' <=> IsKnown(f)
  BY DEF IsKnown
<1>4. caller \in Function /\ IsKnown(g)
  BY <1>1 DEF CalleesAreCalled, TypeOK, IsKnown
<1>5. /\ DOMAIN Append(workList, g) = DOMAIN workList \cup {Len(workList) + 1}
      /\ \A i \in DOMAIN workList : Append(workList, g)[i] = workList[i]
      /\ Append(workList, g)[Len(workList) + 1] = g
  BY <1>2, AppendFacts
<1>6. \/ workList' = workList /\ (\E f \in Function : <<g, f>> \in reverseEdges')
      \/ workList' = Append(workList, g)
  BY DEF VisitCallee
<1>7. OnlyKnown'
  BY <1>1, <1>3, <1>4, <1>5, <1>6 DEF OnlyKnown
<1>8. CalleesAreCalled' /\ Once'
  BY <1>1 DEF CalleesAreCalled, Once
<1>9. EdgesAreOpen'
  BY <1>1 DEF EdgesAreOpen
<1>10. NotForgotten'
  BY <1>1, <1>3, <1>5, <1>6 DEF NotForgotten
<1> QED
  BY <1>7, <1>8, <1>9, <1>10

LEMMA CompleteInvariant == Spec => []CompleteInv
<1>1. TypeOK /\ CompleteInv /\ [Next]_vars => CompleteInv'
  <2> SUFFICES ASSUME TypeOK, CompleteInv, [Next]_vars PROVE CompleteInv'
    OBVIOUS
  <2>1. CASE TakeCaller /\ UNCHANGED <<kernels, calls>>
    BY <2>1, TakeCallerCompleteInv
  <2>2. CASE \E g \in Function : VisitCallee(g) /\ UNCHANGED <<kernels, calls>>
    BY <2>2, VisitCalleeCompleteInv
  <2>3. CASE UNCHANGED vars
    BY <2>3 DEF vars, orderVars, CompleteInv, OnlyKnown, CalleesAreCalled, EdgesAreOpen,
                NotForgotten, Once, Visited, IsKnown
  <2> QED
    BY <2>1, <2>2, <2>3 DEF Next, OrderStep
<1>2. IInv => TypeOK
  BY DEF IInv
<1> QED
  BY <1>1, <1>2, InitCompleteInv, OrderInvariant, PTL DEF Spec

(* No function calls itself, not even through others. *)
IsNotRecursive ==
  \A group \in (SUBSET Function) \ {{}} :
    \E f \in group : \A g \in group : <<g, f>> \notin calls

(* No function that nobody calls calls another one: its edges would stay. *)
CallersAreKnown == \A f, g \in Function : <<g, f>> \in calls => IsKnown(g)

IsComplete == \A f \in Function : IsKnown(f) => f \in Visited

(* Of the functions that were forgotten, one would have no caller among them. *)
LEMMA DoneIsComplete ==
  ASSUME CompleteInv, OrderDone, IsNotRecursive, CallersAreKnown
  PROVE  IsComplete
<1> DEFINE forgotten == {f \in Function : IsKnown(f) /\ f \notin Visited}
<1> SUFFICES ASSUME forgotten # {} PROVE FALSE
  BY DEF IsComplete
<1>1. PICK f \in forgotten : \A g \in forgotten : <<g, f>> \notin calls
  BY DEF IsNotRecursive
<1>2. PICK g \in Function : <<f, g>> \in reverseEdges
  <2>1. f \in Function /\ IsKnown(f) /\ f \notin Visited /\ DOMAIN workList = {}
    BY DEF OrderDone
  <2> QED
    BY <2>1 DEF CompleteInv, NotForgotten
<1>3. <<g, f>> \in calls /\ g \notin Visited
  BY <1>2 DEF CompleteInv, EdgesAreOpen, OrderDone
<1>4. IsKnown(g)
  BY <1>3 DEF CallersAreKnown
<1> QED
  BY <1>1, <1>3, <1>4

(* CallGraphOrderedFunctions leaves no function out, and takes none twice: for every
   call graph without cycles and without functions that nobody calls. *)
THEOREM OrderIsComplete ==
  Spec => [](OrderDone /\ IsNotRecursive /\ CallersAreKnown => IsComplete /\ Once)
<1>1. CompleteInv => (OrderDone /\ IsNotRecursive /\ CallersAreKnown => IsComplete /\ Once)
  <2>1. CompleteInv => Once
    BY DEF CompleteInv
  <2> QED
    BY <2>1, DoneIsComplete
<1> QED
  BY <1>1, CompleteInvariant, PTL

------------------------------------------------------------------------------
(* For an order that starts in a later state, and one that stays as it is. *)
LEMMA StartOfOrder == Init' => IInv' /\ CompleteInv'
  BY InitIInv, InitCompleteInv, PTL

LEMMA OrderStays ==
  ASSUME UNCHANGED vars
  PROVE  (IInv => IInv') /\ (CompleteInv => CompleteInv')
<1>1. IInv => IInv'
  BY DEF vars, orderVars, IInv, TypeOK, ErasedIsVisited, WaitingIsReady, CallerIsVisited, CallersFirst, Visited
<1>2. CompleteInv => CompleteInv'
  BY DEF vars, orderVars, CompleteInv, OnlyKnown, CalleesAreCalled, EdgesAreOpen, NotForgotten, Once, Visited, IsKnown
<1> QED
  BY <1>1, <1>2
==============================================================================

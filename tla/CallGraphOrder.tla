--------------------------- MODULE CallGraphOrder ---------------------------
(* CallGraphOrderedFunctions: the functions of a module, callers before
   callees, by Kahn's algorithm over the reversed edges of the call graph.
   Passes that hand a fact about arguments from callers down to callees rely on
   this order.

   A function is the number UniqueVector gives it: kernels are listed first, so
   they have the smallest numbers. A step is one turn of one of the two nested
   loops. *)
EXTENDS Naturals, Sequences, FiniteSets

CONSTANT Function   \* the numbers in use, none of them 0

VARIABLES
  kernels,       \* entry points of the module
  calls,         \* pairs <<caller, callee>>
  reverseEdges,  \* pairs <<callee, caller>> of callers not visited yet
  workList,      \* functions all of whose callers were visited
  caller,        \* the function being visited
  callees,       \* its callees the inner loop has not reached
  result

orderVars == <<reverseEdges, workList, caller, callees, result>>

Visited == {result[i] : i \in DOMAIN result}

CalleesOf(f) == {g \in Function : <<f, g>> \in calls}

(* The loops that number the functions and collect the edges. The work list
   is taken from its end; it starts with the kernels in their order. *)
ReversedCalls == {<<c[2], c[1]>> : c \in calls}

StartOrder(entryPoints) ==
  /\ reverseEdges' = ReversedCalls
  /\ workList' = entryPoints
  /\ caller' = 0
  /\ callees' = {}
  /\ result' = <<>>

(* The head of the outer loop: insert ignores a function already there. *)
TakeCaller ==
  /\ callees = {}
  /\ workList # <<>>
  /\ caller' = workList[Len(workList)]
  /\ workList' = SubSeq(workList, 1, Len(workList) - 1)
  /\ result' = IF caller' \in Visited THEN result ELSE Append(result, caller')
  /\ callees' = CalleesOf(caller')
  /\ UNCHANGED reverseEdges

VisitCallee_Eager(g) ==   \* a callee is pushed by its first caller
  /\ g \in callees
  /\ \A h \in callees : g <= h
  /\ callees' = callees \ {g}
  /\ reverseEdges' = reverseEdges \ {<<g, caller>>}
  /\ workList' = IF g \in Visited THEN workList ELSE Append(workList, g)
  /\ UNCHANGED <<caller, result>>

(* The inner loop: callees in the order of their numbers. *)
VisitCallee(g) ==
  /\ g \in callees
  /\ \A h \in callees : g <= h
  /\ callees' = callees \ {g}
  /\ reverseEdges' = reverseEdges \ {<<g, caller>>}
  /\ workList' = IF \E f \in Function : <<g, f>> \in reverseEdges'
                 THEN workList ELSE Append(workList, g)
  /\ UNCHANGED <<caller, result>>

OrderStep == TakeCaller \/ \E g \in Function : VisitCallee(g)

OrderDone == callees = {} /\ workList = <<>>

------------------------------------------------------------------------------
(* The algorithm by itself, for any module. *)
KernelList == {s \in Seq(Function) : \A i, j \in DOMAIN s : i < j => s[i] < s[j]}

Init ==
  /\ calls \in SUBSET (Function \X Function)
  /\ \E s \in KernelList :
       kernels = {s[i] : i \in DOMAIN s} /\ workList = s
  /\ reverseEdges = ReversedCalls
  /\ caller = 0
  /\ callees = {}
  /\ result = <<>>

Next == OrderStep /\ UNCHANGED <<kernels, calls>>

vars == <<kernels, calls, orderVars>>

Spec == Init /\ [][Next]_vars

------------------------------------------------------------------------------
(* A function that is no kernel comes after everything that calls it: what a
   pass finds out about a caller is there when it looks at the callee. *)
CallersFirst ==
  \A i \in DOMAIN result :
    result[i] \notin kernels =>
      \A f \in Function : <<f, result[i]>> \in calls =>
        \E j \in DOMAIN result : j < i /\ result[j] = f

(* Why: an edge is erased only once its caller is in the result, and what waits
   in the work list has no edge left, unless it is a kernel. *)
TypeOK ==
  /\ kernels \subseteq Function
  /\ calls \subseteq Function \X Function
  /\ reverseEdges \subseteq Function \X Function
  /\ workList \in Seq(Function)
  /\ result \in Seq(Function)
  /\ callees \subseteq Function

ErasedIsVisited ==
  \A f, g \in Function : <<f, g>> \in calls => <<g, f>> \in reverseEdges \/ f \in Visited

WaitingIsReady ==
  \A i \in DOMAIN workList :
    workList[i] \in kernels \/ \A f \in Function : <<workList[i], f>> \notin reverseEdges

CallerIsVisited == callees # {} => caller \in Visited

IInv == TypeOK /\ ErasedIsVisited /\ WaitingIsReady /\ CallerIsVisited /\ CallersFirst
==============================================================================

----------------------------- MODULE HalfArray -----------------------------
(***************************************************************************)
(* What the builtins of HalfBuiltins promise: the buffer is an array of    *)
(* halves, and a call moves its elements, and nothing else, in any order   *)
(* and in as many steps as it likes.                                       *)
(***************************************************************************)
EXTENDS HalfBuiltins

VARIABLES halves,  \* the buffer
          call,    \* what each work-item is calling, or NoCall
          todo,    \* the elements its call has not moved yet
          value    \* the elements its last load has returned so far

vars == <<halves, call, todo, value>>

Init ==
  /\ halves \in [Places -> Halves]
  /\ call = [w \in Items |-> NoCall]
  /\ todo = [w \in Items |-> {}]
  /\ value = [w \in Items |-> <<>>]

Begin(w) ==
  /\ call[w] = NoCall
  /\ call'[w] # NoCall
  /\ call' = [call EXCEPT ![w] = call'[w]]
  /\ todo' = [todo EXCEPT ![w] = Elements(call'[w])]
  /\ value' = [value EXCEPT ![w] = <<>>]
  /\ UNCHANGED halves

\* The elements that leave todo are stored to, or loaded from, their places.
Move(w) ==
  LET c == call[w]
      moved == todo[w] \ todo'[w]
  IN /\ moved # {}
     /\ todo' = [todo EXCEPT ![w] = @ \ moved]
     /\ IF c.store
        THEN /\ halves' = [p \in Places |->
                             IF \E i \in moved : Place(c, i) = p
                             THEN c.data[CHOOSE i \in moved : Place(c, i) = p]
                             ELSE halves[p]]
             /\ UNCHANGED value
        ELSE /\ value' = [value EXCEPT ![w] =
                            [i \in DOMAIN @ \cup moved |->
                               IF i \in moved THEN halves[Place(c, i)] ELSE @[i]]]
             /\ UNCHANGED halves
     /\ UNCHANGED call

Return(w) ==
  /\ call[w] # NoCall
  /\ todo[w] = {}
  /\ call' = [call EXCEPT ![w] = NoCall]
  /\ UNCHANGED <<halves, todo, value>>

Next == \E w \in Items : Begin(w) \/ Move(w) \/ Return(w)

Spec == Init /\ [][Next]_vars
============================================================================

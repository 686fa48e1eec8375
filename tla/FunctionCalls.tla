---------------------------- MODULE FunctionCalls ----------------------------
(* What the call graph passes see of a module: its functions, the pointers
   they hand to each other and the accesses they make through them.

   A pointer is a resource, a parameter, or something else (a phi, a select),
   followed by the getelementptr instructions applied to it, the first one
   first. The arguments of kernels stand for their resources: a kernel takes
   nothing. An image and a sampler are handed on like a pointer. An instruction
   is known by the call sites it was inlined through and its own label, which
   copies of a function keep. An access is any use that is no call: its op is
   "memory" (a load or store), "kept" (the pointer itself is stored, or goes to a
   phi or select), "get_image_channel", "read_image2d" or "read_image3d". *)
EXTENDS Naturals, Sequences, FiniteSets, SequencesExt

VARIABLE
  functions  \* by number: [kernel, noinline, params, ubo, private, calls, accesses]

Const(n) == [kind |-> "const", id |-> n]
Zero == Const(0)

(* A pointer without getelementptr. An index handed to a function is one, too. *)
Pointer(k, n) == [kind |-> k, id |-> n, geps |-> <<>>]

KernelFunctions == {f \in DOMAIN functions : functions[f].kernel}
Helpers == DOMAIN functions \ KernelFunctions

(* Function::users: the calls of f, each with the function it is in. *)
Users(f) ==
  UNION {{[in |-> g, call |-> c] : c \in {d \in functions[g].calls : d.callee = f}} :
           g \in DOMAIN functions}

CallEdges == UNION {{<<f, c.callee>> : c \in functions[f].calls} : f \in DOMAIN functions}

(* Argument::replaceAllUsesWith, for the parameters in the domain of new: a
   pointer keeps its own getelementptrs, an index becomes another index. *)
ReplaceIndex(i, new) ==
  IF i.kind = "param" /\ i.id \in DOMAIN new
  THEN [kind |-> new[i.id].kind, id |-> new[i.id].id] ELSE i

ReplaceIn(v, new) ==
  LET geps == [k \in DOMAIN v.geps |-> [j \in DOMAIN v.geps[k] |-> ReplaceIndex(v.geps[k][j], new)]]
  IN  IF v.kind = "param" /\ v.id \in DOMAIN new
      THEN [new[v.id] EXCEPT !.geps = @ \o geps]
      ELSE [v EXCEPT !.geps = geps]

ReplaceAllUses(body, new) ==
  [body EXCEPT
     !.calls = {[c EXCEPT !.args = [i \in DOMAIN @ |-> ReplaceIn(@[i], new)]] : c \in @},
     !.accesses = {[a EXCEPT !.operands = [i \in DOMAIN @ |-> ReplaceIn(@[i], new)]] : a \in @}]

ArgsByParam(f, args) ==
  [p \in Range(functions[f].params) |-> args[CHOOSE i \in DOMAIN args : functions[f].params[i] = p]]

(* Value::use_empty of a parameter. *)
UsesIn(v) ==
  {i.id : i \in {j \in {v} \cup UNION {Range(v.geps[k]) : k \in DOMAIN v.geps} : j.kind = "param"}}

Passed(f) == UNION {Range(c.args) : c \in functions[f].calls}
Accessed(f) == UNION {Range(a.operands) : a \in functions[f].accesses}

UsedParams(f) == UNION {UsesIn(v) : v \in Passed(f) \cup Accessed(f)}

(* llvm::InlineFunction: the body of the callee, with the arguments for its
   parameters, in the place of the call. *)
Inlined(user) ==
  LET callee == user.call.callee
      body == ReplaceAllUses(functions[callee], ArgsByParam(callee, user.call.args))
  IN  [functions EXCEPT
         ![user.in].calls = (@ \ {user.call}) \cup {[c EXCEPT !.site = user.call.site \o @] : c \in body.calls},
         ![user.in].accesses = @ \cup {[a EXCEPT !.site = user.call.site \o @] : a \in body.accesses}]

------------------------------------------------------------------------------
(* What a kernel does: the accesses it reaches, each with the calls it is
   reached through and the place it goes to. The first index of a
   getelementptr is added to the last one of the pointer (it is zero here). *)
JoinIndices(path, gep) == path \o (IF path = <<>> THEN gep ELSE Tail(gep))

Place(v) == [base |-> <<v.kind, v.id>>, path |-> FoldLeft(JoinIndices, <<>>, v.geps)]

(* A run of a function: by which kernel, through which calls, with what. No
   function calls itself, so there are fewer calls in a row than functions. *)
BodyOf(run) == ReplaceAllUses(functions[run.function], ArgsByParam(run.function, run.args))

RunsOfCalls(run) ==
  {[kernel |-> run.kernel, through |-> run.through \o c.site, function |-> c.callee, args |-> c.args] :
     c \in BodyOf(run).calls}

RunsOfKernels == {[kernel |-> k, through |-> <<>>, function |-> k, args |-> <<>>] : k \in KernelFunctions}

RunsAfter[n \in Nat] ==   \* with n calls
  IF n = 0 THEN RunsOfKernels ELSE UNION {RunsOfCalls(run) : run \in RunsAfter[n - 1]}

Runs == UNION {RunsAfter[n] : n \in 0 .. Cardinality(DOMAIN functions)}

AccessesOf(run) ==
  {<<run.through \o a.site, a.op, [i \in DOMAIN a.operands |-> Place(a.operands[i])]>> :
     a \in BodyOf(run).accesses}

Meaning == [k \in KernelFunctions |-> UNION {AccessesOf(run) : run \in {r \in Runs : r.kernel = k}}]
==============================================================================

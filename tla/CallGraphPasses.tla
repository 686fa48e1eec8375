---------------------------- MODULE CallGraphPasses ----------------------------
(* The passes over the call graph, in the order RunPassPipeline adds them. They
   share the functions of the module and nothing else. Between them come passes
   that change no call. *)
EXTENDS FunctionCalls

------------------------------------------------------------------------------
(* DirectResourceAccessPass: a parameter that is the same resource at every
   call becomes that resource. Functions are taken callers first, so that what a
   caller was given is already a resource in the calls it makes. *)

HasAllZeroIndices(v) == \A k \in DOMAIN v.geps : \A j \in DOMAIN v.geps[k] : v.geps[k][j] = Zero

(* num_gep_zeroes: all the indices, but the first index of every getelementptr
   after the first one, which is added to the index before it. *)
NumGepZeroes(v) ==
  Cardinality(UNION {{<<k, j>> : j \in {o \in DOMAIN v.geps[k] : k = 1 \/ o > 1}} : k \in DOMAIN v.geps})

(* ParamInfo of what one call hands over. *)
ParamInfo(v) == [base |-> v.id, zeroes |-> NumGepZeroes(v)]

IsResource_NoGep(v) == v.kind = "resource" /\ v.geps = <<>>

IsResource(v) == v.kind = "resource" /\ HasAllZeroIndices(v)

(* The loop over the uses with merge_param_info: all calls agree, or none does. *)
CommonParamInfo(f, i) ==
  LET given == {u.call.args[i] : u \in Users(f)}
  IN  IF \A v \in given : IsResource(v) THEN {ParamInfo(v) : v \in given} ELSE {}

CanRewrite(f, i) == Cardinality(CommonParamInfo(f, i)) = 1

(* The call and the getelementptr made at the entry of the function. *)
DirectAccess(info) ==
  [kind |-> "resource", id |-> info.base,
   geps |-> IF info.zeroes = 0 THEN <<>> ELSE <<[k \in 1..info.zeroes |-> Zero]>>]

(* RewriteResourceAccesses: every pointer parameter of the function. *)
RewriteResourceAccesses(f) ==
  LET direct == {i \in DOMAIN functions[f].params : CanRewrite(f, i)}
      info(i) == CHOOSE c \in CommonParamInfo(f, i) : TRUE
      index(p) == CHOOSE i \in direct : functions[f].params[i] = p
      new == [p \in {functions[f].params[i] : i \in direct} |-> DirectAccess(info(index(p)))]
  IN  functions' = [functions EXCEPT ![f] = ReplaceAllUses(@, new)]

------------------------------------------------------------------------------
(* For a property of the order: the places a parameter gets in all its runs by
   all kernels, through calls of calls. *)
GivenByKernels(g, p) == {Place(ArgsByParam(g, run.args)[p]) : run \in {r \in Runs : r.function = g}}

AlwaysSameResource(g, p) ==
  \E place \in GivenByKernels(g, p) :
    /\ GivenByKernels(g, p) = {place}
    /\ place.base[1] = "resource"
    /\ Range(place.path) \subseteq {Zero}

------------------------------------------------------------------------------
(* MultiVersionUBOFunctionsPass: no pointer into a uniform buffer may be passed
   to a function, so a function with such a parameter gets a version for each
   of its calls, or is inlined where the argument is not a resource followed by
   getelementptr instructions. *)

VARIABLES
  usersLeft,        \* the calls of the function at hand that are left (a snapshot)
  localChanged  \* whether the function at hand is erased at the end

uboVars == <<usersLeft, localChanged>>

(* AnalyzeCall: whether the walk from each argument ends at a resource. *)
Given(u) == ArgsByParam(u.call.callee, u.call.args)

CanSpecialize_NoGep(u) ==   \* only the resource itself
  \A p \in functions[u.call.callee].ubo : Given(u)[p].kind = "resource" /\ Given(u)[p].geps = <<>>

CanSpecialize(u) == \A p \in functions[u.call.callee].ubo : Given(u)[p].kind = "resource"

(* The indices that are no constants, of all the arguments that go away. For each
   the clone has a parameter, named for the place it is used at: a getelementptr
   and an operand of it. *)
VariablePlaces(v) ==
  UNION {{<<k, j>> : j \in {o \in DOMAIN v.geps[k] : v.geps[k][o].kind # "const"}} : k \in DOMAIN v.geps}

(* A walk along the chains of all arguments, each from the resource to the use.
   Only the order matters of it that both loops below find. *)
VariableIndices(u) ==
  SetToSeq(UNION {{[param |-> p \o at, index |-> Given(u)[p].geps[at[1]][at[2]]] : at \in VariablePlaces(Given(u)[p])} :
                    p \in functions[u.call.callee].ubo})

(* Wrong variant: the chains are walked from the use, as they were found. *)
ExtraArgs_FromTheUse(u) ==
  LET walk == Reverse(VariableIndices(u))
  IN  [n \in DOMAIN walk |-> Pointer(walk[n].index.kind, walk[n].index.id)]

(* extra_args: the first loop collects what the new call hands over. *)
ExtraArgs(u) ==
  LET walk == VariableIndices(u)
  IN  [n \in DOMAIN walk |-> Pointer(walk[n].index.kind, walk[n].index.id)]

(* new_arg_iter: the second loop takes the next parameter for each index it meets. *)
ExtraParams(u) ==
  LET walk == VariableIndices(u)
  IN  [n \in DOMAIN walk |-> walk[n].param]

(* The resource and the chain that the clone computes for itself. *)
OwnPointer(p, v) ==
  [v EXCEPT !.geps = [k \in DOMAIN @ |-> [j \in DOMAIN @[k] |->
     IF @[k][j].kind = "const" THEN @[k][j] ELSE [kind |-> "param", id |-> p \o <<k, j>>]]]]

(* With AddExtraArguments. The parameters that were pointers stay, unused. The
   call and the clone agree on the extra ones by position only. *)
SpecializeCall(u) ==
  LET f == u.call.callee
      clone == Max(DOMAIN functions) + 1
      body == ReplaceAllUses(functions[f], [p \in functions[f].ubo |-> OwnPointer(p, Given(u)[p])])
      version == [body EXCEPT !.params = @ \o ExtraParams(u)]
      newCall == [u.call EXCEPT !.callee = clone, !.args = @ \o ExtraArgs(u)]
      callers == [functions EXCEPT ![u.in].calls = (@ \ {u.call}) \cup {newCall}]
  IN  [g \in DOMAIN functions \cup {clone} |-> IF g = clone THEN version ELSE callers[g]]

(* The loop over the users of one function. Their order, that of a use list,
   decides how versions are numbered and nothing else. *)
SpecializeOrInline ==
  /\ usersLeft # {}
  /\ LET u == CHOOSE v \in usersLeft : TRUE
     IN  /\ functions' = IF CanSpecialize(u) THEN SpecializeCall(u) ELSE Inlined(u)
         /\ usersLeft' = usersLeft \ {u}
  /\ localChanged' = TRUE

(* Its head, for a function that has such a parameter, and its end. *)
StartFunction(f) ==
  /\ usersLeft' = IF functions[f].kernel \/ functions[f].ubo = {} THEN {} ELSE Users(f)
  /\ localChanged' = FALSE

EraseOriginal(f) ==
  functions' = IF localChanged THEN [g \in DOMAIN functions \ {f} |-> functions[g]] ELSE functions

------------------------------------------------------------------------------
(* Some take functions and parameters away, each in rounds until one changes
   nothing. Functions move into their callers (InlineEntryPointsPass and the
   InlineFuncWith... passes) and those nobody calls go
   (FunctionInternalizerPass). RemoveUnusedArguments collects the functions with
   unused parameters and then rebuilds each. A rebuilt call may have been the
   last use of a parameter of the caller, so another round may find more. *)

VARIABLE
  toInline   \* the calls a round has collected, not yet inlined

(* InlineEntryPointsPass::InlineFunctions: every call made by a kernel. *)
CallsInKernels == UNION {{u \in Users(f) : functions[u.in].kernel} : f \in Helpers}

(* InlineFuncWithSingleCallSitePass::InlineFunctions. *)
OnlyCalls == UNION {{u \in Users(f) : Cardinality(Users(f)) = 1} :
                      f \in {g \in Helpers : ~functions[g].noinline}}

CallsOf(fs) == UNION {Users(f) : f \in fs}

(* InlineFuncWithImageMetadataGetterPass: only a kernel knows which argument an
   image is. Functions nobody calls any more are still there, and looked at. *)
AsksForMetadata(f) == \E a \in functions[f].accesses : a.op = "get_image_channel"

CallsForMetadata == CallsOf({f \in Helpers : AsksForMetadata(f)})

(* InlineFuncWithReadImage3DNonLiteralSamplerPass: once there is one such function,
   all that read images with a sampler are inlined. *)
ReadsWithSampler(f) == \E a \in functions[f].accesses : a.op \in {"read_image2d", "read_image3d"}

IsReadImage3DWithNonLiteralSampler(a) == a.op = "read_image3d" /\ a.operands[2].kind # "literal"

ReadsWithNonLiteralSampler(f) == \E a \in functions[f].accesses : IsReadImage3DWithNonLiteralSampler(a)

CallsForSamplers ==
  IF \E f \in Helpers : ReadsWithNonLiteralSampler(f)
  THEN CallsOf({f \in Helpers : ReadsWithSampler(f)}) ELSE {}

(* InlineFuncWithPointerToFunctionArgPass: what is passed must be a variable of the
   caller or what the caller was passed, and the callee may only load and store at
   or below it, and pass it on as it is. *)
ParamRequiresInlining(f, p) ==
  LET of(v) == v.kind = "param" /\ v.id = p
  IN  \/ \E v \in Passed(f) \cup Accessed(f) : of(v) /\ \E k \in DOMAIN v.geps : v.geps[k][1] # Zero
      \/ \E v \in Passed(f) : of(v) /\ v.geps # <<>>
      \/ \E a \in functions[f].accesses : a.op = "kept" /\ of(a.operands[1])

IsMemoryObject(v) == v.kind \in {"alloca", "param"} /\ v.geps = <<>>

CallRequiresInlining_Arg(u) ==   \* whatever the function does with it
  \E p \in functions[u.call.callee].private : ~IsMemoryObject(Given(u)[p])

CallRequiresInlining(u) ==
  \E p \in functions[u.call.callee].private :
    ~IsMemoryObject(Given(u)[p]) \/ ParamRequiresInlining(u.call.callee, p)

CallsWithPrivatePointers == {u \in CallsOf(Helpers) : CallRequiresInlining(u)}

CollectCalls(selected) ==
  /\ toInline = {}
  /\ selected # {}
  /\ toInline' = selected
  /\ UNCHANGED functions

(* A call stays where it is while other calls are inlined around it. *)
InlineCall ==
  \E u \in toInline :
    /\ functions' = Inlined(u)
    /\ toInline' = toInline \ {u}

(* The end of a round of InlineFuncWithPointerToFunctionArgPass: functions without
   calls are erased until there are none, and the functions that kernels reach are
   left, as no function calls itself: those in every set that has the kernels and
   what its functions call. *)
CallsStayIn(fs, live) == \A f \in live : \A c \in fs[f].calls : c.callee \in live

EraseDead(fs) ==
  LET live == {f \in DOMAIN fs : \A reached \in SUBSET DOMAIN fs :
                  KernelFunctions \subseteq reached /\ CallsStayIn(fs, reached) => f \in reached}
  IN  [f \in live |-> fs[f]]

InlineCallAndErase ==
  \E u \in toInline :
    /\ functions' = IF toInline = {u} THEN EraseDead(Inlined(u)) ELSE Inlined(u)
    /\ toInline' = toInline \ {u}

(* The clean-up of InlineFuncWithSingleCallSitePass: one sweep. *)
EraseUncalled ==
  functions' = [f \in {g \in DOMAIN functions : functions[g].kernel \/ Users(g) # {}} |-> functions[f]]

(* FunctionInternalizerPass: sweeps until all functions have users. *)
UncalledHelpers == {f \in Helpers : Users(f) = {}}

InternalizeFunctions ==
  /\ UncalledHelpers # {}
  /\ EraseUncalled
  /\ UNCHANGED toInline

-------------------------------------------------------------------------------
VARIABLE
  candidates   \* by function of the round: which parameters it keeps

FindCandidates_All ==   \* functions with nothing to remove count as a change
  [f \in Helpers |->
     [i \in DOMAIN functions[f].params |-> functions[f].params[i] \in UsedParams(f)]]

FindCandidates ==
  [f \in {g \in Helpers : Range(functions[g].params) \ UsedParams(g) # {}} |->
     [i \in DOMAIN functions[f].params |-> functions[f].params[i] \in UsedParams(f)]]

StartRound ==
  /\ DOMAIN candidates = {}
  /\ DOMAIN FindCandidates # {}
  /\ candidates' = FindCandidates
  /\ UNCHANGED functions

(* The numbers in a set, the smallest one first. *)
InOrder(S) ==
  [n \in 1 .. Cardinality(S) |-> CHOOSE i \in S : Cardinality({j \in S : j < i}) = n - 1]

Kept_FromFront(s, keep) == SubSeq(s, 1, Len(SelectSeq(keep, LAMBDA b : b)))

(* The elements of s that are kept: the parameters of the new function, and the
   operands of its new calls. *)
Kept(s, keep) ==
  LET at == InOrder({i \in DOMAIN keep : keep[i]}) IN [n \in DOMAIN at |-> s[at[n]]]

RemoveUnusedParameters(f) ==
  LET keep == candidates[f]
      callsAgain(c) == IF c.callee = f THEN [c EXCEPT !.args = Kept(@, keep)] ELSE c
  IN  /\ functions' = [g \in DOMAIN functions |->
                         [functions[g] EXCEPT
                            !.params = IF g = f THEN Kept(@, keep) ELSE @,
                            !.ubo = IF g = f THEN @ \cap Range(Kept(functions[f].params, keep)) ELSE @,
                            !.private = IF g = f THEN @ \cap Range(Kept(functions[f].params, keep)) ELSE @,
                            !.calls = {callsAgain(c) : c \in @}]]
      /\ candidates' = [g \in DOMAIN candidates \ {f} |-> candidates[g]]

RemoveStep == StartRound \/ \E f \in DOMAIN candidates : RemoveUnusedParameters(f)

RemoveDone == DOMAIN candidates = {} /\ DOMAIN FindCandidates = {}

-------------------------------------------------------------------------------

CONSTANTS
  PassPrograms,   \* the modules to compile: functions by number
  MaxFunctions,   \* the largest number of a function when functions are ordered
  PassOptions     \* the command lines: [inlineEntryPoints, inlineSingle, direct, uniform]

(* What the verifier of LLVM and the front end see to: a call has an argument for
   each parameter, a function uses no parameters but its own, a pointer stays in
   its address space, an index is no pointer, and no function calls itself, not
   even through others. *)
IsSeq(s) == s \in Seq(Range(s))

IsPointer(v) ==
  /\ DOMAIN v = {"kind", "id", "geps"}
  /\ IsSeq(v.geps)
  /\ \A k \in DOMAIN v.geps : IsSeq(v.geps[k]) /\ v.geps[k] # <<>>

IsPointerIn(body, v) ==
  /\ IsPointer(v)
  /\ UsesIn(v) \subseteq Range(body.params)
  /\ \A k \in DOMAIN v.geps : \A j \in DOMAIN v.geps[k] :
       v.geps[k][j].kind = "param" => v.geps[k][j].id \notin body.private

IsCallIn(fs, body, c) ==
  /\ DOMAIN c = {"site", "callee", "args"}
  /\ c.callee \in DOMAIN fs
  /\ IsSeq(c.args) /\ Len(c.args) = Len(fs[c.callee].params)
  /\ \A i \in DOMAIN c.args :
       /\ IsPointerIn(body, c.args[i])
       /\ c.args[i].kind = "param" =>
            (c.args[i].id \in body.private <=> fs[c.callee].params[i] \in fs[c.callee].private)

IsAccessIn(body, a) ==
  /\ DOMAIN a = {"site", "op", "operands"}
  /\ 1 \in DOMAIN a.operands
  /\ a.op = "read_image3d" => 2 \in DOMAIN a.operands
  /\ \A i \in DOMAIN a.operands : IsPointerIn(body, a.operands[i])

IsFunction(fs, body) ==
  /\ DOMAIN body = {"kernel", "noinline", "params", "ubo", "private", "calls", "accesses"}
  /\ body.kernel \in BOOLEAN
  /\ IsSeq(body.params) /\ (body.kernel => body.params = <<>>)
  /\ \A i, j \in DOMAIN body.params : body.params[i] = body.params[j] => i = j
  /\ body.ubo \cup body.private \subseteq Range(body.params)
  /\ \A c \in body.calls : IsCallIn(fs, body, c)
  /\ \A a \in body.accesses : IsAccessIn(body, a)

IsNotRecursive(fs) ==
  \A group \in (SUBSET DOMAIN fs) \ {{}} :
    \E f \in group : \A g \in group : \A c \in fs[g].calls : c.callee # f

IsModule(fs) ==
  /\ IsFiniteSet(DOMAIN fs) /\ DOMAIN fs \subseteq Nat \ {0}
  /\ \A f \in DOMAIN fs : IsFunction(fs, fs[f])
  /\ IsNotRecursive(fs)

(* A pointer into a uniform buffer stays in its address space, too: it is a resource,
   such a parameter, or chosen from some. *)
UniformStays(fs, body, c) ==
  \A i \in DOMAIN c.args : fs[c.callee].params[i] \in fs[c.callee].ubo =>
    /\ c.args[i].kind \in {"resource", "param", "other"}
    /\ c.args[i].kind = "param" => c.args[i].id \in body.ubo

UniformCallsAreLegal(fs) == \A f \in DOMAIN fs : \A c \in fs[f].calls : UniformStays(fs, fs[f], c)

IsNamed(p) == p \in Seq(Nat) /\ Len(p) = 1

ASSUME PassAssumption ==
  /\ MaxFunctions \in Nat
  /\ PassOptions \subseteq [inlineEntryPoints : BOOLEAN, inlineSingle : BOOLEAN, direct : BOOLEAN, uniform : BOOLEAN]
  /\ \A fs \in PassPrograms :
       /\ IsModule(fs) /\ UniformCallsAreLegal(fs) /\ DOMAIN fs \subseteq 1..MaxFunctions
       /\ \A f \in DOMAIN fs : \A p \in Range(fs[f].params) : IsNamed(p)

VARIABLES
  options,
  pass,       \* what is left of the pipeline, the pass that runs first
  turn,       \* how many functions of the order the pass has finished
  reverseEdges, workList, caller, callees, result,   \* of CallGraphOrderedFunctions
  source      \* history: the meaning of the program before the passes

Order == INSTANCE CallGraphOrder
  WITH Function <- 1..MaxFunctions, kernels <- KernelFunctions, calls <- CallEdges

orderVars == <<reverseEdges, workList, caller, callees, result>>
passVars == <<functions, options, pass, turn, orderVars, toInline, candidates, uboVars, source>>

(* RunPassPipeline. A pass an option turns off returns at once. *)
When(on, passes) == IF on THEN passes ELSE <<>>

Pipeline(o) ==
  When(o.inlineEntryPoints, <<"InlineEntryPoints">>)
    \o <<"FunctionInternalizer", "InlineImageMetadataGetter", "InlinePointerToFunctionArg">>
    \o When(o.inlineSingle, <<"InlineSingleCallSite", "EraseUncalled">>)
    \o <<"InlineReadImage3D", "FunctionInternalizer">>
    \o When(o.direct, <<"OrderForDRA", "DirectResourceAccess">>)
    \o <<"RemoveUnusedArguments">>
    \o When(o.uniform /\ ~o.inlineEntryPoints, <<"OrderForUBO", "MultiVersionUBO">>)
    \o <<"RemoveUnusedArguments">>

Running(p) == pass # <<>> /\ Head(pass) = p
Ordering == Running("OrderForDRA") \/ Running("OrderForUBO")

KernelsInOrder == InOrder(KernelFunctions)

PassInit ==
  /\ functions \in PassPrograms
  /\ options \in PassOptions
  /\ pass = Pipeline(options)
  /\ turn = 0
  /\ toInline = {} /\ candidates = <<>> /\ usersLeft = {} /\ localChanged = FALSE
  /\ reverseEdges = {} /\ workList = <<>> /\ caller = 0 /\ callees = {} /\ result = <<>>
  /\ source = Meaning

(* A pass ends where its loop finds nothing more to do; the next one begins. *)
Begin(rest) ==
  /\ pass' = rest
  /\ turn' = 0
  /\ IF rest # <<>> /\ Head(rest) \in {"OrderForDRA", "OrderForUBO"}
     THEN Order!StartOrder(KernelsInOrder) ELSE UNCHANGED orderVars

Stay == UNCHANGED <<pass, turn, orderVars>>

InlineRounds(name, selected) ==
  /\ Running(name)
  /\ \/ CollectCalls(selected) /\ Stay
     \/ InlineCall /\ Stay
     \/ toInline = {} /\ selected = {} /\ UNCHANGED <<functions, toInline>> /\ Begin(Tail(pass))
  /\ UNCHANGED <<options, candidates, uboVars, source>>

EntryPoints == InlineRounds("InlineEntryPoints", CallsInKernels)
ImageMetadataGetters == InlineRounds("InlineImageMetadataGetter", CallsForMetadata)
SingleCallSites == InlineRounds("InlineSingleCallSite", OnlyCalls)
NonLiteralSamplers == InlineRounds("InlineReadImage3D", CallsForSamplers)

PointersToFunctionArgs ==
  /\ Running("InlinePointerToFunctionArg")
  /\ \/ CollectCalls(CallsWithPrivatePointers) /\ Stay
     \/ InlineCallAndErase /\ Stay
     \/ /\ toInline = {} /\ CallsWithPrivatePointers = {}
        /\ functions' = EraseDead(functions)
        /\ UNCHANGED toInline
        /\ Begin(Tail(pass))
  /\ UNCHANGED <<options, candidates, uboVars, source>>

SweepUncalled ==
  /\ Running("EraseUncalled")
  /\ EraseUncalled
  /\ Begin(Tail(pass))
  /\ UNCHANGED <<options, toInline, candidates, uboVars, source>>

Internalizer ==
  /\ Running("FunctionInternalizer")
  /\ \/ InternalizeFunctions /\ Stay
     \/ UncalledHelpers = {} /\ UNCHANGED <<functions, toInline>> /\ Begin(Tail(pass))
  /\ UNCHANGED <<options, candidates, uboVars, source>>

OrderFunctions ==
  /\ Ordering
  /\ \/ Order!OrderStep /\ UNCHANGED <<pass, turn>>
     \/ Order!OrderDone /\ pass' = Tail(pass) /\ turn' = 0 /\ UNCHANGED orderVars
  /\ UNCHANGED <<functions, options, toInline, candidates, uboVars, source>>

DirectAccesses ==
  /\ Running("DirectResourceAccess")
  /\ \/ /\ turn < Len(result)
        /\ RewriteResourceAccesses(result[turn + 1])
        /\ turn' = turn + 1
        /\ UNCHANGED <<pass, orderVars>>
     \/ turn = Len(result) /\ UNCHANGED functions /\ Begin(Tail(pass))
  /\ UNCHANGED <<options, toInline, candidates, uboVars, source>>

RemoveArguments ==
  /\ Running("RemoveUnusedArguments")
  /\ \/ RemoveStep /\ Stay
     \/ RemoveDone /\ UNCHANGED <<functions, candidates>> /\ Begin(Tail(pass))
  /\ UNCHANGED <<options, toInline, uboVars, source>>

MultiVersion ==
  /\ Running("MultiVersionUBO")
  /\ \/ /\ usersLeft = {} /\ ~localChanged /\ turn < Len(result)
        /\ StartFunction(result[turn + 1])
        /\ turn' = IF usersLeft' = {} THEN turn + 1 ELSE turn
        /\ UNCHANGED <<functions, pass, orderVars>>
     \/ /\ SpecializeOrInline
        /\ Stay
     \/ /\ usersLeft = {} /\ localChanged
        /\ EraseOriginal(result[turn + 1])
        /\ turn' = turn + 1
        /\ localChanged' = FALSE
        /\ UNCHANGED <<usersLeft, pass, orderVars>>
     \/ turn = Len(result) /\ usersLeft = {} /\ UNCHANGED <<functions, uboVars>> /\ Begin(Tail(pass))
  /\ UNCHANGED <<options, toInline, candidates, source>>

Compiled == pass = <<>> /\ UNCHANGED passVars

PassNext ==
  \/ EntryPoints \/ ImageMetadataGetters \/ PointersToFunctionArgs
  \/ SingleCallSites \/ SweepUncalled \/ NonLiteralSamplers \/ Internalizer
  \/ OrderFunctions \/ DirectAccesses \/ RemoveArguments \/ MultiVersion
  \/ Compiled

PassSpec == PassInit /\ [][PassNext]_passVars

(* The passes are loops of one thread: it goes on as long as it can. *)
PassFairSpec == PassSpec /\ WF_passVars(PassNext)
------------------------------------------------------------------------------
(* Whatever is inlined, specialized, made direct or removed, every access of
   every kernel goes to the place it went to in the source, through the same
   calls. *)
AccessesKeepTheirPlace == Meaning = source

(* While functions are ordered and made direct, callers come first. *)
CallersFirst == Ordering \/ Running("DirectResourceAccess") => Order!CallersFirst

(* Direct resource access misses nothing, and the removal after it neither: no
   parameter is left that is one resource in all runs of all kernels, through
   however many calls. *)
SharedResourcesAreDirect ==
  options.direct /\ Running("OrderForUBO") =>
    \A f \in Helpers : \A p \in Range(functions[f].params) : ~AlwaysSameResource(f, p)

(* After the last pass functions pass each other what SPIR-V allows: no pointers into
   uniform buffers (versions were made for all calls, and the removal of unused
   parameters got those left behind), and private pointers only as they were
   declared. What depends on the kernel's own arguments, the metadata of images and
   reads with samplers known at run time, is in kernels. Later rounds of inlining,
   and of removal, undo none of this. *)
FunctionsAreLegal ==
  pass = <<>> =>
    \A f \in Helpers :
      /\ options.uniform /\ ~options.inlineEntryPoints => functions[f].ubo = {}
      /\ \A p \in functions[f].private :
           /\ \A u \in Users(f) : IsMemoryObject(Given(u)[p])
           /\ \A v \in Passed(f) \cup Accessed(f) :
                v.kind = "param" /\ v.id = p => \A k \in DOMAIN v.geps : v.geps[k][1] = Zero
      /\ \A a \in functions[f].accesses :
           /\ a.op = "kept" => UsesIn(a.operands[1]) \cap functions[f].private = {}
           /\ a.op # "get_image_channel"
           /\ a.op = "read_image3d" => a.operands[2].kind = "literal"

(* A function is inlined for its uniform buffers only if "multi-versioning
   cannot be accomplished": some kernel gives it a pointer that is no resource. *)
InlinedOnlyIfNeeded ==
  [][Running("MultiVersionUBO") =>
       \A u \in usersLeft \ usersLeft' : ~CanSpecialize(u) =>
         \E p \in functions[u.call.callee].ubo :
           \E place \in GivenByKernels(u.call.callee, p) : place.base[1] = "other"]_passVars

(* The rounds of all passes end. *)
CompilationEnds == <>(pass = <<>>)
==============================================================================

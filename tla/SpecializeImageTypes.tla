-------------------------- MODULE SpecializeImageTypes --------------------------
(***************************************************************************)
(* SpecializeImageTypesPass: OpenCL C does not say what an image holds,    *)
(* SPIR-V has to.  For each image argument of a kernel the pass looks for  *)
(* a builtin that reads or writes it, through the functions it is handed   *)
(* to, and gives the image the type of that builtin; then it gives the     *)
(* type to all the image is handed on to.                                  *)
(*                                                                         *)
(* Of the type of an image only the type of its components is kept: its    *)
(* dimension and access are the same wherever it is handed on, and what    *)
(* becomes of the access depends on nothing else.  An image is used by     *)
(* calls only; OpenCL C has no way to select one.                          *)
(***************************************************************************)
EXTENDS Integers

CONSTANTS
    NumArgs,        \* the image arguments of kernels are 1..NumArgs, in module order
    Params,         \* the image parameters of the other functions
    Calls,          \* call instructions
    ImagePrograms   \* the modules the pass may be given

KernelArgs == 1..NumArgs
ImageArgs == KernelArgs \cup Params

Components == {"float", "int", "uint"}

\* A module is the uses of its images.  A use is a read or write of a kind in
\* Components, a query, or a call of a function, for which param is set.
ASSUME ImageProgramsAssumption ==
    /\ NumArgs \in Nat
    /\ \A p \in ImagePrograms : \A u \in p :
          /\ u.image \in ImageArgs
          /\ u.call \in Calls
          /\ u.kind \in Components \cup {"query", "call"}
          /\ u.kind = "call" => u.param \in Params
          /\ \A v \in p : u.call = v.call /\ u.kind # "call" => u = v

VARIABLES
    uses,               \* the module
    step,               \* where run is
    arg,                \* the argument at hand
    pending,            \* RemapUse: uses not looked at yet
    visited,            \* visited_: the calls in it
    visitedParams,      \* visited_: the parameters in it
    found,              \* final_res
    newType,            \* new_ty
    toSpecialize,       \* pending calls of SpecializeArg
    remapped,           \* remapped_args_
    typeOf,             \* the type of every argument and parameter
    specializedImages,  \* specialized_images_
    declared,           \* the type the builtin of a call is declared for
    signature           \* the type a function is declared for

imageVars == <<uses, step, arg, pending, visited, visitedParams, found, newType, toSpecialize,
               remapped, typeOf, specializedImages, declared, signature>>

ImageTypes == Components \cup {"void"}

ImageTypeOK ==
    /\ uses \in ImagePrograms
    /\ step \in {"arg", "remap", "specialize", "done"}
    /\ arg \in 1..(NumArgs + 1)
    /\ step \in {"remap", "specialize"} => arg \in KernelArgs
    /\ pending \subseteq uses
    /\ visited \subseteq Calls
    /\ visitedParams \subseteq Params
    /\ found \in {"kNotImage", "kNotSpecialized"}
    /\ newType \in ImageTypes
    /\ toSpecialize \subseteq ImageArgs
    /\ remapped \subseteq ImageArgs
    /\ typeOf \in [ImageArgs -> ImageTypes]
    /\ specializedImages \subseteq Components
    /\ declared \in [Calls -> ImageTypes]
    /\ signature \in [ImageArgs -> ImageTypes]

UsesOf(i) == {u \in uses : u.image = i}

ImageInit ==
    /\ uses \in ImagePrograms
    /\ step = "arg"
    /\ arg = 1
    /\ pending = {}
    /\ visited = {}
    /\ visitedParams = {}
    /\ found = "kNotImage"
    /\ newType = "void"
    /\ toSpecialize = {}
    /\ remapped = {}
    /\ typeOf = [i \in ImageArgs |-> "void"]
    /\ specializedImages = {}
    /\ declared = [c \in Calls |-> "void"]
    /\ signature = [i \in ImageArgs |-> "void"]

-------------------------------------------------------------------------------
\* Wrong variant: what was visited for the last argument is not looked at again.
StartRemap_KeepVisited == UNCHANGED <<visited, visitedParams>>

StartRemap == visited' = {} /\ visitedParams' = {}

\* The head of the loop over the arguments, and RemapType.
RemapType ==
    /\ step = "arg"
    /\ arg \in KernelArgs
    /\ StartRemap
    /\ pending' = UsesOf(arg)
    /\ found' = IF UsesOf(arg) = {} THEN "kNotSpecialized" ELSE "kNotImage"
    /\ step' = "remap"
    /\ UNCHANGED <<uses, arg, newType, toSpecialize, remapped, typeOf, specializedImages,
                   declared, signature>>

(***************************************************************************)
(* One call of RemapUse.  The order of the uses is that of use lists, and  *)
(* the first type that is found ends the search.                           *)
(***************************************************************************)
SkipVisited(u) ==
    /\ u.call \in visited
    /\ pending' = pending \ {u}
    /\ UNCHANGED <<step, visited, visitedParams, found, newType, toSpecialize, specializedImages>>

EnterCallee(u) ==
    /\ u.call \notin visited
    /\ u.kind = "call"
    /\ visited' = visited \cup {u.call}
    /\ visitedParams' = visitedParams \cup {u.param}
    /\ pending' = (pending \ {u}) \cup (IF u.param \in visitedParams THEN {} ELSE UsesOf(u.param))
    /\ UNCHANGED <<step, found, newType, toSpecialize, specializedImages>>

IsSpecialized(i) == typeOf[i] \in specializedImages

MeetQuery(u) ==
    /\ u.call \notin visited
    /\ u.kind = "query"
    /\ ~IsSpecialized(u.image)
    /\ visited' = visited \cup {u.call}
    /\ pending' = pending \ {u}
    /\ found' = "kNotSpecialized"
    /\ UNCHANGED <<step, visitedParams, newType, toSpecialize, specializedImages>>

Specialize(t) ==
    /\ newType' = t
    /\ specializedImages' = specializedImages \cup {t}
    /\ toSpecialize' = {arg}
    /\ step' = "specialize"

MeetType(u) ==
    /\ u.call \notin visited
    /\ u.kind # "call"
    /\ u.kind = "query" => IsSpecialized(u.image)
    /\ Specialize(IF IsSpecialized(u.image) THEN typeOf[u.image] ELSE u.kind)
    /\ visited' = visited \cup {u.call}
    /\ pending' = {}
    /\ UNCHANGED <<visitedParams, found>>

RemapUse ==
    /\ step = "remap"
    /\ \E u \in pending : SkipVisited(u) \/ EnterCallee(u) \/ MeetQuery(u) \/ MeetType(u)
    /\ UNCHANGED <<uses, arg, remapped, typeOf, declared, signature>>

\* No type was found.  An image that is at least queried holds floats.
EndRemap ==
    /\ step = "remap"
    /\ pending = {}
    /\ IF found = "kNotSpecialized"
       THEN /\ Specialize("float")
            /\ UNCHANGED arg
       ELSE /\ arg' = arg + 1
            /\ step' = "arg"
            /\ UNCHANGED <<newType, toSpecialize, specializedImages>>
    /\ UNCHANGED <<uses, pending, visited, visitedParams, found, remapped, typeOf, declared,
                   signature>>

-------------------------------------------------------------------------------
IsBuiltinOf(c, i) == \E u \in UsesOf(i) : u.call = c /\ u.kind # "call"
HandedTo(i) == {u.param : u \in {v \in UsesOf(i) : v.kind = "call"}}

\* For every builtin that uses i: there is one for each type, named for it.
ReplaceImageBuiltin(i) ==
    declared' = [c \in Calls |-> IF IsBuiltinOf(c, i) THEN newType ELSE declared[c]]

\* One call of SpecializeArg; the functions that take the argument follow.
SpecializeArg ==
    /\ step = "specialize"
    /\ \E i \in toSpecialize :
          IF i \in remapped
          THEN /\ toSpecialize' = toSpecialize \ {i}
               /\ UNCHANGED <<remapped, typeOf, declared>>
          ELSE /\ toSpecialize' = (toSpecialize \ {i}) \cup HandedTo(i)
               /\ remapped' = remapped \cup {i}
               /\ typeOf' = [typeOf EXCEPT ![i] = newType]
               /\ ReplaceImageBuiltin(i)
    /\ UNCHANGED <<uses, step, arg, pending, visited, visitedParams, found, newType,
                   specializedImages, signature>>

EndArg ==
    /\ step = "specialize"
    /\ toSpecialize = {}
    /\ arg' = arg + 1
    /\ step' = "arg"
    /\ UNCHANGED <<uses, pending, visited, visitedParams, found, newType, toSpecialize, remapped,
                   typeOf, specializedImages, declared, signature>>

\* What the function of i is declared for when it is rewritten, for one in
\* functions_to_modify_; no function looks at another.
RewriteFunction(i) == IF i \in remapped THEN typeOf[i] ELSE signature[i]

RewriteFunctions ==
    /\ step = "arg"
    /\ arg \notin KernelArgs
    /\ signature' = [i \in ImageArgs |-> RewriteFunction(i)]
    /\ step' = "done"
    /\ UNCHANGED <<uses, arg, pending, visited, visitedParams, found, newType, toSpecialize,
                   remapped, typeOf, specializedImages, declared>>

Specialized == step = "done" /\ UNCHANGED imageVars

ImageNext ==
    RemapType \/ RemapUse \/ EndRemap \/ SpecializeArg \/ EndArg \/ RewriteFunctions \/ Specialized

ImageSpec == ImageInit /\ [][ImageNext]_imageVars

-------------------------------------------------------------------------------
(* What the kernels of a sound program do with their images. *)

\* All that what is in S is handed on to is in S.
IsClosed(p, S) == \A u \in p : u.image \in S /\ u.kind = "call" => u.param \in S

\* Whether a use of kind K is met from argument a.
IsMet(p, a, K) ==
    \A S \in SUBSET ImageArgs :
        a \in S /\ IsClosed(p, S) => \E u \in p : u.image \in S /\ u.kind \in K

\* No call is handed the image of argument a twice.
IsHandedOnce(p, a) ==
    \E S \in SUBSET ImageArgs :
        /\ a \in S
        /\ IsClosed(p, S)
        /\ \A u, v \in p : u.image \in S /\ v.image \in S /\ u.call = v.call => u = v

(***************************************************************************)
(* What the images hold: all that is done with an image is for one kind,   *)
(* and an image that no one reads or writes is only queried, as one of     *)
(* floats would be.                                                        *)
(***************************************************************************)
IsContents(p, holds) ==
    /\ \A u \in p : /\ u.kind = "call" => holds[u.param] = holds[u.image]
                    /\ u.kind \in Components => holds[u.image] = u.kind
    /\ \A a \in KernelArgs :
          \/ IsMet(p, a, Components)
          \/ /\ holds[a] = "float"
             /\ IsMet(p, a, {"query"}) \/ \A u \in p : u.image # a

Contents(p) == {holds \in [ImageArgs -> Components] : IsContents(p, holds)}

IsReadAlike(p) == Contents(p) # {} /\ \A a \in KernelArgs : IsHandedOnce(p, a)

(***************************************************************************)
(* When the pass is done, every image argument of a kernel has a type, and *)
(* so has all it is handed on to; functions and builtins are declared for  *)
(* the image they are given, those that read and write for what they read  *)
(* and write.                                                              *)
(***************************************************************************)
ImagesAgree ==
    step = "done" /\ IsReadAlike(uses) =>
        /\ KernelArgs \subseteq remapped
        /\ \A i \in remapped :
              /\ signature[i] = typeOf[i]
              /\ typeOf[i] # "void"
              /\ \A u \in UsesOf(i) :
                    IF u.kind = "call" THEN u.param \in remapped /\ signature[u.param] = typeOf[i]
                    ELSE /\ declared[u.call] = typeOf[i]
                         /\ u.kind \in Components => typeOf[i] = u.kind

-------------------------------------------------------------------------------
(* The inductive invariant. *)

\* The argument at hand and what its image was followed to.
Seen == {arg} \cup visitedParams

WasLookedAt(u) ==
    /\ u.call \in visited
    /\ u.kind = "call" => u.param \in visitedParams
    /\ u.kind = "query" => found = "kNotSpecialized"
    /\ u.kind \notin Components

\* The search has looked at the uses of what it has seen, or it will; and what it
\* has seen is what every closed set around the argument has, too.
SearchIsThorough ==
    step = "remap" =>
        /\ \A u \in pending : u.image \in Seen
        /\ \A u \in uses : u.image \in Seen => u \in pending \/ u.call \in visited
        /\ \A c \in visited : \E u \in uses : u.call = c /\ u.image \in Seen /\ WasLookedAt(u)
        /\ \A S \in SUBSET ImageArgs : arg \in S /\ IsClosed(uses, S) => Seen \subseteq S
        /\ UsesOf(arg) = {} => found = "kNotSpecialized"

\* All that the image was followed to holds what the argument holds.
SeenHoldsTheSame ==
    \A holds \in Contents(uses) : step = "remap" => \A i \in Seen : holds[i] = holds[arg]

TypesAreContents ==
    /\ \A i \in ImageArgs \ remapped : typeOf[i] = "void"
    /\ \A holds \in Contents(uses) : IsReadAlike(uses) =>
          /\ \A i \in remapped : typeOf[i] = holds[i]
          /\ \A i \in toSpecialize : newType = holds[i]

TypesAreHandedOn ==
    /\ toSpecialize # {} => step = "specialize"
    /\ \A i \in remapped : HandedTo(i) \subseteq remapped \cup toSpecialize
    /\ \A i \in remapped : \A u \in UsesOf(i) : u.kind # "call" => declared[u.call] = typeOf[i]
    /\ \A i \in remapped : step = "done" => signature[i] = typeOf[i]

ArgsAreSpecialized ==
    /\ IsReadAlike(uses) => \A a \in KernelArgs : a < arg => a \in remapped
    /\ step = "specialize" => arg \in remapped \cup toSpecialize
    /\ step = "done" => arg = NumArgs + 1

ImageIInv ==
    /\ ImageTypeOK
    /\ SearchIsThorough
    /\ SeenHoldsTheSame
    /\ TypesAreContents
    /\ TypesAreHandedOn
    /\ ArgsAreSpecialized
=============================================================================

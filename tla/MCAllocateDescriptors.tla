------------------------ MODULE MCAllocateDescriptors ------------------------
(***************************************************************************)
(* Two kernels of two arguments each, with or without literal samplers.    *)
(***************************************************************************)
EXTENDS ResourceVars

Arg(kind, type, used, coherent, metadataOnly) ==
    [kind |-> kind, type |-> type, used |-> used, coherent |-> coherent,
     metadataOnly |-> metadataOnly]

MCArgs == {Arg("buffer", "int", TRUE, FALSE, FALSE),
           Arg("buffer", "int", TRUE, TRUE, FALSE),
           Arg("buffer", "int", FALSE, FALSE, FALSE),
           Arg("pod_pushconstant", "struct", TRUE, FALSE, FALSE),
           Arg("image", "image2d", TRUE, FALSE, FALSE),
           Arg("image", "image2d", TRUE, FALSE, TRUE),
           Arg("sampler", "sampler", TRUE, FALSE, FALSE),
           Arg("local", "int", TRUE, FALSE, FALSE),
           Arg("local", "float", TRUE, FALSE, FALSE)}

MCTypes == {a.type : a \in MCArgs}

\* Programs about arguments have the variable of the workgroup size, those
\* about specialization constants __local arguments and all of them.
MCProgramsOf(args, literals, builtins, required) ==
    [args : [1..2 -> [1..2 -> args]], literals : literals, builtins : builtins,
     required : required]

MCLocalArgs == {a \in MCArgs : a.kind = "local"} \cup {Arg("local", "int", FALSE, FALSE, FALSE)}

MCPrograms ==
    MCProgramsOf(MCArgs, {<<>>, <<"a", "b", "a">>}, {{"WorkgroupSize"}}, {<<NoSize, NoSize>>})
    \cup MCProgramsOf(MCLocalArgs, {<<>>}, {{}, {"GlobalOffset", "WorkDim"}, Builtins},
                      {<<NoSize, 64>>, <<32, 64>>, <<64, 64>>})

Option(kernelArgInfo, distinctSets, distinctImageSampler, nonUniform) ==
    [kernelArgInfo |-> kernelArgInfo, distinctSets |-> distinctSets,
     distinctImageSampler |-> distinctImageSampler, nonUniform |-> nonUniform]

MCOptions == {Option(FALSE, FALSE, FALSE, FALSE), Option(TRUE, FALSE, TRUE, FALSE),
              Option(FALSE, TRUE, FALSE, TRUE)}

\* Distinct sets together with information on unused arguments.
MCUnusedArgs == {Arg("buffer", "int", TRUE, FALSE, FALSE),
                 Arg("buffer", "int", FALSE, FALSE, FALSE)}
MCUnusedPrograms == MCProgramsOf(MCUnusedArgs, {<<>>}, {{}}, {<<NoSize, NoSize>>})
MCUnusedOptions == {Option(TRUE, TRUE, FALSE, FALSE)}

\* Unclustered plain-old-data arguments without 8-bit uniform buffers: a
\* kernel with a char has all its arguments in storage buffers, one without
\* in uniform buffers.
PodArgs(kind, types) == [i \in DOMAIN types |-> Arg(kind, types[i], TRUE, FALSE, FALSE)]
MCPodTypes == {"int", "char"}
MCPodLists == {PodArgs("pod", types) : types \in {<<"int", "char">>, <<"char", "int">>}}
              \cup {PodArgs("pod_ubo", <<"int", "int">>)}
MCPodPrograms == [args : [1..2 -> MCPodLists], literals : {<<>>}, builtins : {{}},
                  required : {<<NoSize, NoSize>>}]
MCPodOptions == {Option(FALSE, FALSE, FALSE, FALSE), Option(FALSE, TRUE, FALSE, FALSE)}
=============================================================================

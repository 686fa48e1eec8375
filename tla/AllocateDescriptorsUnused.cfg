SPECIFICATION RVSpec
CONSTANTS
    NumKernels = 2
    Types <- MCTypes
    Programs <- MCUnusedPrograms
    Options <- MCUnusedOptions
    NoSize = NoSize
INVARIANT APairForEveryArg

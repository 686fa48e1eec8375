SPECIFICATION RVSpec
CONSTANTS
    NumKernels = 2
    Types <- MCPodTypes
    Programs <- MCPodPrograms
    Options <- MCPodOptions
    NoSize = NoSize
INVARIANT KernelsKeepTheirPodKind

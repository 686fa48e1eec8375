SPECIFICATION RVSpec
CONSTANTS
    NumKernels = 2
    Types <- MCTypes
    Programs <- MCPrograms
    Options <- MCOptions
    NoSize = NoSize
INVARIANTS
    ArgsHaveTheirOwnBinding
    SamplersApart
    ConstantsAreTold
    EveryCallHasItsVariable

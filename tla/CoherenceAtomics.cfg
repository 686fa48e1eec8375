SPECIFICATION MCSpec
CONSTANTS
    a1 = a1
    a2 = a2
    g = g
    call2 = call2
    p1 = p1
    p2 = p2
    q = q
    call3 = call3
    r1 = r1
    ld = ld
    st = st
    NumFunctions = 3
    NumKernels = 1
    Values <- MCValues
    Programs <- MCAtomicPrograms
INVARIANT AtomicsFound
CHECK_DEADLOCK FALSE

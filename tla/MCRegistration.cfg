SPECIFICATION Spec
CHECK_DEADLOCK FALSE
CONSTANTS
    Funs = {f1}
    Names = {n1, n2}
    Vars = {v1}
    NoFun = noFun
    MaxRegs = 2
    MaxModules = 2
    MaxKernels = 2
    MaxGen = 2
INVARIANTS
    NoLeakedModule
    NoChasedHandle
    LaunchesRightKernel
    AbiOfOwnImage
    SymbolsOwned

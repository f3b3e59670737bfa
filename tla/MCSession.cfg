CONSTANTS
    a1 = a1  a2 = a2  a3 = a3  b1 = b1  c1 = c1  c2 = c2
    A = A  B = B  procA = procA  procB = procB
    cfgA = cfgA
    Thread = {a1, a2, a3, b1, c1, c2}
    Surface = {A, B}
    Buffers = {1, 2}
    Configs = {cfgA}
    NULL = NULL
    InitSize = 2
    MaxSize = 2
    WordSize = 16
    SingleOwner = TRUE
    SurfaceOf <- Surfaces
    ProcessOf <- Processes
    Mixes <- AllMixes
SPECIFICATION SessionSpec
INVARIANTS ListsMatchStates GrantIsUsable DeletionsReachClient OneProcessHolds
PROPERTIES ImplementsLifecycle

CONSTANTS
    p1 = p1  p2 = p2  c1 = c1  x1 = x1
    cfgA = cfgA  cfgB = cfgB
    Thread = {p1, p2, c1, x1}
    Buffers = {1, 2, 3}
    Configs = {cfgA, cfgB}
    NULL = NULL
    InitSize = 2
    MaxSize = 2
    WordSize = 16
    SingleOwner = TRUE
    Mixes <- CrowdMixes
SPECIFICATION Spec
INVARIANTS OneAllocation

CONSTANTS
    p1 = p1  c1 = c1  x1 = x1  cfgA = cfgA
    Thread = {p1, c1, x1}
    Buffers = {1, 2, 3}
    Configs = {cfgA}
    NULL = NULL
    InitSize = 3
    MaxSize = 3
    WordSize = 16
    SingleOwner = TRUE
    MaxTime = 3
    OneSecond = 1
    Mixes <- PacingMixes
SPECIFICATION PacedSpec
INVARIANTS DroppedAreReleased
PROPERTIES NeverTooEarly SelectedIsReturned

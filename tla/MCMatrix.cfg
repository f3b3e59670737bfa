CONSTANTS
    FrameWidth = 2
    FrameHeight = 3
    Unit = 6
SPECIFICATION MatrixSpec
INVARIANTS SameFrameSameMatrix

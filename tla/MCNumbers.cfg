CONSTANTS
    BufferObject = {o1, o2, o3}
    MaxSequence = 3
    CounterSize = 4
    MaxAbroad = 1
SPECIFICATION NumberSpec
INVARIANT NumberNamesOneBuffer

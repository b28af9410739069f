SPECIFICATION Spec
CONSTANTS
    Producers = {p1, p2}
    Frames = {a, b}
    Capacity = 2
    SizeMod = 4
INVARIANT TypeOK
INVARIANT PeekedIsNext
INVARIANT ReferenceIsGood
PROPERTY IsAQueue
CHECK_DEADLOCK FALSE

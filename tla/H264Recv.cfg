\* Packets are lost and arrive out of order, across the turn of the counter and
\* for more than one turn of the circle.
SPECIFICATION Spec
CONSTANTS
    SeqSpace = 16
    FirstSeq = 13
    RecvBuffer = 4
    MaxPieces = 3
    MaxFrames = 4
    MaxPackets = 8
    Reorder = 3
INVARIANTS
    TypeOK
    NothingHeldBack
PROPERTIES
    WholeFrames
    FramesInOrder
CHECK_DEADLOCK FALSE

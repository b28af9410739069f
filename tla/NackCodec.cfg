\* Every NACK of up to five numbers, anywhere on the circle.
SPECIFICATION CodecSpec
CONSTANTS
    SeqSpace = 32
    BlpBits = 4
    Window = 14
    MaxSns = 5
CHECK_DEADLOCK FALSE
INVARIANTS
    OnlyTheMissing
    OldestIsCarried
    LeftOutBetweenChunks

\* The sequence number turns: an entry outlives the packet it points to.
SPECIFICATION Spec
CONSTANTS
    SeqSpace = 6
    Capacity = 4
    BufLen = 5
    HaveDtls = TRUE
    MaxPackets = 13
    MaxNacks = 2
INVARIANT SequenceMatches

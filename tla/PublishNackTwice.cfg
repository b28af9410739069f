\* One retransmission of one packet, nothing else.
SPECIFICATION Spec
CONSTANTS
    SeqSpace = 6
    Capacity = 4
    BufLen = 5
    HaveDtls = TRUE
    MaxPackets = 13
    MaxNacks = 2
INVARIANT ResentAsSent

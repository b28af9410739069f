\* Packets are lost and reordered, none arrives before the first, none is given up.
SPECIFICATION Spec
CONSTANTS
    SeqSpace = 16
    FirstSeq = 11
    MaxNumber = 8
    Reorder = 4
    Early = FALSE
    HaveDtls = TRUE
    MaxTime = 4
    MaxQueueSize = 6
    MaxReqCount = 10
    MaxAliveTime = 100
    FirstInterval = 1
    StartInterval = 6
    MaxInterval = 8
    MinInterval = 1
    CheckInterval = 1
    Rtts = {2}
INVARIANTS
    ListInSeqOrder
    MissingIsListed
    ListedIsMissing
PROPERTY DueIsAsked

\* Everything: packets older than the first, full lists, numbers given up.
SPECIFICATION Spec
CONSTANTS
    SeqSpace = 16
    FirstSeq = 12
    MaxNumber = 6
    Reorder = 3
    Early = TRUE
    HaveDtls = FALSE
    MaxTime = 3
    MaxQueueSize = 4
    MaxReqCount = 1
    MaxAliveTime = 2
    FirstInterval = 1
    StartInterval = 6
    MaxInterval = 8
    MinInterval = 1
    CheckInterval = 1
    Rtts = {2}
INVARIANTS
    TypeOK
    MissingIsListed

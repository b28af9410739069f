\* The proportions of the program: 65536 is no multiple of the cache, and the
\* ring is shorter than the cache and the rest together.
SPECIFICATION Spec
CONSTANTS
    SeqSpace = 7
    Capacity = 4
    BufLen = 5
    HaveDtls = TRUE
    MaxPackets = 13
    MaxNacks = 2
INVARIANTS
    TypeOK
    AskedPacketIsResent
    RecentPacketIsCached
    FreedOnlyWhenOld

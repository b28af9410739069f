\* A session is connected and torn down at any moment.
SPECIFICATION Spec
CONSTANTS
    ArqMaxRetry = 2
    ArqMaxLoop = 3
INVARIANTS
    TypeOK
    KeysBeforeMedia
    TimerTouchesNothingFreed
    UdpTouchesNothingFreed
PROPERTY TearDownEnds
CHECK_DEADLOCK FALSE

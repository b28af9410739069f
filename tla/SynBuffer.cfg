SPECIFICATION Spec
CONSTANTS
    VideoCache = 2
    MaxVideoMinus = 2
    AudioCache = 1
    MaxAudioMinus = 2
    VideoLimit = 1
    AudioLimit = 1
    UpdateInterval = 2
    LostLimit = 0
    Steps = {2, 5}
    Turn = 4
    MaxPts = 9
    MaxTime = 5
    Capacity = 3
INVARIANT TypeOK
INVARIANT HeldAtMost
PROPERTY EvenlyPlayed
CHECK_DEADLOCK FALSE

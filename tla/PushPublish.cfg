CONSTANTS
    Posters = {p1}
    Kinds = {"connect", "disconnect"}
    MaxPosts = 2

SPECIFICATION Spec

INVARIANT TypeOK
INVARIANT HandledInOrder
INVARIANT FreedIsNotUsed

PROPERTY EveryPostIsHandled
PROPERTY CloseEnds

\* The program may crash, and in the end it is closed.
CHECK_DEADLOCK FALSE

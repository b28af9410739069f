SPECIFICATION Spec
CONSTANTS
    Conns = {c1, c2}
    App = app
    MaxAtOnce = 2
INVARIANT TypeOK
INVARIANT OnePublisher
INVARIANT FreedIsNotUsed
INVARIANT OnlyTheLeftAreFreed
PROPERTY LeftIsFreed
PROPERTY AcceptedIsAnswered
CHECK_DEADLOCK FALSE

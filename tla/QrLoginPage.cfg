CONSTANTS
    MaxKeys = 2
    Polls = {p1, p2}
SPECIFICATION FairSpec
INVARIANT PolledIsShown
PROPERTY OnlyLastJumps
PROPERTY ConfirmedSettles
CHECK_DEADLOCK FALSE

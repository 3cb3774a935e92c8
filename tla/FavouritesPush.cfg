CONSTANTS
    MaxChange = 5
    Empty = {3}
    Ttl = 2
    MaxLeaks = 2
SPECIFICATION Spec
INVARIANT BadgeIsTrue
INVARIANT BadgeHasStream
INVARIANT LeaksOnlyByLeaving
CHECK_DEADLOCK FALSE

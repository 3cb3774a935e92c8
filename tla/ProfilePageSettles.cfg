SPECIFICATION PageSpec
CONSTANTS
    MaxRetries = 3
    MaxThreads = 4
INVARIANT PageTypeOK
INVARIANT ShownIsLast
INVARIANT OneVerdict
PROPERTY PageSettles
CHECK_DEADLOCK FALSE

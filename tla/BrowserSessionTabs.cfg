SPECIFICATION FairSpec
CONSTANTS
    Tabs = {t1, t2}
    Requests = {r1, r2}
    MaxTokens = 3
    BusyTabs = {t1}
INVARIANTS
    WaitersHaveCall
PROPERTIES
    RetryHasFreshToken
    RefusedSettles
CHECK_DEADLOCK FALSE

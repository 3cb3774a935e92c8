CONSTANTS
    Threads = {a, b}
    Songs = {x, y}
    Categories = {rock, folk}
    MaxIterations = 1
    MaxFailures = 1
    Wide = FALSE
SPECIFICATION Spec
SYMMETRY Symmetry
INVARIANT TypeOK
INVARIANT StoreOfPage
INVARIANT ConfirmBuildsBoard
INVARIANT ResultsAreBuilt
INVARIANT BuiltOnce
PROPERTY DragsKept
CHECK_DEADLOCK FALSE

SPECIFICATION FairStreamSpec
CONSTANTS
    Feedbacks = {f1, f2}
    StartTask = start
    NoFeedback = none
    MaxSongs = 2
    BatchSize = 1
    MaxIterations = 1
    Overlap = FALSE
    IdleTimeout = TRUE
INVARIANTS
    ShownProposalWhole
    ConfirmBuildsWhatIsShown
PROPERTY
    StreamEnds
CHECK_DEADLOCK FALSE

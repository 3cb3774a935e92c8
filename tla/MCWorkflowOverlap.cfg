SPECIFICATION Spec
CONSTANTS
    Feedbacks = {f1, f2}
    StartTask = start
    NoFeedback = none
    MaxSongs = 3
    BatchSize = 2
    MaxIterations = 1
    Overlap = TRUE
INVARIANTS
    TypeOK
    BatchesInOrder
    ProposalCoversSelection
    RoundsMatchProposal
    PlanIsFinalProposal
    OneCallPerFeedback
SYMMETRY Symmetry
CHECK_DEADLOCK FALSE

SPECIFICATION Spec
CONSTANTS
    Feedbacks = {f1, f2, f3, f4}
    StartTask = start
    NoFeedback = none
    MaxSongs = 3
    BatchSize = 2
    MaxIterations = 2
    Overlap = FALSE
INVARIANTS
    AuditedHasProposal
    FeedbackAppliedOnce
PROPERTIES
    KeepsPromise
    PlanStable
    ProposalExtends
SYMMETRY Symmetry
CHECK_DEADLOCK FALSE

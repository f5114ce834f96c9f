CONSTANTS
    spec = spec
    plan = plan
    Docs <- MCDocs
    DocPhase <- MCDocPhase
    Contents = {1, 2}
    Missing = Missing
    MaxRevision = 3
    SavedIn = {"SPECIFY", "DESIGN", "BUILD"}
SPECIFICATION MCFairSpec
INVARIANT VerdictIsCurrent
PROPERTIES ApprovalIsReviewed DisposalEnds

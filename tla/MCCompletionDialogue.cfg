CONSTANTS
    Projects <- AllProjects
    MaxRuns = 2
    MaxPolls = 2
    MaxAuto = 1
SPECIFICATION Spec
INVARIANTS
    ClientNeverMismatched
    ExternalCleanupNeedsConsent
    DirtyDetectionNeedsConsent
    NothingLeftBehind
PROPERTIES
    AnswerReachesQuestion
    DialogueEnds
CHECK_DEADLOCK FALSE

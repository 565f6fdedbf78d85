CONSTANTS
    Projects <- PlainWorktreeProjects
    MaxRuns = 1
    MaxPolls = 1
    MaxAuto = 1
SPECIFICATION Spec
INVARIANT DriftedCleanupNeedsConsent
CHECK_DEADLOCK FALSE

CONSTANTS
    Projects <- PlainWorktreeProjects
    MaxRuns = 1
    MaxPolls = 1
    MaxAuto = 1
SPECIFICATION Spec
INVARIANT MissingUnmergedBlocks
CHECK_DEADLOCK FALSE

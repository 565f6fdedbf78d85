CONSTANTS
    Providers = {"claude", "opencode"}
    MaxPrompts = 2
    MaxCancels = 1
    MaxViews = 2
    MaxSteps = 2
    Backlog = 1
SPECIFICATION FairSpec
INVARIANTS
    OrderlyEndReported
    OneWorker
PROPERTIES
    QueuedIsSent
CONSTRAINT Orderly
\* every message sent, every turn over: the session rests
CHECK_DEADLOCK FALSE

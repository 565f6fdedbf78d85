CONSTANTS
    c1 = c1
    c2 = c2
    e1 = e1
    e2 = e2
    Cmds <- OneCmd
    Edits <- TwoEdits
    Requests <- InsistingRequests
    Others <- AllMoves
    Project <- AskingProject
    MaxPrompts = 1
    MaxFaults = 1
SPECIFICATION FairSpec
INVARIANTS
    CommittedWorkSafe
    UncommittedWorkSafe
    DeliveredWhenCompleted
    AgentEndsWithIssue
    RowClearedWhenCompleted
PROPERTIES
    ActsInOneStep
    EventuallyCompletes
CHECK_DEADLOCK FALSE

CONSTANTS
    c1 = c1
    c2 = c2
    e1 = e1
    e2 = e2
    Cmds <- TwoCmds
    Edits <- OneEdit
    Requests <- DirtyRequests
    Others <- AllOthers
    Project <- OtherBranchProject
    MaxPrompts = 1
    MaxFaults = 0
SYMMETRY Symmetry
SPECIFICATION Spec
INVARIANT CommittedWorkSafe
CHECK_DEADLOCK FALSE

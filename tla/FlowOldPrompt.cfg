CONSTANTS
    c1 = c1
    c2 = c2
    e1 = e1
    e2 = e2
    Cmds <- OneCmd
    Edits <- TwoEdits
    Requests <- DirtyRequests
    Others <- DetectOnly
    Project <- PlainProject
    MaxPrompts = 2
    MaxFaults = 0
SPECIFICATION Spec
INVARIANT DetectedCommitIsNew
CHECK_DEADLOCK FALSE

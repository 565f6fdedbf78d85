CONSTANTS
    c1 = c1
    c2 = c2
    e1 = e1
    e2 = e2
    Cmds <- TwoCmds
    Edits <- OneEdit
    Requests <- PlainRequests
    Others <- ToRunningOnly
    Project <- PlainProject
    MaxPrompts = 0
    MaxFaults = 0
SPECIFICATION Spec
PROPERTY CompletedOnlyBackToBacklog
CHECK_DEADLOCK FALSE

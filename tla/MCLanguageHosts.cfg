CONSTANTS
    Workspaces = {root, tree}
    MaxHosts = 2
    MaxCalls = 4
SPECIFICATION Spec
SYMMETRY AnyWorkspace
INVARIANTS OneServer DocumentsKnown AnswersAfterLoad
CHECK_DEADLOCK FALSE

CONSTANTS
    Sessions = {s1}
    Commands = {c1, c2}
    MaxProcesses = 2
    MaxRestarts = 0
SPECIFICATION Spec
SYMMETRY AnyThread
INVARIANTS
    OrderlyLiveNotLost
    OneWriter
    MarksReleased
    IssueFollowsSession
CHECK_DEADLOCK FALSE

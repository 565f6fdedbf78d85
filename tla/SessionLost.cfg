CONSTANTS
    Sessions = {s1}
    Commands = {c1}
    MaxProcesses = 1
    MaxRestarts = 0
SPECIFICATION Spec
INVARIANT LiveNotLost
CHECK_DEADLOCK FALSE

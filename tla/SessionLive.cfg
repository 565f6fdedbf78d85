CONSTANTS
    Sessions = {s1}
    Commands = {c1}
    MaxProcesses = 2
    MaxRestarts = 1
SPECIFICATION FairSpec
PROPERTIES
    LostIsNoticed
    StrayIsShut
CHECK_DEADLOCK FALSE

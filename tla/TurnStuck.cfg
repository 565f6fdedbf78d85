CONSTANTS
    MaxMessages = 0
    MaxCancels = 1
SPECIFICATION Spec
INVARIANT QuietMeansIdle
CHECK_DEADLOCK FALSE

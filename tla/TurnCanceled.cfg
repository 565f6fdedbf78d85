CONSTANTS
    MaxMessages = 0
    MaxCancels = 1
SPECIFICATION Spec
INVARIANT CanceledTurnsSilent
CHECK_DEADLOCK FALSE

CONSTANTS
    MaxMessages = 1
    MaxCancels = 1
SPECIFICATION Spec
INVARIANTS
    GraceHasFinalizer
    OrderlyQuietMeansIdle
    LiveTurnShown
    OrderlyFollowUpsSilent
    DeliveryCommented
CHECK_DEADLOCK FALSE

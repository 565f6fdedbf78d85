SPECIFICATION FairSpec
CONSTANTS
    MaxChunks = 2
    MaxShows = 2
    MaxQueue = 1
INVARIANTS NothingMissing Contiguous HiddenIsSilent
PROPERTY Shown
CHECK_DEADLOCK FALSE

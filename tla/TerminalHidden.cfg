SPECIFICATION Spec
CONSTANTS
    MaxChunks = 2
    MaxShows = 1
    MaxQueue = 1
PROPERTY HiddenBufferValid
CHECK_DEADLOCK FALSE

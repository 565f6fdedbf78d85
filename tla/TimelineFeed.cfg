SPECIFICATION Spec
CONSTANTS
    MaxEvents = 4
    MaxOpens = 2
    Stride = 2
    Window = 1
INVARIANTS CaughtUp PermissionsShown CursorCovers LogCatchesUp
PROPERTY LagsBehind
CHECK_DEADLOCK FALSE

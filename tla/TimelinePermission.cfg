SPECIFICATION Spec
CONSTANTS
    MaxEvents = 3
    MaxOpens = 2
    Stride = 2
    Window = 1
INVARIANT PermissionsRestored
CHECK_DEADLOCK FALSE

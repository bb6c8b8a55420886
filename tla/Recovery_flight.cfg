SPECIFICATION Spec
CONSTANTS
    Limit = 2
    Window = 3
    Delay = 1
    Cooldown = 1
    Threshold = 1
    MaxNow = 4
    MaxFaults = 1
    MaxCommands = 2
CHECK_DEADLOCK FALSE
PROPERTY FlightModeKept

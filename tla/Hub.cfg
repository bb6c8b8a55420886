SPECIFICATION HubSpec
CONSTANTS
    Agents = {"a"}
    Sockets = {"s1", "s2"}
    Requests = {"r"}
    Items = {"i"}
    None = "none"
    MaxRestores = 1
    MaxKills = 1
    Messages = {1, 2}
    SegmentCount = 2
    Gap = 3
    MaxReports = 4
    AlertReports = 7
    MaxRestart = 1
    MaxFaults = 1
INVARIANTS HubTypeOK AlertsTrue SessionsTrue FileSound ReportsTrue
PROPERTIES NoStepBack HubLiveness
CHECK_DEADLOCK FALSE

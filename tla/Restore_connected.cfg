SPECIFICATION Spec
CONSTANTS
    Agents = {"a"}
    Sockets = {"s1", "s2"}
    Requests = {"r"}
    Items = {}
    None = "none"
    MaxRestores = 1
    MaxKills = 0
INVARIANT ConnectedIsLive
CHECK_DEADLOCK FALSE

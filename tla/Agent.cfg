SPECIFICATION AgentSpec
CONSTANTS
    Parts = {"a1", "a2"}
    KeyOf <- OneKey
    PartNo <- Numbered
    TotalOf <- TwoParts
    Undecodable = {}
    Slots = {1, 2}
    MaxInboxFaults = 1
    Calls = {"c1", "c2"}
    Prompted = {"c2"}
    Shared = {"c1"}
    Urcs = {}
    Splits = {"s"}
    MaxTimeouts = 1
    Ports = {1, 2, 3}
    Modules = {1, 2}
    Configured <- OneCard
    MaxAdopted = 2
    MaxPlugs = 4
    MaxUnread = 1
    MaxPolicy = 1
    MaxWorld = 2
    MaxDataFaults = 1
INVARIANTS AgentTypeOK ATSafe InboxSafe DiscoverySafe
PROPERTY AgentLiveness
CHECK_DEADLOCK FALSE

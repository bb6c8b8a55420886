SPECIFICATION ApartSpec
CONSTANTS
    o1 = o1
    o2 = o2
    d1 = d1
    Ops = {o1, o2}
    Devices = {d1}
    DeviceOf <- SameDevice
    None = None
    HubPending = 2
    HubPerDevice = 2
    MaxPending = 2
    MaxPerDevice = 1
    MaxWorkers = 1
    MaxSim = 1
    MaxOpen = 2
    MaxStream = 1
    MaxRestore = 1
INVARIANTS TypeOK RanAsMeant CommandsTrue
PROPERTIES ConfirmedIsFinal CommandsEnd

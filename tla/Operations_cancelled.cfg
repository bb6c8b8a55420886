SPECIFICATION Spec
CONSTANTS
    o1 = o1
    o2 = o2
    d1 = d1
    Ops = {o1, o2}
    Devices = {d1}
    DeviceOf <- SameDevice
    None = None
    HubPending = 2
    HubPerDevice = 2
    MaxPending = 2
    MaxPerDevice = 2
    MaxWorkers = 1
    MaxSim = 0
    MaxOpen = 0
    MaxStream = 0
    MaxRestore = 1
INVARIANT CancelledNeverRan

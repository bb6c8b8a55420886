SPECIFICATION Spec
CONSTANTS
    c1 = c1
    c2 = c2
    m1 = m1
    n1 = n1
    Messages = {m1}
    Notices = {n1}
    Muted = {}
    Channels = {c1, c2}
    Rules = {1, 2}
    RuleChannel <- BothOnFirst
    Retries = 0
    ClaimBatch = 3
    MaxSends = 2
    MaxPerChannel = 1
    MaxEvents = 2
    MaxFaults = 0
CHECK_DEADLOCK FALSE
INVARIANT NotStarved

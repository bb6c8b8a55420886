SPECIFICATION FairSpec
CONSTANTS
    c1 = c1
    c2 = c2
    m1 = m1
    n1 = n1
    Messages = {m1}
    Notices = {n1}
    Muted = {}
    Channels = {c1}
    Rules = {1, 2}
    RuleChannel <- BothOnFirst
    Retries = 1
    ClaimBatch = 2
    MaxSends = 2
    MaxPerChannel = 1
    MaxEvents = 1
    MaxFaults = 2
CHECK_DEADLOCK FALSE
INVARIANTS TypeOK PushedOnce StatusIsTrue
PROPERTY Settled

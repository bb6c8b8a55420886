SPECIFICATION Spec
CONSTANTS
    Batch = 2
    Keep = 1
    MaxSeq = 3
    MaxStream = 1
    MaxWire = 2
    ResendInUse = TRUE
INVARIANTS TypeOK NoLoss ExactlyOnce InOrder AckCovered
PROPERTY ImplementsMirror

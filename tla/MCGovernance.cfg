SPECIFICATION Spec
CONSTANTS
    e1 = e1
    e2 = e2
    o1 = o1
    o2 = o2
    NoCheckpoint = NoCheckpoint
    Envelopes <- MCEnvelopes
    Operators <- MCOperators
    SignedAt <- MCSignedAt
    TrustStores <- MCTrustStores
    PinStores <- MCPinStores
    MaxLease = 1
    MaxEvents = 3
    CompactBytes <- MCCompactBytes
    FileBytes <- MCFileBytes
    MaxBytes = 3
    MaxTime = 2
    MaxFiles = 4
SYMMETRY OperatorSymmetry
INVARIANTS
    TypeOK
    CheckpointPinsHistory
    HeadHasLedger
    ClosureIsTerminal
    LeaseNeverRenewed
    PublishedReplays

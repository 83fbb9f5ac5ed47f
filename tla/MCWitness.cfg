SPECIFICATION WitnessSpec
CONSTANTS
    e1 = e1
    o1 = o1
    o2 = o2
    w1 = w1
    r1 = r1
    NoCheckpoint = NoCheckpoint
    Envelopes = {e1}
    Operators = {o1, o2}
    Witnesses = {w1}
    Receivers = {r1}
    SignedAt <- MCSignedAt
    TrustStores <- MCTrustStores
    PinStores <- MCPinStores
    WitnessStores <- MCWitnessStores
    MaxLease = 1
    MaxEvents = 2
    CompactBytes <- MCBytes
    FileBytes <- MCBytes
    MaxBytes = 2
    MaxTime = 1
    MaxFiles = 3
INVARIANTS
    WitnessTypeOK
    ReceiptVerifiesOneLedger
PROPERTIES
    NeverRolledBack

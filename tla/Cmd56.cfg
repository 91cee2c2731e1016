SPECIFICATION FairSpec
CONSTANTS
    c1 = c1
    c2 = c2
    NoCart = NoCart
    Carts <- MCCarts
    CardKeyId <- MCCardKeyId
    AllowPrototype = TRUE
    MaxRuns = 2
    MaxFaults = 4
CHECK_DEADLOCK FALSE
INVARIANTS
    KeysFromOneCard
    SuccessMeansUnlocked
    NoFaultNoFailure
    HandshakeInv
PROPERTIES
    UnlockNeedsSession
    ImplementsCardAuth
    RunsEnd

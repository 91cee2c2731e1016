SPECIFICATION Spec
CONSTANTS
    c1 = c1
    c2 = c2
    NoCart = NoCart
    Carts <- MCCarts
    CardKeyId <- MCProtoKeyId
    AllowPrototype = TRUE
    MaxRuns = 1
    MaxFaults = 0
CHECK_DEADLOCK FALSE
INVARIANTS
    PrototypeCardsAllowed

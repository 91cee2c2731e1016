SPECIFICATION FairSpec
CONSTANTS
    c1 = c1
    c2 = c2
    game = game
    NoCart = NoCart
    SdCard = SdCard
    Carts <- MCCarts
    Titles <- MCTitles
    Title <- MCTitle
    Stem <- MCStem
    Sections <- MCSections
    Dests <- MCDests
    Blacklisted = TRUE
    MaxActs = 4
    MaxSwaps = 1
CHECK_DEADLOCK FALSE
INVARIANTS
    KeysReady
    FilesHoldKeys
    SuccessMeansKeys
    MixNeedsSwap
    SessionInv
PROPERTIES
    CardGoneEndsInPrompt

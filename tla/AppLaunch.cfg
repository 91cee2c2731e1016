SPECIFICATION FairLaunchSpec
CONSTANTS
    c1 = c1
    game = game
    NoCart = NoCart
    SdCard = SdCard
    Carts <- MCCarts
    Titles <- MCTitles
    Title <- MCTitle
    Stem <- MCStem
    Sections <- MCSections
    Dests <- MCDests
    Blacklisted = FALSE
    MaxActs = 3
    MaxSwaps = 0
    MaxLaunches = 2
CHECK_DEADLOCK FALSE
INVARIANTS
    LaunchInv
    KeysReadyAgain
    AwakeWhileDumping
PROPERTIES
    LaunchSettles
    SleepsAgain

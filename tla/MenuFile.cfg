SPECIFICATION Spec
CONSTANTS
    TitleSize = 6
    Size = 25
    WINDOW_SIZE = 10
    MaxScroll = 3
    Cards <- MCCards
    Folders <- MCFolders
    Typed <- MCTyped
    Numbers <- MCNumbers
    Registers <- MCRegisters
INVARIANT
    FileConfirmedIsHighlighted

CONSTANTS
    GameCount = 2
    MaxActions = 4
    MaxRoom = 5
    MaxCrashes = 0
SPECIFICATION Spec
PROPERTY
    TerminalStaysTerminal
CHECK_DEADLOCK FALSE

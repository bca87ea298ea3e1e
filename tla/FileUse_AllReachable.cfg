SPECIFICATION Spec
CONSTANTS
    MAX_INODES = 7
    SLOTS = 4
    MAX_NAME = 2
    MAX_COPIES = 2
    DESKTOP_PATH <- MCDesktopPath
    Programs <- MCPrograms
    TypedNames <- MCTypedNames
    CELLS = 3
    WIN_W = 150
    WIN_H = 110
    MAX_WINS = 2
    MAX_ROW = 2
    EVENTS = 3
    Args <- MCArgs
    Contents = {2}
    BootFs <- MCBootFs
INVARIANT AllReachable
CHECK_DEADLOCK FALSE

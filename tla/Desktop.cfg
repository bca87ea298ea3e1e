SPECIFICATION DeskSpec
CONSTANTS
    Boot <- MCBoot
    HiddenAtBoot <- MCHiddenAtBoot
    MAIN_TERMINAL = 0
    MAIN_EDITOR = 1
    SETTINGS = 2
    Places = {"own", "other"}
    MAX_WINDOWS = 4
    EVENTS = 6
INVARIANTS FocusInFront FullIsMaximized 
CHECK_DEADLOCK FALSE

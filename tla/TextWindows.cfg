SPECIFICATION TextSpec
CONSTANTS
    Chars = {"a"}
    SCROLLBACK = 2
    MAX_COLS = 5
    USIZE = 16
    KEYS = 6
    Widths = {4, 5}
    Heights = {2}
    Prompt <- SmallPrompt
    Words <- TwoWords
    HISTORY = 1
    Outputs <- OneLine
    Pointers <- TwoPointers
    Contents <- TwoLines
    PageRows = {1}
    EDIT_KEYS = 5
    REFOCUS_BY = 3
CHECK_DEADLOCK FALSE
INVARIANTS
    
    MatchesAreCurrent
    
 

CONSTANTS
    a = a
    b = b
    Tasks = {a, b}
    MAX_PAGES = 4
    WORD = 2
    Usable <- AllButFirst
    RUN = 2
    CHUNKS = 2
SYMMETRY TaskSymmetry
CONSTRAINT NoRaceLost
SPECIFICATION Spec
INVARIANTS
    OwnedOnce
    BooksBalance

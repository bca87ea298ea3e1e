SPECIFICATION Spec
CONSTANTS
    QD = 2
    CIDS = 4
    Lbas = {0, 1}
    Values = {x, y}
SYMMETRY ValueSymmetry
INVARIANTS
    ReadsLastWrite
    QueuesAgree
    RequestKept

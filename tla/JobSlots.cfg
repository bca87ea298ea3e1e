SPECIFICATION FairSpec
CONSTANTS
    Clients = {p1, p2}
    Ops = {x, y}
    MAX_POLLS = 2
INVARIANTS
    PollsOwnJob
    OwnResult
 

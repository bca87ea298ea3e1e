SPECIFICATION Spec
CONSTANTS
    Procs = {p1, p2}
    Vectors = {32, 33}
    SleepMs = {10}
    MAX_TASKS = 6
    MaxNest = 2
SYMMETRY Symmetry
INVARIANT PageTablesOutliveTasks

\* Two callers with one key, three sessions, pages of one.
SPECIFICATION Spec
CONSTANTS
    Callers = {c1, c2}
    Ids = {1, 2, 3}
    Limit = 1
    Ttl = 1
    Window = 1
    MaxTime = 4
SYMMETRY CallersAlike
INVARIANTS
    TypeOK
    WalkComplete
PROPERTIES
    RevocationHolds
\* All walks may be over.
CHECK_DEADLOCK FALSE

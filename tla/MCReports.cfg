\* Four requests, two clicks and one edit at most.
SPECIFICATION FairSpec
CONSTANTS
    Req = {r1, r2, r3, r4}
    Answers = {good, bad}
    NoOne = NoOne
    MaxClicks = 2
    MaxEdits = 1
INVARIANTS
    TypeOK
PROPERTIES
    KeepsRecord
    ReportsEnd
\* All requests may be answered.
CHECK_DEADLOCK FALSE

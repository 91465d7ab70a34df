\* Two calls, the second of which may meet what an interrupted first one left
\* behind, on one element (a button or a field).  "pay" matches the patterns of
\* all three lists, "save" only a confirm pattern.
SPECIFICATION FairSpec
CONSTANTS
    Nodes = {n1}
    Names = {save, pay}
    BlockedNames = {pay}
    ConfirmNames = {save, pay}
    AllowedNames = {pay}
    Tools = {"observe", "navigate", "click", "submit", "select", "enter", "space"}
    MaxCalls = 2
    MaxChanges = 1
INVARIANTS
    TypeOK
PROPERTIES
    KnownBlockedStays
    KeepsPromise
    CallsSettle
    DialogsClose
CHECK_DEADLOCK FALSE

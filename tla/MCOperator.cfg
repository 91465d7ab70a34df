\* Three start requests compete for two places; a close may raise.
SPECIFICATION Spec
CONSTANTS
    Sbx = {s1, s2, s3}
    MaxSandboxes = 2
    BusyRetries = 1
    UnguardedRaises = TRUE
INVARIANTS
    TypeOK
    CapacityHeld
    StartingCounted
PROPERTIES
    OnlyOverdueReaped
\* All requests may have been served and all sandboxes closed.
CHECK_DEADLOCK FALSE

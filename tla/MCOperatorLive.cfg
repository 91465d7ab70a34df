\* Three start requests and one place; every close returns.
SPECIFICATION FairSpec
CONSTANTS
    Sbx = {s1, s2, s3}
    MaxSandboxes = 1
    BusyRetries = 1
    UnguardedRaises = FALSE
INVARIANTS
    NoOrphanBrowser
PROPERTIES
    StartSettles
    AbandonedIsClosed
\* All requests may have been served and all sandboxes closed.
CHECK_DEADLOCK FALSE

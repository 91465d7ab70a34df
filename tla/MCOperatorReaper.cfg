\* A close may raise: does the reaper go on?
SPECIFICATION FairSpec
CONSTANTS
    Sbx = {s1, s2}
    MaxSandboxes = 2
    BusyRetries = 1
    UnguardedRaises = TRUE
PROPERTY
    OverdueIsReaped
CHECK_DEADLOCK FALSE

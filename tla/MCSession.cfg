\* Two jobs for the same session, two lines, of one job or of each, and a unit of
\* usage.  Two lines are enough for flushes that overlap, each with a line.
SPECIFICATION FairSpec
CONSTANTS
    MaxJobs = 2
    MaxLines = 2
    MaxUsage = 1
INVARIANTS
    TypeOK
    NoLineLost
    NeverOverbilled
PROPERTIES
    KeepsLifecycle
    JobEnds
\* The jobs may all be over.
CHECK_DEADLOCK FALSE

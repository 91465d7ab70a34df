\* Four paints, two frames ahead of their acknowledgement, a viewer who comes back.
SPECIFICATION FairSpec
CONSTANTS
    MaxPaints = 4
    MaxUnacked = 2
    MaxViews = 2
INVARIANTS
    TypeOK
PROPERTIES
    KeepsPicture
    LastPaintShown
\* The share may be over.
CHECK_DEADLOCK FALSE

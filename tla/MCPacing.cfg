\* The greeting and another turn, of one round with one tool call.  Two pointer
\* calls, a nudge and the wrap-up make four notes, one more than are kept.
SPECIFICATION PacedFairSpec
CONSTANTS
    MaxToolRounds = 1
    MaxCalls = 1
    MaxTurns = 2
    AnyStop = FALSE
    MaxPoints = 2
INVARIANTS
    PacedTypeOK
    NoteKept
PROPERTIES
    NotesTold
\* The conversation may be over.
CHECK_DEADLOCK FALSE

\* Two turns of up to two rounds of up to two tool calls.
SPECIFICATION FairSpec
CONSTANTS
    MaxToolRounds = 2
    MaxCalls = 2
    MaxTurns = 2
    AnyStop = TRUE
INVARIANTS
    TypeOK
    HistoryRepaired
    ClosedTurnSpeaks
PROPERTIES
    NoRequestAfterEnd
    TurnEnds
\* The conversation may be over.
CHECK_DEADLOCK FALSE

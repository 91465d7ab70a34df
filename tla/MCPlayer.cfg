\* Two absences of the agent, two confirm requests.
SPECIFICATION FairSpec
CONSTANTS
    MaxAbsences = 2
    MaxRequests = 2
INVARIANTS
    TypeOK
    OneRequest
    NothingAskedAfterEnd
PROPERTIES
    EndIsFinal
    NoEndlessWait
\* The call may be over.
CHECK_DEADLOCK FALSE

\* One absence of the agent, no confirm requests, three streams, two lines.
SPECIFICATION CaptionsSpec
CONSTANTS
    MaxAbsences = 1
    MaxRequests = 0
    MaxStreams = 3
    MaxLines = 2
PROPERTIES
    TurnsStand
\* The call may be over.
CHECK_DEADLOCK FALSE

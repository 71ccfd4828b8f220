SPECIFICATION FairSpec
CONSTANTS
    q1 = q1
    q2 = q2
    q3 = q3
    Requests <- MCRequests
    Handlers <- MCHandlers
    Nobody = Nobody
    Existing = Existing
    Endless = {q1}
    Stalled = {q2}
    Absent = {noFile}
    Empty = {noData}
    Torn = {halfData}
    Seconds = 1
    Crashes = 1
    Faults = 1
INVARIANTS LastSavedIsKept FileIsMemory
PROPERTIES RequestsAnswered
\* All requests answered, or waiting for one that is stuck.
CHECK_DEADLOCK FALSE

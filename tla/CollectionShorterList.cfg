CONSTANTS
    Process = {p1}
    Lane = {l1}
    Domain = {d1, d2}
    Lists = {{d1, d2}, {d1}}
    MaxAttempts = 2
    Null = Null
    MaxSessions = 2
    MaxRuns = 1
    MaxFaults = 2
SPECIFICATION Spec
PROPERTIES
    CompletedIsCollected
\* Nobody has to start another session.
CHECK_DEADLOCK FALSE

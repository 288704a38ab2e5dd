CONSTANTS
    Process = {p1, p2}
    Lane = {l1}
    Domain = {d1, d2}
    Lists = {{d1, d2}, {d1}}
    MaxAttempts = 2
    Null = Null
    MaxSessions = 2
    MaxRuns = 2
    MaxFaults = 2
SYMMETRY MCSymmetry
SPECIFICATION Spec
INVARIANTS
    TypeOK
    OneObservationPerDomain
    EventsFollowObservations
PROPERTIES
    TerminalStateIsTruthful
    ClosedRunIsFinal
    KeepsProgramme
\* Nobody has to start another session.
CHECK_DEADLOCK FALSE

SPECIFICATION Spec
CONSTANTS
    Request = {q1, q2}
    Domain = {d1, d2}
    Resilient = {"dkim"}
    Ceiling = 1
    Cooldown = 1
    Null = Null
    MaxRequests = 2
    MaxFaults = 1
    MaxClock = 2
SYMMETRY MCSymmetry
INVARIANTS
    TypeOK
    OvershootBounded
    NoRescanUnlessRaced
    CompletionIsTruthful
    RunningIsScanned
PROPERTIES
    KeepsRecord
\* Nobody has to send another request.
CHECK_DEADLOCK FALSE

SPECIFICATION Spec
CONSTANTS
    Company = {c1, c2}
    Tool = {p1, p2}
    Frn <- MCFrn
    None = None
    Fragment = Fragment
    MaxRuns = 2
    MaxFaults = 1
SYMMETRY MCSymmetry
INVARIANTS
    TypeOK
    RegisteredOnce
    InFlightIsHeld
    CompleteIsRegistered
\* Nobody has to run a tool again.
CHECK_DEADLOCK FALSE

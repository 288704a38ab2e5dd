SPECIFICATION FairSpec
CONSTANTS
    Firm = {f1, f2}
    Null = Null
    Fragment = Fragment
    Absent = Absent
    Mixed = Mixed
    MaxPackages = 2
    MaxTargeted = 1
    MaxFaults = 2
INVARIANTS
    TypeOK
    LedgerIsBacked
    SealedIsComplete
    SealedDescribesItself
PROPERTIES
    SealedIsFinal
    KeepsEvidence
    InterruptedCycleSeals
\* No further package is opened.
CHECK_DEADLOCK FALSE

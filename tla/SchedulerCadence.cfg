SPECIFICATION FairSpec
CONSTANTS
    Org = {1}
    Type = {1, 2}
    SlotLen = 2
    Weekly = {2}
    DaySlots = 2
    WeekDays = 2
    DailySlot <- MCDailySlot
    WeeklySlot <- MCWeeklySlot
    RetryOffset <- MCRetryOffset
    MaxRetry = 1
    Lease = 2
    Worker = {w1}
    Lane = {l1}
    Targeted = {}
    Manual = {}
    Missing = {}
    Unresolvable = {}
    PageSize = 2
    MaxStatesPerRun = 2
    RuntimeBudget = 2
    None = None
    HoldBound = 2
    MaxAttempts = 4
    MaxFaults = 1
    MaxClock = 5
INVARIANTS TypeOK DueMatchesOutcome
PROPERTIES OncePerSlot WakeEnds OrphanTakenOver

SPECIFICATION Spec
CONSTANTS
    Org = {1}
    Type = {1}
    SlotLen = 2
    Weekly = {}
    DaySlots = 2
    WeekDays = 2
    DailySlot <- MCDailySlot
    WeeklySlot <- MCWeeklySlot
    RetryOffset <- MCRetryOffset
    MaxRetry = 1
    Lease = 2
    Worker = {w1, w2}
    Lane = {l1}
    Targeted = {}
    Manual = {}
    Missing = {}
    Unresolvable = {}
    PageSize = 1
    MaxStatesPerRun = 1
    RuntimeBudget = 2
    None = None
    HoldBound = 2
    MaxAttempts = 4
    MaxFaults = 1
    MaxClock = 6
INVARIANTS ExclusiveHolder ReadIsFresh
PROPERTIES ObservesSerially

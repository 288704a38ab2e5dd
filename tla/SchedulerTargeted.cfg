SPECIFICATION Spec
CONSTANTS
    Org = {1}
    Type = {1}
    SlotLen = 2
    Weekly = {}
    DaySlots = 2
    WeekDays = 2
    DailySlot <- MCDailySlot
    WeeklySlot <- MCWeeklySlot
    RetryOffset <- MCRetryOffset
    MaxRetry = 1
    Lease = 1
    Worker = {w1, w2}
    Lane = {l1}
    Targeted = {w2}
    Manual = {w2}
    Missing <- MCMissing
    Unresolvable = {}
    PageSize = 1
    MaxStatesPerRun = 1
    RuntimeBudget = 2
    None = None
    HoldBound = 4
    MaxAttempts = 2
    MaxFaults = 1
    MaxClock = 4
INVARIANTS DueMatchesOutcome
PROPERTIES HistoryIsKept

SPECIFICATION Spec
CONSTANTS
    Org = {1, 2, 3}
    Type = {1, 2}
    SlotLen = 2
    Weekly = {2}
    DaySlots = 2
    WeekDays = 2
    DailySlot <- MCDailySlot
    WeeklySlot <- MCWeeklySlot
    RetryOffset <- MCRetryOffset
    MaxRetry = 1
    Lease = 2
    Worker = {w1}
    Lane = {l1, l2}
    Targeted = {}
    Manual = {}
    Missing = {}
    Unresolvable = {}
    PageSize = 6
    MaxStatesPerRun = 2
    RuntimeBudget = 2
    None = None
    HoldBound = 2
    MaxAttempts = 4
    MaxFaults = 0
    MaxClock = 1
INVARIANTS BudgetOvershootBounded
PROPERTIES ReleaseIsRecorded

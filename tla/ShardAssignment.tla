--------------------------- MODULE ShardAssignment ---------------------------
(***************************************************************************)
(* When an observation is next due (shard-assignment.js, cadence-policy.js)*)
(* Due instants are points of an absolute UTC grid of quarter-hours, never *)
(* completion + interval: an organisation owns one quarter-hour of the day *)
(* for the daily types and one of the seven-day cycle for the weekly ones, *)
(* by an FNV-1a hash of its immutable id, so the hash is a constant here.  *)
(*                                                                         *)
(* Instants are naturals counted in ticks from the epoch anchor, which is a*)
(* UTC midnight; a quarter-hour is SlotLen ticks.                          *)
(***************************************************************************)
EXTENDS Integers

CONSTANTS
    Org,                 \* organisation ids
    Type, Weekly,        \* observation types, and the weekly ones among them
    SlotLen,             \* ticks in a quarter-hour (SLOT_MS)
    DaySlots, WeekDays,  \* DAILY_SLOTS (96), and the days of the weekly cycle (7)
    DailySlot,           \* DailySlot[o]: dailySlotIndex of o
    WeeklySlot,          \* WeeklySlot[o]: weeklySlotIndex of o
    RetryOffset,         \* RetryOffset[o]: retrySpreadOffsetSlots of o
    MaxRetry             \* MAX_DAILY_RETRY_ATTEMPTS

ASSUME GridAssumption ==
    /\ SlotLen \in Nat \ {0} /\ DaySlots \in Nat \ {0} /\ WeekDays \in Nat \ {0}
    /\ Weekly \subseteq Type
    /\ DailySlot \in [Org -> 0..DaySlots - 1]
    /\ WeeklySlot \in [Org -> 0..WeekDays * DaySlots - 1]
    /\ RetryOffset \in [Org -> Nat]
    /\ MaxRetry \in Nat

DayLen  == DaySlots * SlotLen
WeekLen == WeekDays * DayLen

CeilDiv(x, y) == -((-x) \div y)

StartOfUtcDay(ms) == ms - (ms % DayLen)

(* Today's slot if it is still to come, otherwise tomorrow's.              *)
NextDailySlotInstantAfter(o, ms) ==
    LET t == StartOfUtcDay(ms) + DailySlot[o] * SlotLen
    IN  IF t <= ms THEN t + DayLen ELSE t

NextWeeklySlotInstantAfter(o, ms) ==
    LET base == WeeklySlot[o] * SlotLen
        t == base + CeilDiv(ms - base, WeekLen) * WeekLen
    IN  IF t <= ms THEN t + WeekLen ELSE t

NextQuarterHourAfter(ms) == (ms \div SlotLen) * SlotLen + SlotLen

NextRetryInstantAfter(o, ms) == NextQuarterHourAfter(ms) + RetryOffset[o] * SlotLen

(* computeNextDueAt: the organisation's own slot strictly after completion.*)
ComputeNextDueAt(o, t, observedAt) ==
    IF t \in Weekly THEN NextWeeklySlotInstantAfter(o, observedAt)
                    ELSE NextDailySlotInstantAfter(o, observedAt)

(* computeRetryNextDueAt: a fast retry, or the own slot once they are spent*)
ComputeRetryNextDueAt(o, t, now, attemptCount) ==
    IF attemptCount <= MaxRetry THEN NextRetryInstantAfter(o, now)
                                ELSE ComputeNextDueAt(o, t, now)

(* The reference: the first point after now of the grid base + i * period. *)
IsNextOnGrid(due, base, period, now) ==
    /\ (due - base) % period = 0
    /\ due > now
    /\ due - period <= now
=============================================================================

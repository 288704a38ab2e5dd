------------------------ MODULE ShardAssignmentProofs ------------------------
(***************************************************************************)
(* What the due-instant functions of ShardAssignment compute, for every    *)
(* grid, every organisation and every instant: the next point of the       *)
(* organisation's own grid (OnOwnGrid), the same one however late in its   *)
(* slot an observation completes (NoDrift), and never a past one, on the   *)
(* retry path either (RetryInFuture).                                      *)
(***************************************************************************)
EXTENDS ShardAssignment, TLAPS

-----------------------------------------------------------------------------
(* Arithmetic.                                                             *)

(* Euclidean division, as the other lemmas use it.                         *)
LEMMA DivMod ==
    ASSUME NEW D \in Nat \ {0}, NEW x \in Int
    PROVE  /\ x \div D \in Int /\ x % D \in 0..D-1
           /\ x = D * (x \div D) + (x % D)
  OBVIOUS

(* A multiple of D leaves no remainder.                                    *)
LEMMA MultipleMod ==
    ASSUME NEW D \in Nat \ {0}, NEW q \in Int
    PROVE  (D * q) % D = 0
  OBVIOUS

(* One period more is a multiple too.                                      *)
LEMMA NextMultiple ==
    ASSUME NEW D \in Nat \ {0}, NEW x \in Int, \E m \in Int : x = D * m
    PROVE  \E m \in Int : x + D = D * m
<1>1. PICK m \in Int : x = D * m
  OBVIOUS
<1>2. m + 1 \in Int /\ x + D = D * (m + 1)
  BY <1>1
<1>3. QED
  <2> WITNESS m + 1 \in Int
  <2> QED BY <1>2

(* A slot index below n starts before the n slots are over.                *)
LEMMA SlotStart ==
    ASSUME NEW L \in Nat \ {0}, NEW n \in Nat, NEW s \in 0..n-1
    PROVE  s * L \in Nat /\ n * L \in Nat \ {0} /\ s * L < n * L
  OBVIOUS

(* Two multiples of D less than D apart are equal.                         *)
LEMMA MultiplesApart ==
    ASSUME NEW D \in Nat \ {0}, NEW p \in Int, NEW q \in Int,
           D * p < D * q + D, D * q < D * p + D
    PROVE  p = q
<1>1. D * (p - q) < D /\ D * (q - p) < D
  OBVIOUS
<1>2. p - q < 1 /\ q - p < 1
  <2>1. ASSUME NEW n \in Int, D * n < D PROVE n < 1
    BY <2>1
  <2>2. QED BY <1>1, <2>1
<1>3. QED BY <1>2

-----------------------------------------------------------------------------
(* The three grids.                                                        *)

(* The day and the weekly cycle have a length.                             *)
LEMMA Lengths == DayLen \in Nat \ {0} /\ WeekLen \in Nat \ {0}
  BY GridAssumption, SlotStart DEF DayLen, WeekLen

(* The first point after ms of the daily grid: floor, add, advance.        *)
LEMMA DailyStep ==
    ASSUME NEW D \in Nat \ {0}, NEW s \in 0..D-1, NEW ms \in Nat, NEW t \in Int,
           t = (ms - (ms % D)) + s,
           NEW due \in Int, due = IF t <= ms THEN t + D ELSE t
    PROVE  due \in Nat /\ IsNextOnGrid(due, s, D, ms)
<1> DEFINE q == ms \div D
<1>1. q \in Int /\ ms % D \in 0..D-1 /\ ms = D * q + (ms % D)
  BY DivMod
<1>2. t - s = D * q
  BY <1>1
<1>3. \E m \in Int : due - s = D * m
  <2>1. t - s \in Int /\ \E m \in Int : t - s = D * m
    <3>1. t - s \in Int
      OBVIOUS
    <3>2. \E m \in Int : t - s = D * m
      <4> HIDE DEF q
      <4>1. q \in Int
        BY <1>1
      <4> WITNESS q \in Int
      <4> QED BY <1>2
    <3>3. QED BY <3>1, <3>2
  <2>2. \E m \in Int : (t - s) + D = D * m
    BY <2>1, NextMultiple
  <2>3. due - s = t - s \/ due - s = (t - s) + D
    OBVIOUS
  <2>4. QED BY <2>1, <2>2, <2>3
<1>4. (due - s) % D = 0
  BY <1>3, MultipleMod
<1>5. due > ms /\ due - D <= ms
  BY <1>1
<1>6. QED BY <1>4, <1>5 DEF IsNextOnGrid

(* The first point after ms of the weekly grid: ceiling, advance on a tie. *)
LEMMA WeeklyStep ==
    ASSUME NEW W \in Nat \ {0}, NEW base \in Nat, NEW ms \in Nat, NEW t \in Int,
           t = base + CeilDiv(ms - base, W) * W,
           NEW due \in Int, due = IF t <= ms THEN t + W ELSE t
    PROVE  due \in Nat /\ IsNextOnGrid(due, base, W, ms)
<1> DEFINE x == -(ms - base)
           q == x \div W
<1>1. q \in Int /\ x % W \in 0..W-1 /\ x = W * q + (x % W)
  <2>1. x \in Int OBVIOUS
  <2>2. QED BY <2>1, DivMod
<1>2. CeilDiv(ms - base, W) = -q
  BY DEF CeilDiv
<1>3. t - base = W * (-q)
  BY <1>1, <1>2
<1>4. t = ms + (x % W)
  <2>1. W * (-q) = -(W * q)
    BY <1>1
  <2>2. QED BY <1>1, <1>3, <2>1
<1>5. \E m \in Int : due - base = W * m
  <2>1. t - base \in Int /\ \E m \in Int : t - base = W * m
    <3>1. t - base \in Int
      OBVIOUS
    <3>2. \E m \in Int : t - base = W * m
      <4> HIDE DEF q
      <4>1. -q \in Int
        BY <1>1
      <4> WITNESS -q \in Int
      <4> QED BY <1>3
    <3>3. QED BY <3>1, <3>2
  <2>2. \E m \in Int : (t - base) + W = W * m
    BY <2>1, NextMultiple
  <2>3. due - base = t - base \/ due - base = (t - base) + W
    OBVIOUS
  <2>4. QED BY <2>1, <2>2, <2>3
<1>6. (due - base) % W = 0
  BY <1>5, MultipleMod
<1>7. due > ms /\ due - W <= ms
  BY <1>1, <1>4
<1>8. QED BY <1>6, <1>7 DEF IsNextOnGrid

(* A fast retry lands on a quarter-hour strictly after now.                *)
LEMMA RetryStep ==
    ASSUME NEW o \in Org, NEW ms \in Nat
    PROVE  /\ NextRetryInstantAfter(o, ms) \in Nat
           /\ NextRetryInstantAfter(o, ms) > ms
           /\ NextRetryInstantAfter(o, ms) % SlotLen = 0
<1> DEFINE q == ms \div SlotLen
           n == RetryOffset[o]
<1>1. SlotLen \in Nat \ {0} /\ n \in Nat
  BY GridAssumption
<1>2. q \in Int /\ ms % SlotLen \in 0..SlotLen-1 /\ ms = SlotLen * q + (ms % SlotLen)
  BY <1>1, DivMod
<1>3. NextRetryInstantAfter(o, ms) = SlotLen * (q + 1 + n)
  BY <1>1, <1>2 DEF NextRetryInstantAfter, NextQuarterHourAfter
<1>4. SlotLen * n >= 0
  BY <1>1
<1>5. SlotLen * (q + 1 + n) = SlotLen * q + SlotLen + SlotLen * n
  BY <1>1, <1>2
<1>6. SlotLen * (q + 1 + n) > ms
  BY <1>1, <1>2, <1>4, <1>5
<1>7. QED BY <1>1, <1>2, <1>3, <1>6, MultipleMod

-----------------------------------------------------------------------------
(* The theorems.                                                           *)

(* The first point of o's own grid for t.                                  *)
OwnBase(o, t) == IF t \in Weekly THEN WeeklySlot[o] * SlotLen ELSE DailySlot[o] * SlotLen
OwnPeriod(t)  == IF t \in Weekly THEN WeekLen ELSE DayLen

(* computeNextDueAt returns the first instant after completion of the      *)
(* organisation's own daily or weekly grid, for every completion instant.  *)
THEOREM OnOwnGrid ==
    ASSUME NEW o \in Org, NEW t \in Type, NEW ms \in Nat
    PROVE  /\ ComputeNextDueAt(o, t, ms) \in Nat
           /\ IsNextOnGrid(ComputeNextDueAt(o, t, ms), OwnBase(o, t), OwnPeriod(t), ms)
<1>1. CASE t \in Weekly
  <2> DEFINE W == WeekLen
             base == WeeklySlot[o] * SlotLen
             x == CeilDiv(ms - base, W)
             slot == base + x * W
             due == IF slot <= ms THEN slot + W ELSE slot
  <2>1. base \in Nat /\ W \in Nat \ {0}
    BY GridAssumption, Lengths
  <2>2. x \in Int
    <3> HIDE DEF base, W
    <3>1. -(ms - base) \in Int
      BY <2>1
    <3>2. QED BY <2>1, <3>1, DivMod DEF CeilDiv
  <2>3. slot \in Int /\ due \in Int
    <3> HIDE DEF base, W, x
    <3>1. x * W \in Int
      BY <2>1, <2>2
    <3>2. QED BY <2>1, <3>1
  <2>4. due \in Nat /\ IsNextOnGrid(due, base, W, ms)
    <3> HIDE DEF base, W
    <3>1. slot = base + CeilDiv(ms - base, W) * W
      OBVIOUS
    <3> HIDE DEF slot
    <3>2. QED BY <2>1, <2>3, <3>1, WeeklyStep
  <2>5. ComputeNextDueAt(o, t, ms) = due
    BY <1>1 DEF ComputeNextDueAt, NextWeeklySlotInstantAfter
  <2>6. QED BY <1>1, <2>4, <2>5 DEF OwnBase, OwnPeriod
<1>2. CASE t \notin Weekly
  <2> DEFINE D == DayLen
             s == DailySlot[o] * SlotLen
             slot == StartOfUtcDay(ms) + s
             due == IF slot <= ms THEN slot + D ELSE slot
  <2>1. s \in 0..D-1 /\ D \in Nat \ {0}
    BY GridAssumption, SlotStart DEF DayLen
  <2>2. slot = (ms - (ms % D)) + s
    BY DEF StartOfUtcDay
  <2>3. slot \in Int /\ due \in Int
    <3> HIDE DEF s, slot, D
    <3>1. ms % D \in 0..D-1
      BY <2>1, DivMod
    <3>2. QED BY <2>1, <2>2, <3>1
  <2>4. due \in Nat /\ IsNextOnGrid(due, s, D, ms)
    <3> HIDE DEF s, slot, D
    <3>1. QED BY <2>1, <2>2, <2>3, DailyStep
  <2>5. ComputeNextDueAt(o, t, ms) = due
    BY <1>2 DEF ComputeNextDueAt, NextDailySlotInstantAfter
  <2>6. QED BY <1>2, <2>4, <2>5 DEF OwnBase, OwnPeriod
<1>3. QED BY <1>1, <1>2

(* A retry, fast or deferred to the own slot, is never due at once.        *)
THEOREM RetryInFuture ==
    ASSUME NEW o \in Org, NEW t \in Type, NEW ms \in Nat, NEW n \in Nat
    PROVE  /\ ComputeRetryNextDueAt(o, t, ms, n) \in Nat
           /\ ComputeRetryNextDueAt(o, t, ms, n) > ms
  BY OnOwnGrid, RetryStep DEF ComputeRetryNextDueAt, IsNextOnGrid

(* A grid has one next point.                                              *)
LEMMA NextIsUnique ==
    ASSUME NEW b \in Int, NEW D \in Nat \ {0}, NEW ms \in Int, NEW d \in Int, NEW e \in Int,
           IsNextOnGrid(d, b, D, ms), IsNextOnGrid(e, b, D, ms)
    PROVE  d = e
<1> DEFINE p == (d - b) \div D
           q == (e - b) \div D
<1>1. p \in Int /\ q \in Int /\ d - b = D * p /\ e - b = D * q
  BY DivMod DEF IsNextOnGrid
<1>2. D * p < D * q + D /\ D * q < D * p + D
  BY <1>1 DEF IsNextOnGrid
<1>3. p = q
  BY <1>1, <1>2, MultiplesApart
<1>4. QED BY <1>1, <1>3

(* However late within its slot an observation completes, the next one is  *)
(* due at the same instant: a due date is a point of the grid, never       *)
(* completion + interval, and so a schedule does not drift.                *)
THEOREM NoDrift ==
    ASSUME NEW o \in Org, NEW t \in Type, NEW ms \in Nat, NEW late \in Nat,
           ms <= late, late < ComputeNextDueAt(o, t, ms)
    PROVE  ComputeNextDueAt(o, t, late) = ComputeNextDueAt(o, t, ms)
<1> DEFINE due == ComputeNextDueAt(o, t, ms)
<1>1. OwnBase(o, t) \in Int /\ OwnPeriod(t) \in Nat \ {0}
  BY GridAssumption, Lengths DEF OwnBase, OwnPeriod
<1>2. due \in Nat /\ IsNextOnGrid(due, OwnBase(o, t), OwnPeriod(t), late)
  BY <1>1, OnOwnGrid DEF IsNextOnGrid
<1>3. /\ ComputeNextDueAt(o, t, late) \in Nat
      /\ IsNextOnGrid(ComputeNextDueAt(o, t, late), OwnBase(o, t), OwnPeriod(t), late)
  BY OnOwnGrid
<1>4. QED BY <1>1, <1>2, <1>3, NextIsUnique
=============================================================================

------------------------ MODULE SerialRefinementProofs ------------------------
(***************************************************************************)
(* The drain implements SerialObservation: seen through who holds which    *)
(* row, how often it failed and when it was last observed, the interleaved *)
(* claims, reads, collections and writes of overlapping wakes are steps of *)
(* serial observers.  The hypothesis is Timely, and the invariant adds to  *)
(* LeaseInv that recorded instants are not ahead of the clock, and that    *)
(* the instant a lane is about to record is no older than the recorded one.*)
(***************************************************************************)
EXTENDS ObservationSchedulerProofs

Recorded ==
    /\ clock <= MaxClock
    /\ \A k \in Key : states[k].lastObservedAt <= clock
    /\ \A a \in Agent : lane[a].pc = "write" =>
         /\ lane[a].at <= clock
         /\ lane[a].at >= states[<<lane[a].org, lane[a].current>>].lastObservedAt

SerialInv == LeaseInv /\ Recorded

SameRecord(k) ==
    /\ states'[k].attemptCount = states[k].attemptCount
    /\ states'[k].lastObservedAt = states[k].lastObservedAt

(* A step that records nothing and takes no row.                           *)
Quiet ==
    /\ \A k \in Key : SameRecord(k)
    /\ \A a \in Agent, k \in Key : Holds(a, k)' => Holds(a, k)

-----------------------------------------------------------------------------
(* The holder of a row.                                                    *)

LEMMA HolderIs ==
    ExclusiveHolder => \A a \in Agent, k \in Key : Holds(a, k) => Holder(k) = a
  BY DEF ExclusiveHolder, Holder

(* The same after a step.                                                  *)
LEMMA HolderIsNext ==
    ExclusiveHolder' => \A a \in Agent, k \in Key : Holds(a, k)' => Holder(k)' = a
  BY DEF ExclusiveHolder, Holder

(* A quiet step gives up the rows nobody holds any more, maybe none.       *)
LEMMA QuietRefines ==
    ASSUME ExclusiveHolder, ExclusiveHolder', Quiet
    PROVE  Serial!Next
<1> DEFINE S == {k \in Key : \A a \in Agent : ~Holds(a, k)'}
<1>1. \A k \in Key : Holder(k)' = IF k \in S THEN None ELSE Holder(k)
  <2> SUFFICES ASSUME NEW k \in Key PROVE Holder(k)' = IF k \in S THEN None ELSE Holder(k)
    OBVIOUS
  <2>1. CASE \A a \in Agent : ~Holds(a, k)'
    BY <2>1 DEF Holder
  <2>2. CASE \E a \in Agent : Holds(a, k)'
    <3>1. PICK a \in Agent : Holds(a, k)'
      BY <2>2
    <3>2. Holder(k) = a /\ Holder(k)' = a
      BY <3>1, HolderIs, HolderIsNext DEF Quiet
    <3>3. QED BY <2>2, <3>2
  <2>3. QED BY <2>1, <2>2
<1>2. S \in SUBSET Key
  OBVIOUS
<1> HIDE DEF S
<1>3. Serial!GiveUp(S)
  BY <1>1, <1>2 DEF Serial!GiveUp, Quiet, SameRecord
<1>4. QED BY <1>2, <1>3 DEF Serial!Next

-----------------------------------------------------------------------------
(* A successful claim acquires the row.                                    *)
LEMMA ClaimRefines ==
    ASSUME Timely, LeaseInv, LeaseInv', NEW a \in Agent, NEW t \in Type, Claim(a, t)
    PROVE  Serial!Next
<1> DEFINE k == <<lane[a].org, t>>
<1>1. lane[a] \in LaneState /\ lane[a].pc = "claim" /\ k \in Key
  BY DEF Claim, LeaseInv, TypeOK, Key
<1>2. \A b \in Agent : b # a => lane'[b] = lane[b]
  BY DEF Claim, LeaseInv, TypeOK
<1>3. CASE ~Claimable(states[k], lane[a].now)
  <2>1. states' = states /\ lane'[a].held = lane[a].held /\ lane'[a].org = lane[a].org
    BY <1>1, <1>3 DEF Claim, LeaseInv, TypeOK, LaneState
  <2>2. Quiet
    BY <1>2, <2>1 DEF Quiet, SameRecord, Holds
  <2>3. QED BY <2>2, QuietRefines DEF LeaseInv
<1>4. CASE Claimable(states[k], lane[a].now)
  <2>1. \A b \in Agent : ~Holds(b, k)
    BY <1>1, <1>4, ClaimExcludes
  <2>2. lane'[a].held = lane[a].held \cup {t} /\ lane'[a].org = lane[a].org
    BY <1>1, <1>4 DEF Claim, LeaseInv, TypeOK, LaneState
  <2>3. states' = [states EXCEPT ![k] = ClaimedState(states[k], lane[a].now)]
    BY <1>4 DEF Claim
  <2>4. \A j \in Key : SameRecord(j)
    <3>1. states[k] \in ObservationState
      BY <1>1 DEF LeaseInv, TypeOK
    <3>2. /\ ClaimedState(states[k], lane[a].now).attemptCount = states[k].attemptCount
          /\ ClaimedState(states[k], lane[a].now).lastObservedAt = states[k].lastObservedAt
      BY <3>1 DEF ClaimedState, ObservationState
    <3>3. QED BY <1>1, <2>3, <3>2 DEF SameRecord, LeaseInv, TypeOK
  <2>5. \A b \in Agent, j \in Key : j # k => (Holds(b, j)' <=> Holds(b, j))
    <3> SUFFICES ASSUME NEW b \in Agent, NEW j \in Key, j # k
                 PROVE  Holds(b, j)' <=> Holds(b, j)
      OBVIOUS
    <3>1. CASE b # a
      BY <1>2, <3>1 DEF Holds
    <3>2. CASE b = a /\ j[2] = t
      <4>1. j[1] # lane[a].org
        BY <3>2 DEF Key
      <4>2. QED BY <2>2, <3>2, <4>1 DEF Holds
    <3>3. CASE b = a /\ j[2] # t
      BY <2>2, <3>3 DEF Holds
    <3>4. QED BY <3>1, <3>2, <3>3
  <2>6. Holds(a, k)'
    BY <2>2 DEF Holds
  <2>7. Holder(k) = None
    BY <2>1 DEF Holder
  <2>8. \A j \in Key : Holder(j)' = IF j = k THEN a ELSE Holder(j)
    <3> SUFFICES ASSUME NEW j \in Key PROVE Holder(j)' = IF j = k THEN a ELSE Holder(j)
      OBVIOUS
    <3>1. CASE j = k
      <4>1. PICK i \in Key : i = k
        BY <1>1
      <4>2. Holds(a, i)'
        BY <2>2, <4>1 DEF Holds
      <4>3. QED BY <3>1, <4>1, <4>2, HolderIsNext DEF LeaseInv
    <3>2. CASE j # k /\ \E b \in Agent : Holds(b, j)
      <4>1. PICK b \in Agent : Holds(b, j)
        BY <3>2
      <4>2. Holds(b, j)'
        BY <2>5, <3>2, <4>1
      <4>3. QED BY <3>2, <4>1, <4>2, HolderIs, HolderIsNext DEF LeaseInv
    <3>3. CASE j # k /\ \A b \in Agent : ~Holds(b, j)
      BY <2>5, <3>3 DEF Holder
    <3>4. QED BY <3>1, <3>2, <3>3
  <2>9. PICK i \in Key : i = k
    BY <1>1
  <2>10. Serial!Acquire(a, i)
    BY <2>4, <2>7, <2>8, <2>9 DEF Serial!Acquire, SameRecord
  <2>11. QED BY <2>10 DEF Serial!Next
<1>5. QED BY <1>3, <1>4

(* A recorded outcome is one success or one failure of a held row.         *)
LEMMA WriteRefines ==
    ASSUME SerialInv, LeaseInv', NEW a \in Agent, WriteOutcome(a)
    PROVE  Serial!Next
<1> DEFINE t == lane[a].current
<1>1. /\ lane[a] \in LaneState /\ lane[a].pc = "write" /\ lane[a].types = {}
      /\ t \in lane[a].held
  BY DEF WriteOutcome, SerialInv, LeaseInv, TypeOK
<1>2. PICK k \in Key : k = <<lane[a].org, t>>
  BY <1>1, HolderWorks DEF SerialInv, LeaseInv
<1>3. Holds(a, k) /\ Holder(k) = a /\ a # None
  BY <1>1, <1>2, HolderIs, WorkerAssumption DEF Holds, SerialInv, LeaseInv
<1>4. /\ lane'[a] = DoneWith(a, t) /\ \A b \in Agent : b # a => lane'[b] = lane[b]
  BY DEF WriteOutcome, SerialInv, LeaseInv, TypeOK
<1>5. \A b \in Agent, j \in Key : Holds(b, j)' <=> (Holds(b, j) /\ j # k)
  <2> SUFFICES ASSUME NEW b \in Agent, NEW j \in Key
               PROVE  Holds(b, j)' <=> (Holds(b, j) /\ j # k)
    OBVIOUS
  <2>1. CASE b # a
    <3>1. Holds(b, j) => j # k
      BY <1>3, <2>1 DEF SerialInv, LeaseInv, ExclusiveHolder
    <3>2. QED BY <1>4, <2>1, <3>1 DEF Holds
  <2>2. CASE b = a /\ lane[a].held = {t}
    <3>1. lane'[a].held = {}
      BY <1>4, <2>2 DEF DoneWith, Free
    <3>2. Holds(b, j) => j = k
      BY <1>2, <2>2 DEF Holds, Key
    <3>3. QED BY <2>2, <3>1, <3>2 DEF Holds
  <2>3. CASE b = a /\ lane[a].held # {t}
    <3>1. lane'[a].held = lane[a].held \ {t} /\ lane'[a].org = lane[a].org
      BY <1>1, <1>4, <2>3 DEF DoneWith, LaneState
    <3>2. j = k <=> j[1] = lane[a].org /\ j[2] = t
      BY <1>2 DEF Key
    <3>3. QED BY <2>3, <3>1, <3>2 DEF Holds
  <2>4. QED BY <2>1, <2>2, <2>3
<1>6. \A j \in Key : Holder(j)' = IF j = k THEN None ELSE Holder(j)
  <2> SUFFICES ASSUME NEW j \in Key PROVE Holder(j)' = IF j = k THEN None ELSE Holder(j)
    OBVIOUS
  <2>1. CASE j = k
    BY <1>5, <2>1 DEF Holder
  <2>2. CASE j # k /\ \E b \in Agent : Holds(b, j)
    <3>1. PICK b \in Agent : Holds(b, j)
      BY <2>2
    <3>2. Holds(b, j)'
      BY <1>5, <2>2, <3>1
    <3>3. QED BY <2>2, <3>1, <3>2, HolderIs, HolderIsNext DEF SerialInv, LeaseInv
  <2>3. CASE j # k /\ \A b \in Agent : ~Holds(b, j)
    BY <1>5, <2>3 DEF Holder
  <2>4. QED BY <2>1, <2>2, <2>3
<1>7. states[k] \in ObservationState /\ lane[a].attemptsRead = states[k].attemptCount
  BY <1>1, <1>2 DEF SerialInv, LeaseInv, TypeOK, ReadIsFresh
<1>8. \A j \in Key : j # k => SameRecord(j)
  BY <1>2 DEF WriteOutcome, SameRecord, SerialInv, LeaseInv, TypeOK
<1>9. CASE lane[a].ok
  <2>1. states'[k] = SuccessState(k, states[k], lane[a].at, clock)
    BY <1>2, <1>9 DEF WriteOutcome, SerialInv, LeaseInv, TypeOK
  <2>2. states'[k].attemptCount = 0 /\ states'[k].lastObservedAt = lane[a].at
    BY <1>7, <2>1 DEF SuccessState, ObservationState
  <2>3. lane[a].at \in 0..MaxClock /\ lane[a].at >= states[k].lastObservedAt
    BY <1>1, <1>2, BoundAssumption DEF SerialInv, Recorded, LaneState, LeaseInv, TypeOK
  <2>4. Serial!Succeed(k)
    BY <1>3, <1>6, <1>8, <2>2, <2>3 DEF Serial!Succeed, SameRecord
  <2>5. QED BY <2>4 DEF Serial!Next
<1>10. CASE ~lane[a].ok
  <2>1. states'[k] = FailureState(k, states[k], lane[a].attemptsRead, lane[a].at, clock)
    BY <1>2, <1>10 DEF WriteOutcome, SerialInv, LeaseInv, TypeOK
  <2>2. /\ states'[k].attemptCount = states[k].attemptCount + 1
        /\ states'[k].lastObservedAt = states[k].lastObservedAt
    BY <1>7, <2>1 DEF FailureState, ObservationState
  <2>3. Serial!Fail(k)
    BY <1>3, <1>6, <1>8, <2>2 DEF Serial!Fail, SameRecord
  <2>4. QED BY <2>3 DEF Serial!Next
<1>11. QED BY <1>9, <1>10

-----------------------------------------------------------------------------
(* Every other step is quiet.                                              *)

(* Whatever a lane's new state is, it holds no row it did not hold.        *)
LEMMA LaneQuiet ==
    ASSUME TypeOK, NEW a \in Agent, NEW l, lane' = [lane EXCEPT ![a] = l],
           l.held \subseteq lane[a].held, l.held # {} => l.org = lane[a].org,
           \A k \in Key : SameRecord(k)
    PROVE  Quiet
<1>1. lane'[a] = l /\ \A b \in Agent : b # a => lane'[b] = lane[b]
  BY DEF TypeOK
<1>2. ASSUME NEW b \in Agent, NEW k \in Key, Holds(b, k)' PROVE Holds(b, k)
  <2>1. CASE b = a
    <3>1. k[2] \in l.held /\ l.org = k[1]
      BY <1>1, <1>2, <2>1 DEF Holds
    <3>2. QED BY <2>1, <3>1 DEF Holds
  <2>2. CASE b # a
    BY <1>1, <1>2, <2>2 DEF Holds
  <2>3. QED BY <2>1, <2>2
<1>3. QED BY <1>2 DEF Quiet

(* What a claim writes is no part of the record.                           *)
LEMMA ClaimSameRecord ==
    ASSUME TypeOK, NEW k \in Key, NEW now,
           UNCHANGED states \/ states' = [states EXCEPT ![k] = ClaimedState(@, now)]
    PROVE  \A j \in Key : SameRecord(j)
<1>1. states[k] \in ObservationState
  BY DEF TypeOK
<1>2. /\ ClaimedState(states[k], now).attemptCount = states[k].attemptCount
      /\ ClaimedState(states[k], now).lastObservedAt = states[k].lastObservedAt
  BY <1>1 DEF ClaimedState, ObservationState
<1>3. QED BY <1>2 DEF SameRecord, TypeOK

(* Steps other than a claim and a write leave the record of outcomes       *)
(* alone.                                                                  *)
LEMMA OthersAreQuiet ==
    ASSUME Timely, LeaseInv, [Next]_vars,
           ~\E a \in Agent, t \in Type : Claim(a, t), ~\E a \in Agent : WriteOutcome(a)
    PROVE  Quiet
<1>t. TypeOK
  BY DEF LeaseInv
<1>f. Free.held = {}
  BY DEF Free
<1>1. ASSUME UNCHANGED states PROVE \A k \in Key : SameRecord(k)
  BY <1>1 DEF SameRecord
<1>2. ASSUME NEW w \in Worker, WakeNext(w) PROVE Quiet
  <2>1. CASE Crash(w)
    BY <1>1, <1>f, <2>1 DEF Crash, Quiet, Holds
  <2>2. CASE ~Crash(w)
    <3>1. UNCHANGED <<states, lane>>
      BY <1>2, <2>2 DEF WakeNext, StartDrain, StartTargeted, StartManual, StopDrain, FindDuePage,
                        FindDuePageFails, FinishPage
    <3>2. QED BY <1>1, <3>1 DEF Quiet, Holds
  <2>3. QED BY <2>1, <2>2
<1>3. ASSUME NEW a \in Agent, NEW o \in Org, TakeOrganisation(a, o) PROVE Quiet
  <2>1. PICK n, S : lane' = [lane EXCEPT ![a] =
            [Free EXCEPT !.pc = "claim", !.org = o, !.since = clock, !.now = n, !.types = S]]
    BY <1>3 DEF TakeOrganisation
  <2> DEFINE l == [Free EXCEPT !.pc = "claim", !.org = o, !.since = clock, !.now = n, !.types = S]
  <2>2. l.held = {}
    BY DEF Free
  <2>3. UNCHANGED states
    BY <1>3 DEF TakeOrganisation
  <2> HIDE DEF l
  <2>4. lane' = [lane EXCEPT ![a] = l]
    BY <2>1 DEF l
  <2>5. QED BY <1>t, <1>1, <2>2, <2>3, <2>4, LaneQuiet
<1>4. ASSUME NEW a \in Agent, NEW o \in Org, SkipOrganisation(a, o) PROVE Quiet
  BY <1>1, <1>4 DEF SkipOrganisation, Quiet, Holds
<1>5. ASSUME NEW a \in Agent, NEW t \in Type, ClaimFails(a, t) PROVE Quiet
  <2>1. <<lane[a].org, t>> \in Key
    BY <1>t, <1>5 DEF ClaimFails, TypeOK, Key
  <2>2. \A k \in Key : SameRecord(k)
    BY <1>t, <1>5, <2>1, ClaimSameRecord DEF ClaimFails
  <2>3. QED BY <1>t, <1>f, <1>5, <2>2, LaneQuiet DEF ClaimFails
<1>6. ASSUME NEW a \in Agent, FinishClaims(a) PROVE Quiet
  <2>1. PICK l \in {Free, [lane[a] EXCEPT !.pc = "read"]} : lane' = [lane EXCEPT ![a] = l]
    BY <1>6 DEF FinishClaims
  <2>2. lane[a] \in LaneState /\ UNCHANGED states
    BY <1>t, <1>6 DEF FinishClaims, TypeOK
  <2>3. l.held \subseteq lane[a].held /\ (l.held # {} => l.org = lane[a].org)
    BY <1>f, <2>1, <2>2 DEF LaneState
  <2>4. QED BY <1>t, <1>1, <2>1, <2>2, <2>3, LaneQuiet
<1>7. ASSUME NEW a \in Agent, NEW t \in Type, ReadState(a, t) PROVE Quiet
  <2>1. PICK p : lane' = [lane EXCEPT ![a] = [lane[a] EXCEPT !.pc = p, !.current = t,
                    !.attemptsRead = states[<<lane[a].org, t>>].attemptCount]]
    BY <1>7 DEF ReadState
  <2> DEFINE l == [lane[a] EXCEPT !.pc = p, !.current = t,
                     !.attemptsRead = states[<<lane[a].org, t>>].attemptCount]
  <2>2. l.held = lane[a].held /\ l.org = lane[a].org
    BY <1>t DEF TypeOK, LaneState
  <2>3. UNCHANGED states
    BY <1>7 DEF ReadState
  <2> HIDE DEF l
  <2>4. lane' = [lane EXCEPT ![a] = l]
    BY <2>1 DEF l
  <2>5. QED BY <1>t, <1>1, <2>2, <2>3, <2>4, LaneQuiet
<1>8. ASSUME NEW a \in Agent, NEW ok \in BOOLEAN, Collect(a, ok) PROVE Quiet
  <2> DEFINE l == [lane[a] EXCEPT !.pc = "write", !.ok = ok, !.at = clock]
  <2>1. lane' = [lane EXCEPT ![a] = l] /\ UNCHANGED states
    BY <1>8 DEF Collect
  <2>2. l.held = lane[a].held /\ l.org = lane[a].org
    BY <1>t DEF TypeOK, LaneState
  <2> HIDE DEF l
  <2>3. QED BY <1>t, <1>1, <2>1, <2>2, LaneQuiet
<1>9. ASSUME NEW a \in Agent,
             (\E t \in Type : ReadStateFails(a, t)) \/ ReadBackFails(a) \/ WriteOutcomeFails(a)
      PROVE  Quiet
  <2>1. lane[a].types = {} /\ UNCHANGED states
    BY <1>t, <1>9 DEF ReadStateFails, ReadBackFails, WriteOutcomeFails, TypeOK
  <2>2. PICK t \in lane[a].held : lane' = [lane EXCEPT ![a] = DoneWith(a, t)]
    BY <1>t, <1>9 DEF ReadStateFails, ReadBackFails, WriteOutcomeFails, TypeOK
  <2>3. /\ DoneWith(a, t).held \subseteq lane[a].held
        /\ DoneWith(a, t).held # {} => DoneWith(a, t).org = lane[a].org
    BY <2>1, <2>2, DoneLetsGo
  <2>4. QED BY <1>t, <1>1, <2>1, <2>2, <2>3, LaneQuiet
<1>10. ASSUME NEW k \in Key, Suspend(k) PROVE Quiet
  <2>1. /\ states'[k].attemptCount = states[k].attemptCount
        /\ states'[k].lastObservedAt = states[k].lastObservedAt
        /\ \A j \in Key : j # k => states'[j] = states[j]
    BY <1>10, <1>t DEF Suspend, TypeOK, ObservationState
  <2>2. QED BY <1>10, <2>1 DEF Suspend, Quiet, SameRecord, Holds
<1>11. CASE Tick \/ UNCHANGED vars
  BY <1>1, <1>11 DEF Tick, vars, Quiet, Holds
<1>13. ASSUME NEW k \in Key, Provision(k) PROVE Quiet
  <2>1. PICK start \in 0..clock : states' = [states EXCEPT ![k] = InitialState(k, start, clock)]
    BY <1>13 DEF Provision
  <2>2. /\ InitialState(k, start, clock).attemptCount = NoRow.attemptCount
        /\ InitialState(k, start, clock).lastObservedAt = NoRow.lastObservedAt
    BY DEF InitialState, CreatedState, NoRow
  <2>3. states[k] = NoRow /\ lane' = lane
    BY <1>13 DEF Provision
  <2>4. \A j \in Key : SameRecord(j)
    BY <1>t, <2>1, <2>2, <2>3 DEF SameRecord, TypeOK
  <2>5. QED BY <2>3, <2>4 DEF Quiet, Holds
<1>14. ASSUME NEW a \in Agent, Insert(a) \/ InsertFails(a) PROVE Quiet
  BY <1>14 DEF Insert, InsertFails, LeaseInv, NoInsert
<1>15. ASSUME NEW a \in Agent, NEW o \in Org, TakeUnclaimed(a, o) PROVE Quiet
  BY <1>15, WorkerAssumption DEF TakeUnclaimed, Timely
<1>16. QED
  BY <1>2, <1>3, <1>4, <1>5, <1>6, <1>7, <1>8, <1>9, <1>10, <1>11, <1>13, <1>14, <1>15 DEF Next, LaneNext

-----------------------------------------------------------------------------
(* The recorded instants.                                                  *)

(* No lane moves the clock, whatever it does.                              *)
LEMMA LanesKeepClock == ASSUME NEW a \in Agent, LaneNext(a) PROVE clock' = clock
<1>1. ASSUME NEW o \in Org, TakeOrganisation(a, o) PROVE clock' = clock
  BY <1>1 DEF TakeOrganisation
<1>2. ASSUME NEW o \in Org, TakeUnclaimed(a, o) PROVE clock' = clock
  BY <1>2 DEF TakeUnclaimed
<1>3. ASSUME NEW o \in Org, SkipOrganisation(a, o) PROVE clock' = clock
  BY <1>3 DEF SkipOrganisation
<1>4. ASSUME NEW t \in Type, Claim(a, t) \/ ClaimFails(a, t) PROVE clock' = clock
  BY <1>4 DEF Claim, ClaimFails
<1>5. ASSUME FinishClaims(a) PROVE clock' = clock
  BY <1>5 DEF FinishClaims
<1>6. ASSUME NEW t \in Type, ReadState(a, t) \/ ReadStateFails(a, t) PROVE clock' = clock
  BY <1>6 DEF ReadState, ReadStateFails
<1>7. ASSUME Insert(a) \/ InsertFails(a) PROVE clock' = clock
  BY <1>7 DEF Insert, InsertFails
<1>8. ASSUME NEW ok \in BOOLEAN, Collect(a, ok) PROVE clock' = clock
  BY <1>8 DEF Collect
<1>9. ASSUME ReadBackFails(a) \/ WriteOutcome(a) \/ WriteOutcomeFails(a) PROVE clock' = clock
  BY <1>9 DEF ReadBackFails, WriteOutcome, WriteOutcomeFails
<1>10. QED
  BY <1>1, <1>2, <1>3, <1>4, <1>5, <1>6, <1>7, <1>8, <1>9 DEF LaneNext

(* Nor does a wake; time passes in a step of its own.                      *)
LEMMA OnlyTickMoves == ASSUME [Next]_vars PROVE Tick \/ clock' = clock
<1>1. ASSUME NEW w \in Worker, StartDrain(w) \/ StartTargeted(w) \/ StartManual(w) \/ StopDrain(w)
      PROVE  clock' = clock
  BY <1>1 DEF StartDrain, StartTargeted, StartManual, StopDrain
<1>2. ASSUME NEW w \in Worker,
             FindDuePage(w) \/ FindDuePageFails(w) \/ FinishPage(w) \/ Crash(w)
      PROVE  clock' = clock
  BY <1>2 DEF FindDuePage, FindDuePageFails, FinishPage, Crash
<1>3. ASSUME NEW k \in Key, Suspend(k) \/ Provision(k) PROVE clock' = clock
  BY <1>3 DEF Suspend, Provision
<1>4. CASE UNCHANGED vars
  BY <1>4 DEF vars
<1>5. QED BY <1>1, <1>2, <1>3, <1>4, LanesKeepClock DEF Next, WakeNext

(* The clock never goes back.                                              *)
LEMMA ClockSteps ==
    ASSUME TypeOK, Recorded, [Next]_vars
    PROVE  clock' >= clock /\ clock' <= MaxClock /\ clock' \in Nat
<1>0. clock \in Nat /\ clock <= MaxClock /\ MaxClock \in Nat
  BY BoundAssumption DEF TypeOK, Recorded
<1>1. CASE Tick
  BY <1>0, <1>1 DEF Tick
<1>2. CASE clock' = clock
  BY <1>0, <1>2
<1>3. QED BY <1>1, <1>2, OnlyTickMoves

(* Only Collect brings a lane to its write.                                *)
LEMMA OnlyCollectWrites ==
    ASSUME Timely, LeaseInv, [Next]_vars, NEW b \in Agent, lane'[b].pc = "write"
    PROVE  \/ lane'[b] = lane[b]
           \/ /\ lane[b].pc = "collect" /\ lane'[b].at = clock /\ clock' = clock
              /\ lane'[b].org = lane[b].org /\ lane'[b].current = lane[b].current
<1>t. TypeOK
  BY DEF LeaseInv
<1>f. Free.pc = "free"
  BY DEF Free
<1>1. ASSUME NEW w \in Worker, WakeNext(w) PROVE lane'[b] = lane[b]
  BY <1>f, <1>1 DEF WakeNext, StartDrain, StartTargeted, StartManual, StopDrain, FindDuePage,
                    FindDuePageFails, FinishPage, Crash
<1>3. ASSUME NEW a \in Agent, NEW o \in Org, TakeOrganisation(a, o) PROVE lane'[b] = lane[b]
  <2>1. PICK n, S : lane' = [lane EXCEPT ![a] =
            [Free EXCEPT !.pc = "claim", !.org = o, !.since = clock, !.now = n, !.types = S]]
    BY <1>3 DEF TakeOrganisation
  <2>2. lane'[a].pc = "claim"
    BY <1>t, <2>1 DEF TypeOK, Free
  <2>3. QED BY <1>t, <2>1, <2>2 DEF TypeOK
<1>4. ASSUME NEW a \in Agent, NEW o \in Org, SkipOrganisation(a, o) PROVE lane'[b] = lane[b]
  BY <1>4 DEF SkipOrganisation
<1>5. ASSUME NEW a \in Agent, NEW t \in Type, Claim(a, t) \/ ClaimFails(a, t)
      PROVE  lane'[b] = lane[b]
  <2>1. lane'[a].pc # "write"
    BY <1>t, <1>f, <1>5 DEF Claim, ClaimFails, TypeOK, LaneState
  <2>2. b # a => lane'[b] = lane[b]
    BY <1>t, <1>5 DEF Claim, ClaimFails, TypeOK
  <2>3. QED BY <2>1, <2>2
<1>6. ASSUME NEW a \in Agent, FinishClaims(a) PROVE lane'[b] = lane[b]
  BY <1>t, <1>f, <1>6 DEF FinishClaims, TypeOK, LaneState
<1>7. ASSUME NEW a \in Agent, NEW t \in Type, ReadState(a, t) PROVE lane'[b] = lane[b]
  BY <1>t, <1>7 DEF ReadState, TypeOK, LaneState
<1>8. ASSUME NEW a \in Agent,
             (\E t \in Type : ReadStateFails(a, t)) \/ ReadBackFails(a)
               \/ WriteOutcome(a) \/ WriteOutcomeFails(a)
      PROVE  lane'[b] = lane[b]
  <2>1. lane[a].types = {}
    BY <1>t, <1>8 DEF ReadStateFails, ReadBackFails, WriteOutcome, WriteOutcomeFails, TypeOK
  <2>2. PICK t \in lane[a].held : lane' = [lane EXCEPT ![a] = DoneWith(a, t)]
    BY <1>t, <1>8 DEF ReadStateFails, ReadBackFails, WriteOutcome, WriteOutcomeFails, TypeOK
  <2>3. DoneWith(a, t).pc # "write"
    BY <2>1, <2>2, DoneLetsGo
  <2>4. QED BY <1>t, <2>2, <2>3 DEF TypeOK
<1>9. ASSUME NEW a \in Agent, NEW ok \in BOOLEAN, Collect(a, ok)
      PROVE  \/ lane'[b] = lane[b]
             \/ /\ lane[b].pc = "collect" /\ lane'[b].at = clock /\ clock' = clock
                /\ lane'[b].org = lane[b].org /\ lane'[b].current = lane[b].current
  BY <1>t, <1>9 DEF Collect, TypeOK, LaneState
<1>10. ASSUME NEW k \in Key, Suspend(k) PROVE lane'[b] = lane[b]
  BY <1>10 DEF Suspend
<1>11. CASE Tick \/ UNCHANGED vars
  BY <1>11 DEF Tick, vars
<1>12. ASSUME NEW k \in Key, Provision(k) PROVE lane'[b] = lane[b]
  BY <1>12 DEF Provision
<1>13. ASSUME NEW a \in Agent, Insert(a) \/ InsertFails(a) PROVE FALSE
  BY <1>13 DEF Insert, InsertFails, LeaseInv, NoInsert
<1>14. ASSUME NEW a \in Agent, NEW o \in Org, TakeUnclaimed(a, o) PROVE FALSE
  BY <1>14, WorkerAssumption DEF TakeUnclaimed, Timely
<1>15. QED
  BY <1>1, <1>3, <1>4, <1>5, <1>6, <1>7, <1>8, <1>9, <1>10, <1>11, <1>12, <1>13, <1>14 DEF Next, LaneNext

(* Only WriteOutcome changes the instant a row was last observed.          *)
LEMMA OnlyWriteRecords ==
    ASSUME Timely, LeaseInv, [Next]_vars, ~\E a \in Agent : WriteOutcome(a)
    PROVE  \A k \in Key : SameRecord(k)
<1>1. CASE \E a \in Agent, t \in Type : Claim(a, t)
  <2>1. PICK a \in Agent, t \in Type : Claim(a, t)
    BY <1>1
  <2>2. <<lane[a].org, t>> \in Key
    BY <2>1 DEF Claim, LeaseInv, TypeOK, Key
  <2>3. QED BY <2>1, <2>2, ClaimSameRecord DEF Claim, LeaseInv
<1>2. CASE ~\E a \in Agent, t \in Type : Claim(a, t)
  BY <1>2, OthersAreQuiet DEF Quiet
<1>3. QED BY <1>1, <1>2

(* A row's recorded instant lies behind the clock and behind the           *)
(* collection of whoever holds it.                                         *)
LEMMA RecordedStep ==
    ASSUME Timely, SerialInv, LeaseInv', [Next]_vars
    PROVE  Recorded'
<1>t. TypeOK /\ TypeOK' /\ LeaseInv /\ Recorded
  BY DEF SerialInv, LeaseInv
<1>c. clock \in Nat /\ clock' >= clock /\ clock' <= MaxClock /\ clock' \in Nat
  BY <1>t, ClockSteps DEF TypeOK
<1>r. ASSUME NEW b \in Agent, lane[b].pc \in {"collect", "write"}
      PROVE  /\ <<lane[b].org, lane[b].current>> \in Key
             /\ Holds(b, <<lane[b].org, lane[b].current>>)
  BY <1>t, <1>r, HolderWorks DEF LeaseInv, TypeOK, Holds
<1>1. CASE ~\E a \in Agent : WriteOutcome(a)
  <2>1. \A k \in Key : states'[k].lastObservedAt = states[k].lastObservedAt
    BY <1>t, <1>1, OnlyWriteRecords DEF SameRecord
  <2>2. \A k \in Key : states[k].lastObservedAt \in Nat /\ states[k].lastObservedAt <= clock
    BY <1>t DEF TypeOK, ObservationState, Recorded
  <2>3. ASSUME NEW b \in Agent, lane'[b].pc = "write"
        PROVE  /\ lane'[b].at <= clock'
               /\ lane'[b].at >= states'[<<lane'[b].org, lane'[b].current>>].lastObservedAt
    <3>1. CASE lane'[b] = lane[b]
      <4>1. lane[b].at \in Nat /\ lane[b].at <= clock
            /\ lane[b].at >= states[<<lane[b].org, lane[b].current>>].lastObservedAt
        BY <1>t, <2>3, <3>1 DEF Recorded, TypeOK, LaneState
      <4>2. <<lane[b].org, lane[b].current>> \in Key
        BY <1>r, <2>3, <3>1
      <4>3. QED BY <1>c, <2>1, <3>1, <4>1, <4>2
    <3>2. CASE /\ lane[b].pc = "collect" /\ lane'[b].at = clock /\ clock' = clock
               /\ lane'[b].org = lane[b].org /\ lane'[b].current = lane[b].current
      <4>1. <<lane[b].org, lane[b].current>> \in Key
        BY <1>r, <3>2
      <4>2. QED BY <1>c, <2>1, <2>2, <3>2, <4>1
    <3>3. QED BY <1>t, <2>3, <3>1, <3>2, OnlyCollectWrites
  <2>4. QED BY <1>c, <2>1, <2>2, <2>3 DEF Recorded
<1>2. ASSUME NEW a \in Agent, WriteOutcome(a) PROVE Recorded'
  <2> DEFINE k == <<lane[a].org, lane[a].current>>
  <2>1. lane[a].pc = "write" /\ lane[a] \in LaneState
    BY <1>t, <1>2 DEF WriteOutcome, TypeOK
  <2>2. k \in Key /\ Holds(a, k)
    BY <1>r, <2>1
  <2>3. states'[k].lastObservedAt \in {lane[a].at, states[k].lastObservedAt}
    <3>1. states[k] \in ObservationState
      BY <1>t, <2>2 DEF TypeOK
    <3>2. states'[k] \in {SuccessState(k, states[k], lane[a].at, clock),
                          FailureState(k, states[k], lane[a].attemptsRead, lane[a].at, clock)}
      BY <1>t, <1>2, <2>2 DEF WriteOutcome, TypeOK
    <3>3. /\ SuccessState(k, states[k], lane[a].at, clock).lastObservedAt = lane[a].at
          /\ FailureState(k, states[k], lane[a].attemptsRead, lane[a].at, clock).lastObservedAt
               = states[k].lastObservedAt
      BY <3>1 DEF SuccessState, FailureState, ObservationState
    <3>4. QED BY <3>2, <3>3
  <2>4. \A j \in Key : j # k => states'[j] = states[j]
    BY <1>t, <1>2 DEF WriteOutcome, TypeOK
  <2>5. \A j \in Key : states'[j].lastObservedAt <= clock'
    <3>1. \A j \in Key : states[j].lastObservedAt \in Nat /\ states[j].lastObservedAt <= clock
      BY <1>t DEF TypeOK, ObservationState, Recorded
    <3>2. lane[a].at \in Nat /\ lane[a].at <= clock
      BY <1>t, <2>1 DEF Recorded, LaneState
    <3> HIDE DEF k
    <3>3. QED BY <1>c, <2>2, <2>3, <2>4, <3>1, <3>2
  <2>6. ASSUME NEW b \in Agent, lane'[b].pc = "write"
        PROVE  /\ lane'[b].at <= clock'
               /\ lane'[b].at >= states'[<<lane'[b].org, lane'[b].current>>].lastObservedAt
    <3>1. lane'[a].pc # "write"
      <4>1. lane[a].types = {} /\ lane[a].current \in lane[a].held
            /\ lane' = [lane EXCEPT ![a] = DoneWith(a, lane[a].current)]
        BY <1>t, <1>2 DEF WriteOutcome, TypeOK
      <4>2. DoneWith(a, lane[a].current).pc # "write"
        BY <1>t, <4>1, DoneLetsGo
      <4>3. QED BY <1>t, <4>1, <4>2 DEF TypeOK
    <3>2. b # a /\ lane'[b] = lane[b]
      BY <1>t, <1>2, <2>6, <3>1 DEF WriteOutcome, TypeOK
    <3> DEFINE j == <<lane[b].org, lane[b].current>>
    <3>3. j \in Key /\ Holds(b, j)
      BY <1>r, <2>6, <3>2
    <3>4. j # k
      BY <1>t, <2>2, <3>2, <3>3 DEF LeaseInv, ExclusiveHolder
    <3>5. states'[j] = states[j]
      BY <2>4, <3>3, <3>4
    <3>6. /\ lane[b].at \in Nat /\ lane[b].at <= clock
          /\ lane[b].at >= states[j].lastObservedAt
      BY <1>t, <2>6, <3>2 DEF Recorded, TypeOK, LaneState
    <3>7. QED BY <1>c, <3>2, <3>5, <3>6
  <2>7. QED BY <1>c, <2>5, <2>6 DEF Recorded
<1>3. QED BY <1>1, <1>2

(* The refinement's invariant holds at the start.                          *)
LEMMA SerialInit == Init => SerialInv
<1> SUFFICES ASSUME Init PROVE SerialInv
  OBVIOUS
<1>1. clock = 1 /\ 1 <= MaxClock
  BY BoundAssumption DEF Init
<1>2. \A k \in Key : states[k].lastObservedAt = 0
  <2> SUFFICES ASSUME NEW k \in Key PROVE states[k].lastObservedAt = 0
    OBVIOUS
  <2>1. states[k] \in {NoRow, CreatedState(0), InitialState(k, 0, 0)}
    BY DEF Init
  <2>2. QED BY <2>1 DEF InitialState, CreatedState, NoRow, Null
<1>3. \A a \in Agent : lane[a].pc = "free"
  BY DEF Init, Free
<1>4. Recorded
  BY <1>1, <1>2, <1>3 DEF Recorded
<1>5. QED BY <1>4, LeaseInit DEF SerialInv

(* Every step keeps the refinement's invariant.                            *)
LEMMA SerialStep == Timely /\ SerialInv /\ [Next]_vars => SerialInv'
<1> SUFFICES ASSUME Timely, SerialInv, [Next]_vars PROVE SerialInv'
  OBVIOUS
<1>1. LeaseInv'
  BY LeaseStep DEF SerialInv
<1>2. Recorded'
  BY <1>1, RecordedStep
<1>3. QED BY <1>1, <1>2 DEF SerialInv

-----------------------------------------------------------------------------
(* The refinement.                                                         *)

(* The initial states map to the serial observers' initial state.          *)
LEMMA InitRefines == Init => Serial!Init
<1> SUFFICES ASSUME Init PROVE Serial!Init
  OBVIOUS
<1>1. \A k \in Key : Holder(k) = None
  BY DEF Init, Holder, Holds, Free
<1>2. \A k \in Key : states[k].attemptCount = 0 /\ states[k].lastObservedAt = 0
  <2> SUFFICES ASSUME NEW k \in Key
               PROVE  states[k].attemptCount = 0 /\ states[k].lastObservedAt = 0
    OBVIOUS
  <2>1. states[k] \in {NoRow, CreatedState(0), InitialState(k, 0, 0)}
    BY DEF Init
  <2>2. QED BY <2>1 DEF InitialState, CreatedState, NoRow, Null
<1>3. QED BY <1>1, <1>2 DEF Serial!Init

(* Every step of the scheduler is a step or a stutter of the serial        *)
(* observers.                                                              *)
LEMMA StepRefines ==
    Timely /\ SerialInv /\ SerialInv' /\ [Next]_vars => [Serial!Next]_(Serial!vars)
<1> SUFFICES ASSUME Timely, SerialInv, SerialInv', [Next]_vars PROVE Serial!Next
  OBVIOUS
<1>1. LeaseInv /\ LeaseInv' /\ ExclusiveHolder /\ ExclusiveHolder'
  BY DEF SerialInv, LeaseInv
<1>2. CASE \E a \in Agent, t \in Type : Claim(a, t)
  BY <1>1, <1>2, ClaimRefines
<1>3. CASE \E a \in Agent : WriteOutcome(a)
  BY <1>1, <1>3, WriteRefines
<1>4. CASE /\ ~\E a \in Agent, t \in Type : Claim(a, t)
           /\ ~\E a \in Agent : WriteOutcome(a)
  BY <1>1, <1>4, OthersAreQuiet, QuietRefines
<1>5. QED BY <1>2, <1>3, <1>4

(* The overlapping, crashing, retrying lanes implement serial observation: *)
(* every step takes a free row for one lane, records exactly one outcome   *)
(* of a held row, gives rows up unrecorded, or is invisible.               *)
THEOREM SerialRefinement == ASSUME Timely PROVE Spec => ObservesSerially
<1>1. Init => SerialInv /\ Serial!Init
  BY SerialInit, InitRefines
<1>2. SerialInv /\ [Next]_vars => SerialInv'
  BY SerialStep
<1>3. SerialInv /\ SerialInv' /\ [Next]_vars => [Serial!Next]_(Serial!vars)
  BY StepRefines
<1>4. QED BY <1>1, <1>2, <1>3, PTL DEF Spec, ObservesSerially, Serial!Spec
=============================================================================

---------------------- MODULE ObservationSchedulerProofs ----------------------
(***************************************************************************)
(* Proofs about the scheduler for every number of organisations, types,    *)
(* workers, lanes and bounds: type correctness; the exclusion the claim's  *)
(* lease gives and the fresh reads that follow from it, when work ends     *)
(* within the lease; and, without that assumption, due instants that match *)
(* their outcomes.                                                         *)
(***************************************************************************)
EXTENDS ObservationScheduler, ShardAssignmentProofs, FiniteSetTheorems

-----------------------------------------------------------------------------
(* Type correctness.                                                       *)

(* Every row the code writes is well-formed: due instants are naturals.    *)
LEMMA RowWrites ==
    ASSUME NEW k \in Key, NEW row \in ObservationState, NEW n \in Nat,
           NEW at \in Nat, NEW now \in Nat
    PROVE  /\ CreatedState(now) \in ObservationState
           /\ InitialState(k, at, now) \in ObservationState
           /\ ClaimedState(row, now) \in ObservationState
           /\ SuccessState(k, row, at, now) \in ObservationState
           /\ FailureState(k, row, n, at, now) \in ObservationState
<1>1. k[1] \in Org /\ k[2] \in Type
  BY DEF Key
<1>2. /\ ComputeNextDueAt(k[1], k[2], at) \in Nat
      /\ ComputeNextDueAt(k[1], k[2], now) \in Nat
  BY <1>1, OnOwnGrid
<1>3. n + 1 \in Nat /\ ComputeRetryNextDueAt(k[1], k[2], at, n + 1) \in Nat
  <2>1. n + 1 \in Nat
    OBVIOUS
  <2>2. QED BY <1>1, <2>1, RetryInFuture
<1>0. CreatedState(now) \in ObservationState
  BY DEF CreatedState, ObservationState, Status, Null
<1>4. InitialState(k, at, now) \in ObservationState
  BY <1>0, <1>2 DEF InitialState, ObservationState
<1>5. ClaimedState(row, now) \in ObservationState
  BY DEF ClaimedState, ObservationState, Status
<1>6. SuccessState(k, row, at, now) \in ObservationState
  BY <1>2 DEF SuccessState, ObservationState, Status, Null
<1>7. FailureState(k, row, n, at, now) \in ObservationState
  BY <1>3 DEF FailureState, ObservationState, Status
<1>8. QED BY <1>0, <1>4, <1>5, <1>6, <1>7

(* The row that is not there is well-formed.                               *)
LEMMA NoRowIsState == NoRow \in ObservationState
  BY DEF NoRow, ObservationState, Status, Null

(* The number of types a lane holds, which FinishClaims adds to claimed.   *)
LEMMA HeldCount == ASSUME NEW S \in SUBSET Type PROVE Cardinality(S) \in Nat
  BY KeyAssumption, FS_Subset, FS_CardinalityType

(* A lane and a wake at rest are well-formed.                              *)
LEMMA Frees ==
    /\ Free \in LaneState
    /\ Idle \in WakeState
  BY DEF Free, Idle, LaneState, WakeState

(* A lane done with a type is free or goes on to read the next row.        *)
LEMMA DoneIsLane ==
    ASSUME TypeOK, NEW a \in Agent, NEW t \in Type, lane[a].pc # "free", lane[a].types = {}
    PROVE  /\ DoneWith(a, t) \in LaneState
           /\ DoneWith(a, t).pc \in {"free", "read"}
           /\ DoneWith(a, t).pc = "read" => DoneWith(a, t).org \in Org /\ DoneWith(a, t).types = {}
<1>1. lane[a] \in LaneState /\ lane[a].org \in Org
  BY DEF TypeOK
<1>2. CASE lane[a].held = {t}
  BY <1>2, Frees DEF DoneWith, Free
<1>3. CASE lane[a].held # {t}
  BY <1>1, <1>3 DEF DoneWith, LaneState
<1>4. QED BY <1>2, <1>3

(* One lane, or one wake, moves to a well-formed state.                     *)
LEMMA LaneMoves ==
    ASSUME TypeOK, NEW a \in Agent, NEW l \in LaneState,
           l.pc # "free" => l.org \in Org,
           l.pc \in {"read", "insert", "collect", "write"} => l.types = {},
           l.pc \in {"insert", "collect", "write"} => l.current \in l.held,
           lane' = [lane EXCEPT ![a] = l],
           clock' \in Nat, states' \in [Key -> ObservationState],
           wake' \in [Worker -> WakeState], faults' \in Nat
    PROVE  TypeOK'
  BY DEF TypeOK

(* The rows of a page, and of a forced run's plan, are page entries.       *)
LEMMA PagesAreEntries ==
    TypeOK => Due \cup Stale \subseteq PageEntry /\ {DueEntry(k) : k \in Key} \subseteq PageEntry
<1> SUFFICES ASSUME TypeOK, NEW k \in Key
             PROVE  DueEntry(k) \in PageEntry /\ StaleEntry(k) \in PageEntry
  BY DEF Due, Stale
<1>1. states[k] \in ObservationState
  BY DEF TypeOK
<1>2. QED BY <1>1 DEF ObservationState, DueEntry, StaleEntry, PageEntry

(* Provisioned rows and idle workers are well-typed.                       *)
LEMMA TypeInit == Init => TypeOK
<1> SUFFICES ASSUME Init PROVE TypeOK
  OBVIOUS
<1>1. states \in [Key -> ObservationState]
  <2>1. PICK U \in SUBSET Key :
          states = [k \in Key |-> IF k \in Missing THEN NoRow
                                  ELSE IF k \in U THEN CreatedState(0) ELSE InitialState(k, 0, 0)]
    BY DEF Init
  <2>2. \A k \in Key : InitialState(k, 0, 0) \in ObservationState /\ CreatedState(0) \in ObservationState
    BY RowWrites, NoRowIsState
  <2>3. QED BY <2>1, <2>2, NoRowIsState
<1>2. QED
  BY <1>1, Frees DEF Init, TypeOK, Free

(* Every step of every lane, wake and of the environment keeps the types.  *)
LEMMA TypeStep == TypeOK /\ [Next]_vars => TypeOK'
<1> SUFFICES ASSUME TypeOK, [Next]_vars PROVE TypeOK'
  OBVIOUS
<1>1. ASSUME NEW w \in Worker, StartDrain(w) PROVE TypeOK'
  BY <1>1, Frees DEF TypeOK, StartDrain, WakeState, Idle
<1>2. ASSUME NEW w \in Worker, StartTargeted(w) PROVE TypeOK'
  <2>1. PICK P \in SUBSET PageEntry :
          wake' = [wake EXCEPT ![w] = [Idle EXCEPT !.pc = "pool", !.startedAt = clock, !.page = P]]
    BY <1>2, PagesAreEntries DEF StartTargeted
  <2>2. wake' \in [Worker -> WakeState]
    BY <2>1, Frees DEF TypeOK, WakeState
  <2>3. QED BY <1>2, <2>2 DEF TypeOK, StartTargeted
<1>23. ASSUME NEW w \in Worker, StartManual(w) PROVE TypeOK'
  <2>1. PICK O \in SUBSET Org :
          wake' = [wake EXCEPT ![w] = [Idle EXCEPT !.pc = "pool", !.startedAt = clock, !.manual = TRUE,
                                                  !.page = {DueEntry(k) : k \in O \X Type}]]
    BY <1>23 DEF StartManual
  <2>2. {DueEntry(k) : k \in O \X Type} \subseteq PageEntry
    <3>1. \A k \in O \X Type : k \in Key
      BY DEF Key
    <3>2. QED BY <3>1, PagesAreEntries
  <2>3. wake' \in [Worker -> WakeState]
    BY <2>1, <2>2, Frees DEF TypeOK, WakeState
  <2>4. QED BY <1>23, <2>3 DEF TypeOK, StartManual
<1>3. ASSUME NEW w \in Worker, StopDrain(w) PROVE TypeOK'
  BY <1>3, Frees DEF TypeOK, StopDrain
<1>4. ASSUME NEW w \in Worker, FindDuePage(w) PROVE TypeOK'
  <2>1. PICK P \in SUBSET PageEntry :
          wake' = [wake EXCEPT ![w] =
                    IF P = {} THEN Idle
                    ELSE [wake[w] EXCEPT !.pc = "pool", !.page = P, !.stoppedMidPage = FALSE,
                                         !.claimedBefore = wake[w].claimed]]
    BY <1>4, PagesAreEntries DEF FindDuePage
  <2>2. wake' \in [Worker -> WakeState]
    BY <2>1, Frees DEF TypeOK, WakeState
  <2>3. QED BY <1>4, <2>2 DEF TypeOK, FindDuePage
<1>5. ASSUME NEW w \in Worker, FindDuePageFails(w) PROVE TypeOK'
  BY <1>5, Frees DEF TypeOK, FindDuePageFails, Fault
<1>6. ASSUME NEW w \in Worker, FinishPage(w) PROVE TypeOK'
  BY <1>6, Frees DEF TypeOK, FinishPage, WakeState
<1>7. ASSUME NEW w \in Worker, Crash(w) PROVE TypeOK'
  BY <1>7, Frees DEF TypeOK, Crash, Fault, Free
<1>8. ASSUME NEW a \in Agent, NEW o \in Org, TakeOrganisation(a, o) PROVE TypeOK'
  <2> DEFINE l == [Free EXCEPT !.pc = "claim", !.org = o, !.since = clock,
                     !.now = IF a[1] \in Targeted THEN wake[a[1]].startedAt ELSE clock,
                     !.types = {t \in Type : \E e \in wake[a[1]].page : e.key = <<o, t>>}]
  <2>1. a[1] \in Worker /\ wake[a[1]] \in WakeState
    BY DEF TypeOK, Agent
  <2>2. l \in LaneState /\ l.pc = "claim" /\ l.org \in Org
    BY <2>1 DEF Free, LaneState, TypeOK, WakeState
  <2>3. lane' = [lane EXCEPT ![a] = l]
    BY <1>8 DEF TakeOrganisation
  <2>4. wake' \in [Worker -> WakeState]
    BY <1>8, <2>1 DEF TakeOrganisation, TypeOK, WakeState, WithoutOrg
  <2> HIDE DEF l
  <2>5. clock' \in Nat /\ states' \in [Key -> ObservationState] /\ faults' \in Nat
    BY <1>8 DEF TakeOrganisation, TypeOK
  <2>6. QED BY <2>2, <2>3, <2>4, <2>5, LaneMoves
<1>24. ASSUME NEW a \in Agent, NEW o \in Org, TakeUnclaimed(a, o) PROVE TypeOK'
  <2> DEFINE l == [Free EXCEPT !.pc = "read", !.org = o, !.since = clock, !.now = clock, !.held = Type]
  <2>1. l \in LaneState /\ l.pc = "read" /\ l.org \in Org /\ l.types = {}
    BY DEF Free, LaneState, TypeOK
  <2>2. lane' = lane \/ lane' = [lane EXCEPT ![a] = l]
    BY <1>24 DEF TakeUnclaimed
  <2>3. wake' \in [Worker -> WakeState]
    <3>1. a[1] \in Worker /\ wake[a[1]] \in WakeState
      BY DEF TypeOK, Agent
    <3>2. WithoutOrg(wake[a[1]].page, o) \subseteq PageEntry
      BY <3>1 DEF WakeState, WithoutOrg
    <3>3. wake' = [wake EXCEPT ![a[1]].page = WithoutOrg(wake[a[1]].page, o)]
      BY <1>24 DEF TakeUnclaimed
    <3>4. QED BY <3>1, <3>2, <3>3 DEF TypeOK, WakeState
  <2> HIDE DEF l
  <2>4. clock' = clock /\ states' = states /\ faults' = faults
    BY <1>24 DEF TakeUnclaimed
  <2>5. CASE lane' = lane
    BY <2>3, <2>4, <2>5 DEF TypeOK
  <2>6. CASE lane' = [lane EXCEPT ![a] = l]
    BY <2>1, <2>3, <2>4, <2>6, LaneMoves DEF TypeOK
  <2>7. QED BY <2>2, <2>5, <2>6
<1>9. ASSUME NEW a \in Agent, NEW o \in Org, SkipOrganisation(a, o) PROVE TypeOK'
  <2>1. /\ wake' = [wake EXCEPT ![a[1]].page = WithoutOrg(@, o), ![a[1]].stoppedMidPage = TRUE]
        /\ UNCHANGED <<clock, states, lane, faults>>
    BY <1>9 DEF SkipOrganisation
  <2>2. a[1] \in Worker /\ wake[a[1]] \in WakeState
    BY DEF TypeOK, Agent
  <2>3. WithoutOrg(wake[a[1]].page, o) \subseteq PageEntry
    BY <2>2 DEF WakeState, WithoutOrg
  <2>4. [wake[a[1]] EXCEPT !.page = WithoutOrg(wake[a[1]].page, o), !.stoppedMidPage = TRUE] \in WakeState
    BY <2>2, <2>3 DEF WakeState
  <2>5. wake' = [wake EXCEPT ![a[1]] = [wake[a[1]] EXCEPT !.page = WithoutOrg(wake[a[1]].page, o),
                                                         !.stoppedMidPage = TRUE]]
    BY <2>1, <2>2 DEF TypeOK
  <2>6. wake' \in [Worker -> WakeState]
    BY <2>2, <2>4, <2>5 DEF TypeOK
  <2>7. QED BY <2>1, <2>6 DEF TypeOK
<1>10. ASSUME NEW a \in Agent, NEW t \in Type, Claim(a, t) PROVE TypeOK'
  <2> DEFINE k == <<lane[a].org, t>>
  <2>1. lane[a] \in LaneState /\ lane[a].org \in Org /\ k \in Key /\ lane[a].now \in Nat
    BY <1>10 DEF TypeOK, Claim, LaneState, Key
  <2>2. ClaimedState(states[k], lane[a].now) \in ObservationState
    BY <2>1, RowWrites DEF TypeOK
  <2>3. states' \in [Key -> ObservationState]
    BY <1>10, <2>1, <2>2 DEF Claim, TypeOK
  <2>4. \A S, H \in SUBSET Type :
          /\ [lane[a] EXCEPT !.types = S, !.held = H] \in LaneState
          /\ [lane[a] EXCEPT !.types = S, !.held = H].pc = "claim"
          /\ [lane[a] EXCEPT !.types = S, !.held = H].org \in Org
    BY <1>10, <2>1 DEF Claim, LaneState
  <2>5. PICK S \in SUBSET Type, H \in SUBSET Type :
          lane' = [lane EXCEPT ![a] = [lane[a] EXCEPT !.types = S, !.held = H]]
    <3>1. CASE Claimable(states[k], lane[a].now)
      <4>1. lane' = [lane EXCEPT ![a] = [lane[a] EXCEPT !.types = lane[a].types \ {t},
                                                       !.held = lane[a].held \cup {t}]]
        BY <1>10, <2>1, <3>1 DEF Claim, LaneState, TypeOK
      <4>2. lane[a].types \ {t} \in SUBSET Type /\ lane[a].held \cup {t} \in SUBSET Type
        BY <2>1 DEF LaneState
      <4>3. QED BY <4>1, <4>2
    <3>2. CASE ~Claimable(states[k], lane[a].now)
      <4>1. lane' = [lane EXCEPT ![a] = [lane[a] EXCEPT !.types = @ \ {t}, !.held = lane[a].held]]
        BY <1>10, <2>1, <3>2 DEF Claim, LaneState, TypeOK
      <4>2. QED BY <2>1, <4>1 DEF LaneState
    <3>3. QED BY <3>1, <3>2
  <2>6. clock' \in Nat /\ wake' \in [Worker -> WakeState] /\ faults' \in Nat
    BY <1>10 DEF Claim, TypeOK
  <2>7. QED BY <2>3, <2>4, <2>5, <2>6, LaneMoves
<1>11. ASSUME NEW a \in Agent, NEW t \in Type, ClaimFails(a, t) PROVE TypeOK'
  <2> DEFINE k == <<lane[a].org, t>>
  <2>1. k \in Key /\ lane[a].now \in Nat
    BY <1>11 DEF TypeOK, ClaimFails, LaneState, Key
  <2>2. ClaimedState(states[k], lane[a].now) \in ObservationState
    BY <2>1, RowWrites DEF TypeOK
  <2>3. states' \in [Key -> ObservationState]
    BY <1>11, <2>1, <2>2 DEF ClaimFails, TypeOK
  <2>4. wake' \in [Worker -> WakeState]
    BY <1>11, Frees DEF ClaimFails, TypeOK, Agent
  <2>5. lane' = [lane EXCEPT ![a] = Free] /\ clock' \in Nat /\ faults' \in Nat
    BY <1>11 DEF ClaimFails, Fault, TypeOK
  <2>6. Free.pc = "free"
    BY DEF Free
  <2>7. QED BY <2>3, <2>4, <2>5, <2>6, LaneMoves, Frees
<1>12. ASSUME NEW a \in Agent, FinishClaims(a) PROVE TypeOK'
  <2>1. lane[a] \in LaneState /\ lane[a].org \in Org /\ a[1] \in Worker
    BY <1>12 DEF TypeOK, FinishClaims, Agent
  <2>2. Cardinality(lane[a].held) \in Nat
    BY <2>1, HeldCount DEF LaneState
  <2>3. wake' \in [Worker -> WakeState]
    BY <1>12, <2>1, <2>2 DEF FinishClaims, TypeOK, WakeState
  <2>4. PICK l \in {Free, [lane[a] EXCEPT !.pc = "read"]} : lane' = [lane EXCEPT ![a] = l]
    BY <1>12 DEF FinishClaims
  <2>5. l \in LaneState /\ l.pc \in {"free", "read"} /\ (l.pc = "read" => l.org \in Org /\ l.types = {})
    BY <1>12, <2>1, <2>4, Frees DEF FinishClaims, LaneState, Free
  <2>6. clock' \in Nat /\ states' \in [Key -> ObservationState] /\ faults' \in Nat
    BY <1>12 DEF FinishClaims, TypeOK
  <2>7. QED BY <2>3, <2>4, <2>5, <2>6, LaneMoves
<1>13. ASSUME NEW a \in Agent, NEW t \in Type, ReadState(a, t) PROVE TypeOK'
  <2> DEFINE l == [lane[a] EXCEPT
                     !.pc = IF states[<<lane[a].org, t>>] = NoRow THEN "insert" ELSE "collect",
                     !.current = t,
                     !.attemptsRead = states[<<lane[a].org, t>>].attemptCount]
  <2>1. lane[a] \in LaneState /\ lane[a].org \in Org /\ lane[a].types = {}
    BY <1>13 DEF TypeOK, ReadState
  <2>2. states[<<lane[a].org, t>>] \in ObservationState
    BY <2>1 DEF TypeOK, Key
  <2>3. l \in LaneState /\ l.org \in Org /\ l.types = {} /\ l.current \in l.held
    BY <1>13, <2>1, <2>2 DEF ReadState, LaneState, ObservationState
  <2>4. lane' = [lane EXCEPT ![a] = l]
    BY <1>13 DEF ReadState
  <2> HIDE DEF l
  <2>5. /\ clock' \in Nat /\ states' \in [Key -> ObservationState]
        /\ wake' \in [Worker -> WakeState] /\ faults' \in Nat
    BY <1>13 DEF ReadState, TypeOK
  <2>6. QED BY <2>3, <2>4, <2>5, LaneMoves
<1>14. ASSUME NEW a \in Agent, NEW t \in Type, ReadStateFails(a, t) PROVE TypeOK'
  BY <1>14, DoneIsLane DEF TypeOK, ReadStateFails, Fault
<1>25. ASSUME NEW a \in Agent, Insert(a) PROVE TypeOK'
  <2> DEFINE k == <<lane[a].org, lane[a].current>>
  <2>1. /\ lane[a] \in LaneState /\ lane[a].org \in Org /\ lane[a].types = {}
        /\ lane[a].current \in lane[a].held /\ lane[a].pc = "insert" /\ k \in Key
    BY <1>25 DEF TypeOK, Insert, LaneState, Key
  <2>2. CreatedState(clock) \in ObservationState
    BY <2>1, NoRowIsState, RowWrites DEF TypeOK
  <2>3. states' \in [Key -> ObservationState]
    BY <1>25, <2>1, <2>2 DEF Insert, TypeOK
  <2>4. PICK l \in {DoneWith(a, lane[a].current), [lane[a] EXCEPT !.pc = "collect"]} :
          lane' = [lane EXCEPT ![a] = l]
    BY <1>25 DEF Insert
  <2>5. /\ l \in LaneState /\ (l.pc # "free" => l.org \in Org)
        /\ l.pc \in {"read", "insert", "collect", "write"} => l.types = {}
        /\ l.pc \in {"insert", "collect", "write"} => l.current \in l.held
    <3>1. CASE l = DoneWith(a, lane[a].current)
      BY <2>1, <3>1, DoneIsLane DEF LaneState
    <3>2. CASE l = [lane[a] EXCEPT !.pc = "collect"]
      BY <2>1, <3>2 DEF LaneState
    <3>3. QED BY <2>4, <3>1, <3>2
  <2>6. clock' \in Nat /\ wake' \in [Worker -> WakeState] /\ faults' \in Nat
    BY <1>25 DEF Insert, TypeOK
  <2>7. QED BY <2>3, <2>4, <2>5, <2>6, LaneMoves
<1>26. ASSUME NEW a \in Agent, InsertFails(a) PROVE TypeOK'
  <2> DEFINE k == <<lane[a].org, lane[a].current>>
  <2>1. /\ lane[a].pc = "insert" /\ lane[a].types = {} /\ lane[a].current \in Type /\ k \in Key
    BY <1>26 DEF TypeOK, InsertFails, LaneState, Key
  <2>2. CreatedState(clock) \in ObservationState
    BY <2>1, NoRowIsState, RowWrites DEF TypeOK
  <2>3. states' \in [Key -> ObservationState]
    BY <1>26, <2>1, <2>2 DEF InsertFails, TypeOK
  <2>4. QED BY <1>26, <2>1, <2>3, DoneIsLane DEF InsertFails, Fault, TypeOK
<1>15. ASSUME NEW a \in Agent, NEW ok \in BOOLEAN, Collect(a, ok) PROVE TypeOK'
  <2> DEFINE l == [lane[a] EXCEPT !.pc = "write", !.ok = ok, !.at = clock]
  <2>1. /\ lane[a] \in LaneState /\ lane[a].org \in Org /\ lane[a].types = {}
        /\ lane[a].current \in lane[a].held
    BY <1>15 DEF TypeOK, Collect
  <2>2. l \in LaneState /\ l.org \in Org /\ l.types = {} /\ l.current \in l.held
    BY <2>1 DEF LaneState, TypeOK
  <2>3. lane' = [lane EXCEPT ![a] = l]
    BY <1>15 DEF Collect
  <2> HIDE DEF l
  <2>4. /\ clock' \in Nat /\ states' \in [Key -> ObservationState]
        /\ wake' \in [Worker -> WakeState] /\ faults' \in Nat
    BY <1>15 DEF Collect, TypeOK
  <2>5. QED BY <2>2, <2>3, <2>4, LaneMoves
<1>16. ASSUME NEW a \in Agent, ReadBackFails(a) PROVE TypeOK'
  BY <1>16, DoneIsLane DEF TypeOK, ReadBackFails, Fault, LaneState
<1>17. ASSUME NEW a \in Agent, WriteOutcome(a) PROVE TypeOK'
  BY <1>17, DoneIsLane, RowWrites DEF TypeOK, WriteOutcome, LaneState, Key
<1>18. ASSUME NEW a \in Agent, WriteOutcomeFails(a) PROVE TypeOK'
  BY <1>18, DoneIsLane DEF TypeOK, WriteOutcomeFails, Fault, LaneState
<1>19. ASSUME NEW k \in Key, Suspend(k) PROVE TypeOK'
  <2>1. [states[k] EXCEPT !.status = "suspended", !.updatedAt = clock] \in ObservationState
    BY DEF TypeOK, ObservationState, Status
  <2>2. states' = [states EXCEPT ![k] = [states[k] EXCEPT !.status = "suspended", !.updatedAt = clock]]
    BY <1>19, <2>1 DEF Suspend, TypeOK, ObservationState
  <2>3. states' \in [Key -> ObservationState]
    BY <2>1, <2>2 DEF TypeOK
  <2>4. QED BY <1>19, <2>3 DEF TypeOK, Suspend, Fault
<1>27. ASSUME NEW k \in Key, Provision(k) PROVE TypeOK'
  <2>1. PICK start \in 0..clock : states' = [states EXCEPT ![k] = InitialState(k, start, clock)]
    BY <1>27 DEF Provision
  <2>2. InitialState(k, start, clock) \in ObservationState
    <3>1. start \in Nat /\ clock \in Nat
      BY DEF TypeOK
    <3>2. QED BY <3>1, NoRowIsState, RowWrites
  <2>3. QED BY <1>27, <2>1, <2>2 DEF TypeOK, Provision
<1>20. CASE Tick
  BY <1>20 DEF TypeOK, Tick
<1>21. CASE UNCHANGED vars
  BY <1>21 DEF TypeOK, vars
<1>22. QED
  BY <1>1, <1>2, <1>3, <1>4, <1>5, <1>6, <1>7, <1>8, <1>9, <1>10, <1>11, <1>12, <1>13,
     <1>14, <1>15, <1>16, <1>17, <1>18, <1>19, <1>20, <1>21, <1>23, <1>24, <1>25, <1>26, <1>27
     DEF Next, LaneNext, WakeNext

(* Every row keeps a legal status, instants and attempt count, and every   *)
(* lane's program counter agrees with what it holds.                       *)
THEOREM TypeCorrect == Spec => []TypeOK
  BY TypeInit, TypeStep, PTL DEF Spec

-----------------------------------------------------------------------------
(* Exclusion.  The invariant that carries it: a live lane holds its rows   *)
(* for no longer than HoldBound, and the rows it holds carry the instant   *)
(* of its claim (or were suspended), so that no other claim can find the   *)
(* lease lapsed.                                                           *)

(* The hypothesis: work on an organisation ends within the lease, and no   *)
(* run writes claims with an instant older than the claim itself.          *)
Timely == HoldBound <= Lease /\ Targeted = {}

Tenure ==
    \A a \in Agent :
        /\ lane[a].pc = "free" => lane[a].held = {}
        /\ lane[a].pc # "free" =>
             /\ lane[a].now = lane[a].since
             /\ lane[a].since <= clock /\ clock <= lane[a].since + HoldBound

Claimed(l, row) == row.status = "suspended" \/ (row.status = "running" /\ row.updatedAt = l.now)

HeldIsClaimed == \A a \in Agent : \A t \in lane[a].held : Claimed(lane[a], states[<<lane[a].org, t>>])

(* What a drain's lane reads it has claimed, so that it has a row.         *)
NoInsert == \A a \in Agent : lane[a].pc # "insert"

LeaseInv == TypeOK /\ Tenure /\ HeldIsClaimed /\ ExclusiveHolder /\ ReadIsFresh /\ NoInsert

(* A holder's row is a row.                                                *)
LEMMA HolderWorks ==
    ASSUME TypeOK, Tenure, NEW a \in Agent, NEW t \in lane[a].held
    PROVE  lane[a].pc # "free" /\ lane[a].org \in Org /\ t \in Type /\ <<lane[a].org, t>> \in Key
<1>1. lane[a] \in LaneState
  BY DEF TypeOK
<1>2. QED BY <1>1 DEF TypeOK, Tenure, LaneState, Key

(* A claim that succeeds takes the row from nobody.                        *)
LEMMA ClaimExcludes ==
    ASSUME Timely, LeaseInv, NEW a \in Agent, NEW k \in Key, lane[a].pc = "claim",
           Claimable(states[k], lane[a].now)
    PROVE  \A b \in Agent : ~Holds(b, k)
<1> SUFFICES ASSUME NEW b \in Agent, Holds(b, k) PROVE FALSE
  OBVIOUS
<1>1. k = <<lane[b].org, k[2]>> /\ k[2] \in lane[b].held
  BY DEF Holds, Key
<1>2. lane[b].pc # "free"
  BY <1>1, HolderWorks DEF LeaseInv
<1>3. Claimed(lane[b], states[k])
  BY <1>1 DEF LeaseInv, HeldIsClaimed
<1>4. states[k].updatedAt = lane[b].now /\ states[k].updatedAt < lane[a].now - Lease
  BY <1>3 DEF Claimed, Claimable
<1>5. /\ lane[a].now = lane[a].since /\ lane[a].since <= clock
      /\ lane[b].now = lane[b].since /\ clock <= lane[b].since + HoldBound
  BY <1>2 DEF LeaseInv, Tenure
<1>6. /\ lane[a].since \in Nat /\ lane[b].since \in Nat /\ clock \in Nat
      /\ HoldBound \in Nat /\ Lease \in Nat
  BY LeaseAssumption, BoundAssumption DEF LeaseInv, TypeOK, LaneState
<1>7. QED BY <1>4, <1>5, <1>6 DEF Timely

(* Steps that touch neither the lanes nor the rows nor the clock.          *)
LEMMA WakeStep ==
    LeaseInv /\ TypeOK' /\ UNCHANGED <<clock, states, lane>> => LeaseInv'
  BY DEF LeaseInv, Tenure, HeldIsClaimed, Claimed, ExclusiveHolder, Holds, ReadIsFresh, NoInsert

(* Steps by which a lane starts work or lets go of rows, changing no row   *)
(* that is held after the step.                                            *)
LEMMA LettingGo ==
    ASSUME LeaseInv, TypeOK', NEW a \in Agent, NEW l \in LaneState,
           lane' = [lane EXCEPT ![a] = l], clock' = clock,
           l.pc \in {"free", "claim", "read"}, l.held \subseteq lane[a].held,
           l.pc = "free" => l.held = {},
           l.pc # "free" => /\ l.now = l.since
                            /\ l.since <= clock /\ clock <= l.since + HoldBound,
           l.held # {} => l.org = lane[a].org /\ l.now = lane[a].now,
           \A b \in Agent, k \in Key :
               Holds(b, k) /\ (b = a => k[2] \in l.held) => states'[k] = states[k]
    PROVE  LeaseInv'
<1>1. \A b \in Agent : b # a => lane'[b] = lane[b]
  BY DEF LeaseInv, TypeOK
<1>2. lane'[a] = l
  BY DEF LeaseInv, TypeOK
<1>3. Tenure'
  BY <1>1, <1>2 DEF LeaseInv, Tenure
<1>4. \A b \in Agent, k \in Key : Holds(b, k)' => Holds(b, k) /\ states'[k] = states[k]
  <2> SUFFICES ASSUME NEW b \in Agent, NEW k \in Key, Holds(b, k)'
               PROVE  Holds(b, k) /\ states'[k] = states[k]
    OBVIOUS
  <2>1. CASE b = a
    <3>1. l.held # {} /\ l.org = lane[a].org
      BY <1>2, <2>1 DEF Holds
    <3>2. QED BY <1>2, <2>1, <3>1 DEF Holds
  <2>2. CASE b # a
    BY <1>1, <2>2 DEF Holds
  <2>3. QED BY <2>1, <2>2
<1>5. HeldIsClaimed'
  <2> SUFFICES ASSUME NEW b \in Agent, NEW t \in lane'[b].held
               PROVE  Claimed(lane'[b], states'[<<lane'[b].org, t>>])
    BY DEF HeldIsClaimed, Claimed
  <2>1. PICK k \in Key : k = <<lane'[b].org, t>>
    BY <1>1, <1>2, HolderWorks DEF LeaseInv
  <2>2. Holds(b, k)'
    BY <2>1 DEF Holds
  <2>3. Holds(b, k) /\ states'[k] = states[k] /\ k = <<lane[b].org, t>> /\ t \in lane[b].held
    BY <1>4, <2>1, <2>2 DEF Holds
  <2>4. Claimed(lane[b], states[k])
    BY <2>3 DEF LeaseInv, HeldIsClaimed
  <2>5. lane'[b].now = lane[b].now
    BY <1>1, <1>2, <2>2 DEF Holds
  <2>6. QED BY <2>3, <2>4, <2>5 DEF Claimed
<1>6. ExclusiveHolder'
  BY <1>4 DEF LeaseInv, ExclusiveHolder
<1>7. ReadIsFresh'
  <2> SUFFICES ASSUME NEW b \in Agent, lane'[b].pc \in {"collect", "write"}
               PROVE  lane'[b].attemptsRead
                        = states'[<<lane'[b].org, lane'[b].current>>].attemptCount
    BY DEF ReadIsFresh
  <2>1. b # a /\ lane'[b] = lane[b]
    BY <1>1, <1>2
  <2> DEFINE k == <<lane[b].org, lane[b].current>>
  <2>2. lane[b].current \in lane[b].held
    BY <2>1 DEF LeaseInv, TypeOK
  <2>3. k \in Key /\ Holds(b, k)
    BY <2>2, HolderWorks DEF LeaseInv, Holds
  <2>4. states'[k] = states[k]
    BY <2>1, <2>3
  <2>5. QED BY <2>1, <2>4 DEF LeaseInv, ReadIsFresh
<1>8. NoInsert'
  BY <1>1, <1>2 DEF LeaseInv, NoInsert
<1>9. QED BY <1>3, <1>5, <1>6, <1>7, <1>8 DEF LeaseInv

(* Steps by which a lane goes on with a row it holds.                      *)
LEMMA WorkingOn ==
    ASSUME LeaseInv, TypeOK', NEW a \in Agent, NEW l \in LaneState,
           lane' = [lane EXCEPT ![a] = l], UNCHANGED <<clock, states>>,
           lane[a].pc # "free", l.pc \notin {"free", "insert"},
           l.held = lane[a].held, l.org = lane[a].org, l.now = lane[a].now, l.since = lane[a].since,
           l.attemptsRead = states[<<l.org, l.current>>].attemptCount
    PROVE  LeaseInv'
<1>1. lane'[a] = l /\ \A b \in Agent : b # a => lane'[b] = lane[b]
  BY DEF LeaseInv, TypeOK
<1>2. Tenure'
  BY <1>1 DEF LeaseInv, Tenure
<1>3. HeldIsClaimed'
  BY <1>1 DEF LeaseInv, HeldIsClaimed, Claimed
<1>4. ExclusiveHolder'
  BY <1>1 DEF LeaseInv, ExclusiveHolder, Holds
<1>5. ReadIsFresh'
  BY <1>1 DEF LeaseInv, ReadIsFresh
<1>6. NoInsert'
  BY <1>1 DEF LeaseInv, NoInsert
<1>7. QED BY <1>2, <1>3, <1>4, <1>5, <1>6 DEF LeaseInv

(* A successful claim: the row, held by nobody, becomes the lane's.        *)
LEMMA ClaimKeepsLease ==
    ASSUME Timely, LeaseInv, TypeOK', NEW a \in Agent, NEW t \in Type, Claim(a, t),
           Claimable(states[<<lane[a].org, t>>], lane[a].now)
    PROVE  LeaseInv'
<1> DEFINE k == <<lane[a].org, t>>
<1>1. lane[a] \in LaneState /\ k \in Key /\ lane[a].pc = "claim" /\ clock' = clock
  BY DEF Claim, LeaseInv, TypeOK, Key
<1>2. \A b \in Agent : ~Holds(b, k)
  BY <1>1, ClaimExcludes
<1>3. \A b \in Agent : b # a => lane'[b] = lane[b]
  BY DEF Claim, LeaseInv, TypeOK
<1>4. lane'[a] = [lane[a] EXCEPT !.types = lane[a].types \ {t}, !.held = lane[a].held \cup {t}]
  BY <1>1 DEF Claim, LeaseInv, TypeOK, LaneState
<1>5. /\ lane'[a].held = lane[a].held \cup {t} /\ lane'[a].org = lane[a].org
      /\ lane'[a].pc = "claim" /\ lane'[a].now = lane[a].now /\ lane'[a].since = lane[a].since
  BY <1>1, <1>4 DEF LaneState
<1>6. /\ states'[k] = ClaimedState(states[k], lane[a].now)
      /\ \A j \in Key : j # k => states'[j] = states[j]
  BY <1>1 DEF Claim, LeaseInv, TypeOK
<1>7. \A b \in Agent, j \in Key : Holds(b, j)' => (b = a /\ j = k) \/ (j # k /\ Holds(b, j))
  <2> SUFFICES ASSUME NEW b \in Agent, NEW j \in Key, Holds(b, j)'
               PROVE  (b = a /\ j = k) \/ (j # k /\ Holds(b, j))
    OBVIOUS
  <2>1. CASE b # a
    <3>1. Holds(b, j)
      BY <1>3, <2>1 DEF Holds
    <3>2. QED BY <1>2, <3>1
  <2>2. CASE b = a /\ j[2] = t
    BY <1>5, <2>2 DEF Holds, Key
  <2>3. CASE b = a /\ j[2] # t
    BY <1>5, <2>3 DEF Holds
  <2>4. QED BY <2>1, <2>2, <2>3
<1>8. Tenure'
  BY <1>1, <1>3, <1>5 DEF LeaseInv, Tenure
<1>9. HeldIsClaimed'
  <2> SUFFICES ASSUME NEW b \in Agent, NEW u \in lane'[b].held
               PROVE  Claimed(lane'[b], states'[<<lane'[b].org, u>>])
    BY DEF HeldIsClaimed, Claimed
  <2>1. PICK j \in Key : j = <<lane'[b].org, u>>
    BY <1>1, <1>3, <1>5, HolderWorks DEF LeaseInv, Key
  <2>2. Holds(b, j)'
    BY <2>1 DEF Holds
  <2>3. CASE b = a /\ j = k
    <3>1. states[k] \in ObservationState
      BY <1>1 DEF LeaseInv, TypeOK
    <3>2. states'[j].status = "running" /\ states'[j].updatedAt = lane[a].now
      BY <1>6, <2>3, <3>1 DEF ClaimedState, ObservationState
    <3>3. QED BY <1>5, <2>1, <2>3, <3>2 DEF Claimed
  <2>4. CASE j # k /\ Holds(b, j)
    <3>1. Claimed(lane[b], states[j]) /\ states'[j] = states[j]
      BY <1>6, <2>1, <2>4 DEF LeaseInv, HeldIsClaimed, Holds
    <3>2. lane'[b].now = lane[b].now
      BY <1>3, <1>5
    <3>3. QED BY <2>1, <3>1, <3>2 DEF Claimed
  <2>5. QED BY <1>7, <2>2, <2>3, <2>4
<1>10. ExclusiveHolder'
  BY <1>2, <1>7 DEF LeaseInv, ExclusiveHolder
<1>11. ReadIsFresh'
  <2> SUFFICES ASSUME NEW b \in Agent, lane'[b].pc \in {"collect", "write"}
               PROVE  lane'[b].attemptsRead
                        = states'[<<lane'[b].org, lane'[b].current>>].attemptCount
    BY DEF ReadIsFresh
  <2>1. b # a /\ lane'[b] = lane[b]
    BY <1>3, <1>5
  <2> DEFINE j == <<lane[b].org, lane[b].current>>
  <2>2. lane[b].current \in lane[b].held
    BY <2>1 DEF LeaseInv, TypeOK
  <2>3. j \in Key /\ Holds(b, j)
    BY <2>2, HolderWorks DEF LeaseInv, Holds
  <2>4. states'[j] = states[j]
    BY <1>2, <1>6, <2>3
  <2>5. QED BY <2>1, <2>4 DEF LeaseInv, ReadIsFresh
<1>12. NoInsert'
  BY <1>3, <1>5 DEF LeaseInv, NoInsert
<1>13. QED BY <1>8, <1>9, <1>10, <1>11, <1>12 DEF LeaseInv

(* What is left of a lane's work once it is done with one of its types.    *)
LEMMA DoneLetsGo ==
    ASSUME LeaseInv, NEW a \in Agent, NEW t \in lane[a].held, lane[a].types = {}
    PROVE  LET l == DoneWith(a, t) IN
           /\ l \in LaneState /\ l.pc \in {"free", "read"} /\ l.held \subseteq lane[a].held \ {t}
           /\ l.pc = "free" => l.held = {}
           /\ l.pc # "free" => /\ l.now = l.since
                               /\ l.since <= clock /\ clock <= l.since + HoldBound
           /\ l.held # {} => l.org = lane[a].org /\ l.now = lane[a].now
<1>1. lane[a].pc # "free" /\ t \in Type /\ lane[a] \in LaneState
  BY HolderWorks DEF LeaseInv, TypeOK
<1>2. DoneWith(a, t) \in LaneState /\ DoneWith(a, t).pc \in {"free", "read"}
  BY <1>1, DoneIsLane DEF LeaseInv
<1>3. CASE lane[a].held = {t}
  BY <1>2, <1>3 DEF DoneWith, Free
<1>4. CASE lane[a].held # {t}
  <2>1. /\ DoneWith(a, t).held = lane[a].held \ {t} /\ DoneWith(a, t).org = lane[a].org
        /\ DoneWith(a, t).now = lane[a].now /\ DoneWith(a, t).since = lane[a].since
        /\ DoneWith(a, t).pc = "read"
    BY <1>1, <1>4 DEF DoneWith, LaneState
  <2>2. QED BY <1>1, <1>2, <2>1 DEF LeaseInv, Tenure
<1>5. QED BY <1>3, <1>4

(* Nothing is held at the start.                                           *)
LEMMA LeaseInit == Init => LeaseInv
<1> SUFFICES ASSUME Init PROVE LeaseInv
  OBVIOUS
<1>1. \A a \in Agent : lane[a] = Free
  BY DEF Init
<1>2. QED
  BY <1>1, TypeInit DEF LeaseInv, Tenure, HeldIsClaimed, ExclusiveHolder, Holds, ReadIsFresh, NoInsert, Free

(* The strengthened invariant is inductive when work ends within the       *)
(* lease: a claim succeeds only on a row nobody holds, and only a holder   *)
(* writes a row's attempt count.                                           *)
LEMMA LeaseStep == Timely /\ LeaseInv /\ [Next]_vars => LeaseInv'
<1> SUFFICES ASSUME Timely, LeaseInv, [Next]_vars PROVE LeaseInv'
  OBVIOUS
<1>t. TypeOK /\ TypeOK' /\ HoldBound \in Nat
  BY TypeStep, BoundAssumption DEF LeaseInv
<1>1. ASSUME NEW w \in Worker,
             StartDrain(w) \/ StartTargeted(w) \/ StartManual(w) \/ StopDrain(w) \/ FindDuePage(w)
               \/ FindDuePageFails(w) \/ FinishPage(w)
      PROVE  LeaseInv'
  BY <1>1, <1>t, WakeStep
     DEF StartDrain, StartTargeted, StartManual, StopDrain, FindDuePage, FindDuePageFails, FinishPage
<1>2. ASSUME NEW w \in Worker, Crash(w) PROVE LeaseInv'
  <2>1. \A a \in Agent : lane'[a] = Free \/ lane'[a] = lane[a]
    BY <1>2 DEF Crash
  <2>2. clock' = clock /\ states' = states
    BY <1>2 DEF Crash
  <2>3. Free.pc = "free" /\ Free.held = {}
    BY DEF Free
  <2>4. Tenure'
    BY <2>1, <2>2, <2>3 DEF LeaseInv, Tenure
  <2>5. HeldIsClaimed'
    BY <2>1, <2>2, <2>3 DEF LeaseInv, HeldIsClaimed, Claimed
  <2>6. ExclusiveHolder'
    BY <2>1, <2>3 DEF LeaseInv, ExclusiveHolder, Holds
  <2>7. ReadIsFresh'
    BY <2>1, <2>2, <2>3 DEF LeaseInv, ReadIsFresh
  <2>8. NoInsert'
    BY <2>1, <2>3 DEF LeaseInv, NoInsert
  <2>9. QED BY <1>t, <2>4, <2>5, <2>6, <2>7, <2>8 DEF LeaseInv
<1>3. ASSUME NEW a \in Agent, NEW o \in Org, TakeOrganisation(a, o) PROVE LeaseInv'
  <2> DEFINE l == [Free EXCEPT !.pc = "claim", !.org = o, !.since = clock, !.now = clock,
                     !.types = {t \in Type : \E e \in wake[a[1]].page : e.key = <<o, t>>}]
  <2>1. lane' = [lane EXCEPT ![a] = l] /\ clock' = clock /\ states' = states
    BY <1>3 DEF TakeOrganisation, Timely
  <2>2. l \in LaneState /\ l.pc = "claim" /\ l.held = {} /\ l.now = clock /\ l.since = clock
    BY <1>t DEF Free, LaneState, TypeOK
  <2> HIDE DEF l
  <2>3. clock <= clock /\ clock <= clock + HoldBound
    BY <1>t DEF TypeOK
  <2>4. QED BY <1>t, <2>1, <2>2, <2>3, LettingGo
<1>4. ASSUME NEW a \in Agent, NEW o \in Org, SkipOrganisation(a, o) PROVE LeaseInv'
  BY <1>4, <1>t, WakeStep DEF SkipOrganisation
<1>5. ASSUME NEW a \in Agent, NEW t \in Type, Claim(a, t) PROVE LeaseInv'
  <2>1. CASE Claimable(states[<<lane[a].org, t>>], lane[a].now)
    BY <1>5, <1>t, <2>1, ClaimKeepsLease
  <2>2. CASE ~Claimable(states[<<lane[a].org, t>>], lane[a].now)
    <3> DEFINE l == [lane[a] EXCEPT !.types = lane[a].types \ {t}]
    <3>1. lane[a] \in LaneState /\ lane[a].pc = "claim"
      BY <1>5, <1>t DEF Claim, TypeOK
    <3>2. lane' = [lane EXCEPT ![a] = l] /\ clock' = clock /\ states' = states
      BY <1>5, <1>t, <2>2, <3>1 DEF Claim, TypeOK, LaneState
    <3>3. /\ l \in LaneState /\ l.pc = "claim" /\ l.held = lane[a].held /\ l.org = lane[a].org
          /\ l.now = lane[a].now /\ l.since = lane[a].since
      BY <3>1 DEF LaneState
    <3> HIDE DEF l
    <3>4. QED BY <1>t, <3>1, <3>2, <3>3, LettingGo DEF LeaseInv, Tenure
  <2>3. QED BY <2>1, <2>2
<1>6. ASSUME NEW a \in Agent, NEW t \in Type, ClaimFails(a, t) PROVE LeaseInv'
  <2> DEFINE k == <<lane[a].org, t>>
  <2>1. lane' = [lane EXCEPT ![a] = Free] /\ clock' = clock /\ lane[a].pc = "claim"
    BY <1>6 DEF ClaimFails
  <2>2. k \in Key
    BY <1>t, <2>1 DEF TypeOK, Key
  <2>3. \A b \in Agent, j \in Key : Holds(b, j) /\ b # a => states'[j] = states[j]
    <3>1. CASE states' = states
      BY <3>1
    <3>2. CASE Claimable(states[k], lane[a].now) /\ states' = [states EXCEPT ![k] = ClaimedState(@, lane[a].now)]
      <4>1. \A b \in Agent : ~Holds(b, k)
        BY <2>1, <2>2, <3>2, ClaimExcludes
      <4>2. QED BY <1>t, <2>2, <3>2, <4>1 DEF TypeOK
    <3>3. QED BY <1>6, <3>1, <3>2 DEF ClaimFails
  <2>4. Free.pc = "free" /\ Free.held = {}
    BY DEF Free
  <2>5. QED BY <1>t, <2>1, <2>3, <2>4, Frees, LettingGo
<1>7. ASSUME NEW a \in Agent, FinishClaims(a) PROVE LeaseInv'
  <2>1. PICK l \in {Free, [lane[a] EXCEPT !.pc = "read"]} : lane' = [lane EXCEPT ![a] = l]
    BY <1>7 DEF FinishClaims
  <2>2. clock' = clock /\ states' = states /\ lane[a].pc # "free" /\ lane[a] \in LaneState
    BY <1>7, <1>t DEF FinishClaims, TypeOK
  <2>3. CASE l = Free
    <3>1. Free.pc = "free" /\ Free.held = {}
      BY DEF Free
    <3>2. QED BY <1>t, <2>1, <2>2, <2>3, <3>1, Frees, LettingGo
  <2>4. CASE l = [lane[a] EXCEPT !.pc = "read"]
    <3>1. /\ l \in LaneState /\ l.pc = "read" /\ l.held = lane[a].held /\ l.org = lane[a].org
          /\ l.now = lane[a].now /\ l.since = lane[a].since
      BY <2>2, <2>4 DEF LaneState
    <3>2. QED BY <1>t, <2>1, <2>2, <3>1, LettingGo DEF LeaseInv, Tenure
  <2>5. QED BY <2>1, <2>3, <2>4
<1>8. ASSUME NEW a \in Agent, NEW t \in Type, ReadState(a, t) PROVE LeaseInv'
  <2> DEFINE l == [lane[a] EXCEPT !.pc = "collect", !.current = t,
                     !.attemptsRead = states[<<lane[a].org, t>>].attemptCount]
  <2>1. lane[a] \in LaneState /\ <<lane[a].org, t>> \in Key /\ lane[a].pc = "read" /\ t \in lane[a].held
    BY <1>8, <1>t DEF TypeOK, ReadState, Key
  <2>2. states[<<lane[a].org, t>>] \in ObservationState
    BY <1>t, <2>1 DEF TypeOK
  <2>3. states[<<lane[a].org, t>>] # NoRow
    BY <2>1 DEF LeaseInv, HeldIsClaimed, Claimed, NoRow
  <2>4. lane' = [lane EXCEPT ![a] = l] /\ clock' = clock /\ states' = states
    BY <1>8, <2>3 DEF ReadState
  <2>5. /\ l \in LaneState /\ l.pc = "collect" /\ l.held = lane[a].held /\ l.org = lane[a].org
        /\ l.now = lane[a].now /\ l.since = lane[a].since
        /\ l.attemptsRead = states[<<l.org, l.current>>].attemptCount
    BY <2>1, <2>2 DEF LaneState, ObservationState
  <2> HIDE DEF l
  <2>6. QED BY <1>t, <2>1, <2>4, <2>5, WorkingOn
<1>9. ASSUME NEW a \in Agent, NEW ok \in BOOLEAN, Collect(a, ok) PROVE LeaseInv'
  <2> DEFINE l == [lane[a] EXCEPT !.pc = "write", !.ok = ok, !.at = clock]
  <2>1. lane[a] \in LaneState /\ lane[a].pc = "collect"
    BY <1>9, <1>t DEF TypeOK, Collect
  <2>2. lane' = [lane EXCEPT ![a] = l] /\ clock' = clock /\ states' = states
    BY <1>9 DEF Collect
  <2>3. /\ l \in LaneState /\ l.pc = "write" /\ l.held = lane[a].held /\ l.org = lane[a].org
        /\ l.now = lane[a].now /\ l.since = lane[a].since
        /\ l.current = lane[a].current /\ l.attemptsRead = lane[a].attemptsRead
    BY <1>t, <2>1 DEF LaneState, TypeOK
  <2>4. lane[a].attemptsRead = states[<<lane[a].org, lane[a].current>>].attemptCount
    BY <2>1 DEF LeaseInv, ReadIsFresh
  <2> HIDE DEF l
  <2>5. QED BY <1>t, <2>1, <2>2, <2>3, <2>4, WorkingOn
<1>10. ASSUME NEW a \in Agent, NEW t \in lane[a].held, lane[a].types = {},
              lane' = [lane EXCEPT ![a] = DoneWith(a, t)], clock' = clock,
              \A j \in Key : j # <<lane[a].org, t>> => states'[j] = states[j]
       PROVE  LeaseInv'
  <2> DEFINE k == <<lane[a].org, t>>
  <2>1. k \in Key /\ Holds(a, k)
    BY HolderWorks DEF LeaseInv, Holds
  <2>2. \A b \in Agent, j \in Key :
          Holds(b, j) /\ (b = a => j[2] \in DoneWith(a, t).held) => states'[j] = states[j]
    <3> SUFFICES ASSUME NEW b \in Agent, Holds(b, k), b = a => t \in DoneWith(a, t).held
                 PROVE  FALSE
      BY <1>10, <2>1
    <3>1. b = a
      BY <2>1 DEF LeaseInv, ExclusiveHolder
    <3>2. QED BY <1>10, <3>1, DoneLetsGo
  <2> DEFINE l == DoneWith(a, t)
  <2>3. /\ l \in LaneState /\ l.pc \in {"free", "read"} /\ l.held \subseteq lane[a].held
        /\ l.pc = "free" => l.held = {}
        /\ l.pc # "free" => /\ l.now = l.since
                            /\ l.since <= clock /\ clock <= l.since + HoldBound
        /\ l.held # {} => l.org = lane[a].org /\ l.now = lane[a].now
    BY <1>10, DoneLetsGo
  <2>4. lane' = [lane EXCEPT ![a] = l] /\ clock' = clock
    BY <1>10
  <2>5. \A b \in Agent, j \in Key :
          Holds(b, j) /\ (b = a => j[2] \in l.held) => states'[j] = states[j]
    BY <2>2
  <2> HIDE DEF l
  <2>6. QED BY <1>t, <2>3, <2>4, <2>5, LettingGo
<1>11. ASSUME NEW a \in Agent, NEW t \in Type, ReadStateFails(a, t) PROVE LeaseInv'
  BY <1>11, <1>t, <1>10 DEF ReadStateFails, TypeOK
<1>12. ASSUME NEW a \in Agent, ReadBackFails(a) \/ WriteOutcomeFails(a) PROVE LeaseInv'
  BY <1>12, <1>t, <1>10 DEF ReadBackFails, WriteOutcomeFails, TypeOK
<1>13. ASSUME NEW a \in Agent, WriteOutcome(a) PROVE LeaseInv'
  BY <1>13, <1>t, <1>10 DEF WriteOutcome, TypeOK
<1>14. ASSUME NEW k \in Key, Suspend(k) PROVE LeaseInv'
  <2>1. lane' = lane /\ clock' = clock
    BY <1>14 DEF Suspend
  <2>2. /\ states'[k].status = "suspended" /\ states'[k].attemptCount = states[k].attemptCount
        /\ \A j \in Key : j # k => states'[j] = states[j]
    BY <1>14, <1>t DEF Suspend, TypeOK, ObservationState
  <2>3. HeldIsClaimed'
    BY <2>1, <2>2, HolderWorks DEF LeaseInv, HeldIsClaimed, Claimed
  <2>4. Tenure' /\ ExclusiveHolder'
    BY <2>1 DEF LeaseInv, Tenure, ExclusiveHolder, Holds
  <2>5. ReadIsFresh'
    BY <1>t, <2>1, <2>2, HolderWorks DEF LeaseInv, TypeOK, ReadIsFresh
  <2>6. QED BY <1>t, <2>1, <2>3, <2>4, <2>5 DEF LeaseInv, NoInsert
<1>18. ASSUME NEW k \in Key, Provision(k) PROVE LeaseInv'
  <2>1. lane' = lane /\ clock' = clock /\ states[k] = NoRow /\ \A j \in Key : j # k => states'[j] = states[j]
    BY <1>18, <1>t DEF Provision, TypeOK
  <2>2. \A a \in Agent : \A t \in lane[a].held : <<lane[a].org, t>> # k
    BY <2>1 DEF LeaseInv, HeldIsClaimed, Claimed, NoRow
  <2>3. HeldIsClaimed'
    BY <2>1, <2>2, HolderWorks DEF LeaseInv, HeldIsClaimed, Claimed
  <2>4. Tenure' /\ ExclusiveHolder' /\ NoInsert'
    BY <2>1 DEF LeaseInv, Tenure, ExclusiveHolder, Holds, NoInsert
  <2>5. ReadIsFresh'
    BY <1>t, <2>1, <2>2, HolderWorks DEF LeaseInv, TypeOK, ReadIsFresh
  <2>6. QED BY <1>t, <2>3, <2>4, <2>5 DEF LeaseInv
<1>19. ASSUME NEW a \in Agent, Insert(a) \/ InsertFails(a) PROVE LeaseInv'
  BY <1>19 DEF Insert, InsertFails, LeaseInv, NoInsert
<1>20. ASSUME NEW a \in Agent, NEW o \in Org, TakeUnclaimed(a, o) PROVE LeaseInv'
  BY <1>20, WorkerAssumption DEF TakeUnclaimed, Timely
<1>15. CASE Tick
  <2>1. lane' = lane /\ states' = states /\ clock' = clock + 1 /\ clock \in Nat
    BY <1>15, <1>t DEF Tick, TypeOK
  <2>2. \A a \in Agent : lane[a].pc # "free" => clock < lane[a].since + HoldBound /\ lane[a].since \in Nat
    BY <1>15, <1>t DEF Tick, TypeOK, LaneState
  <2>3. Tenure'
    BY <1>t, <2>1, <2>2 DEF LeaseInv, Tenure
  <2>4. HeldIsClaimed' /\ ExclusiveHolder' /\ ReadIsFresh'
    BY <2>1 DEF LeaseInv, HeldIsClaimed, Claimed, ExclusiveHolder, Holds, ReadIsFresh
  <2>5. QED BY <1>t, <2>1, <2>3, <2>4 DEF LeaseInv, NoInsert
<1>16. CASE UNCHANGED vars
  BY <1>16, <1>t, WakeStep DEF vars
<1>17. QED
  BY <1>1, <1>2, <1>3, <1>4, <1>5, <1>6, <1>7, <1>8, <1>9, <1>11, <1>12, <1>13, <1>14, <1>15, <1>16,
     <1>18, <1>19, <1>20
     DEF Next, LaneNext, WakeNext

(* However many wakes overlap, crash and restart, no two lanes ever        *)
(* observe the same row, when work on an organisation ends within the      *)
(* lease (Timely).                                                         *)
THEOREM Exclusion == ASSUME Timely PROVE Spec => []ExclusiveHolder
<1>1. Init => LeaseInv
  BY LeaseInit
<1>2. LeaseInv /\ [Next]_vars => LeaseInv'
  BY LeaseStep
<1>3. LeaseInv => ExclusiveHolder
  BY DEF LeaseInv
<1>4. QED BY <1>1, <1>2, <1>3, PTL DEF Spec

(* The attempt count a lane increments is the row's: no recorded failure   *)
(* is lost between the read before a collection and the write after it.    *)
THEOREM FreshReads == ASSUME Timely PROVE Spec => []ReadIsFresh
<1>1. Init => LeaseInv
  BY LeaseInit
<1>2. LeaseInv /\ [Next]_vars => LeaseInv'
  BY LeaseStep
<1>3. LeaseInv => ReadIsFresh
  BY DEF LeaseInv
<1>4. QED BY <1>1, <1>2, <1>3, PTL DEF Spec

-----------------------------------------------------------------------------
(* The due instants of the rows.                                           *)

Started == clock >= 1 /\ \A a \in Agent : lane[a].pc = "write" => lane[a].at >= 1

DueInv == TypeOK /\ Started /\ DueMatchesOutcome

(* The instants and counts a row's due instant is judged by.               *)
LEMMA SameOutcome ==
    ASSUME NEW o, NEW t, NEW row, NEW new, NEW i, DueFollowsOutcome(o, t, row, i),
           new.nextDueAt = row.nextDueAt, new.attemptCount = row.attemptCount,
           new.lastObservedAt = row.lastObservedAt, new.lastFailureAt = row.lastFailureAt
    PROVE  DueFollowsOutcome(o, t, new, i)
  BY DEF DueFollowsOutcome

(* Time makes no row's due instant wrong.                                  *)
LEMMA LaterToo ==
    ASSUME NEW o, NEW t, NEW row, NEW i \in Nat, NEW j \in Nat, j >= i, DueFollowsOutcome(o, t, row, i)
    PROVE  DueFollowsOutcome(o, t, row, j)
<1>1. \A start \in 0..i : start \in 0..j
  OBVIOUS
<1>2. QED BY <1>1 DEF DueFollowsOutcome

(* A new row, provisioned or not, follows from its having no outcome.      *)
LEMMA NewOutcome ==
    ASSUME NEW k, NEW now, NEW i \in Nat, NEW start \in 0..i
    PROVE  /\ DueFollowsOutcome(k[1], k[2], NoRow, i)
           /\ DueFollowsOutcome(k[1], k[2], CreatedState(now), i)
           /\ DueFollowsOutcome(k[1], k[2], InitialState(k, start, now), i)
<1>1. /\ NoRow.attemptCount = 0 /\ NoRow.lastObservedAt = Null /\ NoRow.nextDueAt = Null
      /\ CreatedState(now).attemptCount = 0 /\ CreatedState(now).lastObservedAt = Null
      /\ CreatedState(now).nextDueAt = Null
  BY DEF NoRow, CreatedState
<1>2. /\ InitialState(k, start, now).attemptCount = 0
      /\ InitialState(k, start, now).lastObservedAt = Null
      /\ InitialState(k, start, now).nextDueAt = ComputeNextDueAt(k[1], k[2], start)
  BY DEF InitialState, CreatedState
<1>3. QED BY <1>1, <1>2 DEF DueFollowsOutcome

(* A claim changes nothing a row's due instant is judged by.               *)
LEMMA ClaimedOutcome ==
    ASSUME NEW o, NEW t, NEW row \in ObservationState, NEW now, NEW i,
           DueFollowsOutcome(o, t, row, i)
    PROVE  DueFollowsOutcome(o, t, ClaimedState(row, now), i)
<1>1. /\ ClaimedState(row, now).nextDueAt = row.nextDueAt
      /\ ClaimedState(row, now).attemptCount = row.attemptCount
      /\ ClaimedState(row, now).lastObservedAt = row.lastObservedAt
      /\ ClaimedState(row, now).lastFailureAt = row.lastFailureAt
  BY DEF ClaimedState, ObservationState
<1>2. QED BY <1>1, SameOutcome

(* A success and a failure write the due instant they call for.            *)
LEMMA WrittenOutcome ==
    ASSUME NEW k \in Key, NEW row \in ObservationState, NEW n \in Nat, NEW at \in Nat \ {0},
           NEW now \in Nat, NEW i
    PROVE  /\ DueFollowsOutcome(k[1], k[2], SuccessState(k, row, at, now), i)
           /\ DueFollowsOutcome(k[1], k[2], FailureState(k, row, n, at, now), i)
<1>1. /\ SuccessState(k, row, at, now).attemptCount = 0
      /\ SuccessState(k, row, at, now).lastObservedAt = at
      /\ SuccessState(k, row, at, now).nextDueAt = ComputeNextDueAt(k[1], k[2], at)
  BY DEF SuccessState, ObservationState
<1>2. /\ FailureState(k, row, n, at, now).attemptCount = n + 1
      /\ FailureState(k, row, n, at, now).lastFailureAt = at
      /\ FailureState(k, row, n, at, now).nextDueAt
           = ComputeRetryNextDueAt(k[1], k[2], at, n + 1)
  BY DEF FailureState, ObservationState
<1>3. n + 1 > 0
  OBVIOUS
<1>4. QED BY <1>1, <1>2, <1>3 DEF DueFollowsOutcome, Null

(* A row without an outcome waits for its first slot, or is due now.       *)
LEMMA DueInit == Init => DueInv
<1> SUFFICES ASSUME Init PROVE DueInv
  OBVIOUS
<1>1. Started
  BY DEF Init, Started, Free
<1>2. DueMatchesOutcome
  <2> SUFFICES ASSUME NEW k \in Key PROVE DueFollowsOutcome(k[1], k[2], states[k], clock)
    BY DEF DueMatchesOutcome
  <2>1. states[k] \in {NoRow, CreatedState(0), InitialState(k, 0, 0)}
    BY DEF Init
  <2>2. clock = 1 /\ 0 \in 0..clock /\ clock \in Nat
    BY DEF Init
  <2>3. QED BY <2>1, <2>2, NewOutcome
<1>3. QED BY <1>1, <1>2, TypeInit DEF DueInv

(* Steps that change no row and put no lane in its write.                  *)
LEMMA DueUndisturbed ==
    ASSUME DueInv, TypeOK', UNCHANGED states, clock' >= clock,
           \A a \in Agent : lane'[a] = lane[a] \/ lane'[a].pc # "write"
    PROVE  DueInv'
<1>1. clock \in Nat /\ clock' \in Nat
  BY DEF DueInv, TypeOK
<1>2. DueMatchesOutcome'
  BY <1>1, LaterToo DEF DueInv, DueMatchesOutcome
<1>3. Started'
  BY <1>1 DEF DueInv, Started
<1>4. QED BY <1>2, <1>3 DEF DueInv

(* Each outcome rewrites the due instant together with what decides it; no *)
(* other step writes either.                                               *)
LEMMA DueStep == DueInv /\ [Next]_vars => DueInv'
<1> SUFFICES ASSUME DueInv, [Next]_vars PROVE DueInv'
  OBVIOUS
<1>t. TypeOK /\ TypeOK'
  BY TypeStep DEF DueInv
<1>1. ASSUME NEW w \in Worker, WakeNext(w) PROVE DueInv'
  <2>1. /\ states' = states /\ clock' = clock
        /\ \A a \in Agent : lane'[a] = lane[a] \/ lane'[a].pc # "write"
    <3>1. CASE Crash(w)
      BY <3>1 DEF Crash, Free
    <3>2. CASE ~Crash(w)
      BY <1>1, <3>2 DEF WakeNext, StartDrain, StartTargeted, StartManual, StopDrain,
                        FindDuePage, FindDuePageFails, FinishPage
    <3>3. QED BY <3>1, <3>2
  <2>2. QED BY <1>t, <2>1, DueUndisturbed DEF TypeOK
<1>13. ASSUME NEW a \in Agent, NEW o \in Org, TakeUnclaimed(a, o) PROVE DueInv'
  <2> DEFINE l == [Free EXCEPT !.pc = "read", !.org = o, !.since = clock, !.now = clock, !.held = Type]
  <2>1. /\ states' = states /\ clock' = clock /\ l.pc = "read"
        /\ lane' = lane \/ lane' = [lane EXCEPT ![a] = l]
    BY <1>13 DEF TakeUnclaimed, Free
  <2> HIDE DEF l
  <2>2. \A b \in Agent : lane'[b] = lane[b] \/ lane'[b].pc # "write"
    BY <1>t, <2>1 DEF TypeOK
  <2>3. QED BY <1>t, <2>1, <2>2, DueUndisturbed DEF TypeOK
<1>2. ASSUME NEW a \in Agent, NEW o \in Org, TakeOrganisation(a, o) \/ SkipOrganisation(a, o)
      PROVE  DueInv'
  <2>1. /\ states' = states /\ clock' = clock
        /\ \A b \in Agent : lane'[b] = lane[b] \/ lane'[b].pc # "write"
    <3>1. CASE TakeOrganisation(a, o)
      <4>1. PICK n, S : lane' = [lane EXCEPT ![a] =
                [Free EXCEPT !.pc = "claim", !.org = o, !.since = clock, !.now = n, !.types = S]]
        BY <3>1 DEF TakeOrganisation
      <4>2. lane'[a].pc = "claim" /\ \A b \in Agent : b # a => lane'[b] = lane[b]
        BY <1>t, <4>1 DEF TypeOK, Free
      <4>3. QED BY <3>1, <4>2 DEF TakeOrganisation
    <3>2. CASE SkipOrganisation(a, o)
      BY <3>2 DEF SkipOrganisation
    <3>3. QED BY <1>2, <3>1, <3>2
  <2>2. QED BY <1>t, <2>1, DueUndisturbed DEF TypeOK
<1>3. ASSUME NEW a \in Agent, NEW t \in Type, Claim(a, t) \/ ClaimFails(a, t) PROVE DueInv'
  <2> DEFINE k == <<lane[a].org, t>>
  <2>1. lane[a].pc = "claim" /\ k \in Key /\ clock' = clock
    BY <1>3, <1>t DEF Claim, ClaimFails, TypeOK, Key
  <2>2. \A b \in Agent : lane'[b] = lane[b] \/ lane'[b].pc # "write"
    BY <1>3, <1>t, <2>1 DEF Claim, ClaimFails, TypeOK, LaneState, Free
  <2>3. states' = states \/ states' = [states EXCEPT ![k] = ClaimedState(states[k], lane[a].now)]
    BY <1>3 DEF Claim, ClaimFails
  <2>4. DueMatchesOutcome'
    BY <1>t, <2>1, <2>3, ClaimedOutcome DEF DueInv, DueMatchesOutcome, TypeOK
  <2>5. QED BY <1>t, <2>1, <2>2, <2>4 DEF DueInv, Started
<1>4. ASSUME NEW a \in Agent, FinishClaims(a) PROVE DueInv'
  <2>1. /\ states' = states /\ clock' = clock
        /\ \A b \in Agent : lane'[b] = lane[b] \/ lane'[b].pc # "write"
    BY <1>4, <1>t DEF FinishClaims, Free, TypeOK, LaneState
  <2>2. QED BY <1>t, <2>1, DueUndisturbed DEF TypeOK
<1>5. ASSUME NEW a \in Agent, NEW t \in Type, ReadState(a, t) PROVE DueInv'
  <2>1. /\ states' = states /\ clock' = clock
        /\ \A b \in Agent : lane'[b] = lane[b] \/ lane'[b].pc # "write"
    BY <1>5, <1>t DEF ReadState, TypeOK, LaneState
  <2>2. QED BY <1>t, <2>1, DueUndisturbed DEF TypeOK
<1>6. ASSUME NEW a \in Agent, NEW ok \in BOOLEAN, Collect(a, ok) PROVE DueInv'
  <2>1. lane[a] \in LaneState /\ states' = states /\ clock' = clock
    BY <1>6, <1>t DEF Collect, TypeOK
  <2>2. lane'[a].at = clock /\ \A b \in Agent : b # a => lane'[b] = lane[b]
    BY <1>6, <1>t, <2>1 DEF Collect, TypeOK, LaneState
  <2>3. QED BY <1>t, <2>1, <2>2 DEF DueInv, Started, DueMatchesOutcome
<1>7. ASSUME NEW a \in Agent, NEW t \in Type,
             lane' = [lane EXCEPT ![a] = DoneWith(a, t)], lane[a].pc # "free", lane[a].types = {}
      PROVE  \A b \in Agent : lane'[b] = lane[b] \/ lane'[b].pc # "write"
  BY <1>7, <1>t, DoneIsLane DEF TypeOK
<1>8. ASSUME NEW a \in Agent,
             (\E t \in Type : ReadStateFails(a, t)) \/ ReadBackFails(a) \/ WriteOutcomeFails(a)
      PROVE  DueInv'
  <2>1. /\ states' = states /\ clock' = clock
        /\ \A b \in Agent : lane'[b] = lane[b] \/ lane'[b].pc # "write"
    <3>1. lane[a].pc # "free" /\ lane[a].types = {} /\ states' = states /\ clock' = clock
      BY <1>8, <1>t DEF ReadStateFails, ReadBackFails, WriteOutcomeFails, TypeOK
    <3>2. PICK u \in Type : lane' = [lane EXCEPT ![a] = DoneWith(a, u)]
      BY <1>8, <1>t DEF ReadStateFails, ReadBackFails, WriteOutcomeFails, TypeOK, LaneState
    <3>3. QED BY <1>7, <3>1, <3>2
  <2>2. QED BY <1>t, <2>1, DueUndisturbed DEF TypeOK
<1>9. ASSUME NEW a \in Agent, WriteOutcome(a) PROVE DueInv'
  <2> DEFINE t == lane[a].current
             k == <<lane[a].org, t>>
  <2>1. /\ lane[a] \in LaneState /\ lane[a].pc = "write" /\ lane[a].types = {}
        /\ t \in Type /\ k \in Key
    BY <1>9, <1>t DEF WriteOutcome, TypeOK, LaneState, Key
  <2>2. lane[a].at \in Nat \ {0} /\ lane[a].attemptsRead \in Nat /\ clock \in Nat
    BY <1>t, <2>1 DEF DueInv, Started, LaneState, TypeOK
  <2>3. states' = [states EXCEPT ![k] =
                    IF lane[a].ok THEN SuccessState(k, states[k], lane[a].at, clock)
                    ELSE FailureState(k, states[k], lane[a].attemptsRead, lane[a].at, clock)]
    BY <1>9 DEF WriteOutcome
  <2>4. \A row \in ObservationState :
          /\ DueFollowsOutcome(k[1], k[2], SuccessState(k, row, lane[a].at, clock), clock)
          /\ DueFollowsOutcome(k[1], k[2], FailureState(k, row, lane[a].attemptsRead, lane[a].at, clock), clock)
    BY <2>1, <2>2, WrittenOutcome
  <2> HIDE DEF k
  <2>c. clock' = clock
    BY <1>9 DEF WriteOutcome
  <2>5. DueMatchesOutcome'
    <3> SUFFICES ASSUME NEW j \in Key PROVE DueFollowsOutcome(j[1], j[2], states'[j], clock)
      BY <2>c DEF DueMatchesOutcome
    <3>1. CASE j = k
      <4>1. states[k] \in ObservationState
        BY <1>t, <2>1 DEF TypeOK
      <4>2. QED BY <1>t, <2>1, <2>3, <2>4, <3>1, <4>1 DEF TypeOK
    <3>2. CASE j # k
      BY <1>t, <2>3, <3>2 DEF DueInv, DueMatchesOutcome, TypeOK
    <3>3. QED BY <3>1, <3>2
  <2>6. clock' = clock /\ \A b \in Agent : lane'[b] = lane[b] \/ lane'[b].pc # "write"
    BY <1>7, <1>9, <2>1 DEF WriteOutcome
  <2>7. QED BY <1>t, <2>5, <2>6 DEF DueInv, Started
<1>10. ASSUME NEW k \in Key, Suspend(k) PROVE DueInv'
  <2>1. lane' = lane /\ clock' = clock
    BY <1>10 DEF Suspend
  <2>2. /\ states'[k].nextDueAt = states[k].nextDueAt
        /\ states'[k].attemptCount = states[k].attemptCount
        /\ states'[k].lastObservedAt = states[k].lastObservedAt
        /\ states'[k].lastFailureAt = states[k].lastFailureAt
        /\ \A j \in Key : j # k => states'[j] = states[j]
    BY <1>10, <1>t DEF Suspend, TypeOK, ObservationState
  <2>3. DueMatchesOutcome'
    BY <2>1, <2>2, SameOutcome DEF DueInv, DueMatchesOutcome
  <2>4. QED BY <1>t, <2>1, <2>3 DEF DueInv, Started
<1>14. ASSUME NEW k \in Key, NEW row, lane' = lane \/ (\E a \in Agent : lane'[a].pc # "write"
                                         /\ \A b \in Agent : b # a => lane'[b] = lane[b]),
              clock' = clock, states' = [states EXCEPT ![k] = row],
              DueFollowsOutcome(k[1], k[2], row, clock)
       PROVE  DueInv'
  <2>1. DueMatchesOutcome'
    BY <1>14, <1>t DEF DueInv, DueMatchesOutcome, TypeOK
  <2>2. Started'
    BY <1>14 DEF DueInv, Started
  <2>3. QED BY <1>t, <2>1, <2>2 DEF DueInv
<1>15. ASSUME NEW a \in Agent, Insert(a) \/ InsertFails(a) PROVE DueInv'
  <2> DEFINE k == <<lane[a].org, lane[a].current>>
  <2>1. /\ lane[a] \in LaneState /\ lane[a].pc = "insert" /\ lane[a].types = {}
        /\ lane[a].current \in Type /\ k \in Key /\ clock' = clock /\ clock \in Nat
    BY <1>15, <1>t DEF Insert, InsertFails, TypeOK, LaneState, Key
  <2>2. PICK l \in {DoneWith(a, lane[a].current), [lane[a] EXCEPT !.pc = "collect"]} :
          lane' = [lane EXCEPT ![a] = l]
    BY <1>15 DEF Insert, InsertFails
  <2>3. lane'[a].pc # "write" /\ \A b \in Agent : b # a => lane'[b] = lane[b]
    <3>1. CASE l = DoneWith(a, lane[a].current)
      BY <1>t, <2>1, <2>2, <3>1, DoneIsLane DEF TypeOK
    <3>2. CASE l = [lane[a] EXCEPT !.pc = "collect"]
      BY <1>t, <2>1, <2>2, <3>2 DEF TypeOK, LaneState
    <3>3. QED BY <2>2, <3>1, <3>2
  <2>4. CASE states' = states
    BY <1>t, <2>1, <2>3, <2>4, DueUndisturbed
  <2>5. CASE states' = [states EXCEPT ![k] = CreatedState(clock)]
    <3>1. DueFollowsOutcome(k[1], k[2], CreatedState(clock), clock)
      BY <2>1, NewOutcome
    <3> HIDE DEF k
    <3>2. QED BY <1>14, <2>1, <2>3, <2>5, <3>1
  <2>6. QED BY <1>15, <2>4, <2>5 DEF Insert, InsertFails
<1>16. ASSUME NEW k \in Key, Provision(k) PROVE DueInv'
  <2>1. PICK start \in 0..clock : states' = [states EXCEPT ![k] = InitialState(k, start, clock)]
    BY <1>16 DEF Provision
  <2>2. clock' = clock /\ lane' = lane /\ clock \in Nat
    BY <1>16, <1>t DEF Provision, TypeOK
  <2>3. DueFollowsOutcome(k[1], k[2], InitialState(k, start, clock), clock)
    BY <2>2, NewOutcome
  <2>4. QED BY <1>14, <2>1, <2>2, <2>3
<1>11. CASE Tick
  BY <1>11, <1>t, DueUndisturbed DEF Tick, TypeOK
<1>12. CASE UNCHANGED vars
  BY <1>12, <1>t, DueUndisturbed DEF vars, TypeOK
<1>17. QED
  BY <1>1, <1>2, <1>3, <1>4, <1>5, <1>6, <1>8, <1>9, <1>10, <1>11, <1>12, <1>13, <1>15, <1>16
     DEF Next, LaneNext

(* Late writers, crashes and lapsed leases included, a row is always due   *)
(* at the instant its last recorded outcome calls for.                     *)
THEOREM DueInstants == Spec => []DueMatchesOutcome
<1>1. Init => DueInv
  BY DueInit
<1>2. DueInv /\ [Next]_vars => DueInv'
  BY DueStep
<1>3. DueInv => DueMatchesOutcome
  BY DEF DueInv
<1>4. QED BY <1>1, <1>2, <1>3, PTL DEF Spec

-----------------------------------------------------------------------------
(* What a row keeps.                                                       *)

(* No update makes a row vanish, nor an observed one unobserved.           *)
LEMMA UpdatesKeep ==
    ASSUME NEW k, NEW row \in ObservationState, NEW n, NEW at \in Nat \ {0}, NEW now
    PROVE  /\ ClaimedState(row, now) # NoRow
           /\ ClaimedState(row, now).lastObservedAt = row.lastObservedAt
           /\ SuccessState(k, row, at, now) # NoRow
           /\ SuccessState(k, row, at, now).lastObservedAt # Null
           /\ FailureState(k, row, n, at, now) # NoRow
           /\ FailureState(k, row, n, at, now).lastObservedAt = row.lastObservedAt
<1>1. /\ ClaimedState(row, now).status = "running"
      /\ ClaimedState(row, now).lastObservedAt = row.lastObservedAt
  BY DEF ClaimedState, ObservationState
<1>2. /\ SuccessState(k, row, at, now).status = "observed"
      /\ SuccessState(k, row, at, now).lastObservedAt = at
  BY DEF SuccessState, ObservationState
<1>3. /\ FailureState(k, row, n, at, now).status = "failed"
      /\ FailureState(k, row, n, at, now).lastObservedAt = row.lastObservedAt
  BY DEF FailureState, ObservationState
<1>4. QED BY <1>1, <1>2, <1>3 DEF NoRow, Null

Kept(k) ==
    /\ states[k] # NoRow => states'[k] # NoRow
    /\ states[k].lastObservedAt # Null => states'[k].lastObservedAt # Null

(* Only rows that are missing are ever inserted.                           *)
LEMMA KeptStep == DueInv /\ [Next]_vars => \A k \in Key : Kept(k)
<1> SUFFICES ASSUME DueInv, [Next]_vars PROVE \A k \in Key : Kept(k)
  OBVIOUS
<1>t. TypeOK /\ Started
  BY DEF DueInv
<1>1. ASSUME states' = states PROVE \A k \in Key : Kept(k)
  BY <1>1 DEF Kept
<1>2. ASSUME NEW k \in Key, NEW row, states' = [states EXCEPT ![k] = row], row # NoRow,
             states[k].lastObservedAt # Null => row.lastObservedAt # Null
      PROVE  \A j \in Key : Kept(j)
  BY <1>t, <1>2 DEF Kept, TypeOK
<1>3. ASSUME NEW a \in Agent, NEW t \in Type, Claim(a, t) \/ ClaimFails(a, t)
      PROVE  \A j \in Key : Kept(j)
  <2>1. PICK k \in Key : k = <<lane[a].org, t>>
    BY <1>3, <1>t DEF Claim, ClaimFails, TypeOK, Key
  <2>2. states' = states \/ states' = [states EXCEPT ![k] = ClaimedState(states[k], lane[a].now)]
    BY <1>3, <2>1 DEF Claim, ClaimFails
  <2>3. states[k] \in ObservationState /\ clock \in Nat \ {0}
    BY <1>t DEF TypeOK, Started
  <2>4. QED BY <1>1, <1>2, <2>2, <2>3, UpdatesKeep
<1>4. ASSUME NEW a \in Agent, Insert(a) \/ InsertFails(a) PROVE \A j \in Key : Kept(j)
  <2>1. PICK k \in Key : k = <<lane[a].org, lane[a].current>>
    BY <1>4, <1>t DEF Insert, InsertFails, TypeOK, LaneState, Key
  <2>2. CASE states' = states
    BY <1>1, <2>2
  <2>3. CASE states[k] = NoRow /\ states' = [states EXCEPT ![k] = CreatedState(clock)]
    <3>1. CreatedState(clock) # NoRow /\ NoRow.lastObservedAt = Null
      BY DEF CreatedState, NoRow
    <3>2. QED BY <1>2, <2>3, <3>1
  <2>4. QED BY <1>4, <2>1, <2>2, <2>3 DEF Insert, InsertFails
<1>5. ASSUME NEW a \in Agent, WriteOutcome(a) PROVE \A j \in Key : Kept(j)
  <2>1. lane[a] \in LaneState /\ lane[a].at \in Nat \ {0}
    BY <1>5, <1>t DEF WriteOutcome, TypeOK, LaneState, Started
  <2>2. PICK k \in Key : k = <<lane[a].org, lane[a].current>>
    BY <1>5, <1>t, <2>1 DEF WriteOutcome, TypeOK, LaneState, Key
  <2>3. states[k] \in ObservationState
    BY <1>t DEF TypeOK
  <2>4. PICK row \in {SuccessState(k, states[k], lane[a].at, clock),
                      FailureState(k, states[k], lane[a].attemptsRead, lane[a].at, clock)} :
          states' = [states EXCEPT ![k] = row]
    BY <1>5, <2>2 DEF WriteOutcome
  <2>5. row # NoRow /\ (states[k].lastObservedAt # Null => row.lastObservedAt # Null)
    BY <2>1, <2>3, <2>4, UpdatesKeep
  <2>6. QED BY <1>2, <2>4, <2>5
<1>6. ASSUME NEW k \in Key, Suspend(k) PROVE \A j \in Key : Kept(j)
  <2>1. states[k] \in ObservationState
    BY <1>t DEF TypeOK
  <2>2. PICK row : /\ row = [states[k] EXCEPT !.status = "suspended", !.updatedAt = clock]
                   /\ states' = [states EXCEPT ![k] = row]
    BY <1>6, <1>t, <2>1 DEF Suspend, TypeOK, ObservationState
  <2>3. row.status = "suspended" /\ row.lastObservedAt = states[k].lastObservedAt
    BY <2>1, <2>2 DEF ObservationState
  <2>4. row # NoRow
    BY <2>3 DEF NoRow
  <2>5. QED BY <1>2, <2>2, <2>3, <2>4
<1>7. ASSUME NEW k \in Key, Provision(k) PROVE \A j \in Key : Kept(j)
  <2>1. PICK start : states' = [states EXCEPT ![k] = InitialState(k, start, clock)]
    BY <1>7 DEF Provision
  <2>2. states[k] = NoRow
    BY <1>7 DEF Provision
  <2>3. InitialState(k, start, clock).status = "never_observed" /\ NoRow.lastObservedAt = Null
    BY DEF InitialState, CreatedState, NoRow
  <2>4. InitialState(k, start, clock) # NoRow
    BY <2>3 DEF NoRow
  <2>5. QED BY <1>2, <2>1, <2>2, <2>3, <2>4
<1>8. CASE Tick \/ UNCHANGED vars \/ \E w \in Worker : WakeNext(w)
  <2>1. states' = states
    BY <1>8 DEF Tick, vars, WakeNext, StartDrain, StartTargeted, StartManual, StopDrain, FindDuePage,
                FindDuePageFails, FinishPage, Crash
  <2>2. QED BY <1>1, <2>1
<1>9. ASSUME NEW a \in Agent,
             \/ \E o \in Org : TakeOrganisation(a, o) \/ TakeUnclaimed(a, o) \/ SkipOrganisation(a, o)
             \/ \E t \in Type : ReadState(a, t) \/ ReadStateFails(a, t)
             \/ \E ok \in BOOLEAN : Collect(a, ok)
             \/ FinishClaims(a) \/ ReadBackFails(a) \/ WriteOutcomeFails(a)
      PROVE  \A j \in Key : Kept(j)
  <2>1. states' = states
    BY <1>9 DEF TakeOrganisation, TakeUnclaimed, SkipOrganisation, ReadState, ReadStateFails,
                Collect, FinishClaims, ReadBackFails, WriteOutcomeFails
  <2>2. QED BY <1>1, <2>1
<1>10. QED BY <1>3, <1>4, <1>5, <1>6, <1>7, <1>8, <1>9 DEF Next, LaneNext

(* A provisioner or a manual run that acts on an outdated read takes no    *)
(* row away and makes no observed row unobserved.                          *)
THEOREM HistoryKept == Spec => HistoryIsKept
<1>1. Init => DueInv
  BY DueInit
<1>2. DueInv /\ [Next]_vars => DueInv'
  BY DueStep
<1>3. DueInv /\ [Next]_vars
        => [\A k \in Key : /\ states[k] # NoRow => states'[k] # NoRow
                           /\ states[k].lastObservedAt # Null => states'[k].lastObservedAt # Null]_vars
  BY KeptStep DEF Kept
<1>4. QED BY <1>1, <1>2, <1>3, PTL DEF Spec, HistoryIsKept

-----------------------------------------------------------------------------
(* The work budget.                                                        *)

(* The lanes of a wake that have not passed a check whose claims are still *)
(* to be counted.                                                          *)
Spare(w) == {l \in Lane : lane[<<w, l>>].pc # "claim"}

(* Each of the others can add one organisation's types.                    *)
BudgetInv ==
    /\ TypeOK
    /\ \A w \in Worker \ Targeted : MaxStatesPerRun > 0 =>
         wake[w].claimed < MaxStatesPerRun + Cardinality(Spare(w)) * Cardinality(Type)

LEMMA Products ==
    ASSUME NEW m \in Nat, NEW n \in Nat, NEW t \in Nat
    PROVE  /\ m * t \in Nat
           /\ m <= n => m * t <= n * t
           /\ (m + 1) * t = m * t + t
<1>1. m * t \in Nat /\ (m + 1) * t = m * t + t
  OBVIOUS
<1>2. ASSUME m <= n PROVE m * t <= n * t
  <2>1. PICK d \in Nat : n = m + d
    <3>1. n - m \in Nat /\ n = m + (n - m)
      BY <1>2
    <3>2. QED BY <3>1
  <2>2. n * t = m * t + d * t /\ d * t \in Nat
    BY <2>1
  <2>3. QED BY <1>1, <2>2
<1>3. QED BY <1>1, <1>2

(* The sizes involved are numbers, and a wake has at most its lanes spare. *)
LEMMA Sizes ==
    /\ Cardinality(Type) \in Nat /\ Cardinality(Lane) \in Nat
    /\ \A S \in SUBSET Lane : IsFiniteSet(S) /\ Cardinality(S) \in Nat /\ Cardinality(S) <= Cardinality(Lane)
    /\ \A S \in SUBSET Type : Cardinality(S) \in Nat /\ Cardinality(S) <= Cardinality(Type)
  BY KeyAssumption, WorkerAssumption, FS_Subset, FS_CardinalityType

(* A step that counts nothing for a wake and passes no check.              *)
LEMMA SpareKeeps ==
    ASSUME BudgetInv, NEW w \in Worker \ Targeted, MaxStatesPerRun > 0,
           wake'[w].claimed = wake[w].claimed,
           \A l \in Lane : lane[<<w, l>>].pc # "claim" => lane'[<<w, l>>].pc # "claim"
    PROVE  wake'[w].claimed < MaxStatesPerRun + Cardinality(Spare(w)') * Cardinality(Type)
<1>1. Spare(w) \subseteq Spare(w)' /\ Spare(w)' \subseteq Lane
  BY DEF Spare
<1>2. /\ Cardinality(Spare(w)) \in Nat /\ Cardinality(Spare(w)') \in Nat
      /\ Cardinality(Spare(w)) <= Cardinality(Spare(w)')
  <2>1. IsFiniteSet(Spare(w)')
    BY <1>1, Sizes
  <2>2. QED BY <1>1, <2>1, FS_Subset, FS_CardinalityType
<1> DEFINE T == Cardinality(Type)
           m == Cardinality(Spare(w))
           n == Cardinality(Spare(w)')
<1>3. T \in Nat /\ m \in Nat /\ n \in Nat /\ m <= n
  BY <1>2, Sizes
<1>4. wake[w].claimed \in Nat /\ MaxStatesPerRun \in Nat
  BY BoundAssumption DEF BudgetInv, TypeOK, WakeState
<1>5. wake[w].claimed < MaxStatesPerRun + m * T
  BY DEF BudgetInv
<1> HIDE DEF T, m, n
<1>6. m * T <= n * T /\ m * T \in Nat /\ n * T \in Nat
  BY <1>3, Products
<1>7. wake[w].claimed < MaxStatesPerRun + n * T
  BY <1>4, <1>5, <1>6
<1>8. QED BY <1>7 DEF n, T

(* A wake below its budget stays within the bound, whoever passes a check. *)
LEMMA BelowBudget ==
    ASSUME TypeOK', NEW w \in Worker, wake'[w].claimed < MaxStatesPerRun
    PROVE  wake'[w].claimed < MaxStatesPerRun + Cardinality(Spare(w)') * Cardinality(Type)
<1>1. Cardinality(Spare(w)') \in Nat /\ Cardinality(Type) \in Nat
  BY Sizes DEF Spare
<1>2. Cardinality(Spare(w)') * Cardinality(Type) \in Nat
  BY <1>1, Products
<1>3. wake'[w].claimed \in Nat /\ MaxStatesPerRun \in Nat
  BY BoundAssumption DEF TypeOK, WakeState
<1>4. QED BY <1>2, <1>3

(* A lane counts its claims as it gives its share of the bound back.       *)
LEMMA CountingClaims ==
    ASSUME BudgetInv, NEW a \in Agent, FinishClaims(a), a[1] \notin Targeted, MaxStatesPerRun > 0
    PROVE  LET w == a[1] IN
           wake'[w].claimed < MaxStatesPerRun + Cardinality(Spare(w)') * Cardinality(Type)
<1> DEFINE w == a[1]
           l == a[2]
<1>1. w \in Worker \ Targeted /\ l \in Lane /\ a = <<w, l>> /\ lane[a].pc = "claim"
  BY DEF Agent, FinishClaims
<1>2. lane'[a].pc # "claim" /\ \A b \in Agent : b # a => lane'[b] = lane[b]
  <2>1. lane[a] \in LaneState
    BY DEF BudgetInv, TypeOK
  <2>2. PICK x \in {Free, [lane[a] EXCEPT !.pc = "read"]} : lane' = [lane EXCEPT ![a] = x]
    BY DEF FinishClaims
  <2>3. x.pc # "claim"
    BY <2>1, <2>2 DEF Free, LaneState
  <2>4. QED BY <2>2, <2>3 DEF BudgetInv, TypeOK
<1>3. Spare(w)' = Spare(w) \cup {l} /\ l \notin Spare(w) /\ Spare(w) \subseteq Lane
  <2>1. l \notin Spare(w) /\ Spare(w) \subseteq Lane
    BY <1>1 DEF Spare
  <2>2. \A j \in Lane : j # l => lane'[<<w, j>>] = lane[<<w, j>>]
    <3>1. \A j \in Lane : j # l => <<w, j>> \in Agent /\ <<w, j>> # a
      BY <1>1 DEF Agent
    <3>2. QED BY <1>2, <3>1
  <2>3. QED BY <1>1, <1>2, <2>1, <2>2 DEF Spare
<1> DEFINE T == Cardinality(Type)
           m == Cardinality(Spare(w))
           h == Cardinality(lane[a].held)
<1>4. Cardinality(Spare(w)') = m + 1 /\ m \in Nat
  BY <1>3, Sizes, FS_AddElement
<1>5. h \in Nat /\ h <= T /\ T \in Nat
  BY Sizes DEF BudgetInv, TypeOK, LaneState
<1>6. wake'[w].claimed = wake[w].claimed + h
  BY <1>1 DEF FinishClaims, BudgetInv, TypeOK, WakeState
<1>7. wake[w].claimed \in Nat /\ MaxStatesPerRun \in Nat /\ wake[w].claimed < MaxStatesPerRun + m * T
  BY <1>1, BoundAssumption DEF BudgetInv, TypeOK, WakeState
<1> HIDE DEF T, m, h
<1>8. m * T \in Nat /\ (m + 1) * T = m * T + T
  BY <1>4, <1>5, Products
<1>9. wake[w].claimed + h < MaxStatesPerRun + (m + 1) * T
  BY <1>5, <1>7, <1>8
<1>10. QED BY <1>4, <1>6, <1>9 DEF T

(* A wake's claims change, or a check is passed, only by these steps.      *)
LEMMA BudgetStep == BudgetInv /\ [Next]_vars => BudgetInv'
<1> SUFFICES ASSUME BudgetInv, [Next]_vars PROVE BudgetInv'
  OBVIOUS
<1>t. TypeOK /\ TypeOK'
  BY TypeStep DEF BudgetInv
<1> SUFFICES ASSUME NEW w \in Worker \ Targeted, MaxStatesPerRun > 0
             PROVE  wake'[w].claimed < MaxStatesPerRun + Cardinality(Spare(w)') * Cardinality(Type)
  BY <1>t DEF BudgetInv
<1>i. Idle.claimed = 0 /\ 0 < MaxStatesPerRun /\ Free.pc = "free"
  BY BoundAssumption DEF Idle, Free
<1>1. ASSUME NEW v \in Worker, WakeNext(v)
      PROVE  wake'[w].claimed < MaxStatesPerRun + Cardinality(Spare(w)') * Cardinality(Type)
  <2>0. wake[v] \in WakeState
    BY <1>t DEF TypeOK
  <2>1. wake'[w].claimed \in {0, wake[w].claimed}
    <3>1. SUFFICES \E x : /\ wake' = [wake EXCEPT ![v] = x]
                          /\ x.claimed = 0 \/ x.claimed = wake[v].claimed
      BY <1>t DEF TypeOK
    <3>2. CASE wake' = [wake EXCEPT ![v] = Idle]
      BY <1>i, <3>2
    <3>3. CASE StartDrain(v)
      <4>1. [Idle EXCEPT !.pc = "loop", !.startedAt = clock].claimed = 0
        BY DEF Idle
      <4>2. QED BY <3>3, <4>1 DEF StartDrain
    <3>4. CASE StartTargeted(v)
      <4>1. PICK P : wake' = [wake EXCEPT ![v] =
                        [Idle EXCEPT !.pc = "pool", !.startedAt = clock, !.page = P]]
        BY <3>4 DEF StartTargeted
      <4>2. [Idle EXCEPT !.pc = "pool", !.startedAt = clock, !.page = P].claimed = 0
        BY DEF Idle
      <4>3. QED BY <4>1, <4>2
    <3>5. CASE StartManual(v)
      <4>1. PICK P : wake' = [wake EXCEPT ![v] =
                        [Idle EXCEPT !.pc = "pool", !.startedAt = clock, !.manual = TRUE, !.page = P]]
        BY <3>5 DEF StartManual
      <4>2. [Idle EXCEPT !.pc = "pool", !.startedAt = clock, !.manual = TRUE, !.page = P].claimed = 0
        BY DEF Idle
      <4>3. QED BY <4>1, <4>2
    <3>6. CASE FindDuePage(v)
      <4>1. PICK P : wake' = [wake EXCEPT ![v] =
                       IF P = {} THEN Idle
                       ELSE [wake[v] EXCEPT !.pc = "pool", !.page = P, !.stoppedMidPage = FALSE,
                                            !.claimedBefore = wake[v].claimed]]
        BY <1>t, <3>6 DEF FindDuePage, TypeOK
      <4>2. [wake[v] EXCEPT !.pc = "pool", !.page = P, !.stoppedMidPage = FALSE,
                            !.claimedBefore = wake[v].claimed].claimed = wake[v].claimed
        BY <2>0 DEF WakeState
      <4>3. CASE P = {}
        BY <3>2, <4>1, <4>3
      <4>4. CASE P # {}
        BY <4>1, <4>2, <4>4
      <4>5. QED BY <4>3, <4>4
    <3>7. CASE FinishPage(v) /\ wake' # [wake EXCEPT ![v] = Idle]
      <4>1. wake' = [wake EXCEPT ![v] = [wake[v] EXCEPT !.pc = "loop"]]
        BY <1>t, <3>7 DEF FinishPage, TypeOK
      <4>2. [wake[v] EXCEPT !.pc = "loop"].claimed = wake[v].claimed
        BY <2>0 DEF WakeState
      <4>3. QED BY <4>1, <4>2
    <3>8. QED
      BY <1>1, <3>2, <3>3, <3>4, <3>5, <3>6, <3>7
         DEF WakeNext, StopDrain, FindDuePageFails, Crash
  <2>2. \A b \in Agent : lane'[b] = lane[b] \/ lane'[b].pc = "free"
    <3>1. CASE Crash(v)
      BY <1>i, <3>1 DEF Crash
    <3>2. CASE lane' = lane
      BY <3>2
    <3>3. QED BY <1>1, <3>1, <3>2 DEF WakeNext, StartDrain, StartTargeted, StartManual, StopDrain,
                                      FindDuePage, FindDuePageFails, FinishPage
  <2>3. CASE wake'[w].claimed = 0
    BY <1>t, <1>i, <2>3, BelowBudget
  <2>4. CASE wake'[w].claimed = wake[w].claimed
    <3>1. \A l \in Lane : <<w, l>> \in Agent
      BY DEF Agent
    <3>2. QED BY <2>2, <2>4, <3>1, SpareKeeps
  <2>5. QED BY <2>1, <2>3, <2>4
<1>2. ASSUME NEW a \in Agent, NEW o \in Org, TakeOrganisation(a, o)
      PROVE  wake'[w].claimed < MaxStatesPerRun + Cardinality(Spare(w)') * Cardinality(Type)
  <2>1. wake'[w].claimed = wake[w].claimed
    BY <1>2, <1>t DEF TakeOrganisation, TypeOK, WakeState
  <2>2. CASE a[1] = w
    <3>1. wake[w].claimed < MaxStatesPerRun
      BY <1>2, <1>t, <2>2, BoundAssumption DEF TakeOrganisation, OverBudget, TypeOK, WakeState
    <3>2. QED BY <1>t, <2>1, <3>1, BelowBudget
  <2>3. CASE a[1] # w
    <3>1. \A l \in Lane : <<w, l>> \in Agent /\ <<w, l>> # a
      BY <2>3 DEF Agent
    <3>2. PICK x : lane' = [lane EXCEPT ![a] = x]
      BY <1>2 DEF TakeOrganisation
    <3>3. \A l \in Lane : lane'[<<w, l>>] = lane[<<w, l>>]
      BY <1>t, <3>1, <3>2 DEF TypeOK
    <3>4. QED BY <2>1, <3>3, SpareKeeps
  <2>4. QED BY <2>2, <2>3
<1>3. ASSUME NEW a \in Agent, FinishClaims(a)
      PROVE  wake'[w].claimed < MaxStatesPerRun + Cardinality(Spare(w)') * Cardinality(Type)
  <2>1. CASE a[1] = w
    BY <1>3, <2>1, CountingClaims
  <2>2. CASE a[1] # w
    <3>1. \A l \in Lane : <<w, l>> \in Agent /\ <<w, l>> # a
      BY <2>2 DEF Agent
    <3>2. wake'[w] = wake[w] /\ \A l \in Lane : lane'[<<w, l>>] = lane[<<w, l>>]
      BY <1>3, <1>t, <2>2, <3>1 DEF FinishClaims, TypeOK
    <3>3. QED BY <3>2, SpareKeeps
  <2>3. QED BY <2>1, <2>2
<1>4. ASSUME wake'[w].claimed = wake[w].claimed,
             \A b \in Agent : lane'[b] = lane[b] \/ lane[b].pc = "claim" \/ lane'[b].pc # "claim"
      PROVE  wake'[w].claimed < MaxStatesPerRun + Cardinality(Spare(w)') * Cardinality(Type)
  <2>1. \A l \in Lane : <<w, l>> \in Agent
    BY DEF Agent
  <2>2. QED BY <1>4, <2>1, SpareKeeps
<1>5. ASSUME NEW a \in Agent, NEW t \in Type, Claim(a, t) \/ ClaimFails(a, t)
      PROVE  wake'[w].claimed < MaxStatesPerRun + Cardinality(Spare(w)') * Cardinality(Type)
  <2>1. \A b \in Agent : lane'[b] = lane[b] \/ lane[b].pc = "claim" \/ lane'[b].pc # "claim"
    BY <1>5, <1>t DEF Claim, ClaimFails, TypeOK
  <2>2. CASE wake' = wake
    BY <1>4, <2>1, <2>2
  <2>3. CASE wake' # wake
    <3>1. a[1] \in Targeted /\ wake' = [wake EXCEPT ![a[1]] = Idle]
      BY <1>5, <2>3 DEF Claim, ClaimFails
    <3>2. QED BY <1>4, <1>t, <2>1, <3>1 DEF TypeOK
  <2>4. QED BY <2>2, <2>3
<1>6. ASSUME NEW a \in Agent, NEW o \in Org, TakeUnclaimed(a, o) \/ SkipOrganisation(a, o)
      PROVE  wake'[w].claimed < MaxStatesPerRun + Cardinality(Spare(w)') * Cardinality(Type)
  <2> DEFINE x == [Free EXCEPT !.pc = "read", !.org = o, !.since = clock, !.now = clock, !.held = Type]
  <2>1. x.pc = "read" /\ (lane' = lane \/ lane' = [lane EXCEPT ![a] = x])
    BY <1>6 DEF TakeUnclaimed, SkipOrganisation, Free
  <2> HIDE DEF x
  <2>2. \A b \in Agent : lane'[b] = lane[b] \/ lane[b].pc = "claim" \/ lane'[b].pc # "claim"
    BY <1>t, <2>1 DEF TypeOK
  <2>3. wake'[w].claimed = wake[w].claimed
    BY <1>6, <1>t DEF TakeUnclaimed, SkipOrganisation, TypeOK, WakeState
  <2>4. QED BY <1>4, <2>2, <2>3
<1>7. ASSUME NEW a \in Agent,
             \/ \E t \in Type : ReadState(a, t) \/ ReadStateFails(a, t)
             \/ \E ok \in BOOLEAN : Collect(a, ok)
             \/ Insert(a) \/ InsertFails(a) \/ ReadBackFails(a)
             \/ WriteOutcome(a) \/ WriteOutcomeFails(a)
      PROVE  wake'[w].claimed < MaxStatesPerRun + Cardinality(Spare(w)') * Cardinality(Type)
  <2>1. wake' = wake
    BY <1>7 DEF ReadState, ReadStateFails, Collect, Insert, InsertFails, ReadBackFails, WriteOutcome,
                WriteOutcomeFails
  <2>0. lane[a] \in LaneState
    BY <1>t DEF TypeOK
  <2>2. \E x : lane' = [lane EXCEPT ![a] = x] /\ x.pc # "claim"
    <3>1. \A t : DoneWith(a, t).pc # "claim"
      BY <1>i, <2>0 DEF DoneWith, LaneState
    <3>2. CASE \E t : lane' = [lane EXCEPT ![a] = DoneWith(a, t)]
      BY <3>1, <3>2
    <3>3. CASE \E t \in Type : ReadState(a, t)
      <4>1. PICK t \in Type : ReadState(a, t)
        BY <3>3
      <4> DEFINE q == IF states[<<lane[a].org, t>>] = NoRow THEN "insert" ELSE "collect"
                 x == [lane[a] EXCEPT !.pc = q, !.current = t,
                         !.attemptsRead = states[<<lane[a].org, t>>].attemptCount]
      <4>2. lane' = [lane EXCEPT ![a] = x]
        BY <1>t, <4>1 DEF ReadState, TypeOK
      <4>3. x.pc = q /\ q # "claim"
        BY <2>0 DEF LaneState
      <4> HIDE DEF x, q
      <4>4. QED BY <4>2, <4>3
    <3>4. CASE \E ok \in BOOLEAN : Collect(a, ok)
      <4>1. PICK ok \in BOOLEAN : Collect(a, ok)
        BY <3>4
      <4> DEFINE x == [lane[a] EXCEPT !.pc = "write", !.ok = ok, !.at = clock]
      <4>2. lane' = [lane EXCEPT ![a] = x]
        BY <1>t, <4>1 DEF Collect, TypeOK
      <4>3. x.pc # "claim"
        BY <2>0 DEF LaneState
      <4>4. QED BY <4>2, <4>3
    <3>5. CASE lane' = [lane EXCEPT ![a].pc = "collect"]
      <4>1. lane' = [lane EXCEPT ![a] = [lane[a] EXCEPT !.pc = "collect"]]
        BY <1>t, <3>5 DEF TypeOK
      <4>2. [lane[a] EXCEPT !.pc = "collect"].pc # "claim"
        BY <2>0 DEF LaneState
      <4>3. QED BY <4>1, <4>2
    <3>6. QED
      BY <1>7, <3>2, <3>3, <3>4, <3>5
         DEF ReadStateFails, Insert, InsertFails, ReadBackFails, WriteOutcome, WriteOutcomeFails
  <2>4. lane'[a].pc # "claim" /\ \A b \in Agent : b # a => lane'[b] = lane[b]
    BY <1>t, <2>2 DEF TypeOK
  <2>3. QED BY <1>4, <2>1, <2>4
<1>8. CASE Tick \/ UNCHANGED vars \/ \E k \in Key : Suspend(k) \/ Provision(k)
  <2>1. wake' = wake /\ lane' = lane
    BY <1>8 DEF Tick, vars, Suspend, Provision
  <2>2. QED BY <1>4, <2>1
<1>9. QED BY <1>1, <1>2, <1>3, <1>5, <1>6, <1>7, <1>8 DEF Next, LaneNext

(* However many lanes pass the budget's check together, a wake overshoots  *)
(* it by less than one organisation's types per lane.                      *)
THEOREM Overshoot == Spec => []BudgetOvershootBounded
<1>1. Init => BudgetInv
  <2> SUFFICES ASSUME Init, NEW w \in Worker, MaxStatesPerRun > 0
               PROVE  wake[w].claimed < MaxStatesPerRun + Cardinality(Spare(w)) * Cardinality(Type)
    BY TypeInit DEF BudgetInv
  <2>1. wake[w].claimed = 0
    BY DEF Init, Idle
  <2>2. Cardinality(Spare(w)) * Cardinality(Type) \in Nat
    BY Sizes, Products DEF Spare
  <2>3. QED BY <2>1, <2>2, BoundAssumption
<1>2. BudgetInv /\ [Next]_vars => BudgetInv'
  BY BudgetStep
<1>3. BudgetInv => BudgetOvershootBounded
  <2> SUFFICES ASSUME BudgetInv, NEW w \in Worker \ Targeted, MaxStatesPerRun > 0
               PROVE  wake[w].claimed < MaxStatesPerRun + Cardinality(Lane) * Cardinality(Type)
    BY DEF BudgetOvershootBounded
  <2>1. wake[w].claimed \in Nat /\ MaxStatesPerRun \in Nat
    BY BoundAssumption DEF BudgetInv, TypeOK, WakeState
  <2>2. Cardinality(Spare(w)) * Cardinality(Type) <= Cardinality(Lane) * Cardinality(Type)
    <3>1. /\ Cardinality(Spare(w)) \in Nat /\ Cardinality(Spare(w)) <= Cardinality(Lane)
          /\ Cardinality(Lane) \in Nat /\ Cardinality(Type) \in Nat
      BY Sizes DEF Spare
    <3>2. QED BY <3>1, Products
  <2>3. /\ Cardinality(Spare(w)) * Cardinality(Type) \in Nat
        /\ Cardinality(Lane) * Cardinality(Type) \in Nat
    BY Sizes, Products DEF Spare
  <2>4. QED BY <2>1, <2>2, <2>3 DEF BudgetInv
<1>4. QED BY <1>1, <1>2, <1>3, PTL DEF Spec
=============================================================================

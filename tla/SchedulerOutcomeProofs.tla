------------------------ MODULE SchedulerOutcomeProofs ------------------------
(***************************************************************************)
(* When an outcome may be recorded, and that one is: two properties of the *)
(* scheduler's steps, for every number of organisations, types, workers,   *)
(* lanes, missing rows and faults.                                         *)
(*                                                                         *)
(* One drain observes a row no earlier than the slot its last observation  *)
(* set.  Overlapping drains do not keep that cadence (run                  *)
(* SchedulerDuplicate): a page read before another drain's observation     *)
(* still offers the row.  What keeps it is that a lone drain reads its     *)
(* next page only when no lane holds anything, and that a row on a page or *)
(* in a lane, as one left running by a crash, has been due ever since.     *)
(*                                                                         *)
(* A lane lets go of a row it claimed only by recording an outcome, but    *)
(* for a failed call, a crash, or an organisation with no domain.          *)
(***************************************************************************)
EXTENDS ObservationSchedulerProofs

-----------------------------------------------------------------------------
(* The cadence of one drain.                                               *)

(* Nothing else claims rows: one invocation slot, and no operator's tool.  *)
OneDrain == Targeted = {} /\ \A v, w \in Worker : v = w

Ripe(k) == states[k] # NoRow /\ states[k].nextDueAt <= clock

Working(a) == lane[a].pc # "free"
Charge(a)  == {<<lane[a].org, t>> : t \in lane[a].types \cup lane[a].held}

(* A row that was observed waits at least for the slot that follows, also  *)
(* while failures are being retried.                                       *)
SlotKept ==
    \A k \in Key : states[k].lastObservedAt # Null =>
        states[k].nextDueAt >= ComputeNextDueAt(k[1], k[2], states[k].lastObservedAt)

RunningIsRipe == \A k \in Key : states[k].status = "running" => Ripe(k)

PageIsRipe == \A w \in Worker : \A e \in wake[w].page : e.key \in Key /\ Ripe(e.key)

(* Lanes work for a live pool, each on an organisation of its own that the *)
(* page no longer offers.                                                  *)
Apart ==
    \A a \in Agent : Working(a) =>
        /\ wake[a[1]].pc = "pool"
        /\ \A e \in wake[a[1]].page : e.key[1] # lane[a].org
        /\ \A b \in Agent : Working(b) /\ lane[b].org = lane[a].org => a = b

(* What a lane has taken was due when it took it and is still, until the   *)
(* lane's own write; in particular no row is missing when it comes to it.  *)
LaneIsRipe ==
    \A a \in Agent : Working(a) =>
        /\ \A k \in Charge(a) : Ripe(k)
        /\ lane[a].pc # "insert"
        /\ lane[a].pc = "write" => lane[a].at >= states[<<lane[a].org, lane[a].current>>].nextDueAt

CadenceInv == TypeOK /\ SlotKept /\ RunningIsRipe /\ PageIsRipe /\ Apart /\ LaneIsRipe

-----------------------------------------------------------------------------
(* What a step may do to a row, to a page and to a lane.                   *)

Writes(k) == \E a \in Agent : WriteOutcome(a) /\ k = <<lane[a].org, lane[a].current>>

(* A claim, a suspension, or nothing.                                      *)
RowStays(k) ==
    /\ states'[k].nextDueAt = states[k].nextDueAt
    /\ states'[k].lastObservedAt = states[k].lastObservedAt
    /\ states[k] # NoRow => states'[k] # NoRow
    /\ states'[k].status = "running" =>
         \/ states[k].status = "running"
         \/ \E a \in Agent : Working(a) /\ k \in Charge(a)

RowAppears(k) ==
    states[k] = NoRow /\ states'[k].status = "never_observed" /\ states'[k].lastObservedAt = Null

(* One row is replaced, by a row that keeps what a claim keeps.            *)
LEMMA OneRowMoves ==
    ASSUME TypeOK, NEW j \in Key, NEW row \in ObservationState,
           states' = [states EXCEPT ![j] = row],
           row.nextDueAt = states[j].nextDueAt, row.lastObservedAt = states[j].lastObservedAt,
           row # NoRow,
           row.status = "running" => \E a \in Agent : Working(a) /\ j \in Charge(a)
    PROVE  \A k \in Key : RowStays(k)
  BY DEF TypeOK, RowStays

(* A row is written by the outcome of its own lane; otherwise it keeps its *)
(* due instant and its last observation, or appears.                       *)
LEMMA RowMoves ==
    TypeOK /\ [Next]_vars => \A k \in Key : RowStays(k) \/ RowAppears(k) \/ Writes(k)
<1> SUFFICES ASSUME TypeOK, [Next]_vars
             PROVE  \A k \in Key : RowStays(k) \/ RowAppears(k) \/ Writes(k)
  OBVIOUS
<1>1. ASSUME states' = states PROVE \A k \in Key : RowStays(k)
  BY <1>1 DEF RowStays
<1>2. ASSUME NEW j \in Key, NEW row, states' = [states EXCEPT ![j] = row], states[j] = NoRow,
             row.status = "never_observed", row.lastObservedAt = Null
      PROVE  \A k \in Key : RowStays(k) \/ RowAppears(k)
  BY <1>2 DEF TypeOK, RowStays, RowAppears
<1>3. ASSUME NEW a \in Agent, NEW t \in Type, Claim(a, t) \/ ClaimFails(a, t)
      PROVE  \A k \in Key : RowStays(k)
  <2> DEFINE j == <<lane[a].org, t>>
  <2>1. Working(a) /\ j \in Charge(a) /\ j \in Key /\ lane[a].now \in Nat /\ states[j] \in ObservationState
    BY <1>3 DEF Claim, ClaimFails, TypeOK, Key, Working, Charge, LaneState
  <2>2. states' = states \/ states' = [states EXCEPT ![j] = ClaimedState(states[j], lane[a].now)]
    BY <1>3 DEF Claim, ClaimFails
  <2> HIDE DEF j
  <2>3. LET row == ClaimedState(states[j], lane[a].now) IN
        /\ row \in ObservationState /\ row # NoRow
        /\ row.nextDueAt = states[j].nextDueAt /\ row.lastObservedAt = states[j].lastObservedAt
    BY <2>1 DEF ClaimedState, ObservationState, NoRow, Status
  <2>4. QED BY <1>1, <2>1, <2>2, <2>3, OneRowMoves
<1>4. ASSUME NEW a \in Agent, Insert(a) \/ InsertFails(a)
      PROVE  \A k \in Key : RowStays(k) \/ RowAppears(k)
  <2>1. PICK j \in Key : j = <<lane[a].org, lane[a].current>>
    BY <1>4 DEF Insert, InsertFails, TypeOK, LaneState, Key
  <2>2. states' = states \/ (states[j] = NoRow /\ states' = [states EXCEPT ![j] = CreatedState(clock)])
    BY <1>4, <2>1 DEF Insert, InsertFails
  <2>3. CreatedState(clock).status = "never_observed" /\ CreatedState(clock).lastObservedAt = Null
    BY DEF CreatedState
  <2>4. QED BY <1>1, <1>2, <2>2, <2>3
<1>5. ASSUME NEW a \in Agent, WriteOutcome(a)
      PROVE  \A k \in Key : RowStays(k) \/ Writes(k)
  <2>1. \A k \in Key : k # <<lane[a].org, lane[a].current>> => states'[k] = states[k]
    BY <1>5 DEF WriteOutcome, TypeOK
  <2>2. QED BY <1>5, <2>1 DEF RowStays, Writes
<1>6. ASSUME NEW j \in Key, Suspend(j) PROVE \A k \in Key : RowStays(k)
  <2>1. states[j] \in ObservationState /\ clock \in Nat
    BY DEF TypeOK
  <2>2. PICK row : /\ row = [states[j] EXCEPT !.status = "suspended", !.updatedAt = clock]
                   /\ states' = [states EXCEPT ![j] = row]
    BY <1>6, <2>1 DEF Suspend, TypeOK, ObservationState
  <2>3. /\ row \in ObservationState /\ row.status = "suspended"
        /\ row.nextDueAt = states[j].nextDueAt /\ row.lastObservedAt = states[j].lastObservedAt
    BY <2>1, <2>2 DEF ObservationState, Status
  <2>4. row # NoRow
    BY <2>3 DEF NoRow
  <2>5. QED BY <2>2, <2>3, <2>4, OneRowMoves
<1>7. ASSUME NEW j \in Key, Provision(j) PROVE \A k \in Key : RowStays(k) \/ RowAppears(k)
  <2>1. PICK start : states' = [states EXCEPT ![j] = InitialState(j, start, clock)]
    BY <1>7 DEF Provision
  <2>2. /\ states[j] = NoRow /\ InitialState(j, start, clock).status = "never_observed"
        /\ InitialState(j, start, clock).lastObservedAt = Null
    BY <1>7 DEF Provision, InitialState, CreatedState
  <2>3. QED BY <1>2, <2>1, <2>2
<1>8. CASE Tick \/ UNCHANGED vars \/ \E w \in Worker : WakeNext(w)
  <2>1. states' = states
    BY <1>8 DEF Tick, vars, WakeNext, StartDrain, StartTargeted, StartManual, StopDrain, FindDuePage,
                FindDuePageFails, FinishPage, Crash
  <2>2. QED BY <1>1, <2>1
<1>9. ASSUME NEW a \in Agent,
             \/ \E o \in Org : TakeOrganisation(a, o) \/ TakeUnclaimed(a, o) \/ SkipOrganisation(a, o)
             \/ \E t \in Type : ReadState(a, t) \/ ReadStateFails(a, t)
             \/ \E ok \in BOOLEAN : Collect(a, ok)
             \/ FinishClaims(a) \/ ReadBackFails(a) \/ WriteOutcomeFails(a)
      PROVE  \A k \in Key : RowStays(k)
  <2>1. states' = states
    BY <1>9 DEF TakeOrganisation, TakeUnclaimed, SkipOrganisation, ReadState, ReadStateFails,
                Collect, FinishClaims, ReadBackFails, WriteOutcomeFails
  <2>2. QED BY <1>1, <2>1
<1>10. QED BY <1>3, <1>4, <1>5, <1>6, <1>7, <1>8, <1>9 DEF Next, LaneNext

(* A lane that has nothing takes an organisation off the page.             *)
LaneTakes(b) ==
    \E o \in Org :
        /\ ~Working(b)
        /\ lane'[b].pc = "claim" /\ lane'[b].org = o /\ lane'[b].held = {}
        /\ \A t \in lane'[b].types : \E e \in wake[b[1]].page : e.key = <<o, t>>
        /\ \E e \in wake[b[1]].page : e.key[1] = o
        /\ wake[b[1]].pc = "pool"
        /\ wake' = [wake EXCEPT ![b[1]].page = WithoutOrg(@, o)]
        /\ \A c \in Agent : c # b => lane'[c] = lane[c]

(* A lane that has something gains nothing; it comes to write with the     *)
(* instant its collection ends.                                            *)
LaneGoesOn(b) ==
    /\ Working(b) /\ lane'[b].org = lane[b].org
    /\ Charge(b)' \subseteq Charge(b)
    /\ lane'[b].pc = "insert" /\ lane[b].pc # "insert" =>
         \E k \in Charge(b) : states[k] = NoRow
    /\ lane'[b].pc = "write" =>
         \/ lane'[b] = lane[b]
         \/ lane[b].pc = "collect" /\ lane'[b].current = lane[b].current /\ lane'[b].at = clock

LaneKeeps(b) == ~Working(b)' \/ LaneTakes(b) \/ LaneGoesOn(b)

(* A lane that did not move keeps what it has.                             *)
LEMMA SameLane == ASSUME NEW b \in Agent, lane'[b] = lane[b] PROVE LaneKeeps(b)
  BY DEF LaneKeeps, LaneGoesOn, Working, Charge

(* A lane done with a type has the others, or nothing.                     *)
LEMMA DoneKeeps ==
    ASSUME TypeOK, NEW a \in Agent, NEW t, Working(a), lane[a].types = {},
           lane' = [lane EXCEPT ![a] = DoneWith(a, t)]
    PROVE  /\ \A b \in Agent : LaneKeeps(b)
           /\ ~Working(a)' \/ (lane'[a].pc = "read" /\ <<lane[a].org, t>> \notin Charge(a)')
<1>1. lane[a] \in LaneState /\ lane'[a] = DoneWith(a, t) /\ \A b \in Agent : b # a => lane'[b] = lane[b]
  BY DEF TypeOK
<1>2. CASE lane[a].held = {t}
  <2>1. ~Working(a)'
    BY <1>1, <1>2 DEF DoneWith, Free, Working
  <2>2. QED BY <1>1, <2>1, SameLane DEF LaneKeeps
<1>3. CASE lane[a].held # {t}
  <2> DEFINE l == [lane[a] EXCEPT !.pc = "read", !.held = lane[a].held \ {t}, !.current = None]
  <2>0. l.pc = "read" /\ l.org = lane[a].org /\ l.types = lane[a].types /\ l.held = lane[a].held \ {t}
    BY <1>1 DEF LaneState
  <2>d. lane'[a] = l
    BY <1>1, <1>3 DEF DoneWith
  <2> HIDE DEF l
  <2>1. /\ lane'[a].pc = "read" /\ lane'[a].org = lane[a].org
        /\ lane'[a].types = {} /\ lane'[a].held = lane[a].held \ {t}
    BY <2>0, <2>d
  <2>2. Charge(a)' \subseteq Charge(a) /\ <<lane[a].org, t>> \notin Charge(a)'
    BY <2>1 DEF Charge
  <2>3. LaneKeeps(a)
    BY <2>1, <2>2 DEF LaneKeeps, LaneGoesOn
  <2>4. QED BY <1>1, <2>1, <2>2, <2>3, SameLane
<1>4. QED BY <1>2, <1>3

(* Every step of a lone drain keeps every lane to what it has taken.       *)
LEMMA LanesKeep ==
    OneDrain /\ TypeOK /\ [Next]_vars => \A b \in Agent : LaneKeeps(b)
<1> SUFFICES ASSUME OneDrain, TypeOK, [Next]_vars PROVE \A b \in Agent : LaneKeeps(b)
  OBVIOUS
<1>1. ASSUME lane' = lane PROVE \A b \in Agent : LaneKeeps(b)
  BY <1>1, SameLane
<1>2. ASSUME NEW a \in Agent, NEW l, lane' = [lane EXCEPT ![a] = l], LaneKeeps(a)
      PROVE  \A b \in Agent : LaneKeeps(b)
  <2>1. \A b \in Agent : b # a => lane'[b] = lane[b]
    BY <1>2 DEF TypeOK
  <2>2. QED BY <1>2, <2>1, SameLane
<1>3. ASSUME NEW a \in Agent, NEW o \in Org, TakeOrganisation(a, o)
      PROVE  \A b \in Agent : LaneKeeps(b)
  <2> DEFINE T == {t \in Type : \E e \in wake[a[1]].page : e.key = <<o, t>>}
             n == IF a[1] \in Targeted THEN wake[a[1]].startedAt ELSE clock
             l == [Free EXCEPT !.pc = "claim", !.org = o, !.since = clock, !.now = n, !.types = T]
  <2>0. lane' = [lane EXCEPT ![a] = l]
    BY <1>3 DEF TakeOrganisation
  <2> HIDE DEF T, n
  <2>1. l.pc = "claim" /\ l.org = o /\ l.held = {} /\ l.types = T
    BY DEF Free
  <2> HIDE DEF l
  <2>2. LaneTakes(a)
    <3>1. lane'[a] = l /\ \A c \in Agent : c # a => lane'[c] = lane[c]
      BY <2>0 DEF TypeOK
    <3>2. \A t \in T : \E e \in wake[a[1]].page : e.key = <<o, t>>
      BY DEF T
    <3>3. /\ ~Working(a) /\ wake[a[1]].pc = "pool" /\ \E e \in wake[a[1]].page : e.key[1] = o
          /\ wake' = [wake EXCEPT ![a[1]].page = WithoutOrg(@, o)]
      BY <1>3 DEF TakeOrganisation, NextOrg, Working
    <3>4. QED BY <2>1, <3>1, <3>2, <3>3 DEF LaneTakes
  <2>3. QED BY <1>2, <2>0, <2>2 DEF LaneKeeps
<1>4. ASSUME NEW a \in Agent, NEW o \in Org, TakeUnclaimed(a, o) \/ SkipOrganisation(a, o)
      PROVE  \A b \in Agent : LaneKeeps(b)
  <2>1. ~TakeUnclaimed(a, o)
    BY WorkerAssumption DEF OneDrain, TakeUnclaimed
  <2>2. QED BY <1>1, <1>4, <2>1 DEF SkipOrganisation
<1>5. ASSUME NEW a \in Agent, NEW t \in Type, Claim(a, t)
      PROVE  \A b \in Agent : LaneKeeps(b)
  <2>1. lane[a] \in LaneState /\ lane[a].pc = "claim" /\ t \in lane[a].types
    BY <1>5 DEF Claim, TypeOK
  <2>2. PICK l \in {[lane[a] EXCEPT !.types = @ \ {t}, !.held = @ \cup {t}],
                    [lane[a] EXCEPT !.types = @ \ {t}]} : lane' = [lane EXCEPT ![a] = l]
    BY <1>5, <2>1 DEF Claim, TypeOK, LaneState
  <2>3. /\ lane'[a] = l /\ l.pc = "claim" /\ l.org = lane[a].org
        /\ l.types \cup l.held \subseteq lane[a].types \cup lane[a].held
    <3>1. lane'[a] = l
      BY <2>2 DEF TypeOK
    <3>2. l.pc = "claim" /\ l.org = lane[a].org
      BY <2>1, <2>2 DEF LaneState
    <3>3. l.types = lane[a].types \ {t} /\ l.held \in {lane[a].held, lane[a].held \cup {t}}
      BY <2>1, <2>2 DEF LaneState
    <3>4. QED BY <2>1, <3>1, <3>2, <3>3
  <2>4. Charge(a)' \subseteq Charge(a)
    BY <2>3 DEF Charge
  <2>5. LaneKeeps(a)
    BY <2>1, <2>3, <2>4 DEF LaneKeeps, LaneGoesOn, Working
  <2>6. QED BY <1>2, <2>2, <2>5
<1>6. ASSUME NEW a \in Agent, NEW t \in Type, ClaimFails(a, t)
      PROVE  \A b \in Agent : LaneKeeps(b)
  <2>1. ~Working(a)' /\ lane' = [lane EXCEPT ![a] = Free]
    BY <1>6 DEF ClaimFails, Free, Working, TypeOK
  <2>2. QED BY <1>2, <2>1 DEF LaneKeeps
<1>7. ASSUME NEW a \in Agent, FinishClaims(a)
      PROVE  \A b \in Agent : LaneKeeps(b)
  <2>1. lane[a] \in LaneState /\ lane[a].pc = "claim"
    BY <1>7 DEF FinishClaims, TypeOK
  <2>2. PICK l \in {Free, [lane[a] EXCEPT !.pc = "read"]} : lane' = [lane EXCEPT ![a] = l]
    BY <1>7 DEF FinishClaims, TypeOK
  <2>3. CASE l = Free
    <3>1. ~Working(a)'
      BY <2>2, <2>3 DEF Free, Working, TypeOK
    <3>2. QED BY <1>2, <2>2, <3>1 DEF LaneKeeps
  <2>4. CASE l = [lane[a] EXCEPT !.pc = "read"]
    <3>1. /\ lane'[a] = l /\ l.pc = "read" /\ l.org = lane[a].org
          /\ l.types = lane[a].types /\ l.held = lane[a].held
      BY <2>1, <2>2, <2>4 DEF TypeOK, LaneState
    <3>2. Charge(a)' \subseteq Charge(a)
      BY <3>1 DEF Charge
    <3>3. LaneKeeps(a)
      BY <2>1, <3>1, <3>2 DEF LaneKeeps, LaneGoesOn, Working
    <3>4. QED BY <1>2, <2>2, <3>3
  <2>5. QED BY <2>2, <2>3, <2>4
<1>8. ASSUME NEW a \in Agent, NEW t \in Type, ReadState(a, t)
      PROVE  \A b \in Agent : LaneKeeps(b)
  <2> DEFINE row == states[<<lane[a].org, t>>]
             pc == IF row = NoRow THEN "insert" ELSE "collect"
             l  == [lane[a] EXCEPT !.pc = pc, !.current = t, !.attemptsRead = row.attemptCount]
  <2>1. lane[a] \in LaneState /\ lane[a].pc = "read" /\ t \in lane[a].held
    BY <1>8 DEF ReadState, TypeOK
  <2>2. lane' = [lane EXCEPT ![a] = l]
    BY <1>8, <2>1 DEF ReadState, TypeOK, LaneState
  <2>3. /\ l.pc = pc /\ l.org = lane[a].org
        /\ l.types = lane[a].types /\ l.held = lane[a].held
    BY <2>1 DEF LaneState
  <2>4. pc = "insert" => \E k \in Charge(a) : states[k] = NoRow
    BY <2>1 DEF Charge
  <2>p. pc # "write"
    OBVIOUS
  <2> HIDE DEF l, pc
  <2>5. lane'[a] = l
    BY <2>2 DEF TypeOK
  <2>6. Charge(a)' \subseteq Charge(a)
    BY <2>3, <2>5 DEF Charge
  <2>7. LaneKeeps(a)
    BY <2>1, <2>3, <2>4, <2>5, <2>6, <2>p DEF LaneKeeps, LaneGoesOn, Working
  <2>8. QED BY <1>2, <2>2, <2>7
<1>9. ASSUME NEW a \in Agent, NEW ok \in BOOLEAN, Collect(a, ok)
      PROVE  \A b \in Agent : LaneKeeps(b)
  <2> DEFINE l == [lane[a] EXCEPT !.pc = "write", !.ok = ok, !.at = clock]
  <2>1. lane[a] \in LaneState /\ lane[a].pc = "collect"
    BY <1>9 DEF Collect, TypeOK
  <2>2. lane' = [lane EXCEPT ![a] = l]
    BY <1>9, <2>1 DEF Collect, TypeOK, LaneState
  <2>3. /\ l.pc = "write" /\ l.org = lane[a].org /\ l.current = lane[a].current /\ l.at = clock
        /\ l.types = lane[a].types /\ l.held = lane[a].held
    BY <2>1 DEF LaneState
  <2> HIDE DEF l
  <2>4. lane'[a] = l
    BY <2>2 DEF TypeOK
  <2>5. Charge(a)' \subseteq Charge(a)
    BY <2>3, <2>4 DEF Charge
  <2>6. LaneKeeps(a)
    BY <2>1, <2>3, <2>4, <2>5 DEF LaneKeeps, LaneGoesOn, Working
  <2>7. QED BY <1>2, <2>2, <2>6
<1>10. ASSUME NEW a \in Agent, NEW t, lane' = [lane EXCEPT ![a] = DoneWith(a, t)],
              lane[a].pc \in {"read", "insert", "collect", "write"}
       PROVE  \A b \in Agent : LaneKeeps(b)
  <2>1. Working(a) /\ lane[a].types = {}
    BY <1>10 DEF Working, TypeOK
  <2>2. QED BY <1>10, <2>1, DoneKeeps
<1>11. ASSUME NEW a \in Agent,
              \/ \E t \in Type : ReadStateFails(a, t)
              \/ InsertFails(a) \/ ReadBackFails(a) \/ WriteOutcome(a) \/ WriteOutcomeFails(a)
       PROVE  \A b \in Agent : LaneKeeps(b)
  BY <1>10, <1>11 DEF ReadStateFails, InsertFails, ReadBackFails, WriteOutcome, WriteOutcomeFails
<1>12. ASSUME NEW a \in Agent, Insert(a) PROVE \A b \in Agent : LaneKeeps(b)
  <2>1. CASE lane' = [lane EXCEPT ![a] = DoneWith(a, lane[a].current)]
    BY <1>10, <1>12, <2>1 DEF Insert
  <2>2. CASE lane' = [lane EXCEPT ![a].pc = "collect"]
    <3>1. lane[a] \in LaneState /\ lane[a].pc = "insert"
      BY <1>12 DEF Insert, TypeOK
    <3>2. lane' = [lane EXCEPT ![a] = [lane[a] EXCEPT !.pc = "collect"]]
      BY <2>2 DEF TypeOK
    <3>3. /\ lane'[a].pc = "collect" /\ lane'[a].org = lane[a].org
          /\ lane'[a].types = lane[a].types /\ lane'[a].held = lane[a].held
      BY <3>1, <3>2 DEF TypeOK, LaneState
    <3>4. Charge(a)' \subseteq Charge(a)
      BY <3>3 DEF Charge
    <3>5. LaneKeeps(a)
      BY <3>1, <3>3, <3>4 DEF LaneKeeps, LaneGoesOn, Working
    <3>6. QED BY <1>2, <3>2, <3>5
  <2>3. QED BY <1>12, <2>1, <2>2 DEF Insert
<1>13. ASSUME NEW w \in Worker, WakeNext(w) PROVE \A b \in Agent : LaneKeeps(b)
  <2>1. CASE Crash(w)
    <3>1. \A b \in Agent : lane'[b] = lane[b] \/ ~Working(b)'
      BY <2>1 DEF Crash, Free, Working
    <3>2. QED BY <3>1, SameLane DEF LaneKeeps
  <2>2. CASE lane' = lane
    BY <1>1, <2>2
  <2>3. QED BY <1>13, <2>1, <2>2 DEF WakeNext, StartDrain, StartTargeted, StartManual, StopDrain,
                                     FindDuePage, FindDuePageFails, FinishPage
<1>14. CASE Tick \/ UNCHANGED vars \/ \E k \in Key : Suspend(k) \/ Provision(k)
  BY <1>1, <1>14 DEF Tick, vars, Suspend, Provision
<1>15. QED
  BY <1>3, <1>4, <1>5, <1>6, <1>7, <1>8, <1>9, <1>11, <1>12, <1>13, <1>14 DEF Next, LaneNext

(* A page shrinks while its pool works, and a new one is read between      *)
(* pools; a pool that ends leaves no lane at work.                         *)
PageMoves(w) ==
    /\ \/ wake'[w].page \subseteq wake[w].page
       \/ wake[w].pc = "loop" /\ wake'[w].page \subseteq Due \cup Stale
    /\ wake[w].pc = "pool" =>
         wake'[w].pc = "pool" \/ \A a \in Agent : a[1] = w => ~Working(a)'

(* Each step of a lone drain moves its page in one of these ways.          *)
LEMMA PagesMove == OneDrain /\ TypeOK /\ [Next]_vars => \A w \in Worker : PageMoves(w)
<1> SUFFICES ASSUME OneDrain, TypeOK, [Next]_vars PROVE \A w \in Worker : PageMoves(w)
  OBVIOUS
<1>0. Targeted = {} /\ Manual = {}
  BY WorkerAssumption DEF OneDrain
<1>1. ASSUME wake' = wake PROVE \A w \in Worker : PageMoves(w)
  BY <1>1 DEF PageMoves
<1>2. ASSUME NEW v \in Worker, NEW x, wake' = [wake EXCEPT ![v] = x],
             \/ x.page \subseteq wake[v].page
             \/ wake[v].pc = "loop" /\ x.page \subseteq Due \cup Stale,
             wake[v].pc = "pool" => x.pc = "pool" \/ \A a \in Agent : a[1] = v => ~Working(a)'
      PROVE  \A w \in Worker : PageMoves(w)
  BY <1>2 DEF PageMoves, TypeOK
<1>3. Idle.page = {}
  BY DEF Idle
<1>4. ASSUME NEW a \in Agent, NEW o \in Org,
             TakeOrganisation(a, o) \/ TakeUnclaimed(a, o) \/ SkipOrganisation(a, o)
      PROVE  \A w \in Worker : PageMoves(w)
  <2>1. PICK v \in Worker : v = a[1]
    BY DEF Agent
  <2>2. wake[v] \in WakeState /\ wake[v].pc = "pool"
    BY <1>4, <2>1 DEF TakeOrganisation, TakeUnclaimed, SkipOrganisation, TypeOK
  <2> DEFINE P == WithoutOrg(wake[v].page, o)
  <2>3. P \subseteq wake[v].page
    BY DEF WithoutOrg
  <2>4. PICK x \in {[wake[v] EXCEPT !.page = P],
                    [wake[v] EXCEPT !.page = P, !.stoppedMidPage = TRUE]} : wake' = [wake EXCEPT ![v] = x]
    <3>1. CASE wake' = [wake EXCEPT ![v].page = WithoutOrg(@, o)]
      <4>1. wake' = [wake EXCEPT ![v] = [wake[v] EXCEPT !.page = P]]
        BY <3>1 DEF TypeOK
      <4>2. QED BY <4>1
    <3>2. CASE wake' = [wake EXCEPT ![v].page = WithoutOrg(@, o), ![v].stoppedMidPage = TRUE]
      <4>1. wake' = [wake EXCEPT ![v] = [wake[v] EXCEPT !.page = P, !.stoppedMidPage = TRUE]]
        BY <3>2 DEF TypeOK
      <4>2. QED BY <4>1
    <3>3. QED BY <1>4, <2>1, <3>1, <3>2 DEF TakeOrganisation, TakeUnclaimed, SkipOrganisation
  <2> HIDE DEF P
  <2>5. x.page = P /\ x.pc = "pool"
    BY <2>2, <2>4 DEF WakeState
  <2>6. QED BY <1>2, <2>3, <2>4, <2>5
<1>5. ASSUME NEW a \in Agent, FinishClaims(a) PROVE \A w \in Worker : PageMoves(w)
  <2>1. PICK v \in Worker : v = a[1]
    BY DEF Agent
  <2>2. wake[v] \in WakeState
    BY DEF TypeOK
  <2> DEFINE n == wake[v].claimed + Cardinality(lane[a].held)
             x == [wake[v] EXCEPT !.claimed = n]
  <2>3. wake' = [wake EXCEPT ![v] = x]
    BY <1>5, <2>1, <2>2 DEF FinishClaims, TypeOK
  <2> HIDE DEF n
  <2>4. x.page = wake[v].page /\ x.pc = wake[v].pc
    BY <2>2 DEF WakeState
  <2> HIDE DEF x
  <2>5. QED BY <1>2, <2>3, <2>4
<1>6. ASSUME NEW a \in Agent,
             \/ \E t \in Type : Claim(a, t) \/ ClaimFails(a, t)
             \/ \E t \in Type : ReadState(a, t) \/ ReadStateFails(a, t)
             \/ \E ok \in BOOLEAN : Collect(a, ok)
             \/ Insert(a) \/ InsertFails(a) \/ ReadBackFails(a)
             \/ WriteOutcome(a) \/ WriteOutcomeFails(a)
      PROVE  \A w \in Worker : PageMoves(w)
  <2>1. wake' = wake
    BY <1>0, <1>6 DEF Claim, ClaimFails, ReadState, ReadStateFails, Collect, Insert, InsertFails,
                      ReadBackFails, WriteOutcome, WriteOutcomeFails
  <2>2. QED BY <1>1, <2>1
<1>7. ASSUME NEW v \in Worker,
             wake' = [wake EXCEPT ![v] = Idle],
             wake[v].pc = "pool" => \A a \in Agent : a[1] = v => ~Working(a)'
      PROVE  \A w \in Worker : PageMoves(w)
  BY <1>2, <1>3, <1>7
<1>8. ASSUME NEW v \in Worker, WakeNext(v) PROVE \A w \in Worker : PageMoves(w)
  <2>0. wake[v] \in WakeState
    BY DEF TypeOK
  <2>1. CASE StartDrain(v)
    <3> DEFINE x == [Idle EXCEPT !.pc = "loop", !.startedAt = clock]
    <3>1. x.page = {} /\ wake' = [wake EXCEPT ![v] = x] /\ wake[v].pc = "idle"
      BY <2>1 DEF StartDrain, Idle
    <3> HIDE DEF x
    <3>2. QED BY <1>2, <3>1
  <2>2. CASE StartTargeted(v) \/ StartManual(v)
    BY <1>0, <2>2 DEF StartTargeted, StartManual
  <2>3. CASE StopDrain(v) \/ FindDuePageFails(v)
    BY <1>7, <2>3 DEF StopDrain, FindDuePageFails
  <2>4. CASE FindDuePage(v)
    <3>1. PICK P \in SUBSET (Due \cup Stale) :
            wake' = [wake EXCEPT ![v] =
                       IF P = {} THEN Idle
                       ELSE [wake[v] EXCEPT !.pc = "pool", !.page = P, !.stoppedMidPage = FALSE,
                                            !.claimedBefore = wake[v].claimed]]
      BY <2>4 DEF FindDuePage, TypeOK
    <3>2. wake[v].pc = "loop"
      BY <2>4 DEF FindDuePage
    <3>3. CASE P = {}
      BY <1>7, <3>1, <3>2, <3>3
    <3>4. CASE P # {}
      <4> DEFINE x == [wake[v] EXCEPT !.pc = "pool", !.page = P, !.stoppedMidPage = FALSE,
                                      !.claimedBefore = wake[v].claimed]
      <4>1. x.page = P
        BY <2>0 DEF WakeState
      <4>2. wake' = [wake EXCEPT ![v] = x]
        BY <3>1, <3>4
      <4> HIDE DEF x
      <4>3. QED BY <1>2, <3>2, <4>1, <4>2
    <3>5. QED BY <3>3, <3>4
  <2>5. CASE FinishPage(v)
    <3>1. \A a \in Agent : a[1] = v => ~Working(a)'
      BY <2>5 DEF FinishPage, Working
    <3>2. CASE wake' = [wake EXCEPT ![v] = Idle]
      BY <1>7, <3>1, <3>2
    <3>3. CASE wake' # [wake EXCEPT ![v] = Idle]
      <4> DEFINE x == [wake[v] EXCEPT !.pc = "loop"]
      <4>1. wake' = [wake EXCEPT ![v] = x]
        BY <2>5, <3>3 DEF FinishPage, TypeOK
      <4>2. x.page = wake[v].page
        BY <2>0 DEF WakeState
      <4> HIDE DEF x
      <4>3. QED BY <1>2, <3>1, <4>1, <4>2
    <3>4. QED BY <3>2, <3>3
  <2>6. CASE Crash(v)
    <3>1. \A a \in Agent : a[1] = v => ~Working(a)'
      BY <2>6 DEF Crash, Working, Free
    <3>2. QED BY <1>7, <2>6, <3>1 DEF Crash
  <2>7. QED BY <1>8, <2>1, <2>2, <2>3, <2>4, <2>5, <2>6 DEF WakeNext
<1>9. CASE Tick \/ UNCHANGED vars \/ \E k \in Key : Suspend(k) \/ Provision(k)
  BY <1>1, <1>9 DEF Tick, vars, Suspend, Provision
<1>10. QED BY <1>4, <1>5, <1>6, <1>8, <1>9 DEF Next, LaneNext

(* The clock never goes back.                                              *)
LEMMA ClockMoves == TypeOK /\ [Next]_vars => clock \in Nat /\ clock' \in Nat /\ clock <= clock'
<1> SUFFICES ASSUME TypeOK, [Next]_vars PROVE clock \in Nat /\ clock' \in Nat /\ clock <= clock'
  OBVIOUS
<1>1. clock \in Nat
  BY DEF TypeOK
<1>2. ASSUME NEW a \in Agent, LaneNext(a) PROVE clock' = clock
  <2>1. ASSUME NEW o \in Org, TakeOrganisation(a, o) \/ TakeUnclaimed(a, o) \/ SkipOrganisation(a, o)
        PROVE  clock' = clock
    BY <2>1 DEF TakeOrganisation, TakeUnclaimed, SkipOrganisation
  <2>2. ASSUME NEW t \in Type, Claim(a, t) \/ ClaimFails(a, t) \/ ReadState(a, t) \/ ReadStateFails(a, t)
        PROVE  clock' = clock
    BY <2>2 DEF Claim, ClaimFails, ReadState, ReadStateFails
  <2>3. ASSUME \/ FinishClaims(a) \/ Insert(a) \/ InsertFails(a) \/ ReadBackFails(a)
               \/ WriteOutcome(a) \/ WriteOutcomeFails(a) \/ \E ok \in BOOLEAN : Collect(a, ok)
        PROVE  clock' = clock
    BY <2>3 DEF FinishClaims, Insert, InsertFails, ReadBackFails, WriteOutcome, WriteOutcomeFails, Collect
  <2>4. QED BY <1>2, <2>1, <2>2, <2>3 DEF LaneNext
<1>3. ASSUME NEW w \in Worker, WakeNext(w) PROVE clock' = clock
  BY <1>3 DEF WakeNext, StartDrain, StartTargeted, StartManual, StopDrain, FindDuePage,
              FindDuePageFails, FinishPage, Crash
<1>4. CASE UNCHANGED vars \/ \E k \in Key : Suspend(k) \/ Provision(k)
  <2>1. clock' = clock
    BY <1>4 DEF vars, Suspend, Provision
  <2>2. QED BY <1>1, <2>1
<1>5. CASE Tick
  BY <1>1, <1>5 DEF Tick
<1>6. QED BY <1>1, <1>2, <1>3, <1>4, <1>5 DEF Next

(* A lane that writes a row has it, and lets it go.                        *)
LEMMA WritingLetsGo ==
    ASSUME TypeOK, NEW a \in Agent, WriteOutcome(a)
    PROVE  LET k == <<lane[a].org, lane[a].current>> IN
           /\ Working(a) /\ k \in Charge(a) /\ k \in Key /\ lane[a] \in LaneState
           /\ ~Working(a)' \/ (lane'[a].pc = "read" /\ k \notin Charge(a)')
           /\ wake' = wake /\ clock' = clock
<1>1. /\ lane[a].pc = "write" /\ lane[a].types = {} /\ lane[a] \in LaneState
      /\ lane[a].current \in lane[a].held /\ lane[a].org \in Org
      /\ lane' = [lane EXCEPT ![a] = DoneWith(a, lane[a].current)]
      /\ wake' = wake /\ clock' = clock
  BY DEF WriteOutcome, TypeOK
<1>2. lane[a].current \in Type /\ Working(a)
  BY <1>1 DEF LaneState, Working
<1>3. QED BY <1>1, <1>2, DoneKeeps DEF Charge, Key

(* What the two outcomes write.                                            *)
LEMMA OutcomeRows ==
    ASSUME TypeOK, NEW a \in Agent, WriteOutcome(a), NEW k \in Key,
           k = <<lane[a].org, lane[a].current>>
    PROVE  LET at == lane[a].at IN
           /\ at \in Nat
           /\ states'[k].status \in {"observed", "failed"}
           /\ \/ /\ states'[k].lastObservedAt = at
                 /\ states'[k].nextDueAt = ComputeNextDueAt(k[1], k[2], at)
              \/ /\ states'[k].lastObservedAt = states[k].lastObservedAt
                 /\ states'[k].nextDueAt > at
<1>1. lane[a] \in LaneState /\ states[k] \in ObservationState
  BY DEF TypeOK
<1> DEFINE at == lane[a].at
           S == SuccessState(k, states[k], at, clock)
           F == FailureState(k, states[k], lane[a].attemptsRead, at, clock)
<1>2. at \in Nat /\ lane[a].attemptsRead + 1 \in Nat
  BY <1>1 DEF LaneState
<1>3. states'[k] = S \/ states'[k] = F
  BY DEF WriteOutcome, TypeOK
<1>4. /\ S.status = "observed" /\ S.lastObservedAt = at
      /\ S.nextDueAt = ComputeNextDueAt(k[1], k[2], at)
  BY <1>1 DEF SuccessState, ObservationState
<1>5. /\ F.status = "failed" /\ F.lastObservedAt = states[k].lastObservedAt
      /\ F.nextDueAt = ComputeRetryNextDueAt(k[1], k[2], at, lane[a].attemptsRead + 1)
  BY <1>1 DEF FailureState, ObservationState
<1>6. ComputeRetryNextDueAt(k[1], k[2], at, lane[a].attemptsRead + 1) > at
  <2>1. k[1] \in Org /\ k[2] \in Type
    BY DEF Key
  <2>2. QED BY <1>2, <2>1, RetryInFuture
<1> HIDE DEF S, F
<1>7. QED BY <1>2, <1>3, <1>4, <1>5, <1>6

-----------------------------------------------------------------------------
(* The invariant.                                                          *)

(* A fresh table keeps the cadence: nothing has been observed or taken.    *)
LEMMA CadenceInit == Init => CadenceInv
<1> SUFFICES ASSUME Init PROVE CadenceInv
  OBVIOUS
<1>1. \A k \in Key : states[k].lastObservedAt = Null /\ states[k].status # "running"
  <2> SUFFICES ASSUME NEW k \in Key PROVE states[k].lastObservedAt = Null /\ states[k].status # "running"
    OBVIOUS
  <2>1. states[k] \in {NoRow, CreatedState(0), InitialState(k, 0, 0)}
    BY DEF Init
  <2>2. QED BY <2>1 DEF NoRow, InitialState, CreatedState
<1>2. /\ \A w \in Worker : wake[w].page = {}
      /\ \A a \in Agent : ~Working(a)
  BY DEF Init, Idle, Free, Working
<1>3. TypeOK
  BY TypeInit
<1>4. QED
  BY <1>1, <1>2, <1>3 DEF CadenceInv, SlotKept, RunningIsRipe, PageIsRipe, Apart, LaneIsRipe

(* A page holds what was due or left running when it was read.             *)
LEMMA FreshPageIsRipe ==
    ASSUME CadenceInv, NEW e \in Due \cup Stale
    PROVE  e.key \in Key /\ Ripe(e.key)
<1>1. PICK k \in Key : \/ e = DueEntry(k) /\ IsDue(states[k], clock)
                       \/ e = StaleEntry(k) /\ IsStale(states[k], clock)
  BY DEF Due, Stale
<1>2. e.key = k
  BY <1>1 DEF DueEntry, StaleEntry
<1>3. Ripe(k)
  BY <1>1 DEF IsDue, IsStale, Ripe, CadenceInv, RunningIsRipe
<1>4. QED BY <1>2, <1>3

(* What is ripe stays so until its lane writes it.                         *)
LEMMA RipeStays ==
    ASSUME TypeOK, [Next]_vars, NEW k \in Key, Ripe(k), ~Writes(k)
    PROVE  Ripe(k)' /\ states'[k].nextDueAt = states[k].nextDueAt
<1>1. RowStays(k)
  BY RowMoves DEF Ripe, RowAppears
<1>2. clock \in Nat /\ clock' \in Nat /\ clock <= clock' /\ states[k].nextDueAt \in Nat
  BY ClockMoves DEF TypeOK, ObservationState
<1>3. QED BY <1>1, <1>2 DEF Ripe, RowStays

(* Only the lane that has a row writes it.                                 *)
LEMMA OwnWriter ==
    ASSUME CadenceInv, NEW a \in Agent, NEW k \in Charge(a), Working(a), Writes(k)
    PROVE  WriteOutcome(a) /\ k = <<lane[a].org, lane[a].current>>
<1>1. PICK b \in Agent : WriteOutcome(b) /\ k = <<lane[b].org, lane[b].current>>
  BY DEF Writes
<1>2. Working(b)
  BY <1>1 DEF WriteOutcome, Working
<1>3. lane[a].org = lane[b].org
  BY <1>1 DEF Charge
<1>4. QED BY <1>1, <1>2, <1>3 DEF CadenceInv, Apart

(* A lone drain that works has its pool, and its lanes are of that pool.   *)
LEMMA OnePage ==
    ASSUME OneDrain, CadenceInv, NEW a \in Agent, Working(a), NEW w \in Worker
    PROVE  /\ wake[w].pc = "pool" /\ a[1] = w
           /\ \A e \in wake[w].page : e.key[1] # lane[a].org
  BY DEF OneDrain, CadenceInv, Apart, Agent

(* A row waits for its slot whatever a step writes.                        *)
LEMMA SlotStep == CadenceInv /\ [Next]_vars => SlotKept'
<1> SUFFICES ASSUME CadenceInv, [Next]_vars, NEW k \in Key, states'[k].lastObservedAt # Null
             PROVE  states'[k].nextDueAt >= ComputeNextDueAt(k[1], k[2], states'[k].lastObservedAt)
  BY DEF SlotKept
<1>t. TypeOK /\ TypeOK' /\ SlotKept
  BY TypeStep DEF CadenceInv
<1>n. /\ states[k].nextDueAt \in Nat /\ states'[k].nextDueAt \in Nat
      /\ states[k].lastObservedAt \in Nat /\ states'[k].lastObservedAt \in Nat
  BY <1>t DEF TypeOK, ObservationState
<1>c. \A at \in Nat : ComputeNextDueAt(k[1], k[2], at) \in Nat
  <2>1. k[1] \in Org /\ k[2] \in Type
    BY DEF Key
  <2>2. QED BY <2>1, OnOwnGrid
<1>1. CASE RowStays(k)
  BY <1>t, <1>1 DEF RowStays, SlotKept
<1>2. CASE RowAppears(k)
  BY <1>2 DEF RowAppears
<1>3. CASE Writes(k)
  <2>1. PICK a \in Agent : WriteOutcome(a) /\ k = <<lane[a].org, lane[a].current>>
    BY <1>3 DEF Writes
  <2> DEFINE at == lane[a].at
  <2>2. CASE states'[k].lastObservedAt = at /\ states'[k].nextDueAt = ComputeNextDueAt(k[1], k[2], at)
    BY <1>n, <2>2
  <2>3. CASE states'[k].lastObservedAt = states[k].lastObservedAt /\ states'[k].nextDueAt > at
    <3>1. at >= states[k].nextDueAt
      <4>1. lane[a].pc = "write" /\ Working(a)
        BY <2>1 DEF WriteOutcome, Working
      <4>2. QED BY <2>1, <4>1 DEF CadenceInv, LaneIsRipe
    <3>2. states[k].nextDueAt >= ComputeNextDueAt(k[1], k[2], states[k].lastObservedAt)
      BY <1>t, <2>3 DEF SlotKept
    <3>3. at \in Nat
      BY <1>t, <2>1, OutcomeRows
    <3> HIDE DEF at
    <3>4. ComputeNextDueAt(k[1], k[2], states[k].lastObservedAt) \in Nat
      BY <1>c, <1>n
    <3>5. QED BY <1>n, <2>3, <3>1, <3>2, <3>3, <3>4
  <2>4. QED BY <1>t, <2>1, <2>2, <2>3, OutcomeRows
<1>4. QED BY <1>t, <1>1, <1>2, <1>3, RowMoves

(* Rows left running were due when they were claimed.                      *)
LEMMA RunningStep == CadenceInv /\ [Next]_vars => RunningIsRipe'
<1> SUFFICES ASSUME CadenceInv, [Next]_vars, NEW k \in Key, states'[k].status = "running"
             PROVE  Ripe(k)'
  BY DEF RunningIsRipe
<1>t. TypeOK
  BY DEF CadenceInv
<1>1. ~Writes(k)
  BY <1>t, OutcomeRows DEF Writes
<1>2. RowStays(k)
  BY <1>t, <1>1, RowMoves DEF RowAppears
<1>3. Ripe(k)
  BY <1>2 DEF RowStays, CadenceInv, RunningIsRipe, LaneIsRipe
<1>4. QED BY <1>t, <1>1, <1>3, RipeStays

(* Rows on a page stay due: the lanes write others.                        *)
LEMMA PageStep == OneDrain /\ CadenceInv /\ [Next]_vars => PageIsRipe'
<1> SUFFICES ASSUME OneDrain, CadenceInv, [Next]_vars, NEW w \in Worker, NEW e \in wake'[w].page
             PROVE  e.key \in Key /\ Ripe(e.key)'
  BY DEF PageIsRipe
<1>t. TypeOK
  BY DEF CadenceInv
<1>1. e \in wake[w].page \/ e \in Due \cup Stale
  BY <1>t, PagesMove DEF PageMoves
<1>2. e.key \in Key /\ Ripe(e.key)
  BY <1>1, FreshPageIsRipe DEF CadenceInv, PageIsRipe
<1>3. ~Writes(e.key)
  <2> SUFFICES ASSUME NEW a \in Agent, WriteOutcome(a), e.key = <<lane[a].org, lane[a].current>>
               PROVE  FALSE
    BY DEF Writes
  <2>1. Working(a) /\ wake' = wake
    BY <1>t, WritingLetsGo
  <2>2. e.key[1] # lane[a].org
    BY <2>1, OnePage
  <2>3. QED BY <2>2
<1>4. QED BY <1>t, <1>2, <1>3, RipeStays

(* Lanes stay apart, from each other and from the page.                    *)
LEMMA ApartStep == OneDrain /\ CadenceInv /\ [Next]_vars => Apart'
<1> SUFFICES ASSUME OneDrain, CadenceInv, [Next]_vars, NEW a \in Agent, Working(a)'
             PROVE  /\ wake'[a[1]].pc = "pool"
                    /\ \A e \in wake'[a[1]].page : e.key[1] # lane'[a].org
                    /\ \A b \in Agent : Working(b)' /\ lane'[b].org = lane'[a].org => a = b
  BY DEF Apart
<1>t. TypeOK /\ a[1] \in Worker
  BY DEF CadenceInv, Agent
<1>k. \A b \in Agent : LaneKeeps(b)
  BY <1>t, LanesKeep
<1>p. PageMoves(a[1])
  BY <1>t, PagesMove
<1>1. CASE LaneTakes(a)
  <2>1. PICK o \in Org :
          /\ ~Working(a)
          /\ lane'[a].org = o
          /\ \E e \in wake[a[1]].page : e.key[1] = o
          /\ wake[a[1]].pc = "pool"
          /\ wake' = [wake EXCEPT ![a[1]].page = WithoutOrg(@, o)]
          /\ \A c \in Agent : c # a => lane'[c] = lane[c]
    BY <1>1 DEF LaneTakes
  <2>2. wake[a[1]] \in WakeState
    BY <1>t DEF TypeOK
  <2>3. wake'[a[1]].pc = "pool" /\ wake'[a[1]].page = WithoutOrg(wake[a[1]].page, o)
    BY <1>t, <2>1, <2>2 DEF TypeOK, WakeState
  <2>4. \A e \in wake'[a[1]].page : e.key[1] # o
    BY <2>3 DEF WithoutOrg
  <2>5. ASSUME NEW b \in Agent, Working(b)', lane'[b].org = o, b # a PROVE FALSE
    <3>1. Working(b) /\ lane[b].org = o
      BY <2>1, <2>5 DEF Working
    <3>2. QED BY <1>t, <2>1, <3>1, OnePage
  <2>6. QED BY <2>1, <2>3, <2>4, <2>5
<1>2. CASE LaneGoesOn(a)
  <2>1. Working(a) /\ lane'[a].org = lane[a].org
    BY <1>2 DEF LaneGoesOn
  <2>2. wake[a[1]].pc = "pool" /\ \A e \in wake[a[1]].page : e.key[1] # lane[a].org
    BY <1>t, <2>1, OnePage
  <2>3. wake'[a[1]].pc = "pool" /\ wake'[a[1]].page \subseteq wake[a[1]].page
    BY <1>p, <2>2 DEF PageMoves
  <2>4. ASSUME NEW b \in Agent, Working(b)', lane'[b].org = lane[a].org PROVE a = b
    <3>1. CASE LaneTakes(b)
      <4>1. PICK e \in wake[b[1]].page : e.key[1] = lane[a].org
        BY <2>4, <3>1 DEF LaneTakes
      <4>2. b[1] \in Worker
        BY DEF Agent
      <4>3. QED BY <2>1, <4>1, <4>2, OnePage
    <3>2. CASE LaneGoesOn(b)
      BY <2>1, <2>4, <3>2 DEF LaneGoesOn, CadenceInv, Apart
    <3>3. QED BY <1>k, <2>4, <3>1, <3>2 DEF LaneKeeps
  <2>5. QED BY <2>1, <2>2, <2>3, <2>4
<1>3. QED BY <1>k, <1>1, <1>2 DEF LaneKeeps

(* What the lanes have stays due until they write it.                      *)
LEMMA LaneStep == OneDrain /\ CadenceInv /\ [Next]_vars => LaneIsRipe'
<1> SUFFICES ASSUME OneDrain, CadenceInv, [Next]_vars, NEW a \in Agent, Working(a)'
             PROVE  /\ \A k \in Charge(a)' : Ripe(k)'
                    /\ lane'[a].pc # "insert"
                    /\ lane'[a].pc = "write" =>
                         lane'[a].at >= states'[<<lane'[a].org, lane'[a].current>>].nextDueAt
  BY DEF LaneIsRipe
<1>t. TypeOK /\ TypeOK' /\ a[1] \in Worker
  BY TypeStep DEF CadenceInv, Agent
<1>k. LaneKeeps(a)
  BY <1>t, LanesKeep
<1>1. CASE LaneTakes(a)
  <2>1. PICK o \in Org :
          /\ lane'[a].pc = "claim" /\ lane'[a].org = o /\ lane'[a].held = {}
          /\ \A t \in lane'[a].types : \E e \in wake[a[1]].page : e.key = <<o, t>>
    BY <1>1 DEF LaneTakes
  <2>2. ASSUME NEW k \in Charge(a)' PROVE Ripe(k)'
    <3>1. PICK e \in wake[a[1]].page : e.key = k
      BY <2>1, <2>2 DEF Charge
    <3>2. k \in Key /\ Ripe(k)
      BY <1>t, <3>1 DEF CadenceInv, PageIsRipe
    <3>3. ~Writes(k)
      <4> SUFFICES ASSUME NEW b \in Agent, WriteOutcome(b), k = <<lane[b].org, lane[b].current>>
                   PROVE  FALSE
        BY DEF Writes
      <4>1. Working(b)
        BY <1>t, WritingLetsGo
      <4>2. QED BY <1>t, <3>1, <4>1, OnePage
    <3>4. QED BY <1>t, <3>2, <3>3, RipeStays
  <2>3. QED BY <2>1, <2>2
<1>2. CASE LaneGoesOn(a)
  <2>1. /\ Working(a) /\ lane'[a].org = lane[a].org /\ Charge(a)' \subseteq Charge(a)
        /\ \A k \in Charge(a) : Ripe(k)
        /\ lane[a].pc # "insert"
    BY <1>2 DEF LaneGoesOn, CadenceInv, LaneIsRipe
  <2>2. Charge(a) \subseteq Key
    BY <1>t, <2>1 DEF Charge, Key, TypeOK, LaneState, Working
  <2>3. \A k \in Charge(a)' : ~Writes(k)
    <3> SUFFICES ASSUME NEW k \in Charge(a)', Writes(k) PROVE FALSE
      OBVIOUS
    <3>1. WriteOutcome(a) /\ k = <<lane[a].org, lane[a].current>>
      BY <2>1, OwnWriter
    <3>2. QED BY <1>t, <3>1, WritingLetsGo
  <2>4. \A k \in Charge(a)' : Ripe(k)' /\ states'[k].nextDueAt = states[k].nextDueAt
    BY <1>t, <2>1, <2>2, <2>3, RipeStays
  <2>5. lane'[a].pc # "insert"
    BY <1>2, <2>1 DEF LaneGoesOn, Ripe
  <2>6. ASSUME lane'[a].pc = "write"
        PROVE  lane'[a].at >= states'[<<lane'[a].org, lane'[a].current>>].nextDueAt
    <3> DEFINE k == <<lane'[a].org, lane'[a].current>>
    <3>1. k \in Charge(a)'
      BY <1>t, <2>6 DEF TypeOK, Charge
    <3>2. k \in Key /\ Ripe(k) /\ states'[k].nextDueAt = states[k].nextDueAt
      BY <2>1, <2>2, <2>4, <3>1
    <3>3. CASE lane'[a] = lane[a]
      <4>1. lane[a].at >= states[k].nextDueAt
        BY <2>1, <2>6, <3>3 DEF CadenceInv, LaneIsRipe
      <4>2. QED BY <3>2, <3>3, <4>1
    <3>4. CASE lane'[a].at = clock
      <4>1. clock \in Nat /\ states[k].nextDueAt \in Nat /\ states[k].nextDueAt <= clock
        BY <1>t, <3>2 DEF TypeOK, ObservationState, Ripe
      <4>2. QED BY <3>2, <3>4, <4>1
    <3>5. QED BY <1>2, <2>6, <3>3, <3>4 DEF LaneGoesOn
  <2>7. QED BY <2>4, <2>5, <2>6
<1>3. QED BY <1>k, <1>1, <1>2 DEF LaneKeeps

(* The invariant is inductive for one drain.                               *)
LEMMA CadenceStep == OneDrain /\ CadenceInv /\ [Next]_vars => CadenceInv'
<1> SUFFICES ASSUME OneDrain, CadenceInv, [Next]_vars PROVE CadenceInv'
  OBVIOUS
<1>1. TypeOK'
  BY TypeStep DEF CadenceInv
<1>2. QED BY <1>1, SlotStep, RunningStep, PageStep, ApartStep, LaneStep DEF CadenceInv

NotBefore ==
    \A k \in Key :
        states'[k].lastObservedAt # states[k].lastObservedAt /\ states[k].lastObservedAt # Null
        => states'[k].lastObservedAt >= ComputeNextDueAt(k[1], k[2], states[k].lastObservedAt)

(* A new observation is made no earlier than the due instant, which is no  *)
(* earlier than the slot after the last one.                               *)
LEMMA NotBeforeStep == CadenceInv /\ [Next]_vars => NotBefore
<1> SUFFICES ASSUME CadenceInv, [Next]_vars, NEW k \in Key,
                    states'[k].lastObservedAt # states[k].lastObservedAt,
                    states[k].lastObservedAt # Null
             PROVE  states'[k].lastObservedAt >= ComputeNextDueAt(k[1], k[2], states[k].lastObservedAt)
  BY DEF NotBefore
<1>t. TypeOK
  BY DEF CadenceInv
<1>1. Writes(k)
  <2>1. NoRow.lastObservedAt = Null
    BY DEF NoRow
  <2>2. QED BY <1>t, <2>1, RowMoves DEF RowStays, RowAppears
<1>2. PICK a \in Agent : WriteOutcome(a) /\ k = <<lane[a].org, lane[a].current>>
  BY <1>1 DEF Writes
<1> DEFINE at == lane[a].at
           due == states[k].nextDueAt
           slot == ComputeNextDueAt(k[1], k[2], states[k].lastObservedAt)
<1>3. at \in Nat /\ states'[k].lastObservedAt = at
  BY <1>t, <1>2, OutcomeRows
<1>4. at >= due
  <2>1. lane[a].pc = "write" /\ Working(a)
    BY <1>2 DEF WriteOutcome, Working
  <2>2. QED BY <1>2, <2>1 DEF CadenceInv, LaneIsRipe
<1>5. due >= slot
  BY DEF CadenceInv, SlotKept
<1>6. due \in Nat /\ slot \in Nat
  <2>1. states[k] \in ObservationState /\ k[1] \in Org /\ k[2] \in Type
    BY <1>t DEF TypeOK, Key
  <2>2. QED BY <2>1, OnOwnGrid DEF ObservationState
<1> HIDE DEF at, due, slot
<1>7. at >= slot
  BY <1>3, <1>4, <1>5, <1>6
<1>8. QED BY <1>3, <1>7 DEF slot

(* With one drain running, whatever the number of its lanes and whatever   *)
(* fails, a row is observed at most once in each slot of its cadence.      *)
THEOREM SlotObservedOnce == ASSUME OneDrain PROVE Spec => OncePerSlot
<1>1. Init => CadenceInv
  BY CadenceInit
<1>2. CadenceInv /\ [Next]_vars => CadenceInv'
  BY CadenceStep
<1>3. CadenceInv /\ [Next]_vars => [NotBefore]_vars
  BY NotBeforeStep
<1>4. [][NotBefore]_vars => OncePerSlot
  BY PTL DEF OncePerSlot, NotBefore
<1>5. QED BY <1>1, <1>2, <1>3, <1>4, PTL DEF Spec

-----------------------------------------------------------------------------
(* What lets go of a claimed row.                                          *)

(* A lane at rest holds nothing, and what a scheduler's lane holds it has  *)
(* claimed, so that there is a row and nothing to insert.  The lanes of a  *)
(* worker that may run the manual CLI claim nothing.                       *)
ClaimsAreRows ==
    \A a \in Agent :
        /\ ~Working(a) => lane[a].held = {}
        /\ a[1] \notin Manual =>
             lane[a].pc # "insert" /\ \A t \in lane[a].held : states[<<lane[a].org, t>>] # NoRow

ReleaseInv == TypeOK /\ ClaimsAreRows

(* What a lane holds after a step it held or claimed, and what it held it  *)
(* still holds or has recorded, unless the step is a fault.                *)
HoldsOn(b) ==
    /\ ~Working(b)' => lane'[b].held = {}
    /\ b[1] \notin Manual =>
         /\ lane'[b].pc # "insert"
         /\ \A t \in lane'[b].held : states[<<lane'[b].org, t>>] # NoRow
         /\ \A t \in lane[b].held :
              \/ t \in lane'[b].held
              \/ lane[b].org \in Unresolvable
              \/ faults' # faults
              \/ WriteOutcome(b) /\ t = lane[b].current

(* A lane that keeps its organisation and loses no type.                   *)
LEMMA SameHeld ==
    ASSUME ReleaseInv, NEW b \in Agent, lane'[b].org = lane[b].org,
           lane'[b].held = lane[b].held, Working(b)' \/ ~Working(b),
           lane'[b].pc = "insert" => lane[b].pc = "insert"
    PROVE  HoldsOn(b)
  BY DEF ReleaseInv, ClaimsAreRows, HoldsOn

(* A lane done with a type holds the others.                               *)
LEMMA DoneHolds ==
    ASSUME ReleaseInv, NEW a \in Agent, NEW t, Working(a),
           lane' = [lane EXCEPT ![a] = DoneWith(a, t)],
           faults' # faults \/ (WriteOutcome(a) /\ t = lane[a].current) \/ a[1] \in Manual
    PROVE  HoldsOn(a)
<1>1. lane[a] \in LaneState /\ lane'[a] = DoneWith(a, t)
  BY DEF ReleaseInv, TypeOK
<1>2. CASE lane[a].held = {t}
  <2>1. lane'[a].pc = "free" /\ lane'[a].held = {}
    BY <1>1, <1>2 DEF DoneWith, Free
  <2>2. QED BY <1>2, <2>1 DEF HoldsOn, Working
<1>3. CASE lane[a].held # {t}
  <2> DEFINE l == [lane[a] EXCEPT !.pc = "read", !.held = lane[a].held \ {t}, !.current = None]
  <2>1. l.pc = "read" /\ l.org = lane[a].org /\ l.held = lane[a].held \ {t}
    BY <1>1 DEF LaneState
  <2>2. lane'[a] = l
    BY <1>1, <1>3 DEF DoneWith
  <2> HIDE DEF l
  <2>3. QED BY <2>1, <2>2 DEF HoldsOn, Working, ReleaseInv, ClaimsAreRows
<1>4. QED BY <1>2, <1>3

(* A fault changes the count of faults.                                    *)
LEMMA FaultsCount == TypeOK /\ Fault => faults' # faults
  BY DEF TypeOK, Fault

(* Every step of every lane, wake and of the environment.                  *)
LEMMA HoldsStep == ReleaseInv /\ [Next]_vars => \A b \in Agent : HoldsOn(b)
<1> SUFFICES ASSUME ReleaseInv, [Next]_vars PROVE \A b \in Agent : HoldsOn(b)
  OBVIOUS
<1>t. TypeOK
  BY DEF ReleaseInv
<1>1. ASSUME NEW b \in Agent, lane'[b] = lane[b] PROVE HoldsOn(b)
  BY <1>1, SameHeld DEF Working
<1>2. ASSUME NEW a \in Agent, NEW l, lane' = [lane EXCEPT ![a] = l], HoldsOn(a)
      PROVE  \A b \in Agent : HoldsOn(b)
  <2>1. \A b \in Agent : b # a => lane'[b] = lane[b]
    BY <1>2, <1>t DEF TypeOK
  <2>2. QED BY <1>1, <1>2, <2>1
<1>3. ASSUME NEW a \in Agent, NEW o \in Org,
             TakeOrganisation(a, o) \/ TakeUnclaimed(a, o) \/ SkipOrganisation(a, o)
      PROVE  \A b \in Agent : HoldsOn(b)
  <2>1. PICK l : lane' = lane \/ (/\ ~Working(a) /\ lane' = [lane EXCEPT ![a] = l]
                                  /\ \/ l.pc = "claim" /\ l.held = {}
                                     \/ l.pc = "read" /\ a[1] \in Manual)
    <3>1. CASE TakeOrganisation(a, o)
      <4> DEFINE T == {t \in Type : \E e \in wake[a[1]].page : e.key = <<o, t>>}
                 n == IF a[1] \in Targeted THEN wake[a[1]].startedAt ELSE clock
                 l == [Free EXCEPT !.pc = "claim", !.org = o, !.since = clock, !.now = n, !.types = T]
      <4>1. lane' = [lane EXCEPT ![a] = l] /\ ~Working(a)
        BY <3>1 DEF TakeOrganisation, Working
      <4> HIDE DEF T, n
      <4>2. l.pc = "claim" /\ l.held = {}
        BY DEF Free
      <4> HIDE DEF l
      <4>3. QED BY <4>1, <4>2
    <3>2. CASE TakeUnclaimed(a, o)
      <4> DEFINE l == [Free EXCEPT !.pc = "read", !.org = o, !.since = clock, !.now = clock, !.held = Type]
      <4>1. (lane' = lane \/ lane' = [lane EXCEPT ![a] = l]) /\ ~Working(a) /\ a[1] \in Manual
        BY <3>2 DEF TakeUnclaimed, Working
      <4>2. l.pc = "read"
        BY DEF Free
      <4> HIDE DEF l
      <4>3. QED BY <4>1, <4>2
    <3>3. CASE SkipOrganisation(a, o)
      BY <3>3 DEF SkipOrganisation
    <3>4. QED BY <1>3, <3>1, <3>2, <3>3
  <2>2. CASE lane' = lane
    BY <1>1, <2>2
  <2>3. CASE lane' # lane
    <3>1. lane'[a] = l /\ lane[a].held = {}
      BY <1>t, <2>1, <2>3 DEF TypeOK, ReleaseInv, ClaimsAreRows
    <3>2. HoldsOn(a)
      BY <2>1, <2>3, <3>1 DEF HoldsOn, Working
    <3>3. QED BY <1>2, <2>1, <2>3, <3>2
  <2>4. QED BY <2>2, <2>3
<1>4. ASSUME NEW a \in Agent, NEW t \in Type, Claim(a, t)
      PROVE  \A b \in Agent : HoldsOn(b)
  <2>1. lane[a] \in LaneState /\ lane[a].pc = "claim"
    BY <1>4, <1>t DEF Claim, TypeOK
  <2>2. CASE Claimable(states[<<lane[a].org, t>>], lane[a].now)
    <3> DEFINE l == [lane[a] EXCEPT !.types = lane[a].types \ {t}, !.held = lane[a].held \cup {t}]
    <3>1. lane' = [lane EXCEPT ![a] = l]
      BY <1>4, <1>t, <2>1, <2>2 DEF Claim, TypeOK, LaneState
    <3>2. l.pc = "claim" /\ l.org = lane[a].org /\ l.held = lane[a].held \cup {t}
      BY <2>1 DEF LaneState
    <3> HIDE DEF l
    <3>3. lane'[a] = l /\ states[<<lane[a].org, t>>] # NoRow
      BY <1>t, <2>2, <3>1 DEF TypeOK, Claimable
    <3>4. HoldsOn(a)
      BY <3>2, <3>3 DEF HoldsOn, Working, ReleaseInv, ClaimsAreRows
    <3>5. QED BY <1>2, <3>1, <3>4
  <2>3. CASE ~Claimable(states[<<lane[a].org, t>>], lane[a].now)
    <3> DEFINE l == [lane[a] EXCEPT !.types = lane[a].types \ {t}]
    <3>1. lane' = [lane EXCEPT ![a] = l]
      BY <1>4, <1>t, <2>1, <2>3 DEF Claim, TypeOK, LaneState
    <3>2. l.pc = "claim" /\ l.org = lane[a].org /\ l.held = lane[a].held
      BY <2>1 DEF LaneState
    <3> HIDE DEF l
    <3>3. lane'[a] = l
      BY <1>t, <3>1 DEF TypeOK
    <3>4. HoldsOn(a)
      BY <2>1, <3>2, <3>3, SameHeld DEF Working
    <3>5. QED BY <1>2, <3>1, <3>4
  <2>4. QED BY <2>2, <2>3
<1>5. ASSUME NEW a \in Agent, FinishClaims(a) PROVE \A b \in Agent : HoldsOn(b)
  <2>1. lane[a] \in LaneState /\ lane[a].pc = "claim"
    BY <1>5, <1>t DEF FinishClaims, TypeOK
  <2>2. CASE lane[a].held = {} \/ lane[a].org \in Unresolvable
    <3>1. lane' = [lane EXCEPT ![a] = Free] /\ lane'[a] = Free
      BY <1>5, <1>t, <2>2 DEF FinishClaims, TypeOK
    <3>2. HoldsOn(a)
      BY <2>2, <3>1 DEF HoldsOn, Free
    <3>3. QED BY <1>2, <3>1, <3>2
  <2>3. CASE ~(lane[a].held = {} \/ lane[a].org \in Unresolvable)
    <3> DEFINE l == [lane[a] EXCEPT !.pc = "read"]
    <3>1. lane' = [lane EXCEPT ![a] = l] /\ lane'[a] = l
      BY <1>5, <1>t, <2>3 DEF FinishClaims, TypeOK
    <3>2. l.pc = "read" /\ l.org = lane[a].org /\ l.held = lane[a].held
      BY <2>1 DEF LaneState
    <3> HIDE DEF l
    <3>3. HoldsOn(a)
      BY <2>1, <3>1, <3>2, SameHeld DEF Working
    <3>4. QED BY <1>2, <3>1, <3>3
  <2>4. QED BY <2>2, <2>3
<1>6. ASSUME NEW a \in Agent, NEW t \in Type, ReadState(a, t)
      PROVE  \A b \in Agent : HoldsOn(b)
  <2> DEFINE row == states[<<lane[a].org, t>>]
             pc == IF row = NoRow THEN "insert" ELSE "collect"
             l  == [lane[a] EXCEPT !.pc = pc, !.current = t, !.attemptsRead = row.attemptCount]
  <2>1. lane[a] \in LaneState /\ lane[a].pc = "read" /\ t \in lane[a].held
    BY <1>6, <1>t DEF ReadState, TypeOK
  <2>2. lane' = [lane EXCEPT ![a] = l]
    BY <1>6, <1>t, <2>1 DEF ReadState, TypeOK, LaneState
  <2>3. l.pc = pc /\ l.org = lane[a].org /\ l.held = lane[a].held
    BY <2>1 DEF LaneState
  <2>4. /\ pc # "free"
        /\ a[1] \notin Manual => pc = "collect"
    BY <2>1 DEF ReleaseInv, ClaimsAreRows
  <2> HIDE DEF l, pc
  <2>5. lane'[a] = l
    BY <1>t, <2>2 DEF TypeOK
  <2>6. HoldsOn(a)
    BY <2>3, <2>4, <2>5 DEF HoldsOn, Working, ReleaseInv, ClaimsAreRows
  <2>7. QED BY <1>2, <2>2, <2>6
<1>7. ASSUME NEW a \in Agent, NEW ok \in BOOLEAN, Collect(a, ok)
      PROVE  \A b \in Agent : HoldsOn(b)
  <2> DEFINE l == [lane[a] EXCEPT !.pc = "write", !.ok = ok, !.at = clock]
  <2>1. lane[a] \in LaneState
    BY <1>t DEF TypeOK
  <2>2. lane' = [lane EXCEPT ![a] = l]
    BY <1>7, <1>t, <2>1 DEF Collect, TypeOK, LaneState
  <2>3. l.pc = "write" /\ l.org = lane[a].org /\ l.held = lane[a].held
    BY <2>1 DEF LaneState
  <2> HIDE DEF l
  <2>4. lane'[a] = l
    BY <1>t, <2>2 DEF TypeOK
  <2>5. HoldsOn(a)
    BY <2>3, <2>4, SameHeld DEF Working
  <2>6. QED BY <1>2, <2>2, <2>5
<1>8. ASSUME NEW a \in Agent, NEW t, Working(a), lane' = [lane EXCEPT ![a] = DoneWith(a, t)],
             faults' # faults \/ (WriteOutcome(a) /\ t = lane[a].current) \/ a[1] \in Manual
      PROVE  \A b \in Agent : HoldsOn(b)
  <2>1. HoldsOn(a)
    BY <1>8, DoneHolds
  <2>2. QED BY <1>2, <1>8, <2>1
<1>9. ASSUME NEW a \in Agent, (\E t \in Type : ReadStateFails(a, t)) \/ InsertFails(a)
             \/ ReadBackFails(a) \/ WriteOutcomeFails(a)
      PROVE  \A b \in Agent : HoldsOn(b)
  <2>1. faults' # faults
    BY <1>9, <1>t, FaultsCount DEF ReadStateFails, InsertFails, ReadBackFails, WriteOutcomeFails
  <2>2. Working(a) /\ \E t : lane' = [lane EXCEPT ![a] = DoneWith(a, t)]
    BY <1>9 DEF ReadStateFails, InsertFails, ReadBackFails, WriteOutcomeFails, Working
  <2>3. QED BY <1>8, <2>1, <2>2
<1>10. ASSUME NEW a \in Agent, WriteOutcome(a) PROVE \A b \in Agent : HoldsOn(b)
  <2>1. Working(a) /\ lane' = [lane EXCEPT ![a] = DoneWith(a, lane[a].current)]
    BY <1>10 DEF WriteOutcome, Working
  <2>2. QED BY <1>8, <1>10, <2>1
<1>11. ASSUME NEW a \in Agent, Insert(a) PROVE \A b \in Agent : HoldsOn(b)
  <2>1. lane[a] \in LaneState /\ lane[a].pc = "insert" /\ a[1] \in Manual /\ Working(a)
    BY <1>11, <1>t DEF Insert, TypeOK, ReleaseInv, ClaimsAreRows, Working
  <2>2. CASE lane' = [lane EXCEPT ![a] = DoneWith(a, lane[a].current)]
    BY <1>8, <2>1, <2>2
  <2>3. CASE lane' = [lane EXCEPT ![a].pc = "collect"]
    <3> DEFINE l == [lane[a] EXCEPT !.pc = "collect"]
    <3>1. lane' = [lane EXCEPT ![a] = l] /\ lane'[a] = l
      BY <1>t, <2>3 DEF TypeOK
    <3>2. l.pc = "collect"
      BY <2>1 DEF LaneState
    <3> HIDE DEF l
    <3>3. HoldsOn(a)
      BY <2>1, <3>1, <3>2 DEF HoldsOn, Working
    <3>4. QED BY <1>2, <3>1, <3>3
  <2>4. QED BY <1>11, <2>2, <2>3 DEF Insert
<1>12. ASSUME NEW a \in Agent, NEW t \in Type, ClaimFails(a, t)
       PROVE  \A b \in Agent : HoldsOn(b)
  <2>1. faults' # faults /\ lane' = [lane EXCEPT ![a] = Free] /\ lane'[a] = Free
    BY <1>12, <1>t, FaultsCount DEF ClaimFails, TypeOK
  <2>2. HoldsOn(a)
    BY <2>1 DEF HoldsOn, Free
  <2>3. QED BY <1>2, <2>1, <2>2
<1>13. ASSUME NEW w \in Worker, WakeNext(w) PROVE \A b \in Agent : HoldsOn(b)
  <2>1. CASE Crash(w)
    <3>1. faults' # faults /\ \A b \in Agent : lane'[b] = lane[b] \/ lane'[b] = Free
      BY <1>t, <2>1, FaultsCount DEF Crash
    <3>2. ASSUME NEW b \in Agent, lane'[b] = Free PROVE HoldsOn(b)
      BY <3>1, <3>2 DEF HoldsOn, Free
    <3>3. QED BY <1>1, <3>1, <3>2
  <2>2. CASE lane' = lane
    BY <1>1, <2>2
  <2>3. QED BY <1>13, <2>1, <2>2 DEF WakeNext, StartDrain, StartTargeted, StartManual, StopDrain,
                                     FindDuePage, FindDuePageFails, FinishPage
<1>14. CASE Tick \/ UNCHANGED vars \/ \E k \in Key : Suspend(k) \/ Provision(k)
  BY <1>1, <1>14 DEF Tick, vars, Suspend, Provision
<1>15. QED
  BY <1>3, <1>4, <1>5, <1>6, <1>7, <1>9, <1>10, <1>11, <1>12, <1>13, <1>14 DEF Next, LaneNext

(* No step makes a row vanish.                                             *)
LEMMA RowsRemain ==
    ASSUME TypeOK, [Next]_vars, NEW k \in Key, states[k] # NoRow
    PROVE  states'[k] # NoRow
<1>1. CASE Writes(k)
  BY <1>1, OutcomeRows DEF Writes, NoRow
<1>2. CASE RowStays(k)
  BY <1>2 DEF RowStays
<1>3. QED BY <1>1, <1>2, RowMoves DEF RowAppears

(* The invariant holds at first, and every step keeps it.                  *)
LEMMA ReleaseInduction ==
    /\ Init => ReleaseInv
    /\ ReleaseInv /\ [Next]_vars => ReleaseInv'
<1>1. Init => ReleaseInv
  <2> SUFFICES ASSUME Init PROVE ReleaseInv
    OBVIOUS
  <2>1. \A a \in Agent : lane[a] = Free
    BY DEF Init
  <2>2. QED BY <2>1, TypeInit DEF ReleaseInv, ClaimsAreRows, Free
<1>2. ASSUME ReleaseInv, [Next]_vars PROVE ReleaseInv'
  <2>1. TypeOK /\ TypeOK' /\ \A b \in Agent : HoldsOn(b)
    BY <1>2, TypeStep, HoldsStep DEF ReleaseInv
  <2>2. ASSUME NEW a \in Agent, a[1] \notin Manual, NEW t \in lane'[a].held
        PROVE  states'[<<lane'[a].org, t>>] # NoRow
    <3>1. states[<<lane'[a].org, t>>] # NoRow
      BY <2>1, <2>2 DEF HoldsOn
    <3>2. lane'[a].pc # "free" /\ lane'[a] \in LaneState
      BY <2>1, <2>2 DEF HoldsOn, Working, TypeOK
    <3>3. <<lane'[a].org, t>> \in Key
      BY <2>1, <2>2, <3>2 DEF TypeOK, LaneState, Key
    <3>4. QED BY <1>2, <2>1, <3>1, <3>3, RowsRemain
  <2>3. ClaimsAreRows'
    BY <2>1, <2>2 DEF ClaimsAreRows, HoldsOn
  <2>4. QED BY <2>1, <2>3 DEF ReleaseInv
<1>3. QED BY <1>1, <1>2

(* Where no failure is allowed for, none is counted.                       *)
LEMMA NoFaults == MaxFaults = 0 /\ TypeOK /\ [Next]_vars => faults' = faults
<1> SUFFICES ASSUME MaxFaults = 0, TypeOK, [Next]_vars PROVE faults' = faults
  OBVIOUS
<1>1. ~Fault
  BY DEF Fault, TypeOK
<1>2. ASSUME NEW a \in Agent, LaneNext(a) PROVE faults' = faults
  <2>1. ASSUME NEW o \in Org, TakeOrganisation(a, o) \/ TakeUnclaimed(a, o) \/ SkipOrganisation(a, o)
        PROVE  faults' = faults
    BY <2>1 DEF TakeOrganisation, TakeUnclaimed, SkipOrganisation
  <2>2. ASSUME NEW t \in Type, Claim(a, t) \/ ClaimFails(a, t) \/ ReadState(a, t) \/ ReadStateFails(a, t)
        PROVE  faults' = faults
    BY <1>1, <2>2 DEF Claim, ClaimFails, ReadState, ReadStateFails
  <2>3. ASSUME \/ FinishClaims(a) \/ Insert(a) \/ InsertFails(a) \/ ReadBackFails(a)
               \/ WriteOutcome(a) \/ WriteOutcomeFails(a) \/ \E ok \in BOOLEAN : Collect(a, ok)
        PROVE  faults' = faults
    BY <1>1, <2>3 DEF FinishClaims, Insert, InsertFails, ReadBackFails, WriteOutcome,
                      WriteOutcomeFails, Collect
  <2>4. QED BY <1>2, <2>1, <2>2, <2>3 DEF LaneNext
<1>3. ASSUME NEW w \in Worker, WakeNext(w) PROVE faults' = faults
  BY <1>1, <1>3 DEF WakeNext, StartDrain, StartTargeted, StartManual, StopDrain, FindDuePage,
                    FindDuePageFails, FinishPage, Crash
<1>4. CASE Tick \/ UNCHANGED vars \/ \E k \in Key : Suspend(k) \/ Provision(k)
  BY <1>1, <1>4 DEF Tick, vars, Suspend, Provision
<1>5. QED BY <1>2, <1>3, <1>4 DEF Next

(* The step property of ReleaseIsRecorded, for a lane and a row.           *)
Released(a, k) ==
    /\ Holds(a, k) /\ k[2] \notin lane'[a].held
    /\ wake'[a[1]].pc # "idle"
    => states'[k].status # "running"

(* A step that is no fault: the lane that lets go of a row writes it.      *)
LEMMA ReleaseStep ==
    ASSUME ReleaseInv, [Next]_vars, faults' = faults, NEW a \in Agent, NEW k \in Key,
           a[1] \notin Manual, k[1] \notin Unresolvable
    PROVE  Released(a, k)
<1> SUFFICES ASSUME Holds(a, k), k[2] \notin lane'[a].held PROVE states'[k].status # "running"
  BY DEF Released
<1>1. lane[a].org = k[1] /\ k[2] \in lane[a].held /\ k = <<k[1], k[2]>>
  BY DEF Holds, Key
<1>2. HoldsOn(a)
  BY HoldsStep
<1>3. WriteOutcome(a) /\ k[2] = lane[a].current
  BY <1>1, <1>2 DEF HoldsOn
<1>4. TypeOK /\ k = <<lane[a].org, lane[a].current>>
  BY <1>1, <1>3 DEF ReleaseInv
<1>5. QED BY <1>3, <1>4, OutcomeRows

OnlyFaultsAbandon ==
    [][faults' = faults =>
         \A a \in Agent, k \in Key :
             a[1] \notin Manual /\ k[1] \notin Unresolvable => Released(a, k)]_vars

(* Whatever has failed before and fails elsewhere, a drain or a targeted   *)
(* run leaves a row running only by a step that is itself a failure, or    *)
(* when the organisation's domain cannot be resolved (run                  *)
(* SchedulerUnresolved).                                                   *)
THEOREM AbandonedByFaults == Spec => OnlyFaultsAbandon
<1> DEFINE A == faults' = faults =>
                  \A a \in Agent, k \in Key :
                      a[1] \notin Manual /\ k[1] \notin Unresolvable => Released(a, k)
<1>1. Init => ReleaseInv
  BY ReleaseInduction
<1>2. ReleaseInv /\ [Next]_vars => ReleaseInv'
  BY ReleaseInduction
<1>3. ReleaseInv /\ [Next]_vars => A
  BY ReleaseStep
<1>4. QED BY <1>1, <1>2, <1>3, PTL DEF Spec, OnlyFaultsAbandon

(* So without failures, manual runs and unresolvable organisations, every  *)
(* row a lane lets go of has its outcome.                                  *)
THEOREM ReleaseRecorded ==
    ASSUME MaxFaults = 0, Manual = {}, Unresolvable = {}
    PROVE  Spec => ReleaseIsRecorded
<1>1. Init => ReleaseInv
  BY ReleaseInduction
<1>2. ReleaseInv /\ [Next]_vars => ReleaseInv'
  BY ReleaseInduction
<1> DEFINE A == \A a \in Agent, k \in Key : Released(a, k)
<1>3. ReleaseInv /\ [Next]_vars => A
  <2> SUFFICES ASSUME ReleaseInv, [Next]_vars PROVE A
    OBVIOUS
  <2>1. faults' = faults
    BY NoFaults DEF ReleaseInv
  <2>2. QED BY <2>1, ReleaseStep
<1>4. QED BY <1>1, <1>2, <1>3, PTL DEF Spec, ReleaseIsRecorded, Released
=============================================================================

------------------------- MODULE ObservationScheduler -------------------------
(***************************************************************************)
(* The observation scheduler (OBS-103) draining observation_states.        *)
(*                                                                         *)
(* A worker is one invocation slot.  A worker outside Targeted runs        *)
(* drainDueStates (drain.js, started by the 15-minute cron): it reads a    *)
(* page of due rows, and its lanes (runPool's runners) take the page's     *)
(* organisations, claim their due types one by one and observe what they   *)
(* claimed.  A worker in Targeted runs runScheduler (run-scheduler.js, the *)
(* operator's tool): one lane, and one instant, taken when the run starts, *)
(* in every claim.  A worker in Manual may also run the operator's other   *)
(* tool, run-dns-observation-cli.js, which observes all types of the named *)
(* organisations with no claim and inserts the rows it misses.  A          *)
(* provisioner inserts rows beside all that.                               *)
(*                                                                         *)
(* Every database call and every collection is a step of its own, so the   *)
(* steps of any number of lanes interleave, the clock advances between     *)
(* them, and a crash or a failed call may come between any two.  Each      *)
(* conditional or unconditional UPDATE is one atomic step, as in Postgres. *)
(***************************************************************************)
EXTENDS ObservationStates

CONSTANTS
    Worker, Lane,
    Targeted,         \* the workers that run runScheduler instead of drainDueStates
    Manual,           \* those of them that may run the manual CLI instead
    Missing,          \* the keys that have no row at first
    Unresolvable,     \* organisations for which resolveDomain fails
    PageSize,         \* pageSize
    MaxStatesPerRun,  \* maxStatesPerRun, the work budget
    RuntimeBudget,    \* runtimeBudgetMs, in ticks
    None              \* "no type": not a member of Type

CONSTANTS \* Bounds on the behaviours considered.
    HoldBound,   \* ticks from the start of an organisation's claims to the end of its observations
    MaxAttempts, \* failed observations of a row in a row (a forced run never waits to retry)
    MaxFaults,   \* failed calls, crashes and suspensions
    MaxClock

Agent == Worker \X Lane

ASSUME WorkerAssumption ==
    /\ IsFiniteSet(Worker) /\ IsFiniteSet(Lane)
    /\ Targeted \subseteq Worker /\ Manual \subseteq Targeted
    /\ Missing \subseteq Key
    /\ Unresolvable \subseteq Org
    /\ None \notin Type \cup Agent
ASSUME BoundAssumption ==
    /\ PageSize \in Nat /\ MaxStatesPerRun \in Nat /\ RuntimeBudget \in Nat
    /\ HoldBound \in Nat /\ MaxAttempts \in Nat /\ MaxFaults \in Nat /\ MaxClock \in Nat \ {0}

VARIABLES
    clock,   \* the wall clock every process reads
    states,  \* the observation_states table
    wake,    \* the drain loop of each worker
    lane,    \* the lanes of each worker's pool
    faults   \* failed calls, crashes and suspensions so far
vars == <<clock, states, wake, lane, faults>>

(* What a page row carries that orders the pool: its key, whether it comes *)
(* from the stale-claim query, and the instant that query sorts by.        *)
PageEntry == [key: Key, stale: BOOLEAN, at: Nat]

WakeState ==
    [pc: {"idle", "loop", "pool"}, startedAt: Nat, page: SUBSET PageEntry,
     claimed: Nat, claimedBefore: Nat, stoppedMidPage: BOOLEAN,
     manual: BOOLEAN]  \* a run of the manual CLI

LaneState ==
    [pc: {"free", "claim", "read", "insert", "collect", "write"}, org: Org \cup {Null},
     types: SUBSET Type,      \* still to be claimed
     held: SUBSET Type,       \* claimed (by a manual run: named) and not yet observed
     since: Nat, now: Nat,    \* when the claims began, and the instant they write
     current: Type \cup {None}, attemptsRead: Nat, ok: BOOLEAN, at: Nat]

Idle == [pc |-> "idle", startedAt |-> 0, page |-> {}, claimed |-> 0,
         claimedBefore |-> 0, stoppedMidPage |-> FALSE, manual |-> FALSE]

Free == [pc |-> "free", org |-> Null, types |-> {}, held |-> {}, since |-> 0, now |-> 0,
         current |-> None, attemptsRead |-> 0, ok |-> FALSE, at |-> 0]

(* Rows are provisioned with their first slot (provision-states.js), or    *)
(* were inserted by observeOneSignal, without one.                         *)
Init ==
    /\ clock = 1
    /\ \E unscheduled \in SUBSET Key :
         states = [k \in Key |-> IF k \in Missing THEN NoRow
                                 ELSE IF k \in unscheduled THEN CreatedState(0)
                                 ELSE InitialState(k, 0, 0)]
    /\ wake = [w \in Worker |-> Idle]
    /\ lane = [a \in Agent |-> Free]
    /\ faults = 0

-----------------------------------------------------------------------------
(* Reading a page of due work.                                             *)

DueEntry(k)   == [key |-> k, stale |-> FALSE, at |-> states[k].nextDueAt]
StaleEntry(k) == [key |-> k, stale |-> TRUE, at |-> states[k].updatedAt]

EntryBefore(e, f) ==
    \/ ~e.stale /\ f.stale
    \/ e.stale = f.stale /\ e.at < f.at
    \/ e.stale = f.stale /\ e.at = f.at /\ e.key[1] < f.key[1]

(* P is what a query on E returns with .order(...).limit(n).               *)
FirstOf(P, E, n) ==
    /\ P \subseteq E
    /\ Cardinality(P) <= n
    /\ P # E => Cardinality(P) = n
    /\ \A e \in P, f \in E \ P : ~EntryBefore(f, e)

Due   == {DueEntry(k) : k \in {j \in Key : IsDue(states[j], clock)}}
Stale == {StaleEntry(k) : k \in {j \in Key : IsStale(states[j], clock)}}

IsDuePage(P) ==
    /\ FirstOf(P \cap Due, Due, PageSize)
    /\ FirstOf(P \cap Stale, Stale, PageSize - Cardinality(P \cap Due))

OverBudget(w) == w \notin Targeted /\ wake[w].claimed >= MaxStatesPerRun
OutOfTime(w)  == w \notin Targeted /\ clock - wake[w].startedAt >= RuntimeBudget

Fault == faults < MaxFaults /\ faults' = faults + 1

(* The cron starts a drain; an earlier one may still be running elsewhere. *)
StartDrain(w) ==
    /\ w \notin Targeted
    /\ wake[w].pc = "idle"
    /\ wake' = [wake EXCEPT ![w] = [Idle EXCEPT !.pc = "loop", !.startedAt = clock]]
    /\ UNCHANGED <<clock, states, lane, faults>>

(* runScheduler reads the candidates once, keeps the chosen organisations  *)
(* (--org, --limit or --production) with their due types, or with          *)
(* --force-org all types of the named ones, due or not.                    *)
StartTargeted(w) ==
    /\ w \in Targeted
    /\ wake[w].pc = "idle"
    /\ \E O \in SUBSET Org \ {{}}, P \in {Due \cup Stale, {DueEntry(k) : k \in Key}} :
         wake' = [wake EXCEPT ![w] =
                    [Idle EXCEPT !.pc = "pool", !.startedAt = clock,
                                 !.page = {e \in P : e.key[1] \in O}]]
    /\ UNCHANGED <<clock, states, lane, faults>>

(* The manual CLI takes the named organisations with all their types,      *)
(* whether they have a row or not.                                         *)
StartManual(w) ==
    /\ w \in Manual
    /\ wake[w].pc = "idle"
    /\ \E O \in SUBSET Org \ {{}} :
         wake' = [wake EXCEPT ![w] =
                    [Idle EXCEPT !.pc = "pool", !.startedAt = clock, !.manual = TRUE,
                                 !.page = {DueEntry(k) : k \in O \X Type}]]
    /\ UNCHANGED <<clock, states, lane, faults>>

StopDrain(w) ==
    /\ wake[w].pc = "loop"
    /\ OverBudget(w) \/ OutOfTime(w)
    /\ wake' = [wake EXCEPT ![w] = Idle]
    /\ UNCHANGED <<clock, states, lane, faults>>

(* An empty page means the population is drained.                          *)
FindDuePage(w) ==
    /\ wake[w].pc = "loop"
    /\ ~OverBudget(w) /\ ~OutOfTime(w)
    /\ \E P \in SUBSET (Due \cup Stale) :
         /\ IsDuePage(P)
         /\ wake' = [wake EXCEPT ![w] =
                       IF P = {} THEN Idle
                       ELSE [@ EXCEPT !.pc = "pool", !.page = P, !.stoppedMidPage = FALSE,
                                      !.claimedBefore = wake[w].claimed]]
    /\ UNCHANGED <<clock, states, lane, faults>>

(* The page query fails: the invocation rejects and the process exits.     *)
FindDuePageFails(w) ==
    /\ wake[w].pc = "loop"
    /\ ~OverBudget(w) /\ ~OutOfTime(w)
    /\ wake' = [wake EXCEPT ![w] = Idle]
    /\ Fault
    /\ UNCHANGED <<clock, states, lane>>

-----------------------------------------------------------------------------
(* The pool: lanes take organisations in page order and claim their types. *)

(* The organisation the pool hands out next: the page's order for a drain, *)
(* the operator's for a targeted run, which is strictly sequential.        *)
NextOrg(w, o) ==
    /\ \E e \in wake[w].page : e.key[1] = o
    /\ w \notin Targeted =>
         \E e \in wake[w].page : e.key[1] = o /\ \A f \in wake[w].page : ~EntryBefore(f, e)
    /\ w \in Targeted => \A b \in Agent : b[1] = w => lane[b].pc = "free"

WithoutOrg(P, o) == {e \in P : e.key[1] # o}

(* Mutant: a lane takes its organisation without looking at the budget.    *)
TakeOverBudget(a, o) ==
    LET w == a[1] IN
    /\ wake[w].pc = "pool"
    /\ lane[a].pc = "free"
    /\ NextOrg(w, o)
    /\ lane' = [lane EXCEPT ![a] =
                  [Free EXCEPT !.pc = "claim", !.org = o, !.since = clock, !.now = clock,
                               !.types = {t \in Type : \E e \in wake[w].page : e.key = <<o, t>>}]]
    /\ wake' = [wake EXCEPT ![w].page = WithoutOrg(@, o)]
    /\ UNCHANGED <<clock, states, faults>>

(* A lane takes it, unless a budget is spent, with its types on the page.  *)
TakeOrganisation(a, o) ==
    LET w == a[1] IN
    /\ wake[w].pc = "pool" /\ ~wake[w].manual
    /\ lane[a].pc = "free"
    /\ NextOrg(w, o)
    /\ ~OverBudget(w) /\ ~OutOfTime(w)
    /\ lane' = [lane EXCEPT ![a] =
                  [Free EXCEPT !.pc = "claim", !.org = o, !.since = clock,
                               !.now = IF w \in Targeted THEN wake[w].startedAt ELSE clock,
                               !.types = {t \in Type : \E e \in wake[w].page : e.key = <<o, t>>}]]
    /\ wake' = [wake EXCEPT ![w].page = WithoutOrg(@, o)]
    /\ UNCHANGED <<clock, states, faults>>

(* The manual CLI goes straight to the observation of all types, unless    *)
(* the organisation's domain cannot be resolved.                           *)
TakeUnclaimed(a, o) ==
    LET w == a[1] IN
    /\ w \in Manual
    /\ wake[w].pc = "pool" /\ wake[w].manual
    /\ lane[a].pc = "free"
    /\ NextOrg(w, o)
    /\ lane' = IF o \in Unresolvable THEN lane
               ELSE [lane EXCEPT ![a] = [Free EXCEPT !.pc = "read", !.org = o, !.since = clock,
                                                     !.now = clock, !.held = Type]]
    /\ wake' = [wake EXCEPT ![w].page = WithoutOrg(@, o)]
    /\ UNCHANGED <<clock, states, faults>>

(* Mutant: the pool's cursor stays on a skipped organisation.              *)
SkipWithoutAdvancing(a, o) ==
    LET w == a[1] IN
    /\ wake[w].pc = "pool"
    /\ lane[a].pc = "free"
    /\ NextOrg(w, o)
    /\ OverBudget(w) \/ OutOfTime(w)
    /\ wake' = [wake EXCEPT ![w].stoppedMidPage = TRUE]
    /\ UNCHANGED <<clock, states, lane, faults>>

(* A lane that finds the budget spent skips the organisation.              *)
SkipOrganisation(a, o) ==
    LET w == a[1] IN
    /\ wake[w].pc = "pool"
    /\ lane[a].pc = "free"
    /\ NextOrg(w, o)
    /\ OverBudget(w) \/ OutOfTime(w)
    /\ wake' = [wake EXCEPT ![w].page = WithoutOrg(@, o), ![w].stoppedMidPage = TRUE]
    /\ UNCHANGED <<clock, states, lane, faults>>

(* One store.claim(): a single conditional UPDATE.                         *)
Claim(a, t) ==
    LET k == <<lane[a].org, t>> IN
    /\ lane[a].pc = "claim"
    /\ t \in lane[a].types
    /\ IF Claimable(states[k], lane[a].now)
       THEN /\ states' = [states EXCEPT ![k] = ClaimedState(@, lane[a].now)]
            /\ lane' = [lane EXCEPT ![a].types = @ \ {t}, ![a].held = @ \cup {t}]
       ELSE /\ lane' = [lane EXCEPT ![a].types = @ \ {t}]
            /\ UNCHANGED states
    /\ UNCHANGED <<clock, wake, faults>>

(* store.claim() throws, its UPDATE applied or not: the whole batch is     *)
(* counted as failed and what it had claimed stays running.  A drain's     *)
(* lane catches the error and goes on; it aborts a targeted run.           *)
ClaimFails(a, t) ==
    LET k == <<lane[a].org, t>> IN
    /\ lane[a].pc = "claim"
    /\ t \in lane[a].types
    /\ \/ UNCHANGED states
       \/ /\ Claimable(states[k], lane[a].now)
          /\ states' = [states EXCEPT ![k] = ClaimedState(@, lane[a].now)]
    /\ lane' = [lane EXCEPT ![a] = Free]
    /\ wake' = IF a[1] \in Targeted THEN [wake EXCEPT ![a[1]] = Idle] ELSE wake
    /\ Fault
    /\ UNCHANGED clock

(* All types tried: count the claims, and observe them unless there are    *)
(* none or the organisation's domain cannot be resolved.                   *)
FinishClaims(a) ==
    /\ lane[a].pc = "claim"
    /\ lane[a].types = {}
    /\ wake' = [wake EXCEPT ![a[1]].claimed = @ + Cardinality(lane[a].held)]
    /\ lane' = [lane EXCEPT ![a] =
                  IF lane[a].held = {} \/ lane[a].org \in Unresolvable
                  THEN Free ELSE [@ EXCEPT !.pc = "read"]]
    /\ UNCHANGED <<clock, states, faults>>

-----------------------------------------------------------------------------
(* observeOneSignal for each type: read the row or insert it, collect,     *)
(* write.                                                                  *)

(* Mutant: the next signal reuses the row read for the last one.           *)
DoneWithoutReading(a, t) ==
    IF lane[a].held = {t} THEN Free
    ELSE [lane[a] EXCEPT !.pc = "collect", !.held = @ \ {t}]

(* The lane after it is done, one way or the other, with type t.           *)
DoneWith(a, t) ==
    IF lane[a].held = {t} THEN Free
    ELSE [lane[a] EXCEPT !.pc = "read", !.held = @ \ {t}, !.current = None]

ReadState(a, t) ==
    /\ lane[a].pc = "read"
    /\ t \in lane[a].held
    /\ lane' = [lane EXCEPT
                  ![a].pc = IF states[<<lane[a].org, t>>] = NoRow THEN "insert" ELSE "collect",
                  ![a].current = t,
                  ![a].attemptsRead = states[<<lane[a].org, t>>].attemptCount]
    /\ UNCHANGED <<clock, states, wake, faults>>

(* The read fails: ok = false is returned and nothing is written.          *)
ReadStateFails(a, t) ==
    /\ lane[a].pc = "read"
    /\ t \in lane[a].held
    /\ lane' = [lane EXCEPT ![a] = DoneWith(a, t)]
    /\ Fault
    /\ UNCHANGED <<clock, states, wake>>

(* Mutant: an upsert where the code inserts.                               *)
Upsert(a) ==
    /\ lane[a].pc = "insert"
    /\ states' = [states EXCEPT ![<<lane[a].org, lane[a].current>>] = CreatedState(clock)]
    /\ lane' = [lane EXCEPT ![a].pc = "collect"]
    /\ UNCHANGED <<clock, wake, faults>>

(* The missing row is inserted, unless someone else has done so since the  *)
(* read: the UNIQUE constraint then makes store.insert() throw, and this   *)
(* type's observation ends there.                                          *)
Insert(a) ==
    LET k == <<lane[a].org, lane[a].current>> IN
    /\ lane[a].pc = "insert"
    /\ IF states[k] = NoRow
       THEN /\ states' = [states EXCEPT ![k] = CreatedState(clock)]
            /\ lane' = [lane EXCEPT ![a].pc = "collect"]
       ELSE /\ lane' = [lane EXCEPT ![a] = DoneWith(a, lane[a].current)]
            /\ UNCHANGED states
    /\ UNCHANGED <<clock, wake, faults>>

(* The insert fails otherwise, its row written or not.                     *)
InsertFails(a) ==
    LET k == <<lane[a].org, lane[a].current>> IN
    /\ lane[a].pc = "insert"
    /\ \/ UNCHANGED states
       \/ states[k] = NoRow /\ states' = [states EXCEPT ![k] = CreatedState(clock)]
    /\ lane' = [lane EXCEPT ![a] = DoneWith(a, lane[a].current)]
    /\ Fault
    /\ UNCHANGED <<clock, wake>>

(* The collection ends, observed or failed, at this instant.               *)
Collect(a, ok) ==
    /\ lane[a].pc = "collect"
    /\ ok \/ lane[a].attemptsRead < MaxAttempts
    /\ lane' = [lane EXCEPT ![a].pc = "write", ![a].ok = ok, ![a].at = clock]
    /\ UNCHANGED <<clock, states, wake, faults>>

(* The evidence was written but its read-back failed: collectDnsSignal     *)
(* answers observed with no factsRow, and using it throws.  The exception  *)
(* is caught per signal; nothing is written to the row.                    *)
ReadBackFails(a) ==
    /\ lane[a].pc = "collect"
    /\ lane' = [lane EXCEPT ![a] = DoneWith(a, lane[a].current)]
    /\ Fault
    /\ UNCHANGED <<clock, states, wake>>

(* Mutant: only a success is written; a failure is merely logged.          *)
WriteSuccessOnly(a) ==
    LET t == lane[a].current
        k == <<lane[a].org, t>> IN
    /\ lane[a].pc = "write"
    /\ states' = IF lane[a].ok
                 THEN [states EXCEPT ![k] = SuccessState(k, @, lane[a].at, clock)] ELSE states
    /\ lane' = [lane EXCEPT ![a] = DoneWith(a, t)]
    /\ UNCHANGED <<clock, wake, faults>>

(* store.update(): unconditional, whoever the row now belongs to.          *)
WriteOutcome(a) ==
    LET t == lane[a].current
        k == <<lane[a].org, t>> IN
    /\ lane[a].pc = "write"
    /\ states' = [states EXCEPT ![k] =
                    IF lane[a].ok THEN SuccessState(k, @, lane[a].at, clock)
                    ELSE FailureState(k, @, lane[a].attemptsRead, lane[a].at, clock)]
    /\ lane' = [lane EXCEPT ![a] = DoneWith(a, t)]
    /\ UNCHANGED <<clock, wake, faults>>

WriteOutcomeFails(a) ==
    /\ lane[a].pc = "write"
    /\ lane' = [lane EXCEPT ![a] = DoneWith(a, lane[a].current)]
    /\ Fault
    /\ UNCHANGED <<clock, states, wake>>

(* The pool has run dry: stop if a lane met the budget or if the page gave *)
(* no new claim, otherwise fetch the next page.                            *)
FinishPage(w) ==
    /\ wake[w].pc = "pool"
    /\ wake[w].page = {}
    /\ \A a \in Agent : a[1] = w => lane[a].pc = "free"
    /\ wake' = [wake EXCEPT ![w] =
                  IF @.stoppedMidPage \/ @.claimed = @.claimedBefore \/ w \in Targeted
                  THEN Idle ELSE [@ EXCEPT !.pc = "loop"]]
    /\ UNCHANGED <<clock, states, lane, faults>>

-----------------------------------------------------------------------------
(* The environment.                                                        *)

(* The process dies: its lanes are gone, the rows they held stay running.  *)
Crash(w) ==
    /\ wake[w].pc # "idle"
    /\ wake' = [wake EXCEPT ![w] = Idle]
    /\ lane' = [a \in Agent |-> IF a[1] = w THEN Free ELSE lane[a]]
    /\ Fault
    /\ UNCHANGED <<clock, states>>

(* An operator suspends a row, claimed or not.  No code of the repository  *)
(* writes this status; every query and the claim honour it.                *)
Suspend(k) ==
    /\ states[k] # NoRow
    /\ states[k].status # "suspended"
    /\ states' = [states EXCEPT ![k].status = "suspended", ![k].updatedAt = clock]
    /\ Fault
    /\ UNCHANGED <<clock, wake, lane>>

(* A provisioning run, started at or before this instant, inserts a row    *)
(* that is missing.  Its read of what exists decides nothing: an insert of *)
(* a row that has appeared since is refused and taken for success.         *)
Provision(k) ==
    /\ k[1] \notin Unresolvable
    /\ states[k] = NoRow
    /\ \E start \in 0..clock : states' = [states EXCEPT ![k] = InitialState(k, start, clock)]
    /\ UNCHANGED <<clock, wake, lane, faults>>

(* Time passes, but no further than HoldBound into the work of a live lane *)
Tick ==
    /\ clock < MaxClock
    /\ \A a \in Agent : lane[a].pc # "free" => clock < lane[a].since + HoldBound
    /\ clock' = clock + 1
    /\ UNCHANGED <<states, wake, lane, faults>>

LaneNext(a) ==
    \/ \E o \in Org : TakeOrganisation(a, o) \/ TakeUnclaimed(a, o) \/ SkipOrganisation(a, o)
    \/ \E t \in Type : Claim(a, t) \/ ClaimFails(a, t)
    \/ FinishClaims(a)
    \/ \E t \in Type : ReadState(a, t) \/ ReadStateFails(a, t)
    \/ Insert(a) \/ InsertFails(a)
    \/ \E ok \in BOOLEAN : Collect(a, ok)
    \/ ReadBackFails(a)
    \/ WriteOutcome(a) \/ WriteOutcomeFails(a)

WakeNext(w) ==
    \/ StartDrain(w) \/ StartTargeted(w) \/ StartManual(w)
    \/ StopDrain(w) \/ FindDuePage(w) \/ FindDuePageFails(w)
    \/ FinishPage(w) \/ Crash(w)

Next ==
    \/ \E a \in Agent : LaneNext(a)
    \/ \E w \in Worker : WakeNext(w)
    \/ \E k \in Key : Suspend(k) \/ Provision(k)
    \/ Tick

Spec == Init /\ [][Next]_vars

(* Fairness: the clock advances, the cron keeps firing, and a live process *)
(* executes its next step.  No step that is a failure is ever due.         *)
LaneProgress(a) ==
    \/ \E o \in Org : TakeOrganisation(a, o) \/ TakeUnclaimed(a, o) \/ SkipOrganisation(a, o)
    \/ \E t \in Type : Claim(a, t) \/ ReadState(a, t)
    \/ \E ok \in BOOLEAN : Collect(a, ok)
    \/ FinishClaims(a)
    \/ Insert(a)
    \/ WriteOutcome(a)

WakeProgress(w) == StartDrain(w) \/ StopDrain(w) \/ FindDuePage(w) \/ FinishPage(w)

FairSpec ==
    /\ Spec
    /\ WF_vars(Tick)
    /\ \A w \in Worker : WF_vars(WakeProgress(w))
    /\ \A a \in Agent : WF_vars(LaneProgress(a))
-----------------------------------------------------------------------------
(* Properties.                                                             *)

Holds(a, k) == lane[a].org = k[1] /\ k[2] \in lane[a].held

(* Every row keeps a legal status (052's CHECK) and a non-negative attempt *)
(* count, and a lane's program counter agrees with what it holds.          *)
TypeOK ==
    /\ clock \in Nat
    /\ states \in [Key -> ObservationState]
    /\ wake \in [Worker -> WakeState]
    /\ lane \in [Agent -> LaneState]
    /\ faults \in Nat
    /\ \A a \in Agent :
         /\ lane[a].pc # "free" => lane[a].org \in Org
         /\ lane[a].pc \in {"read", "insert", "collect", "write"} => lane[a].types = {}
         /\ lane[a].pc \in {"insert", "collect", "write"} => lane[a].current \in lane[a].held

(* Of all lanes of all overlapping wakes, at most one observes a row:      *)
(* store.claim() keeps a second one out until the lease lapses, and the    *)
(* lease outlives the holder (HoldBound <= Lease).                         *)
ExclusiveHolder ==
    \A a, b \in Agent, k \in Key : Holds(a, k) /\ Holds(b, k) => a = b

(* The attempt_count observeOneSignal read before the network collection   *)
(* is still the row's when it is incremented and written back: no failure  *)
(* is lost from the count that decides when fast retries are exhausted.    *)
ReadIsFresh ==
    \A a \in Agent : lane[a].pc \in {"collect", "write"} =>
        lane[a].attemptsRead = states[<<lane[a].org, lane[a].current>>].attemptCount

(* next_due_at is the one the last recorded outcome calls for: the row's   *)
(* slot after a success, a retry or (retries exhausted) the slot after a   *)
(* failure; a never-observed row waits for its first slot or is due now.   *)
DueFollowsOutcome(o, t, row, now) ==
    \/ /\ row.attemptCount = 0
       /\ row.lastObservedAt # Null
       /\ row.nextDueAt = ComputeNextDueAt(o, t, row.lastObservedAt)
    \/ /\ row.attemptCount > 0
       /\ row.nextDueAt = ComputeRetryNextDueAt(o, t, row.lastFailureAt, row.attemptCount)
    \/ /\ row.attemptCount = 0
       /\ row.lastObservedAt = Null
       /\ row.nextDueAt = Null \/ \E start \in 0..now : row.nextDueAt = ComputeNextDueAt(o, t, start)

(* Whatever the interleaving of claims, late writers and crashes, a row is *)
(* due when its last recorded outcome says: next_due_at, attempt_count and *)
(* the two outcome instants never come from different outcomes.            *)
DueMatchesOutcome == \A k \in Key : DueFollowsOutcome(k[1], k[2], states[k], clock)

(* Provisioning "never duplicates or deletes, never disturbs" existing     *)
(* rows (provision-states.js), and neither does the manual CLI's insert,   *)
(* made on the strength of a read that may be outdated: a row stays, and   *)
(* once it has been observed it never loses that.                          *)
HistoryIsKept ==
    [][\A k \in Key :
        /\ states[k] # NoRow => states'[k] # NoRow
        /\ states[k].lastObservedAt # Null => states'[k].lastObservedAt # Null]_vars

(* The lanes, whatever their number and overlap, are serial observers: the *)
(* interleaved claim, read, collection and write of a row amount to one    *)
(* atomic outcome per holder, and no outcome is lost or goes back in time. *)
Holder(k) == IF \E a \in Agent : Holds(a, k) THEN CHOOSE a \in Agent : Holds(a, k) ELSE None

Serial == INSTANCE SerialObservation WITH
    Row <- Key, Observer <- Agent, NoOne <- None, Instant <- 0..MaxClock,
    holder <- [k \in Key |-> Holder(k)],
    attempts <- [k \in Key |-> states[k].attemptCount],
    observed <- [k \in Key |-> states[k].lastObservedAt]

ObservesSerially == Serial!Spec

(* A row is not observed again before the slot its last observation set    *)
(* ("due once per UTC calendar day").                                      *)
OncePerSlot ==
    [][\A k \in Key :
        states'[k].lastObservedAt # states[k].lastObservedAt /\ states[k].lastObservedAt # Null
        => states'[k].lastObservedAt >= ComputeNextDueAt(k[1], k[2], states[k].lastObservedAt)]_vars

(* drain.js: the work budget is overshot by at most the types of the       *)
(* organisations whose lanes had passed their check before it tripped.     *)
BudgetOvershootBounded ==
    \A w \in Worker \ Targeted : MaxStatesPerRun > 0 =>
        wake[w].claimed < MaxStatesPerRun + Cardinality(Lane) * Cardinality(Type)

(* run-drain-cli.js: a failed observation is a recorded outcome that       *)
(* reschedules as a retry, so a live lane lets go of a row it has claimed  *)
(* only once the row is no longer running.                                 *)
ReleaseIsRecorded ==
    [][\A a \in Agent, k \in Key :
        /\ Holds(a, k) /\ k[2] \notin lane'[a].held
        /\ wake'[a[1]].pc # "idle"
        => states'[k].status # "running"]_vars

(* Every wake ends, by draining, by a budget or by contention.             *)
WakeEnds == \A w \in Worker : wake[w].pc # "idle" ~> wake[w].pc = "idle"

(* A row left running by a crash or a failed call is taken over, as long   *)
(* as its lease lapses before the horizon.                                 *)
Orphan(k) ==
    /\ states[k].status = "running" /\ states[k].updatedAt + Lease < MaxClock
    /\ \A a \in Agent : ~Holds(a, k)
OrphanTakenOver == \A k \in Key : Orphan(k) ~> ~Orphan(k)
=============================================================================

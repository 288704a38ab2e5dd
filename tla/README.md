# A TLA+ model of the soterius observation platform

This directory holds TLA+ specifications of the parts of `soterius-backend` where
concurrency, failure and time decide whether the data is right, the TLC instances that
check them, and TLAPS proofs of the properties that matter most.

Five parts are modelled: the **observation scheduler** with everything that writes the
`observation_states` table, the **collection session** behind every observation, the
**on-demand scan** with its guards, the **FCA package cycle**, and the **acquisition
ledger**.  The rest of the system is surveyed below, with the reason it is left out.

Contents: [inventory](#the-system) · [modules](#the-modules) ·
[model and code](#how-the-model-corresponds-to-the-code) · [runs](#what-tlc-checks) ·
[fairness](#fairness) · [proofs](#what-is-proved) · [findings](#where-the-code-and-its-text-disagree) ·
[not modelled](#what-is-not-modelled) · [plan](#plan)

## The system

The platform observes the public DNS and web posture of organisations, stores every
observation as evidence, scores it, and derives trust profiles.  Everything durable is in
Supabase (Postgres through its REST client, so without multi-statement transactions) or,
for the regulators' registers, in append-only files on a volume.

| component (src/) | state it keeps | operations | what is hard |
|---|---|---|---|
| Due-instant grid (`observatory/observation-state/shard-assignment.js`, `cadence-policy.js`) | none | next daily or weekly slot of an organisation, retry instant | boundaries: on a slot, before the anchor, retries exhausted |
| `observation_states` store (`observation-state/store.js`, `observation-state.js`) | one row per organisation and type: status, updated_at, next_due_at, attempt_count, last outcome | insert, conditional claim, unconditional update | the claim is the only mutual exclusion in the system |
| Drain (`observation-scheduler/drain.js`, `claim.js`, `due-selection.js`) | in memory: budgets, page, pool cursor | page of due rows, pool of 8 lanes, claim, observe | overlapping wakes, lease expiry, crashes, budgets shared by lanes |
| Operator run (`run-scheduler.js`) | in memory: plan, one instant | select, force, claim, observe, sequentially | runs beside the drain with a claim instant of its own |
| Observation of an organisation (`observe-organisation.js`, `dns-signal-collection.js`) | none | read row or insert it, collect, write success or failure | read before and write after a long network call; failures in between |
| Manual observation CLI (`run-dns-observation-cli.js`) | none | observes without claiming | races all of the above |
| Provisioning (`provision-states.js`, cohort files) | none | insert missing rows with their first slot | concurrent provisioners, and observers that insert the same row |
| Collection sessions (`observatory/collection/*`) | `collection_runs`, `collection_run_items`, evidence tables | open or resume, per-domain guard, collect with retry, insert, mark, emit, terminal state | crash between any two writes, two processes on one run, ledger errors ignored |
| Events (`observatory/events/*`) | append-only event table | record | no idempotency key |
| Observation sessions and public-scan guards (`observatory/session`, `api/middleware/publicScan*`) | `observation_sessions` | create, transition; count and admit | check-then-act, leaked sessions |
| On-demand pipeline (`observatory/on-demand`) | a session | ten signals in parallel, then close | crash leaves the session running |
| Acquisition (`acquisition/processing-*.js`, `candidate-processor.js`, `acquire-fca.js`, `resolve-ambiguous.js`, `enrich-registry.js`) | NDJSON ledger and registry, an index per process | claim, transition, register, recover, rewrite | exactly once over crashes, torn appends and a second process |
| FCA packages (`collection/sources/fca/*`, `acquisition/workers/fca-observatory-worker.js`) | staged and committed directories, commit ledger, package.json, seal | collect, commit, finish, seal | crash between rename and append, between collected and sealed |
| SRA worker (`acquisition/workers/sra-worker.js`) | checkpoint, health file | poll, resume | retries and restarts |
| Trust profiles (`trust-intelligence/*`) | append-only instances | sweep, regenerate on demand | staleness judged before a long generation |
| Collectors, quality models, authority, API, projections, tooling | evidence, scores, files | parsing, scoring, reporting | mostly pure data or I/O |

How they interact: the cron starts a drain, which selects rows of `observation_states`,
claims them, and calls the DNS observation; that collects, inserts evidence and a score, and
writes the outcome back to the row.  Operator tools do the same beside the cron.  National
collections open a collection run per signal, with a ledger item per domain and an event per
observation.  The public scan opens a session and runs the on-demand pipeline, whose resilient
signals are collection sessions of one domain; trust profiles are generated from the evidence.
Acquisition and the FCA and SRA workers feed the registry the population is provisioned
from, through files only.

What makes each part correct:

- *Grid*: a due instant is the first point of the organisation's own grid strictly after
  the completion; no drift.
- *Store and drain*: at most one observer of a row; no recorded outcome lost; due instant,
  attempt count and outcome instants always of the same outcome; not observed twice in a
  slot; budgets bounded; every wake ends; abandoned rows are taken over; no insert takes a
  row's history away.
- *Collection session*: at most one observation of a domain per run, no event without an
  observation, a run COMPLETED only if every intended domain was collected, a terminal state
  that never changes.
- *Sessions and guards*: admitted scans stay near the ceiling, a domain is not scanned twice
  within its cooldown, a completed session tells the truth, a place taken is given back.
- *Acquisition*: a company is registered at most once, none is in flight for nobody, and what
  the ledger calls complete is in the registry.
- *FCA packages*: what the ledger names is there; a sealed package is complete, describes
  itself and never changes; an interrupted one is eventually sealed.
- *Trust profiles*: the current instance is never older than the one it replaced.

## The modules

| module | what it is |
|---|---|
| `ShardAssignment` | the due-instant functions, over constants for the grid and the hashes; the reference `IsNextOnGrid` |
| `ObservationStates` | a row of `observation_states`: its shape, `IsDue`, `IsStale`, `Claimable`, and what is written into it |
| `ObservationScheduler` | drains, operator runs, the manual CLI, provisioners, their lanes, the clock, crashes |
| `SerialObservation` | the abstract specification of the scheduler: a row has at most one observer and its outcomes are atomic |
| `CollectionRun` | sessions of one run label: resilient ones over the progress ledger, and one-pass ones |
| `PublicScan` | requests, both guards, the session table and the on-demand pipeline |
| `CollectionProgramme` | the abstract specification of the sessions: runs are opened once, filled while open, closed once, with counts their Observations bear out |
| `ScanRecord` | the abstract specification of the scans: sessions are created running, gather rows, are closed once with an account that is exact but for a masked pair, or lost |
| `FirmPackage` | the FCA worker's cycles over the packages on its volume |
| `EvidencePackage` | the abstract specification of the cycles: evidence is placed, entered, sealed; only a torn append takes anything away |
| `AcquisitionLedger` | `acquire-fca`, `resolve-ambiguous` and `enrich-registry` over the ledger and the registry file |
| `ShardAssignmentProofs`, `ObservationSchedulerProofs`, `SchedulerOutcomeProofs`, `SerialRefinementProofs`, `CollectionRunProofs`, `PublicScanProofs`, `FirmPackageProofs`, `AcquisitionLedgerProofs` | the theorems, each beside the module it is named after (`SchedulerOutcomeProofs`: when the scheduler observes and what it lets go of; `SerialRefinementProofs`: that it implements `SerialObservation`) |
| `MCObservationScheduler`, `MCCollectionRun`, `MCPublicScan`, `MCAcquisitionLedger` | slot tables, matches and symmetries of the checked instances; `FirmPackage` needs none |

`ObservationScheduler` EXTENDS `ObservationStates`, which EXTENDS `ShardAssignment`; it
INSTANCEs `SerialObservation` under a refinement mapping (`Serial`).  So does `CollectionRun`
with `CollectionProgramme` (`Programme`: sessions, items and lanes are gone, the tables remain),
`PublicScan` with `ScanRecord` (`Record`: requests, guards and signals are gone, the tables and
who is lost remain) and `FirmPackage` with `EvidencePackage` (`Evidence`: the worker is gone, and of the files what
a reader finds in them remains).  `PublicScan` takes a
signal's collection as one step, `CollectionRun` is what that step does; `FirmPackage` and
`AcquisitionLedger` share no state with the rest.

Definitions whose comment says *Mutant* are deliberate bugs (a dropped guard, an off-by-one,
a missing reset).  No specification uses them; substituting one for the definition it stands
beside must make TLC report the property paired with it in `PROJECT.json`.

## How the model corresponds to the code

In every module a step is one database call, one file operation or one network collection:
between any two of them other processes and the clock may act, and a process may die.
Variables a comment calls *history* are not in the code; no action reads them in a guard.
`faults`, `sessions`, `runs`, `requests` and `targeted` count for the bounds only.

### `ObservationScheduler`

A `Worker` is an invocation slot.  It runs `drainDueStates` again and again (the cron and
Railway's restart), or, in `Targeted`, `runScheduler`, or, in `Manual`, the manual CLI.  Each
worker has `Lane`s, the runners of `runPool`.

| variable | code |
|---|---|
| `states` | the table `observation_states`; `nextDueAt`, `lastObservedAt` and `lastFailureAt` are `Null` (0) for NULL; `NoRow` where there is no row |
| `wake[w]` | the locals of `drainDueStates`: loop or pool, `startedAt`, the grouped page not yet handed out, `statesClaimed`, `claimedBefore`, `stoppedMidPage` |
| `lane[a]` | the locals of one pool callback, of `claimDueObservationStates` and of `observeOneSignal` |
| `clock` | both the wall clock and the monotonic clock |

| actions | code |
|---|---|
| `StartDrain`, `StopDrain`, `FindDuePage`, `FindDuePageFails`, `FinishPage` | the loop of `drain.js` 70-173 |
| `StartTargeted` | selection and plan of `run-scheduler.js` 97-147 |
| `StartManual`, `TakeUnclaimed` | `run-dns-observation-cli.js`: all types of the named organisations, without a claim |
| `TakeOrganisation`, `SkipOrganisation` | a runner takes the next index; the budget check of line 125 |
| `Claim`, `ClaimFails`, `FinishClaims` | `claim.js` 50-63 and `store.claim`; the count and early returns of `drain.js` 135-151 |
| `ReadState`, `ReadStateFails`, `Insert`, `InsertFails` | the get-or-create of `observeOneSignal`; the UNIQUE constraint decides an insert against one made since the read |
| `Collect`, `ReadBackFails`, `WriteOutcome`, `WriteOutcomeFails` | the rest of `observeOneSignal` and the per-signal catch around it |
| `Provision` | one insert of `provision-states.js` |
| `Crash`, `Suspend`, `Tick` | the environment |

Where the model abstracts:

- *Time.*  An instant is a number of ticks from the epoch anchor (a UTC midnight, as 1970
  was); the hashes that place an organisation in the grid are `DailySlot`, `WeeklySlot`,
  `RetryOffset`.
- *Evidence.*  Pointers and versions are written together with `lastObservedAt` and never
  without it; `lastObservedAt` stands for them.
- *The page.*  Its due and stale queries are one atomic read.  Order is by due instant and
  organisation; ties among the types of an organisation are broken either way, and lanes
  claim and observe an organisation's types in any order, where the code's order is the
  page's.  The model allows every order the code takes.
- *Operator tools.*  Any non-empty set of organisations in any order stands for `--org`,
  `--limit` and `--production`; the query's overfetch limit of 500 is left out.
- *Failed calls.*  A failed claim or insert may or may not have been applied.  A failed final
  update is one that was not applied.
- *Rows.*  Those in `Missing` do not exist at first; the others were provisioned with their
  first slot or inserted by an observation without one, and `Init` allows both.  A provisioner
  reads and inserts in one step, for any earlier start of its run: an insert it makes on an
  outdated read fails on the UNIQUE constraint and changes nothing.
- *Suspension* is an external update: no code under `src/` writes it, every query honours it.

**The timing assumption.**  Nothing in the code bounds how long an organisation's claims and
collections take; the 12-minute budget is only tested between organisations, and the lease is
15 minutes.  `HoldBound` makes the assumption explicit: `Tick` never takes the clock further
than `HoldBound` past the start of a live lane's claims.  Exclusion needs
`HoldBound <= Lease`; the run `SchedulerTargeted` and the theorem `DueInstants` do without.

### `CollectionRun`

A process is an invocation slot of one run label; it runs `runResilientCollectionSession` or,
with `onePass`, `runCollectionSession`.  `runs`, `items`, `evidence` and `events` are the four
tables (evidence and events as counts per run and domain); `proc` and `lane` the locals of a
session and of `processDomain`.

- Opening: `StartSession` (find the newest RUNNING run of the label), `StartWithoutListing`
  (the listing failed, which the code takes for none), `OpenRun`, `OpenRunFails`,
  `StartOnePass`.  The list of domains is any of `Lists`, so that a resume may be given another.
- Per domain: `TakeDomain` or `CancelSession`, the guard's three ends `Adopt`, `GuardPasses`,
  `GuardFails`, `Retry` and `CollectFails` (retryable, permanent, unexpected), `Insert`,
  `InsertFails` (the row may be there all the same), `FailInsert`, `MarkCompleted`, `Emit`.
- Closing: `Tally` (with a listing that may fail half way), `ConcludeOnePass`, `CloseRun`.
- `Write`, the unchecked ledger update, may fail silently each time; so may `InitItems`,
  `ListOutstanding` and `Tally` read only a part.  `Crash` ends a session anywhere.

Abstracted: child rows and metadata are data; a collection touches no shared state, so it is
one step with the first call that follows it.  A failed upsert of the programme ends the session
before any state and is left out.  `shared` and `blind` remember the runs two live sessions
worked on, or whose guard could not read.

### `PublicScan`

A request is the handler of one POST together with the pipeline it leaves running.
`PostPublicScan` and `PostOnDemand` are the two routes, the second without guards;
`CheckDomainCooldown`, `CheckConcurrency` and their failing forms (which let the request pass)
the middleware; `CreateSession` the session row and the 202; `Collect`, `CollectPair`,
`PairGoesOn`, `Turn`, `ReadBackFails`, `Score`, `ScoreThrows` the signals; `Complete`, `Reject`, `RunDown` the end of
`Promise.all`, where the signals of a session already failed go on by themselves; `Restart`
kills every request at once.  A transition that fails leaves the session running
(`Transition`).

The pair has two kinds of exception.  One that leaves `runNationalTlsCertificate` (before the
handshake) fails both signals.  One in its `processDomain` (the handshake, the extraction, an
insert) is caught there, after neither, one or both of the rows, and leaves a result that names
no error of either row; the pipeline asks for nothing else, so both signals go on to their
read-back, find a row or not, and count as observed.  The session is then `masked`.

Abstracted: a resilient signal is collected in one step, its inside being `CollectionRun`;
scores, the CAA ancestor lookup and the answers sent are data; queued and cancelled sessions
are produced by no code path; the per-address limiter only refuses requests.  `seen`, `masked`,
`lost`, `peak` and `unguarded` remember what a request could read, in which sessions an
exception hid a missing row of the pair, which sessions nobody will close, and how many requests
were past the guards together or uncounted.

### `FirmPackage`

`package` is the volume: per package the status in `package.json`, what `firms/` holds, the
ledger's readable entries and what follows its last newline, the firms reports and manifest
are about, and `SEALED`.  `worker` is the cycle of the one replica: `Begin` to resolve or
create, per firm `Skip`, `Collect`, `CollectFails`, `Rename`, `Append`, `CommitFails`, then
`WriteReports`, `ReportsFail`, `WriteManifest`, `MarkCollected`, `Seal`, `LeaveUnsealed`,
`MarkSealed`.  `Die` happens between any two and within a write or a recursive removal: half a
ledger record, half a removed directory, an unreadable `package.json`, reports of two cycles.

Abstracted: staging is emptied before each firm and is no state; a firm's evidence is none,
partial or whole; the cohort is fixed.  `reports` are the three that are written every time:
`discoveries.json` is written only when there are discoveries, so one from an earlier cycle may
stay, and no property speaks of it.  `torn` counts the ledger appends that were cut short,
`flawed` the packages with a failed firm or an unfinished finish.

### `AcquisitionLedger`

A slot in `Tool` runs `acquire-fca` or `resolve-ambiguous`; `rewrite` is Phase 3
(`enrich-registry`), one at a time.  `ledger` and `registry` are the readable lines of the two
files, `tail` and `rtail` what follows their last newline: nothing, a part of a line, or a
whole line without its newline, which still counts when the file is read and is glued to the
next append, losing both.  `index` is what `openLedger` built and the process keeps up.

| actions | code |
|---|---|
| `Acquire`, `Resolve`, `Close` | the two `main`s: open the ledger once, take candidates, end |
| `Recover`, `List` | `resolve-ambiguous.js` 104-118 |
| `Pass`, `Create`, `Claim` | a candidate that is not taken; the one or two appends of `ledger.claim` |
| `Search`, `Enrich`, `Persist`, `PersistThrows`, `Fail`, `Confirm`, `Complete` | `processCandidate`, one append a step |
| `Die`, `DieAppending`, `DieRegistering` | a death between steps, or within an append to either file; an error of a ledger append, which nothing catches, is the same as a death |
| `Load`, `Truncate`, `WriteAll`, `CutShort` | Phase 3: read and deduplicate, then truncate and write, any number of times |

Abstracted: `no_match`, `discarded` and `research` are one state `dropped`, for nothing leads
out of any of them; what a search or the status gate answers is any legal transition; the
source names any company any number of times; Phase 3 keeps any one record of a firm where
the code keeps the first, and its SIC codes are data.  `truth` is the last state anyone
recorded of a company, `raced` the companies recorded by a tool that had missed a line or had
company in their processing, `unsure` those whose registry append threw after writing,
`orphaned` those in the hand of a dead process, `exposed` those whose record was torn, glued or
beside a rewrite.

## What TLC checks

| run | instance | result |
|---|---|---|
| `SchedulerOverlap` | 2 drains, 1 row, 6 ticks, 1 fault, `HoldBound = Lease` | `ExclusiveHolder`, `ReadIsFresh` and the refinement `ObservesSerially` hold |
| `SchedulerDrain` | 1 drain, 2 lanes, 3 organisations x 2 types, budget 2 | `BudgetOvershootBounded` and, without faults, `ReleaseIsRecorded` hold |
| `SchedulerCadence` | 1 drain, a daily and a weekly row, 5 ticks, 1 fault, fair | `TypeOK`, `DueMatchesOutcome`, `OncePerSlot`, `WakeEnds`, `OrphanTakenOver` hold |
| `SchedulerTargeted` | a drain, a slot running either operator tool, a provisioner; the row missing at first; lease 1, work up to 4 ticks, 1 fault | `DueMatchesOutcome` and `HistoryIsKept` hold with lanes overlapping on a row |
| `CollectionResume` | 2 processes of a lane, 2 domains, lists of both or of one, 2 sessions, 2 runs, 2 attempts, 2 faults | `TypeOK`, `OneObservationPerDomain`, `EventsFollowObservations`, `TerminalStateIsTruthful`, `ClosedRunIsFinal` and the refinement `KeepsProgramme` hold |
| `PublicScanGuards` | 2 requests, 2 domains, a resilient signal and the pair, ceiling 1, cooldown 1, 2 ticks, 1 fault | `TypeOK`, `OvershootBounded`, `NoRescanUnlessRaced`, `CompletionIsTruthful`, `RunningIsScanned` and the refinement `KeepsRecord` hold |
| `FirmPackageCycles` | 2 packages, 2 firms, 1 targeted cycle, 2 faults, fair | `TypeOK`, `LedgerIsBacked`, `SealedIsComplete`, `SealedDescribesItself`, `SealedIsFinal`, `InterruptedCycleSeals` and the refinement `KeepsEvidence` hold |
| `AcquisitionOnce` | 2 slots, 2 companies of one firm, 2 runs, 1 fault | `TypeOK`, `RegisteredOnce`, `InFlightIsHeld`, `CompleteIsRegistered` hold |
| `SchedulerDuplicate` | 2 drains, no fault | `OncePerSlot` is violated |
| `SchedulerFixedNow` | a drain and an operator run, 2 organisations, no fault | `ExclusiveHolder` is violated |
| `SchedulerUnresolved` | 1 drain, an organisation without a domain, no fault | `ReleaseIsRecorded` is violated |
| `CollectionShorterList` | as `CollectionResume`, 1 process, 1 run | `CompletedIsCollected` is violated |

The properties, in words:

- `ExclusiveHolder`: no two lanes hold (have claimed and not finished) the same row.
- `ReadIsFresh`: the attempt count read before a collection is still the row's when it is
  incremented and written.
- `ObservesSerially`: seen as (holder, attempts, last observation), every step is one of
  acquire, one atomic outcome of a held row, give up, or nothing.
- `DueMatchesOutcome`: due instant, attempt count and outcome instants belong together.
- `OncePerSlot`: a row is not observed again before the slot its last observation set.
- `HistoryIsKept`: a row stays, and once observed stays observed, whoever inserts or updates it
  on an outdated read.
- `BudgetOvershootBounded`: claims stay below `maxStatesPerRun` + lanes x types, the bound
  the comment of `drainDueStates` states.
- `ReleaseIsRecorded`: a live lane lets go of a claimed row only once it is not running.
- `WakeEnds`, `OrphanTakenOver`: every wake ends; a row left running is taken over if its
  lease lapses before the horizon.
- `OneObservationPerDomain`: a run holds one Observation of a domain, unless two live sessions
  shared the run or its guard could not read.
- `EventsFollowObservations`: never more Events than Observations, shared run or not.
- `TerminalStateIsTruthful`: when a session with a ledger closes its run as COMPLETED, every
  domain of its list has an Observation in the run, unless the run holds one of a domain that is
  not on the list.  It says nothing of one-pass sessions, which close their run as COMPLETED
  whatever failed.
- `CompletedIsCollected`: the same without the exception; it does not hold.
- `ClosedRunIsFinal`: a terminal run never changes; nor its evidence, unless it was shared.
- `KeepsProgramme`: what sessions do to the tables, however they overlap, die and resume, is
  each time one of: open a run, add an Observation or an Event to one that is open (or shared),
  close one, or nothing.  The counts a closed run states are borne out by its Observations; which
  domains they are of is the subject of `TerminalStateIsTruthful`.
- `OvershootBounded`: running and admitted scans exceed the ceiling by no more than the other
  requests that were past the guard at once and those it did not count.
- `NoRescanUnlessRaced`: a domain is scanned again within its cooldown only if the first session
  did not exist when the second request read.
- `CompletionIsTruthful`: a completed session has an outcome for every signal, a quality row for
  each it calls scored, an evidence row for each it calls observed unless it is `masked` and the
  signal of the pair; what is scored has evidence, and nothing of its scan is still at work.
- `RunningIsScanned`: a running session has a scan, unless a restart or a failed call lost it.
- `KeepsRecord`: what requests do to the tables, however they race, fail or die, is each time one
  of: create a running session after the others, add evidence or a score to one that is running
  or failed, mask one that lacks a row of the pair, complete one that is not lost with the exact
  account of its rows (and, if masked, of the pair), fail one, lose running ones, or nothing.
- `LedgerIsBacked`: what a package's ledger names is in the package, whole.
- `SealedIsComplete`: a sealed package lacks at most two firms per torn append.
- `SealedDescribesItself`: its reports and manifest are about its own ledger.
- `SealedIsFinal`: nothing of it changes but the status in `package.json`.
- `KeepsEvidence`: what a reader finds in the packages changes only so: evidence of a firm not
  in the ledger is placed or taken out, a firm whose evidence is there is entered, a torn
  append happens or shows its effect, an unsealed package is sealed with what it holds.
- `InterruptedCycleSeals`: a package left collecting is eventually sealed, unless one of its
  firms or reports failed or its finish was interrupted.
- `RegisteredOnce`: a company is in the registry once, unless it was `raced` or `unsure`.
- `InFlightIsHeld`: a company in flight, which no run claims again, is in the hand of a live
  process, or was in that of a dead one, or the line that ended its processing was lost.
- `CompleteIsRegistered`: the firm of a complete company is in the registry or in the memory of
  a Phase 3 writing it back, unless `exposed`.

The exemptions (shared, blind, raced, unsure, lost, masked, ...) are exactly the cases in which the
code does fail; dropping any of them makes TLC find the failure.

**Bounds, and why they are enough.**  The scheduler's quarter-hour is two ticks, a day two
quarter-hours, the weekly cycle two days, with one fast retry.  Two workers with a lane each
meet every interleaving a row can see, since its conflicts are pairwise (holder and taker);
lanes of one worker share only the budget counter, so two of them and a page larger than the
budget reach the worst overshoot.  `MaxClock` spans a claim, its lease lapsing and the taker's
outcome (Overlap, Targeted), or two daily slots and a weekly one (Cadence).  One fault puts a
crash, failed call or suspension anywhere; a second one meets a state the first already
reaches.  `MaxAttempts` bounds forced runs and lies above the retry limit.

In the collection session two faults are needed (a crash, and a lost write that the resume must
survive), two processes for a shared run, two runs for a listing that failed.  The scan guards
race pairwise, and a ceiling of one is the smallest they can pass together; its clock stands
still until there is a session whose age it can tell, and once no request is left that will read
it, for a scan under way never does.  A cycle needs two
packages for one to be resumed or replaced by the other, two firms for an append glued to
another's, two faults for a death while the effects of another are repaired.  A company is
registered twice, or lost, by two runs, one after the other or at once; two companies make a
glued line and a deduplicated firm.  An instance of one company with three runs and two faults
also holds.  The theorems below have no such bounds.

Deadlock is checked in the scheduler's runs: at the last tick a worker can always start.  It
is not in the other four, where nobody has to start another session, request, package or tool
once the bound on them is reached.

## Fairness

`ObservationScheduler.FairSpec` assumes that the clock advances, that each worker takes its
next step if one stays enabled (the cron fires, a live process goes on), and that each lane
does.  No failing step is required to happen.  A collection ends, one way or the other: the
collectors have timeouts, and both outcomes are `Collect`.  The clock stops at `MaxClock`, so
`Orphan` asks only for rows whose lease lapses before it.  Fairness is per lane and not per
action: nothing assumes, for instance, that collections succeed.

`FirmPackage.FairSpec` is weak fairness of `Progress`, any step of a cycle or the start of the
next: the worker is started daily by `railway.fca.json`, and again on failure, and a live
process goes on.  Failing firms are among those steps, so that success is not assumed; deaths,
failed file operations and targeted cycles are not.

`CollectionRun`, `PublicScan` and `AcquisitionLedger` state none: a session and the
acquisition tools run when an operator starts them, and nothing in the code retries a lost
session, so there is nothing to be fair about.

## What is proved

TLAPS checks every proof, for all values of the constants under the named assumptions
(`GridAssumption`, `KeyAssumption`, `LeaseAssumption`, `WorkerAssumption`, `BoundAssumption`,
`CollectionAssumption`, `ScanAssumption`, `PackageAssumption`, `AcquisitionAssumption`):
any number of processes, rows, firms, companies and faults.

*The grid.*  `OnOwnGrid`: `ComputeNextDueAt` is the first point after the completion of the
organisation's own grid (daily: floor, add the slot, advance once; weekly: the ceiling and
the correction on a tie).  `RetryInFuture`: a retry is strictly later than the failure.
`NoDrift`: completions anywhere within a period give the same due instant.  The argument is
integer division: multiples less than a period apart are equal.

*The scheduler.*  `TypeCorrect` is inductive as it stands.

`Exclusion` and `FreshReads` are not.  That no second lane can claim a held row depends on
what the row contains: it is running (or suspended) and carries the instant of the holder's
claim (`HeldIsClaimed`), and that instant is at most `HoldBound` old (`Tenure`).  With
`HoldBound <= Lease` its lease has then not lapsed, so no claim matches; and a lane that has
claimed a row finds it when it reads (`NoInsert`).  `LeaseInv` is the conjunction of these with
types, exclusion and fresh reads; it is inductive under `Timely`, that is `HoldBound <= Lease`
and no operator tool runs (whose claims carry an older instant or do not exist; see
`SchedulerFixedNow`).

`DueInstants` and `HistoryKept` need neither: each outcome is one update that writes the due
instant together with everything it is computed from, so that even a late writer leaves a
consistent row.  `DueInv` adds to it that an outcome is recorded with an instant after 0, and
that only rows which are missing are inserted.

`Overshoot` (the work budget) counts, for each wake, the lanes with no claims still to be
counted (`Spare`): `BudgetInv` says that what a wake has claimed is below its budget plus one
organisation's types for each spare lane, a share each lane uses up when it passes the check
and gives back when its claims are counted.

`SlotObservedOnce` says that one drain, with any number of lanes and whatever fails, observes a
row at most once in a slot.  The claim does not test `next_due_at`; what protects the row is
that it was due when its page was read and that nobody else has observed it since.  `CadenceInv`
says so along the way of the row: a row that was observed is not due before the next slot, also
while its failures are retried (`SlotKept`); rows that are running, on the page or in a lane's
charge are due (`RunningIsRipe`, `PageIsRipe`, `LaneIsRipe`); an organisation in a lane's
charge is in no other's and no longer on the page (`Apart`).  The hypothesis `OneDrain` is
needed: with a second drain the page is out of date when it is used, and `SchedulerDuplicate`
is the counterexample.

`AbandonedByFaults` needs no hypothesis: a step that is no fault lets go of a row in hand only
together with the row's outcome, unless the organisation is unresolvable or the worker one that
may run the manual CLI.  `ReleaseRecorded` concludes `ReleaseIsRecorded` where there are no
faults, no such organisations and no such workers; `SchedulerUnresolved` shows what the second
condition is for, and that a fault does abandon rows is the point of the leases.

`SerialRefinement` proves the refinement that `SchedulerOverlap` checks: initial states map
to initial states, a successful claim to `Acquire`, an outcome to `Succeed` or `Fail`, and
every other step to a `GiveUp` of the rows nobody holds any more, or to a stutter.  It needs
besides `LeaseInv` that the recorded instants are not ahead of the clock and that a lane
about to record does not go back in time (`Recorded`).

*The collection session.*  `NoDuplicates` rests on `EvidenceInv`: an unshared run has one live
session (`LiveRuns`), the runners of a pool have different domains (`ApartRunners`), and a lane
about to insert into an unshared, sighted run has found no row (`Unwritten`); a one-pass session
never comes to the ledger (`NoLedger`).  `ClosedRuns` follows from the same.  `Truthful` rests
on `LedgerInv`, which holds even of shared runs: an item is COMPLETED only if its domain has an
Observation, and no tally or verdict says more.  A session that closes its run COMPLETED has
counted at least as many COMPLETED items as its list has domains (`CountedInv`,
`ClosesByVerdict`); if every domain with an Observation is on the list, they are all of it, as a
finite set has no proper subset of its own size.  `EventsBounded` counts the lanes between an
insert and its Event (`Unannounced`): `EventInv` says Events plus those lanes never exceed the
Observations.

`ProgrammeKept` proves the refinement `KeepsProgramme` from the conjunction of all these
(`ProgrammeInv`): a lane at work is on a run that is open or was shared (`LiveRuns`), so that
every insert and Event is an `Observe` or `Announce`; `Unwritten` makes an insert into an
unshared, sighted run the first; `Unannounced` leaves an Observation for each Event; and the
verdict of a closing session is borne out by the ledger it has read (`LedgerInv`).  Starting a
session that finds a live one's run is `Share`, a guard that cannot read is `Blind`; every other
step stutters.

*The scan.*  `NoRescan` from `SeenIsPast`: what a request saw was of another domain or out of its
cooldown.  `RunningScanned` and `CompletionTruthful` from `ScanShape`: a scan has its session to
itself and its signals are where the rows it has written, or an exception in the pair, put them.  `Overshoot` from
`OvershootShape`: `peak` has counted the requests past the guards.

`RecordKept` proves the refinement `KeepsRecord` with two more invariants.  `OpenScans`: the
session of a scan whose outcome is open is running and not lost, that of a rejected one is not
completed; so what a scan adds is `Gather` or `Score`, also after the rejection, and its end is
`Complete` or `Fail`, or `Lose` where the transition failed.  `FreshRows`: rows belong to
sessions that exist, and a scan's session has no row of a signal that is not as far; with
`ScanShape` the three counts of a completed session are then exactly the sizes of its rows
(`AccountIsExact`), plus the pair if the session is masked, where `CompletionIsTruthful` alone
bounds them.  `SeenIsPast` orders the
sessions in time.  A creation that fails is `Create` and lost at once, or nothing; a restart is
`Lose`; every other step stutters.

*The packages.*  `SealShape` (a sealed package was collected, and only its status is still
written) gives `SealedFinal`; `CommitOrder` (a firm is touched only while no reader of the ledger
finds it, and entered only when it is whole) gives `LedgerBacked`; `FinishShape` (what this cycle
has written is about the ledger it read) gives `SealedDescribed`; `CountedLoss` (a cycle without
failures has committed what it is done with but for what torn appends cost) gives
`SealedComplete`.

`EvidencePackageKept` proves the refinement `KeepsEvidence` from their conjunction with
`EnteredOnce` (a firm is appended only while no reader finds it there).  The rename is `Place`,
an orphan directory cut short or replaced `TakeOut`.  What an append does depends on how the
ledger ends: after a newline it enters its firm; after a torn record it enters nothing, and if
that record lacked only its newline it takes that firm out again, which `CountedLoss` allows
only where an append was torn.  The seal is `Seal`, whether the worker lives to write the status
or not; the reports, the manifest and the status of an unsealed package are not seen.

*Acquisition.*  `AtMostOnce` from `RaceInv` and `OnceInv`: whoever has an unraced company in hand
is alone with it and knows its last state; once it has a record it is past every state it
could be claimed from, and its holder is past the append.  `NoneForgotten` from `HeldInv`:
whoever recorded a state in flight still holds the company or died with it.  `Registered` from
`FirmInv`: from the append on, the firm has a whole line in the registry, and one among the
records of a Phase 3 under way (`Kept`), which deduplication and rewriting preserve.

*Only model-checked*: the liveness properties `WakeEnds`, `OrphanTakenOver` and
`InterruptedCycleSeals`.  Liveness under fairness is outside what the prover handles.
`OncePerSlot` with several drains, `ReleaseIsRecorded` with unresolvable organisations and
`CompletedIsCollected` are false, as `SchedulerDuplicate`, `SchedulerUnresolved` and
`CollectionShorterList` show; every other property of a passing run is proved.

## Where the code and its text disagree

Four runs end in a counterexample; `PROJECT.json` quotes the lines.

1. *A row can be observed twice in a slot* (`SchedulerDuplicate`): the claim does not test
   `next_due_at`, so a drain working from an earlier page reclaims a row another drain has
   just finished.
2. *An operator run's claims can be born stale* (`SchedulerFixedNow`): all of them carry the
   instant the run started.
3. *An unresolvable domain leaves claimed rows running* (`SchedulerUnresolved`), with nothing
   recorded, lease after lease.
4. *A run can be COMPLETED without an intended domain* (`CollectionShorterList`):
   `run-lifecycle.js` 12-13 says "A run is only COMPLETED if every intended organisation was
   actually collected", but `deriveTerminalState` compares numbers: the length of this
   session's list with what the whole ledger holds.  A session that resumes a run with a
   shorter list, and whose page of outstanding domains fails, closes it although its own domain
   was never observed.  With two live sessions on the run no fault is needed.

Others came up in modelling; most show in the exemptions the properties have to make:

- *One-pass collections.*  `collection-session.js` closes its run COMPLETED whatever failed,
  where `run-lifecycle.js` 14-15 says that "no runner" can.  (`TerminalStateIsTruthful` leaves
  them out.)
- *A failed read-back leaves a collected row running.*  The success branch of
  `observeOneSignal`, whose comment (`observe-organisation.js` 114-116) says "factsRow exists",
  dereferences `factsRow` where `collectDnsSignal` answered null: the exception is caught per
  signal, and neither success nor failure is written.  (`ObservationScheduler.ReadBackFails`;
  the row is taken over once its lease lapses, `OrphanTakenOver`.)
- *An exception in the pair is not seen.*  A handshake, extraction or insert that throws within
  `processDomain` is caught there (`run-national.js` 227-229) with neither `tlsError` nor
  `certError`, and `on-demand-observation.js` 218 looks at nothing else: both signals are
  reported observed, and counted in `signalsObserved`, without a row.  The test
  `on-demand-observation.test.js` 259, "a thrown handshake failure records both signals as
  unobserved", has the whole runner throw, which a handshake does not make it do.  (`masked` in
  `CompletionIsTruthful` and `KeepsRecord`.)

- *FCA packages.*  `FCA-DEPLOYMENT.md` 125-127 has a failed firm "retried on the next run"
  and says "Re-run until `failed 0`".  But the cycle that had the failure marks the package
  collected, and `findOpenPackage` looks for one that is collecting: the next run opens a new
  package and the old one is never sealed.  For the same reason a crash after `collected` and
  before the seal leaves the package unsealed for good, where line 119 says "no action
  required".  (`flawed` in `InterruptedCycleSeals`.)
- *Torn ledger appends.*  The next record is glued to a torn one and neither is read, while
  the cycle counts both firms as committed: a package can be sealed without them, against
  `package-seal.js` 11-14.  (`torn` in `SealedIsComplete`.)
- *On-demand scans.*  A scoring that throws rejects `Promise.all` and fails the session, where
  `on-demand-observation.js` 254-261 says a single signal's failure never does; the domain
  then answers 429 for the cooldown.  A session lost by a restart stays running and takes one
  of the ceiling's places for ever.  (`lost` in `RunningIsScanned`.)
- *Shared runs.*  Two live sessions on one run can insert an Observation of a domain twice.
  (`shared` in `OneObservationPerDomain`.)
- *Acquisition.*  A company in flight when `acquire-fca` dies is never claimed again, though
  `companies-house-api-source.js` 42 calls the run "resumable via the ledger";
  `resolve-ambiguous` recovers only its own claims, and takes those of a live process too
  (`orphaned`, `raced`).  `enrich-registry.js` 11 says "safe to restart after a crash", but it
  rewrites the registry in place: a crash in mid-write loses records, and so does an append
  beside it (`exposed` in `CompleteIsRegistered`).

Two comments are merely out of date: `observe-organisation.js` 150-154 speaks of exponential
backoff where `computeRetryNextDueAt` uses the next quarter-hour and a spread, then the own
slot; and `due-selection.js` 84-85 promises that only older rows overtake a row, while stale
rows only fill the room a page of due rows leaves.

## What is not modelled

- *Collectors and quality models* (some 400 files): one parser and scorer per signal, data
  transformations without shared state.  The models need only whether a signal was observed or
  failed, scored or not.
- *Repository Authority, resolution, projections, baselines, benchmarks, discovery pilots*:
  batch computations over files, run one at a time, which write what they computed.
- *HTTP handlers* other than the scan routes: reads and single writes over the tables modelled
  here.
- *Migrations and tooling*: their constraints are in the models, their execution is not.
- *The SRA worker*: one process polling with backoff over a checkpoint; see the plan.
- *Trust profiles*: instances are only appended; see the plan.
- Dry runs, refusals and logging: no state.

The map therefore covers a small part of the repository's lines and nearly all of the code in
which two processes, a crash or a clock can go wrong.

## Plan

*Done*: `ShardAssignment`, `ObservationStates`, `ObservationScheduler` with all its writers,
`SerialObservation`, `CollectionRun` and `CollectionProgramme`, `PublicScan` and `ScanRecord`,
`FirmPackage` and `EvidencePackage`, `AcquisitionLedger`, and their proofs.

Next, in order of importance:

1. `SraWorker`: polling, checkpoint, resumption of sealed packages, the health file.
2. `TrustSweep`: the sweep and the on-demand regeneration over append-only instances; the
   current instance is never older, in its evidence, than the one it replaced.
3. Starvation of stale rows: a bound on how long a full page of due rows keeps an abandoned row
   running, over a population larger than the page.
4. The repository's decision and change events, and the reads of the event table.
5. Proofs: an abstract specification of the acquisition ledger, in the way of
   `CollectionProgramme`, and its refinement.

---------------------------- MODULE CollectionRun ----------------------------
(***************************************************************************)
(* National collection sessions of one programme under one run_label.      *)
(*                                                                         *)
(* A process is an invocation slot.  It runs runResilientCollectionSession *)
(* (resume the newest RUNNING run of the label or open one, keep a ledger  *)
(* item per domain, close the run from the ledger's counts) or, as         *)
(* one-pass, runCollectionSession (a new run, no ledger, always COMPLETED).*)
(* Its lanes are the runners of the concurrency pool.                      *)
(*                                                                         *)
(* Every database call is a step.  Collecting a domain touches no shared   *)
(* state, so it is one step with the first call that follows it; each      *)
(* retry of it is a step too.                                              *)
(***************************************************************************)
EXTENDS Integers, FiniteSets

CONSTANTS
    Process, Lane, Domain,
    Lists,           \* the domain lists an invocation may be given
    MaxAttempts,     \* COLLECTION_MAX_ATTEMPTS of the retry engine
    Null             \* a column that is null; no process

CONSTANTS \* Bounds on the behaviours considered.
    MaxSessions,     \* invocations
    MaxRuns,         \* runs opened
    MaxFaults        \* crashes and failed calls

Agent == Process \X Lane
RunId == 1..MaxRuns   \* in the order they were opened

ASSUME CollectionAssumption ==
    /\ IsFiniteSet(Process) /\ IsFiniteSet(Lane) /\ IsFiniteSet(Domain)
    /\ Lists \subseteq (SUBSET Domain) \ {{}}
    /\ MaxAttempts \in Nat \ {0}
    /\ MaxSessions \in Nat /\ MaxRuns \in Nat /\ MaxFaults \in Nat
    /\ Null \notin Nat \cup Domain

VARIABLES
    runs,      \* collection_runs: status and the summary columns
    items,     \* collection_run_items: the ledger
    evidence,  \* rows of the adapter's observation table per run and domain
    events,    \* ObservationRecorded events per run and domain
    proc, lane,
    shared,    \* history: runs two live sessions were working on at once
    blind,     \* history: runs in which an idempotency-guard read failed
    sessions, faults   \* invocations, and crashes and failed calls, so far
vars == <<runs, items, evidence, events, proc, lane, shared, blind, sessions, faults>>

Terminal    == {"PARTIAL", "COMPLETED", "FAILED", "CANCELLED"}
Run         == [status: {"none", "RUNNING"} \cup Terminal,
                intended: Nat, succeeded: Nat \cup {Null}]
ItemStatus  == {"none", "PENDING", "RUNNING", "COMPLETED", "FAILED", "PERMANENT"}
Outstanding == {"PENDING", "RUNNING", "FAILED"}

ProcState ==
    [pc: {"idle", "open", "init", "list", "pool", "close"}, onePass: BOOLEAN,
     run: RunId \cup {Null}, list: SUBSET Domain, work: SUBSET Domain, cancelled: BOOLEAN,
     verdict: Terminal \cup {Null}, succeeded: Nat \cup {Null}]
LaneState ==
    [pc: {"free", "guard", "collect", "fail", "complete", "emit"},
     domain: Domain \cup {Null}, attempt: 0..MaxAttempts]

Idle == [pc |-> "idle", onePass |-> FALSE, run |-> Null, list |-> {}, work |-> {},
         cancelled |-> FALSE, verdict |-> Null, succeeded |-> Null]
Free == [pc |-> "free", domain |-> Null, attempt |-> 0]

Init ==
    /\ runs = [r \in RunId |-> [status |-> "none", intended |-> 0, succeeded |-> Null]]
    /\ items = [r \in RunId |-> [d \in Domain |-> "none"]]
    /\ evidence = [r \in RunId |-> [d \in Domain |-> 0]]
    /\ events = [r \in RunId |-> [d \in Domain |-> 0]]
    /\ proc = [p \in Process |-> Idle]
    /\ lane = [a \in Agent |-> Free]
    /\ shared = {} /\ blind = {} /\ sessions = 0 /\ faults = 0

Fault == faults < MaxFaults /\ faults' = faults + 1

Live(p, r) == proc[p].run = r   \* an idle process is on no run

-----------------------------------------------------------------------------
(* Finding or opening the run.                                             *)

Begin(p, L, pc, r, onePass) ==
    /\ proc[p].pc = "idle"
    /\ sessions < MaxSessions /\ sessions' = sessions + 1
    /\ proc' = [proc EXCEPT ![p] =
                  [Idle EXCEPT !.pc = pc, !.run = r, !.list = L, !.onePass = onePass]]

(* Mutant: the label's newest run, whatever its status.                    *)
ResumableWhateverStatus(r) == runs[r].status # "none" /\ \A q \in RunId : q > r => runs[q].status = "none"

(* findResumableRun: the newest RUNNING run of the label.                  *)
Resumable(r) ==
    /\ runs[r].status = "RUNNING"
    /\ \A q \in RunId : runs[q].status = "RUNNING" => q <= r

StartSession(p, L) ==
    /\ \/ /\ \A r \in RunId : ~Resumable(r)
          /\ Begin(p, L, "open", Null, FALSE)
          /\ UNCHANGED shared
       \/ \E r \in RunId :
            /\ Resumable(r)
            /\ Begin(p, L, "init", r, FALSE)
            /\ shared' = IF \E q \in Process : Live(q, r) THEN shared \cup {r} ELSE shared
    /\ UNCHANGED <<runs, items, evidence, events, lane, blind, faults>>

(* listRunsForProgramme answers [] on an error: nothing to resume.         *)
StartWithoutListing(p, L) ==
    /\ Begin(p, L, "open", Null, FALSE)
    /\ Fault
    /\ UNCHANGED <<runs, items, evidence, events, lane, shared, blind>>

StartOnePass(p, L) ==
    /\ Begin(p, L, "open", Null, TRUE)
    /\ UNCHANGED <<runs, items, evidence, events, lane, shared, blind, faults>>

OpenRun(p) ==
    /\ proc[p].pc = "open"
    /\ \E r \in RunId :
         /\ runs[r].status = "none"
         /\ \A q \in RunId : q < r => runs[q].status # "none"
         /\ runs' = [runs EXCEPT ![r].status = "RUNNING",
                                 ![r].intended = Cardinality(proc[p].list)]
         /\ proc' = [proc EXCEPT ![p].run = r,
                       ![p].pc = IF proc[p].onePass THEN "pool" ELSE "init",
                       ![p].work = IF proc[p].onePass THEN proc[p].list ELSE {}]
    /\ UNCHANGED <<items, evidence, events, lane, shared, blind, sessions, faults>>

(* Mutant: the session goes on without its run.                            *)
OpenRunFailsUnnoticed(p) ==
    /\ proc[p].pc = "open"
    /\ proc' = [proc EXCEPT ![p].pc = "pool", ![p].work = proc[p].list]
    /\ Fault
    /\ UNCHANGED <<runs, items, evidence, events, lane, shared, blind, sessions>>

(* openRun fails: the session throws.  (Also where MaxRuns stops it.)      *)
OpenRunFails(p) ==
    /\ proc[p].pc = "open"
    /\ proc' = [proc EXCEPT ![p] = Idle]
    /\ \/ Fault
       \/ (\A r \in RunId : runs[r].status # "none") /\ UNCHANGED faults
    /\ UNCHANGED <<runs, items, evidence, events, lane, shared, blind, sessions>>

-----------------------------------------------------------------------------
(* The ledger's items and the work-list.                                   *)

(* initItems: ON CONFLICT DO NOTHING.                                      *)
Initialised(r, D) ==
    [items EXCEPT ![r] = [d \in Domain |-> IF d \in D /\ @[d] = "none" THEN "PENDING" ELSE @[d]]]

(* A chunk that fails ends initItems; the session goes on regardless.      *)
InitItems(p) ==
    /\ proc[p].pc = "init"
    /\ \/ items' = Initialised(proc[p].run, proc[p].list) /\ UNCHANGED faults
       \/ \E D \in (SUBSET proc[p].list) \ {proc[p].list} :
            items' = Initialised(proc[p].run, D) /\ Fault
    /\ proc' = [proc EXCEPT ![p].pc = "list"]
    /\ UNCHANGED <<runs, evidence, events, lane, shared, blind, sessions>>

(* outstandingDomains; a page that fails cuts the work-list short.         *)
ListOutstanding(p) ==
    LET work == {d \in Domain : items[proc[p].run][d] \in Outstanding} IN
    /\ proc[p].pc = "list"
    /\ \/ /\ proc' = [proc EXCEPT ![p].pc = "pool", ![p].work = work]
          /\ UNCHANGED faults
       \/ \E W \in (SUBSET work) \ {work} :
            proc' = [proc EXCEPT ![p].pc = "pool", ![p].work = W] /\ Fault
    /\ UNCHANGED <<runs, items, evidence, events, lane, shared, blind, sessions>>

-----------------------------------------------------------------------------
(* processDomain.  A ledger write may fail: its answer is never looked at. *)

Write(r, d, status) ==
    \/ items' = [items EXCEPT ![r][d] = status] /\ UNCHANGED faults
    \/ UNCHANGED items /\ Fault

Goto(a, pc) == lane' = [lane EXCEPT ![a].pc = pc]
Release(a)  == lane' = [lane EXCEPT ![a] = Free]

(* A runner takes the next domain; markRunning.                            *)
TakeDomain(a, d) ==
    LET p == a[1] IN
    /\ proc[p].pc = "pool" /\ lane[a].pc = "free"
    /\ d \in proc[p].work /\ ~proc[p].cancelled
    /\ proc' = [proc EXCEPT ![p].work = @ \ {d}]
    /\ lane' = [lane EXCEPT ![a] =
                  [Free EXCEPT !.domain = d, !.attempt = 1,
                               !.pc = IF proc[p].onePass THEN "collect" ELSE "guard"]]
    /\ IF proc[p].onePass THEN UNCHANGED <<items, faults>> ELSE Write(proc[p].run, d, "RUNNING")
    /\ UNCHANGED <<runs, evidence, events, shared, blind, sessions>>

(* shouldCancel() answers true when a runner takes a domain.               *)
CancelSession(a, d) ==
    LET p == a[1] IN
    /\ proc[p].pc = "pool" /\ ~proc[p].onePass /\ lane[a].pc = "free"
    /\ d \in proc[p].work /\ ~proc[p].cancelled
    /\ proc' = [proc EXCEPT ![p].work = @ \ {d}, ![p].cancelled = TRUE]
    /\ UNCHANGED <<runs, items, evidence, events, lane, shared, blind, sessions, faults>>

(* Mutant: adopting also announces, to repair a crash before the event.    *)
AdoptAndAnnounce(a) ==
    LET r == proc[a[1]].run  d == lane[a].domain IN
    /\ lane[a].pc = "guard"
    /\ evidence[r][d] > 0
    /\ Write(r, d, "COMPLETED")
    /\ Goto(a, "emit")
    /\ UNCHANGED <<runs, evidence, events, proc, shared, blind, sessions>>

(* The guard finds the run's Observation of the domain and adopts it; no   *)
(* event is emitted.                                                       *)
Adopt(a) ==
    LET r == proc[a[1]].run  d == lane[a].domain IN
    /\ lane[a].pc = "guard"
    /\ evidence[r][d] > 0
    /\ Write(r, d, "COMPLETED")
    /\ Release(a)
    /\ UNCHANGED <<runs, evidence, events, proc, shared, blind, sessions>>

(* Mutant: no idempotency guard.                                           *)
GuardAlwaysPasses(a) ==
    /\ lane[a].pc = "guard"
    /\ Goto(a, "collect")
    /\ UNCHANGED <<runs, items, evidence, events, proc, shared, blind, sessions, faults>>

GuardPasses(a) ==
    /\ lane[a].pc = "guard"
    /\ evidence[proc[a[1]].run][lane[a].domain] = 0
    /\ Goto(a, "collect")
    /\ UNCHANGED <<runs, items, evidence, events, proc, shared, blind, sessions, faults>>

(* The error of the guard's read is ignored: no row, collect afresh.       *)
GuardFails(a) ==
    /\ lane[a].pc = "guard"
    /\ Goto(a, "collect")
    /\ blind' = blind \cup {proc[a[1]].run}
    /\ Fault
    /\ UNCHANGED <<runs, items, evidence, events, proc, shared, sessions>>

(* withRetry: a RETRYABLE failure, attempts left.                          *)
Retry(a) ==
    /\ lane[a].pc = "collect" /\ ~proc[a[1]].onePass
    /\ lane[a].attempt < MaxAttempts
    /\ lane' = [lane EXCEPT ![a].attempt = @ + 1]
    /\ UNCHANGED <<runs, items, evidence, events, proc, shared, blind, sessions, faults>>

(* The last attempt failed; a PERMANENT or UNEXPECTED failure is the last  *)
(* one whatever the attempt, and so is one of buildObservation.  A one-    *)
(* pass session only counts the domain.                                    *)
CollectFails(a, class) ==
    LET p == a[1] IN
    /\ lane[a].pc = "collect"
    /\ class = "RETRYABLE" /\ ~proc[p].onePass => lane[a].attempt = MaxAttempts
    /\ IF proc[p].onePass THEN UNCHANGED <<items, faults>>
       ELSE Write(proc[p].run, lane[a].domain,
                  IF class = "RETRYABLE" THEN "FAILED" ELSE "PERMANENT")
    /\ Release(a)
    /\ UNCHANGED <<runs, evidence, events, proc, shared, blind, sessions>>

(* Collected, and the row inserted.                                        *)
Insert(a) ==
    LET p == a[1] IN
    /\ lane[a].pc = "collect"
    /\ evidence' = [evidence EXCEPT ![proc[p].run][lane[a].domain] = @ + 1]
    /\ Goto(a, IF proc[p].onePass THEN "emit" ELSE "complete")
    /\ UNCHANGED <<runs, items, events, proc, shared, blind, sessions, faults>>

(* The insert answers an error, its row written or not.                    *)
InsertFails(a) ==
    LET p == a[1] IN
    /\ lane[a].pc = "collect"
    /\ \/ UNCHANGED evidence
       \/ evidence' = [evidence EXCEPT ![proc[p].run][lane[a].domain] = @ + 1]
    /\ IF proc[p].onePass THEN Release(a) ELSE Goto(a, "fail")
    /\ Fault
    /\ UNCHANGED <<runs, items, events, proc, shared, blind, sessions>>

(* Mutant: the domain of a failed insert is marked completed.              *)
CompleteFailedInsert(a) ==
    /\ lane[a].pc = "fail"
    /\ Write(proc[a[1]].run, lane[a].domain, "COMPLETED")
    /\ Release(a)
    /\ UNCHANGED <<runs, evidence, events, proc, shared, blind, sessions>>

(* markFailed, not permanent, so that a resume tries the domain again.     *)
FailInsert(a) ==
    /\ lane[a].pc = "fail"
    /\ Write(proc[a[1]].run, lane[a].domain, "FAILED")
    /\ Release(a)
    /\ UNCHANGED <<runs, evidence, events, proc, shared, blind, sessions>>

MarkCompleted(a) ==
    /\ lane[a].pc = "complete"
    /\ Write(proc[a[1]].run, lane[a].domain, "COMPLETED")
    /\ Goto(a, "emit")
    /\ UNCHANGED <<runs, evidence, events, proc, shared, blind, sessions>>

(* The Constitutional Event, best effort.                                  *)
Emit(a) ==
    /\ lane[a].pc = "emit"
    /\ \/ /\ events' = [events EXCEPT ![proc[a[1]].run][lane[a].domain] = @ + 1]
          /\ UNCHANGED faults
       \/ UNCHANGED events /\ Fault
    /\ Release(a)
    /\ UNCHANGED <<runs, items, evidence, proc, shared, blind, sessions>>

-----------------------------------------------------------------------------
(* Closing the run.                                                        *)

(* deriveTerminalState; a list is never empty.                             *)
TerminalState(intended, succeeded, failed, cancelled) ==
    CASE cancelled -> "CANCELLED"
      [] ~cancelled /\ succeeded = 0 -> "FAILED"
      [] ~cancelled /\ succeeded >= intended /\ succeeded > 0 /\ failed = 0 -> "COMPLETED"
      [] OTHER -> "PARTIAL"

PoolDone(p) ==
    /\ proc[p].pc = "pool"
    /\ proc[p].work = {} \/ proc[p].cancelled
    /\ \A a \in Agent : a[1] = p => lane[a].pc = "free"

(* counts() over the items listItems read: all, or a failed listing's few. *)
Tally(p) ==
    LET ledger == items[proc[p].run]
        Conclude(D) ==
            LET succeeded == Cardinality({d \in D : ledger[d] = "COMPLETED"})
                failed    == Cardinality({d \in D : ledger[d] \in {"FAILED", "PERMANENT"}})
            IN proc' = [proc EXCEPT ![p].pc = "close", ![p].succeeded = succeeded,
                          ![p].verdict = TerminalState(Cardinality(proc[p].list), succeeded,
                                                       failed, proc[p].cancelled)]
    IN
    /\ PoolDone(p) /\ ~proc[p].onePass
    /\ \/ Conclude(Domain) /\ UNCHANGED faults
       \/ \E D \in (SUBSET Domain) \ {Domain} : Conclude(D) /\ Fault
    /\ UNCHANGED <<runs, items, evidence, events, lane, shared, blind, sessions>>

ConcludeOnePass(p) ==
    /\ PoolDone(p) /\ proc[p].onePass
    /\ proc' = [proc EXCEPT ![p].pc = "close", ![p].verdict = "COMPLETED"]
    /\ UNCHANGED <<runs, items, evidence, events, lane, shared, blind, sessions, faults>>

(* Mutant: the UPDATE does not test the status.                            *)
CloseRunWhateverStatus(p) ==
    LET r == proc[p].run IN
    /\ proc[p].pc = "close"
    /\ runs' = [runs EXCEPT ![r] = [status |-> proc[p].verdict, succeeded |-> proc[p].succeeded,
                                    intended |-> Cardinality(proc[p].list)]]
    /\ proc' = [proc EXCEPT ![p] = Idle]
    /\ UNCHANGED <<items, evidence, events, lane, shared, blind, sessions, faults>>

(* transitionRun: one UPDATE, only while the run is RUNNING; its failure   *)
(* is answered, not thrown, and leaves the run to a later resume.          *)
CloseRun(p) ==
    LET r == proc[p].run IN
    /\ proc[p].pc = "close"
    /\ \/ /\ runs' = IF runs[r].status = "RUNNING"
                     THEN [runs EXCEPT ![r] = [status |-> proc[p].verdict,
                                               intended |-> Cardinality(proc[p].list),
                                               succeeded |-> proc[p].succeeded]]
                     ELSE runs
          /\ UNCHANGED faults
       \/ UNCHANGED runs /\ Fault
    /\ proc' = [proc EXCEPT ![p] = Idle]
    /\ UNCHANGED <<items, evidence, events, lane, shared, blind, sessions>>

Crash(p) ==
    /\ proc[p].pc # "idle"
    /\ proc' = [proc EXCEPT ![p] = Idle]
    /\ lane' = [a \in Agent |-> IF a[1] = p THEN Free ELSE lane[a]]
    /\ Fault
    /\ UNCHANGED <<runs, items, evidence, events, shared, blind, sessions>>

LaneNext(a) ==
    \/ \E d \in Domain : TakeDomain(a, d) \/ CancelSession(a, d)
    \/ Adopt(a) \/ GuardPasses(a) \/ GuardFails(a)
    \/ Retry(a)
    \/ \E class \in {"RETRYABLE", "PERMANENT", "UNEXPECTED"} : CollectFails(a, class)
    \/ Insert(a) \/ InsertFails(a)
    \/ FailInsert(a) \/ MarkCompleted(a) \/ Emit(a)

ProcNext(p) ==
    \/ \E L \in Lists : StartSession(p, L) \/ StartWithoutListing(p, L) \/ StartOnePass(p, L)
    \/ OpenRun(p) \/ OpenRunFails(p)
    \/ InitItems(p) \/ ListOutstanding(p)
    \/ Tally(p) \/ ConcludeOnePass(p)
    \/ CloseRun(p) \/ Crash(p)

Next == (\E a \in Agent : LaneNext(a)) \/ (\E p \in Process : ProcNext(p))

Spec == Init /\ [][Next]_vars

-----------------------------------------------------------------------------
(* Properties.                                                             *)

(* The tables keep their legal statuses, a lane has a domain exactly while *)
(* its process is in the pool, and a session at work has a run.            *)
TypeOK ==
    /\ runs \in [RunId -> Run]
    /\ items \in [RunId -> [Domain -> ItemStatus]]
    /\ evidence \in [RunId -> [Domain -> Nat]]
    /\ events \in [RunId -> [Domain -> Nat]]
    /\ proc \in [Process -> ProcState]
    /\ lane \in [Agent -> LaneState]
    /\ shared \subseteq RunId /\ blind \subseteq RunId /\ sessions \in Nat /\ faults \in Nat
    /\ \A p \in Process :
         /\ proc[p].run # Null <=> proc[p].pc \notin {"idle", "open"}
         /\ proc[p].list \in Lists \cup {{}}
         /\ proc[p].pc = "close" => proc[p].verdict \in Terminal
    /\ \A a \in Agent :
         /\ lane[a].pc # "free" => lane[a].domain \in Domain /\ proc[a[1]].pc = "pool"

(* resilient-collection-session.js: "never write a duplicate Observation   *)
(* on resume".  Whatever crashes, failed inserts and lost ledger writes    *)
(* came before, a run holds one Observation per domain, unless two live    *)
(* sessions shared it or a guard read failed.                              *)
OneObservationPerDomain ==
    \A r \in RunId \ (shared \cup blind), d \in Domain : evidence[r][d] <= 1

(* "A resumed run never double-emits an Event for an Observation it did    *)
(* not just create": not even sessions that share a run emit more Events   *)
(* than there are Observations.                                            *)
EventsFollowObservations ==
    \A r \in RunId, d \in Domain : events[r][d] <= evidence[r][d]

(* The session's UPDATE closes its run, in the terminal state given.       *)
Observed(r) == {d \in Domain : evidence[r][d] > 0}
Closes(p, status) ==
    /\ proc[p].pc = "close" /\ proc'[p].pc = "idle"
    /\ runs[proc[p].run].status = "RUNNING" /\ runs'[proc[p].run].status = status

(* run-lifecycle.js, "A run is only COMPLETED if every intended            *)
(* organisation was actually collected", as far as the code keeps it for a *)
(* session with a ledger: deriveTerminalState compares counts over the     *)
(* whole ledger with the length of the session's list.  Whatever crashes,  *)
(* resumes, cut work-lists and listings and lost ledger writes came before,*)
(* every domain of the list has an Observation when the run is closed as   *)
(* COMPLETED, unless the run has one of a domain the list does not name.   *)
TerminalStateIsTruthful ==
    [][\A p \in Process :
        /\ Closes(p, "COMPLETED") /\ ~proc[p].onePass
        /\ Observed(proc[p].run) \subseteq proc[p].list
        => proc[p].list \subseteq Observed(proc[p].run)]_vars

(* The same sentence as it stands: it does not hold.  A session that       *)
(* resumes a run with a shorter list counts what another list observed.    *)
(* (Of one-pass sessions it does not even hold without a fault: they close *)
(* their run as COMPLETED whatever failed.)                                *)
CompletedIsCollected ==
    [][\A p \in Process :
        Closes(p, "COMPLETED") /\ ~proc[p].onePass
        => proc[p].list \subseteq Observed(proc[p].run)]_vars

(* registry.js: a run reaches one terminal state and never changes again;  *)
(* unless two sessions shared it, its evidence and events are final too.   *)
ClosedRunIsFinal ==
    [][\A r \in RunId : runs[r].status \in Terminal =>
        /\ runs'[r] = runs[r]
        /\ r \notin shared' => evidence'[r] = evidence[r] /\ events'[r] = events[r]]_vars

(* Seen through its tables alone, however sessions overlap, die, resume    *)
(* and lose calls, the programme is that of CollectionProgramme: a run is  *)
(* opened once, gains Observations and Events only while it is RUNNING or  *)
(* shared, and is closed once, with counts its Observations bear out.      *)
Programme == INSTANCE CollectionProgramme WITH observed <- evidence, announced <- events
KeepsProgramme == Programme!Spec
=============================================================================

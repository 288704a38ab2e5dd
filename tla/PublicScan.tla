----------------------------- MODULE PublicScan -----------------------------
(***************************************************************************)
(* On-demand observation of one domain: the public route with its cooldown *)
(* and concurrency guards, the authenticated route without them, and the   *)
(* pipeline both start.                                                    *)
(*                                                                         *)
(* A request is a slot of the one API process: the handler of one POST and *)
(* the pipeline it leaves running after its answer.  Every call on the     *)
(* sessions table is a step.  A resilient signal's collection, itself the  *)
(* subject of CollectionRun, is one step, and so are the read-back and the *)
(* scoring that follow: they touch rows of this scan alone.                *)
(*                                                                         *)
(* The per-address limiter (an external library, in memory) only delays or *)
(* refuses requests; MaxRequests stands for it.                            *)
(***************************************************************************)
EXTENDS Integers, FiniteSets

CONSTANTS
    Request, Domain,
    Resilient,       \* signals collected by a resilient session each
    Ceiling,         \* PUBLIC_SCAN_CONCURRENCY_MAX
    Cooldown,        \* PUBLIC_SCAN_DOMAIN_COOLDOWN_MS, in ticks
    Null

CONSTANTS \* Bounds on the behaviours considered.
    MaxRequests,     \* requests received
    MaxFaults,       \* restarts and failed calls
    MaxClock         \* horizon

Paired    == {"tls", "certificate"}   \* one handshake, scored one after the other
Signal    == Resilient \cup Paired
SessionId == 1..MaxRequests           \* in the order they were created

ASSUME ScanAssumption ==
    /\ IsFiniteSet(Request) /\ IsFiniteSet(Resilient)
    /\ Resilient \cap Paired = {}
    /\ Ceiling \in Nat \ {0} /\ Cooldown \in Nat
    /\ MaxRequests \in Nat /\ MaxFaults \in Nat /\ MaxClock \in Nat
    /\ Null \notin Nat \cup Domain

VARIABLES
    sessions,   \* observation_sessions
    evidence,   \* per session, the signals with an evidence row whose insert answered no error
    quality,    \* per session, the signals whose quality row was inserted without error
    request,
    seen,       \* history: the sessions a session's request could see when it read the cooldown
    masked,     \* history: sessions in which an exception hid that a row of the pair is missing
    lost,       \* history: sessions left to themselves by a restart or a failed transition
    peak,       \* history: most requests there have been past the guards with no session yet
    unguarded,  \* history: requests that passed without the concurrency guard's count
    requests, faults, clock
vars == <<sessions, evidence, quality, request, seen, masked, lost, peak, unguarded, requests, faults, clock>>

SessionStatus == {"none", "running", "completed", "failed"}
Settled       == {"failed", "observed", "scored", "threw", "abandoned"}
Phase         == {"collect", "score"} \cup Settled
Session == [status: SessionStatus, domain: Domain \cup {Null}, created: Nat,
            observed: Nat, scored: Nat, failed: Nat]
RequestState ==
    [pc: {"idle", "cooldown", "count", "create", "scan", "rejected"},
     domain: Domain \cup {Null}, seen: SUBSET SessionId,
     session: SessionId \cup {Null}, job: [Signal -> Phase]]

NoSession == [status |-> "none", domain |-> Null, created |-> 0,
              observed |-> 0, scored |-> 0, failed |-> 0]
Idle == [pc |-> "idle", domain |-> Null, seen |-> {}, session |-> Null,
         job |-> [j \in Signal |-> "collect"]]

Init ==
    /\ sessions = [s \in SessionId |-> NoSession]
    /\ evidence = [s \in SessionId |-> {}]
    /\ quality = [s \in SessionId |-> {}]
    /\ request = [q \in Request |-> Idle]
    /\ seen = [s \in SessionId |-> {}]
    /\ masked = {} /\ lost = {} /\ peak = 0 /\ unguarded = 0
    /\ requests = 0 /\ faults = 0 /\ clock = 0

Fault == faults < MaxFaults /\ faults' = faults + 1

Existing == {s \in SessionId : sessions[s].status # "none"}
Running  == {s \in SessionId : sessions[s].status = "running"}
Admitted == {q \in Request : request[q].pc = "create"}

-----------------------------------------------------------------------------
(* Requests and guards.                                                    *)

Receive(q, d, pc) ==
    /\ request[q].pc = "idle"
    /\ requests < MaxRequests /\ requests' = requests + 1
    /\ request' = [request EXCEPT ![q] = [Idle EXCEPT !.pc = pc, !.domain = d]]

(* Once its request is admitted: how many are, that have no session yet.   *)
Admit == peak' = IF Cardinality(Admitted') > peak THEN Cardinality(Admitted') ELSE peak

PostPublicScan(q, d) ==
    /\ Receive(q, d, "cooldown")
    /\ UNCHANGED <<sessions, evidence, quality, seen, masked, lost, peak, unguarded, faults, clock>>

(* POST /api/observation-sessions/on-demand has no guard.                  *)
PostOnDemand(q, d) ==
    /\ Receive(q, d, "create")
    /\ Admit /\ unguarded' = unguarded + 1
    /\ UNCHANGED <<sessions, evidence, quality, seen, masked, lost, faults, clock>>

(* Mutant: a failed or running session does not start the cooldown.        *)
RecentCompletedOnly(d) ==
    {s \in Existing : /\ sessions[s].domain = d /\ sessions[s].created >= clock - Cooldown
                      /\ sessions[s].status = "completed"}

Recent(d) ==
    {s \in Existing : sessions[s].domain = d /\ sessions[s].created >= clock - Cooldown}

(* Whatever the recent session's status, the request is answered from it:  *)
(* 200 cached, 202 in progress or 429.                                     *)
CheckDomainCooldown(q) ==
    /\ request[q].pc = "cooldown"
    /\ request' = IF Recent(request[q].domain) = {}
                  THEN [request EXCEPT ![q].pc = "count", ![q].seen = Existing]
                  ELSE [request EXCEPT ![q] = Idle]
    /\ UNCHANGED <<sessions, evidence, quality, seen, masked, lost, peak, unguarded, requests, faults, clock>>

(* Both guards fail open.                                                  *)
DomainCooldownFails(q) ==
    /\ request[q].pc = "cooldown"
    /\ request' = [request EXCEPT ![q].pc = "count"]
    /\ Fault
    /\ UNCHANGED <<sessions, evidence, quality, seen, masked, lost, peak, unguarded, requests, clock>>

(* Mutant: the ceiling itself still passes.                                *)
AtCapacityOffByOne == Cardinality(Running) > Ceiling

AtCapacity == Cardinality(Running) >= Ceiling

CheckConcurrency(q) ==
    /\ request[q].pc = "count"
    /\ request' = IF AtCapacity THEN [request EXCEPT ![q] = Idle]   \* 503
                  ELSE [request EXCEPT ![q].pc = "create"]
    /\ Admit
    /\ UNCHANGED <<sessions, evidence, quality, seen, masked, lost, unguarded, requests, faults, clock>>

ConcurrencyCountFails(q) ==
    /\ request[q].pc = "count"
    /\ request' = [request EXCEPT ![q].pc = "create"]
    /\ Admit /\ unguarded' = unguarded + 1
    /\ Fault
    /\ UNCHANGED <<sessions, evidence, quality, seen, masked, lost, requests, clock>>

-----------------------------------------------------------------------------
(* The pipeline: runOnDemandObservation.                                   *)

(* createSession inserts the row as running.                               *)
Created(q, s) ==
    /\ s \notin Existing
    /\ \A t \in SessionId : t < s => t \in Existing
    /\ sessions' = [sessions EXCEPT ![s] = [NoSession EXCEPT !.status = "running",
                      !.domain = request[q].domain, !.created = clock]]
    /\ seen' = [seen EXCEPT ![s] = request[q].seen]

(* 202 with the session's id; the ten signals start together.              *)
CreateSession(q) ==
    /\ request[q].pc = "create"
    /\ \E s \in SessionId :
         /\ Created(q, s)
         /\ request' = [request EXCEPT ![q].pc = "scan", ![q].session = s]
    /\ UNCHANGED <<evidence, quality, masked, lost, peak, unguarded, requests, faults, clock>>

(* Mutant: the pipeline starts although no session could be created.       *)
ScanWithoutSession(q) ==
    /\ request[q].pc = "create"
    /\ request' = [request EXCEPT ![q].pc = "scan"]
    /\ Fault
    /\ UNCHANGED <<sessions, evidence, quality, seen, masked, lost, peak, unguarded, requests, clock>>

(* 502; the row may have been written all the same.                        *)
CreateSessionFails(q) ==
    /\ request[q].pc = "create"
    /\ \/ UNCHANGED <<sessions, seen, lost>>
       \/ \E s \in SessionId : Created(q, s) /\ lost' = lost \cup {s}
    /\ request' = [request EXCEPT ![q] = Idle]
    /\ Fault
    /\ UNCHANGED <<evidence, quality, masked, peak, unguarded, requests, clock>>

Scanning(q) == request[q].pc \in {"scan", "rejected"}

Settle(q, j, phase) == request' = [request EXCEPT ![q].job[j] = phase]

(* runOneSignal: a collection that produced no observation, answered an    *)
(* error or threw is a failed signal.                                      *)
Collect(q, j) ==
    /\ Scanning(q) /\ j \in Resilient /\ request[q].job[j] = "collect"
    /\ \/ /\ evidence' = [evidence EXCEPT ![request[q].session] = @ \cup {j}]
          /\ Settle(q, j, "score")
       \/ UNCHANGED evidence /\ Settle(q, j, "failed")
    /\ UNCHANGED <<sessions, quality, seen, masked, lost, peak, unguarded, requests, faults, clock>>

(* Where the signals of the pair go: to their read-back, or nowhere.       *)
PairGoesOn(q, read) ==
    request' = [request EXCEPT ![q].job =
                  [j \in Signal |-> IF j \notin Paired THEN @[j]
                                    ELSE IF j \in read THEN "score" ELSE "failed"]]

(* Mutant: rows of a pair that is then failed stay in the session.         *)
CollectPairUncounted(q) ==
    /\ Scanning(q) /\ \A j \in Paired : request[q].job[j] = "collect"
    /\ \E written \in SUBSET Paired :
         /\ evidence' = [evidence EXCEPT ![request[q].session] = @ \cup Paired]
         /\ PairGoesOn(q, written)
    /\ UNCHANGED <<sessions, quality, seen, masked, lost, peak, unguarded, requests, faults, clock>>

(* runTlsAndCertificate: one handshake gives both rows, either or none,    *)
(* with the error of each row that is missing; an exception before the     *)
(* handshake fails both.  One in processDomain is caught there and leaves  *)
(* a result without errors: the pair goes on, whatever rows it has.        *)
CollectPair(q) ==
    LET s == request[q].session IN
    /\ Scanning(q) /\ \A j \in Paired : request[q].job[j] = "collect"
    /\ \E written \in SUBSET Paired :
         /\ evidence' = [evidence EXCEPT ![s] = @ \cup written]
         /\ \/ PairGoesOn(q, written) /\ UNCHANGED masked
            \/ /\ written # Paired /\ masked' = masked \cup {s}
               /\ PairGoesOn(q, Paired)
    /\ UNCHANGED <<sessions, quality, seen, lost, peak, unguarded, requests, faults, clock>>

(* The certificate's turn comes when tls is settled.                       *)
Turn(q, j) == j = "certificate" => request[q].job["tls"] \in Settled

(* Mutant: evidence that could not be read back counts as scored.          *)
ReadBackFailsAsScored(q, j) ==
    /\ Scanning(q) /\ request[q].job[j] = "score" /\ Turn(q, j)
    /\ Settle(q, j, "scored") /\ Fault
    /\ UNCHANGED <<sessions, evidence, quality, seen, masked, lost, peak, unguarded, requests, clock>>

(* The read-back answers an error, or there is no row to find: observed,   *)
(* and not scored.                                                         *)
ReadBackFails(q, j) ==
    /\ Scanning(q) /\ request[q].job[j] = "score" /\ Turn(q, j)
    /\ IF j \in evidence[request[q].session] THEN Fault ELSE UNCHANGED faults
    /\ Settle(q, j, "observed")
    /\ UNCHANGED <<sessions, evidence, quality, seen, masked, lost, peak, unguarded, requests, clock>>

(* Read back, then persistOnDemandQuality: the quality row is written, or  *)
(* the facts are not scorable or the insert answers an error.              *)
Score(q, j) ==
    LET s == request[q].session IN
    /\ Scanning(q) /\ request[q].job[j] = "score" /\ Turn(q, j) /\ j \in evidence[s]
    /\ \/ /\ quality' = [quality EXCEPT ![s] = @ \cup {j}]
          /\ Settle(q, j, "scored")
       \/ UNCHANGED quality /\ Settle(q, j, "observed")
    /\ UNCHANGED <<sessions, evidence, seen, masked, lost, peak, unguarded, requests, faults, clock>>

(* Reading the child rows or scoring throws (reconstructFacts, scoreFn):   *)
(* Promise.all rejects, and tls takes the certificate with it.             *)
ScoreThrows(q, j) ==
    /\ Scanning(q) /\ request[q].job[j] = "score" /\ Turn(q, j)
    /\ j \in evidence[request[q].session]
    /\ request' = [request EXCEPT ![q].job =
         [i \in Signal |-> IF i = j THEN "threw"
                           ELSE IF j = "tls" /\ i = "certificate" /\ @[i] = "score" THEN "abandoned"
                           ELSE @[i]]]
    /\ Fault
    /\ UNCHANGED <<sessions, evidence, quality, seen, masked, lost, peak, unguarded, requests, clock>>

Threw(q)      == \E j \in Signal : request[q].job[j] = "threw"
AllSettled(q) == \A j \in Signal : request[q].job[j] \in Settled
Count(q, phases) == Cardinality({j \in Signal : request[q].job[j] \in phases})

(* transition: its answer is not looked at; a session it could not close   *)
(* stays running.                                                          *)
Transition(q, row) ==
    \/ /\ sessions' = [sessions EXCEPT ![request[q].session] = row]
       /\ UNCHANGED <<lost, faults>>
    \/ /\ lost' = lost \cup {request[q].session} /\ Fault
       /\ UNCHANGED sessions

Complete(q) ==
    /\ request[q].pc = "scan" /\ AllSettled(q) /\ ~Threw(q)
    /\ Transition(q, [sessions[request[q].session] EXCEPT !.status = "completed",
                        !.observed = Count(q, {"observed", "scored"}),
                        !.scored = Count(q, {"scored"}), !.failed = Count(q, {"failed"})])
    /\ request' = [request EXCEPT ![q] = Idle]
    /\ UNCHANGED <<evidence, quality, seen, masked, peak, unguarded, requests, clock>>

(* Mutant: nobody catches the rejection.                                   *)
RejectUncaught(q) ==
    /\ request[q].pc = "scan" /\ Threw(q)
    /\ request' = [request EXCEPT ![q].pc = "rejected"]
    /\ UNCHANGED <<sessions, evidence, quality, seen, masked, lost, peak, unguarded, requests, faults, clock>>

(* Promise.all rejects at the first signal that throws; the others go on.  *)
Reject(q) ==
    /\ request[q].pc = "scan" /\ Threw(q)
    /\ Transition(q, [sessions[request[q].session] EXCEPT !.status = "failed"])
    /\ request' = [request EXCEPT ![q].pc = "rejected"]
    /\ UNCHANGED <<evidence, quality, seen, masked, peak, unguarded, requests, clock>>

(* The last signal of a rejected scan has come to its end.                 *)
RunDown(q) ==
    /\ request[q].pc = "rejected" /\ AllSettled(q)
    /\ request' = [request EXCEPT ![q] = Idle]
    /\ UNCHANGED <<sessions, evidence, quality, seen, masked, lost, peak, unguarded, requests, faults, clock>>

(* The process dies with everything it had under way.                      *)
Restart ==
    /\ \E q \in Request : request[q].pc # "idle"
    /\ request' = [q \in Request |-> Idle]
    /\ lost' = lost \cup Running
    /\ Fault
    /\ UNCHANGED <<sessions, evidence, quality, seen, masked, peak, unguarded, requests, clock>>

(* Time passes up to MaxClock, from the first session on (it is compared   *)
(* with nothing before), and as long as a request is to come or has not    *)
(* read the clock for the last time: a scan under way never reads it.      *)
Tick ==
    /\ Existing # {} /\ clock < MaxClock /\ clock' = clock + 1
    /\ \/ requests < MaxRequests
       \/ \E q \in Request : request[q].pc \in {"cooldown", "count", "create"}
    /\ UNCHANGED <<sessions, evidence, quality, request, seen, masked, lost, peak, unguarded, requests, faults>>

Answer(q) ==
    \/ CheckDomainCooldown(q) \/ DomainCooldownFails(q)
    \/ CheckConcurrency(q) \/ ConcurrencyCountFails(q)
    \/ CreateSession(q) \/ CreateSessionFails(q)

Scan(q) ==
    \/ CollectPair(q)
    \/ \E j \in Signal :
         \/ Collect(q, j)
         \/ Score(q, j) \/ ReadBackFails(q, j) \/ ScoreThrows(q, j)
    \/ Complete(q) \/ Reject(q) \/ RunDown(q)

Next ==
    \/ \E q \in Request :
         \/ \E d \in Domain : PostPublicScan(q, d) \/ PostOnDemand(q, d)
         \/ Answer(q) \/ Scan(q)
    \/ Restart \/ Tick

Spec == Init /\ [][Next]_vars

-----------------------------------------------------------------------------
(* Properties.                                                             *)

(* Rows and requests are well-formed; a request past its 202 works on a    *)
(* session of its own that exists.                                         *)
TypeOK ==
    /\ sessions \in [SessionId -> Session]
    /\ evidence \in [SessionId -> SUBSET Signal]
    /\ quality \in [SessionId -> SUBSET Signal]
    /\ request \in [Request -> RequestState]
    /\ seen \in [SessionId -> SUBSET SessionId]
    /\ masked \subseteq SessionId /\ lost \subseteq SessionId /\ peak \in Nat /\ unguarded \in Nat
    /\ requests \in 0..MaxRequests /\ faults \in 0..MaxFaults /\ clock \in Nat
    /\ \A q \in Request : request[q].session # Null <=> Scanning(q)
    /\ \A q \in Request : Scanning(q) => request[q].session \in Existing

(* publicScanConcurrencyGuard.js, "system-wide in-flight concurrency       *)
(* ceiling": the count is read before the session that raises it exists,   *)
(* so requests pass together; they overshoot the ceiling by no more than   *)
(* the others that were past the guard at once and those it did not count. *)
OvershootBounded ==
    peak > 0 =>
        Cardinality(Running) + Cardinality(Admitted) <= Ceiling + (peak - 1) + unguarded

(* publicScanDomainCooldown.js, "instead of starting a second, concurrent  *)
(* run for the same domain": whatever became of a scan, a second one of    *)
(* its domain starts within the cooldown only if the first did not exist   *)
(* when that second request read the cooldown, if it did read it.          *)
NoRescanUnlessRaced ==
    \A s, t \in Existing :
        /\ s # t /\ sessions[s].domain = sessions[t].domain
        /\ sessions[s].created <= sessions[t].created
        /\ sessions[t].created <= sessions[s].created + Cooldown
        => s \notin seen[t]

(* on-demand-observation.js, "Truthful session completion": a completed    *)
(* session has an outcome for every signal, a quality row for each it      *)
(* calls scored and an evidence row for each it calls observed, but for a  *)
(* pair whose missing row an exception hid; whatever was scored has its    *)
(* evidence, and nothing of the scan is still at work.                     *)
Claimed(s) == IF s \in masked THEN evidence[s] \cup Paired ELSE evidence[s]
CompletionIsTruthful ==
    \A s \in SessionId : sessions[s].status = "completed" =>
        /\ sessions[s].observed + sessions[s].failed = Cardinality(Signal)
        /\ sessions[s].observed <= Cardinality(Claimed(s))
        /\ sessions[s].scored <= Cardinality(quality[s]) /\ quality[s] \subseteq evidence[s]
        /\ \A q \in Request : request[q].session # s

(* A running session takes one of the places the concurrency guard counts: *)
(* it is the session of a scan whose outcome is still open, unless a       *)
(* restart or a failed call lost it.                                       *)
RunningIsScanned ==
    \A s \in Running \ lost : \E q \in Request : request[q].pc = "scan" /\ request[q].session = s

(* Seen in the tables, racing, failing and restarted requests make the     *)
(* sessions of ScanRecord: each is closed at most once, a completed one    *)
(* with an account of its rows that is exact, but for a masked pair, and   *)
(* nothing written after it, and one that is lost never (no code path      *)
(* looks for it).                                                          *)
Record == INSTANCE ScanRecord
KeepsRecord == Record!Spec
=============================================================================

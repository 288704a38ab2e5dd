--------------------------- MODULE PublicScanProofs ---------------------------
(***************************************************************************)
(* Proofs about public and authenticated scans for any number of requests, *)
(* domains, signals and faults, any ceiling and any cooldown.              *)
(***************************************************************************)
EXTENDS PublicScan, FiniteSetTheorems, TLAPS

-----------------------------------------------------------------------------
(* Type correctness.                                                       *)

LEMMA NullIsNoSession == Null \notin SessionId
  BY ScanAssumption DEF SessionId

(* A request after a step of its own, in its new state r.                  *)
RequestOK(r) ==
    /\ r \in RequestState
    /\ r.session # Null <=> r.pc \in {"scan", "rejected"}
    /\ r.session # Null => r.session \in Existing'

LEMMA IdleOK == RequestOK(Idle)
  BY DEF RequestOK, RequestState, Idle, Phase, Settled

LEMMA RequestStep ==
    ASSUME TypeOK, NEW q \in Request, NEW r, RequestOK(r),
           request' = [request EXCEPT ![q] = r], Existing \subseteq Existing'
    PROVE  /\ request' \in [Request -> RequestState]
           /\ \A p \in Request : request'[p].session # Null <=> request'[p].pc \in {"scan", "rejected"}
           /\ \A p \in Request : request'[p].pc \in {"scan", "rejected"} => request'[p].session \in Existing'
<1>1. \A p \in Request : request'[p] = IF p = q THEN r ELSE request[p]
  BY DEF TypeOK
<1>2. QED BY <1>1 DEF TypeOK, RequestOK, Scanning

LEMMA AdmitType == TypeOK /\ request' \in [Request -> RequestState] /\ Admit => peak' \in Nat
<1> SUFFICES ASSUME TypeOK, Admit PROVE peak' \in Nat
  OBVIOUS
<1>1. Admitted' \in SUBSET Request
  BY DEF Admitted
<1>2. Cardinality(Admitted') \in Nat
  BY <1>1, ScanAssumption, FS_Subset, FS_CardinalityType
<1>3. QED BY <1>2 DEF Admit, TypeOK

LEMMA FaultType == TypeOK /\ Fault => faults' \in 0..MaxFaults
  BY ScanAssumption DEF TypeOK, Fault

(* A scanning request has a session, which exists.                         *)
LEMMA ScanningSession ==
    ASSUME TypeOK, NEW q \in Request, Scanning(q)
    PROVE  /\ request[q] \in RequestState /\ request[q].session \in SessionId
           /\ request[q].session \in Existing /\ request[q].session # Null
           /\ sessions[request[q].session] \in Session
  BY NullIsNoSession DEF TypeOK, RequestState, Existing

LEMMA TypeInit == Init => TypeOK
<1> SUFFICES ASSUME Init PROVE TypeOK
  OBVIOUS
<1>1. NoSession \in Session /\ Idle \in RequestState
  BY DEF NoSession, Session, SessionStatus, Idle, RequestState, Phase, Settled
<1>2. QED BY <1>1, ScanAssumption DEF Init, TypeOK, Scanning, Idle

LEMMA TypeReceive ==
    ASSUME TypeOK, NEW q \in Request, NEW d \in Domain, PostPublicScan(q, d) \/ PostOnDemand(q, d)
    PROVE  TypeOK'
<1>1. PICK pc \in {"cooldown", "create"} : Receive(q, d, pc)
  BY DEF PostPublicScan, PostOnDemand
<1> DEFINE r == [Idle EXCEPT !.pc = pc, !.domain = d]
<1>2. Existing' = Existing
  BY DEF PostPublicScan, PostOnDemand, Existing
<1>3. RequestOK(r)
  BY DEF RequestOK, RequestState, Idle, Phase, Settled
<1>4. /\ request' \in [Request -> RequestState]
      /\ \A p \in Request : request'[p].session # Null <=> Scanning(p)'
      /\ \A p \in Request : Scanning(p)' => request'[p].session \in Existing'
  BY <1>1, <1>2, <1>3, RequestStep DEF Receive, Scanning
<1>5. requests' \in 0..MaxRequests
  BY <1>1, ScanAssumption DEF Receive, TypeOK
<1>6. peak' \in Nat /\ unguarded' \in Nat
  BY <1>4, AdmitType DEF PostPublicScan, PostOnDemand, TypeOK
<1>7. QED BY <1>4, <1>5, <1>6 DEF PostPublicScan, PostOnDemand, TypeOK

(* The session a request is given.                                         *)
LEMMA CreatedType ==
    ASSUME TypeOK, NEW q \in Request, NEW s \in SessionId, Created(q, s)
    PROVE  /\ sessions' \in [SessionId -> Session] /\ seen' \in [SessionId -> SUBSET SessionId]
           /\ s \in Existing' /\ Existing \subseteq Existing'
           /\ \A t \in SessionId : t # s => sessions'[t] = sessions[t] /\ seen'[t] = seen[t]
           /\ sessions'[s].status = "running" /\ sessions'[s].created = clock
           /\ sessions'[s].domain = request[q].domain /\ seen'[s] = request[q].seen
<1> DEFINE row == [NoSession EXCEPT !.status = "running", !.domain = request[q].domain, !.created = clock]
<1>1. request[q] \in RequestState
  BY DEF TypeOK
<1>2. /\ row \in Session /\ row.status = "running" /\ row.created = clock
      /\ row.domain = request[q].domain
  BY <1>1 DEF TypeOK, RequestState, NoSession, Session, SessionStatus
<1>3. sessions' = [sessions EXCEPT ![s] = row] /\ seen' = [seen EXCEPT ![s] = request[q].seen]
  BY DEF Created
<1> HIDE DEF row
<1>4. QED BY <1>1, <1>2, <1>3 DEF TypeOK, RequestState, Existing

LEMMA TypeAnswer == ASSUME TypeOK, NEW q \in Request, Answer(q) PROVE TypeOK'
<1>0. request[q] \in RequestState /\ request \in [Request -> RequestState]
  BY DEF TypeOK
<1>a. Existing \in SUBSET SessionId
  BY DEF Existing
<1>1. CASE CheckDomainCooldown(q)
  <2>1. Existing' = Existing
    BY <1>1 DEF CheckDomainCooldown, Existing
  <2> DEFINE r == [request[q] EXCEPT !.pc = "count", !.seen = Existing]
  <2>2. RequestOK(r)
    BY <1>0, <1>a, <1>1 DEF CheckDomainCooldown, RequestOK, RequestState, TypeOK, Scanning
  <2>3. PICK v \in {r, Idle} : request' = [request EXCEPT ![q] = v]
    BY <1>0, <1>1 DEF CheckDomainCooldown
  <2>4. QED
    BY <1>1, <2>1, <2>2, <2>3, IdleOK, RequestStep DEF CheckDomainCooldown, TypeOK, Scanning
<1>2. CASE DomainCooldownFails(q)
  <2>1. Existing' = Existing
    BY <1>2 DEF DomainCooldownFails, Existing
  <2> DEFINE r == [request[q] EXCEPT !.pc = "count"]
  <2>2. RequestOK(r) /\ request' = [request EXCEPT ![q] = r]
    BY <1>0, <1>2 DEF DomainCooldownFails, RequestOK, RequestState, TypeOK, Scanning
  <2>3. QED
    BY <1>2, <2>1, <2>2, FaultType, RequestStep DEF DomainCooldownFails, TypeOK, Scanning
<1>3. CASE CheckConcurrency(q)
  <2>1. Existing' = Existing
    BY <1>3 DEF CheckConcurrency, Existing
  <2> DEFINE r == [request[q] EXCEPT !.pc = "create"]
  <2>2. RequestOK(r)
    BY <1>0, <1>3 DEF CheckConcurrency, RequestOK, RequestState, TypeOK, Scanning
  <2>3. PICK v \in {r, Idle} : request' = [request EXCEPT ![q] = v]
    BY <1>0, <1>3 DEF CheckConcurrency
  <2>4. QED
    BY <1>3, <2>1, <2>2, <2>3, IdleOK, AdmitType, RequestStep DEF CheckConcurrency, TypeOK, Scanning
<1>4. CASE ConcurrencyCountFails(q)
  <2>1. Existing' = Existing
    BY <1>4 DEF ConcurrencyCountFails, Existing
  <2> DEFINE r == [request[q] EXCEPT !.pc = "create"]
  <2>2. RequestOK(r) /\ request' = [request EXCEPT ![q] = r]
    BY <1>0, <1>4 DEF ConcurrencyCountFails, RequestOK, RequestState, TypeOK, Scanning
  <2>3. /\ request' \in [Request -> RequestState]
        /\ \A p \in Request : request'[p].session # Null <=> Scanning(p)'
        /\ \A p \in Request : Scanning(p)' => request'[p].session \in Existing'
    BY <2>1, <2>2, RequestStep DEF Scanning
  <2>4. peak' \in Nat /\ unguarded' \in Nat /\ faults' \in 0..MaxFaults
    BY <1>4, <2>3, FaultType, AdmitType DEF ConcurrencyCountFails, TypeOK
  <2>5. QED BY <1>4, <2>3, <2>4 DEF ConcurrencyCountFails, TypeOK
<1>5. CASE CreateSession(q)
  <2>1. PICK s \in SessionId : /\ Created(q, s)
                               /\ request' = [request EXCEPT ![q].pc = "scan", ![q].session = s]
    BY <1>5 DEF CreateSession
  <2> DEFINE r == [request[q] EXCEPT !.pc = "scan", !.session = s]
  <2>2. RequestOK(r) /\ request' = [request EXCEPT ![q] = r]
    BY <1>0, <2>1, CreatedType, NullIsNoSession DEF RequestOK, RequestState
  <2>3. QED BY <1>5, <2>1, <2>2, CreatedType, RequestStep DEF CreateSession, TypeOK, Scanning
<1>6. CASE CreateSessionFails(q)
  <2>1. /\ sessions' \in [SessionId -> Session] /\ seen' \in [SessionId -> SUBSET SessionId]
        /\ Existing \subseteq Existing' /\ lost' \subseteq SessionId
    <3>1. CASE UNCHANGED <<sessions, seen, lost>>
      BY <3>1 DEF TypeOK, Existing
    <3>2. CASE \E s \in SessionId : Created(q, s) /\ lost' = lost \cup {s}
      BY <3>2, CreatedType DEF TypeOK
    <3>3. QED BY <1>6, <3>1, <3>2 DEF CreateSessionFails
  <2>2. QED
    BY <1>6, <2>1, IdleOK, FaultType, RequestStep DEF CreateSessionFails, TypeOK, Scanning
<1>7. QED BY <1>1, <1>2, <1>3, <1>4, <1>5, <1>6 DEF Answer

(* A signal of a scan goes on.                                             *)
LEMMA JobOK ==
    ASSUME TypeOK, NEW q \in Request, Scanning(q), NEW job \in [Signal -> Phase],
           request' = [request EXCEPT ![q].job = job], sessions' = sessions
    PROVE  /\ request' \in [Request -> RequestState]
           /\ \A p \in Request : request'[p].session # Null <=> Scanning(p)'
           /\ \A p \in Request : Scanning(p)' => request'[p].session \in Existing'
<1> DEFINE r == [request[q] EXCEPT !.job = job]
<1>1. Existing' = Existing
  BY DEF Existing
<1>2. RequestOK(r)
  BY <1>1, ScanningSession DEF RequestOK, RequestState, Scanning
<1>3. request' = [request EXCEPT ![q] = r]
  BY DEF TypeOK
<1>4. QED BY <1>1, <1>2, <1>3, RequestStep DEF Scanning

LEMMA SettleOK ==
    ASSUME TypeOK, NEW q \in Request, Scanning(q), NEW j \in Signal, NEW phase \in Phase,
           Settle(q, j, phase)
    PROVE  /\ [request[q].job EXCEPT ![j] = phase] \in [Signal -> Phase]
           /\ request' = [request EXCEPT ![q].job = [request[q].job EXCEPT ![j] = phase]]
<1>1. request[q] \in RequestState
  BY DEF TypeOK
<1>2. QED BY <1>1 DEF Settle, TypeOK, RequestState

(* The phases a step of one signal, or of the pair, leads to.              *)
LEMMA JobStep ==
    ASSUME TypeOK, NEW q \in Request,
           \/ CollectPair(q)
           \/ \E j \in Signal : Collect(q, j) \/ Score(q, j) \/ ReadBackFails(q, j) \/ ScoreThrows(q, j)
    PROVE  /\ Scanning(q) /\ UNCHANGED sessions
           /\ \E job \in [Signal -> Phase] :
                 /\ request' = [request EXCEPT ![q].job = job]
                 /\ \A i \in Signal : request[q].job[i] \in Settled => job[i] = request[q].job[i]
                 /\ \A i \in Signal : job[i] = "abandoned" =>
                       request[q].job[i] = "abandoned" \/ \E k \in Signal : job[k] = "threw"
                 /\ \A i \in Signal : job[i] \notin {"collect", "failed"} =>
                       \/ i \in evidence'[request[q].session]
                       \/ i \in Paired /\ request[q].session \in masked'
                       \/ request[q].job[i] \notin {"collect", "failed"}
                 /\ \A i \in Signal : job[i] = "scored" =>
                       i \in quality'[request[q].session] \/ request[q].job[i] = "scored"
<1>0. /\ request[q] \in RequestState /\ request[q].job \in [Signal -> Phase]
      /\ evidence \in [SessionId -> SUBSET Signal] /\ quality \in [SessionId -> SUBSET Signal]
  BY DEF TypeOK, RequestState
<1>a. {"failed", "score", "scored", "observed", "threw", "abandoned"} \subseteq Phase
  BY DEF Phase, Settled
<1> DEFINE Good(job) ==
             /\ request' = [request EXCEPT ![q].job = job]
             /\ \A i \in Signal : request[q].job[i] \in Settled => job[i] = request[q].job[i]
             /\ \A i \in Signal : job[i] = "abandoned" =>
                   request[q].job[i] = "abandoned" \/ \E k \in Signal : job[k] = "threw"
             /\ \A i \in Signal : job[i] \notin {"collect", "failed"} =>
                   \/ i \in evidence'[request[q].session]
                   \/ i \in Paired /\ request[q].session \in masked'
                   \/ request[q].job[i] \notin {"collect", "failed"}
             /\ \A i \in Signal : job[i] = "scored" =>
                   i \in quality'[request[q].session] \/ request[q].job[i] = "scored"
<1>1. ASSUME NEW j \in Signal, Collect(q, j)
      PROVE  Scanning(q) /\ UNCHANGED sessions /\ \E job \in [Signal -> Phase] : Good(job)
  <2>1. Scanning(q) /\ UNCHANGED sessions /\ request[q].job[j] = "collect"
    BY <1>1 DEF Collect
  <2>2. PICK phase \in {"score", "failed"} :
            Settle(q, j, phase) /\ (phase = "score" => j \in evidence'[request[q].session])
    BY <1>0, <1>1, <2>1, ScanningSession DEF Collect
  <2> DEFINE job == [request[q].job EXCEPT ![j] = phase]
  <2>3. job \in [Signal -> Phase] /\ request' = [request EXCEPT ![q].job = job]
    BY <1>a, <2>1, <2>2, SettleOK
  <2>4. \A i \in Signal : job[i] = IF i = j THEN phase ELSE request[q].job[i]
    BY <1>0
  <2> HIDE DEF job
  <2>5. Good(job)
    BY <2>1, <2>2, <2>3, <2>4 DEF Settled
  <2>6. QED BY <2>1, <2>3, <2>5
<1>2. ASSUME NEW j \in Signal, Score(q, j) \/ ReadBackFails(q, j)
      PROVE  Scanning(q) /\ UNCHANGED sessions /\ \E job \in [Signal -> Phase] : Good(job)
  <2>1. Scanning(q) /\ UNCHANGED sessions /\ request[q].job[j] = "score"
    BY <1>2 DEF Score, ReadBackFails
  <2>2. PICK phase \in {"scored", "observed"} :
            Settle(q, j, phase) /\ (phase = "scored" => j \in quality'[request[q].session])
    BY <1>0, <1>2, <2>1, ScanningSession DEF Score, ReadBackFails
  <2> DEFINE job == [request[q].job EXCEPT ![j] = phase]
  <2>3. job \in [Signal -> Phase] /\ request' = [request EXCEPT ![q].job = job]
    BY <1>a, <2>1, <2>2, SettleOK
  <2>4. \A i \in Signal : job[i] = IF i = j THEN phase ELSE request[q].job[i]
    BY <1>0
  <2> HIDE DEF job
  <2>5. Good(job)
    BY <2>1, <2>2, <2>3, <2>4 DEF Settled
  <2>6. QED BY <2>1, <2>3, <2>5
<1>3. ASSUME NEW j \in Signal, ScoreThrows(q, j)
      PROVE  Scanning(q) /\ UNCHANGED sessions /\ \E job \in [Signal -> Phase] : Good(job)
  <2>1. Scanning(q) /\ UNCHANGED sessions /\ request[q].job[j] = "score"
    BY <1>3 DEF ScoreThrows
  <2> DEFINE job == [i \in Signal |->
                       IF i = j THEN "threw"
                       ELSE IF j = "tls" /\ i = "certificate" /\ request[q].job[i] = "score"
                       THEN "abandoned" ELSE request[q].job[i]]
  <2>2. request' = [request EXCEPT ![q].job = job]
    BY <1>0, <1>3 DEF ScoreThrows, TypeOK
  <2>3. job \in [Signal -> Phase]
    BY <1>0, <1>a
  <2>4. \A i \in Signal : job[i] = IF i = j THEN "threw"
                                   ELSE IF j = "tls" /\ i = "certificate" /\ request[q].job[i] = "score"
                                   THEN "abandoned" ELSE request[q].job[i]
    OBVIOUS
  <2> HIDE DEF job
  <2>5. Good(job)
    BY <2>1, <2>2, <2>4 DEF Settled
  <2>6. QED BY <2>1, <2>3, <2>5
<1>4. ASSUME CollectPair(q)
      PROVE  Scanning(q) /\ UNCHANGED sessions /\ \E job \in [Signal -> Phase] : Good(job)
  <2>1. Scanning(q) /\ UNCHANGED sessions /\ \A j \in Paired : request[q].job[j] = "collect"
    BY <1>4 DEF CollectPair
  <2>2. PICK written \in SUBSET Paired, read \in SUBSET Paired :
          /\ evidence' = [evidence EXCEPT ![request[q].session] = @ \cup written]
          /\ PairGoesOn(q, read)
          /\ read = written \/ request[q].session \in masked'
    BY <1>4 DEF CollectPair
  <2> DEFINE job == [j \in Signal |-> IF j \notin Paired THEN request[q].job[j]
                                      ELSE IF j \in read THEN "score" ELSE "failed"]
  <2>3. request' = [request EXCEPT ![q].job = job]
    BY <1>0, <2>2 DEF PairGoesOn, TypeOK
  <2>4. job \in [Signal -> Phase]
    BY <1>0, <1>a
  <2>5. \A j \in Signal : job[j] = IF j \notin Paired THEN request[q].job[j]
                                   ELSE IF j \in read THEN "score" ELSE "failed"
    OBVIOUS
  <2>6. \A j \in read : j \in evidence'[request[q].session] \/ request[q].session \in masked'
    BY <1>0, <2>1, <2>2, ScanningSession
  <2> HIDE DEF job
  <2>7. Good(job)
    BY <2>1, <2>3, <2>5, <2>6 DEF Settled
  <2>8. QED BY <2>1, <2>4, <2>7
<1>5. QED BY <1>1, <1>2, <1>3, <1>4

LEMMA TypeJob ==
    ASSUME TypeOK, NEW q \in Request,
           \/ CollectPair(q)
           \/ \E j \in Signal : Collect(q, j) \/ Score(q, j) \/ ReadBackFails(q, j) \/ ScoreThrows(q, j)
    PROVE  TypeOK'
<1>1. /\ request' \in [Request -> RequestState] /\ UNCHANGED sessions
      /\ \A p \in Request : request'[p].session # Null <=> Scanning(p)'
      /\ \A p \in Request : Scanning(p)' => request'[p].session \in Existing'
  BY JobStep, JobOK
<1>2. CASE CollectPair(q)
  <2>1. PICK written \in SUBSET Paired : evidence' = [evidence EXCEPT ![request[q].session] = @ \cup written]
    BY <1>2 DEF CollectPair
  <2>2. written \in SUBSET Signal
    BY DEF Signal
  <2>3. evidence' \in [SessionId -> SUBSET Signal]
    BY <2>1, <2>2 DEF TypeOK
  <2>4. masked' \subseteq SessionId
    BY <1>2, ScanningSession DEF CollectPair, TypeOK
  <2>5. QED BY <1>1, <1>2, <2>3, <2>4 DEF CollectPair, TypeOK
<1>3. ASSUME NEW j \in Signal, Collect(q, j) PROVE TypeOK'
  BY <1>1, <1>3 DEF Collect, TypeOK
<1>4. ASSUME NEW j \in Signal, Score(q, j) PROVE TypeOK'
  BY <1>1, <1>4 DEF Score, TypeOK
<1>5. ASSUME NEW j \in Signal, ReadBackFails(q, j) PROVE TypeOK'
  BY <1>1, <1>5, FaultType DEF ReadBackFails, TypeOK
<1>6. ASSUME NEW j \in Signal, ScoreThrows(q, j) PROVE TypeOK'
  BY <1>1, <1>6, FaultType DEF ScoreThrows, TypeOK
<1>7. QED BY <1>2, <1>3, <1>4, <1>5, <1>6

LEMMA SignalsFinite == IsFiniteSet(Signal)
<1>1. IsFiniteSet({"tls"}) /\ IsFiniteSet({"certificate"})
  BY FS_Singleton
<1>2. IsFiniteSet({"tls"} \cup {"certificate"})
  BY <1>1, FS_Union
<1>3. Paired = {"tls"} \cup {"certificate"}
  BY DEF Paired
<1>4. QED BY <1>2, <1>3, FS_Union, ScanAssumption DEF Signal

LEMMA SignalSets ==
    ASSUME NEW S \in SUBSET Signal
    PROVE  IsFiniteSet(S) /\ Cardinality(S) \in Nat
  BY SignalsFinite, FS_Subset, FS_CardinalityType

LEMMA CountType ==
    ASSUME NEW q \in Request, NEW phases
    PROVE  Count(q, phases) \in Nat
  BY SignalSets DEF Count

(* What the end of a scan does to the row of its session.                  *)
LEMMA TransitionType ==
    ASSUME TypeOK, NEW q \in Request, Scanning(q), NEW row \in Session,
           row.status \in {"completed", "failed"}, Transition(q, row)
    PROVE  /\ sessions' \in [SessionId -> Session] /\ lost' \subseteq SessionId
           /\ faults' \in 0..MaxFaults /\ lost \subseteq lost' /\ Existing' = Existing
           /\ \A t \in SessionId : t # request[q].session => sessions'[t] = sessions[t]
           /\ \/ sessions'[request[q].session] = row
              \/ /\ sessions'[request[q].session] = sessions[request[q].session]
                 /\ request[q].session \in lost'
<1> DEFINE s == request[q].session
<1>0. s \in SessionId /\ s \in Existing /\ sessions[s] \in Session
  BY ScanningSession
<1>1. CASE sessions' = [sessions EXCEPT ![s] = row] /\ UNCHANGED <<lost, faults>>
  BY <1>0, <1>1 DEF TypeOK, Existing
<1>2. CASE lost' = lost \cup {s} /\ Fault /\ UNCHANGED sessions
  BY <1>0, <1>2, FaultType DEF TypeOK, Existing
<1>3. QED BY <1>1, <1>2 DEF Transition

CompletedRow(q) ==
    [sessions[request[q].session] EXCEPT !.status = "completed",
       !.observed = Count(q, {"observed", "scored"}),
       !.scored = Count(q, {"scored"}), !.failed = Count(q, {"failed"})]
FailedRow(q) == [sessions[request[q].session] EXCEPT !.status = "failed"]

LEMMA EndRows ==
    ASSUME TypeOK, NEW q \in Request, Scanning(q)
    PROVE  LET row == sessions[request[q].session] IN
           /\ CompletedRow(q) \in Session /\ CompletedRow(q).status = "completed"
           /\ CompletedRow(q).observed = Count(q, {"observed", "scored"})
           /\ CompletedRow(q).scored = Count(q, {"scored"})
           /\ CompletedRow(q).failed = Count(q, {"failed"})
           /\ CompletedRow(q).domain = row.domain /\ CompletedRow(q).created = row.created
           /\ FailedRow(q) \in Session /\ FailedRow(q).status = "failed"
           /\ FailedRow(q).domain = row.domain /\ FailedRow(q).created = row.created
  BY ScanningSession, CountType DEF CompletedRow, FailedRow, Session, SessionStatus

LEMMA TypeEnd ==
    ASSUME TypeOK, NEW q \in Request, Complete(q) \/ Reject(q) \/ RunDown(q)
    PROVE  TypeOK'
<1>0. Scanning(q) /\ request[q] \in RequestState /\ request \in [Request -> RequestState]
  BY DEF Complete, Reject, RunDown, Scanning, TypeOK
<1>1. CASE Complete(q)
  <2>1. Transition(q, CompletedRow(q)) /\ request' = [request EXCEPT ![q] = Idle]
    BY <1>1 DEF Complete, CompletedRow
  <2>2. /\ sessions' \in [SessionId -> Session] /\ lost' \subseteq SessionId
        /\ faults' \in 0..MaxFaults /\ Existing' = Existing
    BY <1>0, <2>1, EndRows, TransitionType
  <2>3. QED BY <1>1, <2>1, <2>2, IdleOK, RequestStep DEF Complete, TypeOK, Scanning
<1>2. CASE Reject(q)
  <2>1. Transition(q, FailedRow(q)) /\ request' = [request EXCEPT ![q].pc = "rejected"]
    BY <1>2 DEF Reject, FailedRow
  <2>2. /\ sessions' \in [SessionId -> Session] /\ lost' \subseteq SessionId
        /\ faults' \in 0..MaxFaults /\ Existing' = Existing
    BY <1>0, <2>1, EndRows, TransitionType
  <2> DEFINE r == [request[q] EXCEPT !.pc = "rejected"]
  <2>3. RequestOK(r) /\ request' = [request EXCEPT ![q] = r]
    BY <1>0, <2>1, <2>2, ScanningSession DEF RequestOK, RequestState
  <2>4. QED BY <1>2, <2>2, <2>3, RequestStep DEF Reject, TypeOK, Scanning
<1>3. CASE RunDown(q)
  <2>1. Existing' = Existing
    BY <1>3 DEF RunDown, Existing
  <2>2. QED BY <1>3, <2>1, IdleOK, RequestStep DEF RunDown, TypeOK, Scanning
<1>4. QED BY <1>1, <1>2, <1>3

LEMMA TypeStep == TypeOK /\ [Next]_vars => TypeOK'
<1> SUFFICES ASSUME TypeOK, [Next]_vars PROVE TypeOK'
  OBVIOUS
<1>1. ASSUME NEW q \in Request, NEW d \in Domain, PostPublicScan(q, d) \/ PostOnDemand(q, d)
      PROVE  TypeOK'
  BY <1>1, TypeReceive
<1>2. ASSUME NEW q \in Request, Answer(q) PROVE TypeOK'
  BY <1>2, TypeAnswer
<1>3. ASSUME NEW q \in Request, Scan(q) PROVE TypeOK'
  BY <1>3, TypeJob, TypeEnd DEF Scan
<1>4. CASE Restart
  <2>1. request' \in [Request -> RequestState] /\ \A p \in Request : request'[p] = Idle
    BY <1>4, IdleOK DEF Restart, RequestOK
  <2>2. Running \subseteq SessionId
    BY DEF Running
  <2>3. QED BY <1>4, <2>1, <2>2, FaultType DEF Restart, TypeOK, Scanning, Idle
<1>5. CASE Tick
  BY <1>5 DEF Tick, TypeOK, Scanning, Existing
<1>6. CASE UNCHANGED vars
  BY <1>6 DEF vars, TypeOK, Scanning, Existing
<1>7. QED BY <1>1, <1>2, <1>3, <1>4, <1>5, <1>6 DEF Next

(* Rows and requests stay well-formed: whoever works on a session works on *)
(* one that exists.                                                        *)
THEOREM TypeCorrect == Spec => []TypeOK
<1>1. QED BY TypeInit, TypeStep, PTL DEF Spec

-----------------------------------------------------------------------------
(* What a step does to a session.                                          *)

LEMMA StepOfSession ==
    ASSUME TypeOK, [Next]_vars, NEW s \in Existing
    PROVE  /\ \/ sessions'[s] = sessions[s]
              \/ \E q \in Request : request[q].session = s /\ (Complete(q) \/ Reject(q))
           /\ sessions'[s].domain = sessions[s].domain /\ sessions'[s].created = sessions[s].created
           /\ seen'[s] = seen[s] /\ s \in Existing'
           /\ \A p \in Request : request'[p].session = s => request[p].session = s
<1> DEFINE Kept == sessions'[s] = sessions[s] /\ seen'[s] = seen[s] /\ s \in Existing'
                   /\ \A p \in Request : request'[p].session = s => request[p].session = s
<1> SUFFICES \/ Kept
             \/ /\ \E q \in Request : request[q].session = s /\ (Complete(q) \/ Reject(q))
                /\ sessions'[s].domain = sessions[s].domain /\ sessions'[s].created = sessions[s].created
                /\ seen'[s] = seen[s] /\ s \in Existing'
                /\ \A p \in Request : request'[p].session = s => request[p].session = s
  OBVIOUS
<1>0. /\ request \in [Request -> RequestState] /\ s \in SessionId /\ Null \notin SessionId
      /\ sessions[s].status # "none" /\ Idle.session = Null
  BY NullIsNoSession DEF TypeOK, Existing, Idle
<1>1. ASSUME NEW q \in Request, NEW d \in Domain, PostPublicScan(q, d) \/ PostOnDemand(q, d)
      PROVE  Kept
  <2>1. PICK pc \in {"cooldown", "create"} : Receive(q, d, pc)
    BY <1>1 DEF PostPublicScan, PostOnDemand
  <2>2. \A p \in Request : request'[p].session = s => request[p].session = s
    BY <1>0, <2>1 DEF Receive, Idle
  <2>3. sessions' = sessions /\ seen' = seen
    BY <1>1 DEF PostPublicScan, PostOnDemand
  <2>4. QED BY <2>2, <2>3 DEF Existing
<1>2. ASSUME NEW q \in Request,
             CheckDomainCooldown(q) \/ DomainCooldownFails(q) \/ CheckConcurrency(q) \/ ConcurrencyCountFails(q)
      PROVE  Kept
  <2>1. sessions' = sessions /\ seen' = seen
    BY <1>2 DEF CheckDomainCooldown, DomainCooldownFails, CheckConcurrency, ConcurrencyCountFails
  <2>2. request[q] \in RequestState
    BY <1>0
  <2>3. \A p \in Request : request'[p].session = s => request[p].session = s
    <3>1. CASE CheckDomainCooldown(q)
      BY <1>0, <2>2, <3>1 DEF CheckDomainCooldown, RequestState
    <3>2. CASE CheckConcurrency(q)
      BY <1>0, <2>2, <3>2 DEF CheckConcurrency, RequestState
    <3>3. CASE DomainCooldownFails(q) \/ ConcurrencyCountFails(q)
      BY <1>0, <2>2, <3>3 DEF DomainCooldownFails, ConcurrencyCountFails, RequestState
    <3>4. QED BY <1>2, <3>1, <3>2, <3>3
  <2>4. QED BY <2>1, <2>3 DEF Existing
<1>3. ASSUME NEW q \in Request, CreateSession(q) PROVE Kept
  <2>1. PICK t \in SessionId : /\ Created(q, t)
                               /\ request' = [request EXCEPT ![q].pc = "scan", ![q].session = t]
    BY <1>3 DEF CreateSession
  <2>2. t # s
    BY <2>1 DEF Created
  <2>3. sessions'[s] = sessions[s] /\ seen'[s] = seen[s] /\ s \in Existing'
    BY <1>0, <2>1, <2>2, CreatedType
  <2>4. request[q] \in RequestState
    BY <1>0
  <2>5. \A p \in Request : request'[p].session = s => request[p].session = s
    BY <1>0, <2>1, <2>2, <2>4 DEF RequestState
  <2>6. QED BY <2>3, <2>5
<1>4. ASSUME NEW q \in Request, CreateSessionFails(q) PROVE Kept
  <2>1. \A p \in Request : request'[p].session = s => request[p].session = s
    BY <1>0, <1>4 DEF CreateSessionFails
  <2>2. CASE UNCHANGED <<sessions, seen, lost>>
    BY <2>1, <2>2 DEF Existing
  <2>3. ASSUME NEW t \in SessionId, Created(q, t) PROVE Kept
    <3>1. t # s
      BY <2>3 DEF Created
    <3>2. QED BY <1>0, <2>1, <2>3, <3>1, CreatedType
  <2>4. QED BY <1>4, <2>2, <2>3 DEF CreateSessionFails
<1>5. ASSUME NEW q \in Request,
             \/ CollectPair(q)
             \/ \E j \in Signal : Collect(q, j) \/ Score(q, j) \/ ReadBackFails(q, j) \/ ScoreThrows(q, j)
      PROVE  Kept
  <2>1. PICK job \in [Signal -> Phase] : request' = [request EXCEPT ![q].job = job]
    BY <1>5, JobStep
  <2>2. sessions' = sessions /\ seen' = seen
    BY <1>5 DEF CollectPair, Collect, Score, ReadBackFails, ScoreThrows
  <2>3. request[q] \in RequestState
    BY <1>0
  <2>4. QED BY <1>0, <2>1, <2>2, <2>3 DEF Existing, RequestState
<1>6. ASSUME NEW q \in Request, Complete(q) \/ Reject(q)
      PROVE  /\ Kept \/ request[q].session = s
             /\ sessions'[s].domain = sessions[s].domain /\ sessions'[s].created = sessions[s].created
             /\ seen'[s] = seen[s] /\ s \in Existing'
             /\ \A p \in Request : request'[p].session = s => request[p].session = s
  <2>0. Scanning(q) /\ seen' = seen /\ request[q] \in RequestState
    BY <1>0, <1>6 DEF Complete, Reject, Scanning
  <2>1. PICK row \in {CompletedRow(q), FailedRow(q)} : Transition(q, row)
    BY <1>6 DEF Complete, Reject, CompletedRow, FailedRow
  <2>2. /\ row \in Session /\ row.status \in {"completed", "failed"}
        /\ row.domain = sessions[request[q].session].domain
        /\ row.created = sessions[request[q].session].created
    BY <2>0, EndRows
  <2>3. /\ Existing' = Existing
        /\ s # request[q].session => sessions'[s] = sessions[s]
        /\ s = request[q].session => sessions'[s] \in {row, sessions[s]}
    BY <1>0, <2>0, <2>1, <2>2, TransitionType
  <2>4. \A p \in Request : request'[p].session = s => request[p].session = s
    BY <1>0, <1>6, <2>0 DEF Complete, Reject, RequestState
  <2>5. QED BY <2>0, <2>2, <2>3, <2>4
<1>7. ASSUME NEW q \in Request, RunDown(q) PROVE Kept
  BY <1>0, <1>7 DEF RunDown, Existing
<1>8. CASE Restart
  BY <1>0, <1>8 DEF Restart, Existing
<1>9. CASE Tick \/ UNCHANGED vars
  BY <1>9 DEF Tick, vars, Existing
<1>10. QED
  BY <1>1, <1>2, <1>3, <1>4, <1>5, <1>6, <1>7, <1>8, <1>9 DEF Next, Answer, Scan

LEMMA StepToSession ==
    ASSUME TypeOK, [Next]_vars, NEW s \in Existing', s \notin Existing
    PROVE  \E q \in Request :
              /\ Created(q, s)
              /\ \/ request' = [request EXCEPT ![q].pc = "scan", ![q].session = s] /\ lost' = lost
                 \/ request' = [request EXCEPT ![q] = Idle] /\ lost' = lost \cup {s}
              /\ request[q].pc = "create" /\ UNCHANGED <<evidence, quality, peak, unguarded, clock>>
<1>0. s \in SessionId /\ sessions' # sessions
  BY DEF Existing
<1>1. ASSUME NEW q \in Request, NEW d \in Domain, PostPublicScan(q, d) \/ PostOnDemand(q, d)
      PROVE  FALSE
  BY <1>0, <1>1 DEF PostPublicScan, PostOnDemand
<1>2. ASSUME NEW q \in Request,
             CheckDomainCooldown(q) \/ DomainCooldownFails(q) \/ CheckConcurrency(q) \/ ConcurrencyCountFails(q)
      PROVE  FALSE
  BY <1>0, <1>2 DEF CheckDomainCooldown, DomainCooldownFails, CheckConcurrency, ConcurrencyCountFails
<1>3. ASSUME NEW q \in Request, CreateSession(q)
      PROVE  /\ Created(q, s) /\ request' = [request EXCEPT ![q].pc = "scan", ![q].session = s]
             /\ request[q].pc = "create" /\ UNCHANGED <<lost, evidence, quality, peak, unguarded, clock>>
  <2>1. PICK t \in SessionId : /\ Created(q, t)
                               /\ request' = [request EXCEPT ![q].pc = "scan", ![q].session = t]
    BY <1>3 DEF CreateSession
  <2>2. t = s
    BY <1>0, <2>1, CreatedType DEF Existing
  <2>3. QED BY <1>3, <2>1, <2>2 DEF CreateSession
<1>4. ASSUME NEW q \in Request, CreateSessionFails(q)
      PROVE  /\ Created(q, s) /\ request' = [request EXCEPT ![q] = Idle] /\ lost' = lost \cup {s}
             /\ request[q].pc = "create" /\ UNCHANGED <<evidence, quality, peak, unguarded, clock>>
  <2>1. PICK t \in SessionId : Created(q, t) /\ lost' = lost \cup {t}
    BY <1>0, <1>4 DEF CreateSessionFails
  <2>2. t = s
    BY <1>0, <2>1, CreatedType DEF Existing
  <2>3. QED BY <1>4, <2>1, <2>2 DEF CreateSessionFails
<1>5. ASSUME NEW q \in Request,
             \/ CollectPair(q)
             \/ \E j \in Signal : Collect(q, j) \/ Score(q, j) \/ ReadBackFails(q, j) \/ ScoreThrows(q, j)
      PROVE  FALSE
  BY <1>0, <1>5, JobStep
<1>6. ASSUME NEW q \in Request, Complete(q) \/ Reject(q) PROVE FALSE
  <2>0. Scanning(q)
    BY <1>6 DEF Complete, Reject, Scanning
  <2>1. PICK row \in {CompletedRow(q), FailedRow(q)} : Transition(q, row)
    BY <1>6 DEF Complete, Reject, CompletedRow, FailedRow
  <2>2. QED BY <2>0, <2>1, EndRows, TransitionType
<1>7. CASE UNCHANGED sessions
  BY <1>0, <1>7
<1>8. QED
  BY <1>1, <1>2, <1>3, <1>4, <1>5, <1>6, <1>7 DEF Next, Answer, Scan, RunDown, Restart, Tick, vars

-----------------------------------------------------------------------------
(* The cooldown.                                                           *)

(* Whatever a request saw when it read the cooldown was of another domain, *)
(* or is past its cooldown since; and so for the session it created.       *)
SeenIsPast ==
    /\ \A s \in Existing : sessions[s].created <= clock
    /\ \A q \in Request : \A s \in request[q].seen :
          /\ s \in Existing
          /\ sessions[s].domain = request[q].domain => sessions[s].created + Cooldown < clock
    /\ \A t \in Existing : \A s \in seen[t] :
          /\ s \in Existing
          /\ sessions[s].domain = sessions[t].domain => sessions[s].created + Cooldown < sessions[t].created

LEMMA SeenInit == Init => SeenIsPast
  BY DEF Init, SeenIsPast, Existing, NoSession, Idle

(* What a request has seen, unless it reads the cooldown now.              *)
LEMMA SeenStep ==
    ASSUME TypeOK, [Next]_vars, NEW p \in Request, NEW s \in request'[p].seen
    PROVE  \/ s \in request[p].seen /\ request'[p].domain = request[p].domain
           \/ /\ s \in Existing /\ CheckDomainCooldown(p)
              /\ request'[p].domain = request[p].domain /\ Recent(request[p].domain) = {}
<1> DEFINE Kept == s \in request[p].seen /\ request'[p].domain = request[p].domain
<1>0. /\ request \in [Request -> RequestState] /\ request[p] \in RequestState /\ s \notin Idle.seen
  BY DEF TypeOK, Idle
<1>1. ASSUME NEW q \in Request, NEW d \in Domain, PostPublicScan(q, d) \/ PostOnDemand(q, d)
      PROVE  Kept
  <2>1. PICK pc \in {"cooldown", "create"} : Receive(q, d, pc)
    BY <1>1 DEF PostPublicScan, PostOnDemand
  <2>2. QED BY <1>0, <2>1 DEF Receive, Idle
<1>2. ASSUME NEW q \in Request, CheckDomainCooldown(q)
      PROVE  \/ Kept
             \/ /\ s \in Existing /\ CheckDomainCooldown(p)
                /\ request'[p].domain = request[p].domain /\ Recent(request[p].domain) = {}
  <2>1. CASE p # q
    BY <1>0, <1>2, <2>1 DEF CheckDomainCooldown
  <2>2. CASE p = q
    <3>1. Recent(request[p].domain) = {} /\ request'[p] = [request[p] EXCEPT !.pc = "count", !.seen = Existing]
      BY <1>0, <1>2, <2>2 DEF CheckDomainCooldown
    <3>2. QED BY <1>0, <1>2, <2>2, <3>1 DEF RequestState
  <2>3. QED BY <2>1, <2>2
<1>3. ASSUME NEW q \in Request, CheckConcurrency(q) PROVE Kept
  BY <1>0, <1>3 DEF CheckConcurrency, RequestState
<1>4. ASSUME NEW q \in Request, DomainCooldownFails(q) \/ ConcurrencyCountFails(q) PROVE Kept
  <2>1. CASE DomainCooldownFails(q)
    BY <1>0, <2>1 DEF DomainCooldownFails, RequestState
  <2>2. CASE ConcurrencyCountFails(q)
    BY <1>0, <2>2 DEF ConcurrencyCountFails, RequestState
  <2>3. QED BY <1>4, <2>1, <2>2
<1>5. ASSUME NEW q \in Request, CreateSession(q) \/ Reject(q) PROVE Kept
  <2>1. CASE CreateSession(q)
    <3>1. PICK t \in SessionId : request' = [request EXCEPT ![q].pc = "scan", ![q].session = t]
      BY <2>1 DEF CreateSession
    <3>2. QED BY <1>0, <3>1 DEF RequestState
  <2>2. CASE Reject(q)
    BY <1>0, <2>2 DEF Reject, RequestState
  <2>3. QED BY <1>5, <2>1, <2>2
<1>6. ASSUME NEW q \in Request, CreateSessionFails(q) \/ Complete(q) \/ RunDown(q) PROVE Kept
  BY <1>0, <1>6 DEF CreateSessionFails, Complete, RunDown
<1>7. ASSUME NEW q \in Request,
             \/ CollectPair(q)
             \/ \E j \in Signal : Collect(q, j) \/ Score(q, j) \/ ReadBackFails(q, j) \/ ScoreThrows(q, j)
      PROVE  Kept
  <2>1. PICK job \in [Signal -> Phase] : request' = [request EXCEPT ![q].job = job]
    BY <1>7, JobStep
  <2>2. QED BY <1>0, <2>1 DEF RequestState
<1>8. CASE Restart
  BY <1>0, <1>8 DEF Restart
<1>9. CASE Tick \/ UNCHANGED vars
  BY <1>9 DEF Tick, vars
<1>10. QED
  BY <1>1, <1>2, <1>3, <1>4, <1>5, <1>6, <1>7, <1>8, <1>9 DEF Next, Answer, Scan

LEMMA ClockStep == TypeOK /\ [Next]_vars => clock \in Nat /\ clock' \in Nat /\ clock <= clock'
<1> SUFFICES ASSUME TypeOK, [Next]_vars PROVE clock \in Nat /\ clock <= clock' /\ clock' \in Nat
  OBVIOUS
<1>1. CASE Tick
  BY <1>1 DEF Tick, TypeOK
<1>2. CASE UNCHANGED clock
  BY <1>2 DEF TypeOK
<1>3. ASSUME NEW q \in Request, NEW d \in Domain, PostPublicScan(q, d) \/ PostOnDemand(q, d)
      PROVE  UNCHANGED clock
  BY <1>3 DEF PostPublicScan, PostOnDemand
<1>4. ASSUME NEW q \in Request, Answer(q) PROVE UNCHANGED clock
  BY <1>4 DEF Answer, CheckDomainCooldown, DomainCooldownFails, CheckConcurrency,
              ConcurrencyCountFails, CreateSession, CreateSessionFails
<1>5. ASSUME NEW q \in Request, NEW j \in Signal,
             Collect(q, j) \/ Score(q, j) \/ ReadBackFails(q, j) \/ ScoreThrows(q, j)
      PROVE  UNCHANGED clock
  BY <1>5 DEF Collect, Score, ReadBackFails, ScoreThrows
<1>6. ASSUME NEW q \in Request, CollectPair(q) \/ Complete(q) \/ Reject(q) \/ RunDown(q)
      PROVE  UNCHANGED clock
  <2>1. CASE CollectPair(q) \/ RunDown(q)
    BY <2>1 DEF CollectPair, RunDown
  <2>2. CASE Complete(q)
    BY <2>2 DEF Complete
  <2>3. CASE Reject(q)
    BY <2>3 DEF Reject
  <2>4. QED BY <1>6, <2>1, <2>2, <2>3
<1>7. ASSUME Restart \/ UNCHANGED vars PROVE UNCHANGED clock
  BY <1>7 DEF Restart, vars
<1>8. ASSUME NEW q \in Request, Scan(q) PROVE UNCHANGED clock
  BY <1>5, <1>6, <1>8 DEF Scan
<1>9. Tick \/ UNCHANGED clock
  BY <1>3, <1>4, <1>7, <1>8 DEF Next
<1>10. QED BY <1>1, <1>2, <1>9

LEMMA SeenIsPastStep == TypeOK /\ SeenIsPast /\ [Next]_vars => SeenIsPast'
<1> SUFFICES ASSUME TypeOK, SeenIsPast, [Next]_vars PROVE SeenIsPast'
  OBVIOUS
<1>0. /\ clock \in Nat /\ clock' \in Nat /\ clock <= clock' /\ Cooldown \in Nat
      /\ \A s \in Existing : sessions[s] \in Session /\ sessions[s].created \in Nat
  BY ClockStep, ScanAssumption DEF TypeOK, Existing, Session
<1>1. ASSUME NEW s \in Existing' PROVE sessions'[s].created <= clock'
  <2>1. CASE s \in Existing
    BY <1>0, <2>1, StepOfSession DEF SeenIsPast
  <2>2. CASE s \notin Existing
    <3>1. PICK q \in Request : Created(q, s) /\ clock' = clock
      BY <1>1, <2>2, StepToSession
    <3>2. s \in SessionId
      BY <1>1 DEF Existing
    <3>3. QED BY <1>0, <3>1, <3>2, CreatedType
  <2>3. QED BY <2>1, <2>2
<1>2. ASSUME NEW q \in Request, NEW s \in request'[q].seen
      PROVE  /\ s \in Existing'
             /\ sessions'[s].domain = request'[q].domain => sessions'[s].created + Cooldown < clock'
  <2>1. CASE s \in request[q].seen /\ request'[q].domain = request[q].domain
    <3>1. /\ s \in Existing
          /\ sessions[s].domain = request[q].domain => sessions[s].created + Cooldown < clock
      BY <2>1 DEF SeenIsPast
    <3>2. QED BY <1>0, <2>1, <3>1, StepOfSession
  <2>2. CASE /\ s \in Existing /\ CheckDomainCooldown(q)
             /\ request'[q].domain = request[q].domain /\ Recent(request[q].domain) = {}
    <3>1. ~(sessions[s].domain = request[q].domain /\ sessions[s].created >= clock - Cooldown)
      BY <2>2 DEF Recent
    <3>2. QED BY <1>0, <2>2, <3>1, StepOfSession
  <2>3. QED BY <1>2, <2>1, <2>2, SeenStep
<1>3. ASSUME NEW t \in Existing', NEW s \in seen'[t]
      PROVE  /\ s \in Existing'
             /\ sessions'[s].domain = sessions'[t].domain =>
                   sessions'[s].created + Cooldown < sessions'[t].created
  <2>1. CASE t \in Existing
    <3>1. /\ s \in Existing
          /\ sessions[s].domain = sessions[t].domain => sessions[s].created + Cooldown < sessions[t].created
      BY <1>3, <2>1, StepOfSession DEF SeenIsPast
    <3>2. QED BY <2>1, <3>1, StepOfSession
  <2>2. CASE t \notin Existing
    <3>1. PICK q \in Request : Created(q, t)
      BY <1>3, <2>2, StepToSession
    <3>2. /\ t \in SessionId /\ seen'[t] = request[q].seen /\ sessions'[t].created = clock
          /\ sessions'[t].domain = request[q].domain
      BY <1>3, <3>1, CreatedType DEF Existing
    <3>3. /\ s \in Existing
          /\ sessions[s].domain = request[q].domain => sessions[s].created + Cooldown < clock
      BY <1>3, <3>2 DEF SeenIsPast
    <3>4. QED BY <3>2, <3>3, StepOfSession
  <2>3. QED BY <2>1, <2>2
<1>4. QED BY <1>1, <1>2, <1>3 DEF SeenIsPast

LEMMA SeenIsEnough == TypeOK /\ SeenIsPast => NoRescanUnlessRaced
<1> SUFFICES ASSUME TypeOK, SeenIsPast, NEW s \in Existing, NEW t \in Existing,
                    sessions[s].domain = sessions[t].domain,
                    sessions[t].created <= sessions[s].created + Cooldown,
                    s \in seen[t]
             PROVE  FALSE
  BY DEF NoRescanUnlessRaced
<1>1. sessions[s].created \in Nat /\ sessions[t].created \in Nat /\ Cooldown \in Nat
  BY ScanAssumption DEF TypeOK, Existing, Session
<1>2. sessions[s].created + Cooldown < sessions[t].created
  BY DEF SeenIsPast
<1>3. QED BY <1>1, <1>2

(* publicScanDomainCooldown.js: a second scan of a domain starts within    *)
(* the cooldown only if its request did not see the first session.         *)
THEOREM NoRescan == Spec => []NoRescanUnlessRaced
<1>1. QED BY TypeInit, TypeStep, SeenInit, SeenIsPastStep, SeenIsEnough, PTL DEF Spec

-----------------------------------------------------------------------------
(* What a scan has done for its session.                                   *)

(* A scan has its session to itself, has not begun before it has it, and   *)
(* its signals are where the rows it has written, or an exception in the   *)
(* pair, put them; only evidence is scored.                                *)
ScanShape ==
    /\ \A p, q \in Request : p # q /\ Scanning(p) /\ Scanning(q) => request[p].session # request[q].session
    /\ \A q \in Request : ~Scanning(q) => \A j \in Signal : request[q].job[j] = "collect"
    /\ \A s \in SessionId : quality[s] \subseteq evidence[s]
    /\ \A q \in Request : Scanning(q) => \A j \in Signal :
          /\ request[q].job[j] \notin {"collect", "failed"} =>
                \/ j \in evidence[request[q].session]
                \/ j \in Paired /\ request[q].session \in masked
          /\ request[q].job[j] = "scored" => j \in quality[request[q].session]
          /\ request[q].job[j] = "abandoned" => Threw(q)

LEMMA ScanShapeInit == Init => ScanShape
  BY DEF Init, ScanShape, Scanning, Idle

(* Evidence and scores are only ever added, scores to what has evidence.   *)
LEMMA RowsGrow ==
    ASSUME TypeOK, [Next]_vars, NEW s \in SessionId
    PROVE  /\ evidence[s] \subseteq evidence'[s] /\ quality[s] \subseteq quality'[s]
           /\ quality'[s] \subseteq quality[s] \cup evidence[s] /\ masked \subseteq masked'
<1>0. /\ evidence \in [SessionId -> SUBSET Signal] /\ quality \in [SessionId -> SUBSET Signal]
  BY DEF TypeOK
<1>1. ASSUME NEW q \in Request, CollectPair(q)
      PROVE  evidence[s] \subseteq evidence'[s] /\ quality' = quality /\ masked \subseteq masked'
  <2>1. PICK written : evidence' = [evidence EXCEPT ![request[q].session] = @ \cup written]
    BY <1>1 DEF CollectPair
  <2>2. QED BY <1>0, <1>1, <2>1 DEF CollectPair
<1>2. ASSUME NEW q \in Request, NEW j \in Signal, Collect(q, j)
      PROVE  evidence[s] \subseteq evidence'[s] /\ quality' = quality /\ masked' = masked
  BY <1>0, <1>2 DEF Collect
<1>3. ASSUME NEW q \in Request, NEW j \in Signal, Score(q, j)
      PROVE  /\ evidence' = evidence /\ quality[s] \subseteq quality'[s]
             /\ quality'[s] \subseteq quality[s] \cup evidence[s] /\ masked' = masked
  BY <1>0, <1>3 DEF Score
<1>4. CASE UNCHANGED <<evidence, quality, masked>>
  BY <1>4
<1>5. ASSUME NEW q \in Request,
             \/ Answer(q) \/ \E d \in Domain : PostPublicScan(q, d) \/ PostOnDemand(q, d)
      PROVE  UNCHANGED <<evidence, quality, masked>>
  BY <1>5 DEF Answer, PostPublicScan, PostOnDemand, CheckDomainCooldown, DomainCooldownFails,
              CheckConcurrency, ConcurrencyCountFails, CreateSession, CreateSessionFails
<1>6. ASSUME NEW q \in Request,
             \/ Complete(q) \/ Reject(q) \/ RunDown(q)
             \/ \E j \in Signal : ReadBackFails(q, j) \/ ScoreThrows(q, j)
      PROVE  UNCHANGED <<evidence, quality, masked>>
  BY <1>6 DEF Complete, Reject, RunDown, ReadBackFails, ScoreThrows
<1>7. CASE Restart \/ Tick \/ UNCHANGED vars
  BY <1>4, <1>7 DEF Restart, Tick, vars
<1>8. QED BY <1>1, <1>2, <1>3, <1>4, <1>5, <1>6, <1>7 DEF Next, Scan

(* How a request that is scanning afterwards came to be so.                *)
LEMMA StepToScan ==
    ASSUME TypeOK, ScanShape, [Next]_vars, NEW p \in Request, Scanning(p)'
    PROVE  \/ /\ Scanning(p) /\ request'[p].session = request[p].session
              /\ request'[p].job = request[p].job
           \/ /\ Scanning(p) /\ request'[p].session = request[p].session
              /\ \/ CollectPair(p)
                 \/ \E j \in Signal : Collect(p, j) \/ Score(p, j) \/ ReadBackFails(p, j) \/ ScoreThrows(p, j)
           \/ /\ request'[p].session \notin Existing
              /\ \A j \in Signal : request'[p].job[j] = "collect"
<1> DEFINE Same == /\ Scanning(p) /\ request'[p].session = request[p].session
                   /\ request'[p].job = request[p].job
<1>0. /\ request \in [Request -> RequestState] /\ request[p] \in RequestState
      /\ Idle.pc = "idle"
  BY DEF TypeOK, Idle
<1>1. ASSUME NEW q \in Request, NEW d \in Domain, PostPublicScan(q, d) \/ PostOnDemand(q, d)
      PROVE  Same
  <2>1. PICK pc \in {"cooldown", "create"} : Receive(q, d, pc)
    BY <1>1 DEF PostPublicScan, PostOnDemand
  <2>2. QED BY <1>0, <2>1 DEF Receive, Idle, Scanning
<1>2. ASSUME NEW q \in Request, CheckDomainCooldown(q) PROVE Same
  BY <1>0, <1>2 DEF CheckDomainCooldown, RequestState, Scanning
<1>3. ASSUME NEW q \in Request, CheckConcurrency(q) PROVE Same
  BY <1>0, <1>3 DEF CheckConcurrency, RequestState, Scanning
<1>4. ASSUME NEW q \in Request, DomainCooldownFails(q) \/ ConcurrencyCountFails(q) PROVE Same
  BY <1>0, <1>4 DEF DomainCooldownFails, ConcurrencyCountFails, RequestState, Scanning
<1>5. ASSUME NEW q \in Request, CreateSession(q)
      PROVE  \/ Same
             \/ /\ request'[p].session \notin Existing
                /\ \A j \in Signal : request'[p].job[j] = "collect"
  <2>1. PICK t \in SessionId : /\ Created(q, t)
                               /\ request' = [request EXCEPT ![q].pc = "scan", ![q].session = t]
    BY <1>5 DEF CreateSession
  <2>2. CASE p # q
    BY <1>0, <2>1, <2>2 DEF Scanning
  <2>3. CASE p = q
    <3>1. request'[p].session = t /\ t \notin Existing /\ request'[p].job = request[p].job
      BY <1>0, <2>1, <2>3 DEF RequestState, Created
    <3>2. ~Scanning(p)
      BY <1>5, <2>3 DEF CreateSession, Scanning
    <3>3. QED BY <3>1, <3>2 DEF ScanShape
  <2>4. QED BY <2>2, <2>3
<1>6. ASSUME NEW q \in Request, Reject(q) PROVE Same
  BY <1>0, <1>6 DEF Reject, RequestState, Scanning
<1>7. ASSUME NEW q \in Request, CreateSessionFails(q) \/ Complete(q) \/ RunDown(q) PROVE Same
  BY <1>0, <1>7 DEF CreateSessionFails, Complete, RunDown, Scanning
<1>8. ASSUME NEW q \in Request,
             \/ CollectPair(q)
             \/ \E j \in Signal : Collect(q, j) \/ Score(q, j) \/ ReadBackFails(q, j) \/ ScoreThrows(q, j)
      PROVE  \/ Same
             \/ /\ Scanning(p) /\ request'[p].session = request[p].session
                /\ \/ CollectPair(p)
                   \/ \E j \in Signal : Collect(p, j) \/ Score(p, j) \/ ReadBackFails(p, j) \/ ScoreThrows(p, j)
  <2>1. PICK job \in [Signal -> Phase] : request' = [request EXCEPT ![q].job = job]
    BY <1>8, JobStep
  <2>2. Scanning(q)
    BY <1>8, JobStep
  <2>3. CASE p = q
    BY <1>0, <1>8, <2>1, <2>2, <2>3 DEF RequestState
  <2>4. CASE p # q
    BY <1>0, <2>1, <2>4 DEF Scanning
  <2>5. QED BY <2>3, <2>4
<1>9. CASE Restart
  BY <1>0, <1>9 DEF Restart, Scanning
<1>10. CASE Tick \/ UNCHANGED vars
  BY <1>10 DEF Tick, vars, Scanning
<1>11. QED
  BY <1>1, <1>2, <1>3, <1>4, <1>5, <1>6, <1>7, <1>8, <1>9, <1>10 DEF Next, Answer, Scan

(* A request that is not scanning has begun nothing.                       *)
LEMMA NotScanningStep ==
    ASSUME TypeOK, ScanShape, [Next]_vars, NEW p \in Request, ~Scanning(p)'
    PROVE  \A j \in Signal : request'[p].job[j] = "collect"
<1>0. /\ request \in [Request -> RequestState] /\ request[p] \in RequestState
      /\ \A j \in Signal : Idle.job[j] = "collect"
  BY DEF TypeOK, Idle
<1>1. CASE request'[p] = Idle
  BY <1>0, <1>1
<1>2. CASE ~Scanning(p) /\ request'[p].job = request[p].job
  BY <1>2 DEF ScanShape
<1>3. ASSUME NEW q \in Request, NEW d \in Domain, PostPublicScan(q, d) \/ PostOnDemand(q, d)
      PROVE  \A j \in Signal : request'[p].job[j] = "collect"
  <2>1. PICK pc \in {"cooldown", "create"} : Receive(q, d, pc)
    BY <1>3 DEF PostPublicScan, PostOnDemand
  <2>2. CASE p = q
    BY <1>0, <2>1, <2>2 DEF Receive, Idle
  <2>3. CASE p # q
    BY <1>0, <1>2, <2>1, <2>3 DEF Receive, Scanning
  <2>4. QED BY <2>2, <2>3
<1>4. ASSUME NEW q \in Request, CheckDomainCooldown(q) \/ CheckConcurrency(q)
      PROVE  request'[p] = Idle \/ (~Scanning(p) /\ request'[p].job = request[p].job)
  <2>1. CASE CheckDomainCooldown(q)
    BY <1>0, <2>1 DEF CheckDomainCooldown, RequestState, Scanning
  <2>2. CASE CheckConcurrency(q)
    BY <1>0, <2>2 DEF CheckConcurrency, RequestState, Scanning
  <2>3. QED BY <1>4, <2>1, <2>2
<1>5. ASSUME NEW q \in Request, DomainCooldownFails(q) \/ ConcurrencyCountFails(q) \/ Reject(q)
      PROVE  ~Scanning(p) /\ request'[p].job = request[p].job
  <2>1. CASE DomainCooldownFails(q) \/ ConcurrencyCountFails(q)
    BY <1>0, <2>1 DEF DomainCooldownFails, ConcurrencyCountFails, RequestState, Scanning
  <2>2. CASE Reject(q)
    BY <1>0, <2>2 DEF Reject, RequestState, Scanning
  <2>3. QED BY <1>5, <2>1, <2>2
<1>6. ASSUME NEW q \in Request, CreateSession(q)
      PROVE  ~Scanning(p) /\ request'[p].job = request[p].job
  <2>1. PICK t \in SessionId : request' = [request EXCEPT ![q].pc = "scan", ![q].session = t]
    BY <1>6 DEF CreateSession
  <2>2. QED BY <1>0, <2>1 DEF RequestState, Scanning
<1>7. ASSUME NEW q \in Request, CreateSessionFails(q) \/ Complete(q) \/ RunDown(q)
      PROVE  request'[p] = Idle \/ (~Scanning(p) /\ request'[p].job = request[p].job)
  BY <1>0, <1>7 DEF CreateSessionFails, Complete, RunDown, Scanning
<1>8. ASSUME NEW q \in Request,
             \/ CollectPair(q)
             \/ \E j \in Signal : Collect(q, j) \/ Score(q, j) \/ ReadBackFails(q, j) \/ ScoreThrows(q, j)
      PROVE  ~Scanning(p) /\ request'[p].job = request[p].job
  <2>1. PICK job \in [Signal -> Phase] : request' = [request EXCEPT ![q].job = job]
    BY <1>8, JobStep
  <2>2. Scanning(q)
    BY <1>8, JobStep
  <2>3. QED BY <1>0, <2>1, <2>2 DEF RequestState, Scanning
<1>9. CASE Restart
  BY <1>1, <1>9 DEF Restart
<1>10. CASE Tick \/ UNCHANGED vars
  BY <1>2, <1>10 DEF Tick, vars, Scanning
<1>11. QED
  BY <1>1, <1>2, <1>3, <1>4, <1>5, <1>6, <1>7, <1>8, <1>9, <1>10 DEF Next, Answer, Scan

LEMMA ScanShapeStep == TypeOK /\ ScanShape /\ [Next]_vars => ScanShape'
<1> SUFFICES ASSUME TypeOK, ScanShape, [Next]_vars PROVE ScanShape'
  OBVIOUS
<1>1. ASSUME NEW p \in Request, NEW q \in Request, p # q, Scanning(p)', Scanning(q)',
             request'[p].session = request'[q].session
      PROVE  FALSE
  <2>1. CASE request'[p].session \in Existing
    <3>1. request[p].session = request'[p].session /\ request[q].session = request'[p].session
      BY <1>1, <2>1, StepOfSession
    <3>2. Scanning(p) /\ Scanning(q)
      BY <2>1, <3>1, NullIsNoSession DEF TypeOK, Existing
    <3>3. QED BY <1>1, <3>1, <3>2 DEF ScanShape
  <2>2. CASE request'[p].session \notin Existing
    <3>1. request'[p].session \in Existing'
      BY <1>1, TypeStep DEF TypeOK
    <3>2. PICK r \in Request : \/ request' = [request EXCEPT ![r].pc = "scan", ![r].session = request'[p].session]
                               \/ request' = [request EXCEPT ![r] = Idle]
      BY <2>2, <3>1, StepToSession
    <3>3. \A x \in Request : x # r => request'[x] = request[x]
      BY <3>2 DEF TypeOK
    <3>4. \A x \in Request : Scanning(x)' /\ x # r => request'[x].session \in Existing
      BY <3>3 DEF TypeOK, Scanning
    <3>5. QED BY <1>1, <2>2, <3>4
  <2>3. QED BY <2>1, <2>2
<1>2. ASSUME NEW q \in Request, ~Scanning(q)'
      PROVE  \A j \in Signal : request'[q].job[j] = "collect"
  BY <1>2, NotScanningStep
<1>3. ASSUME NEW q \in Request, Scanning(q)', NEW j \in Signal
      PROVE  /\ request'[q].job[j] \notin {"collect", "failed"} =>
                   \/ j \in evidence'[request'[q].session]
                   \/ j \in Paired /\ request'[q].session \in masked'
             /\ request'[q].job[j] = "scored" => j \in quality'[request'[q].session]
             /\ request'[q].job[j] = "abandoned" => Threw(q)'
  <2>1. CASE /\ Scanning(q) /\ request'[q].session = request[q].session
             /\ request'[q].job = request[q].job
    <3>1. /\ evidence[request[q].session] \subseteq evidence'[request[q].session]
          /\ quality[request[q].session] \subseteq quality'[request[q].session]
          /\ masked \subseteq masked'
      BY <2>1, ScanningSession, RowsGrow
    <3>2. Threw(q)' <=> Threw(q)
      BY <2>1 DEF Threw
    <3>3. QED BY <2>1, <3>1, <3>2 DEF ScanShape
  <2>2. CASE /\ Scanning(q) /\ request'[q].session = request[q].session
             /\ \/ CollectPair(q)
                \/ \E i \in Signal : Collect(q, i) \/ Score(q, i) \/ ReadBackFails(q, i) \/ ScoreThrows(q, i)
    <3>1. PICK job \in [Signal -> Phase] :
             /\ request' = [request EXCEPT ![q].job = job]
             /\ \A i \in Signal : request[q].job[i] \in Settled => job[i] = request[q].job[i]
             /\ \A i \in Signal : job[i] = "abandoned" =>
                   request[q].job[i] = "abandoned" \/ \E k \in Signal : job[k] = "threw"
             /\ \A i \in Signal : job[i] \notin {"collect", "failed"} =>
                   \/ i \in evidence'[request[q].session]
                   \/ i \in Paired /\ request[q].session \in masked'
                   \/ request[q].job[i] \notin {"collect", "failed"}
             /\ \A i \in Signal : job[i] = "scored" =>
                   i \in quality'[request[q].session] \/ request[q].job[i] = "scored"
      BY <2>2, JobStep
    <3>2. request'[q].job = job
      BY <3>1 DEF TypeOK, RequestState
    <3>3. /\ evidence[request[q].session] \subseteq evidence'[request[q].session]
          /\ quality[request[q].session] \subseteq quality'[request[q].session]
          /\ masked \subseteq masked'
      BY <2>2, ScanningSession, RowsGrow
    <3>4. request'[q].job[j] = "abandoned" => Threw(q)'
      <4>1. Threw(q) => \E k \in Signal : job[k] = "threw"
        BY <3>1 DEF Threw, Settled
      <4>2. request[q].job[j] = "abandoned" => Threw(q)
        BY <2>2 DEF ScanShape
      <4>3. QED BY <3>1, <3>2, <4>1, <4>2 DEF Threw
    <3>5. QED BY <2>2, <3>1, <3>2, <3>3, <3>4 DEF ScanShape
  <2>3. CASE \A i \in Signal : request'[q].job[i] = "collect"
    BY <2>3
  <2>4. QED BY <1>3, <2>1, <2>2, <2>3, StepToScan
<1>4. ASSUME NEW s \in SessionId PROVE quality'[s] \subseteq evidence'[s]
  BY RowsGrow DEF ScanShape
<1>5. QED BY <1>1, <1>2, <1>3, <1>4 DEF ScanShape

(* A session running that is not lost has its scan.                        *)
LEMMA RunningStep == TypeOK /\ ScanShape /\ RunningIsScanned /\ [Next]_vars => RunningIsScanned'
<1> SUFFICES ASSUME TypeOK, ScanShape, RunningIsScanned, [Next]_vars,
                    NEW s \in Running', s \notin lost'
             PROVE  \E q \in Request : request'[q].pc = "scan" /\ request'[q].session = s
  BY DEF RunningIsScanned
<1>0. /\ s \in SessionId /\ sessions'[s].status = "running" /\ s \in Existing'
      /\ request \in [Request -> RequestState]
  BY DEF Running, Existing, TypeOK
<1>1. CASE s \notin Existing
  <2>1. PICK q \in Request :
           /\ request[q].pc = "create"
           /\ \/ request' = [request EXCEPT ![q].pc = "scan", ![q].session = s]
              \/ lost' = lost \cup {s}
    BY <1>0, <1>1, StepToSession
  <2>2. request[q] \in RequestState
    BY <1>0
  <2>3. request'[q].pc = "scan" /\ request'[q].session = s
    BY <1>0, <2>1, <2>2 DEF RequestState
  <2>4. QED BY <2>3
<1>2. CASE s \in Existing
  <2>1. ASSUME NEW q \in Request, request[q].session = s, Complete(q) \/ Reject(q)
        PROVE  FALSE
    <3>1. Scanning(q)
      BY <2>1 DEF Complete, Reject, Scanning
    <3>2. PICK row \in {CompletedRow(q), FailedRow(q)} : Transition(q, row)
      BY <2>1 DEF Complete, Reject, CompletedRow, FailedRow
    <3>3. row \in Session /\ row.status \in {"completed", "failed"}
      BY <3>1, EndRows
    <3>4. QED BY <1>0, <2>1, <3>1, <3>2, <3>3, TransitionType
  <2>2. sessions'[s] = sessions[s]
    BY <1>2, <2>1, StepOfSession
  <2>3. lost \subseteq lost'
    <3>1. ASSUME NEW q \in Request, Complete(q) \/ Reject(q) PROVE lost \subseteq lost'
      BY <3>1 DEF Complete, Reject, Transition
    <3>2. ASSUME NEW q \in Request, CreateSessionFails(q) PROVE lost \subseteq lost'
      BY <3>2 DEF CreateSessionFails
    <3>3. CASE Restart
      BY <3>3 DEF Restart
    <3>4. ASSUME NEW q \in Request, NEW d \in Domain, PostPublicScan(q, d) \/ PostOnDemand(q, d)
          PROVE  lost \subseteq lost'
      BY <3>4 DEF PostPublicScan, PostOnDemand
    <3>5. ASSUME NEW q \in Request, Answer(q) PROVE lost \subseteq lost'
      BY <3>2, <3>5 DEF Answer, CheckDomainCooldown, DomainCooldownFails, CheckConcurrency,
                        ConcurrencyCountFails, CreateSession
    <3>6. ASSUME NEW q \in Request, NEW j \in Signal,
                 Collect(q, j) \/ Score(q, j) \/ ReadBackFails(q, j) \/ ScoreThrows(q, j)
          PROVE  lost \subseteq lost'
      BY <3>6 DEF Collect, Score, ReadBackFails, ScoreThrows
    <3>7. ASSUME NEW q \in Request, CollectPair(q) \/ RunDown(q) PROVE lost \subseteq lost'
      BY <3>7 DEF CollectPair, RunDown
    <3>8. CASE Tick \/ UNCHANGED vars
      BY <3>8 DEF Tick, vars
    <3>9. QED BY <3>1, <3>3, <3>4, <3>5, <3>6, <3>7, <3>8 DEF Next, Scan
  <2>4. PICK p \in Request : request[p].pc = "scan" /\ request[p].session = s
    BY <1>0, <2>2, <2>3 DEF RunningIsScanned, Running
  <2>5. request[p] \in RequestState /\ Scanning(p)
    BY <1>0, <2>4 DEF Scanning
  <2> DEFINE Kept == request'[p].pc = "scan" /\ request'[p].session = s
  <2>6. ASSUME NEW q \in Request, NEW d \in Domain, PostPublicScan(q, d) \/ PostOnDemand(q, d)
        PROVE  Kept
    <3>1. p # q
      BY <2>4, <2>6 DEF PostPublicScan, PostOnDemand, Receive
    <3>2. request'[p] = request[p]
      BY <1>0, <2>6, <3>1 DEF PostPublicScan, PostOnDemand, Receive
    <3>3. QED BY <2>4, <3>2
  <2>7. ASSUME NEW q \in Request, Answer(q) PROVE Kept
    <3>1. p # q
      BY <2>4, <2>7 DEF Answer, CheckDomainCooldown, DomainCooldownFails, CheckConcurrency,
                        ConcurrencyCountFails, CreateSession, CreateSessionFails
    <3>2. request'[p] = request[p]
      BY <1>0, <2>7, <3>1 DEF Answer, CheckDomainCooldown, DomainCooldownFails, CheckConcurrency,
                              ConcurrencyCountFails, CreateSession, CreateSessionFails
    <3>3. QED BY <2>4, <3>2
  <2>8. ASSUME NEW q \in Request,
               \/ CollectPair(q)
               \/ \E j \in Signal : Collect(q, j) \/ Score(q, j) \/ ReadBackFails(q, j) \/ ScoreThrows(q, j)
        PROVE  Kept
    <3>1. PICK job \in [Signal -> Phase] : request' = [request EXCEPT ![q].job = job]
      BY <2>8, JobStep
    <3>2. QED BY <1>0, <2>4, <2>5, <3>1 DEF RequestState
  <2>9. ASSUME NEW q \in Request, Complete(q) \/ Reject(q) \/ RunDown(q) PROVE Kept
    <3>1. p # q
      BY <2>1, <2>4, <2>9 DEF RunDown
    <3>2. request'[p] = request[p]
      BY <1>0, <2>9, <3>1 DEF Complete, Reject, RunDown
    <3>3. QED BY <2>4, <3>2
  <2>10. CASE Restart
    BY <1>0, <2>2, <2>10 DEF Restart, Running
  <2>11. CASE Tick \/ UNCHANGED vars
    BY <2>4, <2>11 DEF Tick, vars
  <2>12. QED BY <2>6, <2>7, <2>8, <2>9, <2>10, <2>11 DEF Next, Scan
<1>3. QED BY <1>1, <1>2

LEMMA RunningInit == Init => RunningIsScanned
  BY DEF Init, RunningIsScanned, Running, NoSession

(* publicScanConcurrencyGuard.js counts running sessions: each is of a     *)
(* scan under way, unless a restart or a failed call left it so.           *)
THEOREM RunningScanned == Spec => []RunningIsScanned
<1>1. QED BY TypeInit, TypeStep, ScanShapeInit, ScanShapeStep, RunningInit, RunningStep,
             PTL DEF Spec

-----------------------------------------------------------------------------
(* What a completed session says.                                          *)

LEMMA CompletionInit == Init => CompletionIsTruthful
  BY DEF Init, CompletionIsTruthful, NoSession

LEMMA CompletionStep == TypeOK /\ ScanShape /\ CompletionIsTruthful /\ [Next]_vars => CompletionIsTruthful'
<1> SUFFICES ASSUME TypeOK, ScanShape, CompletionIsTruthful, [Next]_vars,
                    NEW s \in SessionId, sessions'[s].status = "completed"
             PROVE  /\ sessions'[s].observed + sessions'[s].failed = Cardinality(Signal)
                    /\ sessions'[s].observed <= Cardinality(Claimed(s)')
                    /\ sessions'[s].scored <= Cardinality(quality'[s])
                    /\ \A q \in Request : request'[q].session # s
  BY ScanShapeStep DEF CompletionIsTruthful, ScanShape
<1>0. s \in Existing' /\ request \in [Request -> RequestState]
  BY DEF Existing, TypeOK
<1>1. s \in Existing
  <2>1. SUFFICES ASSUME s \notin Existing PROVE FALSE
    OBVIOUS
  <2>2. PICK q \in Request : Created(q, s)
    BY <1>0, <2>1, StepToSession
  <2>3. QED BY <2>2, CreatedType
<1>2. /\ Cardinality(Claimed(s)) <= Cardinality(Claimed(s)')
      /\ Cardinality(quality[s]) <= Cardinality(quality'[s])
      /\ Cardinality(Claimed(s)) \in Nat /\ Cardinality(Claimed(s)') \in Nat
      /\ Cardinality(quality[s]) \in Nat /\ Cardinality(quality'[s]) \in Nat
  <2>1. /\ Claimed(s) \in SUBSET Signal /\ Claimed(s)' \in SUBSET Signal
        /\ quality[s] \in SUBSET Signal /\ quality'[s] \in SUBSET Signal
    BY TypeStep DEF TypeOK, Claimed, Signal
  <2>2. Claimed(s) \subseteq Claimed(s)' /\ quality[s] \subseteq quality'[s]
    BY RowsGrow DEF Claimed
  <2>3. QED BY <2>1, <2>2, SignalSets, FS_Subset
<1>3. CASE sessions'[s] = sessions[s]
  <2>1. \A q \in Request : request'[q].session # s
    BY <1>1, <1>3, StepOfSession DEF CompletionIsTruthful
  <2>2. sessions[s].observed \in Nat /\ sessions[s].scored \in Nat
    BY DEF TypeOK, Session
  <2>3. QED BY <1>2, <1>3, <2>1, <2>2 DEF CompletionIsTruthful
<1>4. ASSUME NEW q \in Request, request[q].session = s, Reject(q), sessions'[s] # sessions[s]
      PROVE  FALSE
  <2>1. Scanning(q) /\ Transition(q, FailedRow(q))
    BY <1>4 DEF Reject, Scanning, FailedRow
  <2>2. QED BY <1>4, <2>1, EndRows, TransitionType
<1>5. ASSUME NEW q \in Request, request[q].session = s, Complete(q), sessions'[s] # sessions[s]
      PROVE  /\ sessions'[s].observed + sessions'[s].failed = Cardinality(Signal)
             /\ sessions'[s].observed <= Cardinality(Claimed(s)')
             /\ sessions'[s].scored <= Cardinality(quality'[s])
             /\ \A p \in Request : request'[p].session # s
  <2> DEFINE In(phases) == {j \in Signal : request[q].job[j] \in phases}
  <2>1. /\ Scanning(q) /\ Transition(q, CompletedRow(q)) /\ AllSettled(q) /\ ~Threw(q)
        /\ request' = [request EXCEPT ![q] = Idle]
    BY <1>5 DEF Complete, Scanning, CompletedRow
  <2>2. sessions'[s] = CompletedRow(q)
    BY <1>5, <2>1, EndRows, TransitionType
  <2>3. /\ sessions'[s].observed = Cardinality(In({"observed", "scored"}))
        /\ sessions'[s].scored = Cardinality(In({"scored"}))
        /\ sessions'[s].failed = Cardinality(In({"failed"}))
    BY <2>1, <2>2, EndRows DEF Count
  <2>4. \A j \in Signal : request[q].job[j] \in {"failed", "observed", "scored"}
    BY <2>1 DEF AllSettled, Settled, Threw, ScanShape
  <2>5. Cardinality(In({"observed", "scored"})) + Cardinality(In({"failed"})) = Cardinality(Signal)
    <3>1. In({"observed", "scored"}) \cup In({"failed"}) = Signal
      BY <2>4
    <3>2. In({"observed", "scored"}) \cap In({"failed"}) = {}
      OBVIOUS
    <3>3. /\ IsFiniteSet(In({"observed", "scored"})) /\ IsFiniteSet(In({"failed"}))
          /\ Cardinality(In({"observed", "scored"})) \in Nat /\ Cardinality(In({"failed"})) \in Nat
      BY SignalSets
    <3>4. Cardinality(Signal) = Cardinality(In({"observed", "scored"})) + Cardinality(In({"failed"}))
                                - Cardinality({})
      <4> HIDE DEF In
      <4>1. QED BY <3>1, <3>2, <3>3, FS_Union
    <3>5. Cardinality({}) = 0
      BY FS_EmptySet
    <3> HIDE DEF In
    <3>6. QED BY <3>3, <3>4, <3>5
  <2>6. In({"observed", "scored"}) \subseteq Claimed(s) /\ In({"scored"}) \subseteq quality[s]
    BY <1>5, <2>1 DEF ScanShape, Claimed
  <2>7. /\ Cardinality(In({"observed", "scored"})) <= Cardinality(Claimed(s))
        /\ Cardinality(In({"scored"})) <= Cardinality(quality[s])
        /\ Cardinality(In({"observed", "scored"})) \in Nat /\ Cardinality(In({"scored"})) \in Nat
    <3>1. /\ IsFiniteSet(Claimed(s)) /\ IsFiniteSet(quality[s])
          /\ Cardinality(In({"observed", "scored"})) \in Nat /\ Cardinality(In({"scored"})) \in Nat
      BY SignalSets DEF TypeOK, Claimed, Signal
    <3> HIDE DEF In
    <3>2. QED BY <2>6, <3>1, FS_Subset
  <2>8. \A p \in Request : request'[p].session # s
    <3>1. ASSUME NEW p \in Request, request'[p].session = s PROVE FALSE
      <4>1. p # q
        BY <1>0, <2>1, <3>1, NullIsNoSession DEF Idle
      <4>2. request[p].session = s /\ Scanning(p)
        BY <1>0, <2>1, <3>1, <4>1, NullIsNoSession DEF TypeOK
      <4>3. QED BY <1>5, <2>1, <4>1, <4>2 DEF ScanShape
    <3>2. QED BY <3>1
  <2> HIDE DEF In
  <2>9. QED BY <1>2, <2>3, <2>5, <2>7, <2>8
<1>6. QED BY <1>1, <1>3, <1>4, <1>5, StepOfSession

(* on-demand-observation.js: a completed session accounts for every signal *)
(* with rows that are there, but for a pair whose missing row an exception *)
(* hid; what it scored has its evidence, and nothing of its scan goes on.  *)
THEOREM CompletionTruthful == Spec => []CompletionIsTruthful
<1>1. QED BY TypeInit, TypeStep, ScanShapeInit, ScanShapeStep, CompletionInit, CompletionStep,
             PTL DEF Spec

-----------------------------------------------------------------------------
(* How far requests overshoot the ceiling together.                        *)

(* peak has counted the requests there are past the guards, and a session  *)
(* cannot exist without one.                                               *)
OvershootShape ==
    /\ OvershootBounded
    /\ Cardinality(Admitted) <= peak
    /\ peak = 0 => Existing = {}

LEMMA CountedSets ==
    /\ IsFiniteSet(Running) /\ Cardinality(Running) \in Nat
    /\ IsFiniteSet(Admitted) /\ Cardinality(Admitted) \in Nat
<1>1. IsFiniteSet(SessionId)
  BY ScanAssumption, FS_Interval DEF SessionId
<1>2. Running \in SUBSET SessionId /\ Admitted \in SUBSET Request
  BY DEF Running, Admitted
<1>3. QED BY <1>1, <1>2, ScanAssumption, FS_Subset, FS_CardinalityType

LEMMA OneMore ==
    ASSUME NEW S, IsFiniteSet(S), NEW x
    PROVE  IsFiniteSet(S \cup {x}) /\ Cardinality(S \cup {x}) <= Cardinality(S) + 1
<1>1. Cardinality(S) \in Nat
  BY FS_CardinalityType
<1>2. IsFiniteSet(S \cup {x}) /\ Cardinality(S \cup {x}) \in {Cardinality(S), Cardinality(S) + 1}
  BY FS_AddElement
<1>3. QED BY <1>1, <1>2

LEMMA CountedSetsNext ==
    /\ IsFiniteSet(Running') /\ Cardinality(Running') \in Nat
    /\ IsFiniteSet(Admitted') /\ Cardinality(Admitted') \in Nat
<1>1. IsFiniteSet(SessionId)
  BY ScanAssumption, FS_Interval DEF SessionId
<1>2. Running' \in SUBSET SessionId /\ Admitted' \in SUBSET Request
  BY DEF Running, Admitted
<1>3. QED BY <1>1, <1>2, ScanAssumption, FS_Subset, FS_CardinalityType

LEMMA OvershootInit == Init => OvershootShape
<1> SUFFICES ASSUME Init PROVE OvershootShape
  OBVIOUS
<1>1. Admitted = {} /\ Existing = {}
  BY DEF Init, Admitted, Existing, NoSession, Idle
<1>2. Cardinality(Admitted) = 0
  BY <1>1, FS_EmptySet
<1>3. QED BY <1>1, <1>2 DEF Init, OvershootShape, OvershootBounded

LEMMA RunningOld ==
    ASSUME TypeOK, [Next]_vars, NEW s \in Existing, s \in Running'
    PROVE  s \in Running
<1>1. sessions'[s].status = "running" /\ s \in SessionId
  BY DEF Running, Existing
<1>2. ASSUME NEW q \in Request, request[q].session = s, Complete(q) \/ Reject(q)
      PROVE  sessions'[s] = sessions[s]
  <2>1. Scanning(q)
    BY <1>2 DEF Complete, Reject, Scanning
  <2>2. PICK row \in {CompletedRow(q), FailedRow(q)} : Transition(q, row)
    BY <1>2 DEF Complete, Reject, CompletedRow, FailedRow
  <2>3. row \in Session /\ row.status \in {"completed", "failed"}
    BY <2>1, EndRows
  <2>4. QED BY <1>1, <1>2, <2>1, <2>2, <2>3, TransitionType
<1>3. QED BY <1>1, <1>2, StepOfSession DEF Running

(* A request is admitted by a post, or by the guard.                       *)
LEMMA AdmittedStep ==
    ASSUME TypeOK, [Next]_vars
    PROVE  \/ Admitted' \subseteq Admitted /\ UNCHANGED <<peak, unguarded>>
           \/ Admit /\ UNCHANGED unguarded /\ (Admitted' \subseteq Admitted \/ ~AtCapacity)
           \/ Admit /\ unguarded' = unguarded + 1 /\ \E q \in Request : Admitted' \subseteq Admitted \cup {q}
<1> DEFINE Quiet == Admitted' \subseteq Admitted /\ UNCHANGED <<peak, unguarded>>
<1>0. request \in [Request -> RequestState] /\ Idle.pc = "idle"
  BY DEF TypeOK, Idle
<1>1. ASSUME NEW q \in Request, NEW d \in Domain, PostPublicScan(q, d) PROVE Quiet
  BY <1>0, <1>1 DEF PostPublicScan, Receive, Idle, Admitted
<1>2. ASSUME NEW q \in Request, NEW d \in Domain, PostOnDemand(q, d)
      PROVE  Admit /\ unguarded' = unguarded + 1 /\ Admitted' \subseteq Admitted \cup {q}
  BY <1>0, <1>2 DEF PostOnDemand, Receive, Admitted
<1>3. ASSUME NEW q \in Request, CheckDomainCooldown(q) PROVE Quiet
  <2>1. request[q] \in RequestState
    BY <1>0
  <2>2. \A p \in Request : request'[p].pc = "create" => request[p].pc = "create"
    BY <1>0, <1>3, <2>1 DEF CheckDomainCooldown, RequestState
  <2>3. QED BY <1>3, <2>2 DEF CheckDomainCooldown, Admitted
<1>4. ASSUME NEW q \in Request, DomainCooldownFails(q) PROVE Quiet
  <2>1. request[q] \in RequestState
    BY <1>0
  <2>2. QED BY <1>0, <1>4, <2>1 DEF DomainCooldownFails, Admitted, RequestState
<1>5. ASSUME NEW q \in Request, CheckConcurrency(q)
      PROVE  Admit /\ UNCHANGED unguarded /\ (Admitted' \subseteq Admitted \/ ~AtCapacity)
  BY <1>0, <1>5 DEF CheckConcurrency, Admitted
<1>6. ASSUME NEW q \in Request, ConcurrencyCountFails(q)
      PROVE  Admit /\ unguarded' = unguarded + 1 /\ Admitted' \subseteq Admitted \cup {q}
  BY <1>0, <1>6 DEF ConcurrencyCountFails, Admitted
<1>7. ASSUME NEW q \in Request, CreateSession(q) PROVE Quiet
  <2>1. PICK t \in SessionId : request' = [request EXCEPT ![q].pc = "scan", ![q].session = t]
    BY <1>7 DEF CreateSession
  <2>2. request[q] \in RequestState
    BY <1>0
  <2>3. QED BY <1>0, <1>7, <2>1, <2>2 DEF CreateSession, Admitted, RequestState
<1>8. ASSUME NEW q \in Request, CreateSessionFails(q) \/ Complete(q) \/ RunDown(q) PROVE Quiet
  BY <1>0, <1>8 DEF CreateSessionFails, Complete, RunDown, Admitted
<1>9. ASSUME NEW q \in Request, Reject(q) PROVE Quiet
  <2>1. request[q] \in RequestState
    BY <1>0
  <2>2. QED BY <1>0, <1>9, <2>1 DEF Reject, Admitted, RequestState
<1>10. ASSUME NEW q \in Request,
              \/ CollectPair(q)
              \/ \E j \in Signal : Collect(q, j) \/ Score(q, j) \/ ReadBackFails(q, j) \/ ScoreThrows(q, j)
       PROVE  Quiet
  <2>1. PICK job \in [Signal -> Phase] : request' = [request EXCEPT ![q].job = job]
    BY <1>10, JobStep
  <2>2. request[q] \in RequestState
    BY <1>0
  <2>3. Admitted' \subseteq Admitted
    BY <1>0, <2>1, <2>2 DEF Admitted, RequestState
  <2>4. QED BY <1>10, <2>3 DEF CollectPair, Collect, Score, ReadBackFails, ScoreThrows
<1>11. CASE Restart
  BY <1>0, <1>11 DEF Restart, Admitted
<1>12. CASE Tick \/ UNCHANGED vars
  BY <1>12 DEF Tick, vars, Admitted
<1>13. QED
  BY <1>1, <1>2, <1>3, <1>4, <1>5, <1>6, <1>7, <1>8, <1>9, <1>10, <1>11, <1>12
     DEF Next, Answer, Scan

LEMMA OvershootStep == TypeOK /\ OvershootShape /\ [Next]_vars => OvershootShape'
<1> SUFFICES ASSUME TypeOK, OvershootShape, [Next]_vars PROVE OvershootShape'
  OBVIOUS
<1>0. peak \in Nat /\ peak' \in Nat /\ unguarded \in Nat /\ unguarded' \in Nat /\ Ceiling \in Nat \ {0}
  BY TypeStep, ScanAssumption DEF TypeOK
<1>1. ASSUME Existing' \subseteq Existing PROVE OvershootShape'
  <2>1. Running' \subseteq Running
    BY <1>1, RunningOld DEF Running, Existing
  <2>2. Cardinality(Running') <= Cardinality(Running)
    BY <2>1, CountedSets, FS_Subset
  <2>3. Admitted' \subseteq Admitted => Cardinality(Admitted') <= Cardinality(Admitted)
    BY CountedSets, FS_Subset
  <2>4. CASE Admitted' \subseteq Admitted /\ UNCHANGED <<peak, unguarded>>
    BY <1>0, <1>1, <2>2, <2>3, <2>4, CountedSets, CountedSetsNext DEF OvershootShape, OvershootBounded
  <2>5. CASE Admit /\ UNCHANGED unguarded /\ (Admitted' \subseteq Admitted \/ ~AtCapacity)
    <3>1. CASE Admitted' \subseteq Admitted
      <4>1. peak' = peak
        BY <1>0, <2>3, <2>5, <3>1, CountedSets, CountedSetsNext DEF Admit, OvershootShape
      <4>2. QED BY <2>4, <2>5, <3>1, <4>1
    <3>2. CASE ~AtCapacity
      <4>1. Cardinality(Running') < Ceiling
        BY <1>0, <2>2, <3>2, CountedSets, CountedSetsNext DEF AtCapacity
      <4>2. Cardinality(Admitted') <= peak' /\ peak <= peak'
        BY <1>0, <2>5, CountedSetsNext DEF Admit
      <4>3. QED
        BY <1>0, <1>1, <2>5, <4>1, <4>2, CountedSetsNext DEF OvershootShape, OvershootBounded
    <3>3. QED BY <2>5, <3>1, <3>2
  <2>6. ASSUME Admit, unguarded' = unguarded + 1, NEW q \in Request, Admitted' \subseteq Admitted \cup {q}
        PROVE  OvershootShape'
    <3>1. Cardinality(Admitted') <= Cardinality(Admitted) + 1
      <4>1. IsFiniteSet(Admitted \cup {q}) /\ Cardinality(Admitted \cup {q}) <= Cardinality(Admitted) + 1
        BY CountedSets, OneMore
      <4>2. Cardinality(Admitted') <= Cardinality(Admitted \cup {q}) /\ Cardinality(Admitted \cup {q}) \in Nat
        BY <2>6, <4>1, FS_Subset, FS_CardinalityType
      <4>3. QED BY <4>1, <4>2, CountedSets, CountedSetsNext
    <3>2. Cardinality(Admitted') <= peak' /\ peak <= peak'
      BY <1>0, <2>6, CountedSetsNext DEF Admit
    <3>3. peak = 0 => Cardinality(Running) = 0 /\ Cardinality(Admitted) = 0
      <4>1. Existing = {} => Running = {}
        BY DEF Existing, Running
      <4>2. QED BY <1>0, <4>1, CountedSets, FS_EmptySet DEF OvershootShape
    <3>4. QED
      BY <1>0, <1>1, <2>2, <2>6, <3>1, <3>2, <3>3, CountedSets, CountedSetsNext
         DEF OvershootShape, OvershootBounded
  <2>7. QED BY <2>4, <2>5, <2>6, AdmittedStep
<1>2. ASSUME NEW s \in Existing', s \notin Existing PROVE OvershootShape'
  <2>1. PICK q \in Request :
           /\ Created(q, s)
           /\ \/ request' = [request EXCEPT ![q].pc = "scan", ![q].session = s]
              \/ request' = [request EXCEPT ![q] = Idle]
           /\ request[q].pc = "create" /\ UNCHANGED <<peak, unguarded>>
    BY <1>2, StepToSession
  <2>2. Running' \subseteq Running \cup {s}
    <3>1. s \in SessionId
      BY <1>2 DEF Existing
    <3>2. QED BY <2>1, <3>1, CreatedType DEF Running
  <2>3. Cardinality(Running') <= Cardinality(Running) + 1
    <3>1. IsFiniteSet(Running \cup {s}) /\ Cardinality(Running \cup {s}) <= Cardinality(Running) + 1
      BY CountedSets, OneMore
    <3>2. Cardinality(Running') <= Cardinality(Running \cup {s}) /\ Cardinality(Running \cup {s}) \in Nat
      BY <2>2, <3>1, FS_Subset, FS_CardinalityType
    <3>3. QED BY <3>1, <3>2, CountedSets, CountedSetsNext
  <2>4. Admitted' \subseteq Admitted \ {q} /\ q \in Admitted
    <3>1. request \in [Request -> RequestState] /\ request[q] \in RequestState
      BY DEF TypeOK
    <3>2. QED BY <2>1, <3>1 DEF Admitted, Idle, RequestState
  <2>5. Cardinality(Admitted') <= Cardinality(Admitted) - 1
    <3>1. /\ IsFiniteSet(Admitted \ {q}) /\ Cardinality(Admitted \ {q}) = Cardinality(Admitted) - 1
      BY <2>4, CountedSets, FS_RemoveElement
    <3>2. Cardinality(Admitted') <= Cardinality(Admitted \ {q})
      BY <2>4, <3>1, FS_Subset
    <3>3. QED BY <3>1, <3>2
  <2>6. QED
    BY <1>0, <2>1, <2>3, <2>5, CountedSets, CountedSetsNext DEF OvershootShape, OvershootBounded
<1>3. QED BY <1>1, <1>2

(* publicScanConcurrencyGuard.js: scans exceed the ceiling by no more than *)
(* the requests that were past the guard together or not counted by it.    *)
THEOREM Overshoot == Spec => []OvershootBounded
<1>1. OvershootShape => OvershootBounded
  BY DEF OvershootShape
<1>2. QED BY TypeInit, TypeStep, OvershootInit, OvershootStep, <1>1, PTL DEF Spec
-----------------------------------------------------------------------------
(* Scans as the tables see them: the refinement of ScanRecord.             *)

(* A signal of a scan, or the pair, goes on.                               *)
Works(q) ==
    \/ CollectPair(q)
    \/ \E j \in Signal : Collect(q, j) \/ Score(q, j) \/ ReadBackFails(q, j) \/ ScoreThrows(q, j)

(* A request that is served has a domain; the session of a scan whose      *)
(* outcome is open is running and not lost, that of a rejected one has not *)
(* been completed.                                                         *)
OpenScans ==
    \A q \in Request :
        /\ request[q].pc # "idle" => request[q].domain \in Domain
        /\ request[q].pc = "scan" => request[q].session \in Running \ lost
        /\ request[q].pc = "rejected" => sessions[request[q].session].status \in {"running", "failed"}

(* Rows belong to sessions that exist, and a scan's session has no row of  *)
(* a signal that is not as far; a masked pair has been let go on.          *)
FreshRows ==
    /\ \A s \in SessionId \ Existing : evidence[s] = {} /\ quality[s] = {} /\ s \notin masked
    /\ \A q \in Request : Scanning(q) /\ request[q].session \in masked =>
          \A j \in Paired : request[q].job[j] \notin {"collect", "failed"}
    /\ \A q \in Request : Scanning(q) => \A j \in Signal :
          /\ request[q].job[j] \in {"collect", "failed"} => j \notin evidence[request[q].session]
          /\ request[q].job[j] # "scored" => j \notin quality[request[q].session]
    /\ lost \subseteq Existing

LEMMA RecordInvInit == Init => OpenScans /\ FreshRows
<1> SUFFICES ASSUME Init PROVE OpenScans /\ FreshRows
  OBVIOUS
<1>1. /\ \A q \in Request : request[q].pc = "idle"
      /\ \A s \in SessionId : evidence[s] = {} /\ quality[s] = {}
      /\ masked = {} /\ lost = {}
  BY DEF Init, Idle
<1>2. QED BY <1>1 DEF OpenScans, FreshRows, Scanning

(* Who a session is lost to.                                               *)
LEMMA LostStep ==
    ASSUME TypeOK, [Next]_vars, NEW s \in lost'
    PROVE  \/ s \in lost
           \/ s \in Existing' \ Existing
           \/ \E q \in Request : request[q].session = s /\ (Complete(q) \/ Reject(q))
           \/ Restart /\ s \in Running
<1>1. ASSUME NEW q \in Request, NEW d \in Domain, PostPublicScan(q, d) \/ PostOnDemand(q, d)
      PROVE  UNCHANGED lost
  BY <1>1 DEF PostPublicScan, PostOnDemand
<1>2. ASSUME NEW q \in Request,
             \/ CheckDomainCooldown(q) \/ DomainCooldownFails(q)
             \/ CheckConcurrency(q) \/ ConcurrencyCountFails(q) \/ CreateSession(q)
      PROVE  UNCHANGED lost
  BY <1>2 DEF CheckDomainCooldown, DomainCooldownFails, CheckConcurrency, ConcurrencyCountFails,
              CreateSession
<1>3. ASSUME NEW q \in Request, CreateSessionFails(q) PROVE s \in lost \/ s \in Existing' \ Existing
  <2>1. CASE UNCHANGED lost
    BY <2>1
  <2>2. ASSUME NEW t \in SessionId, Created(q, t), lost' = lost \cup {t}
        PROVE  s \in lost \/ s \in Existing' \ Existing
    <3>1. t \in Existing' \ Existing
      BY <2>2, CreatedType DEF Created
    <3>2. QED BY <2>2, <3>1
  <2>3. QED BY <1>3, <2>1, <2>2 DEF CreateSessionFails
<1>4. ASSUME NEW q \in Request, Works(q) PROVE UNCHANGED lost
  BY <1>4 DEF Works, CollectPair, Collect, Score, ReadBackFails, ScoreThrows
<1>5. ASSUME NEW q \in Request, Complete(q) \/ Reject(q) PROVE s \in lost \/ request[q].session = s
  BY <1>5 DEF Complete, Reject, Transition
<1>6. ASSUME NEW q \in Request, RunDown(q) PROVE UNCHANGED lost
  BY <1>6 DEF RunDown
<1>7. CASE Restart
  BY <1>7 DEF Restart
<1>8. CASE Tick \/ UNCHANGED vars
  BY <1>8 DEF Tick, vars
<1>9. QED
  BY <1>1, <1>2, <1>3, <1>4, <1>5, <1>6, <1>7, <1>8 DEF Next, Answer, Scan, Works

(* What becomes of a request from outside its rows.                        *)
LEMMA ServedStep ==
    ASSUME TypeOK, OpenScans, [Next]_vars, NEW p \in Request
    PROVE  /\ request'[p].pc # "idle" => request'[p].domain \in Domain
           /\ (request'[p].pc = "scan" /\ Scanning(p)) => request[p].pc = "scan"
<1> DEFINE Good ==
      /\ request'[p].pc # "idle" => request'[p].domain \in Domain
      /\ request'[p].pc = "scan" /\ Scanning(p) => request[p].pc = "scan"
<1>0. /\ request \in [Request -> RequestState] /\ request[p] \in RequestState
      /\ Idle.pc = "idle"
      /\ request[p].pc # "idle" => request[p].domain \in Domain
  BY DEF TypeOK, Idle, OpenScans
<1>1. CASE request'[p] \in {request[p], Idle}
  BY <1>0, <1>1
<1>2. ASSUME request[p].pc # "idle", request'[p].domain = request[p].domain,
             request'[p].pc = "scan" /\ Scanning(p) => request[p].pc = "scan"
      PROVE  Good
  BY <1>0, <1>2
<1>3. ASSUME NEW q \in Request, NEW d \in Domain, PostPublicScan(q, d) \/ PostOnDemand(q, d)
      PROVE  Good
  <2>1. PICK pc \in {"cooldown", "create"} : Receive(q, d, pc)
    BY <1>3 DEF PostPublicScan, PostOnDemand
  <2>2. CASE p = q
    BY <1>0, <2>1, <2>2 DEF Receive, Idle
  <2>3. CASE p # q
    BY <1>0, <1>1, <2>1, <2>3 DEF Receive
  <2>4. QED BY <2>2, <2>3
<1>4. ASSUME NEW q \in Request, CheckDomainCooldown(q) \/ CheckConcurrency(q) PROVE Good
  <2>1. CASE CheckDomainCooldown(q)
    <3>1. CASE request'[p] \in {request[p], Idle}
      BY <1>1, <3>1
    <3>2. CASE request'[p] \notin {request[p], Idle}
      <4>1. p = q /\ request'[p] = [request[p] EXCEPT !.pc = "count", !.seen = Existing]
        BY <1>0, <2>1, <3>2 DEF CheckDomainCooldown
      <4>2. QED BY <1>0, <1>2, <2>1, <4>1 DEF CheckDomainCooldown, RequestState
    <3>3. QED BY <3>1, <3>2
  <2>2. CASE CheckConcurrency(q)
    <3>1. CASE request'[p] \in {request[p], Idle}
      BY <1>1, <3>1
    <3>2. CASE request'[p] \notin {request[p], Idle}
      <4>1. p = q /\ request'[p] = [request[p] EXCEPT !.pc = "create"]
        BY <1>0, <2>2, <3>2 DEF CheckConcurrency
      <4>2. QED BY <1>0, <1>2, <2>2, <4>1 DEF CheckConcurrency, RequestState
    <3>3. QED BY <3>1, <3>2
  <2>3. QED BY <1>4, <2>1, <2>2
<1>5. ASSUME NEW q \in Request, DomainCooldownFails(q) \/ ConcurrencyCountFails(q) \/ Reject(q)
      PROVE  Good
  <2>1. request[q].pc # "idle" /\ \E c \in {"count", "create", "rejected"} :
           request' = [request EXCEPT ![q].pc = c]
    BY <1>5 DEF DomainCooldownFails, ConcurrencyCountFails, Reject
  <2>2. CASE p = q
    BY <1>0, <1>2, <2>1, <2>2 DEF RequestState
  <2>3. CASE p # q
    BY <1>0, <1>1, <2>1, <2>3
  <2>4. QED BY <2>2, <2>3
<1>6. ASSUME NEW q \in Request, CreateSession(q) PROVE Good
  <2>1. PICK t \in SessionId : request' = [request EXCEPT ![q].pc = "scan", ![q].session = t]
    BY <1>6 DEF CreateSession
  <2>2. request[q].pc = "create"
    BY <1>6 DEF CreateSession
  <2>3. CASE p = q
    <3>1. request'[p].domain = request[p].domain /\ ~Scanning(p)
      BY <1>0, <2>1, <2>2, <2>3 DEF RequestState, Scanning
    <3>2. QED BY <1>2, <2>2, <2>3, <3>1
  <2>4. CASE p # q
    BY <1>0, <1>1, <2>1, <2>4
  <2>5. QED BY <2>3, <2>4
<1>7. ASSUME NEW q \in Request, CreateSessionFails(q) \/ Complete(q) \/ RunDown(q) PROVE Good
  <2>1. request' = [request EXCEPT ![q] = Idle]
    BY <1>7 DEF CreateSessionFails, Complete, RunDown
  <2>2. QED BY <1>0, <1>1, <2>1
<1>8. ASSUME NEW q \in Request, Works(q) PROVE Good
  <2>1. PICK job \in [Signal -> Phase] : request' = [request EXCEPT ![q].job = job]
    BY <1>8, JobStep DEF Works
  <2>2. request[q].pc # "idle"
    BY <1>8, JobStep DEF Works, Scanning
  <2>3. CASE p = q
    BY <1>0, <1>2, <2>1, <2>2, <2>3 DEF RequestState
  <2>4. CASE p # q
    BY <1>0, <1>1, <2>1, <2>4
  <2>5. QED BY <2>3, <2>4
<1>9. CASE Restart
  BY <1>1, <1>9 DEF Restart
<1>10. CASE Tick \/ UNCHANGED vars
  BY <1>1, <1>10 DEF Tick, vars
<1>11. QED
  BY <1>3, <1>4, <1>5, <1>6, <1>7, <1>8, <1>9, <1>10 DEF Next, Answer, Scan, Works

LEMMA OpenScansStep ==
    TypeOK /\ ScanShape /\ OpenScans /\ FreshRows /\ [Next]_vars => OpenScans'
<1> SUFFICES ASSUME TypeOK, ScanShape, OpenScans, FreshRows, [Next]_vars, NEW p \in Request
             PROVE  /\ request'[p].pc # "idle" => request'[p].domain \in Domain
                    /\ request'[p].pc = "scan" => request'[p].session \in Running' \ lost'
                    /\ request'[p].pc = "rejected" =>
                          sessions'[request'[p].session].status \in {"running", "failed"}
  BY DEF OpenScans
<1>0. request \in [Request -> RequestState] /\ Idle.pc = "idle"
  BY DEF TypeOK, Idle
<1>1. ASSUME Scanning(p)'
      PROVE  /\ request'[p].pc = "scan" => request'[p].session \in Running' \ lost'
             /\ request'[p].pc = "rejected" =>
                   sessions'[request'[p].session].status \in {"running", "failed"}
  <2> DEFINE s == request'[p].session
  <2>0. s \in Existing' /\ s \in SessionId
    BY <1>1, TypeStep DEF TypeOK, Existing
  <2>1. CASE s \notin Existing
    <3>1. PICK q \in Request :
             /\ Created(q, s)
             /\ \/ request' = [request EXCEPT ![q].pc = "scan", ![q].session = s] /\ lost' = lost
                \/ request' = [request EXCEPT ![q] = Idle] /\ lost' = lost \cup {s}
      BY <2>0, <2>1, StepToSession
    <3>2. sessions'[s].status = "running"
      BY <2>0, <3>1, CreatedType
    <3>3. CASE lost' = lost
      BY <2>0, <2>1, <3>2, <3>3 DEF FreshRows, Running
    <3>4. CASE request' = [request EXCEPT ![q] = Idle]
      <4>1. p # q
        BY <1>0, <1>1, <3>4 DEF Scanning
      <4>2. request'[p] = request[p]
        BY <1>0, <3>4, <4>1
      <4>3. QED BY <1>1, <2>1, <4>2 DEF TypeOK, Scanning
    <3>5. QED BY <3>1, <3>3, <3>4
  <2>2. CASE s \in Existing
    <3>1. Scanning(p) /\ request[p].session = s
      BY <2>2, <2>0, StepOfSession, NullIsNoSession DEF TypeOK
    <3>2. \A q \in Request : Scanning(q) /\ request[q].session = s => q = p
      BY <3>1 DEF ScanShape
    <3>3. sessions[s].status \in {"running", "failed"} /\ (request[p].pc = "scan" => s \in Running \ lost)
      BY <3>1 DEF OpenScans, Scanning, Running
    <3>4. CASE \E q \in Request : request[q].session = s /\ (Complete(q) \/ Reject(q))
      <4>1. Complete(p) \/ Reject(p)
        BY <3>2, <3>4 DEF Complete, Reject, Scanning
      <4>2. ~Complete(p)
        BY <1>0, <1>1 DEF Complete, Scanning
      <4>3. Transition(p, FailedRow(p)) /\ request'[p].pc = "rejected"
        BY <1>0, <4>1, <4>2 DEF Reject, FailedRow, RequestState
      <4>4. sessions'[s] \in {FailedRow(p), sessions[s]} /\ FailedRow(p).status = "failed"
        BY <3>1, <4>3, EndRows, TransitionType
      <4>5. QED BY <3>3, <4>3, <4>4
    <3>5. CASE ~\E q \in Request : request[q].session = s /\ (Complete(q) \/ Reject(q))
      <4>1. sessions'[s] = sessions[s]
        BY <2>2, <3>5, StepOfSession
      <4>2. ~Restart
        BY <1>0, <1>1 DEF Restart, Scanning
      <4>3. s \in lost' => s \in lost
        BY <2>2, <3>5, <4>2, LostStep
      <4>4. request'[p].pc = "scan" => request[p].pc = "scan"
        BY <3>1, ServedStep
      <4>5. QED BY <3>3, <4>1, <4>3, <4>4 DEF Running
    <3>6. QED BY <3>4, <3>5
  <2>3. QED BY <2>1, <2>2
<1>2. QED BY <1>1, ServedStep DEF Scanning
(* The rows a step of a scan adds, and where it puts their signals.        *)
LEMMA WorkRows ==
    ASSUME TypeOK, ScanShape, NEW q \in Request, Works(q)
    PROVE  \E E, Q \in SUBSET Signal :
              /\ evidence' = [evidence EXCEPT ![request[q].session] = @ \cup E]
              /\ quality' = [quality EXCEPT ![request[q].session] = @ \cup Q]
              /\ E = {} \/ Q = {}
              /\ Q # {} => \E j \in evidence[request[q].session] : Q = {j}
              /\ \A j \in E : request'[q].job[j] = "score"
              /\ \A j \in Q : request'[q].job[j] = "scored"
              /\ \/ masked' = masked
                 \/ /\ masked' = masked \cup {request[q].session} /\ Q = {}
                    /\ \A j \in Paired : request'[q].job[j] = "score"
                    /\ \E j \in Paired : request[q].job[j] = "collect" /\ j \notin E
              /\ \A j \in Signal :
                    /\ request'[q].job[j] \in {"collect", "failed"} =>
                          request[q].job[j] \in {"collect", "failed"}
                    /\ request'[q].job[j] # "scored" => request[q].job[j] # "scored"
<1> DEFINE s == request[q].session
           Old == request[q].job
           New == request'[q].job
           Phases == \A j \in Signal :
                        /\ New[j] \in {"collect", "failed"} => Old[j] \in {"collect", "failed"}
                        /\ New[j] # "scored" => Old[j] # "scored"
           Goal == \E E, Q \in SUBSET Signal :
              /\ evidence' = [evidence EXCEPT ![s] = @ \cup E]
              /\ quality' = [quality EXCEPT ![s] = @ \cup Q]
              /\ E = {} \/ Q = {}
              /\ Q # {} => \E j \in evidence[s] : Q = {j}
              /\ \A j \in E : New[j] = "score"
              /\ \A j \in Q : New[j] = "scored"
              /\ \/ masked' = masked
                 \/ /\ masked' = masked \cup {s} /\ Q = {}
                    /\ \A j \in Paired : New[j] = "score"
                    /\ \E j \in Paired : Old[j] = "collect" /\ j \notin E
              /\ Phases
<1>0. /\ request \in [Request -> RequestState] /\ request[q] \in RequestState
      /\ Old \in [Signal -> Phase] /\ Scanning(q) /\ s \in SessionId
      /\ evidence \in [SessionId -> SUBSET Signal] /\ quality \in [SessionId -> SUBSET Signal]
  BY JobStep, ScanningSession DEF Works, TypeOK, RequestState
<1>1. /\ evidence = [evidence EXCEPT ![s] = @ \cup {}]
      /\ quality = [quality EXCEPT ![s] = @ \cup {}]
  BY <1>0
<1>2. ASSUME NEW j \in Signal, NEW phase, Settle(q, j, phase)
      PROVE  \A i \in Signal : New[i] = IF i = j THEN phase ELSE Old[i]
  BY <1>0, <1>2 DEF Settle, RequestState
<1> HIDE DEF s, Old, New
<1>3. ASSUME NEW j \in Signal, Collect(q, j) PROVE Goal
  <2>1. Old[j] = "collect" /\ quality' = quality /\ masked' = masked
    BY <1>3 DEF Collect, Old
  <2>2. CASE evidence' = [evidence EXCEPT ![s] = @ \cup {j}] /\ Settle(q, j, "score")
    <3>1. \A i \in Signal : New[i] = IF i = j THEN "score" ELSE Old[i]
      BY <1>2, <2>2
    <3>2. Phases
      BY <2>1, <3>1
    <3>3. WITNESS {j} \in SUBSET Signal, {} \in SUBSET Signal
    <3>4. QED BY <1>1, <2>1, <2>2, <3>1, <3>2
  <2>3. CASE UNCHANGED evidence /\ Settle(q, j, "failed")
    <3>1. \A i \in Signal : New[i] = IF i = j THEN "failed" ELSE Old[i]
      BY <1>2, <2>3
    <3>2. Phases
      BY <2>1, <3>1
    <3>3. WITNESS {} \in SUBSET Signal, {} \in SUBSET Signal
    <3>4. QED BY <1>1, <2>1, <2>3, <3>2
  <2>4. QED BY <1>3, <2>2, <2>3 DEF Collect, s
<1>4. ASSUME NEW j \in Signal, Score(q, j) PROVE Goal
  <2>1. Old[j] = "score" /\ evidence' = evidence /\ masked' = masked
    BY <1>4 DEF Score, Old
  <2>2. j \in evidence[s]
    BY <1>4 DEF Score, s
  <2>3. CASE quality' = [quality EXCEPT ![s] = @ \cup {j}] /\ Settle(q, j, "scored")
    <3>1. \A i \in Signal : New[i] = IF i = j THEN "scored" ELSE Old[i]
      BY <1>2, <2>3
    <3>2. Phases
      BY <2>1, <3>1
    <3>3. WITNESS {} \in SUBSET Signal, {j} \in SUBSET Signal
    <3>4. QED BY <1>1, <2>1, <2>2, <2>3, <3>1, <3>2
  <2>4. CASE UNCHANGED quality /\ Settle(q, j, "observed")
    <3>1. \A i \in Signal : New[i] = IF i = j THEN "observed" ELSE Old[i]
      BY <1>2, <2>4
    <3>2. Phases
      BY <2>1, <3>1
    <3>3. WITNESS {} \in SUBSET Signal, {} \in SUBSET Signal
    <3>4. QED BY <1>1, <2>1, <2>4, <3>2
  <2>5. QED BY <1>4, <2>3, <2>4 DEF Score, s
<1>5. ASSUME NEW j \in Signal, ReadBackFails(q, j) \/ ScoreThrows(q, j) PROVE Goal
  <2>1. Old[j] = "score" /\ evidence' = evidence /\ quality' = quality /\ masked' = masked
    BY <1>5 DEF ReadBackFails, ScoreThrows, Old
  <2>2. Phases
    <3>1. CASE ReadBackFails(q, j)
      <4>1. \A i \in Signal : New[i] = IF i = j THEN "observed" ELSE Old[i]
        BY <1>2, <3>1 DEF ReadBackFails
      <4>2. QED BY <2>1, <4>1
    <3>2. CASE ScoreThrows(q, j)
      <4>1. \A i \in Signal : New[i] = IF i = j THEN "threw"
                                       ELSE IF j = "tls" /\ i = "certificate" /\ Old[i] = "score"
                                       THEN "abandoned" ELSE Old[i]
        BY <1>0, <3>2 DEF ScoreThrows, New, Old, RequestState
      <4>2. QED BY <2>1, <4>1
    <3>3. QED BY <1>5, <3>1, <3>2
  <2>3. WITNESS {} \in SUBSET Signal, {} \in SUBSET Signal
  <2>4. QED BY <1>1, <2>1, <2>2
<1>6. ASSUME CollectPair(q) PROVE Goal
  <2>1. (\A j \in Paired : Old[j] = "collect") /\ quality' = quality
    BY <1>6 DEF CollectPair, Old
  <2>2. PICK written \in SUBSET Paired, read \in SUBSET Paired :
          /\ evidence' = [evidence EXCEPT ![s] = @ \cup written]
          /\ PairGoesOn(q, read)
          /\ \/ read = written /\ masked' = masked
             \/ read = Paired /\ written # Paired /\ masked' = masked \cup {s}
    BY <1>6 DEF CollectPair, s
  <2>3. \A j \in Signal : New[j] = IF j \notin Paired THEN Old[j]
                                   ELSE IF j \in read THEN "score" ELSE "failed"
    BY <1>0, <2>2 DEF PairGoesOn, New, Old, RequestState
  <2>4. Phases
    BY <2>1, <2>3
  <2>5. written \in SUBSET Signal /\ Paired \subseteq Signal
    BY DEF Signal
  <2>6. \/ masked' = masked
        \/ /\ masked' = masked \cup {s}
           /\ \A j \in Paired : New[j] = "score"
           /\ \E j \in Paired : Old[j] = "collect" /\ j \notin written
    BY <2>1, <2>2, <2>3, <2>5
  <2>7. \A j \in written : New[j] = "score"
    BY <2>2, <2>3, <2>5
  <2> USE <2>5
  <2>8. WITNESS written \in SUBSET Signal, {} \in SUBSET Signal
  <2>9. QED BY <1>1, <2>1, <2>2, <2>4, <2>5, <2>6, <2>7
<1>7. QED BY <1>3, <1>4, <1>5, <1>6 DEF Works, s, Old, New

(* Only the scans at work touch rows.                                      *)
LEMMA RowsStep ==
    ASSUME TypeOK, [Next]_vars, NEW s \in SessionId
    PROVE  \/ evidence'[s] = evidence[s] /\ quality'[s] = quality[s] /\ (s \in masked' => s \in masked)
           \/ \E q \in Request : Works(q) /\ Scanning(q) /\ request[q].session = s
<1>0. /\ evidence \in [SessionId -> SUBSET Signal] /\ quality \in [SessionId -> SUBSET Signal]
  BY DEF TypeOK
<1>1. ASSUME NEW q \in Request, Works(q), request[q].session # s
      PROVE  evidence'[s] = evidence[s] /\ quality'[s] = quality[s] /\ (s \in masked' => s \in masked)
  <2>1. CASE CollectPair(q)
    BY <1>0, <1>1, <2>1 DEF CollectPair
  <2>2. ASSUME NEW j \in Signal, Collect(q, j) \/ Score(q, j) \/ ReadBackFails(q, j) \/ ScoreThrows(q, j)
        PROVE  evidence'[s] = evidence[s] /\ quality'[s] = quality[s] /\ masked' = masked
    BY <1>0, <1>1, <2>2 DEF Collect, Score, ReadBackFails, ScoreThrows
  <2>3. QED BY <1>1, <2>1, <2>2 DEF Works
<1>2. ASSUME NEW q \in Request, Works(q) PROVE Scanning(q)
  BY <1>2, JobStep DEF Works
<1>3. CASE UNCHANGED <<evidence, quality, masked>>
  BY <1>3
<1>4. CASE \E q \in Request : Works(q)
  BY <1>1, <1>2, <1>4
<1>5. UNCHANGED <<evidence, quality, masked>> \/ \E q \in Request : Works(q)
  BY DEF Next, Answer, Scan, Works, vars, PostPublicScan, PostOnDemand, CheckDomainCooldown,
         DomainCooldownFails, CheckConcurrency, ConcurrencyCountFails, CreateSession,
         CreateSessionFails, Complete, Reject, RunDown, Restart, Tick
<1>6. QED BY <1>3, <1>4, <1>5

LEMMA FreshRowsStep ==
    TypeOK /\ ScanShape /\ FreshRows /\ [Next]_vars => FreshRows'
<1> SUFFICES ASSUME TypeOK, ScanShape, FreshRows, [Next]_vars PROVE FreshRows'
  OBVIOUS
<1>0. Existing \subseteq Existing' /\ Existing \subseteq SessionId
  BY StepOfSession DEF Existing
<1>1. ASSUME NEW s \in SessionId \ Existing
      PROVE  evidence'[s] = {} /\ quality'[s] = {} /\ s \notin masked'
  BY <1>1, RowsStep, ScanningSession DEF FreshRows
<1>2. ASSUME NEW p \in Request, Scanning(p)', NEW j \in Signal
      PROVE  /\ request'[p].job[j] \in {"collect", "failed"} => j \notin evidence'[request'[p].session]
             /\ request'[p].job[j] # "scored" => j \notin quality'[request'[p].session]
             /\ request'[p].session \in masked' /\ j \in Paired =>
                   request'[p].job[j] \notin {"collect", "failed"}
  <2> DEFINE s == request[p].session
  <2>1. CASE Works(p) /\ Scanning(p)
    <3>1. PICK E \in SUBSET Signal, Q \in SUBSET Signal :
              /\ evidence' = [evidence EXCEPT ![s] = @ \cup E]
              /\ quality' = [quality EXCEPT ![s] = @ \cup Q]
              /\ \A i \in E : request'[p].job[i] = "score"
              /\ \A i \in Q : request'[p].job[i] = "scored"
              /\ \/ masked' = masked
                 \/ masked' = masked \cup {s} /\ \A i \in Paired : request'[p].job[i] = "score"
              /\ \A i \in Signal :
                    /\ request'[p].job[i] \in {"collect", "failed"} =>
                          request[p].job[i] \in {"collect", "failed"}
                    /\ request'[p].job[i] # "scored" => request[p].job[i] # "scored"
      BY <2>1, WorkRows
    <3>2. s \in SessionId /\ request'[p].session = s
      <4>1. PICK job \in [Signal -> Phase] : request' = [request EXCEPT ![p].job = job]
        BY <2>1, JobStep DEF Works
      <4>2. request \in [Request -> RequestState] /\ request[p] \in RequestState
        BY DEF TypeOK
      <4>3. QED BY <2>1, <4>1, <4>2, ScanningSession DEF RequestState
    <3>3. evidence'[s] = evidence[s] \cup E /\ quality'[s] = quality[s] \cup Q
      BY <3>1, <3>2 DEF TypeOK
    <3>4. /\ request[p].job[j] \in {"collect", "failed"} => j \notin evidence[s]
          /\ request[p].job[j] # "scored" => j \notin quality[s]
          /\ s \in masked /\ j \in Paired => request[p].job[j] \notin {"collect", "failed"}
      BY <2>1 DEF FreshRows
    <3>5. /\ request'[p].job[j] \in {"collect", "failed"} => j \notin evidence'[s]
          /\ request'[p].job[j] # "scored" => j \notin quality'[s]
          /\ s \in masked' /\ j \in Paired => request'[p].job[j] \notin {"collect", "failed"}
      <4> HIDE DEF s
      <4>1. QED BY <3>1, <3>3, <3>4
    <3>6. QED BY <3>2, <3>5
  <2>2. CASE /\ Scanning(p) /\ ~Works(p) /\ request'[p].session = s
             /\ request'[p].job = request[p].job
    <3>1. s \in SessionId
      BY <2>2, ScanningSession
    <3>2. \A q \in Request : Works(q) /\ Scanning(q) => request[q].session # s
      BY <2>2 DEF ScanShape
    <3>3. evidence'[s] = evidence[s] /\ quality'[s] = quality[s] /\ (s \in masked' => s \in masked)
      BY <3>1, <3>2, RowsStep
    <3>4. QED BY <2>2, <3>3 DEF FreshRows
  <2>3. CASE /\ request'[p].session \notin Existing
             /\ \A i \in Signal : request'[p].job[i] = "collect"
    <3>1. request'[p].session \in SessionId
      BY <1>2, TypeStep DEF TypeOK, Existing
    <3>2. /\ evidence'[request'[p].session] = {} /\ quality'[request'[p].session] = {}
          /\ request'[p].session \notin masked'
      BY <1>1, <2>3, <3>1
    <3>3. QED BY <3>2
  <2>4. QED BY <1>2, <2>1, <2>2, <2>3, StepToScan DEF Works
<1>3. ASSUME NEW s \in lost' PROVE s \in Existing'
  <2>1. CASE \E q \in Request : request[q].session = s /\ (Complete(q) \/ Reject(q))
    BY <1>0, <2>1, ScanningSession DEF Complete, Reject, Scanning
  <2>2. CASE s \in Running
    BY <1>0, <2>2 DEF Running, Existing
  <2>3. CASE s \in lost
    BY <1>0, <2>3 DEF FreshRows
  <2>4. QED BY <2>1, <2>2, <2>3, LostStep
<1>4. Paired \subseteq Signal
  BY DEF Signal
<1>5. QED BY <1>0, <1>1, <1>2, <1>3, <1>4 DEF FreshRows

RecordInv == TypeOK /\ ScanShape /\ SeenIsPast /\ OpenScans /\ FreshRows

LEMMA RecordInvStep == RecordInv /\ [Next]_vars => RecordInv'
  BY TypeStep, ScanShapeStep, SeenIsPastStep, OpenScansStep, FreshRowsStep DEF RecordInv

LEMMA SameCardinality == \A S : Record!Cardinality(S) = Cardinality(S)
  BY DEF Record!Cardinality, Cardinality

(* A new session is a session of the record, after all the others.         *)
LEMMA CreatedIsRecorded ==
    ASSUME RecordInv, NEW q \in Request, request[q].pc = "create",
           NEW s \in SessionId, Created(q, s), lost' \in {lost, lost \cup {s}},
           UNCHANGED <<evidence, quality, masked>>
    PROVE  Record!Create(s)
<1>1. /\ request[q].domain \in Domain /\ clock \in Nat
      /\ \A t \in Existing : sessions[t].created <= clock
  BY DEF RecordInv, OpenScans, SeenIsPast, TypeOK
<1> DEFINE row == [NoSession EXCEPT !.status = "running", !.domain = request[q].domain, !.created = clock]
<1>2. row \in Record!Opened /\ row.created = clock
  BY <1>1 DEF NoSession, Record!Opened
<1>3. /\ sessions' = [sessions EXCEPT ![s] = row]
      /\ s \notin Existing /\ \A t \in SessionId : t < s => t \in Existing
  BY DEF Created
<1> HIDE DEF row
<1>4. sessions'[s] = row
  BY <1>3 DEF RecordInv, TypeOK
<1>5. Record!Existing = Existing
  BY DEF Record!Existing, Existing
<1>6. QED BY <1>1, <1>2, <1>3, <1>4, <1>5 DEF Record!Create

(* A step of a scan gathers evidence, adds a score, or changes no row.     *)
LEMMA WorkIsRecorded ==
    ASSUME RecordInv, NEW q \in Request, Works(q)
    PROVE  [Record!Next]_(Record!vars)
<1> DEFINE s == request[q].session
<1>0. /\ evidence \in [SessionId -> SUBSET Signal] /\ quality \in [SessionId -> SUBSET Signal]
      /\ Scanning(q) /\ s \in SessionId /\ sessions' = sessions
  BY JobStep, ScanningSession DEF RecordInv, TypeOK, Works
<1>1. lost' = lost
  BY DEF Works, CollectPair, Collect, Score, ReadBackFails, ScoreThrows
<1>2. Record!Open(s)
  BY <1>0 DEF RecordInv, OpenScans, Scanning, Running, Record!Open
<1>3. PICK E \in SUBSET Signal, Q \in SUBSET Signal :
              /\ evidence' = [evidence EXCEPT ![s] = @ \cup E]
              /\ quality' = [quality EXCEPT ![s] = @ \cup Q]
              /\ E = {} \/ Q = {}
              /\ Q # {} => \E j \in evidence[s] : Q = {j}
              /\ \/ masked' = masked
                 \/ /\ masked' = masked \cup {s} /\ Q = {}
                    /\ \E j \in Paired : request[q].job[j] = "collect" /\ j \notin E
  BY WorkRows DEF RecordInv
<1>a. \A j \in Paired : request[q].job[j] = "collect" => j \notin evidence[s]
  BY <1>0 DEF RecordInv, FreshRows, Signal
<1> HIDE DEF s
<1>4. CASE Q = {}
  <2>1. quality' = quality
    BY <1>0, <1>3, <1>4
  <2>2. evidence'[s] = evidence[s] \cup E /\ evidence' = [evidence EXCEPT ![s] = evidence'[s]]
    BY <1>0, <1>3
  <2>3. masked' = masked \/ (masked' = masked \cup {s} /\ ~(Paired \subseteq evidence'[s]))
    BY <1>3, <1>a, <2>2
  <2>4. Record!Gather(s)
    BY <1>0, <1>1, <1>2, <2>1, <2>2, <2>3 DEF Record!Gather
  <2>5. QED BY <1>0, <2>4 DEF Record!Next
<1>5. CASE Q # {}
  <2>1. PICK j \in evidence[s] : Q = {j}
    BY <1>3, <1>5
  <2>2. evidence' = evidence /\ masked' = masked
    BY <1>0, <1>3, <1>5
  <2>3. j \in Signal /\ quality' = [quality EXCEPT ![s] = @ \cup {j}]
    BY <1>0, <1>3, <2>1
  <2>4. Record!Score(s, j)
    BY <1>0, <1>1, <1>2, <2>1, <2>2, <2>3 DEF Record!Score
  <2>5. QED BY <1>0, <2>3, <2>4 DEF Record!Next
<1>6. QED BY <1>4, <1>5

(* What a completed scan counts is what is in its session's rows, or what  *)
(* the exception in its pair has it claim.                                 *)
LEMMA AccountIsExact ==
    ASSUME RecordInv, NEW q \in Request, Scanning(q), AllSettled(q), ~Threw(q)
    PROVE  LET s == request[q].session IN
           /\ Count(q, {"observed", "scored"}) = Cardinality(Claimed(s))
           /\ Count(q, {"scored"}) = Cardinality(quality[s])
           /\ Count(q, {"failed"}) = Cardinality(Signal \ Claimed(s))
<1> DEFINE s == request[q].session
           In(phases) == {j \in Signal : request[q].job[j] \in phases}
<1>0. Claimed(s) \in SUBSET Signal /\ quality[s] \in SUBSET Signal
  BY ScanningSession DEF RecordInv, TypeOK, Claimed, Signal
<1>1. \A j \in Signal : request[q].job[j] \in {"failed", "observed", "scored"}
  BY DEF AllSettled, Settled, Threw, RecordInv, ScanShape
<1>2. \A j \in Signal :
         /\ j \in Claimed(s) <=> request[q].job[j] \in {"observed", "scored"}
         /\ j \in quality[s] <=> request[q].job[j] = "scored"
  BY <1>1 DEF RecordInv, ScanShape, FreshRows, Claimed
<1>3. /\ In({"observed", "scored"}) = Claimed(s) /\ In({"scored"}) = quality[s]
      /\ In({"failed"}) = Signal \ Claimed(s)
  <2> HIDE DEF s
  <2>1. QED BY <1>0, <1>1, <1>2
<1>4. QED BY <1>3 DEF Count

LEMMA EndIsRecorded ==
    ASSUME RecordInv, NEW q \in Request, Complete(q) \/ Reject(q)
    PROVE  Record!Next
<1> DEFINE s == request[q].session
<1>0. /\ Scanning(q) /\ s \in SessionId /\ s \in Running \ lost /\ s \in Record!Running \ lost
      /\ sessions \in [SessionId -> Session] /\ sessions[s] \in Session
      /\ UNCHANGED <<evidence, quality, masked>> /\ Record!Claimed(s) = Claimed(s)
  BY ScanningSession
     DEF Complete, Reject, Scanning, RecordInv, OpenScans, TypeOK, Running, Record!Running,
         Claimed, Record!Claimed
<1>1. CASE UNCHANGED sessions /\ lost' = lost \cup {s}
  <2>1. {s} \in SUBSET Record!Running
    BY <1>0
  <2>2. QED BY <1>0, <1>1, <2>1 DEF Record!Lose, Record!Next
<1>2. CASE Complete(q) /\ sessions' = [sessions EXCEPT ![s] = CompletedRow(q)] /\ UNCHANGED lost
  <2>1. CompletedRow(q) = [sessions[s] EXCEPT !.status = "completed",
                             !.observed = Record!Cardinality(Claimed(s)),
                             !.scored = Record!Cardinality(quality[s]),
                             !.failed = Record!Cardinality(Signal \ Claimed(s))]
    BY <1>0, <1>2, AccountIsExact, SameCardinality DEF CompletedRow, Complete
  <2> HIDE DEF s
  <2>2. sessions' = [sessions EXCEPT ![s].status = "completed",
                       ![s].observed = Record!Cardinality(Claimed(s)),
                       ![s].scored = Record!Cardinality(quality[s]),
                       ![s].failed = Record!Cardinality(Signal \ Claimed(s))]
    BY <1>0, <1>2, <2>1
  <2>3. Record!Complete(s)
    BY <1>0, <1>2, <2>2 DEF Record!Complete
  <2>4. QED BY <1>0, <2>3 DEF Record!Next
<1>3. CASE Reject(q) /\ sessions' = [sessions EXCEPT ![s] = FailedRow(q)] /\ UNCHANGED lost
  <2>1. sessions' = [sessions EXCEPT ![s].status = "failed"]
    BY <1>0, <1>3 DEF FailedRow
  <2>2. Record!Fail(s)
    BY <1>0, <1>3, <2>1 DEF Record!Fail
  <2>3. QED BY <1>0, <2>2 DEF Record!Next
<1>4. Complete(q) => Transition(q, CompletedRow(q))
  BY DEF Complete, CompletedRow
<1>5. Reject(q) => Transition(q, FailedRow(q))
  BY DEF Reject, FailedRow
<1>6. QED BY <1>1, <1>2, <1>3, <1>4, <1>5 DEF Transition

LEMMA RecordStart == Init => Record!Init
  BY DEF Init, Record!Init, NoSession, Record!Blank

LEMMA RecordStep == RecordInv /\ [Next]_vars => [Record!Next]_(Record!vars)
<1> SUFFICES ASSUME RecordInv, [Next]_vars PROVE [Record!Next]_(Record!vars)
  OBVIOUS
<1>1. CASE UNCHANGED <<sessions, evidence, quality, masked, lost>>
  BY <1>1 DEF Record!vars
<1>2. ASSUME NEW q \in Request, NEW d \in Domain, PostPublicScan(q, d) \/ PostOnDemand(q, d)
      PROVE  UNCHANGED <<sessions, evidence, quality, masked, lost>>
  BY <1>2 DEF PostPublicScan, PostOnDemand
<1>3. ASSUME NEW q \in Request,
             CheckDomainCooldown(q) \/ DomainCooldownFails(q) \/ CheckConcurrency(q) \/ ConcurrencyCountFails(q)
      PROVE  UNCHANGED <<sessions, evidence, quality, masked, lost>>
  BY <1>3 DEF CheckDomainCooldown, DomainCooldownFails, CheckConcurrency, ConcurrencyCountFails
<1>4. ASSUME NEW q \in Request, CreateSession(q) PROVE Record!Next
  <2>1. PICK s \in SessionId : Created(q, s)
    BY <1>4 DEF CreateSession
  <2>2. Record!Create(s)
    BY <1>4, <2>1, CreatedIsRecorded DEF CreateSession
  <2>3. QED BY <2>2 DEF Record!Next
<1>5. ASSUME NEW q \in Request, CreateSessionFails(q) PROVE [Record!Next]_(Record!vars)
  <2>1. CASE UNCHANGED <<sessions, seen, lost>>
    BY <1>1, <1>5, <2>1 DEF CreateSessionFails
  <2>2. ASSUME NEW s \in SessionId, Created(q, s), lost' = lost \cup {s}
        PROVE  Record!Next
    <3>1. Record!Create(s)
      BY <1>5, <2>2, CreatedIsRecorded DEF CreateSessionFails
    <3>2. QED BY <3>1 DEF Record!Next
  <2>3. QED BY <1>5, <2>1, <2>2 DEF CreateSessionFails
<1>6. ASSUME NEW q \in Request, RunDown(q) PROVE UNCHANGED <<sessions, evidence, quality, masked, lost>>
  BY <1>6 DEF RunDown
<1>7. CASE Restart
  <2>1. Record!Running = Running
    BY DEF Record!Running, Running
  <2>2. Record!Lose
    BY <1>7, <2>1 DEF Restart, Record!Lose
  <2>3. QED BY <2>2 DEF Record!Next
<1>8. CASE Tick \/ UNCHANGED vars
  BY <1>1, <1>8 DEF Tick, vars
<1>9. QED
  BY <1>1, <1>2, <1>3, <1>4, <1>5, <1>6, <1>7, <1>8, WorkIsRecorded, EndIsRecorded
     DEF Next, Answer, Scan, Works

(* on-demand-observation.js, observation-session.js: whatever              *)
(* requests race, fail or are cut short, the tables hold sessions that are *)
(* created running, closed at most once, and, when completed, give an      *)
(* account of their rows, exact but for a pair whose missing row an        *)
(* exception hid, and get no more.                                         *)
THEOREM RecordKept == Spec => KeepsRecord
<1>1. Init => RecordInv
  BY TypeInit, ScanShapeInit, SeenInit, RecordInvInit DEF RecordInv
<1>2. QED
  BY <1>1, RecordInvStep, RecordStart, RecordStep, PTL DEF Spec, KeepsRecord, Record!Spec
=============================================================================

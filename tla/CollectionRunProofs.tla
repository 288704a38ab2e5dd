------------------------- MODULE CollectionRunProofs -------------------------
(***************************************************************************)
(* Proofs about collection sessions for every number of processes, lanes,  *)
(* domains, runs and faults.                                               *)
(***************************************************************************)
EXTENDS CollectionRun, FiniteSetTheorems, TLAPS

-----------------------------------------------------------------------------
(* Type correctness.                                                       *)

LEMMA RestTypes == Idle \in ProcState /\ Free \in LaneState
  BY CollectionAssumption DEF Idle, Free, ProcState, LaneState

(* The number of domains of a list, or of some items of the ledger.        *)
LEMMA DomainCount == ASSUME NEW S \in SUBSET Domain PROVE Cardinality(S) \in Nat
  BY CollectionAssumption, FS_Subset, FS_CardinalityType

LEMMA VerdictType ==
    ASSUME NEW i \in Nat, NEW s \in Nat, NEW f \in Nat, NEW c \in BOOLEAN
    PROVE  TerminalState(i, s, f, c) \in Terminal
<1>1. CASE c
  BY <1>1 DEF TerminalState, Terminal
<1>2. CASE ~c /\ s = 0
  BY <1>2 DEF TerminalState, Terminal
<1>3. CASE ~c /\ s > 0 /\ s >= i /\ f = 0
  BY <1>3 DEF TerminalState, Terminal
<1>4. CASE ~c /\ s > 0 /\ ~(s >= i /\ f = 0)
  BY <1>4 DEF TerminalState, Terminal
<1>5. QED BY <1>1, <1>2, <1>3, <1>4

(* One entry of a table of counts goes up by one.                          *)
LEMMA CountGoesUp ==
    ASSUME NEW f \in [RunId -> [Domain -> Nat]], NEW r \in RunId, NEW d \in Domain,
           NEW g, g = [f EXCEPT ![r][d] = @ + 1]
    PROVE  /\ g \in [RunId -> [Domain -> Nat]]
           /\ g[r][d] = f[r][d] + 1
           /\ \A q \in RunId, e \in Domain : q # r \/ e # d => g[q][e] = f[q][e]
           /\ \A q \in RunId, e \in Domain : g[q][e] >= f[q][e]
<1>1. f[r] \in [Domain -> Nat] /\ f[r][d] \in Nat
  OBVIOUS
<1>2. PICK n \in Nat : n = f[r][d] + 1
  BY <1>1
<1>3. PICK h \in [Domain -> Nat] : h = [f[r] EXCEPT ![d] = n]
  BY <1>1
<1>4. g = [f EXCEPT ![r] = h]
  BY <1>1, <1>2, <1>3
<1>5. h[d] = n /\ \A e \in Domain : e # d => h[e] = f[r][e]
  BY <1>1, <1>3
<1>6. g[r] = h /\ \A q \in RunId : q # r => g[q] = f[q]
  BY <1>4
<1>7. \A q \in RunId, e \in Domain : q # r \/ e # d => g[q][e] = f[q][e]
  BY <1>5, <1>6
<1>8. g[r][d] = f[r][d] + 1
  BY <1>2, <1>5, <1>6
<1>9. \A q \in RunId, e \in Domain : g[q][e] >= f[q][e]
  <2> SUFFICES ASSUME NEW q \in RunId, NEW e \in Domain PROVE g[q][e] >= f[q][e]
    OBVIOUS
  <2>1. f[q][e] \in Nat
    OBVIOUS
  <2>2. CASE q = r /\ e = d
    BY <1>8, <2>1, <2>2
  <2>3. CASE q # r \/ e # d
    BY <1>7, <2>1, <2>3
  <2>4. QED BY <2>2, <2>3
<1>10. QED BY <1>4, <1>7, <1>8, <1>9

LEMMA FaultType == TypeOK /\ Fault => faults' \in Nat
  BY DEF TypeOK, Fault

LEMMA WriteType ==
    ASSUME TypeOK, NEW r \in RunId, NEW d \in Domain, NEW s \in ItemStatus, Write(r, d, s)
    PROVE  items' \in [RunId -> [Domain -> ItemStatus]] /\ faults' \in Nat
<1>1. CASE UNCHANGED items /\ Fault
  BY <1>1, FaultType DEF TypeOK
<1>2. CASE items' = [items EXCEPT ![r][d] = s] /\ UNCHANGED faults
  BY <1>2 DEF TypeOK
<1>3. QED BY <1>1, <1>2 DEF Write

LEMMA TypeInit == Init => TypeOK
<1> SUFFICES ASSUME Init PROVE TypeOK
  OBVIOUS
<1>1. QED
  BY RestTypes DEF Init, TypeOK, Run, ItemStatus, Idle, Free

(* A lane at work has a run and a domain.                                  *)
LEMMA LaneAtWork ==
    ASSUME TypeOK, NEW a \in Agent, lane[a].pc # "free"
    PROVE  /\ a[1] \in Process /\ proc[a[1]] \in ProcState /\ lane[a] \in LaneState
           /\ proc[a[1]].pc = "pool" /\ proc[a[1]].run \in RunId
           /\ lane[a].domain \in Domain
<1>1. a[1] \in Process
  BY DEF Agent
<1>2. QED BY <1>1 DEF TypeOK, ProcState

(* One lane moves on within the pool, or is freed.                         *)
LEMMA LaneMoves ==
    ASSUME TypeOK, NEW a \in Agent, NEW l \in LaneState, lane' = [lane EXCEPT ![a] = l],
           l.pc # "free" => l.domain \in Domain /\ lane[a].pc # "free",
           proc' = proc, sessions' = sessions, runs' = runs,
           items' \in [RunId -> [Domain -> ItemStatus]], evidence' \in [RunId -> [Domain -> Nat]],
           events' \in [RunId -> [Domain -> Nat]], shared' \subseteq RunId, blind' \subseteq RunId,
           faults' \in Nat
    PROVE  TypeOK'
<1>1. \A b \in Agent : b[1] \in Process
  BY DEF Agent
<1>2. lane' \in [Agent -> LaneState]
  BY DEF TypeOK
<1>3. ASSUME NEW b \in Agent, lane'[b].pc # "free"
      PROVE  lane'[b].domain \in Domain /\ proc[b[1]].pc = "pool"
  BY <1>3 DEF TypeOK
<1>4. QED BY <1>2, <1>3 DEF TypeOK

(* A well-formed process, and well-formed tables and histories.            *)
ProcOK(q) ==
    /\ q \in ProcState
    /\ q.run # Null <=> q.pc \notin {"idle", "open"}
    /\ q.list \in Lists \cup {{}}
    /\ q.pc = "close" => q.verdict \in Terminal
TablesOK ==
    /\ runs \in [RunId -> Run]
    /\ items \in [RunId -> [Domain -> ItemStatus]]
    /\ evidence \in [RunId -> [Domain -> Nat]]
    /\ events \in [RunId -> [Domain -> Nat]]
    /\ shared \subseteq RunId /\ blind \subseteq RunId /\ sessions \in Nat /\ faults \in Nat

(* One process moves on; it leaves the pool only with all its lanes free.  *)
LEMMA ProcMoves ==
    ASSUME TypeOK, NEW p \in Process, NEW q, ProcOK(q), proc' = [proc EXCEPT ![p] = q],
           lane' \in [Agent -> LaneState],
           \A a \in Agent : lane'[a] = lane[a] \/ lane'[a] = Free,
           q.pc # "pool" => \A a \in Agent : a[1] = p => lane'[a].pc = "free",
           TablesOK'
    PROVE  TypeOK'
<1>1. proc' \in [Process -> ProcState]
  BY DEF TypeOK, ProcOK
<1>2. ASSUME NEW a \in Agent, lane'[a].pc # "free"
      PROVE  lane'[a].domain \in Domain /\ proc'[a[1]].pc = "pool"
  <2>1. lane'[a] = lane[a] /\ a[1] \in Process
    BY <1>2 DEF Free, Agent
  <2>2. CASE a[1] = p
    BY <1>2, <2>1, <2>2 DEF TypeOK
  <2>3. CASE a[1] # p
    BY <1>2, <2>1, <2>3 DEF TypeOK
  <2>4. QED BY <2>2, <2>3
<1>3. ASSUME NEW r \in Process
      PROVE  /\ proc'[r].run # Null <=> proc'[r].pc \notin {"idle", "open"}
             /\ proc'[r].list \in Lists \cup {{}}
             /\ proc'[r].pc = "close" => proc'[r].verdict \in Terminal
  <2>1. CASE r = p
    BY <2>1 DEF TypeOK, ProcOK
  <2>2. CASE r # p
    BY <2>2 DEF TypeOK
  <2>3. QED BY <2>1, <2>2
<1>4. QED BY <1>1, <1>2, <1>3 DEF TypeOK, TablesOK

(* The same where no lane moves.                                           *)
LEMMA ProcAloneMoves ==
    ASSUME TypeOK, NEW p \in Process, NEW q, ProcOK(q), proc' = [proc EXCEPT ![p] = q],
           lane' = lane,
           q.pc = "pool" \/ \A a \in Agent : a[1] = p => lane[a].pc = "free",
           TablesOK'
    PROVE  TypeOK'
<1>1. lane' \in [Agent -> LaneState] /\ \A a \in Agent : lane'[a] = lane[a]
  BY DEF TypeOK
<1>2. q.pc # "pool" => \A a \in Agent : a[1] = p => lane'[a].pc = "free"
  BY <1>1
<1>3. QED BY <1>1, <1>2, ProcMoves

(* A process outside the pool has no lane at work.                         *)
LEMMA LanesAtRest ==
    ASSUME TypeOK, NEW p \in Process, proc[p].pc # "pool"
    PROVE  \A a \in Agent : a[1] = p => lane[a].pc = "free"
  BY DEF TypeOK

LEMMA TypeLane == ASSUME TypeOK, NEW a \in Agent, LaneNext(a) PROVE TypeOK'
<1> DEFINE p == a[1]
           r == proc[p].run
<1>0. p \in Process /\ proc[p] \in ProcState /\ lane[a] \in LaneState
  BY DEF Agent, TypeOK
<1>1. ASSUME NEW d \in Domain, TakeDomain(a, d) PROVE TypeOK'
  <2>1. proc[p].pc = "pool" /\ r \in RunId
    BY <1>0, <1>1 DEF TakeDomain, TypeOK, ProcState
  <2>2. items' \in [RunId -> [Domain -> ItemStatus]] /\ faults' \in Nat
    BY <1>1, <2>1, WriteType DEF TakeDomain, TypeOK, ItemStatus
  <2>3. proc' \in [Process -> ProcState] /\ proc'[p].pc = "pool"
    BY <1>0, <1>1 DEF TakeDomain, TypeOK, ProcState
  <2>4. lane' \in [Agent -> LaneState] /\ lane'[a].domain \in Domain
    <3> DEFINE l == [Free EXCEPT !.domain = d, !.attempt = 1,
                                 !.pc = IF proc[p].onePass THEN "collect" ELSE "guard"]
    <3>1. l \in LaneState /\ l.domain \in Domain
      <4>1. 1 \in 0..MaxAttempts
        BY CollectionAssumption
      <4>2. QED BY <4>1 DEF LaneState, Free
    <3>2. lane' = [lane EXCEPT ![a] = l]
      BY <1>1 DEF TakeDomain
    <3> HIDE DEF l
    <3>3. QED BY <3>1, <3>2 DEF TypeOK
  <2>5. ASSUME NEW b \in Agent, lane'[b].pc # "free"
        PROVE  lane'[b].domain \in Domain /\ proc'[b[1]].pc = "pool"
    <3>1. b[1] \in Process
      BY DEF Agent
    <3>2. CASE b = a
      BY <2>3, <2>4, <3>2
    <3>3. CASE b # a
      BY <1>0, <1>1, <2>5, <3>1, <3>3 DEF TakeDomain, TypeOK
    <3>4. QED BY <3>2, <3>3
  <2>6. ASSUME NEW q \in Process
        PROVE  /\ proc'[q].run # Null <=> proc'[q].pc \notin {"idle", "open"}
               /\ proc'[q].list \in Lists \cup {{}}
               /\ proc'[q].pc = "close" => proc'[q].verdict \in Terminal
    BY <1>0, <1>1 DEF TakeDomain, TypeOK
  <2>7. QED BY <1>1, <2>2, <2>3, <2>4, <2>5, <2>6 DEF TakeDomain, TypeOK
<1>2. ASSUME NEW d \in Domain, CancelSession(a, d) PROVE TypeOK'
  <2> DEFINE q == [proc[p] EXCEPT !.work = @ \ {d}, !.cancelled = TRUE]
  <2>1. q \in ProcState /\ proc' = [proc EXCEPT ![p] = q] /\ proc[p].pc = "pool"
    BY <1>0, <1>2 DEF CancelSession, TypeOK, ProcState
  <2>2. q.pc = "pool" /\ q.run = proc[p].run /\ q.list = proc[p].list
    BY <1>0, <2>1 DEF ProcState
  <2> HIDE DEF q
  <2>3. ProcOK(q)
    BY <1>0, <2>1, <2>2 DEF TypeOK, ProcOK
  <2>4. lane' = lane /\ TablesOK'
    BY <1>2 DEF CancelSession, TypeOK, TablesOK
  <2>5. QED BY <1>0, <2>1, <2>2, <2>3, <2>4, ProcAloneMoves
<1>3. ASSUME Adopt(a) PROVE TypeOK'
  <2>1. items' \in [RunId -> [Domain -> ItemStatus]] /\ faults' \in Nat
    BY <1>3, LaneAtWork, WriteType DEF Adopt, ItemStatus
  <2>2. QED BY <1>3, <2>1, RestTypes, LaneMoves DEF Adopt, Release, TypeOK, Free
<1>4. ASSUME NEW pc \in {"collect", "fail", "complete", "emit"}, Goto(a, pc), lane[a].pc # "free"
      PROVE  \E l \in LaneState : /\ lane' = [lane EXCEPT ![a] = l]
                                  /\ l.domain \in Domain
  <2>1. [lane[a] EXCEPT !.pc = pc] \in LaneState
    BY <1>0 DEF LaneState
  <2>2. lane' = [lane EXCEPT ![a] = [lane[a] EXCEPT !.pc = pc]]
    BY <1>4 DEF Goto, TypeOK
  <2>3. [lane[a] EXCEPT !.pc = pc].domain = lane[a].domain /\ lane[a].domain \in Domain
    BY <1>0, <1>4, LaneAtWork DEF LaneState
  <2>4. QED BY <2>1, <2>2, <2>3
<1>5. ASSUME GuardPasses(a) PROVE TypeOK'
  <2>1. \E l \in LaneState : lane' = [lane EXCEPT ![a] = l] /\ l.domain \in Domain
    BY <1>4, <1>5 DEF GuardPasses
  <2>2. QED BY <1>5, <2>1, LaneMoves DEF GuardPasses, TypeOK
<1>6. ASSUME GuardFails(a) PROVE TypeOK'
  <2>1. r \in RunId
    BY <1>6, LaneAtWork DEF GuardFails
  <2>2. PICK l \in LaneState : lane' = [lane EXCEPT ![a] = l] /\ l.domain \in Domain
    BY <1>4, <1>6 DEF GuardFails
  <2>3. blind' \subseteq RunId /\ faults' \in Nat
    BY <1>6, <2>1, FaultType DEF GuardFails, TypeOK
  <2>4. /\ UNCHANGED <<runs, items, evidence, events, proc, shared, sessions>>
        /\ lane[a].pc # "free"
    BY <1>6 DEF GuardFails
  <2>5. QED BY <2>2, <2>3, <2>4, LaneMoves DEF TypeOK
<1>7. ASSUME Retry(a) PROVE TypeOK'
  <2>1. [lane[a] EXCEPT !.attempt = @ + 1] \in LaneState /\ lane[a].domain \in Domain
    BY <1>0, <1>7, LaneAtWork, CollectionAssumption DEF Retry, LaneState
  <2>2. QED BY <1>7, <2>1, LaneMoves DEF Retry, TypeOK
<1>8. ASSUME NEW class \in {"RETRYABLE", "PERMANENT", "UNEXPECTED"}, CollectFails(a, class)
      PROVE  TypeOK'
  <2>1. CASE ~proc[p].onePass
    <3>1. items' \in [RunId -> [Domain -> ItemStatus]] /\ faults' \in Nat
      BY <1>8, <2>1, LaneAtWork, WriteType DEF CollectFails, ItemStatus
    <3>2. QED BY <1>8, <3>1, RestTypes, LaneMoves DEF CollectFails, Release, TypeOK, Free
  <2>2. CASE proc[p].onePass
    BY <1>8, <2>2, RestTypes, LaneMoves DEF CollectFails, Release, TypeOK, Free
  <2>3. QED BY <2>1, <2>2
<1>9. ASSUME Insert(a) PROVE TypeOK'
  <2>1. r \in RunId /\ lane[a].domain \in Domain
    BY <1>9, LaneAtWork DEF Insert
  <2>2. evidence' \in [RunId -> [Domain -> Nat]]
    BY <1>9, <2>1, CountGoesUp DEF Insert, TypeOK
  <2>3. \E l \in LaneState : lane' = [lane EXCEPT ![a] = l] /\ l.domain \in Domain
    BY <1>4, <1>9 DEF Insert
  <2>4. QED BY <1>9, <2>2, <2>3, LaneMoves DEF Insert, TypeOK
<1>10. ASSUME InsertFails(a) PROVE TypeOK'
  <2>1. r \in RunId /\ lane[a].domain \in Domain
    BY <1>10, LaneAtWork DEF InsertFails
  <2>2. evidence' \in [RunId -> [Domain -> Nat]] /\ faults' \in Nat
    <3>1. CASE UNCHANGED evidence
      BY <1>10, <3>1, FaultType DEF InsertFails, TypeOK
    <3>2. CASE evidence' = [evidence EXCEPT ![r][lane[a].domain] = @ + 1]
      <4>1. evidence' \in [RunId -> [Domain -> Nat]]
        BY <2>1, <3>2, CountGoesUp DEF TypeOK
      <4>2. QED BY <1>10, <4>1, FaultType DEF InsertFails
    <3>3. QED BY <1>10, <3>1, <3>2 DEF InsertFails
  <2>3. \E l \in LaneState : lane' = [lane EXCEPT ![a] = l] /\ (l.pc # "free" => l.domain \in Domain)
    BY <1>4, <1>10, RestTypes DEF InsertFails, Release, Free
  <2>4. QED BY <1>10, <2>2, <2>3, LaneMoves DEF InsertFails, TypeOK
<1>11. ASSUME FailInsert(a) PROVE TypeOK'
  <2>1. items' \in [RunId -> [Domain -> ItemStatus]] /\ faults' \in Nat
    BY <1>11, LaneAtWork, WriteType DEF FailInsert, ItemStatus
  <2>2. QED BY <1>11, <2>1, RestTypes, LaneMoves DEF FailInsert, Release, TypeOK, Free
<1>12. ASSUME MarkCompleted(a) PROVE TypeOK'
  <2>1. items' \in [RunId -> [Domain -> ItemStatus]] /\ faults' \in Nat
    BY <1>12, LaneAtWork, WriteType DEF MarkCompleted, ItemStatus
  <2>2. QED BY <1>4, <1>12, <2>1, LaneMoves DEF MarkCompleted, TypeOK
<1>13. ASSUME Emit(a) PROVE TypeOK'
  <2>1. r \in RunId /\ lane[a].domain \in Domain
    BY <1>13, LaneAtWork DEF Emit
  <2>2. events' \in [RunId -> [Domain -> Nat]] /\ faults' \in Nat
    <3>1. CASE UNCHANGED events /\ Fault
      BY <3>1, FaultType DEF TypeOK
    <3>2. CASE events' = [events EXCEPT ![r][lane[a].domain] = @ + 1] /\ UNCHANGED faults
      <4>1. events' \in [RunId -> [Domain -> Nat]]
        BY <2>1, <3>2, CountGoesUp DEF TypeOK
      <4>2. QED BY <3>2, <4>1 DEF TypeOK
    <3>3. QED BY <1>13, <3>1, <3>2 DEF Emit
  <2>3. QED BY <1>13, <2>2, RestTypes, LaneMoves DEF Emit, Release, TypeOK, Free
<1>14. QED BY <1>1, <1>2, <1>3, <1>5, <1>6, <1>7, <1>8, <1>9, <1>10, <1>11, <1>12, <1>13
           DEF LaneNext

LEMMA TypeProc == ASSUME TypeOK, NEW p \in Process, ProcNext(p) PROVE TypeOK'
<1>0. proc[p] \in ProcState /\ lane \in [Agent -> LaneState]
  BY DEF TypeOK
<1>1. ASSUME NEW L \in Lists, NEW pc \in {"open", "init"}, NEW r \in RunId \cup {Null},
             NEW onePass \in BOOLEAN, Begin(p, L, pc, r, onePass), r = Null <=> pc = "open",
             lane' = lane, runs' = runs, items' = items, evidence' = evidence, events' = events,
             shared' \subseteq RunId, blind' = blind, faults' \in Nat
      PROVE  TypeOK'
  <2> DEFINE q == [Idle EXCEPT !.pc = pc, !.run = r, !.list = L, !.onePass = onePass]
  <2>1. q \in ProcState /\ q.pc = pc /\ q.run = r /\ q.list = L
    BY RestTypes, CollectionAssumption DEF ProcState, Idle
  <2>2. sessions' \in Nat /\ proc' = [proc EXCEPT ![p] = q] /\ proc[p].pc = "idle"
    BY <1>1 DEF Begin, TypeOK
  <2> HIDE DEF q
  <2>3. ProcOK(q)
    BY <1>1, <2>1 DEF ProcOK
  <2>4. \A a \in Agent : a[1] = p => lane[a].pc = "free"
    BY <2>2, LanesAtRest
  <2>5. TablesOK'
    BY <1>1, <2>2 DEF TypeOK, TablesOK
  <2>6. QED BY <1>1, <2>2, <2>3, <2>4, <2>5, ProcAloneMoves
<1>2. ASSUME NEW L \in Lists, StartSession(p, L) PROVE TypeOK'
  <2>1. CASE Begin(p, L, "open", Null, FALSE) /\ UNCHANGED shared
    BY <1>1, <1>2, <2>1 DEF StartSession, TypeOK
  <2>2. ASSUME NEW r \in RunId, Begin(p, L, "init", r, FALSE),
               shared' = shared \cup {r} \/ shared' = shared
        PROVE  TypeOK'
    <3>1. r # Null
      BY CollectionAssumption DEF RunId
    <3>2. QED BY <1>1, <1>2, <2>2, <3>1 DEF StartSession, TypeOK
  <2>3. QED BY <1>2, <2>1, <2>2 DEF StartSession
<1>3. ASSUME NEW L \in Lists, StartWithoutListing(p, L) PROVE TypeOK'
  <2>1. Null \in RunId \cup {Null} /\ faults' \in Nat /\ shared' \subseteq RunId
    BY <1>3, FaultType DEF StartWithoutListing, TypeOK
  <2>2. QED BY <1>1, <1>3, <2>1 DEF StartWithoutListing
<1>4. ASSUME NEW L \in Lists, StartOnePass(p, L) PROVE TypeOK'
  BY <1>1, <1>4 DEF StartOnePass, TypeOK
<1>5. ASSUME OpenRun(p) PROVE TypeOK'
  <2>1. PICK r \in RunId :
          /\ runs' = [runs EXCEPT ![r].status = "RUNNING", ![r].intended = Cardinality(proc[p].list)]
          /\ proc' = [proc EXCEPT ![p].run = r,
                       ![p].pc = IF proc[p].onePass THEN "pool" ELSE "init",
                       ![p].work = IF proc[p].onePass THEN proc[p].list ELSE {}]
    BY <1>5 DEF OpenRun
  <2> DEFINE q == [proc[p] EXCEPT !.run = r, !.pc = IF proc[p].onePass THEN "pool" ELSE "init",
                                  !.work = IF proc[p].onePass THEN proc[p].list ELSE {}]
  <2>2. Cardinality(proc[p].list) \in Nat /\ r # Null
    BY <1>0, DomainCount, CollectionAssumption DEF ProcState, RunId
  <2>3. runs' \in [RunId -> Run]
    <3>1. [runs[r] EXCEPT !.status = "RUNNING", !.intended = Cardinality(proc[p].list)] \in Run
      BY <2>2 DEF TypeOK, Run
    <3>2. runs' = [runs EXCEPT ![r] = [runs[r] EXCEPT !.status = "RUNNING",
                                                    !.intended = Cardinality(proc[p].list)]]
      BY <2>1 DEF TypeOK
    <3>3. QED BY <3>1, <3>2 DEF TypeOK
  <2>4. /\ q \in ProcState /\ proc' = [proc EXCEPT ![p] = q]
        /\ q.run = r /\ q.pc \in {"pool", "init"} /\ q.list = proc[p].list
    BY <1>0, <2>1 DEF TypeOK, ProcState
  <2>5. proc[p].pc = "open" /\ proc[p].list \in Lists \cup {{}}
    BY <1>5 DEF OpenRun, TypeOK
  <2> HIDE DEF q
  <2>6. ProcOK(q)
    BY <2>2, <2>4, <2>5 DEF ProcOK
  <2>7. \A a \in Agent : a[1] = p => lane[a].pc = "free"
    BY <2>5, LanesAtRest
  <2>8. lane' = lane /\ TablesOK'
    BY <1>5, <2>3 DEF OpenRun, TypeOK, TablesOK
  <2>9. QED BY <2>4, <2>6, <2>7, <2>8, ProcAloneMoves
<1>6. ASSUME proc' = [proc EXCEPT ![p] = Idle], lane' \in [Agent -> LaneState],
             \A a \in Agent : lane'[a] = lane[a] \/ lane'[a] = Free,
             \A a \in Agent : a[1] = p => lane'[a].pc = "free",
             runs' \in [RunId -> Run], sessions' = sessions, items' = items, evidence' = evidence,
             events' = events, shared' = shared, blind' = blind, faults' \in Nat
      PROVE  TypeOK'
  <2>1. Idle.run = Null /\ Idle.pc = "idle" /\ Idle.list = {}
    BY DEF Idle
  <2>2. ProcOK(Idle)
    BY <2>1, RestTypes DEF ProcOK
  <2>3. TablesOK'
    BY <1>6 DEF TypeOK, TablesOK
  <2>4. QED BY <1>6, <2>2, <2>3, ProcMoves
<1>7. ASSUME OpenRunFails(p) PROVE TypeOK'
  BY <1>0, <1>6, <1>7, LanesAtRest DEF OpenRunFails, TypeOK, Fault
<1>8. ASSUME InitItems(p) PROVE TypeOK'
  <2>1. \A r \in RunId, D \in SUBSET Domain : Initialised(r, D) \in [RunId -> [Domain -> ItemStatus]]
    BY DEF Initialised, TypeOK, ItemStatus
  <2>2. proc[p].run \in RunId /\ proc[p].run # Null /\ proc[p].list \in Lists \cup {{}}
    BY <1>0, <1>8 DEF InitItems, TypeOK, ProcState
  <2>3. items' \in [RunId -> [Domain -> ItemStatus]] /\ faults' \in Nat
    <3>1. PICK D \in SUBSET proc[p].list :
            items' = Initialised(proc[p].run, D) /\ (UNCHANGED faults \/ Fault)
      BY <1>8 DEF InitItems
    <3>2. D \in SUBSET Domain
      BY <1>0 DEF ProcState
    <3>3. items' \in [RunId -> [Domain -> ItemStatus]]
      BY <2>1, <2>2, <3>1, <3>2
    <3>4. QED BY <3>1, <3>3, FaultType DEF TypeOK
  <2> DEFINE q == [proc[p] EXCEPT !.pc = "list"]
  <2>4. /\ q \in ProcState /\ proc' = [proc EXCEPT ![p] = q]
        /\ q.run = proc[p].run /\ q.pc = "list" /\ q.list = proc[p].list /\ proc[p].pc = "init"
    BY <1>0, <1>8 DEF InitItems, TypeOK, ProcState
  <2> HIDE DEF q
  <2>5. \A a \in Agent : a[1] = p => lane[a].pc = "free"
    BY <2>4, LanesAtRest
  <2>6. ProcOK(q)
    BY <2>2, <2>4 DEF ProcOK
  <2>7. lane' = lane /\ TablesOK'
    BY <1>8, <2>3 DEF InitItems, TypeOK, TablesOK
  <2>8. QED BY <2>4, <2>5, <2>6, <2>7, ProcAloneMoves
<1>9. ASSUME ListOutstanding(p) PROVE TypeOK'
  <2>1. PICK W \in SUBSET Domain : proc' = [proc EXCEPT ![p].pc = "pool", ![p].work = W]
    BY <1>9 DEF ListOutstanding
  <2>2. proc[p].run # Null /\ proc[p].list \in Lists \cup {{}}
    BY <1>0, <1>9 DEF ListOutstanding, TypeOK, ProcState
  <2> DEFINE q == [proc[p] EXCEPT !.pc = "pool", !.work = W]
  <2>3. /\ q \in ProcState /\ proc' = [proc EXCEPT ![p] = q]
        /\ q.run = proc[p].run /\ q.pc = "pool" /\ q.list = proc[p].list
    BY <1>0, <2>1 DEF TypeOK, ProcState
  <2> HIDE DEF q
  <2>4. ProcOK(q)
    BY <2>2, <2>3 DEF ProcOK
  <2>5. faults' \in Nat
    BY <1>9 DEF ListOutstanding, TypeOK, Fault
  <2>6. lane' = lane /\ TablesOK'
    BY <1>9, <2>5 DEF ListOutstanding, TypeOK, TablesOK
  <2>7. QED BY <2>3, <2>4, <2>6, ProcAloneMoves
<1>10. ASSUME NEW s \in Nat \cup {Null}, NEW v \in Terminal, PoolDone(p),
              proc' = [proc EXCEPT ![p] = [proc[p] EXCEPT !.pc = "close", !.succeeded = s,
                                                          !.verdict = v]],
              lane' = lane, runs' = runs, items' = items, evidence' = evidence, events' = events,
              sessions' = sessions, shared' = shared, blind' = blind, faults' \in Nat
       PROVE  TypeOK'
  <2> DEFINE q == [proc[p] EXCEPT !.pc = "close", !.succeeded = s, !.verdict = v]
  <2>1. /\ q \in ProcState /\ proc' = [proc EXCEPT ![p] = q]
        /\ q.run = proc[p].run /\ q.pc = "close" /\ q.list = proc[p].list /\ q.verdict = v
    BY <1>0, <1>10 DEF TypeOK, ProcState
  <2>2. /\ proc[p].run # Null /\ proc[p].list \in Lists \cup {{}}
        /\ \A a \in Agent : a[1] = p => lane[a].pc = "free"
    BY <1>0, <1>10 DEF PoolDone, TypeOK
  <2> HIDE DEF q
  <2>3. ProcOK(q)
    BY <2>1, <2>2 DEF ProcOK
  <2>4. lane' = lane /\ TablesOK'
    BY <1>10 DEF TypeOK, TablesOK
  <2>5. QED BY <2>1, <2>2, <2>3, <2>4, ProcAloneMoves
<1>11. ASSUME Tally(p) PROVE TypeOK'
  <2> DEFINE succeeded(D) == Cardinality({d \in D : items[proc[p].run][d] = "COMPLETED"})
             failed(D) == Cardinality({d \in D : items[proc[p].run][d] \in {"FAILED", "PERMANENT"}})
             verdict(D) == TerminalState(Cardinality(proc[p].list), succeeded(D), failed(D),
                                         proc[p].cancelled)
  <2>1. PICK D \in SUBSET Domain :
          proc' = [proc EXCEPT ![p] = [proc[p] EXCEPT !.pc = "close", !.succeeded = succeeded(D),
                                                      !.verdict = verdict(D)]]
    BY <1>11 DEF Tally, TypeOK
  <2>2. succeeded(D) \in Nat /\ failed(D) \in Nat
    BY DomainCount
  <2>3. verdict(D) \in Terminal
    BY <1>0, <2>2, DomainCount, VerdictType DEF ProcState
  <2> HIDE DEF succeeded, verdict
  <2>4. PoolDone(p) /\ faults' \in Nat
    BY <1>11, FaultType DEF Tally, TypeOK
  <2>5. QED BY <1>10, <1>11, <2>1, <2>2, <2>3, <2>4 DEF Tally
<1>12. ASSUME ConcludeOnePass(p) PROVE TypeOK'
  <2>0. /\ proc[p].succeeded \in Nat \cup {Null} /\ "COMPLETED" \in Terminal
        /\ [proc[p] EXCEPT !.pc = "close", !.verdict = "COMPLETED"]
             = [proc[p] EXCEPT !.pc = "close", !.succeeded = proc[p].succeeded,
                               !.verdict = "COMPLETED"]
    BY <1>0 DEF ProcState, Terminal
  <2>1. proc' = [proc EXCEPT ![p] = [proc[p] EXCEPT !.pc = "close", !.succeeded = proc[p].succeeded,
                                                    !.verdict = "COMPLETED"]]
    BY <1>12, <2>0 DEF ConcludeOnePass, TypeOK
  <2>2. PoolDone(p) /\ faults' \in Nat
    BY <1>12 DEF ConcludeOnePass, TypeOK
  <2>3. QED BY <1>10, <1>12, <2>0, <2>1, <2>2 DEF ConcludeOnePass
<1>13. ASSUME CloseRun(p) PROVE TypeOK'
  <2>1. /\ proc[p].verdict \in Terminal /\ proc[p].run \in RunId
        /\ Cardinality(proc[p].list) \in Nat /\ proc[p].succeeded \in Nat \cup {Null}
    BY <1>0, <1>13, DomainCount DEF CloseRun, TypeOK, ProcState
  <2>2. runs' \in [RunId -> Run] /\ faults' \in Nat
    <3>1. [status |-> proc[p].verdict, intended |-> Cardinality(proc[p].list),
           succeeded |-> proc[p].succeeded] \in Run
      BY <2>1 DEF Run
    <3>2. CASE UNCHANGED runs /\ Fault
      BY <3>2, FaultType DEF TypeOK
    <3>3. CASE runs' = runs /\ UNCHANGED faults
      BY <3>3 DEF TypeOK
    <3>4. CASE /\ runs' = [runs EXCEPT ![proc[p].run] =
                              [status |-> proc[p].verdict, intended |-> Cardinality(proc[p].list),
                               succeeded |-> proc[p].succeeded]]
               /\ UNCHANGED faults
      BY <2>1, <3>1, <3>4 DEF TypeOK
    <3>5. QED BY <1>13, <3>2, <3>3, <3>4 DEF CloseRun
  <2>3. QED BY <1>0, <1>6, <1>13, <2>2, LanesAtRest DEF CloseRun, TypeOK
<1>14. ASSUME Crash(p) PROVE TypeOK'
  <2>1. lane' \in [Agent -> LaneState] /\ \A a \in Agent : a[1] = p => lane'[a] = Free
    BY <1>0, <1>14, RestTypes DEF Crash
  <2>2. \A a \in Agent : lane'[a] = lane[a] \/ lane'[a] = Free
    BY <1>14 DEF Crash
  <2>3. \A a \in Agent : a[1] = p => lane'[a].pc = "free"
    BY <2>1 DEF Free
  <2>4. QED BY <1>6, <1>14, <2>1, <2>2, <2>3 DEF Crash, TypeOK, Fault
<1>15. QED BY <1>2, <1>3, <1>4, <1>5, <1>7, <1>8, <1>9, <1>11, <1>12, <1>13, <1>14 DEF ProcNext

LEMMA TypeStep == TypeOK /\ [Next]_vars => TypeOK'
<1>1. TypeOK /\ UNCHANGED vars => TypeOK'
  BY DEF TypeOK, vars
<1>2. QED BY <1>1, TypeLane, TypeProc DEF Next

(* Types hold through every step of every session.                         *)
THEOREM TypeCorrect == Spec => []TypeOK
  BY TypeInit, TypeStep, PTL DEF Spec

-----------------------------------------------------------------------------
(* One Observation per domain, and final evidence.                         *)

(* A live session's run exists, and a session on an unshared run is alone  *)
(* on it and nobody has closed it.                                         *)
LiveRuns ==
    /\ \A p \in Process, r \in RunId : Live(p, r) => runs[r].status # "none"
    /\ \A p \in Process, r \in RunId : Live(p, r) /\ r \notin shared => runs[r].status = "RUNNING"
    /\ \A p, q \in Process, r \in RunId : Live(p, r) /\ Live(q, r) /\ r \notin shared => p = q

(* The runners of one pool have different domains, none of them still to   *)
(* be taken.                                                               *)
ApartRunners ==
    /\ \A a, b \in Agent : a[1] = b[1] /\ lane[a].pc # "free" /\ lane[b].pc # "free"
                           /\ lane[a].domain = lane[b].domain => a = b
    /\ \A a \in Agent : lane[a].pc # "free" => lane[a].domain \notin proc[a[1]].work

Clean(r) == r \notin shared /\ r \notin blind

(* What is about to be inserted has not been, in a run nobody shared and   *)
(* whose guard reads all worked.                                           *)
Unwritten ==
    /\ \A r \in RunId, d \in Domain : runs[r].status = "none" => evidence[r][d] = 0
    /\ \A a \in Agent, r \in RunId : lane[a].pc = "collect" /\ Live(a[1], r) /\ Clean(r)
                                     => evidence[r][lane[a].domain] = 0
    /\ \A p \in Process, r \in RunId : proc[p].onePass /\ proc[p].pc = "pool" /\ Live(p, r)
                                       /\ Clean(r)
                                       => \A d \in proc[p].work : evidence[r][d] = 0

(* A one-pass session never reads the ledger.                              *)
NoLedger == \A p \in Process : proc[p].onePass => proc[p].pc \notin {"init", "list"}

EvidenceInv == NoLedger /\ LiveRuns /\ ApartRunners /\ Unwritten /\ OneObservationPerDomain

(* A lane's step leaves the runs, and the sessions on them, alone.         *)
LEMMA LaneFrame ==
    ASSUME TypeOK, NEW a \in Agent, LaneNext(a)
    PROVE  /\ runs' = runs /\ shared' = shared /\ blind \subseteq blind'
           /\ \A p \in Process : /\ proc'[p].run = proc[p].run /\ proc'[p].pc = proc[p].pc
                                 /\ proc'[p].onePass = proc[p].onePass
                                 /\ proc'[p].list = proc[p].list
                                 /\ proc'[p].succeeded = proc[p].succeeded
                                 /\ proc'[p].verdict = proc[p].verdict
                                 /\ proc'[p].work \subseteq proc[p].work
           /\ \A b \in Agent : b # a => lane'[b] = lane[b]
<1>0. a[1] \in Process /\ proc \in [Process -> ProcState] /\ proc[a[1]] \in ProcState
  BY DEF Agent, TypeOK
<1>1. CASE \E d \in Domain : TakeDomain(a, d) \/ CancelSession(a, d)
  <2>1. PICK d \in Domain : TakeDomain(a, d) \/ CancelSession(a, d)
    BY <1>1
  <2>2. CASE TakeDomain(a, d)
    BY <1>0, <2>2 DEF TakeDomain, TypeOK, ProcState
  <2>3. CASE CancelSession(a, d)
    BY <1>0, <2>3 DEF CancelSession, TypeOK, ProcState
  <2>4. QED BY <2>1, <2>2, <2>3
<1>2. ASSUME NEW pc, Goto(a, pc) \/ Release(a)
      PROVE  \A b \in Agent : b # a => lane'[b] = lane[b]
  BY <1>2 DEF Goto, Release, TypeOK
<1>3. CASE Adopt(a) \/ GuardPasses(a) \/ GuardFails(a)
  BY <1>2, <1>3 DEF Adopt, GuardPasses, GuardFails
<1>4. CASE Retry(a) \/ (\E class \in {"RETRYABLE", "PERMANENT", "UNEXPECTED"} : CollectFails(a, class))
  BY <1>2, <1>4 DEF Retry, CollectFails, TypeOK
<1>5. CASE Insert(a) \/ InsertFails(a)
  BY <1>2, <1>5 DEF Insert, InsertFails
<1>6. CASE FailInsert(a) \/ MarkCompleted(a) \/ Emit(a)
  BY <1>2, <1>6 DEF FailInsert, MarkCompleted, Emit
<1>7. QED BY <1>1, <1>3, <1>4, <1>5, <1>6 DEF LaneNext

(* A session at work keeps its run, or ends; all its lanes are free when   *)
(* it leaves the pool, and only a step that starts, opens or closes        *)
(* touches the runs.                                                       *)
Continues(p) == InitItems(p) \/ ListOutstanding(p) \/ Tally(p) \/ ConcludeOnePass(p)
Ends(p)      == OpenRunFails(p) \/ CloseRun(p) \/ Crash(p)
Starts(p)    == \E L \in Lists : StartSession(p, L) \/ StartWithoutListing(p, L) \/ StartOnePass(p, L)

LEMMA ProcNextKinds ==
    ASSUME NEW p \in Process, ProcNext(p)
    PROVE  Starts(p) \/ OpenRun(p) \/ Continues(p) \/ Ends(p)
  BY DEF ProcNext, Starts, Continues, Ends

LEMMA ContinueFrame ==
    ASSUME TypeOK, NEW p \in Process, Continues(p)
    PROVE  /\ runs' = runs /\ shared' = shared /\ blind' = blind /\ lane' = lane
           /\ evidence' = evidence /\ events' = events
           /\ \A q \in Process : q # p => proc'[q] = proc[q]
           /\ proc'[p].run = proc[p].run /\ proc'[p].list = proc[p].list
           /\ proc'[p].onePass = proc[p].onePass
           /\ \A a \in Agent : a[1] = p => lane[a].pc = "free"
           /\ proc'[p].pc = "pool" => ListOutstanding(p)
           /\ Tally(p) \/ proc'[p].succeeded = proc[p].succeeded
           /\ proc'[p].pc = "close" => proc[p].pc = "pool"
<1>0. proc \in [Process -> ProcState] /\ proc[p] \in ProcState
  BY DEF TypeOK
<1>1. CASE InitItems(p)
  BY <1>0, <1>1, LanesAtRest DEF InitItems, ProcState
<1>2. CASE ListOutstanding(p)
  <2>1. PICK W \in SUBSET Domain : proc' = [proc EXCEPT ![p].pc = "pool", ![p].work = W]
    BY <1>2 DEF ListOutstanding
  <2>2. QED BY <1>0, <1>2, <2>1, LanesAtRest DEF ListOutstanding, ProcState
<1>3. CASE Tally(p)
  <2>1. PICK s, v : proc' = [proc EXCEPT ![p].pc = "close", ![p].succeeded = s, ![p].verdict = v]
    BY <1>3 DEF Tally
  <2>2. QED BY <1>0, <1>3, <2>1 DEF Tally, PoolDone, ProcState
<1>4. CASE ConcludeOnePass(p)
  BY <1>0, <1>4 DEF ConcludeOnePass, PoolDone, ProcState
<1>5. QED BY <1>1, <1>2, <1>3, <1>4 DEF Continues

LEMMA EndFrame ==
    ASSUME TypeOK, NEW p \in Process, Ends(p)
    PROVE  /\ shared' = shared /\ blind' = blind /\ evidence' = evidence /\ events' = events
           /\ items' = items
           /\ proc' = [proc EXCEPT ![p] = Idle]
           /\ \A a \in Agent : /\ lane'[a] = IF a[1] = p THEN lane'[a] ELSE lane[a]
                               /\ a[1] = p => lane'[a].pc = "free"
           /\ \A r \in RunId : runs'[r] = runs[r] \/ (Live(p, r) /\ runs'[r].status \in Terminal
                                                      /\ runs[r].status = "RUNNING")
<1>0. proc[p] \in ProcState /\ lane \in [Agent -> LaneState] /\ runs \in [RunId -> Run]
  BY DEF TypeOK
<1>1. CASE OpenRunFails(p)
  BY <1>0, <1>1, LanesAtRest DEF OpenRunFails
<1>2. CASE CloseRun(p)
  <2>1. /\ proc[p].pc = "close" /\ proc[p].run \in RunId /\ proc[p].verdict \in Terminal
        /\ shared' = shared /\ blind' = blind /\ evidence' = evidence /\ events' = events
        /\ items' = items /\ lane' = lane /\ proc' = [proc EXCEPT ![p] = Idle]
    BY <1>0, <1>2 DEF CloseRun, TypeOK, ProcState
  <2>2. \A a \in Agent : a[1] = p => lane[a].pc = "free"
    BY <2>1, LanesAtRest
  <2>3. ASSUME NEW r \in RunId
        PROVE  runs'[r] = runs[r] \/ (Live(p, r) /\ runs'[r].status \in Terminal
                                      /\ runs[r].status = "RUNNING")
    <3>1. CASE runs' = runs
      BY <3>1
    <3>2. CASE /\ runs[proc[p].run].status = "RUNNING"
               /\ runs' = [runs EXCEPT ![proc[p].run] =
                             [status |-> proc[p].verdict, intended |-> Cardinality(proc[p].list),
                              succeeded |-> proc[p].succeeded]]
      BY <1>0, <2>1, <3>2 DEF Live
    <3>3. QED BY <1>2, <3>1, <3>2 DEF CloseRun
  <2>4. QED BY <2>1, <2>2, <2>3
<1>3. CASE Crash(p)
  BY <1>0, <1>3 DEF Crash, Free
<1>4. QED BY <1>1, <1>2, <1>3 DEF Ends

(* A started session is on no run, or on the one findResumableRun found.   *)
LEMMA StartFrame ==
    ASSUME TypeOK, NEW p \in Process, Starts(p)
    PROVE  /\ runs' = runs /\ items' = items /\ evidence' = evidence /\ events' = events
           /\ lane' = lane /\ blind' = blind /\ shared \subseteq shared'
           /\ proc[p].pc = "idle" /\ proc[p].run = Null
           /\ \A q \in Process : q # p => proc'[q] = proc[q]
           /\ proc'[p].pc \in {"open", "init"} /\ proc'[p].work = {} /\ proc'[p].succeeded = Null
           /\ proc'[p].onePass => proc'[p].pc = "open"
           /\ \/ proc'[p].run = Null
              \/ /\ proc'[p].run \in RunId /\ runs[proc'[p].run].status = "RUNNING"
                 /\ \A q \in Process : Live(q, proc'[p].run) => proc'[p].run \in shared'
<1>0. proc \in [Process -> ProcState] /\ proc[p] \in ProcState
  BY DEF TypeOK
<1>1. ASSUME NEW L, NEW pc \in {"open", "init"}, NEW r, NEW onePass, Begin(p, L, pc, r, onePass)
      PROVE  /\ proc[p].pc = "idle" /\ proc[p].run = Null
             /\ \A q \in Process : q # p => proc'[q] = proc[q]
             /\ proc'[p].pc = pc /\ proc'[p].run = r /\ proc'[p].work = {}
             /\ proc'[p].succeeded = Null /\ proc'[p].onePass = onePass
  BY <1>0, <1>1 DEF Begin, TypeOK, Idle
<1>2. PICK L \in Lists : StartSession(p, L) \/ StartWithoutListing(p, L) \/ StartOnePass(p, L)
  BY DEF Starts
<1>3. CASE StartWithoutListing(p, L)
  BY <1>1, <1>3 DEF StartWithoutListing
<1>4. CASE StartOnePass(p, L)
  BY <1>1, <1>4 DEF StartOnePass
<1>5. CASE StartSession(p, L)
  <2>1. CASE Begin(p, L, "open", Null, FALSE) /\ UNCHANGED shared
    BY <1>1, <1>5, <2>1 DEF StartSession
  <2>2. ASSUME NEW r \in RunId, Resumable(r), Begin(p, L, "init", r, FALSE),
               shared' = IF \E q \in Process : Live(q, r) THEN shared \cup {r} ELSE shared
        PROVE  /\ shared \subseteq shared' /\ runs[r].status = "RUNNING"
               /\ \A q \in Process : Live(q, r) => r \in shared'
    BY <2>2 DEF Resumable
  <2>3. runs' = runs /\ items' = items /\ evidence' = evidence /\ events' = events
        /\ lane' = lane /\ blind' = blind
    BY <1>5 DEF StartSession
  <2>4. ASSUME NEW r \in RunId, Resumable(r), Begin(p, L, "init", r, FALSE),
               shared' = IF \E q \in Process : Live(q, r) THEN shared \cup {r} ELSE shared
        PROVE  /\ shared \subseteq shared'
               /\ proc[p].pc = "idle" /\ proc[p].run = Null
               /\ \A q \in Process : q # p => proc'[q] = proc[q]
               /\ proc'[p].pc = "init" /\ proc'[p].work = {} /\ proc'[p].succeeded = Null
               /\ proc'[p].onePass = FALSE
               /\ proc'[p].run \in RunId /\ runs[proc'[p].run].status = "RUNNING"
               /\ \A q \in Process : Live(q, proc'[p].run) => proc'[p].run \in shared'
    <3>1. /\ proc[p].pc = "idle" /\ proc[p].run = Null
          /\ \A q \in Process : q # p => proc'[q] = proc[q]
          /\ proc'[p].pc = "init" /\ proc'[p].run = r /\ proc'[p].work = {}
          /\ proc'[p].succeeded = Null /\ proc'[p].onePass = FALSE
      BY <1>1, <2>4
    <3>2. /\ shared \subseteq shared' /\ runs[r].status = "RUNNING"
          /\ \A q \in Process : Live(q, r) => r \in shared'
      BY <2>2, <2>4
    <3>3. QED BY <3>1, <3>2
  <2>5. CASE \E r \in RunId : /\ Resumable(r) /\ Begin(p, L, "init", r, FALSE)
                              /\ shared' = IF \E q \in Process : Live(q, r)
                                           THEN shared \cup {r} ELSE shared
    BY <2>3, <2>4, <2>5
  <2>6. QED BY <1>5, <2>1, <2>5 DEF StartSession
<1>6. QED BY <1>2, <1>3, <1>4, <1>5

LEMMA LiveRunsStep == TypeOK /\ LiveRuns /\ [Next]_vars => LiveRuns'
<1> SUFFICES ASSUME TypeOK, LiveRuns, [Next]_vars PROVE LiveRuns'
  OBVIOUS
<1>1. CASE UNCHANGED vars
  BY <1>1 DEF vars, LiveRuns, Live
<1>2. ASSUME NEW a \in Agent, LaneNext(a) PROVE LiveRuns'
  <2>1. /\ runs' = runs /\ shared' = shared
        /\ \A p \in Process : proc'[p].run = proc[p].run
    BY <1>2, LaneFrame
  <2>2. QED BY <2>1 DEF LiveRuns, Live
<1>3. ASSUME NEW p \in Process, Continues(p) PROVE LiveRuns'
  <2>1. /\ runs' = runs /\ shared' = shared
        /\ \A q \in Process : proc'[q].run = proc[q].run
    BY <1>3, ContinueFrame
  <2>2. QED BY <2>1 DEF LiveRuns, Live
<1>4. ASSUME NEW p \in Process, Starts(p) PROVE LiveRuns'
  <2>1. /\ runs' = runs /\ shared \subseteq shared'
        /\ \A q \in Process : q # p => proc'[q] = proc[q]
    BY <1>4, StartFrame
  <2>2. CASE proc'[p].run = Null
    <3>1. \A r \in RunId : r # Null
      BY CollectionAssumption DEF RunId
    <3>2. QED BY <2>1, <2>2, <3>1 DEF LiveRuns, Live
  <2>3. CASE /\ proc'[p].run \in RunId /\ runs[proc'[p].run].status = "RUNNING"
             /\ \A q \in Process : Live(q, proc'[p].run) => proc'[p].run \in shared'
    BY <2>1, <2>3 DEF LiveRuns, Live
  <2>4. QED BY <1>4, <2>2, <2>3, StartFrame
<1>5. ASSUME NEW p \in Process, OpenRun(p) PROVE LiveRuns'
  <2>1. PICK s \in RunId :
          /\ runs[s].status = "none"
          /\ runs' = [runs EXCEPT ![s].status = "RUNNING", ![s].intended = Cardinality(proc[p].list)]
          /\ proc' = [proc EXCEPT ![p].run = s,
                       ![p].pc = IF proc[p].onePass THEN "pool" ELSE "init",
                       ![p].work = IF proc[p].onePass THEN proc[p].list ELSE {}]
    BY <1>5 DEF OpenRun
  <2>2. /\ proc'[p].run = s /\ \A q \in Process : q # p => proc'[q] = proc[q]
        /\ runs'[s].status = "RUNNING" /\ \A r \in RunId : r # s => runs'[r] = runs[r]
        /\ shared' = shared
    BY <1>5, <2>1 DEF OpenRun, TypeOK, ProcState, Run
  <2>3. \A q \in Process : ~Live(q, s)
    BY <2>1 DEF LiveRuns
  <2>4. QED BY <2>2, <2>3 DEF LiveRuns, Live
<1>6. ASSUME NEW p \in Process, Ends(p) PROVE LiveRuns'
  <2>1. /\ shared' = shared /\ proc'[p].run = Null
        /\ \A q \in Process : q # p => proc'[q] = proc[q]
    BY <1>6, EndFrame DEF TypeOK, Idle
  <2>2. \A r \in RunId : r # Null
    BY CollectionAssumption DEF RunId
  <2>3. \A r \in RunId : runs'[r] = runs[r] \/ (Live(p, r) /\ runs'[r].status \in Terminal)
    BY <1>6, EndFrame
  <2>4. QED BY <2>1, <2>2, <2>3 DEF LiveRuns, Live, Terminal
<1>7. QED BY <1>1, <1>2, <1>3, <1>4, <1>5, <1>6, ProcNextKinds DEF Next

LEMMA ApartRunnersStep == TypeOK /\ ApartRunners /\ [Next]_vars => ApartRunners'
<1> SUFFICES ASSUME TypeOK, ApartRunners, [Next]_vars PROVE ApartRunners'
  OBVIOUS
<1>0. \A a \in Agent : a[1] \in Process
  BY DEF Agent
<1>1. CASE UNCHANGED vars
  BY <1>1 DEF vars, ApartRunners
<1>2. ASSUME NEW a \in Agent, LaneNext(a) PROVE ApartRunners'
  <2>1. /\ \A b \in Agent : b # a => lane'[b] = lane[b]
        /\ \A p \in Process : proc'[p].work \subseteq proc[p].work
    BY <1>2, LaneFrame
  <2>2. CASE lane'[a].pc = "free"
    BY <1>0, <2>1, <2>2 DEF ApartRunners
  <2>3. CASE lane[a].pc # "free" /\ lane'[a].domain = lane[a].domain
    BY <1>0, <2>1, <2>3 DEF ApartRunners
  <2>4. ASSUME NEW d \in Domain, TakeDomain(a, d) PROVE ApartRunners'
    <3>1. /\ d \in proc[a[1]].work /\ d \notin proc'[a[1]].work /\ lane'[a].domain = d
      BY <1>0, <2>4 DEF TakeDomain, TypeOK, ProcState, Free
    <3>2. QED BY <1>0, <2>1, <3>1 DEF ApartRunners
  <2>5. ASSUME NEW d \in Domain, CancelSession(a, d) PROVE ApartRunners'
    <3>1. lane' = lane
      BY <2>5 DEF CancelSession
    <3>2. QED BY <1>0, <2>1, <3>1 DEF ApartRunners
  <2>6. ASSUME NEW pc, Goto(a, pc) PROVE lane'[a].domain = lane[a].domain
    BY <2>6 DEF Goto, TypeOK, LaneState
  <2>7. ASSUME Release(a) PROVE lane'[a].pc = "free"
    BY <2>7 DEF Release, TypeOK, Free
  <2>8. CASE Adopt(a) \/ GuardPasses(a) \/ GuardFails(a)
    BY <2>2, <2>3, <2>6, <2>7, <2>8 DEF Adopt, GuardPasses, GuardFails
  <2>9. CASE Retry(a) \/ (\E class \in {"RETRYABLE", "PERMANENT", "UNEXPECTED"} : CollectFails(a, class))
    BY <2>2, <2>3, <2>7, <2>9 DEF Retry, CollectFails, TypeOK, LaneState
  <2>10. CASE Insert(a) \/ InsertFails(a)
    BY <2>2, <2>3, <2>6, <2>7, <2>10 DEF Insert, InsertFails
  <2>11. CASE FailInsert(a) \/ MarkCompleted(a) \/ Emit(a)
    BY <2>2, <2>3, <2>6, <2>7, <2>11 DEF FailInsert, MarkCompleted, Emit
  <2>12. QED BY <1>2, <2>4, <2>5, <2>8, <2>9, <2>10, <2>11 DEF LaneNext
<1>3. ASSUME NEW p \in Process,
             \A a \in Agent : a[1] = p => lane'[a].pc = "free",
             \A a \in Agent : a[1] # p => lane'[a] = lane[a],
             \A q \in Process : q # p => proc'[q] = proc[q]
      PROVE  ApartRunners'
  BY <1>0, <1>3 DEF ApartRunners
<1>4. ASSUME NEW p \in Process, Starts(p) PROVE ApartRunners'
  <2>1. /\ proc[p].pc = "idle" /\ lane' = lane
        /\ \A q \in Process : q # p => proc'[q] = proc[q]
    BY <1>4, StartFrame
  <2>2. QED BY <1>3, <2>1, LanesAtRest
<1>5. ASSUME NEW p \in Process, OpenRun(p) PROVE ApartRunners'
  <2>1. /\ proc[p].pc = "open" /\ lane' = lane
        /\ \A q \in Process : q # p => proc'[q] = proc[q]
    BY <1>5 DEF OpenRun, TypeOK
  <2>2. QED BY <1>3, <2>1, LanesAtRest
<1>6. ASSUME NEW p \in Process, Continues(p) PROVE ApartRunners'
  <2>1. /\ lane' = lane /\ \A a \in Agent : a[1] = p => lane[a].pc = "free"
        /\ \A q \in Process : q # p => proc'[q] = proc[q]
    BY <1>6, ContinueFrame
  <2>2. QED BY <1>3, <2>1
<1>7. ASSUME NEW p \in Process, Ends(p) PROVE ApartRunners'
  <2>1. /\ \A a \in Agent : a[1] = p => lane'[a].pc = "free"
        /\ \A a \in Agent : a[1] # p => lane'[a] = lane[a]
        /\ \A q \in Process : q # p => proc'[q] = proc[q]
    BY <1>7, EndFrame DEF TypeOK
  <2>2. QED BY <1>3, <2>1
<1>8. QED BY <1>1, <1>2, <1>4, <1>5, <1>6, <1>7, ProcNextKinds DEF Next

(* Only a lane that has collected a domain adds evidence, of that domain.  *)
LEMMA EvidenceFrame ==
    ASSUME TypeOK, NEW a \in Agent, LaneNext(a)
    PROVE  \/ evidence' = evidence
           \/ /\ lane[a].pc = "collect" /\ lane'[a].pc # "collect"
              /\ proc[a[1]].run \in RunId /\ lane[a].domain \in Domain
              /\ evidence' = [evidence EXCEPT ![proc[a[1]].run][lane[a].domain] = @ + 1]
              /\ proc' = proc
<1>1. CASE Insert(a) \/ InsertFails(a)
  <2>1. lane[a].pc = "collect" /\ proc' = proc
    BY <1>1 DEF Insert, InsertFails
  <2>2. lane'[a].pc # "collect"
    <3>1. \E pc \in {"emit", "complete", "fail"} : Release(a) \/ Goto(a, pc)
      BY <1>1 DEF Insert, InsertFails
    <3>2. QED BY <3>1 DEF Goto, Release, Free, TypeOK, LaneState
  <2>3. QED BY <1>1, <2>1, <2>2, LaneAtWork DEF Insert, InsertFails
<1>2. CASE ~(Insert(a) \/ InsertFails(a))
  BY <1>2 DEF LaneNext, TakeDomain, CancelSession, Adopt, GuardPasses, GuardFails, Retry,
              CollectFails, FailInsert, MarkCompleted, Emit
<1>3. QED BY <1>1, <1>2

(* A lane comes to collect through the guard, which found nothing or which *)
(* left the run blind, or in a one-pass session.                           *)
LEMMA CollectFrame ==
    ASSUME TypeOK, NEW a \in Agent, LaneNext(a), lane'[a].pc = "collect"
    PROVE  \/ lane[a].pc = "collect" /\ lane'[a].domain = lane[a].domain
           \/ evidence[proc[a[1]].run][lane'[a].domain] = 0
           \/ proc[a[1]].run \in blind'
           \/ proc[a[1]].onePass /\ proc[a[1]].pc = "pool" /\ lane'[a].domain \in proc[a[1]].work
<1>1. ASSUME NEW pc, Goto(a, pc) PROVE lane'[a].domain = lane[a].domain /\ lane'[a].pc = pc
  BY <1>1 DEF Goto, TypeOK, LaneState
<1>2. ASSUME Release(a) PROVE lane'[a].pc = "free"
  BY <1>2 DEF Release, TypeOK, Free
<1>3. ASSUME NEW d \in Domain, TakeDomain(a, d)
      PROVE  /\ proc[a[1]].onePass /\ proc[a[1]].pc = "pool"
             /\ lane'[a].domain = d /\ d \in proc[a[1]].work
  BY <1>3 DEF TakeDomain, TypeOK, Free
<1>4. ASSUME NEW d \in Domain, CancelSession(a, d) PROVE lane' = lane
  BY <1>4 DEF CancelSession
<1>5. CASE GuardPasses(a)
  BY <1>1, <1>5 DEF GuardPasses
<1>6. CASE GuardFails(a)
  BY <1>1, <1>6 DEF GuardFails
<1>7. CASE Retry(a)
  BY <1>7 DEF Retry, TypeOK, LaneState
<1>8. CASE Adopt(a) \/ (\E class \in {"RETRYABLE", "PERMANENT", "UNEXPECTED"} : CollectFails(a, class))
  BY <1>2, <1>8 DEF Adopt, CollectFails
<1>9. CASE Insert(a) \/ InsertFails(a)
  <2>1. \E pc \in {"emit", "complete", "fail"} : Release(a) \/ Goto(a, pc)
    BY <1>9 DEF Insert, InsertFails
  <2>2. QED BY <1>1, <1>2, <2>1
<1>10. CASE FailInsert(a) \/ MarkCompleted(a) \/ Emit(a)
  BY <1>1, <1>2, <1>10 DEF FailInsert, MarkCompleted, Emit
<1>11. CASE \E d \in Domain : TakeDomain(a, d)
  BY <1>3, <1>11
<1>12. CASE \E d \in Domain : CancelSession(a, d)
  BY <1>4, <1>12
<1>13. QED BY <1>5, <1>6, <1>7, <1>8, <1>9, <1>10, <1>11, <1>12 DEF LaneNext

LEMMA UnwrittenLane ==
    ASSUME TypeOK, LiveRuns, ApartRunners, Unwritten, NEW a \in Agent, LaneNext(a)
    PROVE  Unwritten'
<1>0. /\ \A b \in Agent : b[1] \in Process
      /\ evidence \in [RunId -> [Domain -> Nat]]
      /\ lane \in [Agent -> LaneState] /\ lane' \in [Agent -> LaneState]
  BY TypeLane DEF Agent, TypeOK
<1>1. /\ runs' = runs /\ \A r \in RunId : Clean(r)' => Clean(r)
      /\ \A p \in Process : /\ proc'[p].run = proc[p].run /\ proc'[p].pc = proc[p].pc
                            /\ proc'[p].onePass = proc[p].onePass
                            /\ proc'[p].work \subseteq proc[p].work
      /\ \A b \in Agent : b # a => lane'[b] = lane[b]
  BY LaneFrame DEF Clean
<1>2. CASE evidence' = evidence
  <2>1. ASSUME NEW b \in Agent, NEW r \in RunId, lane'[b].pc = "collect", Live(b[1], r)', Clean(r)'
        PROVE  evidence[r][lane'[b].domain] = 0
    <3>1. Live(b[1], r) /\ Clean(r)
      BY <1>0, <1>1, <2>1 DEF Live
    <3>2. CASE b # a
      BY <1>1, <2>1, <3>1, <3>2 DEF Unwritten
    <3>3. CASE b = a
      <4>1. r \notin blind' /\ proc[a[1]].run = r
        BY <2>1, <3>1, <3>3 DEF Clean, Live
      <4>2. QED BY <1>0, <2>1, <3>1, <3>3, <4>1, CollectFrame DEF Unwritten
    <3>4. QED BY <3>2, <3>3
  <2>2. QED BY <1>1, <1>2, <2>1 DEF Unwritten, Live
<1>3. CASE /\ lane[a].pc = "collect" /\ lane'[a].pc # "collect"
           /\ proc[a[1]].run \in RunId /\ lane[a].domain \in Domain
           /\ evidence' = [evidence EXCEPT ![proc[a[1]].run][lane[a].domain] = @ + 1]
           /\ proc' = proc
  <2> DEFINE s == proc[a[1]].run
             e == lane[a].domain
  <2>1. Live(a[1], s) /\ runs[s].status # "none"
    BY <1>0, <1>3 DEF LiveRuns, Live
  <2>2. \A r \in RunId, d \in Domain : r # s \/ d # e => evidence'[r][d] = evidence[r][d]
    BY <1>0, <1>3, CountGoesUp
  <2>3. ASSUME NEW b \in Agent, NEW r \in RunId, lane'[b].pc = "collect", Live(b[1], r)', Clean(r)'
        PROVE  evidence'[r][lane'[b].domain] = 0
    <3>1. b # a /\ lane'[b] = lane[b] /\ Live(b[1], r) /\ Clean(r) /\ b[1] \in Process
      BY <1>0, <1>1, <1>3, <2>3 DEF Live
    <3>2. evidence[r][lane[b].domain] = 0 /\ lane[b].domain \in Domain
      BY <2>3, <3>1, LaneAtWork DEF Unwritten
    <3>3. CASE r = s
      <4>1. b[1] = a[1]
        BY <1>0, <1>3, <2>1, <3>1, <3>3 DEF LiveRuns, Clean
      <4>2. lane[b].domain # e
        BY <1>3, <2>3, <3>1, <4>1 DEF ApartRunners
      <4>3. QED BY <2>2, <3>1, <3>2, <4>2
    <3>4. CASE r # s
      <4>1. evidence'[r][lane[b].domain] = evidence[r][lane[b].domain]
        BY <2>2, <3>2, <3>4
      <4>2. QED BY <3>1, <3>2, <4>1
    <3>5. QED BY <3>3, <3>4
  <2>4. ASSUME NEW p \in Process, NEW r \in RunId, proc[p].onePass, proc[p].pc = "pool",
               Live(p, r), Clean(r), NEW d \in proc[p].work
        PROVE  evidence'[r][d] = 0
    <3>1. evidence[r][d] = 0 /\ d \in Domain
      BY <2>4 DEF Unwritten, TypeOK, ProcState
    <3>2. CASE r = s
      <4>1. p = a[1]
        BY <1>0, <1>3, <2>1, <2>4, <3>2 DEF LiveRuns, Clean
      <4>2. d # e
        BY <1>3, <2>4, <4>1 DEF ApartRunners
      <4>3. QED BY <2>2, <3>1, <4>2
    <3>3. CASE r # s
      <4>1. evidence'[r][d] = evidence[r][d]
        BY <2>2, <3>1, <3>3
      <4>2. QED BY <3>1, <4>1
    <3>4. QED BY <3>2, <3>3
  <2>5. \A r \in RunId, d \in Domain : runs'[r].status = "none" => evidence'[r][d] = 0
    <3> SUFFICES ASSUME NEW r \in RunId, NEW d \in Domain, runs'[r].status = "none"
                 PROVE  evidence'[r][d] = 0
      OBVIOUS
    <3>1. runs[r].status = "none" /\ r # s
      BY <1>1, <2>1
    <3>2. evidence[r][d] = 0
      BY <3>1 DEF Unwritten
    <3>3. evidence'[r][d] = evidence[r][d]
      BY <2>2, <3>1
    <3>4. QED BY <3>2, <3>3
  <2>6. ASSUME NEW q \in Process, NEW r \in RunId, proc'[q].onePass, proc'[q].pc = "pool",
               Live(q, r)', Clean(r)', NEW d \in proc'[q].work
        PROVE  evidence'[r][d] = 0
    <3>1. proc[q].onePass /\ proc[q].pc = "pool" /\ Live(q, r) /\ Clean(r) /\ d \in proc[q].work
      BY <1>1, <1>3, <2>6 DEF Live
    <3>2. QED BY <2>4, <3>1
  <2>7. QED BY <2>3, <2>5, <2>6 DEF Unwritten
<1>4. QED BY <1>2, <1>3, EvidenceFrame

LEMMA NoLedgerStep == TypeOK /\ NoLedger /\ [Next]_vars => NoLedger'
<1> SUFFICES ASSUME TypeOK, NoLedger, [Next]_vars PROVE NoLedger'
  OBVIOUS
<1>1. CASE UNCHANGED vars
  BY <1>1 DEF vars, NoLedger
<1>2. ASSUME NEW a \in Agent, LaneNext(a) PROVE NoLedger'
  BY <1>2, LaneFrame DEF NoLedger
<1>3. ASSUME NEW p \in Process, \A q \in Process : q # p => proc'[q] = proc[q],
             proc'[p].onePass => proc'[p].pc \notin {"init", "list"}
      PROVE  NoLedger'
  BY <1>3 DEF NoLedger
<1>4. ASSUME NEW p \in Process, Starts(p) PROVE NoLedger'
  BY <1>3, <1>4, StartFrame
<1>5. ASSUME NEW p \in Process, OpenRun(p) PROVE NoLedger'
  <2>1. /\ \A q \in Process : q # p => proc'[q] = proc[q]
        /\ proc'[p].onePass => proc'[p].pc = "pool"
    BY <1>5 DEF OpenRun, TypeOK, ProcState
  <2>2. QED BY <1>3, <2>1
<1>6. ASSUME NEW p \in Process, Continues(p) PROVE NoLedger'
  <2>1. proc[p].onePass => proc'[p].pc = "close"
    <3>1. CASE InitItems(p) \/ ListOutstanding(p)
      BY <3>1 DEF InitItems, ListOutstanding, NoLedger
    <3>2. CASE Tally(p)
      BY <3>2 DEF Tally
    <3>3. CASE ConcludeOnePass(p)
      BY <3>3 DEF ConcludeOnePass, TypeOK, ProcState
    <3>4. QED BY <1>6, <3>1, <3>2, <3>3 DEF Continues
  <2>2. /\ \A q \in Process : q # p => proc'[q] = proc[q]
        /\ proc'[p].onePass = proc[p].onePass
    BY <1>6, ContinueFrame
  <2>3. QED BY <1>3, <2>1, <2>2
<1>7. ASSUME NEW p \in Process, Ends(p) PROVE NoLedger'
  <2>1. proc' = [proc EXCEPT ![p] = Idle] /\ ~Idle.onePass
    BY <1>7, EndFrame DEF Idle
  <2>2. QED BY <1>3, <2>1 DEF TypeOK
<1>8. QED BY <1>1, <1>2, <1>4, <1>5, <1>6, <1>7, ProcNextKinds DEF Next

LEMMA UnwrittenStep ==
    TypeOK /\ NoLedger /\ LiveRuns /\ ApartRunners /\ Unwritten /\ [Next]_vars => Unwritten'
<1> SUFFICES ASSUME TypeOK, NoLedger, LiveRuns, ApartRunners, Unwritten, [Next]_vars
             PROVE  Unwritten'
  OBVIOUS
<1>0. \A a \in Agent : a[1] \in Process
  BY DEF Agent
<1>1. CASE UNCHANGED vars
  BY <1>1 DEF vars, Unwritten, Live, Clean
<1>2. ASSUME NEW p \in Process, evidence' = evidence,
             \A r \in RunId : runs'[r].status = "none" => runs[r].status = "none",
             \A r \in RunId : Clean(r)' => Clean(r),
             \A q \in Process : q # p => proc'[q] = proc[q],
             \A a \in Agent : a[1] = p => lane'[a].pc = "free",
             \A a \in Agent : a[1] # p => lane'[a] = lane[a],
             \A r \in RunId : proc'[p].onePass /\ proc'[p].pc = "pool" /\ proc'[p].run = r
                              => \A d \in proc'[p].work : evidence[r][d] = 0
      PROVE  Unwritten'
  <2>1. ASSUME NEW a \in Agent, NEW r \in RunId, lane'[a].pc = "collect", Live(a[1], r)', Clean(r)'
        PROVE  evidence'[r][lane'[a].domain] = 0
    BY <1>0, <1>2, <2>1 DEF Unwritten, Live
  <2>2. ASSUME NEW q \in Process, NEW r \in RunId, proc'[q].onePass, proc'[q].pc = "pool",
               Live(q, r)', Clean(r)'
        PROVE  \A d \in proc'[q].work : evidence'[r][d] = 0
    BY <1>2, <2>2 DEF Unwritten, Live
  <2>3. \A r \in RunId, d \in Domain : runs'[r].status = "none" => evidence'[r][d] = 0
    BY <1>2 DEF Unwritten
  <2>4. QED BY <2>1, <2>2, <2>3 DEF Unwritten
<1>3. ASSUME NEW p \in Process, Starts(p) PROVE Unwritten'
  <2>1. /\ runs' = runs /\ lane' = lane /\ evidence' = evidence /\ proc[p].pc = "idle"
        /\ \A q \in Process : q # p => proc'[q] = proc[q]
        /\ proc'[p].pc # "pool" /\ blind' = blind /\ shared \subseteq shared'
    BY <1>3, StartFrame
  <2>2. QED BY <1>2, <2>1, LanesAtRest DEF Clean
<1>4. ASSUME NEW p \in Process, OpenRun(p) PROVE Unwritten'
  <2>1. PICK s \in RunId :
          /\ runs[s].status = "none"
          /\ runs' = [runs EXCEPT ![s].status = "RUNNING", ![s].intended = Cardinality(proc[p].list)]
          /\ proc' = [proc EXCEPT ![p].run = s,
                       ![p].pc = IF proc[p].onePass THEN "pool" ELSE "init",
                       ![p].work = IF proc[p].onePass THEN proc[p].list ELSE {}]
    BY <1>4 DEF OpenRun
  <2>2. /\ proc'[p].run = s /\ proc'[p].work \subseteq Domain
        /\ \A q \in Process : q # p => proc'[q] = proc[q]
        /\ \A r \in RunId : runs'[r].status = "none" => runs[r].status = "none"
        /\ shared' = shared /\ blind' = blind /\ lane' = lane /\ evidence' = evidence
        /\ proc[p].pc = "open"
    BY <1>4, <2>1 DEF OpenRun, TypeOK, ProcState, Run
  <2>3. \A d \in Domain : evidence[s][d] = 0
    BY <2>1 DEF Unwritten
  <2>4. QED BY <1>2, <2>2, <2>3, LanesAtRest DEF Clean
<1>5. ASSUME NEW p \in Process, Continues(p) PROVE Unwritten'
  <2>1. /\ runs' = runs /\ shared' = shared /\ blind' = blind /\ lane' = lane
        /\ evidence' = evidence
        /\ \A q \in Process : q # p => proc'[q] = proc[q]
        /\ \A a \in Agent : a[1] = p => lane[a].pc = "free"
        /\ proc'[p].onePass = proc[p].onePass
        /\ proc'[p].pc = "pool" => ListOutstanding(p)
    BY <1>5, ContinueFrame
  <2>2. ~(proc'[p].onePass /\ proc'[p].pc = "pool")
    BY <2>1 DEF ListOutstanding, NoLedger
  <2>3. QED BY <1>2, <2>1, <2>2 DEF Clean
<1>6. ASSUME NEW p \in Process, Ends(p) PROVE Unwritten'
  <2>1. /\ evidence' = evidence /\ shared' = shared /\ blind' = blind
        /\ \A q \in Process : q # p => proc'[q] = proc[q]
        /\ proc'[p].pc # "pool"
        /\ \A a \in Agent : a[1] = p => lane'[a].pc = "free"
        /\ \A a \in Agent : a[1] # p => lane'[a] = lane[a]
    BY <1>6, EndFrame DEF TypeOK, Idle
  <2>2. \A r \in RunId : runs'[r].status = "none" => runs[r].status = "none"
    BY <1>6, EndFrame DEF Terminal
  <2>3. QED BY <1>2, <2>1, <2>2 DEF Clean
<1>7. QED BY <1>1, <1>3, <1>4, <1>5, <1>6, UnwrittenLane, ProcNextKinds DEF Next

LEMMA OneObservationStep ==
    TypeOK /\ Unwritten /\ OneObservationPerDomain /\ [Next]_vars => OneObservationPerDomain'
<1> SUFFICES ASSUME TypeOK, Unwritten, OneObservationPerDomain, [Next]_vars
             PROVE  OneObservationPerDomain'
  OBVIOUS
<1>1. CASE UNCHANGED vars
  BY <1>1 DEF vars, OneObservationPerDomain
<1>2. ASSUME NEW p \in Process, ProcNext(p) PROVE OneObservationPerDomain'
  <2>1. evidence' = evidence /\ blind' = blind /\ shared \subseteq shared'
    <3>1. CASE OpenRun(p)
      BY <3>1 DEF OpenRun
    <3>2. QED BY <1>2, <3>1, ProcNextKinds, StartFrame, ContinueFrame, EndFrame
  <2>2. QED BY <2>1 DEF OneObservationPerDomain
<1>3. ASSUME NEW a \in Agent, LaneNext(a) PROVE OneObservationPerDomain'
  <2>1. shared' = shared /\ blind \subseteq blind'
    BY <1>3, LaneFrame
  <2>2. CASE evidence' = evidence
    BY <2>1, <2>2 DEF OneObservationPerDomain
  <2>3. CASE /\ lane[a].pc = "collect" /\ proc[a[1]].run \in RunId /\ lane[a].domain \in Domain
             /\ evidence' = [evidence EXCEPT ![proc[a[1]].run][lane[a].domain] = @ + 1]
    <3>0. PICK r0 \in RunId, d0 \in Domain : r0 = proc[a[1]].run /\ d0 = lane[a].domain
      BY <2>3
    <3>1. /\ Clean(r0) => evidence[r0][d0] = 0
          /\ evidence'[r0][d0] = evidence[r0][d0] + 1
          /\ \A r \in RunId, d \in Domain : r # r0 \/ d # d0 => evidence'[r][d] = evidence[r][d]
      <4>1. Clean(r0) => evidence[r0][d0] = 0
        BY <2>3, <3>0 DEF Unwritten, Live
      <4>2. evidence' = [evidence EXCEPT ![r0][d0] = @ + 1]
        BY <2>3, <3>0
      <4>3. QED BY <4>1, <4>2, CountGoesUp DEF TypeOK
    <3>2. ASSUME NEW r \in RunId \ (shared \cup blind)', NEW d \in Domain
          PROVE  evidence'[r][d] <= 1
      <4>1. Clean(r) /\ evidence[r][d] <= 1
        BY <2>1, <3>2 DEF OneObservationPerDomain, Clean
      <4>2. CASE r = r0 /\ d = d0
        BY <3>1, <4>1, <4>2
      <4>3. CASE r # r0 \/ d # d0
        BY <3>1, <4>1, <4>3
      <4>4. QED BY <4>2, <4>3
    <3>3. QED BY <3>2 DEF OneObservationPerDomain
  <2>4. QED BY <1>3, <2>2, <2>3, EvidenceFrame
<1>4. QED BY <1>1, <1>2, <1>3 DEF Next

LEMMA EvidenceInit == Init => EvidenceInv
<1> SUFFICES ASSUME Init PROVE EvidenceInv
  OBVIOUS
<1>1. \A r \in RunId : r # Null
  BY CollectionAssumption DEF RunId
<1>2. QED
  BY <1>1 DEF Init, EvidenceInv, NoLedger, LiveRuns, ApartRunners, Unwritten, Live,
              OneObservationPerDomain, Idle, Free, Agent

LEMMA EvidenceInvariant == Spec => [](TypeOK /\ EvidenceInv)
<1>1. TypeOK /\ EvidenceInv /\ [Next]_vars => EvidenceInv'
  BY NoLedgerStep, LiveRunsStep, ApartRunnersStep, UnwrittenStep, OneObservationStep
     DEF EvidenceInv
<1>2. QED BY <1>1, EvidenceInit, TypeCorrect, PTL DEF Spec

(* resilient-collection-session.js:152, "never write a duplicate           *)
(* Observation on resume", for every number of sessions, crashes, failed   *)
(* inserts and lost ledger writes.                                         *)
THEOREM NoDuplicates == Spec => []OneObservationPerDomain
<1>1. EvidenceInv => OneObservationPerDomain
  BY DEF EvidenceInv
<1>2. QED BY <1>1, EvidenceInvariant, PTL

(* A lane writes only in its own process's run.                            *)
LEMMA OwnRunOnly ==
    ASSUME TypeOK, NEW a \in Agent, LaneNext(a), NEW r \in RunId, ~Live(a[1], r)
    PROVE  evidence'[r] = evidence[r] /\ events'[r] = events[r]
<1>1. evidence'[r] = evidence[r]
  <2>1. CASE evidence' = evidence
    BY <2>1
  <2>2. CASE /\ proc[a[1]].run \in RunId
             /\ evidence' = [evidence EXCEPT ![proc[a[1]].run][lane[a].domain] = @ + 1]
    <3>1. proc[a[1]].run # r
      BY DEF Live
    <3>2. QED BY <2>2, <3>1 DEF TypeOK
  <2>3. QED BY <2>1, <2>2, EvidenceFrame
<1>2. CASE Emit(a)
  <2>1. proc[a[1]].run # r
    BY DEF Live
  <2>2. CASE events' = events
    BY <1>1, <2>2
  <2>3. CASE events' = [events EXCEPT ![proc[a[1]].run][lane[a].domain] = @ + 1]
    BY <1>1, <2>1, <2>3 DEF TypeOK
  <2>4. QED BY <1>2, <2>2, <2>3 DEF Emit
<1>3. CASE ~Emit(a)
  <2>1. events' = events
    BY <1>3 DEF LaneNext, TakeDomain, CancelSession, Adopt, GuardPasses, GuardFails, Retry,
                CollectFails, Insert, InsertFails, FailInsert, MarkCompleted
  <2>2. QED BY <1>1, <2>1
<1>4. QED BY <1>2, <1>3

(* A run reaches one terminal state and never changes again; neither does  *)
(* its evidence, unless two live sessions shared it (registry.js).         *)
THEOREM ClosedRuns == Spec => ClosedRunIsFinal
<1> DEFINE Final(r) == /\ runs'[r] = runs[r]
                       /\ r \notin shared' => evidence'[r] = evidence[r] /\ events'[r] = events[r]
<1>1. ASSUME TypeOK, EvidenceInv, [Next]_vars, NEW r \in RunId, runs[r].status \in Terminal
      PROVE  Final(r)
  <2>1. CASE UNCHANGED vars
    BY <2>1 DEF vars
  <2>2. ASSUME NEW a \in Agent, LaneNext(a) PROVE Final(r)
    <3>1. runs' = runs /\ shared' = shared /\ a[1] \in Process
      BY <1>1, <2>2, LaneFrame DEF Agent
    <3>2. r \notin shared => ~Live(a[1], r)
      BY <1>1, <3>1 DEF EvidenceInv, LiveRuns, Terminal
    <3>3. QED BY <1>1, <2>2, <3>1, <3>2, OwnRunOnly
  <2>3. ASSUME NEW p \in Process, OpenRun(p) PROVE Final(r)
    BY <1>1, <2>3 DEF OpenRun, TypeOK, Terminal
  <2>4. ASSUME NEW p \in Process, Starts(p) \/ Continues(p) PROVE Final(r)
    BY <2>4, <1>1, StartFrame, ContinueFrame
  <2>5. ASSUME NEW p \in Process, Ends(p) PROVE Final(r)
    BY <1>1, <2>5, EndFrame DEF Terminal
  <2>6. QED BY <1>1, <2>1, <2>2, <2>3, <2>4, <2>5, ProcNextKinds DEF Next
<1>2. TypeOK /\ EvidenceInv /\ [Next]_vars
        => [\A r \in RunId : runs[r].status \in Terminal => Final(r)]_vars
  BY <1>1
<1>3. QED BY <1>2, EvidenceInvariant, PTL DEF Spec, ClosedRunIsFinal

-----------------------------------------------------------------------------
(* Truthful terminal states.                                               *)

(* A ledger item is COMPLETED only if its domain has an Observation, and   *)
(* a tally never counts more.                                              *)
LedgerInv ==
    /\ \A p \in Process : proc[p].pc # "close" => proc[p].succeeded = Null
    /\ \A r \in RunId, d \in Domain : items[r][d] = "COMPLETED" => evidence[r][d] > 0
    /\ \A a \in Agent, r \in RunId : lane[a].pc = "complete" /\ Live(a[1], r)
                                     => evidence[r][lane[a].domain] > 0
    /\ \A p \in Process, r \in RunId :
         proc[p].pc = "close" /\ Live(p, r) /\ proc[p].succeeded # Null =>
           /\ proc[p].succeeded <= Cardinality(Observed(r))
           /\ proc[p].verdict = "COMPLETED" => Cardinality(proc[p].list) <= proc[p].succeeded
    /\ \A r \in RunId : runs[r].succeeded # Null =>
         /\ runs[r].succeeded <= Cardinality(Observed(r))
         /\ runs[r].status = "COMPLETED" => runs[r].intended <= runs[r].succeeded

LEMMA ObservedCount ==
    ASSUME NEW r
    PROVE  IsFiniteSet(Observed(r)) /\ Cardinality(Observed(r)) \in Nat
  BY CollectionAssumption, FS_Subset, FS_CardinalityType DEF Observed

(* Evidence is never lost, so a run's observed domains only grow.          *)
LEMMA EvidenceGrows ==
    ASSUME TypeOK, [Next]_vars
    PROVE  /\ \A r \in RunId, d \in Domain : evidence'[r][d] >= evidence[r][d]
           /\ \A r \in RunId : Cardinality(Observed(r)) <= Cardinality(Observed(r)')
<1>1. ASSUME NEW r \in RunId, NEW d \in Domain PROVE evidence'[r][d] >= evidence[r][d]
  <2>1. CASE evidence' = evidence
    BY <2>1 DEF TypeOK
  <2>2. ASSUME NEW a \in Agent, LaneNext(a) PROVE evidence'[r][d] >= evidence[r][d]
    <3>1. CASE /\ proc[a[1]].run \in RunId /\ lane[a].domain \in Domain
               /\ evidence' = [evidence EXCEPT ![proc[a[1]].run][lane[a].domain] = @ + 1]
      BY <3>1, CountGoesUp DEF TypeOK
    <3>2. QED BY <2>1, <2>2, <3>1, EvidenceFrame
  <2>3. ASSUME NEW p \in Process, ProcNext(p) PROVE evidence' = evidence
    <3>1. CASE OpenRun(p)
      BY <3>1 DEF OpenRun
    <3>2. QED BY <2>3, <3>1, ProcNextKinds, StartFrame, ContinueFrame, EndFrame
  <2>4. QED BY <2>1, <2>2, <2>3 DEF Next, vars
<1>2. ASSUME NEW r \in RunId PROVE Cardinality(Observed(r)) <= Cardinality(Observed(r)')
  <2>1. Observed(r) \subseteq Observed(r)' /\ Observed(r)' \subseteq Domain
    <3>1. evidence \in [RunId -> [Domain -> Nat]] /\ evidence' \in [RunId -> [Domain -> Nat]]
      BY TypeStep DEF TypeOK
    <3>2. QED BY <1>1, <3>1 DEF Observed
  <2>2. IsFiniteSet(Observed(r)')
    BY <2>1, CollectionAssumption, FS_Subset
  <2>3. QED BY <2>1, <2>2, FS_Subset
<1>3. QED BY <1>1, <1>2

(* The verdict COMPLETED needs as many completed items as domains given.   *)
LEMMA VerdictCompleted ==
    ASSUME NEW i \in Nat, NEW s \in Nat, NEW f \in Nat, NEW c \in BOOLEAN,
           TerminalState(i, s, f, c) = "COMPLETED"
    PROVE  i <= s
<1>1. CASE c
  BY <1>1 DEF TerminalState
<1>2. CASE ~c /\ s = 0
  BY <1>2 DEF TerminalState
<1>3. CASE ~c /\ s > 0 /\ s >= i /\ f = 0
  BY <1>3
<1>4. CASE ~c /\ s > 0 /\ ~(s >= i /\ f = 0)
  BY <1>4 DEF TerminalState
<1>5. QED BY <1>1, <1>2, <1>3, <1>4

(* What the code writes as COMPLETED has been observed: markCompleted      *)
(* follows an insert or an adoption.                                       *)
LEMMA CompletedWrites ==
    ASSUME TypeOK, LedgerInv, [Next]_vars, NEW r \in RunId, NEW d \in Domain,
           items'[r][d] = "COMPLETED"
    PROVE  evidence[r][d] > 0
<1>1. CASE items' = items
  BY <1>1 DEF LedgerInv
<1>2. ASSUME NEW s \in RunId, NEW e \in Domain, NEW status, Write(s, e, status),
             status = "COMPLETED" => evidence[s][e] > 0
      PROVE  evidence[r][d] > 0
  <2>1. CASE items' = [items EXCEPT ![s][e] = status]
    <3>1. CASE r = s /\ d = e
      BY <1>2, <2>1, <3>1 DEF TypeOK
    <3>2. CASE ~(r = s /\ d = e)
      <4>1. items'[r][d] = items[r][d]
        BY <2>1, <3>2 DEF TypeOK
      <4>2. QED BY <4>1 DEF LedgerInv
    <3>3. QED BY <3>1, <3>2
  <2>2. QED BY <1>1, <1>2, <2>1 DEF Write
<1>3. ASSUME NEW a \in Agent, LaneNext(a) PROVE evidence[r][d] > 0
  <2>1. ASSUME NEW e \in Domain, TakeDomain(a, e) PROVE evidence[r][d] > 0
    <3>1. proc[a[1]].run \in RunId
      BY <2>1 DEF TakeDomain, TypeOK, ProcState, Agent
    <3>2. QED BY <1>1, <1>2, <2>1, <3>1 DEF TakeDomain
  <2>2. CASE Adopt(a)
    BY <1>2, <2>2, LaneAtWork DEF Adopt
  <2>3. CASE MarkCompleted(a)
    <3>1. proc[a[1]].run \in RunId /\ lane[a].domain \in Domain /\ lane[a].pc = "complete"
      BY <2>3, LaneAtWork DEF MarkCompleted
    <3>2. evidence[proc[a[1]].run][lane[a].domain] > 0
      BY <3>1 DEF LedgerInv, Live
    <3>3. QED BY <1>2, <2>3, <3>1, <3>2 DEF MarkCompleted
  <2>4. ASSUME NEW class \in {"RETRYABLE", "PERMANENT", "UNEXPECTED"}, CollectFails(a, class)
        PROVE  evidence[r][d] > 0
    BY <1>1, <1>2, <2>4, LaneAtWork DEF CollectFails
  <2>5. CASE FailInsert(a)
    BY <1>2, <2>5, LaneAtWork DEF FailInsert
  <2>6. CASE \/ \E e \in Domain : CancelSession(a, e)
             \/ GuardPasses(a) \/ GuardFails(a) \/ Retry(a) \/ Insert(a) \/ InsertFails(a) \/ Emit(a)
    BY <1>1, <2>6 DEF CancelSession, GuardPasses, GuardFails, Retry, Insert, InsertFails, Emit
  <2>7. QED BY <1>3, <2>1, <2>2, <2>3, <2>4, <2>5, <2>6 DEF LaneNext
<1>4. ASSUME NEW p \in Process, ProcNext(p) PROVE evidence[r][d] > 0
  <2>1. CASE InitItems(p)
    <3>1. PICK D \in SUBSET proc[p].list : items' = Initialised(proc[p].run, D)
      BY <2>1 DEF InitItems
    <3>2. items'[r][d] = items[r][d] \/ items'[r][d] = "PENDING"
      BY <3>1 DEF Initialised, TypeOK
    <3>3. QED BY <3>2 DEF LedgerInv
  <2>2. CASE ~InitItems(p)
    BY <1>1, <1>4, <2>2 DEF ProcNext, StartSession, StartWithoutListing, StartOnePass, OpenRun,
       OpenRunFails, ListOutstanding, Tally, ConcludeOnePass, CloseRun, Crash
  <2>3. QED BY <2>1, <2>2
<1>5. QED BY <1>1, <1>3, <1>4 DEF Next, vars

(* A tally counts observed domains, and all of them or more for COMPLETED. *)
LEMMA TallyCounts ==
    ASSUME TypeOK, LedgerInv, NEW p \in Process, Tally(p)
    PROVE  /\ proc'[p].succeeded <= Cardinality(Observed(proc[p].run))
           /\ proc'[p].verdict = "COMPLETED" => Cardinality(proc[p].list) <= proc'[p].succeeded
<1> DEFINE run == proc[p].run
           done(D) == {d \in D : items[run][d] = "COMPLETED"}
           failed(D) == Cardinality({d \in D : items[run][d] \in {"FAILED", "PERMANENT"}})
           verdict(D) == TerminalState(Cardinality(proc[p].list), Cardinality(done(D)), failed(D),
                                       proc[p].cancelled)
<1>0. proc[p] \in ProcState /\ run \in RunId
  BY DEF TypeOK, Tally, PoolDone, ProcState
<1>1. PICK D \in SUBSET Domain :
        proc' = [proc EXCEPT ![p].pc = "close", ![p].succeeded = Cardinality(done(D)),
                             ![p].verdict = verdict(D)]
  BY DEF Tally
<1>2. proc'[p].succeeded = Cardinality(done(D)) /\ proc'[p].verdict = verdict(D)
  <2> HIDE DEF done, verdict
  <2>1. QED BY <1>0, <1>1 DEF TypeOK, ProcState
<1>3. done(D) \subseteq Observed(run)
  BY <1>0 DEF LedgerInv, Observed
<1>4. Cardinality(done(D)) <= Cardinality(Observed(run))
  BY <1>3, ObservedCount, FS_Subset
<1>5. /\ Cardinality(proc[p].list) \in Nat /\ Cardinality(done(D)) \in Nat /\ failed(D) \in Nat
      /\ proc[p].cancelled \in BOOLEAN
  BY <1>0, DomainCount DEF ProcState
<1>6. verdict(D) = "COMPLETED" => Cardinality(proc[p].list) <= Cardinality(done(D))
  <2> HIDE DEF done, failed
  <2>1. QED BY <1>5, VerdictCompleted
<1>7. QED BY <1>2, <1>4, <1>6

(* Only an insert brings a lane to mark its domain completed.              *)
LEMMA CompleteFrame ==
    ASSUME TypeOK, NEW a \in Agent, LaneNext(a), lane'[a].pc = "complete"
    PROVE  Insert(a)
<1>1. ASSUME NEW pc, Goto(a, pc) PROVE lane'[a].pc = pc
  BY <1>1 DEF Goto, TypeOK, LaneState
<1>2. ASSUME Release(a) PROVE lane'[a].pc = "free"
  BY <1>2 DEF Release, TypeOK, Free
<1>3. ASSUME NEW d \in Domain, TakeDomain(a, d) PROVE FALSE
  <2>1. PICK pc \in {"collect", "guard"} :
          lane' = [lane EXCEPT ![a] = [Free EXCEPT !.domain = d, !.attempt = 1, !.pc = pc]]
    BY <1>3 DEF TakeDomain
  <2>2. [Free EXCEPT !.domain = d, !.attempt = 1, !.pc = pc].pc = pc
    BY DEF Free
  <2>3. lane'[a].pc = pc
    BY <2>1, <2>2 DEF TypeOK
  <2>4. QED BY <2>3
<1>4. ASSUME NEW d \in Domain PROVE ~CancelSession(a, d)
  BY DEF CancelSession
<1>5. ~Retry(a)
  BY DEF Retry, TypeOK, LaneState
<1>6. QED
  <2>1. ~(Adopt(a) \/ GuardPasses(a) \/ GuardFails(a))
    BY <1>1, <1>2 DEF Adopt, GuardPasses, GuardFails
  <2>2. ~\E class \in {"RETRYABLE", "PERMANENT", "UNEXPECTED"} : CollectFails(a, class)
    BY <1>2 DEF CollectFails
  <2>3. ~(InsertFails(a) \/ FailInsert(a))
    BY <1>1, <1>2 DEF InsertFails, FailInsert
  <2>4. ~(MarkCompleted(a) \/ Emit(a))
    BY <1>1, <1>2 DEF MarkCompleted, Emit
  <2>5. QED BY <1>3, <1>4, <1>5, <2>1, <2>2, <2>3, <2>4 DEF LaneNext

LEMMA LedgerStep == TypeOK /\ LedgerInv /\ [Next]_vars => LedgerInv'
<1> SUFFICES ASSUME TypeOK, LedgerInv, [Next]_vars PROVE LedgerInv'
  OBVIOUS
<1> DEFINE Sound(r, s, verdict, intended) ==
             /\ s <= Cardinality(Observed(r))
             /\ verdict = "COMPLETED" => intended <= s
<1>0. /\ \A r \in RunId, d \in Domain : evidence'[r][d] >= evidence[r][d]
      /\ \A r \in RunId : /\ Cardinality(Observed(r)) <= Cardinality(Observed(r)')
                          /\ Cardinality(Observed(r)) \in Nat /\ Cardinality(Observed(r)') \in Nat
      /\ evidence \in [RunId -> [Domain -> Nat]] /\ evidence' \in [RunId -> [Domain -> Nat]]
      /\ proc \in [Process -> ProcState] /\ proc' \in [Process -> ProcState]
      /\ runs \in [RunId -> Run] /\ runs' \in [RunId -> Run]
      /\ \A a \in Agent : a[1] \in Process
  <2>1. \A r \in RunId : Cardinality(Observed(r)') \in Nat
    <3>1. ASSUME NEW r \in RunId PROVE Observed(r)' \subseteq Domain
      BY DEF Observed
    <3>2. QED BY <3>1, DomainCount
  <2>2. QED BY <2>1, TypeStep, EvidenceGrows, ObservedCount DEF TypeOK, Agent
<1>1. ASSUME NEW r \in RunId, NEW d \in Domain, items'[r][d] = "COMPLETED"
      PROVE  evidence'[r][d] > 0
  <2>1. evidence[r][d] > 0
    BY <1>1, CompletedWrites
  <2>2. QED BY <1>0, <2>1
<1>2. ASSUME NEW a \in Agent, NEW r \in RunId, lane'[a].pc = "complete", Live(a[1], r)'
      PROVE  evidence'[r][lane'[a].domain] > 0
  <2>1. CASE lane'[a] = lane[a] /\ Live(a[1], r)
    <3>1. lane[a].domain \in Domain /\ evidence[r][lane[a].domain] > 0
      BY <1>2, <2>1, LaneAtWork DEF LedgerInv
    <3>2. QED BY <1>0, <2>1, <3>1
  <2>2. CASE Insert(a)
    <3>1. /\ lane'[a].domain = lane[a].domain /\ lane[a].domain \in Domain
          /\ proc[a[1]].run = r /\ evidence' = [evidence EXCEPT ![r][lane[a].domain] = @ + 1]
      <4>1. lane[a].pc = "collect" /\ proc' = proc
        BY <2>2 DEF Insert
      <4>2. lane[a].domain \in Domain /\ proc[a[1]].run = r
        BY <1>2, <4>1, LaneAtWork DEF Live
      <4>3. lane'[a].domain = lane[a].domain
        BY <2>2 DEF Insert, Goto, TypeOK, LaneState
      <4>4. QED BY <2>2, <4>2, <4>3 DEF Insert
    <3>2. QED BY <1>0, <3>1
  <2>3. ASSUME NEW b \in Agent, LaneNext(b) PROVE evidence'[r][lane'[a].domain] > 0
    <3>1. Live(a[1], r)
      BY <1>0, <1>2, <2>3, LaneFrame DEF Live
    <3>2. CASE b # a
      BY <2>1, <2>3, <3>1, <3>2, LaneFrame
    <3>3. CASE b = a
      BY <1>2, <2>2, <2>3, <3>3, CompleteFrame
    <3>4. QED BY <3>2, <3>3
  <2>4. ASSUME NEW p \in Process, ProcNext(p) PROVE evidence'[r][lane'[a].domain] > 0
    <3>1. a[1] # p
      <4>1. CASE OpenRun(p)
        <5>1. lane' = lane /\ proc[p].pc = "open"
          BY <4>1 DEF OpenRun
        <5>2. QED BY <1>2, <5>1, LanesAtRest
      <4>2. CASE Starts(p)
        BY <1>2, <4>2, StartFrame, LanesAtRest
      <4>3. CASE Continues(p)
        BY <1>2, <4>3, ContinueFrame
      <4>4. CASE Ends(p)
        BY <1>2, <4>4, EndFrame
      <4>5. QED BY <2>4, <4>1, <4>2, <4>3, <4>4, ProcNextKinds
    <3>2. lane'[a] = lane[a] /\ proc'[a[1]] = proc[a[1]]
      <4>1. CASE OpenRun(p)
        BY <1>0, <3>1, <4>1 DEF OpenRun
      <4>2. CASE Ends(p)
        <5>1. proc' = [proc EXCEPT ![p] = Idle] /\ lane'[a] = lane[a]
          BY <3>1, <4>2, EndFrame
        <5>2. QED BY <1>0, <3>1, <5>1
      <4>3. QED
        BY <1>0, <2>4, <3>1, <4>1, <4>2, ProcNextKinds, StartFrame, ContinueFrame
    <3>3. QED BY <1>2, <2>1, <3>2 DEF Live
  <2>5. QED BY <1>2, <2>1, <2>3, <2>4 DEF Next, vars, Live
<1>3. ASSUME NEW p \in Process
      PROVE  /\ proc'[p].pc # "close" => proc'[p].succeeded = Null
             /\ \A r \in RunId : proc'[p].pc = "close" /\ Live(p, r)' /\ proc'[p].succeeded # Null =>
                  Sound(r, proc'[p].succeeded, proc'[p].verdict, Cardinality(proc'[p].list))
  <2> DEFINE Kept == /\ proc'[p].pc # "close" => proc'[p].succeeded = Null
                     /\ \A r \in RunId :
                          proc'[p].pc = "close" /\ Live(p, r)' /\ proc'[p].succeeded # Null =>
                          Sound(r, proc'[p].succeeded, proc'[p].verdict, Cardinality(proc'[p].list))
  <2>1. CASE /\ proc'[p].pc = proc[p].pc /\ proc'[p].run = proc[p].run
             /\ proc'[p].list = proc[p].list /\ proc'[p].succeeded = proc[p].succeeded
             /\ proc'[p].verdict = proc[p].verdict
    BY <2>1 DEF LedgerInv, Live
  <2>2. CASE proc'[p].succeeded = Null
    BY <2>2
  <2>3. ASSUME NEW a \in Agent, LaneNext(a) PROVE Kept
    BY <2>1, <2>3, LaneFrame
  <2>4. ASSUME NEW q \in Process, ProcNext(q), q # p PROVE Kept
    <3>1. proc'[p] = proc[p]
      <4>1. CASE OpenRun(q)
        BY <1>0, <2>4, <4>1 DEF OpenRun
      <4>2. CASE Ends(q)
        BY <1>0, <2>4, <4>2, EndFrame
      <4>3. CASE Starts(q)
        BY <2>4, <4>3, StartFrame
      <4>4. CASE Continues(q)
        BY <2>4, <4>4, ContinueFrame
      <4>5. QED BY <2>4, <4>1, <4>2, <4>3, <4>4, ProcNextKinds
    <3>2. QED BY <2>1, <3>1
  <2>5. CASE Starts(p)
    BY <2>2, <2>5, StartFrame
  <2>6. CASE OpenRun(p)
    <3>1. proc'[p].succeeded = proc[p].succeeded /\ proc[p].pc = "open"
      BY <1>0, <2>6 DEF OpenRun, ProcState
    <3>2. QED BY <2>2, <3>1 DEF LedgerInv
  <2>7. CASE Ends(p)
    <3>1. proc' = [proc EXCEPT ![p] = Idle] /\ Idle.succeeded = Null
      BY <2>7, EndFrame DEF Idle
    <3>2. QED BY <1>0, <2>2, <3>1
  <2>8. CASE Continues(p) /\ ~Tally(p)
    <3>1. proc[p].pc # "close"
      BY <2>8 DEF Continues, InitItems, ListOutstanding, ConcludeOnePass, PoolDone
    <3>2. proc'[p].succeeded = Null
      BY <2>8, <3>1, ContinueFrame DEF LedgerInv
    <3>3. QED BY <2>2, <3>2
  <2>9. CASE Tally(p)
    <3>1. /\ proc'[p].run = proc[p].run /\ proc'[p].list = proc[p].list
      BY <2>9, ContinueFrame DEF Continues
    <3>2. proc'[p].pc = "close"
      <4>1. PICK s, v : proc' = [proc EXCEPT ![p].pc = "close", ![p].succeeded = s, ![p].verdict = v]
        BY <2>9 DEF Tally
      <4>2. QED BY <1>0, <4>1 DEF ProcState
    <3>3. QED BY <2>9, <3>1, <3>2, TallyCounts DEF Live
  <2>10. QED
    BY <2>1, <2>3, <2>4, <2>5, <2>6, <2>7, <2>8, <2>9, ProcNextKinds DEF Next, vars
<1>4. ASSUME NEW r \in RunId, runs'[r].succeeded # Null
      PROVE  Sound(r, runs'[r].succeeded, runs'[r].status, runs'[r].intended)
  <2>1. CASE runs'[r] = runs[r]
    BY <1>4, <2>1 DEF LedgerInv
  <2>2. ASSUME NEW p \in Process, OpenRun(p)
        PROVE  Sound(r, runs'[r].succeeded, runs'[r].status, runs'[r].intended)
    <3>1. PICK s \in RunId :
            runs' = [runs EXCEPT ![s].status = "RUNNING", ![s].intended = Cardinality(proc[p].list)]
      BY <2>2 DEF OpenRun
    <3>2. CASE r # s
      BY <1>0, <2>1, <3>1, <3>2
    <3>3. CASE r = s
      <4>1. runs'[r].succeeded = runs[r].succeeded /\ runs'[r].status = "RUNNING"
        BY <1>0, <3>1, <3>3 DEF Run
      <4>2. QED BY <1>4, <4>1 DEF LedgerInv
    <3>4. QED BY <3>2, <3>3
  <2>3. ASSUME NEW p \in Process, CloseRun(p)
        PROVE  Sound(r, runs'[r].succeeded, runs'[r].status, runs'[r].intended)
    <3>1. CASE /\ runs' = [runs EXCEPT ![proc[p].run] =
                             [status |-> proc[p].verdict, intended |-> Cardinality(proc[p].list),
                              succeeded |-> proc[p].succeeded]]
               /\ proc[p].run = r
      <4>1. /\ runs'[r].status = proc[p].verdict /\ runs'[r].succeeded = proc[p].succeeded
            /\ runs'[r].intended = Cardinality(proc[p].list)
        BY <1>0, <3>1
      <4>2. proc[p].pc = "close" /\ Live(p, r)
        BY <2>3, <3>1 DEF CloseRun, Live
      <4>3. QED BY <1>4, <4>1, <4>2 DEF LedgerInv
    <3>2. CASE runs'[r] = runs[r]
      BY <2>1, <3>2
    <3>3. runs' = runs \/ runs' = [runs EXCEPT ![proc[p].run] =
                             [status |-> proc[p].verdict, intended |-> Cardinality(proc[p].list),
                              succeeded |-> proc[p].succeeded]]
      BY <2>3 DEF CloseRun
    <3>4. QED BY <1>0, <3>1, <3>2, <3>3
  <2>4. ASSUME NEW p \in Process, ProcNext(p), ~OpenRun(p), ~CloseRun(p) PROVE runs' = runs
    BY <2>4 DEF ProcNext, StartSession, StartWithoutListing, StartOnePass, InitItems,
       OpenRunFails, ListOutstanding, Tally, ConcludeOnePass, Crash
  <2>5. ASSUME NEW a \in Agent, LaneNext(a) PROVE runs' = runs
    BY <2>5, LaneFrame
  <2>6. QED BY <2>1, <2>2, <2>3, <2>4, <2>5 DEF Next, vars
<1>5. ASSUME NEW r \in RunId, NEW s \in Nat, s <= Cardinality(Observed(r))
      PROVE  s <= Cardinality(Observed(r)')
  BY <1>0, <1>5
<1>6. /\ \A p \in Process : proc'[p].succeeded # Null => proc'[p].succeeded \in Nat
      /\ \A r \in RunId : runs'[r].succeeded # Null => runs'[r].succeeded \in Nat
  BY <1>0 DEF ProcState, Run
<1>7. QED BY <1>1, <1>2, <1>3, <1>4, <1>5, <1>6 DEF LedgerInv

LEMMA LedgerInvariant == Spec => [](TypeOK /\ LedgerInv)
<1>1. Init => LedgerInv
  <2> SUFFICES ASSUME Init PROVE LedgerInv
    OBVIOUS
  <2>1. QED BY DEF Init, LedgerInv, Idle, Free, Agent
<1>2. QED BY <1>1, LedgerStep, TypeCorrect, PTL DEF Spec

(* Only CloseRun, with the verdict of its session, closes a run.           *)
LEMMA ClosesByVerdict ==
    ASSUME TypeOK, [Next]_vars, NEW p \in Process, NEW status \in Terminal, Closes(p, status)
    PROVE  /\ Live(p, proc[p].run) /\ proc[p].run \in RunId
           /\ CloseRun(p) /\ proc[p].verdict = status
<1> DEFINE r == proc[p].run
<1>1. proc[p] \in ProcState /\ r \in RunId /\ proc[p].pc = "close" /\ runs[r] \in Run
  BY DEF Closes, TypeOK, ProcState
<1>2. proc'[p] # proc[p] /\ runs' # runs
  BY DEF Closes, Terminal
<1>3. ASSUME NEW a \in Agent, LaneNext(a) PROVE FALSE
  BY <1>2, <1>3, LaneFrame
<1>4. ASSUME NEW q \in Process, Starts(q) \/ Continues(q) PROVE FALSE
  BY <1>2, <1>4, StartFrame, ContinueFrame
<1>5. ASSUME NEW q \in Process, OpenRun(q) PROVE FALSE
  <2>1. proc[q].pc = "open" /\ q # p
    BY <1>1, <1>5 DEF OpenRun
  <2>2. proc'[p] = proc[p]
    BY <1>5, <2>1 DEF OpenRun, TypeOK
  <2>3. QED BY <1>2, <2>2
<1>6. ASSUME NEW q \in Process, Ends(q) PROVE CloseRun(p)
  <2>1. q = p
    BY <1>2, <1>6, EndFrame DEF TypeOK
  <2>2. ~OpenRunFails(q) /\ ~Crash(q)
    BY <1>2 DEF OpenRunFails, Crash
  <2>3. QED BY <1>6, <2>1, <2>2 DEF Ends
<1>7. CloseRun(p)
  BY <1>2, <1>3, <1>4, <1>5, <1>6, ProcNextKinds DEF Next, vars
<1>8. runs' = [runs EXCEPT ![r] = [status |-> proc[p].verdict, intended |-> Cardinality(proc[p].list),
                                   succeeded |-> proc[p].succeeded]]
  BY <1>2, <1>7 DEF CloseRun
<1>9. runs'[r].status = proc[p].verdict
  BY <1>1, <1>8 DEF TypeOK
<1>10. QED BY <1>1, <1>7, <1>9 DEF Closes, Live

(* A resilient session about to close its run has counted its successes.   *)
CountedInv == \A p \in Process :
    proc[p].pc = "close" /\ ~proc[p].onePass => proc[p].succeeded # Null

LEMMA TallyCounted == ASSUME TypeOK, NEW p \in Process, Tally(p) PROVE proc'[p].succeeded # Null
<1> DEFINE Counted(D) == Cardinality({d \in D : items[proc[p].run][d] = "COMPLETED"})
<1>0. PICK D \in SUBSET Domain :
        \E v : proc' = [proc EXCEPT ![p].pc = "close", ![p].succeeded = Counted(D), ![p].verdict = v]
  BY DEF Tally
<1> DEFINE n == Counted(D)
<1>1. PICK v : proc' = [proc EXCEPT ![p].pc = "close", ![p].succeeded = n, ![p].verdict = v]
  BY <1>0
<1>2. n \in Nat
  BY DomainCount
<1> HIDE DEF n
<1>3. proc'[p].succeeded = n
  <2>1. proc \in [Process -> ProcState] /\ proc[p] \in ProcState
    BY DEF TypeOK
  <2>2. proc' = [proc EXCEPT ![p] = [proc[p] EXCEPT !.pc = "close", !.succeeded = n, !.verdict = v]]
    BY <1>1, <2>1
  <2>3. [proc[p] EXCEPT !.pc = "close", !.succeeded = n, !.verdict = v].succeeded = n
    BY <2>1 DEF ProcState
  <2>4. QED BY <2>1, <2>2, <2>3
<1>4. QED BY <1>2, <1>3, CollectionAssumption

LEMMA CountedStep == TypeOK /\ CountedInv /\ [Next]_vars => CountedInv'
<1> SUFFICES ASSUME TypeOK, CountedInv, [Next]_vars PROVE CountedInv'
  OBVIOUS
<1>1. CASE UNCHANGED vars
  BY <1>1 DEF vars, CountedInv
<1>2. ASSUME NEW a \in Agent, LaneNext(a) PROVE CountedInv'
  BY <1>2, LaneFrame DEF CountedInv
<1>3. ASSUME NEW p \in Process, \A q \in Process : q # p => proc'[q] = proc[q],
             proc'[p].pc = "close" /\ ~proc'[p].onePass => proc'[p].succeeded # Null
      PROVE  CountedInv'
  BY <1>3 DEF CountedInv
<1>4. ASSUME NEW p \in Process, Starts(p) PROVE CountedInv'
  BY <1>3, <1>4, StartFrame
<1>5. ASSUME NEW p \in Process, OpenRun(p) PROVE CountedInv'
  <2>1. /\ \A q \in Process : q # p => proc'[q] = proc[q]
        /\ proc'[p].pc \in {"pool", "init"}
    BY <1>5 DEF OpenRun, TypeOK, ProcState
  <2>2. QED BY <1>3, <2>1
<1>6. ASSUME NEW p \in Process, Continues(p) PROVE CountedInv'
  <2>1. /\ \A q \in Process : q # p => proc'[q] = proc[q]
        /\ proc'[p].onePass = proc[p].onePass
    BY <1>6, ContinueFrame
  <2>2. CASE InitItems(p) \/ ListOutstanding(p)
    <3>1. proc'[p].pc # "close"
      BY <1>6, <2>2, ContinueFrame DEF InitItems, ListOutstanding
    <3>2. QED BY <1>3, <2>1, <3>1
  <2>3. CASE Tally(p)
    <3>1. proc'[p].succeeded # Null
      BY <2>3, TallyCounted
    <3>2. QED BY <1>3, <2>1, <3>1
  <2>4. CASE ConcludeOnePass(p)
    <3>1. proc[p].onePass
      BY <2>4 DEF ConcludeOnePass
    <3>2. QED BY <1>3, <2>1, <3>1
  <2>5. QED BY <1>6, <2>2, <2>3, <2>4 DEF Continues
<1>7. ASSUME NEW p \in Process, Ends(p) PROVE CountedInv'
  <2>1. proc' = [proc EXCEPT ![p] = Idle] /\ Idle.pc # "close"
    BY <1>7, EndFrame DEF Idle
  <2>2. QED BY <1>3, <2>1 DEF TypeOK
<1>8. QED BY <1>1, <1>2, <1>4, <1>5, <1>6, <1>7, ProcNextKinds DEF Next

LEMMA CountedInvariant == Spec => []CountedInv
<1>1. Init => CountedInv
  BY DEF Init, CountedInv, Idle
<1>2. QED BY <1>1, CountedStep, TypeCorrect, PTL DEF Spec

(* run-lifecycle.js: a run that a session with a ledger closes as          *)
(* COMPLETED has an Observation of every domain of the session's list,     *)
(* whatever was shared, lost or truncated, unless it has one of a domain   *)
(* the list does not name.                                                 *)
THEOREM Truthful == Spec => TerminalStateIsTruthful
<1> DEFINE Covered(p) == /\ Closes(p, "COMPLETED") /\ ~proc[p].onePass
                         /\ Observed(proc[p].run) \subseteq proc[p].list
                         => proc[p].list \subseteq Observed(proc[p].run)
<1>1. ASSUME TypeOK, LedgerInv, CountedInv, [Next]_vars, NEW p \in Process PROVE Covered(p)
  <2> DEFINE r == proc[p].run
             list == proc[p].list
  <2> SUFFICES ASSUME Closes(p, "COMPLETED"), ~proc[p].onePass, Observed(r) \subseteq list
               PROVE  list \subseteq Observed(r)
    OBVIOUS
  <2>1. Live(p, r) /\ r \in RunId /\ proc[p].pc = "close" /\ proc[p].verdict = "COMPLETED"
    BY <1>1, ClosesByVerdict DEF Closes, Terminal
  <2>2. proc[p] \in ProcState /\ proc[p].succeeded # Null
    BY <1>1, <2>1 DEF TypeOK, CountedInv
  <2>3. proc[p].succeeded \in Nat /\ list \in SUBSET Domain
    BY <2>2 DEF ProcState
  <2>4. IsFiniteSet(list) /\ Cardinality(list) \in Nat /\ Cardinality(Observed(r)) \in Nat
    BY <2>3, ObservedCount, CollectionAssumption, FS_Subset, FS_CardinalityType
  <2>5. Cardinality(list) <= proc[p].succeeded /\ proc[p].succeeded <= Cardinality(Observed(r))
    BY <1>1, <2>1, <2>2 DEF LedgerInv
  <2>6. Observed(r) = list
    <3> HIDE DEF r, list
    <3>1. Cardinality(list) <= Cardinality(Observed(r))
      BY <2>3, <2>4, <2>5
    <3>2. QED BY <2>4, <3>1, FS_Subset
  <2>7. QED BY <2>6
<1>2. TypeOK /\ LedgerInv /\ CountedInv /\ [Next]_vars => [\A p \in Process : Covered(p)]_vars
  BY <1>1
<1>3. QED BY <1>2, LedgerInvariant, CountedInvariant, PTL DEF Spec, TerminalStateIsTruthful

-----------------------------------------------------------------------------
(* No more Events than Observations.                                       *)

(* The lanes that have inserted an Observation of d in r and not yet come  *)
(* to its Event: each has an Observation of its own.                       *)
Unannounced(r, d) ==
    {a \in Agent : lane[a].pc \in {"complete", "emit"} /\ Live(a[1], r) /\ lane[a].domain = d}

EventInv ==
    \A r \in RunId, d \in Domain : events[r][d] + Cardinality(Unannounced(r, d)) <= evidence[r][d]

LEMMA UnannouncedCount ==
    ASSUME NEW r, NEW d
    PROVE  IsFiniteSet(Unannounced(r, d)) /\ Cardinality(Unannounced(r, d)) \in Nat
<1>1. IsFiniteSet(Agent)
  BY CollectionAssumption, FS_Product DEF Agent
<1>2. Unannounced(r, d) \in SUBSET Agent
  BY DEF Unannounced
<1>3. QED BY <1>1, <1>2, FS_Subset, FS_CardinalityType

LEMMA EventInit == Init => EventInv
<1> SUFFICES ASSUME Init, NEW r \in RunId, NEW d \in Domain
             PROVE  events[r][d] + Cardinality(Unannounced(r, d)) <= evidence[r][d]
  BY DEF EventInv
<1>1. Unannounced(r, d) = {}
  BY DEF Init, Unannounced, Free
<1>2. QED BY <1>1, FS_EmptySet DEF Init

LEMMA EventStep == TypeOK /\ EventInv /\ [Next]_vars => EventInv'
<1> SUFFICES ASSUME TypeOK, EventInv, [Next]_vars, NEW r \in RunId, NEW d \in Domain
             PROVE  (events[r][d] + Cardinality(Unannounced(r, d)) <= evidence[r][d])'
  BY DEF EventInv
<1> DEFINE U  == Unannounced(r, d)
           U1 == Unannounced(r, d)'
           Goal == events'[r][d] + Cardinality(U1) <= evidence'[r][d]
<1>0. /\ events[r][d] \in Nat /\ evidence[r][d] \in Nat /\ evidence'[r][d] \in Nat
      /\ events[r][d] + Cardinality(U) <= evidence[r][d]
      /\ IsFiniteSet(U) /\ Cardinality(U) \in Nat
      /\ \A a \in Agent : a[1] \in Process
  BY TypeStep, UnannouncedCount DEF TypeOK, EventInv, Agent
<1>1. ASSUME U1 \subseteq U, events'[r][d] = events[r][d], evidence'[r][d] >= evidence[r][d]
      PROVE  Goal
  <2>1. Cardinality(U1) \in Nat /\ Cardinality(U1) <= Cardinality(U)
    BY <1>0, <1>1, FS_Subset, FS_CardinalityType
  <2>2. QED BY <1>0, <1>1, <2>1
<1>2. ASSUME NEW a \in Agent, LaneNext(a) PROVE Goal
  <2> DEFINE In(b)  == lane[b].pc \in {"complete", "emit"} /\ Live(b[1], r) /\ lane[b].domain = d
             In1(b) == lane'[b].pc \in {"complete", "emit"} /\ Live(b[1], r)' /\ lane'[b].domain = d
  <2>1. /\ \A b \in Agent : b # a => (In1(b) <=> In(b))
        /\ Live(a[1], r)' <=> Live(a[1], r)
    BY <1>0, <1>2, LaneFrame DEF Live
  <2>2. U = {b \in Agent : In(b)} /\ U1 = {b \in Agent : In1(b)}
    BY DEF Unannounced
  <2>3. ASSUME NEW pc, Goto(a, pc) PROVE lane'[a].domain = lane[a].domain /\ lane'[a].pc = pc
    BY <2>3 DEF Goto, TypeOK, LaneState
  <2>4. ASSUME Release(a) PROVE ~In1(a)
    BY <2>4 DEF Release, TypeOK, Free
  <2>5. evidence'[r][d] >= evidence[r][d]
    BY EvidenceGrows
  <2>6. ASSUME In1(a) => In(a), events'[r][d] = events[r][d] PROVE Goal
    BY <1>1, <2>1, <2>2, <2>5, <2>6
  <2>7. CASE Insert(a)
    <3>1. lane[a].pc = "collect" /\ events' = events /\ lane[a].domain \in Domain
      BY <2>7, LaneAtWork DEF Insert
    <3>2. CASE In1(a)
      <4>1. lane[a].domain = d /\ proc[a[1]].run = r
        BY <2>1, <2>3, <2>7, <3>2 DEF Insert, Live
      <4>2. evidence'[r][d] = evidence[r][d] + 1
        BY <2>7, <4>1 DEF Insert, TypeOK
      <4>3. U1 = U \cup {a} /\ a \notin U
        BY <2>1, <2>2, <3>1, <3>2
      <4>4. Cardinality(U1) = Cardinality(U) + 1
        BY <1>0, <4>3, FS_AddElement
      <4> HIDE DEF U, U1
      <4>5. QED BY <1>0, <3>1, <4>2, <4>4
    <3>3. QED BY <2>6, <3>1, <3>2
  <2>8. CASE Emit(a)
    <3>1. lane[a].pc = "emit" /\ ~In1(a) /\ lane[a].domain \in Domain
      BY <2>4, <2>8, LaneAtWork DEF Emit
    <3>2. CASE events'[r][d] = events[r][d]
      BY <2>6, <3>1, <3>2
    <3>3. CASE events' = [events EXCEPT ![proc[a[1]].run][lane[a].domain] = @ + 1]
      <4>1. CASE proc[a[1]].run = r /\ lane[a].domain = d
        <5>1. events'[r][d] = events[r][d] + 1
          BY <3>3, <4>1 DEF TypeOK
        <5>2. U1 = U \ {a} /\ a \in U
          BY <2>1, <2>2, <3>1, <4>1 DEF Live
        <5>3. Cardinality(U1) = Cardinality(U) - 1
          BY <1>0, <5>2, FS_RemoveElement
        <5>4. evidence' = evidence
          BY <2>8 DEF Emit
        <5> HIDE DEF U, U1
        <5>5. QED BY <1>0, <5>1, <5>3, <5>4
      <4>2. CASE ~(proc[a[1]].run = r /\ lane[a].domain = d)
        <5>1. events'[r][d] = events[r][d]
          BY <3>3, <4>2 DEF TypeOK
        <5>2. QED BY <3>2, <5>1
      <4>3. QED BY <4>1, <4>2
    <3>4. QED BY <2>8, <3>2, <3>3 DEF Emit
  <2>9. CASE MarkCompleted(a)
    <3>1. /\ lane[a].pc = "complete" /\ lane'[a].domain = lane[a].domain /\ events' = events
      BY <2>3, <2>9 DEF MarkCompleted
    <3>2. In1(a) => In(a)
      BY <2>1, <3>1
    <3>3. QED BY <2>6, <3>1, <3>2
  <2>10. CASE Adopt(a) \/ FailInsert(a)
              \/ \E class \in {"RETRYABLE", "PERMANENT", "UNEXPECTED"} : CollectFails(a, class)
    <3>1. Release(a) /\ events' = events
      BY <2>10 DEF Adopt, FailInsert, CollectFails
    <3>2. QED BY <2>4, <2>6, <3>1
  <2>11. CASE GuardPasses(a) \/ GuardFails(a) \/ InsertFails(a)
    <3>1. (Release(a) \/ Goto(a, "collect") \/ Goto(a, "fail")) /\ events' = events
      BY <2>11 DEF GuardPasses, GuardFails, InsertFails
    <3>2. ~In1(a)
      BY <2>3, <2>4, <3>1
    <3>3. QED BY <2>6, <3>1, <3>2
  <2>12. CASE Retry(a)
    <3>1. lane'[a].pc = "collect" /\ events' = events
      BY <2>12 DEF Retry, TypeOK, LaneState
    <3>2. QED BY <2>6, <3>1
  <2>13. ASSUME NEW e \in Domain, TakeDomain(a, e) \/ CancelSession(a, e) PROVE Goal
    <3>1. events' = events /\ (lane' = lane \/ lane'[a].pc \in {"collect", "guard"})
      <4>1. CASE CancelSession(a, e)
        BY <4>1 DEF CancelSession
      <4>2. CASE TakeDomain(a, e)
        BY <4>2 DEF TakeDomain, TypeOK, Free
      <4>3. QED BY <2>13, <4>1, <4>2
    <3>2. In1(a) => In(a)
      BY <2>1, <3>1
    <3>3. QED BY <2>6, <3>1, <3>2
  <2>14. QED
    BY <1>2, <2>7, <2>8, <2>9, <2>10, <2>11, <2>12, <2>13 DEF LaneNext
<1>3. ASSUME NEW p \in Process, ProcNext(p) PROVE Goal
  <2>1. evidence' = evidence /\ events' = events
    <3>1. CASE OpenRun(p)
      BY <3>1 DEF OpenRun
    <3>2. QED BY <1>3, <3>1, ProcNextKinds, StartFrame, ContinueFrame, EndFrame
  <2>2. \A a \in Agent : a[1] = p => lane'[a].pc = "free"
    <3>1. CASE OpenRun(p)
      <4>1. lane' = lane /\ proc[p].pc = "open"
        BY <3>1 DEF OpenRun
      <4>2. QED BY <4>1, LanesAtRest
    <3>2. CASE Starts(p)
      BY <3>2, StartFrame, LanesAtRest
    <3>3. QED BY <1>3, <3>1, <3>2, ProcNextKinds, ContinueFrame, EndFrame
  <2>3. \A a \in Agent : a[1] # p => lane'[a] = lane[a] /\ proc'[a[1]] = proc[a[1]]
    <3>1. CASE OpenRun(p)
      BY <1>0, <3>1 DEF OpenRun, TypeOK
    <3>2. CASE Ends(p)
      BY <1>0, <3>2, EndFrame DEF TypeOK
    <3>3. QED BY <1>0, <1>3, <3>1, <3>2, ProcNextKinds, StartFrame, ContinueFrame
  <2>4. U1 \subseteq U
    BY <2>2, <2>3 DEF Unannounced, Live
  <2>5. QED BY <1>0, <1>1, <2>1, <2>4
<1>4. CASE UNCHANGED vars
  <2>1. U1 \subseteq U /\ evidence' = evidence /\ events' = events
    BY <1>4 DEF vars, Unannounced, Live
  <2>2. QED BY <1>0, <1>1, <2>1
<1>5. QED BY <1>2, <1>3, <1>4 DEF Next

(* resilient-collection-session.js:232: "a resumed run never double-emits  *)
(* an Event for an Observation it did not just create".                    *)
THEOREM EventsBounded == Spec => []EventsFollowObservations
<1>1. TypeOK /\ EventInv => EventsFollowObservations
  <2> SUFFICES ASSUME TypeOK, EventInv, NEW r \in RunId, NEW d \in Domain
               PROVE  events[r][d] <= evidence[r][d]
    BY DEF EventsFollowObservations
  <2>1. events[r][d] \in Nat /\ evidence[r][d] \in Nat
    BY DEF TypeOK
  <2>2. QED BY <2>1, UnannouncedCount DEF EventInv
<1>2. QED BY <1>1, EventInit, EventStep, TypeCorrect, PTL DEF Spec

-----------------------------------------------------------------------------
(* The sessions implement CollectionProgramme.                             *)

ProgrammeInv == TypeOK /\ EvidenceInv /\ LedgerInv /\ EventInv

(* A step that leaves the tables alone.                                    *)
Unseen == UNCHANGED <<runs, evidence, events, shared, blind>>

(* A lane at work is on a run that is open, or that was shared.            *)
LEMMA OnWritableRun ==
    ASSUME ProgrammeInv, NEW a \in Agent, lane[a].pc # "free"
    PROVE  /\ proc[a[1]].run \in RunId /\ Live(a[1], proc[a[1]].run)
           /\ lane[a].domain \in Domain /\ Programme!Writable(proc[a[1]].run)
<1>1. TypeOK /\ LiveRuns
  BY DEF ProgrammeInv, EvidenceInv
<1>2. /\ a[1] \in Process /\ proc[a[1]].run \in RunId /\ lane[a].domain \in Domain
  BY <1>1, LaneAtWork
<1>3. Live(a[1], proc[a[1]].run)
  BY DEF Live
<1>4. runs[proc[a[1]].run].status = "RUNNING" \/ proc[a[1]].run \in shared
  BY <1>1, <1>2, <1>3 DEF LiveRuns
<1>5. QED BY <1>2, <1>3, <1>4 DEF Programme!Writable

(* An insert, whatever it answers, is an Observation of the programme.     *)
LEMMA InsertRefines ==
    ASSUME ProgrammeInv, NEW a \in Agent, Insert(a) \/ InsertFails(a)
    PROVE  Programme!Next \/ Unseen
<1> DEFINE r == proc[a[1]].run
           d == lane[a].domain
<1>1. lane[a].pc = "collect" /\ UNCHANGED <<runs, events, shared, blind>>
  BY DEF Insert, InsertFails
<1>2. r \in RunId /\ Live(a[1], r) /\ d \in Domain /\ Programme!Writable(r)
  BY <1>1, OnWritableRun
<1>3. r \notin shared \cup blind => evidence[r][d] = 0
  BY <1>1, <1>2 DEF ProgrammeInv, EvidenceInv, Unwritten, Clean
<1>4. evidence' = evidence \/ evidence' = [evidence EXCEPT ![r][d] = @ + 1]
  BY DEF Insert, InsertFails
<1> HIDE DEF r, d
<1>5. CASE evidence' = evidence
  BY <1>1, <1>5 DEF Unseen
<1>6. CASE evidence' = [evidence EXCEPT ![r][d] = @ + 1]
  <2>1. Programme!Observe(r, d)
    BY <1>1, <1>2, <1>3, <1>6 DEF Programme!Observe
  <2>2. QED BY <1>2, <2>1 DEF Programme!Next
<1>7. QED BY <1>4, <1>5, <1>6

(* An Event that is recorded announces an Observation that had none yet:   *)
(* the one the lane has just made.                                         *)
LEMMA EmitRefines ==
    ASSUME ProgrammeInv, NEW a \in Agent, Emit(a)
    PROVE  Programme!Next \/ Unseen
<1> DEFINE r == proc[a[1]].run
           d == lane[a].domain
<1>1. lane[a].pc = "emit" /\ UNCHANGED <<runs, evidence, shared, blind>>
  BY DEF Emit
<1>2. r \in RunId /\ Live(a[1], r) /\ d \in Domain /\ Programme!Writable(r)
  BY <1>1, OnWritableRun
<1>3. events[r][d] < evidence[r][d]
  <2>1. a \in Unannounced(r, d)
    BY <1>1, <1>2 DEF Unannounced
  <2>2. IsFiniteSet(Unannounced(r, d)) /\ Cardinality(Unannounced(r, d)) \in Nat
    BY UnannouncedCount
  <2>3. Cardinality(Unannounced(r, d)) # 0
    BY <2>1, <2>2, FS_EmptySet
  <2>4. events[r][d] \in Nat /\ evidence[r][d] \in Nat
    BY <1>2 DEF ProgrammeInv, TypeOK
  <2>5. events[r][d] + Cardinality(Unannounced(r, d)) <= evidence[r][d]
    BY <1>2 DEF ProgrammeInv, EventInv
  <2> HIDE DEF r, d
  <2>6. QED BY <2>2, <2>3, <2>4, <2>5
<1>4. events' = events \/ events' = [events EXCEPT ![r][d] = @ + 1]
  BY DEF Emit
<1> HIDE DEF r, d
<1>5. CASE events' = events
  BY <1>1, <1>5 DEF Unseen
<1>6. CASE events' = [events EXCEPT ![r][d] = @ + 1]
  <2>1. Programme!Announce(r, d)
    BY <1>1, <1>2, <1>3, <1>6 DEF Programme!Announce
  <2>2. QED BY <1>2, <2>1 DEF Programme!Next
<1>7. QED BY <1>4, <1>5, <1>6

(* A guard that cannot read blinds its run; other steps of a lane are not  *)
(* seen.                                                                   *)
LEMMA LaneRefines ==
    ASSUME ProgrammeInv, NEW a \in Agent, LaneNext(a)
    PROVE  Programme!Next \/ Unseen
<1>1. CASE GuardFails(a)
  <2> DEFINE r == proc[a[1]].run
  <2>1. lane[a].pc = "guard" /\ blind' = blind \cup {r} /\ UNCHANGED <<runs, evidence, events, shared>>
    BY <1>1 DEF GuardFails
  <2>2. r \in RunId /\ Programme!Writable(r)
    BY <2>1, OnWritableRun
  <2> HIDE DEF r
  <2>3. Programme!Blind(r)
    BY <2>1, <2>2 DEF Programme!Blind
  <2>4. QED BY <2>2, <2>3 DEF Programme!Next
<1>2. CASE \E d \in Domain : TakeDomain(a, d) \/ CancelSession(a, d)
  BY <1>2 DEF TakeDomain, CancelSession, Unseen
<1>3. CASE Adopt(a) \/ GuardPasses(a) \/ Retry(a)
  BY <1>3 DEF Adopt, GuardPasses, Retry, Unseen
<1>4. CASE \E class \in {"RETRYABLE", "PERMANENT", "UNEXPECTED"} : CollectFails(a, class)
  BY <1>4 DEF CollectFails, Unseen
<1>5. CASE FailInsert(a) \/ MarkCompleted(a)
  BY <1>5 DEF FailInsert, MarkCompleted, Unseen
<1>6. QED BY <1>1, <1>2, <1>3, <1>4, <1>5, InsertRefines, EmitRefines DEF LaneNext

LEMMA StartRefines ==
    ASSUME ProgrammeInv, NEW p \in Process, Starts(p)
    PROVE  Programme!Next \/ Unseen
<1>1. PICK L \in Lists : StartSession(p, L) \/ StartWithoutListing(p, L) \/ StartOnePass(p, L)
  BY DEF Starts
<1>2. CASE StartWithoutListing(p, L) \/ StartOnePass(p, L)
  BY <1>2 DEF StartWithoutListing, StartOnePass, Unseen
<1>3. CASE StartSession(p, L)
  <2>1. UNCHANGED <<runs, evidence, events, blind>>
    BY <1>3 DEF StartSession
  <2>2. CASE shared' = shared
    BY <2>1, <2>2 DEF Unseen
  <2>3. ASSUME NEW r \in RunId, Resumable(r), shared' = shared \cup {r}
        PROVE  Programme!Next
    <3>1. Programme!Share(r)
      BY <2>1, <2>3 DEF Programme!Share, Resumable
    <3>2. QED BY <3>1 DEF Programme!Next
  <2>4. \/ shared' = shared
        \/ \E r \in RunId : Resumable(r) /\ shared' = shared \cup {r}
    <3>1. CASE UNCHANGED shared
      BY <3>1
    <3>2. CASE \E r \in RunId :
                 /\ Resumable(r)
                 /\ shared' = IF \E q \in Process : Live(q, r) THEN shared \cup {r} ELSE shared
      BY <3>2
    <3>3. QED BY <1>3, <3>1, <3>2 DEF StartSession
  <2>5. QED BY <2>2, <2>3, <2>4
<1>4. QED BY <1>1, <1>2, <1>3

(* The numbers the programme counts with are the session's.                *)
LEMMA SameCount == ASSUME NEW S PROVE Programme!Cardinality(S) = Cardinality(S)
  BY DEF Programme!Cardinality, Cardinality

(* The number of domains of a list, or of some of them, is such a number.  *)
LEMMA CountOfDomains == ASSUME NEW S \in SUBSET Domain PROVE Cardinality(S) \in Programme!Count
<1>1. Cardinality(S) \in Nat /\ Cardinality(Domain) \in Nat /\ Cardinality(S) <= Cardinality(Domain)
  BY CollectionAssumption, FS_Subset, FS_CardinalityType
<1>2. QED BY <1>1, SameCount DEF Programme!Count

LEMMA OpenRefines ==
    ASSUME ProgrammeInv, NEW p \in Process, OpenRun(p)
    PROVE  Programme!Next
<1> DEFINE n == Cardinality(proc[p].list)
<1>1. n \in Programme!Count
  <2>1. proc[p].list \in SUBSET Domain
    BY DEF ProgrammeInv, TypeOK, ProcState
  <2>2. QED BY <2>1, CountOfDomains
<1>2. PICK r \in RunId :
        /\ runs[r].status = "none"
        /\ runs' = [runs EXCEPT ![r].status = "RUNNING", ![r].intended = n]
  BY DEF OpenRun
<1>3. UNCHANGED <<evidence, events, shared, blind>>
  BY DEF OpenRun
<1> HIDE DEF n
<1>4. Programme!Open(r)
  BY <1>1, <1>2, <1>3 DEF Programme!Open
<1>5. QED BY <1>4 DEF Programme!Next

(* A close that finds its run RUNNING gives an account the run's           *)
(* Observations bear out; any other changes nothing.                       *)
LEMMA CloseRefines ==
    ASSUME ProgrammeInv, NEW p \in Process, CloseRun(p)
    PROVE  Programme!Next \/ Unseen
<1> DEFINE r == proc[p].run
           account == [status |-> proc[p].verdict, intended |-> Cardinality(proc[p].list),
                       succeeded |-> proc[p].succeeded]
<1>0. TypeOK /\ LedgerInv /\ proc[p] \in ProcState /\ proc[p].pc = "close"
  BY DEF ProgrammeInv, TypeOK, CloseRun
<1>1. r \in RunId /\ Live(p, r) /\ proc[p].verdict \in Terminal /\ proc[p].list \in SUBSET Domain
  BY <1>0 DEF TypeOK, ProcState, Live
<1>2. UNCHANGED <<evidence, events, shared, blind>>
  BY DEF CloseRun
<1>3. CASE runs' = runs
  BY <1>2, <1>3 DEF Unseen
<1>4. CASE runs[r].status = "RUNNING" /\ runs' = [runs EXCEPT ![r] = account]
  <2>1. proc[p].succeeded # Null =>
          /\ proc[p].succeeded <= Cardinality(Observed(r))
          /\ proc[p].verdict = "COMPLETED" => Cardinality(proc[p].list) <= proc[p].succeeded
    BY <1>0, <1>1 DEF LedgerInv
  <2>2. Observed(r) \in SUBSET Domain /\ Programme!Covered(r) = Observed(r)
    BY DEF Observed, Programme!Covered
  <2>3. Cardinality(Observed(r)) \in Programme!Count /\ Cardinality(proc[p].list) \in Programme!Count
    BY <1>1, <2>2, CountOfDomains
  <2>4. proc[p].succeeded \in Programme!Count \cup {Null}
    <3>1. proc[p].succeeded \in Nat \cup {Null}
      BY <1>0 DEF ProcState
    <3>2. Cardinality(Domain) \in Nat
      BY CollectionAssumption, FS_CardinalityType
    <3> HIDE DEF r
    <3>3. QED BY <2>1, <2>3, <3>1, <3>2, SameCount DEF Programme!Count
  <2>5. account \in Programme!Account
    BY <1>1, <2>3, <2>4 DEF Programme!Account
  <2>6. Programme!BorneOut(account, r)
    BY <2>1, <2>2, SameCount DEF Programme!BorneOut
  <2> HIDE DEF r, account
  <2>7. runs'[r] = account /\ runs' = [runs EXCEPT ![r] = runs'[r]]
    BY <1>0, <1>1, <1>4 DEF TypeOK
  <2>8. Programme!Close(r)
    BY <1>2, <1>4, <2>5, <2>6, <2>7 DEF Programme!Close
  <2>9. QED BY <1>1, <2>8 DEF Programme!Next
<1>5. \/ runs' = runs
      \/ runs[r].status = "RUNNING" /\ runs' = [runs EXCEPT ![r] = account]
  BY DEF CloseRun
<1>6. QED BY <1>3, <1>4, <1>5

LEMMA ProgrammeStep == ProgrammeInv /\ [Next]_vars => [Programme!Next]_(Programme!vars)
<1> SUFFICES ASSUME ProgrammeInv, [Next]_vars PROVE Programme!Next \/ Unseen
  BY DEF Unseen, Programme!vars
<1>1. CASE UNCHANGED vars
  BY <1>1 DEF vars, Unseen
<1>2. ASSUME NEW p \in Process, ProcNext(p) PROVE Programme!Next \/ Unseen
  <2>1. CASE Continues(p)
    BY <2>1, ContinueFrame DEF Unseen, ProgrammeInv
  <2>2. CASE OpenRunFails(p) \/ Crash(p)
    BY <2>2 DEF OpenRunFails, Crash, Unseen
  <2>3. CASE Ends(p)
    BY <2>2, <2>3, CloseRefines DEF Ends
  <2>4. QED BY <1>2, <2>1, <2>3, ProcNextKinds, StartRefines, OpenRefines
<1>3. QED BY <1>1, <1>2, LaneRefines DEF Next

(* registry.js and resilient-collection-session.js as one promise: through *)
(* its tables the whole of the overlapping, dying and resuming sessions is *)
(* a programme of runs that are opened, filled and closed once each.       *)
THEOREM ProgrammeKept == Spec => KeepsProgramme
<1>1. Init => Programme!Init
  BY DEF Init, Programme!Init
<1>2. Spec => []ProgrammeInv
  BY EvidenceInvariant, LedgerInvariant, EventInit, EventStep, PTL DEF Spec, ProgrammeInv
<1>3. QED BY <1>1, <1>2, ProgrammeStep, PTL DEF Spec, KeepsProgramme, Programme!Spec
=============================================================================

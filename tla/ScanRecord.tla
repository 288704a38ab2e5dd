----------------------------- MODULE ScanRecord -----------------------------
(***************************************************************************)
(* What the tables promise of on-demand scans, with no requests, no guards *)
(* and no pipeline: sessions are created running, in the order of time,    *)
(* and closed at most once; while one is running, or after it has failed,  *)
(* evidence and then scores are added to it; a completed session gives an  *)
(* exact account of them and gets no more.  Two kinds of bad luck are part *)
(* of the promise: a session that is lost, which stays running for ever,   *)
(* and one that is masked, which takes the pair for observed.              *)
(***************************************************************************)
EXTENDS Integers, FiniteSets

CONSTANTS SessionId, Domain, Signal, Paired, Null

VARIABLES
    sessions,   \* status, domain, time of creation and account of each session
    evidence,   \* signals with an evidence row, per session
    quality,    \* signals with a quality row, per session
    masked,     \* sessions that miss a row of the pair and do not know it
    lost        \* sessions nobody will close
vars == <<sessions, evidence, quality, masked, lost>>

Blank == [status |-> "none", domain |-> Null, created |-> 0,
          observed |-> 0, scored |-> 0, failed |-> 0]
Opened == [status: {"running"}, domain: Domain, created: Nat,
           observed: {0}, scored: {0}, failed: {0}]

Init ==
    /\ sessions = [s \in SessionId |-> Blank]
    /\ evidence = [s \in SessionId |-> {}]
    /\ quality = [s \in SessionId |-> {}]
    /\ masked = {} /\ lost = {}

Existing == {s \in SessionId : sessions[s].status # "none"}
Running  == {s \in SessionId : sessions[s].status = "running"}
Open(s)  == sessions[s].status \in {"running", "failed"}

(* One after the other, in the order of time, and perhaps lost at once.    *)
Create(s) ==
    /\ s \notin Existing /\ \A t \in SessionId : t < s => t \in Existing
    /\ sessions'[s] \in Opened /\ \A t \in Existing : sessions[t].created <= sessions'[s].created
    /\ sessions' = [sessions EXCEPT ![s] = sessions'[s]]
    /\ lost' \in {lost, lost \cup {s}}
    /\ UNCHANGED <<evidence, quality, masked>>

Gather(s) ==
    /\ Open(s)
    /\ evidence[s] \subseteq evidence'[s] /\ evidence'[s] \subseteq Signal
    /\ evidence' = [evidence EXCEPT ![s] = evidence'[s]]
    /\ masked' = masked \/ (masked' = masked \cup {s} /\ ~(Paired \subseteq evidence'[s]))
    /\ UNCHANGED <<sessions, quality, lost>>

Score(s, j) ==
    /\ Open(s) /\ j \in evidence[s]
    /\ quality' = [quality EXCEPT ![s] = @ \cup {j}]
    /\ UNCHANGED <<sessions, evidence, masked, lost>>

(* The account: every signal observed or failed, as the rows have it; a    *)
(* masked session claims the pair as well.                                 *)
Claimed(s) == IF s \in masked THEN evidence[s] \cup Paired ELSE evidence[s]
Complete(s) ==
    /\ s \in Running \ lost
    /\ sessions' = [sessions EXCEPT ![s].status = "completed",
                      ![s].observed = Cardinality(Claimed(s)),
                      ![s].scored = Cardinality(quality[s]),
                      ![s].failed = Cardinality(Signal \ Claimed(s))]
    /\ UNCHANGED <<evidence, quality, masked, lost>>

Fail(s) ==
    /\ s \in Running \ lost
    /\ sessions' = [sessions EXCEPT ![s].status = "failed"]
    /\ UNCHANGED <<evidence, quality, masked, lost>>

Lose ==
    /\ \E gone \in SUBSET Running : lost' = lost \cup gone
    /\ UNCHANGED <<sessions, evidence, quality, masked>>

Next ==
    \/ \E s \in SessionId :
         \/ Create(s) \/ Gather(s) \/ Complete(s) \/ Fail(s)
         \/ \E j \in Signal : Score(s, j)
    \/ Lose

Spec == Init /\ [][Next]_vars
=============================================================================

------------------------- MODULE CollectionProgramme -------------------------
(***************************************************************************)
(* What the runs of a collection programme promise, with no sessions, no   *)
(* ledger and no retries: a run is opened once, gathers Observations and   *)
(* their Events while it is RUNNING, and is closed once, with an account   *)
(* of itself that its Observations bear out.  The account is one of        *)
(* numbers: which domains were to be covered is not part of it.  Two kinds *)
(* of bad luck are part of the promise: a run that two live sessions came  *)
(* to share, and one whose stored Observations could not be read.          *)
(***************************************************************************)
EXTENDS Integers, FiniteSets

CONSTANTS RunId, Domain, Terminal, Null

VARIABLES
    runs,      \* the register: status and summary of each run
    observed,  \* Observations per run and domain
    announced, \* Events per run and domain
    shared, blind
vars == <<runs, observed, announced, shared, blind>>

Count   == 0..Cardinality(Domain)
Covered(r) == {d \in Domain : observed[r][d] > 0}
Writable(r) == runs[r].status = "RUNNING" \/ r \in shared

Init ==
    /\ runs = [r \in RunId |-> [status |-> "none", intended |-> 0, succeeded |-> Null]]
    /\ observed = [r \in RunId |-> [d \in Domain |-> 0]]
    /\ announced = [r \in RunId |-> [d \in Domain |-> 0]]
    /\ shared = {} /\ blind = {}

Open(r) ==
    /\ runs[r].status = "none"
    /\ \E n \in Count : runs' = [runs EXCEPT ![r].status = "RUNNING", ![r].intended = n]
    /\ UNCHANGED <<observed, announced, shared, blind>>

(* A domain is observed once in a run, but for the two kinds of bad luck.  *)
Observe(r, d) ==
    /\ Writable(r)
    /\ r \notin shared \cup blind => observed[r][d] = 0
    /\ observed' = [observed EXCEPT ![r][d] = @ + 1]
    /\ UNCHANGED <<runs, announced, shared, blind>>

(* Each Event is of an Observation that has not had one.                   *)
Announce(r, d) ==
    /\ Writable(r)
    /\ announced[r][d] < observed[r][d]
    /\ announced' = [announced EXCEPT ![r][d] = @ + 1]
    /\ UNCHANGED <<runs, observed, shared, blind>>

(* The account: no more successes than domains observed, and COMPLETED     *)
(* only if they are as many as the run was to cover (not: the ones it was  *)
(* to cover).  A session that keeps no count of successes gives none, and  *)
(* calls its run COMPLETED whatever it observed.                           *)
Account == [status: Terminal, intended: Count, succeeded: Count \cup {Null}]
BorneOut(account, r) ==
    account.succeeded # Null =>
        /\ account.succeeded <= Cardinality(Covered(r))
        /\ account.status = "COMPLETED" => account.intended <= account.succeeded

Close(r) ==
    /\ runs[r].status = "RUNNING"
    /\ runs'[r] \in Account /\ BorneOut(runs'[r], r)
    /\ runs' = [runs EXCEPT ![r] = runs'[r]]
    /\ UNCHANGED <<observed, announced, shared, blind>>

(* Only a run still open comes to be shared, or cannot be read.            *)
Share(r) ==
    /\ runs[r].status = "RUNNING"
    /\ shared' = shared \cup {r}
    /\ UNCHANGED <<runs, observed, announced, blind>>

Blind(r) ==
    /\ Writable(r)
    /\ blind' = blind \cup {r}
    /\ UNCHANGED <<runs, observed, announced, shared>>

Next == \E r \in RunId :
    \/ Open(r) \/ Close(r)
    \/ \E d \in Domain : Observe(r, d) \/ Announce(r, d)
    \/ Share(r) \/ Blind(r)

Spec == Init /\ [][Next]_vars
=============================================================================

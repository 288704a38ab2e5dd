-------------------------- MODULE SerialObservation --------------------------
(***************************************************************************)
(* What the claim protocol of observation_states promises, with no         *)
(* timestamps and no reads: at any moment a row has at most one observer,  *)
(* each of them either records one outcome or gives the row up, and an     *)
(* outcome is applied to the row's record in one piece.                    *)
(***************************************************************************)
EXTENDS Naturals

CONSTANTS Row, Observer, NoOne, Instant

VARIABLES
    holder,    \* who is observing each row
    attempts,  \* failed observations of each row since its last success
    observed   \* when each row was last observed successfully
vars == <<holder, attempts, observed>>

Init ==
    /\ holder = [r \in Row |-> NoOne]
    /\ attempts = [r \in Row |-> 0]
    /\ observed = [r \in Row |-> 0]

Acquire(o, r) ==
    /\ holder[r] = NoOne
    /\ holder' = [holder EXCEPT ![r] = o]
    /\ UNCHANGED <<attempts, observed>>

(* A crash or a failed call: rows are given up with nothing recorded.      *)
GiveUp(S) ==
    /\ holder' = [r \in Row |-> IF r \in S THEN NoOne ELSE holder[r]]
    /\ UNCHANGED <<attempts, observed>>

Succeed(r) ==
    /\ holder[r] # NoOne
    /\ holder' = [holder EXCEPT ![r] = NoOne]
    /\ attempts' = [attempts EXCEPT ![r] = 0]
    /\ \E i \in Instant : i >= observed[r] /\ observed' = [observed EXCEPT ![r] = i]

Fail(r) ==
    /\ holder[r] # NoOne
    /\ holder' = [holder EXCEPT ![r] = NoOne]
    /\ attempts' = [attempts EXCEPT ![r] = @ + 1]
    /\ UNCHANGED observed

Next ==
    \/ \E o \in Observer, r \in Row : Acquire(o, r)
    \/ \E S \in SUBSET Row : GiveUp(S)
    \/ \E r \in Row : Succeed(r) \/ Fail(r)

Spec == Init /\ [][Next]_vars
=============================================================================

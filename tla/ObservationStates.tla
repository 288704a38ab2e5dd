-------------------------- MODULE ObservationStates --------------------------
(***************************************************************************)
(* The observation_states table of OBS-101/102/103, one row at a time: the *)
(* shape of a row (observation-state.js, store.js), the two selection      *)
(* predicates of due-selection.js, and what is ever written to a row: an   *)
(* insert, a claim, a success or a failure.                                *)
(*                                                                         *)
(* Instant 0 stands for SQL NULL: it precedes every instant of a run, which*)
(* is what "nulls first" and "is null or <= now" make of next_due_at.      *)
(***************************************************************************)
EXTENDS ShardAssignment, FiniteSets

CONSTANT Lease  \* DEFAULT_LEASE_MS, in ticks

Key == Org \X Type
Null == 0

(* Organisation ids are numbered in the order the page query sorts them by.*)
ASSUME KeyAssumption == Org \subseteq Nat \ {Null} /\ IsFiniteSet(Org) /\ IsFiniteSet(Type)
ASSUME LeaseAssumption == Lease \in Nat

(* 052's CHECK, and "none": there is no such row.                          *)
Status == {"never_observed", "due", "running", "observed", "failed", "suspended", "none"}

ObservationState ==
    [status: Status, updatedAt: Nat, nextDueAt: Nat,
     lastObservedAt: Nat, lastFailureAt: Nat, attemptCount: Nat]

NoRow == [status |-> "none", updatedAt |-> 0, nextDueAt |-> Null,
          lastObservedAt |-> Null, lastFailureAt |-> Null, attemptCount |-> 0]

-----------------------------------------------------------------------------
(* Selection: the predicates of the page's two queries, and of the claim.  *)

(* Mutants: due whatever next_due_at says; stale while the claim is young; *)
(* claimable whoever holds the row, or already as the lease lapses.        *)
IsDueAnytime(row, now) == row.status \notin {"suspended", "running"}
IsStaleWhileYoung(row, now) == row.status = "running" /\ row.updatedAt > now - Lease
ClaimableAnytime(row, now) == row.status # "suspended"
ClaimableAtLease(row, now) ==
    /\ row.status # "suspended"
    /\ row.status = "running" => row.updatedAt <= now - Lease

IsDue(row, now) ==
    row # NoRow /\ row.status \notin {"suspended", "running"} /\ row.nextDueAt <= now

IsStale(row, now) == row.status = "running" /\ row.updatedAt < now - Lease

Claimable(row, now) ==
    /\ row # NoRow
    /\ row.status # "suspended"
    /\ row.status = "running" => row.updatedAt < now - Lease

-----------------------------------------------------------------------------
(* The writes.  Evidence and provenance pointers are written with          *)
(* lastObservedAt and never without it, so lastObservedAt stands for them. *)

(* createObservationState: never observed, and no due instant.             *)
CreatedState(now) ==
    [status |-> "never_observed", updatedAt |-> now, nextDueAt |-> Null,
     lastObservedAt |-> Null, lastFailureAt |-> Null, attemptCount |-> 0]

(* A provisioner's row waits for the first slot after its run's start.     *)
InitialState(k, start, now) ==
    [CreatedState(now) EXCEPT !.nextDueAt = ComputeNextDueAt(k[1], k[2], start)]

ClaimedState(row, now) == [row EXCEPT !.status = "running", !.updatedAt = now]

(* Mutants: the next slot after the write, not after the collection; a     *)
(* success that keeps the count of failures; a retry that counts from 0.   *)
SuccessFromWrite(k, row, collectedAt, now) ==
    [row EXCEPT !.status = "observed", !.updatedAt = now,
                !.lastObservedAt = collectedAt, !.lastFailureAt = Null, !.attemptCount = 0,
                !.nextDueAt = ComputeNextDueAt(k[1], k[2], now)]
SuccessKeepingAttempts(k, row, collectedAt, now) ==
    [row EXCEPT !.status = "observed", !.updatedAt = now,
                !.lastObservedAt = collectedAt, !.lastFailureAt = Null,
                !.nextDueAt = ComputeNextDueAt(k[1], k[2], collectedAt)]
FailureOffByOne(k, row, attemptsRead, failedAt, now) ==
    [row EXCEPT !.status = "failed", !.updatedAt = now,
                !.lastFailureAt = failedAt, !.attemptCount = attemptsRead + 1,
                !.nextDueAt = ComputeRetryNextDueAt(k[1], k[2], failedAt, attemptsRead)]

SuccessState(k, row, collectedAt, now) ==
    [row EXCEPT !.status = "observed", !.updatedAt = now,
                !.lastObservedAt = collectedAt, !.lastFailureAt = Null, !.attemptCount = 0,
                !.nextDueAt = ComputeNextDueAt(k[1], k[2], collectedAt)]

(* attemptsRead is the attempt_count the observer read before collecting.  *)
FailureState(k, row, attemptsRead, failedAt, now) ==
    [row EXCEPT !.status = "failed", !.updatedAt = now,
                !.lastFailureAt = failedAt, !.attemptCount = attemptsRead + 1,
                !.nextDueAt = ComputeRetryNextDueAt(k[1], k[2], failedAt, attemptsRead + 1)]
=============================================================================

--------------------------- MODULE EvidencePackage ---------------------------
(***************************************************************************)
(* What the packages of the FCA Observatory promise, with no worker, no    *)
(* staging and no reports under way: evidence is put into an unsealed      *)
(* package and taken out again only while no reader of its ledger finds    *)
(* the firm, only what is there is entered in the ledger, and a seal       *)
(* states what the ledger holds and ends all change.  Bad luck is part of  *)
(* the promise: an append to the ledger that is torn.  It may still have   *)
(* entered its firm; it may take that firm, or the next, out again.        *)
(***************************************************************************)
EXTENDS Integers, FiniteSets

CONSTANTS PackageId, Firm, Unsealed

VARIABLES
    committed,  \* firms a reader of the package's ledger finds
    stored,     \* firms whose evidence is there, whole
    seal,       \* what reports and manifest of a sealed package are about
    torn        \* torn appends to its ledger
vars == <<committed, stored, seal, torn>>

Init ==
    /\ committed = [p \in PackageId |-> {}]
    /\ stored = [p \in PackageId |-> {}]
    /\ seal = [p \in PackageId |-> Unsealed]
    /\ torn = [p \in PackageId |-> 0]

Place(p, f) ==
    /\ seal[p] = Unsealed /\ f \notin committed[p]
    /\ stored' = [stored EXCEPT ![p] = @ \cup {f}]
    /\ UNCHANGED <<committed, seal, torn>>

TakeOut(p, f) ==
    /\ seal[p] = Unsealed /\ f \notin committed[p]
    /\ stored' = [stored EXCEPT ![p] = @ \ {f}]
    /\ UNCHANGED <<committed, seal, torn>>

(* The ledger after a record of f was appended, or was glued to a torn one.*)
Entered(p, f) == f \in stored[p] \ committed[p] /\ committed' = [committed EXCEPT ![p] = @ \cup {f}]
Lost(p, f)    == torn[p] > 0 /\ committed' = [committed EXCEPT ![p] = @ \ {f}]

Commit(p, f) ==
    /\ seal[p] = Unsealed
    /\ Entered(p, f) \/ Lost(p, f)
    /\ UNCHANGED <<stored, seal, torn>>

Tear(p, f) ==
    /\ seal[p] = Unsealed
    /\ Entered(p, f) \/ Lost(p, f) \/ UNCHANGED committed
    /\ torn' = [torn EXCEPT ![p] = @ + 1]
    /\ UNCHANGED <<stored, seal>>

(* Two firms at most are missing for each torn append.                     *)
Seal(p) ==
    /\ seal[p] = Unsealed
    /\ committed[p] \subseteq stored[p]
    /\ Cardinality(Firm \ committed[p]) <= 2 * torn[p]
    /\ seal' = [seal EXCEPT ![p] = <<committed[p], committed[p]>>]
    /\ UNCHANGED <<committed, stored, torn>>

Next == \E p \in PackageId :
    \/ \E f \in Firm : Place(p, f) \/ TakeOut(p, f) \/ Commit(p, f) \/ Tear(p, f)
    \/ Seal(p)

Spec == Init /\ [][Next]_vars
=============================================================================

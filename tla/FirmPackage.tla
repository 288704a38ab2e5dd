---------------------------- MODULE FirmPackage -----------------------------
(***************************************************************************)
(* Collection cycles of the FCA Observatory over the packages on its       *)
(* volume: each firm is staged, moved into the package by a rename and     *)
(* entered in the package's ledger; when every firm has been tried the     *)
(* package gets its reports and manifest and, if nothing failed, a seal.   *)
(*                                                                         *)
(* There is one worker (numReplicas 1).  Every change of a file or of a    *)
(* directory is a step, so that the process can die between any two, and   *)
(* within a write or a recursive removal.  Staging is invisible outside a  *)
(* firm's collection, which always starts with an empty one: it is no      *)
(* state of the model.                                                     *)
(***************************************************************************)
EXTENDS Integers, FiniteSets

CONSTANTS
    Firm,            \* the cohort
    Null,            \* no firm, no package, a ledger that ends in a newline
    Fragment,        \* the end of a ledger: part of a record, no newline
    Absent, Mixed    \* marks: reports or a manifest missing; not all of one ledger

CONSTANTS \* Bounds on the behaviours considered.
    MaxPackages,     \* packages opened
    MaxTargeted,     \* cycles started for a packageId
    MaxFaults        \* deaths of the process and failed file operations

PackageId == 1..MaxPackages   \* in the order of openedAt

ASSUME PackageAssumption ==
    /\ IsFiniteSet(Firm) /\ Firm # {}
    /\ MaxPackages \in Nat /\ MaxTargeted \in Nat /\ MaxFaults \in Nat
    /\ Null \notin Firm \cup Nat /\ Fragment \notin Firm \cup {Null}
    /\ {Absent, Mixed} \cap Firm = {}

VARIABLES
    package,    \* the directories of RUN_ROOT
    worker,     \* the cycle of the live process
    torn,       \* history: torn ledger appends per package
    flawed,     \* history: packages with a failed firm or an unfinished finish
    targeted, faults   \* targeted cycles and faults so far
vars == <<package, worker, torn, flawed, targeted, faults>>

Package ==
    [status: {"none", "collecting", "collected", "sealed", "unreadable"},   \* package.json
     firms: [Firm -> {"none", "partial", "whole"}],                         \* firms/<FRN>
     ledger: SUBSET Firm,                                                   \* commit-log.ndjson
     tail: Firm \cup {Null, Fragment},                                      \* what follows its last newline
     reports: SUBSET (Firm \cup {Absent, Mixed}),                           \* the firms they are about
     manifest: SUBSET (Firm \cup {Absent, Mixed}),
     sealed: BOOLEAN]                                                       \* SEALED exists
Cycle ==
    [pc: {"idle", "firms", "rename", "append", "report", "manifest", "collected", "seal", "sealed"},
     package: PackageId \cup {Null}, todo: SUBSET Firm, firm: Firm \cup {Null},
     failed: BOOLEAN, verified: BOOLEAN, reported: BOOLEAN]

NoPackage == [status |-> "none", firms |-> [f \in Firm |-> "none"], ledger |-> {}, tail |-> Null,
              reports |-> {Absent}, manifest |-> {Absent}, sealed |-> FALSE]
Idle == [pc |-> "idle", package |-> Null, todo |-> {}, firm |-> Null,
         failed |-> FALSE, verified |-> FALSE, reported |-> FALSE]

Init ==
    /\ package = [p \in PackageId |-> NoPackage]
    /\ worker = Idle
    /\ torn = [p \in PackageId |-> 0]
    /\ flawed = {} /\ targeted = 0 /\ faults = 0

Fault == faults < MaxFaults /\ faults' = faults + 1
Goto(pc) == worker' = [worker EXCEPT !.pc = pc]

(* loadCommitted: a last line without its newline is read if it parses.    *)
Committed(p) == package[p].ledger \cup ({package[p].tail} \cap Firm)

-----------------------------------------------------------------------------
(* resolvePackage.                                                         *)

(* Mutant: a package whose descriptor cannot be read is still open.        *)
OpenOrUnreadable(p) == package[p].status \in {"collecting", "unreadable"}

Open(p) == package[p].status = "collecting"

(* findOpenPackage: the one opened last.                                   *)
ToResume(p) == Open(p) /\ \A q \in PackageId : Open(q) => q <= p

Begin(p) ==
    /\ worker.pc = "idle"
    /\ worker' = [Idle EXCEPT !.pc = "firms", !.package = p, !.todo = Firm]

ResumeOpen(p) ==
    /\ ToResume(p)
    /\ Begin(p)
    /\ UNCHANGED <<package, torn, flawed, targeted, faults>>

NextPackage(p) == package[p].status = "none" /\ \A q \in PackageId : q < p => package[q].status # "none"

(* createPackage; package.json is written, or the process dies writing it. *)
Create(p) ==
    /\ NextPackage(p)
    /\ \/ /\ Begin(p)
          /\ package' = [package EXCEPT ![p].status = "collecting"]
          /\ UNCHANGED faults
       \/ /\ worker.pc = "idle" /\ UNCHANGED worker
          /\ package' = [package EXCEPT ![p].status = "unreadable"]
          /\ Fault
    /\ UNCHANGED <<torn, flawed>>

StartNew(p) ==
    /\ \A q \in PackageId : ~Open(q)
    /\ Create(p)
    /\ UNCHANGED targeted

Target == targeted < MaxTargeted /\ targeted' = targeted + 1

CreateTarget(p) == Target /\ Create(p)

(* Mutant: a sealed package is collected into again.                       *)
ResumeTargetEvenSealed(p) ==
    /\ package[p].status \in {"collecting", "collected", "sealed"}
    /\ Target /\ Begin(p)
    /\ UNCHANGED <<package, torn, flawed, faults>>

(* A packageId that exists is resumed whatever its status, unless it is    *)
(* sealed (the cycle returns) or its descriptor cannot be read (it throws).*)
ResumeTarget(p) ==
    /\ package[p].status \in {"collecting", "collected", "sealed"} /\ ~package[p].sealed
    /\ Target /\ Begin(p)
    /\ UNCHANGED <<package, torn, flawed, faults>>

-----------------------------------------------------------------------------
(* collectAndCommitFirm, for one firm of the cohort after the other.       *)

InLoop(f) == worker.pc = "firms" /\ f \in worker.todo
Done(f)   == worker' = [worker EXCEPT !.pc = "firms", !.todo = @ \ {f}, !.firm = Null]
Failed(f) ==
    /\ worker' = [worker EXCEPT !.pc = "firms", !.todo = @ \ {f}, !.firm = Null, !.failed = TRUE]
    /\ flawed' = flawed \cup {worker.package}

Skip(f) ==
    /\ InLoop(f) /\ f \in Committed(worker.package)
    /\ Done(f)
    /\ UNCHANGED <<package, torn, flawed, targeted, faults>>

(* Mutant: the ledger is not consulted.                                    *)
CollectAnyway(f) ==
    /\ InLoop(f)
    /\ worker' = [worker EXCEPT !.pc = "rename", !.firm = f]
    /\ UNCHANGED <<package, torn, flawed, targeted, faults>>

(* The firm is staged and verified.                                        *)
Collect(f) ==
    /\ InLoop(f) /\ f \notin Committed(worker.package)
    /\ worker' = [worker EXCEPT !.pc = "rename", !.firm = f]
    /\ UNCHANGED <<package, torn, flawed, targeted, faults>>

(* Mutant: one firm aborts the run.                                        *)
CollectThrows(f) ==
    /\ InLoop(f) /\ f \notin Committed(worker.package)
    /\ worker' = Idle
    /\ UNCHANGED <<package, torn, flawed, targeted, faults>>

(* It cannot be collected, or its integrity cannot be verified.            *)
CollectFails(f) ==
    /\ InLoop(f) /\ f \notin Committed(worker.package)
    /\ Failed(f)
    /\ UNCHANGED <<package, torn, targeted, faults>>

(* What a commit leaves when it is cut short while it replaces an orphan   *)
(* directory, or enters the firm in the ledger: nothing of the record,     *)
(* part of it, or all but its newline.                                     *)
Appended(p, f, end) ==
    IF package[p].tail = Null
    THEN [package[p] EXCEPT !.tail = end]
    ELSE [package[p] EXCEPT !.tail = Fragment]   \* glued: the line no longer parses

CutShort(p, f) ==
    \/ UNCHANGED <<package, torn>>
    \/ /\ worker.pc = "rename" /\ package[p].firms[f] # "none"
       /\ \E left \in {"partial", "none"} : package' = [package EXCEPT ![p].firms[f] = left]
       /\ UNCHANGED torn
    \/ /\ worker.pc = "append"
       /\ \E end \in {Fragment, f} : package' = [package EXCEPT ![p] = Appended(p, f, end)]
       /\ torn' = [torn EXCEPT ![p] = @ + 1]

(* commitStagedFirm up to renameSync.                                      *)
Rename ==
    /\ worker.pc = "rename"
    /\ package' = [package EXCEPT ![worker.package].firms[worker.firm] = "whole"]
    /\ Goto("append")
    /\ UNCHANGED <<torn, flawed, targeted, faults>>

(* Mutant: the ledger is written anew with each record.                    *)
AppendOverwriting ==
    LET p == worker.package  f == worker.firm IN
    /\ worker.pc = "append"
    /\ package' = [package EXCEPT ![p].tail = Null, ![p].ledger = {f}]
    /\ Done(f)
    /\ UNCHANGED <<torn, flawed, targeted, faults>>

(* appendFileSync of the record and its newline; after a torn append both  *)
(* records are one line, which no reader parses.                           *)
Append ==
    LET p == worker.package  f == worker.firm IN
    /\ worker.pc = "append"
    /\ package' = [package EXCEPT ![p].tail = Null,
                     ![p].ledger = IF package[p].tail = Null THEN @ \cup {f} ELSE @]
    /\ Done(f)
    /\ UNCHANGED <<torn, flawed, targeted, faults>>

(* An error of the commit is caught and counted like any other.            *)
CommitFails ==
    /\ worker.pc \in {"rename", "append"}
    /\ CutShort(worker.package, worker.firm)
    /\ Failed(worker.firm)
    /\ Fault
    /\ UNCHANGED targeted

-----------------------------------------------------------------------------
(* The finish.                                                             *)

(* verifyPackage: the firms it finds in the ledger.                        *)
Verified(p) == \A f \in Committed(p) : package[p].firms[f] = "whole"

LoopDone == worker.pc = "firms" /\ worker.todo = {}

(* writeRunReports: the three reports it writes every time.  The fourth,   *)
(* discoveries.json, is not modelled: it is written only when there are    *)
(* discoveries, and otherwise stays as an earlier cycle left it.           *)
WriteReports ==
    LET p == worker.package IN
    /\ LoopDone
    /\ package' = [package EXCEPT ![p].reports = Committed(p)]
    /\ worker' = [worker EXCEPT !.pc = "manifest", !.verified = Verified(p), !.reported = TRUE]
    /\ UNCHANGED <<torn, flawed, targeted, faults>>

(* Mutant: reports of an earlier cycle will do.                            *)
ReportsFailUnnoticed ==
    LET p == worker.package IN
    /\ LoopDone
    /\ \E left \in {package[p].reports, {Mixed}} : package' = [package EXCEPT ![p].reports = left]
    /\ worker' = [worker EXCEPT !.pc = "manifest", !.verified = Verified(p), !.reported = TRUE]
    /\ flawed' = flawed \cup {p}
    /\ Fault
    /\ UNCHANGED <<torn, targeted>>

(* An error while they are built or written prevents the seal.             *)
ReportsFail ==
    LET p == worker.package IN
    /\ LoopDone
    /\ \E left \in {package[p].reports, {Mixed}} : package' = [package EXCEPT ![p].reports = left]
    /\ worker' = [worker EXCEPT !.pc = "manifest", !.verified = Verified(p)]
    /\ flawed' = flawed \cup {p}
    /\ Fault
    /\ UNCHANGED <<torn, targeted>>

WriteManifest ==
    LET p == worker.package IN
    /\ worker.pc = "manifest"
    /\ package' = [package EXCEPT ![p].manifest = Committed(p)]
    /\ Goto("collected")
    /\ UNCHANGED <<torn, flawed, targeted, faults>>

MarkCollected ==
    /\ worker.pc = "collected"
    /\ package' = [package EXCEPT ![worker.package].status = "collected"]
    /\ Goto("seal")
    /\ UNCHANGED <<torn, flawed, targeted, faults>>

(* Mutant: failed firms are not counted.                                   *)
SealableDespiteFailures ==
    /\ worker.verified /\ worker.reported /\ package[worker.package].reports # {Absent}

(* evaluateSealable, and no error from the reports.                        *)
Sealable ==
    /\ ~worker.failed /\ worker.verified
    /\ worker.reported /\ package[worker.package].reports # {Absent}

Seal ==
    /\ worker.pc = "seal" /\ Sealable
    /\ package' = [package EXCEPT ![worker.package].sealed = TRUE]
    /\ Goto("sealed")
    /\ UNCHANGED <<torn, flawed, targeted, faults>>

LeaveUnsealed ==
    /\ worker.pc = "seal" /\ ~Sealable
    /\ worker' = Idle
    /\ UNCHANGED <<package, torn, flawed, targeted, faults>>

MarkSealed ==
    /\ worker.pc = "sealed"
    /\ package' = [package EXCEPT ![worker.package].status = "sealed"]
    /\ worker' = Idle
    /\ UNCHANGED <<torn, flawed, targeted, faults>>

(* The process dies, or a write of the finish throws and ends it: the file *)
(* at hand is as it was, or cut short.                                     *)
Die ==
    LET p == worker.package
        Leave(row) == package' = [package EXCEPT ![p] = row] /\ UNCHANGED torn
    IN
    /\ worker.pc # "idle"
    /\ \/ CutShort(p, worker.firm)
       \/ LoopDone /\ Leave([package[p] EXCEPT !.reports = {Mixed}])
       \/ worker.pc = "manifest" /\ Leave([package[p] EXCEPT !.manifest = {Mixed}])
       \/ worker.pc \in {"collected", "sealed"} /\ Leave([package[p] EXCEPT !.status = "unreadable"])
       \/ worker.pc = "seal" /\ Sealable /\ Leave([package[p] EXCEPT !.sealed = TRUE])
    /\ flawed' = IF package'[p].status = "collecting" \/ package'[p].sealed
                 THEN flawed ELSE flawed \cup {p}
    /\ worker' = Idle
    /\ Fault
    /\ UNCHANGED targeted

-----------------------------------------------------------------------------

(* What the cron, the restart policy and a live process keep doing.        *)
Progress ==
    \/ \E p \in PackageId : ResumeOpen(p) \/ StartNew(p)
    \/ \E f \in Firm : Skip(f) \/ Collect(f) \/ CollectFails(f)
    \/ Rename \/ Append
    \/ WriteReports \/ WriteManifest \/ MarkCollected
    \/ Seal \/ LeaveUnsealed \/ MarkSealed

Next ==
    \/ Progress
    \/ \E p \in PackageId : CreateTarget(p) \/ ResumeTarget(p)
    \/ CommitFails \/ ReportsFail \/ Die

Spec     == Init /\ [][Next]_vars
FairSpec == Spec /\ WF_vars(Progress)

-----------------------------------------------------------------------------
(* Properties.                                                             *)

(* Packages and the cycle are well-formed: a live cycle has a package,     *)
(* which it opened or found readable, and a firm exactly while it commits. *)
TypeOK ==
    /\ package \in [PackageId -> Package]
    /\ worker \in Cycle
    /\ torn \in [PackageId -> Nat] /\ flawed \subseteq PackageId
    /\ targeted \in 0..MaxTargeted /\ faults \in 0..MaxFaults
    /\ worker.package = Null <=> worker.pc = "idle"
    /\ worker.firm # Null <=> worker.pc \in {"rename", "append"}
    /\ worker.pc # "idle" => package[worker.package].status \notin {"none", "unreadable"}

(* firm-commit.js, "A firm is committed IFF its FRN appears in the         *)
(* ledger": whatever was cut short, the evidence of every firm a reader of *)
(* the ledger finds is in the package, whole.                              *)
LedgerIsBacked == \A p \in PackageId : Verified(p)

(* package-seal.js, "sealed only when every firm in the cohort has been    *)
(* processed (committed; no failures left)": a sealed package lacks a firm *)
(* only through torn appends to its ledger, two firms for each at most.    *)
SealedIsComplete ==
    \A p \in PackageId : package[p].sealed =>
        Cardinality(Firm \ Committed(p)) <= 2 * torn[p]

(* The reports and the manifest of a sealed package are about exactly the  *)
(* firms its ledger holds, across interrupted and repeated cycles.         *)
SealedDescribesItself ==
    \A p \in PackageId : package[p].sealed =>
        package[p].reports = Committed(p) /\ package[p].manifest = Committed(p)

(* package-seal.js, "a sealed package cannot be resealed or modified": of  *)
(* a sealed package only the status in package.json still changes.         *)
SealedIsFinal ==
    [][\A p \in PackageId : package[p].sealed =>
          \E status \in {"sealed", "unreadable"} :
              package'[p] \in {package[p], [package[p] EXCEPT !.status = status]}]_vars

(* FCA-DEPLOYMENT.md, "Interrupted cycle: no action required": a package   *)
(* left collecting is resumed until it is sealed, unless one of its firms  *)
(* or its reports failed, or its finish was interrupted once collected.    *)
InterruptedCycleSeals ==
    \A p \in PackageId : Open(p) ~> (package[p].sealed \/ p \in flawed)

(* Seen through what a reader finds in the packages, cycles that are       *)
(* resumed, targeted, interrupted or failed are those of EvidencePackage:  *)
(* committed evidence stays, whole, unless an append to the ledger was     *)
(* torn, and a seal states the ledger and ends all change.                 *)
Evidence == INSTANCE EvidencePackage WITH
    Unsealed  <- Null,
    committed <- [p \in PackageId |-> Committed(p)],
    stored    <- [p \in PackageId |-> {f \in Firm : package[p].firms[f] = "whole"}],
    seal      <- [p \in PackageId |-> IF package[p].sealed
                                      THEN <<package[p].reports, package[p].manifest>> ELSE Null]
KeepsEvidence == Evidence!Spec
=============================================================================

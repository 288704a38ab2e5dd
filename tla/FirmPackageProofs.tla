-------------------------- MODULE FirmPackageProofs --------------------------
(***************************************************************************)
(* Proofs about the FCA packages for every cohort and any number of        *)
(* packages, targeted cycles and faults.                                   *)
(***************************************************************************)
EXTENDS FirmPackage, FiniteSetTheorems, TLAPS

-----------------------------------------------------------------------------
(* Type correctness.                                                       *)

LEMMA IdleType == Idle \in Cycle
  BY DEF Idle, Cycle

LEMMA CommittedType ==
    ASSUME TypeOK, NEW p \in PackageId
    PROVE  Committed(p) \in SUBSET Firm
  BY DEF TypeOK, Package, Committed

LEMMA FaultType == TypeOK /\ Fault => faults' \in 0..MaxFaults
  BY PackageAssumption DEF TypeOK, Fault

LEMMA TargetType == TypeOK /\ Target => targeted' \in 0..MaxTargeted
  BY PackageAssumption DEF TypeOK, Target

(* A live cycle has a package, and while it commits a firm.                *)
LEMMA LiveCycle ==
    ASSUME TypeOK, worker.pc # "idle"
    PROVE  /\ worker \in Cycle /\ worker.package \in PackageId
           /\ package[worker.package] \in Package
           /\ worker.pc \in {"rename", "append"} => worker.firm \in Firm
  BY DEF TypeOK, Cycle

LEMMA TypeInit == Init => TypeOK
<1> SUFFICES ASSUME Init PROVE TypeOK
  OBVIOUS
<1>1. NoPackage \in Package
  BY DEF NoPackage, Package
<1>2. QED BY <1>1, IdleType, PackageAssumption DEF Init, TypeOK, Idle

(* What a step of the cycle must keep.                                     *)
WorkerOK(w) ==
    /\ w \in Cycle
    /\ w.package = Null <=> w.pc = "idle"
    /\ w.firm # Null <=> w.pc \in {"rename", "append"}
    /\ w.pc # "idle" => package'[w.package].status \notin {"none", "unreadable"}

LEMMA TypeBegin ==
    ASSUME TypeOK, NEW p \in PackageId, Begin(p),
           package'[p].status \notin {"none", "unreadable"}
    PROVE  WorkerOK(worker')
<1>1. p # Null
  BY PackageAssumption DEF PackageId
<1>2. worker' = [Idle EXCEPT !.pc = "firms", !.package = p, !.todo = Firm]
  BY DEF Begin
<1>3. QED BY <1>1, <1>2 DEF WorkerOK, Idle, Cycle

LEMMA TypeCreate ==
    ASSUME TypeOK, NEW p \in PackageId, Create(p)
    PROVE  /\ package' \in [PackageId -> Package] /\ WorkerOK(worker')
           /\ faults' \in 0..MaxFaults /\ torn' = torn /\ flawed' = flawed
<1>0. package[p] \in Package
  BY DEF TypeOK
<1>1. CASE /\ Begin(p) /\ package' = [package EXCEPT ![p].status = "collecting"]
           /\ UNCHANGED faults
  <2>1. package' \in [PackageId -> Package] /\ package'[p].status = "collecting"
    BY <1>0, <1>1 DEF TypeOK, Package
  <2>2. QED BY <1>1, <2>1, TypeBegin DEF Create, TypeOK
<1>2. CASE /\ worker.pc = "idle" /\ UNCHANGED worker
           /\ package' = [package EXCEPT ![p].status = "unreadable"]
           /\ Fault
  <2>1. package' \in [PackageId -> Package]
    BY <1>0, <1>2 DEF TypeOK, Package
  <2>2. QED BY <1>2, <2>1, FaultType DEF Create, TypeOK, WorkerOK
<1>3. QED BY <1>1, <1>2 DEF Create

LEMMA CutShortType ==
    ASSUME TypeOK, worker.pc # "idle", CutShort(worker.package, worker.firm)
    PROVE  /\ package' \in [PackageId -> Package] /\ torn' \in [PackageId -> Nat]
           /\ package'[worker.package].status = package[worker.package].status
<1> DEFINE p == worker.package
           f == worker.firm
<1>0. p \in PackageId /\ package[p] \in Package
  BY LiveCycle
<1>1. CASE UNCHANGED <<package, torn>>
  BY <1>1 DEF TypeOK
<1>2. ASSUME NEW left \in {"partial", "none"}, worker.pc = "rename",
             package' = [package EXCEPT ![p].firms[f] = left], UNCHANGED torn
      PROVE  /\ package' \in [PackageId -> Package] /\ torn' \in [PackageId -> Nat]
             /\ package'[p].status = package[p].status
  BY <1>0, <1>2, LiveCycle DEF TypeOK, Package
<1>3. ASSUME NEW end \in {Fragment, f}, worker.pc = "append",
             package' = [package EXCEPT ![p] = Appended(p, f, end)],
             torn' = [torn EXCEPT ![p] = @ + 1]
      PROVE  /\ package' \in [PackageId -> Package] /\ torn' \in [PackageId -> Nat]
             /\ package'[p].status = package[p].status
  <2>1. end \in Firm \cup {Fragment}
    BY <1>3, LiveCycle
  <2>2. Appended(p, f, end) \in Package /\ Appended(p, f, end).status = package[p].status
    BY <1>0, <2>1 DEF Appended, Package
  <2>3. QED BY <1>0, <1>3, <2>2 DEF TypeOK
<1>4. QED BY <1>1, <1>2, <1>3 DEF CutShort

LEMMA TypeCollect ==
    ASSUME TypeOK, NEW f \in Firm,
           Skip(f) \/ Collect(f) \/ CollectFails(f)
    PROVE  TypeOK'
<1>0. worker.pc # "idle" /\ InLoop(f)
  BY DEF Skip, Collect, CollectFails, InLoop
<1>1. f # Null
  BY PackageAssumption
<1>2. worker \in Cycle /\ worker.package \in PackageId
  BY <1>0, LiveCycle
<1>3. CASE Skip(f)
  BY <1>0, <1>2, <1>3 DEF Skip, InLoop, Done, TypeOK, Cycle
<1>4. CASE Collect(f)
  BY <1>0, <1>1, <1>2, <1>4 DEF Collect, InLoop, TypeOK, Cycle
<1>5. CASE CollectFails(f)
  BY <1>0, <1>2, <1>5 DEF CollectFails, InLoop, Failed, TypeOK, Cycle
<1>6. QED BY <1>3, <1>4, <1>5

LEMMA TypeCommit == ASSUME TypeOK, Rename \/ Append \/ CommitFails PROVE TypeOK'
<1> DEFINE p == worker.package
           f == worker.firm
<1>0. /\ worker.pc \in {"rename", "append"} /\ worker \in Cycle /\ p \in PackageId
      /\ package[p] \in Package /\ f \in Firm /\ f # Null
  BY LiveCycle, PackageAssumption DEF Rename, Append, CommitFails
<1>1. CASE Rename
  <2>1. package' \in [PackageId -> Package] /\ package'[p].status = package[p].status
    BY <1>0, <1>1 DEF Rename, TypeOK, Package
  <2>2. QED BY <1>0, <1>1, <2>1 DEF Rename, Goto, TypeOK, Cycle
<1>2. CASE Append
  <2>1. package' \in [PackageId -> Package] /\ package'[p].status = package[p].status
    BY <1>0, <1>2 DEF Append, TypeOK, Package
  <2>2. QED BY <1>0, <1>2, <2>1 DEF Append, Done, TypeOK, Cycle
<1>3. CASE CommitFails
  <2>1. /\ package' \in [PackageId -> Package] /\ torn' \in [PackageId -> Nat]
        /\ package'[p].status = package[p].status
    BY <1>0, <1>3, CutShortType DEF CommitFails
  <2>2. faults' \in 0..MaxFaults
    BY <1>3, FaultType DEF CommitFails
  <2>3. QED BY <1>0, <1>3, <2>1, <2>2 DEF CommitFails, Failed, TypeOK, Cycle
<1>4. QED BY <1>1, <1>2, <1>3

LEMMA TypeFinish ==
    ASSUME TypeOK,
           \/ WriteReports \/ ReportsFail \/ WriteManifest \/ MarkCollected
           \/ Seal \/ LeaveUnsealed \/ MarkSealed
    PROVE  TypeOK'
<1> DEFINE p == worker.package
<1>0. /\ worker.pc # "idle" /\ worker \in Cycle /\ p \in PackageId /\ package[p] \in Package
      /\ Committed(p) \in SUBSET Firm /\ Verified(p) \in BOOLEAN
  <2>1. worker.pc # "idle"
    BY DEF WriteReports, ReportsFail, LoopDone, WriteManifest, MarkCollected, Seal, LeaveUnsealed, MarkSealed
  <2>2. QED BY <2>1, LiveCycle, CommittedType DEF Verified
<1>1. CASE WriteReports
  <2>1. package' \in [PackageId -> Package] /\ package'[p].status = package[p].status
    BY <1>0, <1>1 DEF WriteReports, TypeOK, Package
  <2>2. QED BY <1>0, <1>1, <2>1 DEF WriteReports, LoopDone, TypeOK, Cycle
<1>2. CASE ReportsFail
  <2>1. package' \in [PackageId -> Package] /\ package'[p].status = package[p].status
    <3>1. PICK left \in {package[p].reports, {Mixed}} :
              package' = [package EXCEPT ![p].reports = left]
      BY <1>2 DEF ReportsFail
    <3>2. left \in SUBSET (Firm \cup {Absent, Mixed})
      BY <1>0, <3>1 DEF Package
    <3>3. QED BY <1>0, <3>1, <3>2 DEF TypeOK, Package
  <2>2. faults' \in 0..MaxFaults
    BY <1>2, FaultType DEF ReportsFail
  <2>3. QED BY <1>0, <1>2, <2>1, <2>2 DEF ReportsFail, LoopDone, TypeOK, Cycle
<1>3. CASE WriteManifest
  <2>1. package' \in [PackageId -> Package] /\ package'[p].status = package[p].status
    BY <1>0, <1>3 DEF WriteManifest, TypeOK, Package
  <2>2. QED BY <1>0, <1>3, <2>1 DEF WriteManifest, Goto, TypeOK, Cycle
<1>4. CASE MarkCollected
  <2>1. package' \in [PackageId -> Package] /\ package'[p].status = "collected"
    BY <1>0, <1>4 DEF MarkCollected, TypeOK, Package
  <2>2. QED BY <1>0, <1>4, <2>1 DEF MarkCollected, Goto, TypeOK, Cycle
<1>5. CASE Seal
  <2>1. package' \in [PackageId -> Package] /\ package'[p].status = package[p].status
    BY <1>0, <1>5 DEF Seal, TypeOK, Package
  <2>2. QED BY <1>0, <1>5, <2>1 DEF Seal, Goto, TypeOK, Cycle
<1>6. CASE LeaveUnsealed
  BY <1>0, <1>6, IdleType DEF LeaveUnsealed, TypeOK, Idle
<1>7. CASE MarkSealed
  <2>1. package' \in [PackageId -> Package]
    BY <1>0, <1>7 DEF MarkSealed, TypeOK, Package
  <2>2. QED BY <1>0, <1>7, <2>1, IdleType DEF MarkSealed, TypeOK, Idle
<1>8. QED BY <1>1, <1>2, <1>3, <1>4, <1>5, <1>6, <1>7

(* The rows a dying cycle may leave, besides those of CutShort.            *)
DieLeaves(row) ==
    LET p == worker.package IN
    \/ LoopDone /\ row = [package[p] EXCEPT !.reports = {Mixed}]
    \/ worker.pc = "manifest" /\ row = [package[p] EXCEPT !.manifest = {Mixed}]
    \/ worker.pc \in {"collected", "sealed"} /\ row = [package[p] EXCEPT !.status = "unreadable"]
    \/ worker.pc = "seal" /\ Sealable /\ row = [package[p] EXCEPT !.sealed = TRUE]

LEMMA DieCases ==
    ASSUME Die
    PROVE  \/ CutShort(worker.package, worker.firm)
           \/ \E row : /\ DieLeaves(row)
                       /\ package' = [package EXCEPT ![worker.package] = row] /\ UNCHANGED torn
<1> DEFINE p == worker.package
<1>1. CASE LoopDone /\ package' = [package EXCEPT ![p] = [package[p] EXCEPT !.reports = {Mixed}]] /\ UNCHANGED torn
  BY <1>1 DEF DieLeaves
<1>2. CASE worker.pc = "manifest" /\ package' = [package EXCEPT ![p] = [package[p] EXCEPT !.manifest = {Mixed}]] /\ UNCHANGED torn
  BY <1>2 DEF DieLeaves
<1>3. CASE worker.pc \in {"collected", "sealed"} /\ package' = [package EXCEPT ![p] = [package[p] EXCEPT !.status = "unreadable"]] /\ UNCHANGED torn
  BY <1>3 DEF DieLeaves
<1>4. CASE worker.pc = "seal" /\ Sealable /\ package' = [package EXCEPT ![p] = [package[p] EXCEPT !.sealed = TRUE]] /\ UNCHANGED torn
  BY <1>4 DEF DieLeaves
<1>5. QED BY <1>1, <1>2, <1>3, <1>4 DEF Die

LEMMA TypeDie == ASSUME TypeOK, Die PROVE TypeOK'
<1> DEFINE p == worker.package
<1>0. worker.pc # "idle" /\ p \in PackageId /\ package[p] \in Package
  BY LiveCycle DEF Die
<1>1. package' \in [PackageId -> Package] /\ torn' \in [PackageId -> Nat]
  <2>1. CASE CutShort(p, worker.firm)
    BY <1>0, <2>1, CutShortType
  <2>2. ASSUME NEW row, DieLeaves(row), package' = [package EXCEPT ![p] = row], UNCHANGED torn
        PROVE  package' \in [PackageId -> Package] /\ torn' \in [PackageId -> Nat]
    <3>1. row \in Package
      <4>1. {Mixed} \in SUBSET (Firm \cup {Absent, Mixed})
        OBVIOUS
      <4>2. CASE row = [package[p] EXCEPT !.reports = {Mixed}]
        BY <1>0, <4>1, <4>2 DEF Package
      <4>3. CASE row = [package[p] EXCEPT !.manifest = {Mixed}]
        BY <1>0, <4>1, <4>3 DEF Package
      <4>4. CASE row = [package[p] EXCEPT !.status = "unreadable"]
        BY <1>0, <4>4 DEF Package
      <4>5. CASE row = [package[p] EXCEPT !.sealed = TRUE]
        BY <1>0, <4>5 DEF Package
      <4>6. QED BY <2>2, <4>2, <4>3, <4>4, <4>5 DEF DieLeaves
    <3>2. QED BY <1>0, <2>2, <3>1 DEF TypeOK
  <2>3. QED BY <2>1, <2>2, DieCases
<1>2. flawed' \subseteq PackageId /\ faults' \in 0..MaxFaults
  BY <1>0, FaultType DEF Die, TypeOK
<1>3. QED BY <1>1, <1>2, IdleType DEF Die, TypeOK, Idle

LEMMA TypeStep == TypeOK /\ [Next]_vars => TypeOK'
<1> SUFFICES ASSUME TypeOK, [Next]_vars PROVE TypeOK'
  OBVIOUS
<1>1. ASSUME NEW p \in PackageId, ResumeOpen(p) PROVE TypeOK'
  BY <1>1, TypeBegin DEF ResumeOpen, ToResume, Open, TypeOK, WorkerOK
<1>2. ASSUME NEW p \in PackageId, StartNew(p) PROVE TypeOK'
  BY <1>2, TypeCreate DEF StartNew, TypeOK, WorkerOK
<1>3. ASSUME NEW p \in PackageId, CreateTarget(p) PROVE TypeOK'
  BY <1>3, TypeCreate, TargetType DEF CreateTarget, TypeOK, WorkerOK
<1>4. ASSUME NEW p \in PackageId, ResumeTarget(p) PROVE TypeOK'
  BY <1>4, TypeBegin, TargetType DEF ResumeTarget, TypeOK, WorkerOK
<1>5. ASSUME NEW f \in Firm, Skip(f) \/ Collect(f) \/ CollectFails(f) PROVE TypeOK'
  BY <1>5, TypeCollect
<1>6. CASE Rename \/ Append \/ CommitFails
  BY <1>6, TypeCommit
<1>7. CASE \/ WriteReports \/ ReportsFail \/ WriteManifest \/ MarkCollected
           \/ Seal \/ LeaveUnsealed \/ MarkSealed
  BY <1>7, TypeFinish
<1>8. CASE Die
  BY <1>8, TypeDie
<1>9. CASE UNCHANGED vars
  BY <1>9 DEF vars, TypeOK
<1>10. QED
  BY <1>1, <1>2, <1>3, <1>4, <1>5, <1>6, <1>7, <1>8, <1>9 DEF Next, Progress

(* Packages and the cycle stay well-formed, whatever is cut short.         *)
THEOREM TypeCorrect == Spec => []TypeOK
<1>1. QED BY TypeInit, TypeStep, PTL DEF Spec

-----------------------------------------------------------------------------
(* What a sealed package allows.                                           *)

(* A sealed package was collected before, and the cycle that works on it,  *)
(* if any, has only its status left to write.                              *)
SealShape ==
    /\ \A p \in PackageId :
          package[p].sealed => package[p].status \in {"collected", "sealed", "unreadable"}
    /\ worker.pc \in {"seal", "sealed"} => package[worker.package].status = "collected"
    /\ worker.pc \notin {"idle", "sealed"} => ~package[worker.package].sealed

LEMMA SealShapeInit == Init => SealShape
  BY DEF Init, SealShape, NoPackage, Idle

(* A step of the cycle that keeps status and seal of every package.        *)
LEMMA SealKept ==
    ASSUME TypeOK, SealShape, worker.pc \notin {"idle", "sealed"},
           worker'.pc \notin {"seal", "sealed"},
           worker'.pc = "idle" \/ worker'.package = worker.package,
           \A p \in PackageId : /\ package'[p].status = package[p].status
                                /\ package'[p].sealed = package[p].sealed
    PROVE  SealShape'
<1>1. worker.package \in PackageId
  BY LiveCycle
<1>2. QED BY <1>1 DEF SealShape

LEMMA CutShortKeeps ==
    ASSUME TypeOK, worker.pc # "idle", CutShort(worker.package, worker.firm)
    PROVE  \A p \in PackageId : /\ package'[p].status = package[p].status
                                /\ package'[p].sealed = package[p].sealed
                                /\ package'[p].reports = package[p].reports
                                /\ package'[p].manifest = package[p].manifest
                                /\ worker.pc \notin {"rename", "append"} \/ p # worker.package
                                   => package'[p] = package[p] /\ torn'[p] = torn[p]
<1> DEFINE q == worker.package
           f == worker.firm
<1>0. q \in PackageId /\ package[q] \in Package
  BY LiveCycle
<1>1. CASE UNCHANGED <<package, torn>>
  BY <1>1
<1>2. ASSUME NEW left \in {"partial", "none"}, worker.pc = "rename",
             package' = [package EXCEPT ![q].firms[f] = left], UNCHANGED torn
      PROVE  \A p \in PackageId : /\ package'[p].status = package[p].status
                                  /\ package'[p].sealed = package[p].sealed
                                  /\ package'[p].reports = package[p].reports
                                  /\ package'[p].manifest = package[p].manifest
                                  /\ p # q => package'[p] = package[p] /\ torn'[p] = torn[p]
  BY <1>0, <1>2 DEF TypeOK, Package
<1>3. ASSUME NEW end \in {Fragment, f}, worker.pc = "append",
             package' = [package EXCEPT ![q] = Appended(q, f, end)],
             torn' = [torn EXCEPT ![q] = @ + 1]
      PROVE  \A p \in PackageId : /\ package'[p].status = package[p].status
                                  /\ package'[p].sealed = package[p].sealed
                                  /\ package'[p].reports = package[p].reports
                                  /\ package'[p].manifest = package[p].manifest
                                  /\ p # q => package'[p] = package[p] /\ torn'[p] = torn[p]
  BY <1>0, <1>3 DEF Appended, TypeOK, Package
<1>4. QED BY <1>1, <1>2, <1>3 DEF CutShort

LEMMA SealShapeStart ==
    ASSUME TypeOK, SealShape, NEW p \in PackageId,
           ResumeOpen(p) \/ StartNew(p) \/ CreateTarget(p) \/ ResumeTarget(p)
    PROVE  SealShape'
<1>0. package[p] \in Package
  BY DEF TypeOK
<1>1. CASE ResumeOpen(p)
  BY <1>1 DEF ResumeOpen, ToResume, Open, Begin, Idle, SealShape
<1>2. CASE ResumeTarget(p)
  BY <1>2 DEF ResumeTarget, Begin, Idle, SealShape
<1>3. CASE Create(p)
  <2>1. ~package[p].sealed
    BY <1>3 DEF Create, NextPackage, SealShape
  <2>2. \A q \in PackageId : /\ package'[q].sealed = package[q].sealed
                             /\ q # p => package'[q] = package[q]
    BY <1>0, <1>3 DEF Create, TypeOK, Package
  <2>3. CASE Begin(p)
    <3>1. worker'.pc = "firms" /\ worker'.package = p
      BY <2>3 DEF Begin, Idle
    <3>2. QED BY <2>1, <2>2, <3>1 DEF SealShape
  <2>4. CASE worker.pc = "idle" /\ UNCHANGED worker
    BY <2>1, <2>2, <2>4 DEF SealShape
  <2>5. QED BY <1>3, <2>3, <2>4 DEF Create
<1>4. QED BY <1>1, <1>2, <1>3 DEF StartNew, CreateTarget

LEMMA SealShapeCycle ==
    ASSUME TypeOK, SealShape,
           \/ \E f \in Firm : Skip(f) \/ Collect(f) \/ CollectFails(f)
           \/ Rename \/ Append \/ CommitFails
           \/ WriteReports \/ ReportsFail \/ WriteManifest \/ MarkCollected
           \/ Seal \/ LeaveUnsealed \/ MarkSealed
    PROVE  SealShape'
<1> DEFINE q == worker.package
<1>0. worker \in Cycle /\ (worker.pc # "idle" => q \in PackageId /\ package[q] \in Package)
  BY LiveCycle DEF TypeOK
<1>1. ASSUME NEW f \in Firm, Skip(f) \/ Collect(f) \/ CollectFails(f) PROVE SealShape'
  BY <1>0, <1>1, SealKept DEF Skip, Collect, CollectFails, InLoop, Done, Failed, Cycle
<1>2. CASE Rename
  <2>1. \A p \in PackageId : /\ package'[p].status = package[p].status
                             /\ package'[p].sealed = package[p].sealed
    BY <1>0, <1>2 DEF Rename, TypeOK, Package
  <2>2. QED BY <1>0, <1>2, <2>1, SealKept DEF Rename, Goto, Cycle
<1>3. CASE Append
  <2>1. \A p \in PackageId : /\ package'[p].status = package[p].status
                             /\ package'[p].sealed = package[p].sealed
    BY <1>0, <1>3 DEF Append, TypeOK, Package
  <2>2. QED BY <1>0, <1>3, <2>1, SealKept DEF Append, Done, Cycle
<1>4. CASE CommitFails
  BY <1>0, <1>4, CutShortKeeps, SealKept DEF CommitFails, Failed, Cycle
<1>5. CASE WriteReports \/ ReportsFail
  <2>0. worker.pc = "firms" /\ worker'.pc = "manifest" /\ worker'.package = q
    BY <1>0, <1>5 DEF WriteReports, ReportsFail, LoopDone, Cycle
  <2>1. PICK left : package' = [package EXCEPT ![q].reports = left]
    BY <1>5 DEF WriteReports, ReportsFail
  <2>2. \A p \in PackageId : /\ package'[p].status = package[p].status
                             /\ package'[p].sealed = package[p].sealed
    BY <1>0, <2>0, <2>1 DEF TypeOK, Package
  <2>3. QED BY <2>0, <2>2, SealKept
<1>6. CASE WriteManifest
  <2>1. \A p \in PackageId : /\ package'[p].status = package[p].status
                             /\ package'[p].sealed = package[p].sealed
    BY <1>0, <1>6 DEF WriteManifest, TypeOK, Package
  <2>2. QED BY <1>0, <1>6, <2>1, SealKept DEF WriteManifest, Goto, Cycle
<1>7. CASE MarkCollected
  <2>1. /\ \A p \in PackageId : /\ package'[p].sealed = package[p].sealed
                                /\ p # q => package'[p] = package[p]
        /\ package'[q].status = "collected"
    BY <1>0, <1>7 DEF MarkCollected, TypeOK, Package
  <2>2. worker'.pc = "seal" /\ worker'.package = q
    BY <1>0, <1>7 DEF MarkCollected, Goto, Cycle
  <2>3. QED BY <1>0, <1>7, <2>1, <2>2 DEF MarkCollected, SealShape
<1>8. CASE Seal
  <2>1. \A p \in PackageId : /\ package'[p].status = package[p].status
                             /\ p # q => package'[p] = package[p]
    BY <1>0, <1>8 DEF Seal, TypeOK, Package
  <2>2. worker'.pc = "sealed" /\ worker'.package = q /\ package[q].status = "collected"
    BY <1>0, <1>8 DEF Seal, Goto, Cycle, SealShape
  <2>3. QED BY <1>0, <1>8, <2>1, <2>2 DEF Seal, SealShape
<1>9. CASE LeaveUnsealed
  BY <1>9 DEF LeaveUnsealed, Idle, SealShape
<1>10. CASE MarkSealed
  <2>1. \A p \in PackageId : /\ package'[p].sealed = package[p].sealed
                             /\ p # q => package'[p] = package[p]
                             /\ p = q => package'[p].status = "sealed"
    BY <1>0, <1>10 DEF MarkSealed, TypeOK, Package
  <2>2. QED BY <1>10, <2>1 DEF MarkSealed, Idle, SealShape
<1>11. QED BY <1>1, <1>2, <1>3, <1>4, <1>5, <1>6, <1>7, <1>8, <1>9, <1>10

LEMMA SealShapeDie == ASSUME TypeOK, SealShape, Die PROVE SealShape'
<1> DEFINE q == worker.package
<1>0. worker.pc # "idle" /\ worker'.pc = "idle" /\ q \in PackageId /\ package[q] \in Package
  BY LiveCycle DEF Die, Idle
<1>1. CASE CutShort(q, worker.firm)
  BY <1>0, <1>1, CutShortKeeps DEF SealShape
<1>2. ASSUME NEW row, DieLeaves(row), package' = [package EXCEPT ![q] = row]
      PROVE  SealShape'
  <2>1. row.sealed => row.status \in {"collected", "sealed", "unreadable"}
    BY <1>0, <1>2 DEF DieLeaves, SealShape, Package
  <2>2. \A p \in PackageId : p # q => package'[p] = package[p]
    BY <1>2 DEF TypeOK
  <2>3. package'[q] = row
    BY <1>0, <1>2 DEF TypeOK
  <2>4. QED BY <1>0, <2>1, <2>2, <2>3 DEF SealShape
<1>3. QED BY <1>1, <1>2, DieCases

LEMMA SealShapeStep == TypeOK /\ SealShape /\ [Next]_vars => SealShape'
<1> SUFFICES ASSUME TypeOK, SealShape, [Next]_vars PROVE SealShape'
  OBVIOUS
<1>1. CASE UNCHANGED vars
  BY <1>1 DEF vars, SealShape
<1>2. QED BY <1>1, SealShapeStart, SealShapeCycle, SealShapeDie DEF Next, Progress

LEMMA SealShapeInvariant == Spec => [](TypeOK /\ SealShape)
<1>1. QED BY TypeInit, TypeStep, SealShapeInit, SealShapeStep, PTL DEF Spec

(* What becomes of a sealed package in a step.                             *)
SealedStays(p) ==
    /\ torn'[p] = torn[p]
    /\ \E status \in {"sealed", "unreadable"} :
          package'[p] \in {package[p], [package[p] EXCEPT !.status = status]}

LEMMA SealedRow ==
    ASSUME TypeOK, SealShape, [Next]_vars, NEW p \in PackageId, package[p].sealed
    PROVE  SealedStays(p)
<1> DEFINE q == worker.package
<1>0. worker \in Cycle /\ (worker.pc # "idle" => q \in PackageId /\ package[q] \in Package)
  BY LiveCycle DEF TypeOK
<1>1. CASE UNCHANGED <<package, torn>>
  BY <1>1 DEF SealedStays
<1>2. ASSUME NEW r \in PackageId, ResumeOpen(r) \/ StartNew(r) \/ CreateTarget(r) \/ ResumeTarget(r)
      PROVE  SealedStays(p)
  <2>1. Create(r) => r # p
    BY DEF Create, NextPackage, SealShape
  <2>2. Create(r) => package'[p] = package[p] /\ torn' = torn
    BY <2>1 DEF Create, TypeOK
  <2>3. QED BY <1>2, <2>2 DEF ResumeOpen, StartNew, CreateTarget, ResumeTarget, SealedStays
<1>3. ASSUME NEW f \in Firm, Skip(f) \/ Collect(f) \/ CollectFails(f) PROVE SealedStays(p)
  BY <1>3 DEF Skip, Collect, CollectFails, SealedStays
<1>4. CASE \/ Rename \/ Append \/ CommitFails
           \/ WriteReports \/ ReportsFail \/ WriteManifest \/ MarkCollected \/ Seal
  <2>1. worker.pc \notin {"idle", "sealed"}
    BY <1>4 DEF Rename, Append, CommitFails, WriteReports, ReportsFail, LoopDone,
                WriteManifest, MarkCollected, Seal
  <2>2. p # q
    BY <2>1 DEF SealShape
  <2>3. package'[p] = package[p] /\ torn'[p] = torn[p]
    BY <1>4, <2>1, <2>2, CutShortKeeps
       DEF Rename, Append, CommitFails, WriteReports, ReportsFail, WriteManifest, MarkCollected,
           Seal, TypeOK
  <2>4. QED BY <2>3 DEF SealedStays
<1>5. CASE LeaveUnsealed
  BY <1>5 DEF LeaveUnsealed, SealedStays
<1>6. CASE MarkSealed
  BY <1>6 DEF MarkSealed, SealedStays, TypeOK
<1>7. CASE Die
  <2>1. worker.pc # "idle" /\ (p = q => worker.pc = "sealed")
    BY <1>7 DEF Die, SealShape
  <2>2. CASE CutShort(q, worker.firm)
    BY <2>1, <2>2, CutShortKeeps DEF SealedStays
  <2>3. ASSUME NEW row, DieLeaves(row), package' = [package EXCEPT ![q] = row], UNCHANGED torn
        PROVE  SealedStays(p)
    <3>1. CASE p # q
      BY <2>3, <3>1 DEF TypeOK, SealedStays
    <3>2. CASE p = q
      <4>1. row = [package[p] EXCEPT !.status = "unreadable"]
        BY <2>1, <2>3, <3>2 DEF DieLeaves, LoopDone
      <4>2. QED BY <2>3, <3>2, <4>1 DEF TypeOK, SealedStays
    <3>3. QED BY <3>1, <3>2
  <2>4. QED BY <1>7, <2>2, <2>3, DieCases
<1>8. CASE UNCHANGED vars
  BY <1>8, <1>1 DEF vars
<1>9. QED
  BY <1>2, <1>3, <1>4, <1>5, <1>6, <1>7, <1>8 DEF Next, Progress

(* sealPackage and isSealed: a sealed package is never modified, whichever *)
(* cycles follow; only the status in its package.json is still written.    *)
THEOREM SealedFinal == Spec => SealedIsFinal
<1>1. TypeOK /\ SealShape /\ [Next]_vars =>
        [\A p \in PackageId : package[p].sealed =>
            \E status \in {"sealed", "unreadable"} :
                package'[p] \in {package[p], [package[p] EXCEPT !.status = status]}]_vars
  BY SealedRow DEF SealedStays
<1>2. QED BY <1>1, SealShapeInvariant, PTL DEF Spec, SealedIsFinal

-----------------------------------------------------------------------------
(* The evidence behind a ledger.                                           *)

(* Firms, ledgers and torn appends change in a commit only.                *)
LEMMA EvidenceKept ==
    ASSUME TypeOK, [Next]_vars, worker.pc \notin {"rename", "append"}, NEW p \in PackageId
    PROVE  /\ package'[p].firms = package[p].firms
           /\ package'[p].ledger = package[p].ledger
           /\ package'[p].tail = package[p].tail
           /\ torn'[p] = torn[p]
<1> DEFINE q == worker.package
           Kept == /\ package'[p].firms = package[p].firms
                   /\ package'[p].ledger = package[p].ledger
                   /\ package'[p].tail = package[p].tail
                   /\ torn'[p] = torn[p]
<1>0. package \in [PackageId -> Package] /\ package[p] \in Package
  BY DEF TypeOK
<1>1. CASE UNCHANGED <<package, torn>>
  BY <1>1
<1>2. ASSUME NEW r \in PackageId, Create(r) PROVE Kept
  <2>1. package[r] \in Package
    BY <1>0
  <2>2. QED BY <1>0, <1>2, <2>1 DEF Create, Package
<1>3. ASSUME NEW r \in PackageId, ResumeOpen(r) \/ StartNew(r) \/ CreateTarget(r) \/ ResumeTarget(r)
      PROVE  Kept
  BY <1>1, <1>2, <1>3 DEF ResumeOpen, StartNew, CreateTarget, ResumeTarget
<1>4. ASSUME NEW f \in Firm, Skip(f) \/ Collect(f) \/ CollectFails(f) PROVE Kept
  BY <1>4 DEF Skip, Collect, CollectFails
<1>5. CASE WriteReports \/ ReportsFail
  <2>1. PICK left : package' = [package EXCEPT ![q].reports = left]
    BY <1>5 DEF WriteReports, ReportsFail
  <2>2. q \in PackageId /\ package[q] \in Package /\ torn' = torn
    BY <1>5, LiveCycle DEF WriteReports, ReportsFail, LoopDone
  <2>3. QED BY <1>0, <2>1, <2>2 DEF Package
<1>6. CASE WriteManifest
  BY <1>0, <1>6, LiveCycle DEF WriteManifest, Package
<1>7. CASE MarkCollected
  BY <1>0, <1>7, LiveCycle DEF MarkCollected, Package
<1>8. CASE Seal
  BY <1>0, <1>8, LiveCycle DEF Seal, Package
<1>9. CASE LeaveUnsealed
  BY <1>9 DEF LeaveUnsealed
<1>10. CASE MarkSealed
  BY <1>0, <1>10, LiveCycle DEF MarkSealed, Package
<1>11. CASE Die
  <2>1. worker.pc # "idle" /\ q \in PackageId /\ package[q] \in Package
    BY <1>11, LiveCycle DEF Die
  <2>2. CASE CutShort(q, worker.firm)
    BY <2>2 DEF CutShort
  <2>3. ASSUME NEW row, DieLeaves(row), package' = [package EXCEPT ![q] = row], UNCHANGED torn
        PROVE  Kept
    <3>1. row.firms = package[q].firms /\ row.ledger = package[q].ledger /\ row.tail = package[q].tail
      BY <2>1, <2>3 DEF DieLeaves, Package
    <3>2. QED BY <1>0, <2>1, <2>3, <3>1
  <2>4. QED BY <1>11, <2>2, <2>3, DieCases
<1>12. CASE UNCHANGED vars
  BY <1>12 DEF vars
<1>13. CASE Rename \/ Append \/ CommitFails
  BY <1>13 DEF Rename, Append, CommitFails
<1>14. QED
  BY <1>3, <1>4, <1>5, <1>6, <1>7, <1>8, <1>9, <1>10, <1>11, <1>12, <1>13 DEF Next, Progress

LEMMA EnterCommit ==
    ASSUME TypeOK, [Next]_vars, worker.pc \notin {"rename", "append"},
           worker'.pc \in {"rename", "append"}
    PROVE  /\ worker'.pc = "rename" /\ worker'.package = worker.package
           /\ worker'.firm \notin Committed(worker.package)
<1>0. worker \in Cycle
  BY DEF TypeOK
<1>1. ASSUME NEW r \in PackageId, ResumeOpen(r) \/ StartNew(r) \/ CreateTarget(r) \/ ResumeTarget(r)
      PROVE  FALSE
  <2>1. Begin(r) => worker'.pc = "firms"
    BY DEF Begin, Idle
  <2>2. QED BY <1>1, <2>1 DEF ResumeOpen, StartNew, CreateTarget, ResumeTarget, Create
<1>2. ASSUME NEW f \in Firm, Skip(f) \/ CollectFails(f) PROVE FALSE
  BY <1>0, <1>2 DEF Skip, CollectFails, Done, Failed, Cycle
<1>3. ASSUME NEW f \in Firm, Collect(f)
      PROVE  /\ worker'.pc = "rename" /\ worker'.package = worker.package
             /\ worker'.firm \notin Committed(worker.package)
  BY <1>0, <1>3 DEF Collect, Cycle
<1>4. CASE WriteReports \/ ReportsFail \/ WriteManifest \/ MarkCollected \/ Seal
  BY <1>0, <1>4 DEF WriteReports, ReportsFail, WriteManifest, MarkCollected, Seal, Goto, Cycle
<1>5. CASE LeaveUnsealed \/ MarkSealed \/ Die
  BY <1>5 DEF LeaveUnsealed, MarkSealed, Die, Idle
<1>6. CASE Rename \/ Append \/ CommitFails
  BY <1>6 DEF Rename, Append, CommitFails
<1>7. CASE UNCHANGED vars
  BY <1>7 DEF vars
<1>8. QED BY <1>1, <1>2, <1>3, <1>4, <1>5, <1>6, <1>7 DEF Next, Progress

(* What a process can do in the middle of a commit.                        *)
LEMMA CommitSteps ==
    ASSUME [Next]_vars, worker.pc \in {"rename", "append"}
    PROVE  \/ Rename \/ Append \/ UNCHANGED vars
           \/ CommitFails
           \/ Die /\ CutShort(worker.package, worker.firm)
<1>1. CASE \E r \in PackageId : ResumeOpen(r) \/ StartNew(r) \/ CreateTarget(r) \/ ResumeTarget(r)
  BY <1>1 DEF ResumeOpen, StartNew, CreateTarget, ResumeTarget, Create, Begin
<1>2. CASE \E f \in Firm : Skip(f) \/ CollectFails(f) \/ Collect(f)
  BY <1>2 DEF Skip, CollectFails, Collect, InLoop
<1>3. CASE \/ WriteReports \/ ReportsFail \/ WriteManifest \/ MarkCollected
           \/ Seal \/ LeaveUnsealed \/ MarkSealed
  BY <1>3 DEF WriteReports, ReportsFail, WriteManifest, MarkCollected, Seal,
              LeaveUnsealed, MarkSealed, LoopDone
<1>4. CASE Die
  BY <1>4, DieCases DEF DieLeaves, LoopDone
<1>5. QED BY <1>1, <1>2, <1>3, <1>4 DEF Next, Progress

(* Where a commit that is cut short leaves the package.                    *)
LEMMA CutShortRow ==
    ASSUME TypeOK, worker.pc \in {"rename", "append"}, CutShort(worker.package, worker.firm)
    PROVE  LET p == worker.package  f == worker.firm IN
           \/ UNCHANGED <<package, torn>>
           \/ /\ worker.pc = "rename" /\ torn' = torn
              /\ package'[p].ledger = package[p].ledger /\ package'[p].tail = package[p].tail
              /\ \A g \in Firm : g # f => package'[p].firms[g] = package[p].firms[g]
           \/ /\ worker.pc = "append" /\ torn'[p] = torn[p] + 1
              /\ package'[p].ledger = package[p].ledger
              /\ package'[p].tail \in {Fragment, f}
              /\ package'[p].firms = package[p].firms
<1> DEFINE p == worker.package
           f == worker.firm
<1>0. p \in PackageId /\ package[p] \in Package /\ f \in Firm /\ package \in [PackageId -> Package]
      /\ torn \in [PackageId -> Nat]
  BY LiveCycle DEF TypeOK
<1>1. CASE UNCHANGED <<package, torn>>
  BY <1>1
<1>2. ASSUME NEW left \in {"partial", "none"}, worker.pc = "rename",
             package' = [package EXCEPT ![p].firms[f] = left], UNCHANGED torn
      PROVE  /\ worker.pc = "rename" /\ torn' = torn
             /\ package'[p].ledger = package[p].ledger /\ package'[p].tail = package[p].tail
             /\ \A g \in Firm : g # f => package'[p].firms[g] = package[p].firms[g]
  BY <1>0, <1>2 DEF Package
<1>3. ASSUME NEW end \in {Fragment, f}, worker.pc = "append",
             package' = [package EXCEPT ![p] = Appended(p, f, end)],
             torn' = [torn EXCEPT ![p] = @ + 1]
      PROVE  /\ worker.pc = "append" /\ torn'[p] = torn[p] + 1
             /\ package'[p].ledger = package[p].ledger
             /\ package'[p].tail \in {Fragment, f}
             /\ package'[p].firms = package[p].firms
  BY <1>0, <1>3 DEF Appended, Package
<1>4. QED BY <1>1, <1>2, <1>3 DEF CutShort

(* A firm is removed or replaced in a package only while no reader of its  *)
(* ledger finds it, and is entered only once it is there, whole.           *)
CommitOrder ==
    /\ worker.pc = "rename" => worker.firm \notin Committed(worker.package)
    /\ worker.pc = "append" => package[worker.package].firms[worker.firm] = "whole"

LEMMA BackedInit == Init => LedgerIsBacked /\ CommitOrder
<1>1. Null \notin Firm
  BY PackageAssumption
<1>2. QED BY <1>1 DEF Init, LedgerIsBacked, CommitOrder, Verified, Committed, NoPackage, Idle

LEMMA BackedStep ==
    TypeOK /\ LedgerIsBacked /\ CommitOrder /\ [Next]_vars => LedgerIsBacked' /\ CommitOrder'
<1> SUFFICES ASSUME TypeOK, LedgerIsBacked, CommitOrder, [Next]_vars
             PROVE  LedgerIsBacked' /\ CommitOrder'
  OBVIOUS
<1>1. CASE worker.pc \notin {"rename", "append"}
  <2>1. LedgerIsBacked'
    BY <1>1, EvidenceKept DEF LedgerIsBacked, Verified, Committed
  <2>2. CommitOrder'
    <3>1. CASE worker'.pc \in {"rename", "append"}
      <4>1. /\ worker'.pc = "rename" /\ worker'.package = worker.package
            /\ worker'.firm \notin Committed(worker.package)
        BY <1>1, <3>1, EnterCommit
      <4>2. worker.pc # "idle"
        BY <3>1, <4>1, TypeStep DEF TypeOK
      <4>3. worker.package \in PackageId
        BY <4>2, LiveCycle
      <4>4. QED BY <1>1, <4>1, <4>3, EvidenceKept DEF CommitOrder, Committed
    <3>2. CASE worker'.pc \notin {"rename", "append"}
      BY <3>2 DEF CommitOrder
    <3>3. QED BY <3>1, <3>2
  <2>3. QED BY <2>1, <2>2
<1>2. CASE worker.pc \in {"rename", "append"}
  <2> PICK p \in PackageId, f \in Firm : p = worker.package /\ f = worker.firm
    BY <1>2, LiveCycle
  <2>0. /\ package[p] \in Package /\ Committed(p) \in SUBSET Firm /\ worker \in Cycle
        /\ package \in [PackageId -> Package] /\ Fragment \notin Firm /\ Null \notin Firm
    BY CommittedType, PackageAssumption DEF TypeOK
  <2>1. CASE Rename
    <3>1. /\ package'[p].ledger = package[p].ledger /\ package'[p].tail = package[p].tail
          /\ package'[p].firms[f] = "whole"
          /\ \A g \in Firm : g # f => package'[p].firms[g] = package[p].firms[g]
          /\ \A q \in PackageId : q # p => package'[q] = package[q]
      BY <2>0, <2>1 DEF Rename, Package
    <3>2. ASSUME NEW q \in PackageId, NEW g \in Committed(q)'
          PROVE  package'[q].firms[g] = "whole"
      <4>1. g \in Committed(q) /\ g \in Firm /\ package[q].firms[g] = "whole"
        BY <3>1, <3>2, CommittedType DEF LedgerIsBacked, Verified, Committed
      <4>2. QED BY <3>1, <4>1
    <3>3. CommitOrder'
      BY <2>0, <2>1, <3>1 DEF CommitOrder, Rename, Goto, Cycle
    <3>4. QED BY <3>2, <3>3 DEF LedgerIsBacked, Verified
  <2>2. CASE Append
    <3>1. /\ package'[p].ledger \subseteq package[p].ledger \cup {f} /\ package'[p].tail = Null
          /\ package'[p].firms = package[p].firms
          /\ \A q \in PackageId : q # p => package'[q] = package[q]
      BY <2>0, <2>2 DEF Append, Package
    <3>2. package[p].firms[f] = "whole"
      BY <2>2 DEF Append, CommitOrder
    <3>3. \A q \in PackageId : Verified(q)'
      <4>1. ASSUME NEW q \in PackageId, q # p PROVE Verified(q)'
        BY <3>1, <4>1 DEF LedgerIsBacked, Verified, Committed
      <4>2. Verified(p)'
        BY <2>0, <3>1, <3>2 DEF LedgerIsBacked, Verified, Committed
      <4>3. QED BY <4>1, <4>2
    <3>4. CommitOrder'
      BY <2>0, <2>2 DEF CommitOrder, Append, Done, Cycle
    <3>5. QED BY <3>3, <3>4 DEF LedgerIsBacked
  <2>3. CASE CutShort(p, f) /\ worker'.pc \notin {"rename", "append"}
    <3>1. \A q \in PackageId : q # p => package'[q] = package[q]
      BY <2>0, <2>3, CutShortKeeps, <1>2
    <3>2. \A g \in Committed(p)' : package'[p].firms[g] = "whole"
      <4>1. CASE UNCHANGED <<package, torn>>
        BY <2>0, <4>1 DEF LedgerIsBacked, Verified, Committed
      <4>2. CASE /\ worker.pc = "rename" /\ torn' = torn
                 /\ package'[p].ledger = package[p].ledger /\ package'[p].tail = package[p].tail
                 /\ \A g \in Firm : g # f => package'[p].firms[g] = package[p].firms[g]
        <5>1. Committed(p)' = Committed(p) /\ f \notin Committed(p)
          BY <4>2 DEF CommitOrder, Committed
        <5>2. QED BY <2>0, <4>2, <5>1, CommittedType DEF LedgerIsBacked, Verified
      <4>3. CASE /\ worker.pc = "append" /\ torn'[p] = torn[p] + 1
                 /\ package'[p].ledger = package[p].ledger
                 /\ package'[p].tail \in {Fragment, f}
                 /\ package'[p].firms = package[p].firms
        <5>1. package[p].firms[f] = "whole"
          BY <4>3 DEF CommitOrder
        <5>2. \A g \in package[p].ledger : package[p].firms[g] = "whole"
          BY <2>0 DEF LedgerIsBacked, Verified, Committed
        <5>3. Committed(p)' \subseteq package[p].ledger \cup {f}
          BY <2>0, <4>3 DEF Committed
        <5>4. QED BY <4>3, <5>1, <5>2, <5>3
      <4>4. QED BY <1>2, <2>3, <4>1, <4>2, <4>3, CutShortRow
    <3>3. LedgerIsBacked'
      BY <3>1, <3>2 DEF LedgerIsBacked, Verified, Committed
    <3>4. QED BY <2>3, <3>3 DEF CommitOrder
  <2>4. CASE CommitFails
    BY <2>0, <2>3, <2>4 DEF CommitFails, Failed, Cycle
  <2>5. CASE Die /\ CutShort(p, f)
    BY <2>3, <2>5 DEF Die, Idle
  <2>6. CASE UNCHANGED vars
    BY <2>6 DEF vars, LedgerIsBacked, CommitOrder, Verified, Committed
  <2>7. QED BY <1>2, <2>1, <2>2, <2>4, <2>5, <2>6, CommitSteps
<1>3. QED BY <1>1, <1>2

(* firm-commit.js: every firm in a ledger has its evidence in the package, *)
(* whatever a dead process or a failed operation has left.                 *)
THEOREM LedgerBacked == Spec => []LedgerIsBacked
<1>1. QED BY TypeInit, TypeStep, BackedInit, BackedStep, PTL DEF Spec

-----------------------------------------------------------------------------
(* What a sealed package says of itself.                                   *)

(* In the finish, what this cycle has written is about the ledger it read. *)
FinishShape ==
    LET p == worker.package IN
    /\ worker.pc \in {"firms", "rename", "append"} => ~worker.reported
    /\ worker.pc \in {"manifest", "collected", "seal"} /\ worker.reported =>
          package[p].reports = Committed(p)
    /\ worker.pc \in {"collected", "seal"} => package[p].manifest = Committed(p)

LEMMA FinishInit == Init => SealedDescribesItself /\ FinishShape
  BY DEF Init, SealedDescribesItself, FinishShape, NoPackage, Idle

LEMMA FinishStep == TypeOK /\ FinishShape /\ [Next]_vars => FinishShape'
<1> SUFFICES ASSUME TypeOK, FinishShape, [Next]_vars PROVE FinishShape'
  OBVIOUS
<1>0. worker \in Cycle /\ package \in [PackageId -> Package]
  BY DEF TypeOK
<1>1. ASSUME NEW r \in PackageId, ResumeOpen(r) \/ StartNew(r) \/ CreateTarget(r) \/ ResumeTarget(r)
      PROVE  FinishShape'
  <2>1. CASE Begin(r)
    BY <2>1 DEF Begin, Idle, FinishShape
  <2>2. CASE worker'.pc = "idle"
    BY <2>2 DEF FinishShape
  <2>3. QED
    BY <1>1, <2>1, <2>2 DEF ResumeOpen, StartNew, CreateTarget, ResumeTarget, Create
<1>2. ASSUME NEW f \in Firm, Skip(f) \/ Collect(f) \/ CollectFails(f) PROVE FinishShape'
  BY <1>0, <1>2 DEF Skip, Collect, CollectFails, InLoop, Done, Failed, Cycle, FinishShape
<1>3. CASE Rename \/ Append \/ CommitFails
  BY <1>0, <1>3 DEF Rename, Append, CommitFails, Goto, Done, Failed, Cycle, FinishShape
<1>4. CASE LeaveUnsealed \/ MarkSealed \/ Die
  BY <1>4 DEF LeaveUnsealed, MarkSealed, Die, Idle, FinishShape
<1>5. CASE UNCHANGED vars
  BY <1>5 DEF vars, FinishShape, Committed
<1>6. CASE WriteReports \/ ReportsFail \/ WriteManifest \/ MarkCollected \/ Seal
  <2>0. worker.pc \notin {"idle", "rename", "append"}
    BY <1>6 DEF WriteReports, ReportsFail, WriteManifest, MarkCollected, Seal, LoopDone
  <2> PICK p \in PackageId : p = worker.package
    BY <2>0, LiveCycle
  <2>1. package[p] \in Package /\ worker'.package = p /\ Committed(p)' = Committed(p)
    <3>1. Committed(p)' = Committed(p)
      BY <2>0, EvidenceKept DEF Committed
    <3>2. QED
      BY <1>0, <1>6, <3>1 DEF WriteReports, ReportsFail, WriteManifest, MarkCollected, Seal, Goto, Cycle
  <2>2. CASE WriteReports
    <3>1. package'[p].reports = Committed(p) /\ worker'.pc = "manifest"
      BY <1>0, <2>1, <2>2 DEF WriteReports, Package, Cycle
    <3>2. QED BY <2>1, <3>1 DEF FinishShape, Committed
  <2>3. CASE ReportsFail
    <3>1. worker'.pc = "manifest" /\ ~worker'.reported
      BY <1>0, <2>3 DEF ReportsFail, LoopDone, Cycle, FinishShape
    <3>2. QED BY <3>1 DEF FinishShape
  <2>4. CASE WriteManifest
    <3>1. /\ package'[p].manifest = Committed(p) /\ package'[p].reports = package[p].reports
          /\ worker'.pc = "collected" /\ worker.pc = "manifest" /\ worker'.reported = worker.reported
      BY <1>0, <2>1, <2>4 DEF WriteManifest, Goto, Package, Cycle
    <3>2. QED BY <2>1, <3>1 DEF FinishShape, Committed
  <2>5. CASE MarkCollected
    <3>1. /\ package'[p].manifest = package[p].manifest /\ package'[p].reports = package[p].reports
          /\ worker'.pc = "seal" /\ worker.pc = "collected" /\ worker'.reported = worker.reported
      BY <1>0, <2>1, <2>5 DEF MarkCollected, Goto, Package, Cycle
    <3>2. QED BY <2>1, <3>1 DEF FinishShape, Committed
  <2>6. CASE Seal
    BY <1>0, <2>6 DEF Seal, Goto, Cycle, FinishShape
  <2>7. QED BY <1>6, <2>2, <2>3, <2>4, <2>5, <2>6
<1>7. QED BY <1>1, <1>2, <1>3, <1>4, <1>5, <1>6 DEF Next, Progress

(* A package gets its seal from the cycle that may seal it.                *)
LEMMA Sealing ==
    ASSUME TypeOK, SealShape, [Next]_vars, NEW p \in PackageId,
           ~package[p].sealed, package'[p].sealed
    PROVE  /\ p = worker.package /\ worker.pc = "seal" /\ Sealable
           /\ package'[p].reports = package[p].reports
           /\ package'[p].manifest = package[p].manifest
<1> DEFINE q == worker.package
<1>0. /\ package \in [PackageId -> Package] /\ package[p] \in Package
      /\ worker.pc # "idle" => q \in PackageId /\ package[q] \in Package
  BY LiveCycle DEF TypeOK
<1>1. package'[p] # package[p]
  OBVIOUS
<1>2. ASSUME NEW r \in PackageId, ResumeOpen(r) \/ StartNew(r) \/ CreateTarget(r) \/ ResumeTarget(r)
      PROVE  FALSE
  <2>1. package[r] \in Package
    BY <1>0
  <2>2. ASSUME Create(r) PROVE FALSE
    <3>1. PICK status : package' = [package EXCEPT ![r].status = status]
      BY <2>2 DEF Create
    <3>2. QED BY <1>0, <2>1, <3>1 DEF Package
  <2>3. QED BY <1>1, <1>2, <2>2 DEF ResumeOpen, StartNew, CreateTarget, ResumeTarget
<1>3. CASE Rename
  BY <1>0, <1>3 DEF Rename, Package
<1>4. CASE Append
  BY <1>0, <1>4 DEF Append, Package
<1>5. CASE CommitFails
  BY <1>5, CutShortKeeps DEF CommitFails
<1>6. CASE WriteReports \/ ReportsFail
  <2>1. PICK left : package' = [package EXCEPT ![q].reports = left]
    BY <1>6 DEF WriteReports, ReportsFail
  <2>2. worker.pc # "idle"
    BY <1>6 DEF WriteReports, ReportsFail, LoopDone
  <2>3. QED BY <1>0, <2>1, <2>2 DEF Package
<1>7. CASE WriteManifest
  BY <1>0, <1>7 DEF WriteManifest, Package
<1>8. CASE MarkCollected
  BY <1>0, <1>8 DEF MarkCollected, Package
<1>9. CASE MarkSealed
  BY <1>0, <1>9 DEF MarkSealed, Package
<1>10. CASE Seal
  <2>1. p = q
    BY <1>0, <1>1, <1>10 DEF Seal
  <2>2. QED BY <1>0, <1>10, <2>1 DEF Seal, Package
<1>11. CASE Die
  <2>1. worker.pc # "idle"
    BY <1>11 DEF Die
  <2>2. CASE CutShort(q, worker.firm)
    BY <2>1, <2>2, CutShortKeeps
  <2>3. ASSUME NEW row, DieLeaves(row), package' = [package EXCEPT ![q] = row]
        PROVE  /\ p = q /\ worker.pc = "seal" /\ Sealable
               /\ package'[p].reports = package[p].reports
               /\ package'[p].manifest = package[p].manifest
    <3>1. p = q /\ package'[p] = row
      BY <1>0, <1>1, <2>1, <2>3
    <3>2. /\ worker.pc = "seal" /\ Sealable
          /\ row = [package[p] EXCEPT !.sealed = TRUE]
      BY <1>0, <2>3, <3>1 DEF DieLeaves, Package
    <3>3. QED BY <1>0, <3>1, <3>2 DEF Package
  <2>4. QED BY <1>11, <2>2, <2>3, DieCases
<1>12. CASE UNCHANGED package
  BY <1>1, <1>12
<1>13. QED
  BY <1>2, <1>3, <1>4, <1>5, <1>6, <1>7, <1>8, <1>9, <1>10, <1>11, <1>12
     DEF Next, Progress, Skip, Collect, CollectFails, LeaveUnsealed, vars

(* A sealed package keeps its ledger, its reports and its manifest.        *)
LEMMA SealedKeeps ==
    ASSUME TypeOK, SealShape, [Next]_vars, NEW p \in PackageId, package[p].sealed
    PROVE  /\ package'[p].reports = package[p].reports
           /\ package'[p].manifest = package[p].manifest
           /\ Committed(p)' = Committed(p) /\ torn'[p] = torn[p]
<1>1. package[p] \in Package
  BY DEF TypeOK
<1>2. PICK status : package'[p] \in {package[p], [package[p] EXCEPT !.status = status]}
  BY SealedRow DEF SealedStays
<1>3. QED BY <1>1, <1>2, SealedRow DEF SealedStays, Committed, Package

LEMMA DescribedStep ==
    TypeOK /\ SealShape /\ FinishShape /\ SealedDescribesItself /\ [Next]_vars
    => SealedDescribesItself'
<1> SUFFICES ASSUME TypeOK, SealShape, FinishShape, SealedDescribesItself, [Next]_vars,
                    NEW p \in PackageId, package'[p].sealed
             PROVE  package'[p].reports = Committed(p)' /\ package'[p].manifest = Committed(p)'
  BY DEF SealedDescribesItself, Committed
<1>1. CASE package[p].sealed
  BY <1>1, SealedKeeps DEF SealedDescribesItself
<1>2. CASE ~package[p].sealed
  <2>1. /\ p = worker.package /\ worker.pc = "seal" /\ worker.reported
        /\ package'[p].reports = package[p].reports
        /\ package'[p].manifest = package[p].manifest
    BY <1>2, Sealing DEF Sealable
  <2>2. Committed(p)' = Committed(p)
    BY <2>1, EvidenceKept DEF Committed
  <2>3. QED BY <2>1, <2>2 DEF FinishShape
<1>3. QED BY <1>1, <1>2

(* fca-observatory-worker.js, the finish: the reports and the manifest of  *)
(* a sealed package are about the firms its ledger holds.                  *)
THEOREM SealedDescribed == Spec => []SealedDescribesItself
<1>1. QED BY TypeInit, TypeStep, SealShapeInit, SealShapeStep, FinishInit, FinishStep,
             DescribedStep, PTL DEF Spec

-----------------------------------------------------------------------------
(* What a sealed package lacks.                                            *)

(* Firms the next record of a package's ledger may lose, with its own.     *)
Pending(p) == IF package[p].tail = Null THEN 0
              ELSE IF package[p].tail = Fragment THEN 1 ELSE 2

Uncommitted(p) == (Firm \ worker.todo) \ Committed(p)

(* A cycle without failures has committed the firms it is done with but    *)
(* for what torn appends have cost, or will with the next record.          *)
CountedLoss ==
    /\ \A p \in PackageId : package[p].tail # Null => torn[p] >= 1
    /\ worker.pc \in {"manifest", "collected", "seal"} => worker.todo = {}
    /\ worker.pc # "idle" /\ ~worker.failed =>
          LET p == worker.package IN
          worker.pc # "sealed" =>
              Cardinality(Uncommitted(p)) + Pending(p) <= 2 * torn[p]

LEMMA FirmsFinite ==
    ASSUME NEW S \in SUBSET Firm
    PROVE  IsFiniteSet(S) /\ Cardinality(S) \in Nat
  BY PackageAssumption, FS_Subset, FS_CardinalityType

LEMMA FirmsLess ==
    ASSUME NEW S \in SUBSET Firm, NEW T \in SUBSET S
    PROVE  Cardinality(T) <= Cardinality(S)
  BY FirmsFinite, FS_Subset

LEMMA FirmsMore ==
    ASSUME NEW S \in SUBSET Firm, NEW f \in Firm
    PROVE  Cardinality(S \cup {f}) <= Cardinality(S) + 1
  BY FirmsFinite, FS_AddElement

LEMMA DieIdle == Die => worker'.pc = "idle"
  BY DEF Die, Idle

LEMMA LossInit == Init => CountedLoss /\ SealedIsComplete
  BY DEF Init, CountedLoss, SealedIsComplete, NoPackage, Idle

LEMMA PendingType ==
    ASSUME TypeOK, NEW p \in PackageId
    PROVE  Pending(p) \in 0..2 /\ torn[p] \in Nat /\ Uncommitted(p) \in SUBSET Firm
  BY DEF Pending, TypeOK, Uncommitted

LEMMA LossOfCommit ==
    ASSUME TypeOK, CountedLoss, [Next]_vars, worker.pc \in {"rename", "append"}
    PROVE  CountedLoss'
<1> PICK p \in PackageId, f \in Firm : p = worker.package /\ f = worker.firm
  BY LiveCycle
<1>0. /\ package \in [PackageId -> Package] /\ package[p] \in Package /\ torn \in [PackageId -> Nat]
      /\ worker \in Cycle /\ Fragment \notin Firm /\ Null \notin Firm /\ Fragment # Null
  BY PackageAssumption DEF TypeOK
<1>1. CASE UNCHANGED vars
  BY <1>1 DEF vars, CountedLoss, Uncommitted, Committed, Pending
<1>2. CASE Rename
  <2>1. \A q \in PackageId : /\ package'[q].ledger = package[q].ledger
                             /\ package'[q].tail = package[q].tail
    BY <1>0, <1>2 DEF Rename, Package
  <2>2. /\ worker'.pc = "append" /\ worker'.package = p /\ worker'.todo = worker.todo
        /\ worker'.failed = worker.failed /\ torn' = torn
    BY <1>0, <1>2 DEF Rename, Goto, Cycle
  <2>3. QED BY <1>2, <2>1, <2>2 DEF CountedLoss, Uncommitted, Committed, Pending, Rename
<1>3. CASE Append
  <2>1. \A q \in PackageId : q # p => package'[q] = package[q]
    BY <1>0, <1>3 DEF Append
  <2>2. /\ package'[p].tail = Null
        /\ package'[p].ledger = IF package[p].tail = Null THEN package[p].ledger \cup {f}
                                ELSE package[p].ledger
    BY <1>0, <1>3 DEF Append, Package
  <2>3. /\ worker'.pc = "firms" /\ worker'.package = p /\ worker'.todo = worker.todo \ {f}
        /\ worker'.failed = worker.failed /\ torn' = torn
    BY <1>0, <1>3 DEF Append, Done, Cycle
  <2>4. \A q \in PackageId : package'[q].tail # Null => torn'[q] >= 1
    BY <2>1, <2>2, <2>3 DEF CountedLoss
  <2>5. ASSUME ~worker.failed
        PROVE  Cardinality(Uncommitted(p))' + Pending(p)' <= 2 * torn'[p]
    <3>0. /\ Cardinality(Uncommitted(p)) + Pending(p) <= 2 * torn[p] /\ torn[p] \in Nat
          /\ Uncommitted(p) \in SUBSET Firm /\ Cardinality(Uncommitted(p)) \in Nat
          /\ Uncommitted(p)' \in SUBSET Firm /\ Cardinality(Uncommitted(p)') \in Nat
      BY <1>3, <2>5, FirmsFinite DEF Append, CountedLoss, Uncommitted, TypeOK
    <3>1. Pending(p)' = 0
      BY <2>2 DEF Pending
    <3>2. CASE package[p].tail = Null
      <4>1. Uncommitted(p)' \subseteq Uncommitted(p)
        BY <1>0, <2>2, <2>3, <3>2 DEF Uncommitted, Committed
      <4>2. Pending(p) = 0
        BY <3>2 DEF Pending
      <4>3. Cardinality(Uncommitted(p)') <= Cardinality(Uncommitted(p))
        BY <3>0, <4>1, FirmsLess
      <4>4. QED BY <2>3, <3>0, <3>1, <4>2, <4>3
    <3>3. CASE package[p].tail = Fragment
      <4>1. Uncommitted(p)' \subseteq Uncommitted(p) \cup {f}
        BY <1>0, <2>2, <2>3, <3>3 DEF Uncommitted, Committed
      <4>2. Pending(p) = 1
        BY <1>0, <3>3 DEF Pending
      <4>3. /\ Cardinality(Uncommitted(p)') <= Cardinality(Uncommitted(p) \cup {f})
            /\ Cardinality(Uncommitted(p) \cup {f}) <= Cardinality(Uncommitted(p)) + 1
            /\ Cardinality(Uncommitted(p) \cup {f}) \in Nat
        BY <3>0, <4>1, FirmsLess, FirmsMore, FirmsFinite
      <4>4. QED BY <2>3, <3>0, <3>1, <4>2, <4>3
    <3>4. ASSUME NEW g \in Firm, package[p].tail = g
          PROVE  Cardinality(Uncommitted(p)') + Pending(p)' <= 2 * torn'[p]
      <4>1. Uncommitted(p)' \subseteq (Uncommitted(p) \cup {f}) \cup {g}
        BY <1>0, <2>2, <2>3, <3>4 DEF Uncommitted, Committed
      <4>2. Pending(p) = 2
        BY <1>0, <3>4 DEF Pending
      <4>3. Uncommitted(p) \cup {f} \in SUBSET Firm
        BY <3>0
      <4>4. /\ Cardinality(Uncommitted(p)') <= Cardinality((Uncommitted(p) \cup {f}) \cup {g})
            /\ Cardinality((Uncommitted(p) \cup {f}) \cup {g}) <= Cardinality(Uncommitted(p) \cup {f}) + 1
            /\ Cardinality(Uncommitted(p) \cup {f}) <= Cardinality(Uncommitted(p)) + 1
            /\ Cardinality(Uncommitted(p) \cup {f}) \in Nat
            /\ Cardinality((Uncommitted(p) \cup {f}) \cup {g}) \in Nat
        BY <3>0, <4>1, <4>3, FirmsLess, FirmsMore, FirmsFinite
      <4>5. QED BY <2>3, <3>0, <3>1, <4>2, <4>4
    <3>5. package[p].tail \in Firm \cup {Null, Fragment}
      BY <1>0 DEF Package
    <3>6. QED BY <3>2, <3>3, <3>4, <3>5
  <2>6. QED BY <2>3, <2>4, <2>5 DEF CountedLoss, Uncommitted, Committed, Pending
<1>4. CASE CutShort(p, f) /\ (worker'.pc = "idle" \/ (worker'.pc = "firms" /\ worker'.failed))
  <2>1. \A q \in PackageId : q # p => package'[q] = package[q] /\ torn'[q] = torn[q]
    BY <1>4, CutShortKeeps
  <2>2. package'[p].tail # Null => torn'[p] >= 1
    BY <1>0, <1>4, CutShortRow DEF CountedLoss
  <2>3. QED BY <1>4, <2>1, <2>2 DEF CountedLoss
<1>5. CASE CommitFails
  BY <1>0, <1>4, <1>5 DEF CommitFails, Failed, Cycle
<1>6. CASE Die /\ CutShort(p, f)
  <2>1. worker'.pc = "idle"
    BY <1>6, DieIdle
  <2>2. QED BY <1>4, <1>6, <2>1
<1>7. QED BY <1>1, <1>2, <1>3, <1>5, <1>6, CommitSteps

(* Outside a commit nothing is lost, and a cycle starts over its cohort.   *)
LEMMA LossElsewhere ==
    ASSUME TypeOK, CountedLoss, [Next]_vars, worker.pc \notin {"rename", "append"}
    PROVE  CountedLoss'
<1>0. /\ worker \in Cycle /\ package \in [PackageId -> Package] /\ torn \in [PackageId -> Nat]
      /\ \A p \in PackageId : /\ Committed(p)' = Committed(p) /\ Pending(p)' = Pending(p)
                              /\ torn'[p] = torn[p]
      /\ \A p \in PackageId : package'[p].tail # Null => torn'[p] >= 1
  BY EvidenceKept DEF TypeOK, Committed, Pending, CountedLoss
<1>1. ASSUME worker'.pc = "firms", worker'.package \in PackageId, worker'.todo = Firm
      PROVE  CountedLoss'
  <2> PICK p \in PackageId : p = worker'.package
    BY <1>1
  <2>1. Uncommitted(p)' = {}
    BY <1>1 DEF Uncommitted
  <2>2. Pending(p)' <= 2 * torn'[p]
    BY <1>0 DEF Pending, CountedLoss
  <2>3. Cardinality(Uncommitted(p))' = 0
    BY <2>1, FS_EmptySet
  <2>4. QED BY <1>0, <1>1, <2>2, <2>3, PendingType DEF CountedLoss, Pending, Uncommitted, Committed
<1>2. ASSUME NEW r \in PackageId, ResumeOpen(r) \/ StartNew(r) \/ CreateTarget(r) \/ ResumeTarget(r)
      PROVE  CountedLoss'
  <2>1. CASE Begin(r)
    BY <1>1, <2>1 DEF Begin, Idle
  <2>2. CASE worker'.pc = "idle"
    BY <1>0, <2>2 DEF CountedLoss
  <2>3. QED
    BY <1>2, <2>1, <2>2 DEF ResumeOpen, StartNew, CreateTarget, ResumeTarget, Create
<1>3. CASE worker'.pc \in {"idle", "sealed"} \/ (worker'.failed /\ worker'.pc = "firms")
  BY <1>0, <1>3 DEF CountedLoss
<1>4. ASSUME worker.pc # "idle", worker.pc # "sealed", worker'.package = worker.package,
             worker'.failed = worker.failed, worker'.pc \notin {"idle", "sealed"},
             worker'.todo \subseteq worker.todo,
             worker.todo \ worker'.todo \subseteq Committed(worker.package),
             worker'.pc \in {"manifest", "collected", "seal"} => worker'.todo = {}
      PROVE  CountedLoss'
  <2> PICK p \in PackageId : p = worker.package
    BY <1>4, LiveCycle
  <2>1. Uncommitted(p)' = Uncommitted(p)
    BY <1>0, <1>4 DEF Uncommitted
  <2>2. QED BY <1>0, <1>4, <2>1 DEF CountedLoss
<1>5. ASSUME NEW f \in Firm, Skip(f) \/ Collect(f) \/ CollectFails(f) PROVE CountedLoss'
  <2>1. CASE Skip(f)
    BY <1>0, <1>4, <1>5, <2>1 DEF Skip, InLoop, Done, Cycle
  <2>2. CASE Collect(f)
    BY <1>0, <1>4, <1>5, <2>2 DEF Collect, InLoop, Cycle
  <2>3. CASE CollectFails(f)
    BY <1>0, <1>3, <1>5, <2>3 DEF CollectFails, InLoop, Failed, Cycle
  <2>4. QED BY <1>5, <2>1, <2>2, <2>3
<1>6. CASE WriteReports \/ ReportsFail \/ WriteManifest \/ MarkCollected
  BY <1>0, <1>4, <1>6
     DEF WriteReports, ReportsFail, LoopDone, WriteManifest, MarkCollected, Goto, Cycle, CountedLoss
<1>7. CASE Seal \/ LeaveUnsealed \/ MarkSealed \/ Die
  <2>1. Seal => worker'.pc = "sealed"
    BY <1>0 DEF Seal, Goto, Cycle
  <2>2. LeaveUnsealed \/ MarkSealed => worker'.pc = "idle"
    BY DEF LeaveUnsealed, MarkSealed, Idle
  <2>3. QED BY <1>3, <1>7, <2>1, <2>2, DieIdle
<1>8. CASE Rename \/ Append \/ CommitFails
  BY <1>8 DEF Rename, Append, CommitFails
<1>9. CASE UNCHANGED vars
  BY <1>9 DEF vars, CountedLoss, Uncommitted, Committed, Pending
<1>10. QED BY <1>2, <1>5, <1>6, <1>7, <1>8, <1>9 DEF Next, Progress

LEMMA CompleteStep ==
    TypeOK /\ SealShape /\ CountedLoss /\ SealedIsComplete /\ [Next]_vars => SealedIsComplete'
<1> SUFFICES ASSUME TypeOK, SealShape, CountedLoss, SealedIsComplete, [Next]_vars,
                    NEW p \in PackageId, package'[p].sealed
             PROVE  Cardinality(Firm \ Committed(p)') <= 2 * torn'[p]
  BY DEF SealedIsComplete, Committed
<1>1. CASE package[p].sealed
  BY <1>1, SealedKeeps DEF SealedIsComplete
<1>2. CASE ~package[p].sealed
  <2>1. p = worker.package /\ worker.pc = "seal" /\ ~worker.failed
    BY <1>2, Sealing DEF Sealable
  <2>2. Committed(p)' = Committed(p) /\ torn'[p] = torn[p]
    BY <2>1, EvidenceKept DEF Committed
  <2>3. /\ Uncommitted(p) = Firm \ Committed(p)
        /\ Cardinality(Uncommitted(p)) + Pending(p) <= 2 * torn[p]
    BY <2>1 DEF CountedLoss, Uncommitted
  <2>4. QED BY <2>2, <2>3, PendingType, FirmsFinite
<1>3. QED BY <1>1, <1>2

(* evaluateSealable: a sealed package has every firm of the cohort in its  *)
(* ledger, but for two at most of each append that was torn.               *)
THEOREM SealedComplete == Spec => []SealedIsComplete
<1>1. TypeOK /\ CountedLoss /\ [Next]_vars => CountedLoss'
  BY LossOfCommit, LossElsewhere
<1>2. QED BY TypeInit, TypeStep, SealShapeInit, SealShapeStep, LossInit, <1>1,
             CompleteStep, PTL DEF Spec

-----------------------------------------------------------------------------
(* The cycles implement EvidencePackage.                                   *)

Stored(p) == {f \in Firm : package[p].firms[f] = "whole"}
SealOf(p) == IF package[p].sealed THEN <<package[p].reports, package[p].manifest>> ELSE Null

(* A firm is entered in a ledger only while no reader finds it there.      *)
EnteredOnce ==
    worker.pc \in {"rename", "append"} => worker.firm \notin Committed(worker.package)

EvidenceInv ==
    /\ TypeOK /\ SealShape /\ LedgerIsBacked /\ CommitOrder /\ EnteredOnce
    /\ FinishShape /\ SealedDescribesItself /\ CountedLoss /\ SealedIsComplete

LEMMA EnteredOnceStep ==
    ASSUME TypeOK, EnteredOnce, [Next]_vars
    PROVE  EnteredOnce'
<1>1. CASE worker'.pc \notin {"rename", "append"}
  BY <1>1 DEF EnteredOnce
<1>2. CASE worker.pc \notin {"rename", "append"} /\ worker'.pc \in {"rename", "append"}
  <2>1. /\ worker'.pc = "rename" /\ worker'.package = worker.package
        /\ worker'.firm \notin Committed(worker.package)
    BY <1>2, EnterCommit
  <2>2. worker.pc # "idle"
    BY <2>1, TypeStep DEF TypeOK
  <2>3. worker.package \in PackageId
    BY <2>2, LiveCycle
  <2>4. QED BY <1>2, <2>1, <2>3, EvidenceKept DEF EnteredOnce, Committed
<1>3. CASE worker.pc \in {"rename", "append"} /\ worker'.pc \in {"rename", "append"}
  <2> PICK p \in PackageId, f \in Firm : p = worker.package /\ f = worker.firm
    BY <1>3, LiveCycle
  <2>0. worker \in Cycle /\ package \in [PackageId -> Package] /\ package[p] \in Package
    BY DEF TypeOK
  <2>1. CASE Rename
    <3>1. /\ package'[p].ledger = package[p].ledger /\ package'[p].tail = package[p].tail
          /\ worker'.package = p /\ worker'.firm = f
      BY <2>0, <2>1 DEF Rename, Goto, Package, Cycle
    <3>2. QED BY <1>3, <3>1 DEF EnteredOnce, Committed
  <2>2. CASE UNCHANGED vars
    BY <2>2 DEF vars, EnteredOnce, Committed
  <2>3. Append => worker'.pc = "firms"
    BY <2>0 DEF Append, Done, Cycle
  <2>4. CommitFails => worker'.pc = "firms"
    BY <2>0 DEF CommitFails, Failed, Cycle
  <2>5. Die => worker'.pc = "idle"
    BY DieIdle
  <2>6. QED BY <1>3, <2>1, <2>2, <2>3, <2>4, <2>5, CommitSteps
<1>4. QED BY <1>1, <1>2, <1>3

LEMMA EvidenceInvariant == Spec => []EvidenceInv
<1>1. Init => EvidenceInv
  <2>1. Init => EnteredOnce
    BY DEF Init, EnteredOnce, Idle
  <2>2. QED
    BY <2>1, TypeInit, SealShapeInit, BackedInit, FinishInit, LossInit DEF EvidenceInv
<1>2. EvidenceInv /\ [Next]_vars => EvidenceInv'
  <2> SUFFICES ASSUME EvidenceInv, [Next]_vars PROVE EvidenceInv'
    OBVIOUS
  <2>1. TypeOK' /\ SealShape' /\ FinishShape'
    BY TypeStep, SealShapeStep, FinishStep DEF EvidenceInv
  <2>2. LedgerIsBacked' /\ CommitOrder' /\ EnteredOnce'
    BY BackedStep, EnteredOnceStep DEF EvidenceInv
  <2>3. CountedLoss' /\ SealedIsComplete'
    BY LossOfCommit, LossElsewhere, CompleteStep DEF EvidenceInv
  <2>4. SealedDescribesItself'
    BY DescribedStep DEF EvidenceInv
  <2>5. QED BY <2>1, <2>2, <2>3, <2>4 DEF EvidenceInv
<1>3. QED BY <1>1, <1>2, PTL DEF Spec

(* A seal that is there stays as it is, and there is a new one only at the *)
(* end of the cycle that may seal.                                         *)
LEMMA SealsStay ==
    ASSUME TypeOK, SealShape, [Next]_vars, NEW p \in PackageId,
           package[p].sealed \/ ~package'[p].sealed
    PROVE  SealOf(p)' = SealOf(p)
<1>1. CASE package[p].sealed
  <2>1. /\ package'[p].reports = package[p].reports
        /\ package'[p].manifest = package[p].manifest
    BY <1>1, SealedKeeps
  <2>2. package'[p].sealed
    <3>1. package[p] \in Package
      BY DEF TypeOK
    <3>2. PICK status : package'[p] \in {package[p], [package[p] EXCEPT !.status = status]}
      BY <1>1, SealedRow DEF SealedStays
    <3>3. QED BY <1>1, <3>1, <3>2 DEF Package
  <2>3. QED BY <1>1, <2>1, <2>2 DEF SealOf
<1>2. CASE ~package[p].sealed /\ ~package'[p].sealed
  BY <1>2 DEF SealOf
<1>3. QED BY <1>1, <1>2

(* The numbers the abstract package counts with are the worker's.          *)
LEMMA SameNumber == ASSUME NEW S PROVE Evidence!Cardinality(S) = Cardinality(S)
  BY DEF Evidence!Cardinality, Cardinality

(* What a step that touches one package's files makes of the whole.        *)
LEMMA OnePackageMoves ==
    ASSUME NEW p \in PackageId, NEW c, NEW s, Committed(p)' = c, Stored(p)' = s,
           \A q \in PackageId : q # p => package'[q] = package[q]
    PROVE  /\ [q \in PackageId |-> Committed(q)]'
                = [[q \in PackageId |-> Committed(q)] EXCEPT ![p] = c]
           /\ [q \in PackageId |-> Stored(q)]'
                = [[q \in PackageId |-> Stored(q)] EXCEPT ![p] = s]
<1>1. \A q \in PackageId : q # p => Committed(q)' = Committed(q) /\ Stored(q)' = Stored(q)
  BY DEF Committed, Stored
<1>2. [q \in PackageId |-> Committed(q)']
        = [[q \in PackageId |-> Committed(q)] EXCEPT ![p] = c]
  BY <1>1
<1>3. [q \in PackageId |-> Stored(q)']
        = [[q \in PackageId |-> Stored(q)] EXCEPT ![p] = s]
  BY <1>1
<1>4. QED BY <1>2, <1>3

(* Nothing of what a reader finds has changed.                             *)
Unseen ==
    /\ torn' = torn
    /\ \A p \in PackageId : /\ Committed(p)' = Committed(p) /\ Stored(p)' = Stored(p)
                            /\ SealOf(p)' = SealOf(p)

LEMMA UnseenStutters == Unseen => UNCHANGED Evidence!vars
<1> SUFFICES ASSUME Unseen PROVE UNCHANGED Evidence!vars
  OBVIOUS
<1>1. /\ [p \in PackageId |-> Committed(p)'] = [p \in PackageId |-> Committed(p)]
      /\ [p \in PackageId |-> Stored(p)'] = [p \in PackageId |-> Stored(p)]
      /\ [p \in PackageId |-> SealOf(p)'] = [p \in PackageId |-> SealOf(p)]
  BY DEF Unseen
<1>2. torn' = torn
  BY DEF Unseen
<1>3. QED BY <1>1, <1>2 DEF Evidence!vars, Stored, SealOf

(* Outside a commit a package is sealed, or nothing is seen.               *)
LEMMA FinishRefines ==
    ASSUME EvidenceInv, EvidenceInv', [Next]_vars, worker.pc \notin {"rename", "append"}
    PROVE  Evidence!Next \/ Unseen
<1>0. TypeOK /\ SealShape /\ TypeOK'
  BY DEF EvidenceInv
<1>1. \A p \in PackageId :
        /\ Committed(p)' = Committed(p) /\ Stored(p)' = Stored(p) /\ torn'[p] = torn[p]
  BY <1>0, EvidenceKept DEF Committed, Stored
<1>2. torn' = torn
  BY <1>0, <1>1 DEF TypeOK
<1>3. CASE \A p \in PackageId : package[p].sealed \/ ~package'[p].sealed
  BY <1>0, <1>1, <1>2, <1>3, SealsStay DEF Unseen
<1>4. ASSUME NEW p \in PackageId, ~package[p].sealed, package'[p].sealed
      PROVE  Evidence!Next
  <2>1. p = worker.package
    BY <1>0, <1>4, Sealing
  <2>2. \A q \in PackageId : q # p => SealOf(q)' = SealOf(q)
    <3> SUFFICES ASSUME NEW q \in PackageId, q # p PROVE SealOf(q)' = SealOf(q)
      OBVIOUS
    <3>1. package[q].sealed \/ ~package'[q].sealed
      BY <1>0, <2>1, Sealing
    <3>2. QED BY <1>0, <3>1, SealsStay
  <2>3. SealOf(p) = Null /\ SealOf(p)' = <<Committed(p), Committed(p)>>
    <3>1. package'[p].reports = Committed(p)' /\ package'[p].manifest = Committed(p)'
      BY <1>4 DEF EvidenceInv, SealedDescribesItself, Committed
    <3>2. QED BY <1>1, <1>4, <3>1 DEF SealOf
  <2>4. [q \in PackageId |-> SealOf(q)']
          = [[q \in PackageId |-> SealOf(q)] EXCEPT ![p] = <<Committed(p), Committed(p)>>]
    BY <2>2, <2>3
  <2>5. Committed(p) \subseteq Stored(p)
    <3>1. Committed(p) \in SUBSET Firm
      BY <1>0, CommittedType
    <3>2. QED BY <3>1 DEF EvidenceInv, LedgerIsBacked, Verified, Stored
  <2>6. Cardinality(Firm \ Committed(p)) <= 2 * torn[p]
    <3>1. Cardinality(Firm \ Committed(p)') <= 2 * torn'[p]
      BY <1>4 DEF EvidenceInv, SealedIsComplete, Committed
    <3>2. QED BY <1>1, <3>1
  <2>7. /\ [q \in PackageId |-> Committed(q)'] = [q \in PackageId |-> Committed(q)]
        /\ [q \in PackageId |-> Stored(q)'] = [q \in PackageId |-> Stored(q)]
    BY <1>1
  <2>8. Evidence!Seal(p)
    BY <1>2, <2>3, <2>4, <2>5, <2>6, <2>7, SameNumber DEF Evidence!Seal, Stored, SealOf
  <2>9. QED BY <2>8 DEF Evidence!Next
<1>5. QED BY <1>3, <1>4

(* A record that is appended, whole or not, enters its firm, takes out the *)
(* firm whose record it is glued to, or shows a reader nothing.            *)
LEMMA AppendReads ==
    ASSUME TypeOK, CountedLoss, EnteredOnce, NEW p \in PackageId, NEW f \in Firm,
           worker.pc = "append", p = worker.package, f = worker.firm,
           package'[p].tail \in {Null, Fragment, f},
           package[p].tail = Null
               => \/ package'[p].ledger = package[p].ledger
                  \/ package'[p].ledger = package[p].ledger \cup {f} /\ package'[p].tail = Null,
           package[p].tail # Null
               => package'[p].ledger = package[p].ledger /\ package'[p].tail # f
    PROVE  \/ Committed(p)' = Committed(p)
           \/ f \notin Committed(p) /\ Committed(p)' = Committed(p) \cup {f}
           \/ \E g \in Firm : torn[p] > 0 /\ Committed(p)' = Committed(p) \ {g}
<1>0. package[p] \in Package /\ torn[p] \in Nat /\ Null \notin Firm /\ Fragment \notin Firm
      /\ Fragment # Null
  BY PackageAssumption DEF TypeOK
<1>1. f \notin Committed(p)
  BY DEF EnteredOnce
<1>2. CASE package[p].tail = Null
  <2>1. Committed(p) = package[p].ledger
    BY <1>0, <1>2 DEF Committed
  <2>2. Committed(p)' \in {package[p].ledger, package[p].ledger \cup {f}}
    BY <1>0, <1>2 DEF Committed
  <2>3. QED BY <1>1, <2>1, <2>2
<1>3. CASE package[p].tail = Fragment
  <2>1. Committed(p) = package[p].ledger
    BY <1>0, <1>3 DEF Committed
  <2>2. Committed(p)' = package[p].ledger
    BY <1>0, <1>3 DEF Committed
  <2>3. QED BY <2>1, <2>2
<1>4. CASE package[p].tail \in Firm
  <2>1. Committed(p) = package[p].ledger \cup {package[p].tail}
    BY <1>4 DEF Committed
  <2>2. Committed(p)' = package[p].ledger
    BY <1>0, <1>4 DEF Committed
  <2>3. torn[p] > 0
    BY <1>0, <1>4 DEF CountedLoss
  <2>4. CASE package[p].tail \in package[p].ledger
    BY <2>1, <2>2, <2>4
  <2>5. CASE package[p].tail \notin package[p].ledger
    <3>1. Committed(p)' = Committed(p) \ {package[p].tail}
      BY <2>1, <2>2, <2>5
    <3>2. QED BY <1>4, <2>3, <3>1
  <2>6. QED BY <2>4, <2>5
<1>5. QED BY <1>0, <1>2, <1>3, <1>4 DEF Package

(* What the step of a commit leaves alone: seals, and the other packages.  *)
LEMMA CommitLeaves ==
    ASSUME EvidenceInv, [Next]_vars, worker.pc \in {"rename", "append"}
    PROVE  /\ ~package[worker.package].sealed
           /\ \A p \in PackageId : SealOf(p)' = SealOf(p)
           /\ \A p \in PackageId : p # worker.package => package'[p] = package[p]
<1>0. TypeOK /\ SealShape
  BY DEF EvidenceInv
<1>1. ~package[worker.package].sealed
  BY <1>0 DEF SealShape
<1>2. \A p \in PackageId : SealOf(p)' = SealOf(p)
  <2> SUFFICES ASSUME NEW p \in PackageId PROVE SealOf(p)' = SealOf(p)
    OBVIOUS
  <2>1. package[p].sealed \/ ~package'[p].sealed
    BY <1>0, Sealing
  <2>2. QED BY <1>0, <2>1, SealsStay
<1>3. ASSUME NEW p \in PackageId, p # worker.package PROVE package'[p] = package[p]
  <2>0. worker.package \in PackageId /\ package \in [PackageId -> Package]
    BY <1>0, LiveCycle DEF TypeOK
  <2>1. CASE CutShort(worker.package, worker.firm)
    BY <1>0, <1>3, <2>1, CutShortKeeps
  <2>2. CASE Rename
    BY <1>3, <2>0, <2>2 DEF Rename
  <2>3. CASE Append
    BY <1>3, <2>0, <2>3 DEF Append
  <2>4. CASE UNCHANGED vars
    BY <2>4 DEF vars
  <2>5. QED BY <2>1, <2>2, <2>3, <2>4, CommitSteps DEF CommitFails
<1>4. QED BY <1>1, <1>2, <1>3

(* A firm's evidence is placed, or taken out, before its record is written.*)
LEMMA StoreRefines ==
    ASSUME EvidenceInv, [Next]_vars, worker.pc = "rename"
    PROVE  Evidence!Next \/ Unseen
<1> PICK p \in PackageId, f \in Firm : p = worker.package /\ f = worker.firm
  BY LiveCycle DEF EvidenceInv
<1>0. /\ worker \in Cycle /\ package \in [PackageId -> Package] /\ package[p] \in Package
      /\ TypeOK
  BY DEF EvidenceInv, TypeOK
<1>1. /\ ~package[p].sealed /\ \A q \in PackageId : SealOf(q)' = SealOf(q)
      /\ \A q \in PackageId : q # p => package'[q] = package[q]
  BY CommitLeaves
<1>2. f \notin Committed(p)
  BY DEF EvidenceInv, EnteredOnce
<1>3. /\ [q \in PackageId |-> SealOf(q)'] = [q \in PackageId |-> SealOf(q)]
      /\ SealOf(p) = Null
  BY <1>1 DEF SealOf
<1>4. /\ [q \in PackageId |-> SealOf(q)][p] = Null
      /\ f \notin [q \in PackageId |-> Committed(q)][p]
      /\ [q \in PackageId |-> SealOf(q)]' = [q \in PackageId |-> SealOf(q)]
  BY <1>2, <1>3
<1>5. ASSUME NEW left \in {"partial", "none", "whole"}, UNCHANGED torn,
             package' = [package EXCEPT ![p].firms[f] = left]
      PROVE  Evidence!Next
  <2>1. /\ package'[p].ledger = package[p].ledger /\ package'[p].tail = package[p].tail
        /\ package'[p].firms = [package[p].firms EXCEPT ![f] = left]
        /\ package[p].firms \in [Firm -> {"none", "partial", "whole"}]
    BY <1>0, <1>5 DEF Package
  <2>2. Committed(p)' = Committed(p)
    BY <2>1 DEF Committed
  <2>3. /\ [q \in PackageId |-> Committed(q)'] = [q \in PackageId |-> Committed(q)]
        /\ \A q \in PackageId : q # p => Stored(q)' = Stored(q)
    BY <1>1, <2>2 DEF Committed, Stored
  <2>4. CASE left = "whole"
    <3>1. Stored(p)' = Stored(p) \cup {f}
      BY <2>1, <2>4 DEF Stored
    <3>2. [q \in PackageId |-> Stored(q)']
            = [[q \in PackageId |-> Stored(q)] EXCEPT ![p] = Stored(p) \cup {f}]
      BY <2>3, <3>1
    <3>3. [q \in PackageId |-> Stored(q)']
            = [[q \in PackageId |-> Stored(q)] EXCEPT
                 ![p] = [q \in PackageId |-> Stored(q)][p] \cup {f}]
      BY <3>2
    <3>4. Evidence!Place(p, f)
      BY <1>4, <1>5, <2>3, <3>3 DEF Evidence!Place, Stored, SealOf
    <3>5. QED BY <3>4 DEF Evidence!Next
  <2>5. CASE left # "whole"
    <3>1. Stored(p)' = Stored(p) \ {f}
      BY <2>1, <2>5 DEF Stored
    <3>2. [q \in PackageId |-> Stored(q)']
            = [[q \in PackageId |-> Stored(q)] EXCEPT ![p] = Stored(p) \ {f}]
      BY <2>3, <3>1
    <3>3. [q \in PackageId |-> Stored(q)']
            = [[q \in PackageId |-> Stored(q)] EXCEPT
                 ![p] = [q \in PackageId |-> Stored(q)][p] \ {f}]
      BY <3>2
    <3>4. Evidence!TakeOut(p, f)
      BY <1>4, <1>5, <2>3, <3>3 DEF Evidence!TakeOut, Stored, SealOf
    <3>5. QED BY <3>4 DEF Evidence!Next
  <2>6. QED BY <2>4, <2>5
<1>6. CASE UNCHANGED <<package, torn>>
  BY <1>6 DEF Unseen, Committed, Stored, SealOf
<1>7. CASE Rename
  BY <1>5, <1>7 DEF Rename
<1>8. CASE CutShort(p, f)
  <2>1. CASE UNCHANGED <<package, torn>>
    BY <1>6, <2>1
  <2>2. ASSUME NEW left \in {"partial", "none"}, UNCHANGED torn,
               package' = [package EXCEPT ![p].firms[f] = left]
        PROVE  Evidence!Next
    BY <1>5, <2>2
  <2>3. QED BY <1>8, <2>1, <2>2 DEF CutShort
<1>9. QED BY <1>6, <1>7, <1>8, CommitSteps DEF CommitFails, Append, vars

(* The record is entered, is lost or costs another its place, and an       *)
(* append that is cut short is a torn one.                                 *)
LEMMA RecordRefines ==
    ASSUME EvidenceInv, [Next]_vars, worker.pc = "append"
    PROVE  Evidence!Next \/ Unseen
<1> PICK p \in PackageId, f \in Firm : p = worker.package /\ f = worker.firm
  BY LiveCycle DEF EvidenceInv
<1>0. /\ worker \in Cycle /\ package \in [PackageId -> Package] /\ package[p] \in Package
      /\ TypeOK /\ Null \notin Firm /\ Fragment \notin Firm /\ Fragment # Null
  BY PackageAssumption DEF EvidenceInv, TypeOK
<1>1. /\ ~package[p].sealed /\ \A q \in PackageId : SealOf(q)' = SealOf(q)
      /\ \A q \in PackageId : q # p => package'[q] = package[q]
  BY CommitLeaves
<1>2. f \in Stored(p)
  BY DEF EvidenceInv, CommitOrder, Stored
<1>3. /\ [q \in PackageId |-> SealOf(q)'] = [q \in PackageId |-> SealOf(q)]
      /\ SealOf(p) = Null
  BY <1>1 DEF SealOf
<1>4. ASSUME package'[p].firms = package[p].firms,
             package'[p].tail \in {Null, Fragment, f},
             package[p].tail = Null
                 => \/ package'[p].ledger = package[p].ledger
                    \/ package'[p].ledger = package[p].ledger \cup {f} /\ package'[p].tail = Null,
             package[p].tail # Null
                 => package'[p].ledger = package[p].ledger /\ package'[p].tail # f
      PROVE  /\ [q \in PackageId |-> Stored(q)'] = [q \in PackageId |-> Stored(q)]
             /\ \/ [q \in PackageId |-> Committed(q)'] = [q \in PackageId |-> Committed(q)]
                \/ \E g \in Firm : Evidence!Entered(p, g) \/ Evidence!Lost(p, g)
  <2>1. Stored(p)' = Stored(p)
    BY <1>4 DEF Stored
  <2>2. [q \in PackageId |-> Stored(q)'] = [q \in PackageId |-> Stored(q)]
    BY <1>1, <2>1 DEF Stored
  <2>3. CASE Committed(p)' = Committed(p)
    <3>1. [q \in PackageId |-> Committed(q)'] = [q \in PackageId |-> Committed(q)]
      BY <1>1, <2>3 DEF Committed
    <3>2. QED BY <2>2, <3>1
  <2>4. CASE f \notin Committed(p) /\ Committed(p)' = Committed(p) \cup {f}
    <3>1. [q \in PackageId |-> Committed(q)']
            = [[q \in PackageId |-> Committed(q)] EXCEPT ![p] = Committed(p) \cup {f}]
      BY <1>1, <2>1, <2>4, OnePackageMoves
    <3>2. Evidence!Entered(p, f)
      BY <1>2, <2>4, <3>1 DEF Evidence!Entered, Stored
    <3>3. QED BY <2>2, <3>2
  <2>5. ASSUME NEW g \in Firm, torn[p] > 0, Committed(p)' = Committed(p) \ {g}
        PROVE  Evidence!Lost(p, g)
    <3>1. [q \in PackageId |-> Committed(q)']
            = [[q \in PackageId |-> Committed(q)] EXCEPT ![p] = Committed(p) \ {g}]
      BY <1>1, <2>1, <2>5, OnePackageMoves
    <3>2. QED BY <2>5, <3>1 DEF Evidence!Lost
  <2>6. CountedLoss /\ EnteredOnce
    BY DEF EvidenceInv
  <2>7. QED BY <1>0, <1>4, <2>2, <2>3, <2>4, <2>5, <2>6, AppendReads
<1>5. CASE UNCHANGED <<package, torn>>
  BY <1>5 DEF Unseen, Committed, Stored, SealOf
<1>6. CASE Append
  <2>1. /\ package'[p].firms = package[p].firms /\ package'[p].tail = Null /\ torn' = torn
        /\ package'[p].ledger = IF package[p].tail = Null THEN package[p].ledger \cup {f}
                                ELSE package[p].ledger
    BY <1>0, <1>6 DEF Append, Package
  <2>2. /\ [q \in PackageId |-> Stored(q)'] = [q \in PackageId |-> Stored(q)]
        /\ \/ [q \in PackageId |-> Committed(q)'] = [q \in PackageId |-> Committed(q)]
           \/ \E g \in Firm : Evidence!Entered(p, g) \/ Evidence!Lost(p, g)
    BY <1>0, <1>4, <2>1
  <2>3. CASE [q \in PackageId |-> Committed(q)'] = [q \in PackageId |-> Committed(q)]
    <3>1. ASSUME NEW q \in PackageId
          PROVE  /\ Committed(q)' = Committed(q) /\ Stored(q)' = Stored(q)
                 /\ SealOf(q)' = SealOf(q)
      BY <1>1, <2>2, <2>3
    <3>2. QED BY <2>1, <3>1 DEF Unseen
  <2>4. ASSUME NEW g \in Firm, Evidence!Entered(p, g) \/ Evidence!Lost(p, g)
        PROVE  Evidence!Next
    <3>1. Evidence!Commit(p, g)
      BY <1>3, <2>1, <2>2, <2>4 DEF Evidence!Commit, Stored, SealOf
    <3>2. QED BY <3>1 DEF Evidence!Next
  <2>5. QED BY <2>2, <2>3, <2>4
<1>7. CASE CutShort(p, f)
  <2>1. ASSUME NEW end \in {Fragment, f}, torn' = [torn EXCEPT ![p] = @ + 1],
               package' = [package EXCEPT ![p] = Appended(p, f, end)]
        PROVE  Evidence!Next
    <3>1. /\ package'[p].firms = package[p].firms /\ package'[p].ledger = package[p].ledger
          /\ package'[p].tail = IF package[p].tail = Null THEN end ELSE Fragment
      BY <1>0, <2>1 DEF Appended, Package
    <3>2. /\ [q \in PackageId |-> Stored(q)'] = [q \in PackageId |-> Stored(q)]
          /\ \/ [q \in PackageId |-> Committed(q)'] = [q \in PackageId |-> Committed(q)]
             \/ \E g \in Firm : Evidence!Entered(p, g) \/ Evidence!Lost(p, g)
      BY <1>0, <1>4, <3>1
    <3>3. \E g \in Firm : Evidence!Tear(p, g)
      BY <1>3, <2>1, <3>2 DEF Evidence!Tear, Committed, Stored, SealOf
    <3>4. QED BY <3>3 DEF Evidence!Next
  <2>2. QED BY <1>5, <1>7, <2>1 DEF CutShort
<1>8. QED BY <1>5, <1>6, <1>7, CommitSteps DEF CommitFails, Rename, vars

LEMMA EvidenceStep ==
    EvidenceInv /\ EvidenceInv' /\ [Next]_vars => [Evidence!Next]_(Evidence!vars)
<1> SUFFICES ASSUME EvidenceInv, EvidenceInv', [Next]_vars
             PROVE  Evidence!Next \/ UNCHANGED Evidence!vars
  OBVIOUS
<1>1. Evidence!Next \/ Unseen
  BY FinishRefines, StoreRefines, RecordRefines
<1>2. QED BY <1>1, UnseenStutters

(* Cycles that are resumed, targeted, failed or cut short anywhere keep    *)
(* what the packages promise: evidence a reader of the ledger finds is     *)
(* never taken out, firms leave the ledger only where an append was torn,  *)
(* and a seal states what the ledger holds and ends all change.            *)
THEOREM EvidencePackageKept == Spec => KeepsEvidence
<1>1. Init => Evidence!Init
  <2> SUFFICES ASSUME Init PROVE Evidence!Init
    OBVIOUS
  <2>1. ASSUME NEW p \in PackageId
        PROVE  Committed(p) = {} /\ Stored(p) = {} /\ SealOf(p) = Null
    <3>1. package[p] = NoPackage /\ Null \notin Firm
      BY PackageAssumption DEF Init
    <3>2. QED BY <3>1 DEF NoPackage, Committed, Stored, SealOf
  <2>2. /\ [p \in PackageId |-> Committed(p)] = [p \in PackageId |-> {}]
        /\ [p \in PackageId |-> Stored(p)] = [p \in PackageId |-> {}]
        /\ [p \in PackageId |-> SealOf(p)] = [p \in PackageId |-> Null]
    BY <2>1
  <2>3. QED BY <2>2 DEF Init, Evidence!Init, Stored, SealOf
<1>2. QED
  BY <1>1, EvidenceInvariant, EvidenceStep, PTL DEF Spec, KeepsEvidence, Evidence!Spec
=============================================================================

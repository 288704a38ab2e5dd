----------------------- MODULE AcquisitionLedgerProofs -----------------------
(***************************************************************************)
(* Proofs about AcquisitionLedger for any number of companies, firms, tool *)
(* runs and faults, and any number of tools running at once.               *)
(***************************************************************************)
EXTENDS AcquisitionLedger, TLAPS

-----------------------------------------------------------------------------
(* Type correctness.                                                       *)

(* What TypeOK says of one slot.                                           *)
SlotOK(p) ==
    /\ inHand[p] # None <=> pc[p] \in Busy
    /\ pc[p] = "created" => At(p, "created", "unseen")
    /\ pc[p] = "working" => index[p][inHand[p]].state \in {"claimed", "matched", "enriched"}
    /\ pc[p] = "failing" => At(p, "failing", "enriched")
    /\ pc[p] = "written" => index[p][inHand[p]].state \in {"enriched", "persisted"}

SlotTypes ==
    /\ pc \in [Tool -> Busy \cup {"idle", "recovering", "choosing"}]
    /\ tool \in [Tool -> {"acquire", "resolve"}]
    /\ index \in [Tool -> [Company -> Record]]
    /\ todo \in [Tool -> SUBSET Company]
    /\ inHand \in [Tool -> Company \cup {None}]

FileTypes ==
    /\ ledger \in [Company -> Record]
    /\ tail \in [company: Company \cup {None, Fragment}, state: State]
    /\ registry \in [Company -> Nat]
    /\ rtail \in Company \cup {None, Fragment}

OtherTypes ==
    /\ rewrite \in [pc: {"off", "loaded", "writing"}, records: SUBSET Company]
    /\ runs \in Nat /\ faults \in Nat
    /\ truth \in [Company -> State]
    /\ raced \subseteq Company /\ unsure \subseteq Company
    /\ orphaned \subseteq Company /\ exposed \subseteq Company

LEMMA TypeParts == TypeOK <=> FileTypes /\ SlotTypes /\ OtherTypes /\ \A p \in Tool : SlotOK(p)
  BY DEF TypeOK, FileTypes, SlotTypes, OtherTypes, SlotOK

LEMMA TypePartsNext ==
    ASSUME FileTypes', SlotTypes', OtherTypes', \A p \in Tool : SlotOK(p)'
    PROVE  TypeOK'
  BY DEF TypeOK, FileTypes, SlotTypes, OtherTypes, SlotOK, At

(* A step of slot p leaves the others as they are.                         *)
LEMMA OneSlot ==
    ASSUME TypeOK, NEW p \in Tool, SlotOK(p)',
           \A q \in Tool \ {p} : pc'[q] = pc[q] /\ inHand'[q] = inHand[q] /\ index'[q] = index[q]
    PROVE  \A q \in Tool : SlotOK(q)'
  BY TypeParts DEF SlotOK, At

(* A company in hand is one, and nothing else.                             *)
LEMMA InHand ==
    ASSUME TypeOK, NEW p \in Tool
    PROVE  /\ inHand[p] \in Company \cup {None}
           /\ None \notin Company
           /\ pc[p] \in Busy <=> inHand[p] \in Company
           /\ pc[p] \in Busy <=> inHand[p] # None
  BY AcquisitionAssumption DEF TypeOK

LEMMA Records ==
    /\ Unknown \in Record
    /\ \A r \in Record, s \in State :
         Advance(r, s) \in Record /\ Advance(r, s).state = s
  BY DEF Unknown, Record, Advance, State

LEMMA OnFileType == TypeOK => \A c \in Company : OnFile(c) \in Record
  BY Records DEF OnFile, TypeOK

LEMMA TransitionsAre ==
    /\ Transitions \in [State -> SUBSET State]
    /\ Transitions["claimed"] = {"matched", "dropped", "ambiguous", "failed"}
    /\ Transitions["matched"] = {"enriched", "failed"}
    /\ Transitions["enriched"] = {"persisted", "failed"}
    /\ Transitions["persisted"] = {"complete"}
    /\ \A s \in State : "claimed" \in Transitions[s] <=> s \in {"unseen", "failed", "ambiguous"}
  BY DEF Transitions, State

LEMMA StateNames == "ambiguous" \in State /\ InFlight \subseteq State
  BY DEF State, InFlight

LEMMA InitType == Init => TypeOK
  BY AcquisitionAssumption, Records DEF Init, TypeOK, Clean, State, Busy, At, Record, Unknown

(* What a line does to the ledger, to the index and to the history.        *)
LEMMA NoteType ==
    ASSUME TypeOK, NEW p \in Tool, NEW c \in Company, NEW s \in State, Note(p, c, s)
    PROVE  /\ truth' \in [Company -> State] /\ raced' \subseteq Company
           /\ truth'[c] = s /\ \A d \in Company \ {c} : truth'[d] = truth[d]
           /\ raced \subseteq raced' /\ raced' \subseteq raced \cup {c}
           /\ c \notin raced' => ~Races(p, c)
  BY DEF TypeOK, Note

LEMMA AppendType ==
    ASSUME TypeOK, NEW p \in Tool, NEW c \in Company, NEW s \in State, Append(p, c, s)
    PROVE  /\ ledger' \in [Company -> Record]
           /\ tail' = Clean /\ tail' \in [company: Company \cup {None, Fragment}, state: State]
           /\ index' \in [Tool -> [Company -> Record]]
           /\ index'[p][c].state = s
           /\ \A d \in Company \ {c} : index'[p][d] = index[p][d]
           /\ \A q \in Tool \ {p} : index'[q] = index[q]
           /\ truth' \in [Company -> State] /\ raced' \subseteq Company
           /\ truth'[c] = s /\ \A d \in Company \ {c} : truth'[d] = truth[d]
           /\ raced \subseteq raced' /\ raced' \subseteq raced \cup {c}
           /\ c \notin raced' => ~Races(p, c)
<1>1. ledger \in [Company -> Record] /\ index \in [Tool -> [Company -> Record]]
  BY DEF TypeOK
<1>2. ledger' \in [Company -> Record]
  BY <1>1, Records DEF Append
<1>3. tail' = Clean /\ Clean \in [company: Company \cup {None, Fragment}, state: State]
  BY DEF Append, Clean, State
<1>4. index[p] \in [Company -> Record] /\ index[p][c] \in Record
  BY <1>1
<1>5. PICK r \in Record : r = Advance(index[p][c], s) /\ r.state = s
  BY <1>4, Records
<1>6. index' = [index EXCEPT ![p] = [index[p] EXCEPT ![c] = r]]
  BY <1>1, <1>5 DEF Append
<1>7. index'[p] = [index[p] EXCEPT ![c] = r] /\ \A q \in Tool \ {p} : index'[q] = index[q]
  BY <1>1, <1>6
<1>8. index'[p][c] = r /\ \A d \in Company \ {c} : index'[p][d] = index[p][d]
  BY <1>4, <1>7
<1>9. index' \in [Tool -> [Company -> Record]]
  BY <1>1, <1>4, <1>6
<1>10. QED BY <1>2, <1>3, <1>5, <1>7, <1>8, <1>9, NoteType DEF Append

LEMMA IdleType ==
    ASSUME TypeOK, NEW p \in Tool, Idle(p)
    PROVE  SlotTypes' /\ \A q \in Tool : SlotOK(q)'
<1>1. /\ pc'[p] = "idle" /\ inHand'[p] = None
      /\ \A q \in Tool \ {p} : pc'[q] = pc[q] /\ inHand'[q] = inHand[q] /\ index'[q] = index[q]
  BY DEF Idle, TypeOK
<1>2. [c \in Company |-> Unknown] \in [Company -> Record]
  BY Records
<1>3. SlotTypes'
  BY <1>2 DEF Idle, TypeOK, SlotTypes, Busy
<1>4. SlotOK(p)'
  BY <1>1 DEF SlotOK, Busy, At
<1>5. QED BY <1>1, <1>3, <1>4, OneSlot

LEMMA UpdateType ==
    ASSUME TypeOK, NEW p \in Tool, NEW s \in State, Update(p, s), pc[p] \in {"working", "failing", "written"},
           s \in InFlight =>
               \/ pc[p] = "working" /\ s \in {"matched", "enriched"}
               \/ pc[p] = "written" /\ s = "persisted"
    PROVE  TypeOK'
<1> DEFINE c == inHand[p]
<1>1. c \in Company /\ c # None
  BY InHand DEF Busy
<1>2. Append(p, c, s)
  BY DEF Update
<1>3. FileTypes' /\ OtherTypes' /\ SlotTypes'
  <2>1. UNCHANGED <<registry, rtail, tool, todo, rewrite, runs, faults, unsure, orphaned, exposed>>
    BY DEF Update
  <2>2. /\ pc' = pc \/ pc' = [pc EXCEPT ![p] = "choosing"]
        /\ inHand' = inHand \/ inHand' = [inHand EXCEPT ![p] = None]
    BY DEF Update
  <2>3. SlotTypes'
    <3>1. index' \in [Tool -> [Company -> Record]]
      BY <1>1, <1>2, AppendType
    <3>2. pc' \in [Tool -> Busy \cup {"idle", "recovering", "choosing"}]
      BY <2>2 DEF TypeOK
    <3>3. inHand' \in [Tool -> Company \cup {None}]
      BY <2>2 DEF TypeOK
    <3>4. tool' \in [Tool -> {"acquire", "resolve"}] /\ todo' \in [Tool -> SUBSET Company]
      BY <2>1 DEF TypeOK
    <3>5. QED BY <3>1, <3>2, <3>3, <3>4 DEF SlotTypes
  <2>4. FileTypes' /\ OtherTypes'
    BY <1>1, <1>2, <2>1, AppendType DEF TypeOK, FileTypes, OtherTypes
  <2>5. QED BY <2>3, <2>4
<1>4. \A q \in Tool \ {p} : pc'[q] = pc[q] /\ inHand'[q] = inHand[q] /\ index'[q] = index[q]
  BY <1>1, <1>2, AppendType DEF TypeOK, Update
<1>5. SlotOK(p)'
  <2>1. CASE s \in InFlight
    <3>1. pc'[p] = pc[p] /\ inHand'[p] = c /\ index'[p][c].state = s
      BY <1>1, <1>2, <2>1, AppendType DEF Update
    <3>2. QED BY <1>1, <2>1, <3>1 DEF SlotOK, At, Busy, InFlight
  <2>2. CASE s \notin InFlight
    <3>1. pc'[p] = "choosing" /\ inHand'[p] = None
      BY <2>2 DEF Update, TypeOK
    <3>2. QED BY <3>1 DEF SlotOK, At, Busy
  <2>3. QED BY <2>1, <2>2
<1>6. QED BY <1>3, <1>4, <1>5, OneSlot, TypePartsNext

(* Steps that change nothing but a slot's company, place or list.          *)
LEMMA TypeOpen == ASSUME TypeOK, NEW p \in Tool, Acquire(p) \/ Resolve(p) PROVE TypeOK'
<1>1. PICK t \in {"acquire", "resolve"}, first \in {"choosing", "recovering"} : Open(p, t, first)
  BY DEF Acquire, Resolve
<1>2. [c \in Company |-> OnFile(c)] \in [Company -> Record]
  BY OnFileType
<1>3. todo' \in [Tool -> SUBSET Company]
  BY DEF Acquire, Resolve, TypeOK
<1>4. SlotTypes' /\ FileTypes' /\ OtherTypes'
  <2>1. SlotTypes'
    BY <1>1, <1>2, <1>3 DEF Open, TypeOK, SlotTypes
  <2>2. UNCHANGED <<files, rewrite, faults, history>> /\ runs' = runs + 1
    BY <1>1 DEF Open, Run
  <2>3. QED BY <2>1, <2>2 DEF TypeOK, FileTypes, OtherTypes, files, history
<1>5. inHand[p] = None
  BY <1>1, InHand DEF Open, Busy
<1>6. pc'[p] = first /\ inHand'[p] = None
  BY <1>1, <1>5 DEF Open, TypeOK
<1>7. SlotOK(p)'
  BY <1>6 DEF SlotOK, Busy, At
<1>8. \A q \in Tool \ {p} : pc'[q] = pc[q] /\ inHand'[q] = inHand[q] /\ index'[q] = index[q]
  BY <1>1 DEF Open, TypeOK
<1>9. QED BY <1>4, <1>7, <1>8, OneSlot, TypePartsNext

LEMMA TypeList ==
    ASSUME TypeOK, NEW p \in Tool,
           \/ \E companies \in SUBSET Company : List(p, companies)
           \/ \E c \in Company : Pass(p, c)
    PROVE  TypeOK'
<1>1. pc[p] \in {"recovering", "choosing"} /\ pc'[p] \in {"recovering", "choosing"}
  BY DEF List, Pass, TypeOK
<1>2. inHand[p] = None
  BY <1>1, InHand DEF Busy
<1>3. SlotTypes' /\ FileTypes' /\ OtherTypes'
  <2>1. SlotTypes'
    <3>1. CASE \E companies \in SUBSET Company : List(p, companies)
      BY <3>1 DEF List, TypeOK, SlotTypes
    <3>2. CASE \E c \in Company : Pass(p, c)
      BY <3>2 DEF Pass, Left, TypeOK, SlotTypes
    <3>3. QED BY <3>1, <3>2
  <2>2. UNCHANGED <<files, rewrite, runs, faults, history>>
    BY DEF List, Pass
  <2>3. QED BY <2>1, <2>2 DEF TypeOK, FileTypes, OtherTypes, files, history
<1>4. SlotOK(p)'
  BY <1>1, <1>2 DEF SlotOK, Busy, At, List, Pass
<1>5. \A q \in Tool \ {p} : pc'[q] = pc[q] /\ inHand'[q] = inHand[q] /\ index'[q] = index[q]
  BY DEF List, Pass, TypeOK
<1>6. QED BY <1>3, <1>4, <1>5, OneSlot, TypePartsNext

LEMMA TypeRecover == ASSUME TypeOK, NEW p \in Tool, NEW c \in Company, Recover(p, c) PROVE TypeOK'
<1>1. Append(p, c, "ambiguous") /\ "ambiguous" \in State
  BY DEF Recover, State
<1>2. inHand[p] = None /\ pc[p] = "recovering"
  BY InHand DEF Recover, Busy
<1>3. FileTypes' /\ OtherTypes' /\ SlotTypes'
  BY <1>1, AppendType DEF TypeOK, FileTypes, OtherTypes, SlotTypes, Recover
<1>4. SlotOK(p)'
  BY <1>2 DEF SlotOK, Busy, At, Recover
<1>5. \A q \in Tool \ {p} : pc'[q] = pc[q] /\ inHand'[q] = inHand[q] /\ index'[q] = index[q]
  BY <1>1, AppendType DEF Recover
<1>6. QED BY <1>3, <1>4, <1>5, OneSlot, TypePartsNext

(* Create and Claim: the slot p ends with c in hand.                       *)
LEMMA Taken ==
    ASSUME TypeOK, NEW p \in Tool, NEW c \in Company, Create(p, c) \/ Claim(p, c)
    PROVE  /\ inHand[p] \in {None, c} /\ inHand' = [inHand EXCEPT ![p] = c]
           /\ \E s \in {"unseen", "claimed"} :
                /\ Append(p, c, s) /\ Appends(p, c, s)
                /\ pc' = [pc EXCEPT ![p] = IF s = "unseen" THEN "created" ELSE "working"]
           /\ todo' \in [Tool -> SUBSET Company]
<1>1. inHand \in [Tool -> Company \cup {None}] /\ todo \in [Tool -> SUBSET Company]
  BY DEF TypeOK
<1>2. CASE \E next \in {"created", "working"} : Take(p, c, next)
  <2>1. inHand[p] = None
    BY <1>2, InHand DEF Take, Busy
  <2>2. PICK s \in {"unseen", "claimed"} :
          /\ Append(p, c, s)
          /\ s = IF index[p][c].state = "absent" THEN "unseen" ELSE "claimed"
          /\ pc' = [pc EXCEPT ![p] = IF s = "unseen" THEN "created" ELSE "working"]
    BY <1>2 DEF Take, Create, Claim
  <2>3. Appends(p, c, s)
    BY <1>2, <2>2 DEF Appends, Take
  <2>4. inHand' = [inHand EXCEPT ![p] = c] /\ todo' = [todo EXCEPT ![p] = Left(p, c)]
    BY <1>2 DEF Take
  <2>5. todo' \in [Tool -> SUBSET Company]
    BY <1>1, <2>4 DEF Left
  <2>6. QED BY <2>1, <2>2, <2>3, <2>4, <2>5
<1>3. CASE pc[p] = "created" /\ inHand[p] = c /\ pc' = [pc EXCEPT ![p] = "working"]
           /\ UNCHANGED <<todo, inHand>>
  <2>1. inHand' = [inHand EXCEPT ![p] = c]
    BY <1>1, <1>3
  <2>2. Append(p, c, "claimed") /\ Appends(p, c, "claimed")
    BY <1>3 DEF Create, Claim, Take, Appends
  <2>3. QED BY <1>1, <1>3, <2>1, <2>2
<1>4. QED BY <1>2, <1>3 DEF Create, Claim

LEMMA TypeTake ==
    ASSUME TypeOK, NEW p \in Tool, NEW c \in Company, Create(p, c) \/ Claim(p, c)
    PROVE  TypeOK'
<1>1. PICK s \in {"unseen", "claimed"} :
        /\ Append(p, c, s)
        /\ pc' = [pc EXCEPT ![p] = IF s = "unseen" THEN "created" ELSE "working"]
  BY Taken
<1>2. inHand' = [inHand EXCEPT ![p] = c] /\ todo' \in [Tool -> SUBSET Company]
  BY Taken
<1>3. s \in State
  BY DEF State
<1>4. UNCHANGED <<registry, rtail, tool, rewrite, runs, faults, unsure, exposed>>
      /\ orphaned' \subseteq Company
  BY DEF Create, Claim, TypeOK
<1>5. FileTypes' /\ OtherTypes' /\ SlotTypes'
  BY <1>1, <1>2, <1>3, <1>4, AppendType DEF TypeOK, FileTypes, OtherTypes, SlotTypes, Busy
<1>6. /\ pc'[p] = IF s = "unseen" THEN "created" ELSE "working"
      /\ inHand'[p] = c /\ index'[p][c].state = s
      /\ \A q \in Tool \ {p} : pc'[q] = pc[q] /\ inHand'[q] = inHand[q] /\ index'[q] = index[q]
  BY <1>1, <1>2, <1>3, AppendType DEF TypeOK
<1>7. c # None
  BY AcquisitionAssumption
<1>8. SlotOK(p)'
  BY <1>6, <1>7 DEF SlotOK, Busy, At
<1>9. QED BY <1>5, <1>6, <1>8, OneSlot, TypePartsNext

(* The company's next state, one step of processCandidate at a time.       *)
Updates(p, s) ==
    /\ s \in State /\ Update(p, s) /\ Appends(p, inHand[p], s)
    /\ pc[p] \in {"working", "failing", "written"}
    /\ s \in InFlight =>
         \/ pc[p] = "working" /\ s \in {"matched", "enriched"}
         \/ pc[p] = "written" /\ s = "persisted"

LEMMA Processing ==
    ASSUME TypeOK, NEW p \in Tool,
           Search(p) \/ Enrich(p) \/ Fail(p) \/ Confirm(p) \/ Complete(p)
    PROVE  \E s \in State : Updates(p, s)
<1>1. CASE Search(p)
  BY <1>1, TransitionsAre DEF Search, Update, Updates, Appends, At, InFlight, State
<1>2. CASE Enrich(p)
  BY <1>2, TransitionsAre DEF Enrich, Update, Updates, Appends, At, InFlight, State
<1>3. CASE Fail(p)
  BY <1>3 DEF Fail, Update, Updates, Appends, At, InFlight, State
<1>4. CASE Confirm(p)
  BY <1>4 DEF Confirm, Update, Updates, Appends, At, InFlight, State
<1>5. CASE Complete(p)
  BY <1>5 DEF Complete, Update, Updates, Appends, At, InFlight, State
<1>6. QED BY <1>1, <1>2, <1>3, <1>4, <1>5

LEMMA TypePersist == ASSUME TypeOK, NEW p \in Tool, Persist(p) \/ PersistThrows(p) PROVE TypeOK'
<1> DEFINE c == inHand[p]
<1>1. pc[p] = "working" /\ index[p][c].state = "enriched"
  BY DEF Persist, PersistThrows, At
<1>2. c \in Company /\ c # None
  BY <1>1, InHand DEF Busy
<1>3. \E n \in {"written", "failing"} : pc' = [pc EXCEPT ![p] = n]
  BY DEF Persist, PersistThrows
<1>4. registry' \in [Company -> Nat]
  <2>1. registry' = registry \/ registry' = [registry EXCEPT ![c] = @ + 1]
    BY DEF Persist, PersistThrows
  <2>2. QED BY <1>2, <2>1 DEF TypeOK
<1>5. FileTypes' /\ OtherTypes' /\ SlotTypes'
  <2>1. ledger' = ledger /\ tail' = tail /\ rtail' \in Company \cup {None, Fragment}
    BY <1>2 DEF Persist, PersistThrows, TypeOK
  <2>2. FileTypes'
    BY <1>4, <2>1 DEF TypeOK, FileTypes
  <2>3. unsure' \subseteq Company /\ exposed' \subseteq Company /\ faults' \in Nat
    BY <1>2 DEF Persist, PersistThrows, Fault, TypeOK
  <2>4. UNCHANGED <<rewrite, runs, truth, raced, orphaned>>
    BY DEF Persist, PersistThrows
  <2>5. OtherTypes'
    BY <2>3, <2>4 DEF TypeOK, OtherTypes
  <2>6. pc' \in [Tool -> Busy \cup {"idle", "recovering", "choosing"}]
    BY <1>3 DEF TypeOK, Busy
  <2>7. UNCHANGED <<tool, index, todo, inHand>>
    BY DEF Persist, PersistThrows
  <2>8. SlotTypes'
    BY <2>6, <2>7 DEF TypeOK, SlotTypes
  <2>9. QED BY <2>2, <2>5, <2>8
<1>6. UNCHANGED <<inHand, index>>
  BY DEF Persist, PersistThrows
<1>7. pc'[p] \in {"written", "failing"} /\ \A q \in Tool \ {p} : pc'[q] = pc[q]
  BY <1>3 DEF TypeOK
<1>8. SlotOK(p)'
  BY <1>1, <1>2, <1>6, <1>7 DEF SlotOK, Busy, At
<1>9. QED BY <1>5, <1>6, <1>7, <1>8, OneSlot, TypePartsNext

LEMMA TypeLeave ==
    ASSUME TypeOK, NEW p \in Tool,
           \/ Close(p) \/ Die(p) \/ DieRegistering(p)
           \/ \E c \in Company, s \in State : DieAppending(p, c, s)
    PROVE  TypeOK'
<1>1. SlotTypes' /\ \A q \in Tool : SlotOK(q)'
  BY IdleType DEF Close, Die, DieRegistering, DieAppending
<1>2. CASE Close(p)
  BY <1>1, <1>2, TypePartsNext DEF TypeOK, Close, FileTypes, OtherTypes, files, history
<1>3. CASE Die(p)
  <2>1. faults' \in Nat /\ orphaned' \subseteq Company
    BY <1>3 DEF Die, Fault, Abandon, TypeOK
  <2>2. UNCHANGED <<ledger, tail, registry, rtail, rewrite, runs, truth, raced, unsure, exposed>>
    BY <1>3 DEF Die, files
  <2>3. FileTypes' /\ OtherTypes'
    BY <2>1, <2>2 DEF TypeOK, FileTypes, OtherTypes
  <2>4. QED BY <1>1, <2>3, TypePartsNext
<1>4. CASE DieRegistering(p)
  <2>1. inHand[p] \in Company
    BY <1>4, InHand DEF DieRegistering, At, Busy
  <2>2. rtail' \in Company \cup {None, Fragment} /\ orphaned' \subseteq Company /\ faults' \in Nat
    BY <1>4, <2>1 DEF DieRegistering, Abandon, Fault, TypeOK
  <2>3. UNCHANGED <<ledger, tail, registry, rewrite, runs, truth, raced, unsure, exposed>>
    BY <1>4 DEF DieRegistering
  <2>4. FileTypes' /\ OtherTypes'
    BY <2>2, <2>3 DEF TypeOK, FileTypes, OtherTypes
  <2>5. QED BY <1>1, <2>4, TypePartsNext
<1>5. ASSUME NEW c \in Company, NEW s \in State, DieAppending(p, c, s)
      PROVE  TypeOK'
  <2>1. truth' \in [Company -> State] /\ raced' \subseteq Company /\ orphaned' \subseteq Company
    BY <1>5, NoteType DEF DieAppending, Abandon, TypeOK
  <2>2. tail' \in [company: Company \cup {None, Fragment}, state: State]
    BY <1>5 DEF DieAppending, Torn, State
  <2>3. /\ UNCHANGED <<ledger, registry, rtail, rewrite, runs, unsure, exposed>>
        /\ faults' \in Nat
    BY <1>5 DEF DieAppending, Fault, TypeOK
  <2>4. FileTypes' /\ OtherTypes'
    BY <2>1, <2>2, <2>3 DEF TypeOK, FileTypes, OtherTypes
  <2>5. QED BY <1>1, <2>4, TypePartsNext
<1>6. QED BY <1>2, <1>3, <1>4, <1>5

LEMMA TypePhase3 == ASSUME TypeOK, Phase3 PROVE TypeOK'
<1>1. UNCHANGED <<ledger, tail, slots, truth, raced, unsure, orphaned>>
  BY DEF Phase3, Load, Truncate, WriteAll, CutShort, files, history
<1>2. registry' \in [Company -> Nat] /\ rtail' \in Company \cup {None, Fragment}
  BY DEF Phase3, Load, Truncate, WriteAll, CutShort, files, TypeOK
<1>3. rewrite' \in [pc: {"off", "loaded", "writing"}, records: SUBSET Company]
  BY DEF Phase3, Load, Truncate, WriteAll, CutShort, TypeOK
<1>4. runs' \in Nat /\ faults' \in Nat /\ exposed' \subseteq Company
  BY DEF Phase3, Load, Truncate, WriteAll, CutShort, Run, Fault, history, TypeOK
<1>5. QED BY <1>1, <1>2, <1>3, <1>4 DEF TypeOK, slots, At

(* Types, and what each slot may be doing with the company it has in hand. *)
THEOREM TypeCorrect == Spec => []TypeOK
<1>1. TypeOK /\ [Next]_vars => TypeOK'
  <2> SUFFICES ASSUME TypeOK, [Next]_vars PROVE TypeOK'
    OBVIOUS
  <2>1. CASE Phase3
    BY <2>1, TypePhase3
  <2>2. ASSUME NEW p \in Tool, Process(p) PROVE TypeOK'
    <3>1. CASE Search(p) \/ Enrich(p) \/ Fail(p) \/ Confirm(p) \/ Complete(p)
      BY <3>1, Processing, UpdateType DEF Updates
    <3>2. QED
      BY <2>2, <3>1, TypeOpen, TypeList, TypeRecover, TypeTake, TypePersist, TypeLeave DEF Process
  <2>3. CASE UNCHANGED vars
    BY <2>3 DEF vars, files, slots, history, TypeOK, At
  <2>4. QED BY <2>1, <2>2, <2>3 DEF Next
<1>2. QED BY <1>1, InitType, PTL DEF Spec

-----------------------------------------------------------------------------
(* Races.                                                                  *)

(* Who has a company in hand that nobody raced for is alone, and knows the *)
(* last state recorded of it.                                              *)
RaceInv ==
    \A c \in Company \ raced : \A p \in Tool : inHand[p] = c =>
        /\ index[p][c].state = truth[c]
        /\ \A q \in Tool : inHand[q] = c => q = p

(* The three kinds of steps a history of states can tell apart.            *)
Quiet ==
    /\ UNCHANGED <<inHand, truth, raced>>
    /\ \A q \in Tool : inHand[q] # None => index'[q] = index[q]
Writes(p, c, s) ==
    /\ s \in State /\ Append(p, c, s) /\ Appends(p, c, s)
    /\ inHand[p] \in {None, c}
    /\ \/ inHand' = inHand
       \/ \E x \in {None, c} : inHand' = [inHand EXCEPT ![p] = x]
Leaves(p) ==
    /\ Idle(p)
    /\ \/ UNCHANGED <<truth, raced>>
       \/ \E c \in Company, s \in State : Note(p, c, s) /\ Appends(p, c, s)

LEMMA StepKinds ==
    ASSUME TypeOK, NEW p \in Tool, Process(p)
    PROVE  Quiet \/ Leaves(p) \/ \E c \in Company, s \in State : Writes(p, c, s)
<1>1. CASE Acquire(p) \/ Resolve(p)
  <2>1. inHand[p] = None
    BY <1>1, InHand DEF Acquire, Resolve, Open, Busy
  <2>2. UNCHANGED <<inHand, truth, raced>> /\ \A q \in Tool \ {p} : index'[q] = index[q]
    BY <1>1 DEF Acquire, Resolve, Open, history, TypeOK
  <2>3. QED BY <2>1, <2>2 DEF Quiet
<1>2. CASE (\E companies \in SUBSET Company : List(p, companies)) \/ \E c \in Company : Pass(p, c)
  BY <1>2 DEF List, Pass, Quiet, history
<1>3. CASE Persist(p) \/ PersistThrows(p)
  BY <1>3 DEF Persist, PersistThrows, Quiet
<1>4. ASSUME NEW c \in Company, Recover(p, c) PROVE Writes(p, c, "ambiguous")
  <2>1. inHand[p] = None
    BY <1>4, InHand DEF Recover, Busy
  <2>2. QED BY <1>4, <2>1 DEF Recover, Writes, Appends, State
<1>5. ASSUME NEW c \in Company, Create(p, c) \/ Claim(p, c)
      PROVE  \E s \in State : Writes(p, c, s)
  <2>1. inHand[p] \in {None, c} /\ inHand' = [inHand EXCEPT ![p] = c]
    BY <1>5, Taken
  <2>2. PICK s \in {"unseen", "claimed"} : Append(p, c, s) /\ Appends(p, c, s)
    BY <1>5, Taken
  <2>3. QED BY <2>1, <2>2 DEF Writes, State
<1>6. CASE Search(p) \/ Enrich(p) \/ Fail(p) \/ Confirm(p) \/ Complete(p)
  <2>1. PICK s \in State : Updates(p, s)
    BY <1>6, Processing
  <2>2. inHand[p] \in Company
    BY <2>1, InHand DEF Updates, Busy
  <2>3. Writes(p, inHand[p], s)
    BY <2>1 DEF Updates, Update, Writes
  <2>4. QED BY <2>2, <2>3
<1>7. CASE Close(p) \/ Die(p) \/ DieRegistering(p)
  BY <1>7 DEF Close, Die, DieRegistering, Leaves, history
<1>8. ASSUME NEW c \in Company, NEW s \in State, DieAppending(p, c, s) PROVE Leaves(p)
  BY <1>8 DEF DieAppending, Leaves
<1>9. CASE \E c \in Company : Recover(p, c)
  BY <1>4, <1>9, StateNames
<1>10. CASE \E c \in Company : Create(p, c) \/ Claim(p, c)
  BY <1>5, <1>10
<1>11. CASE \E c \in Company, s \in State : DieAppending(p, c, s)
  BY <1>8, <1>11
<1>12. QED BY <1>1, <1>2, <1>3, <1>6, <1>7, <1>9, <1>10, <1>11 DEF Process

LEMMA RaceProcess == ASSUME TypeOK, RaceInv, NEW p \in Tool, Process(p) PROVE RaceInv'
<1>1. CASE Quiet
  <2> SUFFICES ASSUME NEW c \in Company, c \notin raced, NEW q \in Tool, inHand[q] = c
               PROVE  index'[q] = index[q]
    BY <1>1 DEF Quiet, RaceInv
  <2>1. QED BY <1>1, InHand DEF Quiet
<1>2. CASE Leaves(p)
  <2>1. inHand'[p] = None /\ \A q \in Tool \ {p} : inHand'[q] = inHand[q] /\ index'[q] = index[q]
    BY <1>2 DEF Leaves, Idle, TypeOK
  <2>2. CASE UNCHANGED <<truth, raced>>
    BY <2>1, <2>2, AcquisitionAssumption DEF RaceInv
  <2>3. ASSUME NEW d \in Company, NEW s \in State, Note(p, d, s)
        PROVE  RaceInv'
    <3> SUFFICES ASSUME NEW c \in Company, c \notin raced', NEW q \in Tool, inHand'[q] = c
                 PROVE  /\ index'[q][c].state = truth'[c]
                        /\ \A r \in Tool : inHand'[r] = c => r = q
      BY DEF RaceInv
    <3>1. q # p /\ c \notin raced
      BY <2>1, <2>3, NoteType, AcquisitionAssumption
    <3>2. c # d
      BY <2>1, <2>3, <3>1, NoteType DEF Races
    <3>3. truth'[c] = truth[c]
      BY <2>3, <3>2, NoteType
    <3>4. QED BY <2>1, <3>1, <3>3, AcquisitionAssumption DEF RaceInv
  <2>4. QED BY <1>2, <2>2, <2>3 DEF Leaves
<1>3. ASSUME NEW d \in Company, NEW s \in State, Writes(p, d, s)
      PROVE  RaceInv'
  <2> SUFFICES ASSUME NEW c \in Company, c \notin raced', NEW q \in Tool, inHand'[q] = c
               PROVE  /\ index'[q][c].state = truth'[c]
                      /\ \A r \in Tool : inHand'[r] = c => r = q
    BY DEF RaceInv
  <2>1. Append(p, d, s)
    BY <1>3 DEF Writes
  <2>2. /\ inHand'[p] \in {None, d} \cup {inHand[p]} /\ inHand[p] \in {None, d}
        /\ \A r \in Tool \ {p} : inHand'[r] = inHand[r] /\ index'[r] = index[r]
    BY <1>3, <2>1, AppendType DEF Writes, TypeOK
  <2>3. c # None /\ c \notin raced
    BY <2>1, AppendType, AcquisitionAssumption
  <2>4. CASE c = d
    <3>1. \A r \in Tool \ {p} : inHand[r] # c
      BY <2>1, <2>4, AppendType DEF Races
    <3>2. q = p
      BY <2>2, <3>1
    <3>3. QED BY <2>1, <2>2, <2>4, <3>1, <3>2, AppendType
  <2>5. CASE c # d
    <3>1. q # p /\ truth'[c] = truth[c]
      BY <2>1, <2>2, <2>3, <2>5, AppendType
    <3>2. QED BY <2>2, <2>3, <2>5, <3>1 DEF RaceInv
  <2>6. QED BY <2>4, <2>5
<1>4. QED BY <1>1, <1>2, <1>3, StepKinds

LEMMA RaceInductive == TypeOK /\ RaceInv /\ [Next]_vars => RaceInv'
<1> SUFFICES ASSUME TypeOK, RaceInv, [Next]_vars PROVE RaceInv'
  OBVIOUS
<1>1. CASE UNCHANGED vars
  BY <1>1 DEF vars, slots, history, RaceInv
<1>2. CASE Phase3
  BY <1>2 DEF Phase3, Load, Truncate, WriteAll, CutShort, slots, history, RaceInv
<1>3. QED BY <1>1, <1>2, RaceProcess DEF Next

LEMMA RaceInit == Init => RaceInv
  BY AcquisitionAssumption DEF Init, RaceInv

-----------------------------------------------------------------------------
(* At most one record of a company.                                        *)

(* The registry, or what Phase 3 will write of it, has a record of c.      *)
Spent(c) == registry[c] > 0 \/ rtail = c \/ c \in rewrite.records

Past == {"enriched", "persisted", "complete"}

(* Once it has one, c is past every state it could be claimed from, and    *)
(* whoever has it in hand has left the append behind.                      *)
OnceInv ==
    \A c \in Company \ (raced \cup unsure) :
        /\ Copies(c) <= 1
        /\ Spent(c) => /\ truth[c] \in Past
                       /\ \A p \in Tool : inHand[p] = c => pc[p] = "written"

(* OnceInv of one company, whose record a step does not touch.             *)
LEMMA OnceKept ==
    ASSUME TypeOK, TypeOK', OnceInv, NEW c \in Company, c \notin raced', c \notin unsure',
           raced \subseteq raced', unsure \subseteq unsure',
           Spent(c)' => Spent(c), Copies(c)' <= Copies(c) \/ Copies(c)' <= 1,
           Spent(c) => truth'[c] \in Past,
           Spent(c) => \A p \in Tool : inHand'[p] = c => pc'[p] = "written"
    PROVE  /\ Copies(c)' <= 1
           /\ Spent(c)' => /\ truth'[c] \in Past
                           /\ \A p \in Tool : inHand'[p] = c => pc'[p] = "written"
<1>1. Copies(c) \in Nat /\ Copies(c)' \in Nat
  BY DEF Copies, TypeOK
<1>2. c \notin raced \cup unsure
  OBVIOUS
<1>3. Copies(c) <= 1
  BY <1>2 DEF OnceInv
<1>4. Copies(c)' <= 1
  BY <1>1, <1>3
<1>5. QED BY <1>4

LEMMA OncePhase3 == ASSUME TypeOK, TypeOK', OnceInv, Phase3 PROVE OnceInv'
<1> SUFFICES ASSUME NEW c \in Company, c \notin raced', c \notin unsure'
             PROVE  /\ Copies(c)' <= 1
                    /\ Spent(c)' => /\ truth'[c] \in Past
                                    /\ \A p \in Tool : inHand'[p] = c => pc'[p] = "written"
  BY DEF OnceInv
<1>1. UNCHANGED <<pc, inHand, truth, raced, unsure>>
  BY DEF Phase3, Load, Truncate, WriteAll, CutShort, slots, history
<1>2. Spent(c) => truth[c] \in Past /\ \A p \in Tool : inHand[p] = c => pc[p] = "written"
  BY <1>1 DEF OnceInv
<1>3. registry[c] \in Nat /\ c # None /\ c # Fragment
  BY AcquisitionAssumption DEF TypeOK
<1>4. (Spent(c)' => Spent(c)) /\ (Copies(c)' <= Copies(c) \/ Copies(c)' <= 1)
  <2>1. CASE \E kept \in SUBSET Company : Load(kept)
    BY <1>3, <2>1 DEF Load, Deduplicated, Listed, Copies, Spent, files
  <2>2. CASE Truncate
    BY <1>3, <2>2 DEF Truncate, Copies, Spent
  <2>3. CASE WriteAll
    <3>1. /\ registry'[c] = IF c \in rewrite.records THEN 1 ELSE 0
          /\ rtail' = None
          /\ rewrite'.records \in {rewrite.records, {}}
      BY <2>3 DEF WriteAll, TypeOK
    <3>2. QED BY <1>3, <3>1 DEF Copies, Spent
  <2>4. CASE CutShort /\ rewrite.pc = "loaded"
    BY <1>3, <2>4 DEF CutShort, Copies, Spent
  <2>5. CASE CutShort /\ rewrite.pc = "writing"
    <3>1. PICK kept \in SUBSET rewrite.records :
            /\ registry' = [d \in Company |-> IF d \in kept THEN 1 ELSE 0]
            /\ rtail' \in {None, Fragment} \cup (rewrite.records \ kept)
      BY <2>5 DEF CutShort
    <3>2. rewrite'.records = {}
      BY <2>5 DEF CutShort
    <3>3. QED BY <1>3, <3>1, <3>2 DEF Copies, Spent
  <2>6. QED BY <2>1, <2>2, <2>3, <2>4, <2>5 DEF Phase3, CutShort
<1>5. QED BY <1>1, <1>2, <1>4, OnceKept

(* No line that says c may be claimed, or is only now worked on, can be    *)
(* appended once it has a record.                                          *)
LEMMA SpentLine ==
    ASSUME TypeOK, OnceInv, NEW p \in Tool, NEW c \in Company, NEW s \in State,
           c \notin raced, c \notin unsure, index[p][c].state = truth[c],
           Spent(c), Appends(p, c, s)
    PROVE  s \in {"persisted", "complete"}
<1>1. index[p][c].state \in Past
  BY DEF OnceInv
<1>2. ~Claimable(p, c) /\ ~Stranded(p, c)
  BY <1>1, TransitionsAre DEF Claimable, Stranded, Past, State
<1>3. inHand[p] = c /\ pc[p] \in Busy
  BY <1>2 DEF Appends, Busy
<1>4. pc[p] = "written"
  BY <1>3 DEF OnceInv
<1>5. index[p][c].state \in {"enriched", "persisted"}
  BY <1>3, <1>4 DEF TypeOK
<1>6. QED BY <1>4, <1>5, TransitionsAre DEF Appends

(* A line appended, or cut short with its text complete.                   *)
LEMMA OnceLine ==
    ASSUME TypeOK, OnceInv, NEW p \in Tool, NEW d \in Company, NEW s \in State,
           Appends(p, d, s), Note(p, d, s), NEW c \in Company, c \notin raced', c \notin unsure,
           Spent(c)
    PROVE  truth'[c] \in Past /\ (c = d => s \in {"persisted", "complete"})
<1>1. c \notin raced
  BY NoteType
<1>2. CASE c = d
  <2>1. index[p][c].state = truth[c]
    BY <1>2, NoteType DEF Races
  <2>2. s \in {"persisted", "complete"}
    BY <1>1, <1>2, <2>1, SpentLine
  <2>3. QED BY <1>2, <2>2, NoteType DEF Past
<1>3. CASE c # d
  BY <1>1, <1>3, NoteType DEF OnceInv
<1>4. QED BY <1>2, <1>3

(* The registry stays as it is.                                            *)
LEMMA OnceUnwritten ==
    ASSUME TypeOK, TypeOK', OnceInv, NEW p \in Tool, Process(p),
           ~Persist(p), ~PersistThrows(p), ~DieRegistering(p)
    PROVE  OnceInv'
<1>1. UNCHANGED <<registry, rtail, rewrite, unsure>>
  BY DEF Process, Acquire, Resolve, Open, Close, Recover, Pass, Create, Claim, List, Search, Enrich,
         Fail, Confirm, Complete, Update, Die, DieAppending, files, history
<1>2. raced \subseteq raced'
  BY StepKinds, AppendType, NoteType DEF Quiet, Leaves, Writes
<1> SUFFICES ASSUME NEW c \in Company, c \notin raced', c \notin unsure', Spent(c)
             PROVE  /\ truth'[c] \in Past
                    /\ \A q \in Tool : inHand'[q] = c => pc'[q] = "written"
  BY <1>1, <1>2, OnceKept DEF OnceInv, Spent, Copies
<1>3. c \notin raced /\ c \notin unsure /\ c # None
  BY <1>1, <1>2, AcquisitionAssumption
<1>4. truth[c] \in Past /\ \A q \in Tool : inHand[q] = c => pc[q] = "written"
  BY <1>3 DEF OnceInv
<1>5. CASE Acquire(p) \/ Resolve(p) \/ Close(p) \/ Die(p)
           \/ (\E companies \in SUBSET Company : List(p, companies)) \/ \E d \in Company : Pass(p, d)
  <2>1. UNCHANGED truth
    BY <1>5 DEF Acquire, Resolve, Open, Close, Die, List, Pass, history
  <2>2. \A q \in Tool \ {p} : inHand'[q] = inHand[q] /\ pc'[q] = pc[q]
    BY <1>5 DEF Acquire, Resolve, Open, Close, Die, Idle, List, Pass, TypeOK
  <2>3. inHand'[p] # c
    <3>1. CASE Close(p) \/ Die(p)
      BY <1>3, <3>1 DEF Close, Die, Idle, TypeOK
    <3>2. CASE ~(Close(p) \/ Die(p))
      <4>1. pc[p] \notin Busy /\ inHand' = inHand
        BY <1>5, <3>2 DEF Acquire, Resolve, Open, List, Pass, Busy
      <4>2. QED BY <1>3, <4>1, InHand
    <3>3. QED BY <3>1, <3>2
  <2>4. QED BY <1>4, <2>1, <2>2, <2>3
<1>6. ASSUME NEW d \in Company, NEW s \in State, DieAppending(p, d, s)
      PROVE  /\ truth'[c] \in Past
             /\ \A q \in Tool : inHand'[q] = c => pc'[q] = "written"
  <2>1. /\ inHand'[p] = None
        /\ \A q \in Tool \ {p} : inHand'[q] = inHand[q] /\ pc'[q] = pc[q]
    BY <1>6 DEF DieAppending, Idle, TypeOK
  <2>2. truth'[c] \in Past
    <3>1. CASE truth' = truth
      BY <1>4, <3>1
    <3>2. CASE Note(p, d, s) /\ Appends(p, d, s)
      BY <1>3, <3>2, OnceLine
    <3>3. QED BY <1>6, <3>1, <3>2 DEF DieAppending
  <2>3. QED BY <1>3, <1>4, <2>1, <2>2
<1>7. ASSUME NEW d \in Company, Recover(p, d)
      PROVE  /\ truth'[c] \in Past
             /\ \A q \in Tool : inHand'[q] = c => pc'[q] = "written"
  <2>1. Appends(p, d, "ambiguous") /\ Note(p, d, "ambiguous") /\ UNCHANGED <<inHand, pc>>
    BY <1>7 DEF Recover, Append, Appends
  <2>2. QED BY <1>3, <1>4, <2>1, OnceLine, StateNames
<1>8. ASSUME NEW d \in Company, Create(p, d) \/ Claim(p, d)
      PROVE  /\ truth'[c] \in Past
             /\ \A q \in Tool : inHand'[q] = c => pc'[q] = "written"
  <2>1. PICK s \in {"unseen", "claimed"} :
          /\ Append(p, d, s) /\ Appends(p, d, s)
          /\ pc' = [pc EXCEPT ![p] = IF s = "unseen" THEN "created" ELSE "working"]
    BY <1>8, Taken
  <2>2. Note(p, d, s) /\ s \in State
    BY <2>1 DEF Append, State
  <2>3. truth'[c] \in Past /\ c # d
    BY <1>3, <2>1, <2>2, OnceLine
  <2>4. inHand' = [inHand EXCEPT ![p] = d]
    BY <1>8, Taken
  <2>5. QED BY <1>4, <2>1, <2>3, <2>4 DEF TypeOK
<1>9. CASE Search(p) \/ Enrich(p) \/ Fail(p) \/ Confirm(p) \/ Complete(p)
  <2>1. PICK s \in State : Updates(p, s)
    BY <1>9, Processing
  <2> DEFINE d == inHand[p]
  <2>2. d \in Company
    BY <2>1, InHand DEF Updates, Busy
  <2>3. Note(p, d, s) /\ Appends(p, d, s)
    BY <2>1 DEF Updates, Update, Append
  <2>4. truth'[c] \in Past
    BY <1>3, <2>2, <2>3, OnceLine
  <2>5. /\ \A q \in Tool \ {p} : inHand'[q] = inHand[q] /\ pc'[q] = pc[q]
        /\ inHand'[p] # None => inHand'[p] = inHand[p] /\ pc'[p] = pc[p]
    BY <2>1 DEF Updates, Update, TypeOK
  <2>6. QED BY <1>3, <1>4, <2>4, <2>5
<1>10. CASE \E d \in Company, s \in State : DieAppending(p, d, s)
  BY <1>6, <1>10
<1>11. CASE \E d \in Company : Recover(p, d)
  BY <1>7, <1>11
<1>12. CASE \E d \in Company : Create(p, d) \/ Claim(p, d)
  BY <1>8, <1>12
<1>13. QED BY <1>5, <1>9, <1>10, <1>11, <1>12 DEF Process

(* The append to the registry, whichever way it ends.                      *)
LEMMA OnceWritten ==
    ASSUME TypeOK, TypeOK', RaceInv, OnceInv, NEW p \in Tool,
           Persist(p) \/ PersistThrows(p) \/ DieRegistering(p)
    PROVE  OnceInv'
<1> DEFINE d == inHand[p]
<1>1. pc[p] = "working" /\ index[p][d].state = "enriched" /\ d \in Company
  BY InHand DEF Persist, PersistThrows, DieRegistering, At, Busy
<1>2. UNCHANGED <<truth, raced, rewrite>> /\ unsure \subseteq unsure' /\ unsure' \subseteq unsure \cup {d}
  BY DEF Persist, PersistThrows, DieRegistering
<1>3. /\ \A q \in Tool \ {p} : inHand'[q] = inHand[q] /\ pc'[q] = pc[q]
      /\ \A c \in Company \ {d} : registry'[c] = registry[c]
      /\ registry'[d] \in {registry[d], registry[d] + 1}
      /\ rtail' \in {rtail, None, Fragment, d}
  BY <1>1 DEF Persist, PersistThrows, DieRegistering, Idle, TypeOK
<1> SUFFICES ASSUME NEW c \in Company, c \notin raced', c \notin unsure'
             PROVE  /\ Copies(c)' <= 1
                    /\ Spent(c)' => /\ truth'[c] \in Past
                                    /\ \A q \in Tool : inHand'[q] = c => pc'[q] = "written"
  BY DEF OnceInv
<1>4. c \notin raced /\ c \notin unsure /\ c # None /\ c # Fragment /\ registry[c] \in Nat
  BY <1>2, AcquisitionAssumption DEF TypeOK
<1>5. Spent(c) => truth[c] \in Past /\ \A q \in Tool : inHand[q] = c => pc[q] = "written"
  BY <1>4 DEF OnceInv
<1>6. CASE c # d
  <2>1. Spent(c)' => Spent(c)
    BY <1>2, <1>3, <1>4, <1>6 DEF Spent
  <2>2. Copies(c)' <= Copies(c)
    BY <1>3, <1>4, <1>6 DEF Copies
  <2>3. inHand'[p] # c
    BY <1>4, <1>6 DEF Persist, PersistThrows, DieRegistering, Idle, TypeOK
  <2>4. QED BY <1>2, <1>3, <1>4, <1>5, <2>1, <2>2, <2>3, OnceKept
<1>7. CASE c = d
  <2>1. ~Spent(c) /\ registry[c] = 0 /\ rtail # c
    BY <1>1, <1>4, <1>5, <1>7 DEF Spent
  <2>2. truth'[c] = "enriched" /\ \A q \in Tool \ {p} : inHand'[q] # c
    BY <1>1, <1>2, <1>3, <1>4, <1>7 DEF RaceInv
  <2>3. Copies(c)' <= 1
    <3>1. registry'[c] = 0 \/ rtail' # c
      BY <1>4, <1>7, <2>1 DEF Persist, PersistThrows, DieRegistering
    <3>2. QED BY <1>3, <1>7, <2>1, <3>1 DEF Copies
  <2>4. CASE PersistThrows(p)
    <3>1. ~Spent(c)'
      BY <1>2, <1>4, <1>7, <2>1, <2>4 DEF PersistThrows, Spent
    <3>2. QED BY <2>3, <3>1
  <2>5. CASE Persist(p) \/ DieRegistering(p)
    <3>1. inHand'[p] = None \/ pc'[p] = "written"
      BY <2>5 DEF Persist, DieRegistering, Idle, TypeOK
    <3>2. QED BY <1>4, <2>2, <2>3, <3>1 DEF Past
  <2>6. QED BY <2>4, <2>5
<1>8. QED BY <1>6, <1>7

LEMMA OnceInductive == TypeOK /\ TypeOK' /\ RaceInv /\ OnceInv /\ [Next]_vars => OnceInv'
<1> SUFFICES ASSUME TypeOK, TypeOK', RaceInv, OnceInv, [Next]_vars PROVE OnceInv'
  OBVIOUS
<1>1. CASE UNCHANGED vars
  BY <1>1 DEF vars, files, slots, history, OnceInv, Copies, Spent
<1>2. QED BY <1>1, OncePhase3, OnceUnwritten, OnceWritten DEF Next

LEMMA OnceInit == Init => OnceInv
  BY AcquisitionAssumption DEF Init, OnceInv, Copies, Spent

(* A company has one record at most, unless it was raced for or an append  *)
(* that threw had written its record.                                      *)
THEOREM AtMostOnce == Spec => []RegisteredOnce
<1>1. Init => RaceInv /\ OnceInv
  BY RaceInit, OnceInit
<1>2. OnceInv => RegisteredOnce
  BY DEF OnceInv, RegisteredOnce
<1>3. QED BY <1>1, <1>2, TypeCorrect, RaceInductive, OnceInductive, PTL DEF Spec

-----------------------------------------------------------------------------
(* Companies in flight.                                                    *)

(* Whoever recorded a state in flight still has the company in hand, or    *)
(* died with it.                                                           *)
HeldInv ==
    \A c \in Company : truth[c] \in InFlight =>
        (\E p \in Tool : inHand[p] = c) \/ c \in orphaned

LEMMA HeldProcess == ASSUME TypeOK, HeldInv, NEW p \in Tool, Process(p) PROVE HeldInv'
<1> SUFFICES ASSUME NEW c \in Company, truth'[c] \in InFlight
             PROVE  (\E q \in Tool : inHand'[q] = c) \/ c \in orphaned'
  BY DEF HeldInv
<1>0. c # None
  BY AcquisitionAssumption
<1>1. CASE \/ Acquire(p) \/ Resolve(p) \/ Persist(p) \/ PersistThrows(p)
           \/ (\E companies \in SUBSET Company : List(p, companies)) \/ \E d \in Company : Pass(p, d)
  <2>1. UNCHANGED <<truth, inHand, orphaned>>
    BY <1>1 DEF Acquire, Resolve, Open, List, Pass, Persist, PersistThrows, history
  <2>2. QED BY <2>1 DEF HeldInv
<1>2. CASE Close(p) \/ Die(p) \/ DieRegistering(p)
  <2>1. UNCHANGED truth
    BY <1>2 DEF Close, Die, DieRegistering, history
  <2>2. \A q \in Tool \ {p} : inHand'[q] = inHand[q]
    BY <1>2 DEF Close, Die, DieRegistering, Idle, TypeOK
  <2>3. orphaned \subseteq orphaned' /\ (inHand[p] = c => c \in orphaned')
    <3>1. CASE Close(p)
      BY <1>0, <3>1, InHand DEF Close, Busy, history
    <3>2. CASE Die(p) \/ DieRegistering(p)
      BY <3>2 DEF Die, DieRegistering, Abandon
    <3>3. QED BY <1>2, <3>1, <3>2
  <2>4. QED BY <2>1, <2>2, <2>3 DEF HeldInv
<1>3. ASSUME NEW d \in Company, NEW s \in State, DieAppending(p, d, s)
      PROVE  c \in orphaned' \/ \E q \in Tool : inHand'[q] = c
  <2>1. \A q \in Tool \ {p} : inHand'[q] = inHand[q]
    BY <1>3 DEF DieAppending, Idle, TypeOK
  <2>2. inHand[p] \in {None, d}
    BY <1>3, InHand DEF DieAppending, Appends, Busy
  <2>3. CASE UNCHANGED truth /\ Abandon(p)
    BY <2>1, <2>3 DEF HeldInv, Abandon
  <2>4. CASE /\ Note(p, d, s)
             /\ orphaned' = IF s \in InFlight THEN orphaned \cup {d} ELSE orphaned \ {d}
    <3>1. CASE c = d
      BY <2>4, <3>1, NoteType
    <3>2. CASE c # d
      BY <1>0, <2>1, <2>2, <2>4, <3>2, NoteType DEF HeldInv
    <3>3. QED BY <3>1, <3>2
  <2>5. QED BY <1>3, <2>3, <2>4 DEF DieAppending
<1>4. ASSUME NEW d \in Company, Recover(p, d)
      PROVE  c \in orphaned' \/ \E q \in Tool : inHand'[q] = c
  <2>1. Note(p, d, "ambiguous") /\ orphaned' = orphaned \ {d} /\ UNCHANGED inHand
    BY <1>4 DEF Recover, Append
  <2>2. c # d
    BY <2>1, NoteType, StateNames DEF InFlight
  <2>3. QED BY <2>1, <2>2, NoteType, StateNames DEF HeldInv
<1>5. ASSUME NEW d \in Company, Create(p, d) \/ Claim(p, d)
      PROVE  c \in orphaned' \/ \E q \in Tool : inHand'[q] = c
  <2>1. inHand[p] \in {None, d} /\ inHand' = [inHand EXCEPT ![p] = d]
    BY <1>5, Taken
  <2>2. PICK s \in State : Note(p, d, s)
    BY <1>5, StateNames DEF Create, Claim, Append, State
  <2>3. orphaned \ {d} \subseteq orphaned'
    BY <1>5 DEF Create, Claim
  <2>4. inHand'[p] = d /\ \A q \in Tool \ {p} : inHand'[q] = inHand[q]
    BY <2>1 DEF TypeOK
  <2>5. CASE c = d
    BY <2>4, <2>5
  <2>6. CASE c # d
    BY <1>0, <2>1, <2>2, <2>3, <2>4, <2>6, NoteType DEF HeldInv
  <2>7. QED BY <2>5, <2>6
<1>6. CASE Search(p) \/ Enrich(p) \/ Fail(p) \/ Confirm(p) \/ Complete(p)
  <2>1. PICK s \in State : Updates(p, s)
    BY <1>6, Processing
  <2> DEFINE d == inHand[p]
  <2>2. d \in Company
    BY <2>1, InHand DEF Updates, Busy
  <2>3. Note(p, d, s) /\ UNCHANGED orphaned
    BY <2>1 DEF Updates, Update, Append
  <2>4. CASE s \in InFlight
    <3>1. UNCHANGED inHand
      BY <2>1, <2>4 DEF Updates, Update
    <3>2. QED BY <2>2, <2>3, <3>1, NoteType DEF HeldInv
  <2>5. CASE s \notin InFlight
    <3>1. inHand' = [inHand EXCEPT ![p] = None]
      BY <2>1, <2>5 DEF Updates, Update
    <3>2. c # d /\ truth'[c] = truth[c]
      BY <2>2, <2>3, <2>5, NoteType
    <3>3. QED BY <2>3, <3>1, <3>2 DEF HeldInv, TypeOK
  <2>6. QED BY <2>4, <2>5
<1>7. CASE \E d \in Company, s \in State : DieAppending(p, d, s)
  BY <1>3, <1>7
<1>8. CASE \E d \in Company : Recover(p, d)
  BY <1>4, <1>8
<1>9. CASE \E d \in Company : Create(p, d) \/ Claim(p, d)
  BY <1>5, <1>9
<1>10. QED BY <1>1, <1>2, <1>6, <1>7, <1>8, <1>9 DEF Process

(* A company in flight is in somebody's hand, or a death or a lost line    *)
(* put it out of reach.                                                    *)
THEOREM NoneForgotten == Spec => []InFlightIsHeld
<1>1. Init => HeldInv
  BY DEF Init, HeldInv, InFlight
<1>2. TypeOK /\ HeldInv /\ [Next]_vars => HeldInv'
  <2> SUFFICES ASSUME TypeOK, HeldInv, [Next]_vars PROVE HeldInv'
    OBVIOUS
  <2>1. CASE UNCHANGED vars
    BY <2>1 DEF vars, slots, history, HeldInv
  <2>2. CASE Phase3
    BY <2>2 DEF Phase3, Load, Truncate, WriteAll, CutShort, slots, history, HeldInv
  <2>3. QED BY <2>1, <2>2, HeldProcess DEF Next
<1>3. HeldInv => InFlightIsHeld
  BY DEF HeldInv, InFlightIsHeld
<1>4. QED BY <1>1, <1>2, <1>3, TypeCorrect, PTL DEF Spec

-----------------------------------------------------------------------------
(* Records of complete companies.                                          *)

(* The firm of c has a whole line in the registry, and among the records   *)
(* of a Phase 3 under way.                                                 *)
Kept(c) ==
    /\ rewrite.pc # "writing" => \E d \in Company : Frn[d] = Frn[c] /\ registry[d] > 0
    /\ rewrite.pc # "off" => \E d \in rewrite.records : Frn[d] = Frn[c]

Lasting(c) == c \in exposed \/ Kept(c)

(* It is so from the append to the registry on.                            *)
FirmInv ==
    /\ \A p \in Tool : pc[p] = "written" => Lasting(inHand[p])
    /\ \A c \in Company : OnFile(c).state \in {"persisted", "complete"} => Lasting(c)
    /\ \A c \in Company : ledger[c].state \in {"persisted", "complete"} => Lasting(c)

(* Nothing takes it away.                                                  *)
LEMMA LastingStays ==
    ASSUME TypeOK, [Next]_vars, NEW c \in Company, Lasting(c)
    PROVE  Lasting(c)'
<1>1. \A d \in Company : registry[d] \in Nat
  BY DEF TypeOK
<1>2. CASE UNCHANGED <<registry, rewrite, exposed>>
  BY <1>2 DEF Lasting, Kept
<1>3. ASSUME NEW p \in Tool, Process(p) PROVE Lasting(c)'
  <2>1. CASE Persist(p) \/ PersistThrows(p)
    <3>1. inHand[p] \in Company
      BY <2>1, InHand DEF Persist, PersistThrows, At, Busy
    <3>2. /\ UNCHANGED rewrite /\ exposed \subseteq exposed'
          /\ \A d \in Company : registry[d] > 0 => registry'[d] > 0
      BY <1>1, <2>1, <3>1 DEF Persist, PersistThrows, TypeOK
    <3>3. QED BY <3>2 DEF Lasting, Kept
  <2>2. CASE ~(Persist(p) \/ PersistThrows(p))
    <3>1. UNCHANGED <<registry, rewrite, exposed>>
      BY <1>3, <2>2 DEF Process, Acquire, Resolve, Open, Close, Recover, Pass, Create, Claim, List, Search,
         Enrich, Fail, Confirm, Complete, Update, Die, DieAppending, DieRegistering, files, history
    <3>2. QED BY <1>2, <3>1
  <2>3. QED BY <2>1, <2>2
<1>4. ASSUME NEW kept \in SUBSET Company, Load(kept) PROVE Lasting(c)'
  <2>1. UNCHANGED <<registry, exposed>> /\ rewrite.pc = "off"
        /\ rewrite' = [pc |-> "loaded", records |-> kept]
    BY <1>4 DEF Load, files, history
  <2>2. Kept(c) => \E d \in kept : Frn[d] = Frn[c]
    <3> SUFFICES ASSUME Kept(c) PROVE \E d \in kept : Frn[d] = Frn[c]
      OBVIOUS
    <3>1. PICK e \in Company : Frn[e] = Frn[c] /\ registry[e] > 0
      BY <2>1 DEF Kept
    <3>2. e \in Listed
      BY <1>1, <3>1 DEF Listed, Copies
    <3>3. QED BY <1>4, <3>1, <3>2 DEF Load, Deduplicated
  <2>3. QED BY <2>1, <2>2 DEF Lasting, Kept
<1>5. CASE Truncate
  <2>1. /\ UNCHANGED exposed /\ rewrite.pc = "loaded"
        /\ rewrite'.pc = "writing" /\ rewrite'.records = rewrite.records
    BY <1>5 DEF Truncate, history, TypeOK
  <2>2. QED BY <2>1 DEF Lasting, Kept
<1>6. CASE WriteAll
  <2>1. /\ UNCHANGED exposed /\ rewrite.pc = "writing"
        /\ \A d \in rewrite.records : registry'[d] = 1
        /\ rewrite.records \subseteq Company
        /\ \/ rewrite'.pc = "off"
           \/ rewrite'.pc = "loaded" /\ rewrite'.records = rewrite.records
    BY <1>6 DEF WriteAll, history, TypeOK
  <2>2. Kept(c) => Kept(c)'
    BY <2>1 DEF Kept
  <2>3. QED BY <2>1, <2>2 DEF Lasting
<1>7. CASE CutShort
  <2>1. rewrite'.pc = "off" /\ exposed \subseteq exposed' /\ rewrite.pc \in {"loaded", "writing"}
    BY <1>7 DEF CutShort
  <2>2. CASE rewrite.pc = "loaded"
    BY <1>7, <2>1, <2>2 DEF CutShort, Lasting, Kept
  <2>3. CASE rewrite.pc = "writing"
    BY <1>7, <2>1, <2>3 DEF CutShort, Lasting, Kept
  <2>4. QED BY <2>1, <2>2, <2>3
<1>8. CASE UNCHANGED vars
  BY <1>2, <1>8 DEF vars, files, history
<1>9. QED BY <1>3, <1>4, <1>5, <1>6, <1>7, <1>8 DEF Next, Phase3

(* A line that says persisted or complete comes from a company whose       *)
(* append to the registry went through.                                    *)
LEMMA FirmLine ==
    ASSUME TypeOK, FirmInv, NEW p \in Tool, NEW d \in Company, NEW s \in {"persisted", "complete"},
           Appends(p, d, s)
    PROVE  Lasting(d)
<1>1. pc[p] \in {"working", "failing", "written"} /\ inHand[p] = d
  BY DEF Appends
<1>2. pc[p] = "written"
  <2>1. index[p][d].state \notin {"claimed", "matched"}
    BY TransitionsAre, <1>1 DEF Appends
  <2>2. QED BY <1>1, <2>1 DEF Appends, TypeOK, At
<1>3. QED BY <1>1, <1>2 DEF FirmInv

LEMMA FirmInHand ==
    ASSUME TypeOK, FirmInv, [Next]_vars, NEW p \in Tool, pc'[p] = "written"
    PROVE  Lasting(inHand[p])'
<1>1. CASE pc[p] = "written" /\ inHand'[p] = inHand[p]
  <2>1. inHand[p] \in Company /\ Lasting(inHand[p])
    BY <1>1, InHand DEF FirmInv, Busy
  <2>2. PICK c \in Company : c = inHand[p] /\ Lasting(c)
    BY <2>1
  <2>3. Lasting(c)'
    BY <2>2, LastingStays
  <2>4. QED BY <1>1, <2>2, <2>3 DEF Lasting, Kept
<1>2. CASE Persist(p)
  <2>1. inHand[p] \in Company /\ inHand' = inHand
    BY <1>2, InHand DEF Persist, At, Busy
  <2>2. PICK c \in Company : c = inHand[p] /\ c = inHand'[p]
    BY <2>1
  <2>3. CASE rtail = None /\ rewrite.pc = "off"
    <3>1. registry'[c] > 0 /\ rewrite' = rewrite
      BY <1>2, <2>2, <2>3 DEF Persist, TypeOK
    <3>2. QED BY <2>2, <2>3, <3>1 DEF Lasting, Kept
  <2>4. CASE ~(rtail = None /\ rewrite.pc = "off")
    BY <1>2, <2>2, <2>4 DEF Persist, Lasting
  <2>5. QED BY <2>3, <2>4
<1>3. CASE ~Persist(p)
  <2>1. CASE UNCHANGED <<pc, inHand>>
    BY <1>1, <2>1
  <2>2. ASSUME NEW q \in Tool, Process(q) PROVE pc[p] = "written" /\ inHand'[p] = inHand[p]
    <3>1. CASE Search(q) \/ Enrich(q) \/ Fail(q) \/ Confirm(q) \/ Complete(q)
      <4>1. PICK s \in State : Updates(q, s)
        BY <3>1, Processing
      <4>2. \/ UNCHANGED <<pc, inHand>>
            \/ /\ pc' = [pc EXCEPT ![q] = "choosing"]
               /\ inHand' = [inHand EXCEPT ![q] = None]
        BY <4>1 DEF Updates, Update
      <4>3. QED BY <4>2 DEF TypeOK
    <3>2. CASE Close(q) \/ Die(q) \/ DieRegistering(q) \/ \E c \in Company, s \in State : DieAppending(q, c, s)
      <4>1. Idle(q)
        BY <3>2 DEF Close, Die, DieRegistering, DieAppending
      <4>2. QED BY <4>1 DEF Idle, TypeOK
    <3>3. CASE Acquire(q) \/ Resolve(q) \/ (\E companies \in SUBSET Company : List(q, companies))
      BY <3>3 DEF Acquire, Resolve, Open, List, TypeOK
    <3>4. CASE \E c \in Company : Recover(q, c) \/ Pass(q, c)
      BY <3>4 DEF Recover, Pass
    <3>5. ASSUME NEW c \in Company, Create(q, c) \/ Claim(q, c)
          PROVE  pc[p] = "written" /\ inHand'[p] = inHand[p]
      <4>1. inHand' = [inHand EXCEPT ![q] = c]
        BY <3>5, Taken
      <4>2. \E n \in {"created", "working"} : pc' = [pc EXCEPT ![q] = n]
        BY <3>5, Taken
      <4>3. QED BY <4>1, <4>2 DEF TypeOK
    <3>6. CASE Persist(q) \/ PersistThrows(q)
      BY <1>3, <3>6 DEF Persist, PersistThrows, TypeOK
    <3>7. CASE \E c \in Company : Create(q, c) \/ Claim(q, c)
      BY <3>5, <3>7
    <3>8. QED BY <2>2, <3>1, <3>2, <3>3, <3>4, <3>6, <3>7 DEF Process
  <2>3. QED BY <1>1, <2>1, <2>2 DEF Next, Phase3, Load, Truncate, WriteAll, CutShort, vars, slots
<1>4. QED BY <1>2, <1>3

LEMMA FirmOnFile ==
    ASSUME TypeOK, FirmInv, [Next]_vars, NEW c \in Company,
           OnFile(c)'.state \in {"persisted", "complete"} \/ ledger'[c].state \in {"persisted", "complete"}
    PROVE  Lasting(c)'
<1>0. c # None /\ c # Fragment /\ ledger[c] \in Record
  BY AcquisitionAssumption DEF TypeOK
<1> SUFFICES Lasting(c)
  BY LastingStays
<1>1. CASE UNCHANGED <<ledger, tail>>
  BY <1>1 DEF FirmInv, OnFile
<1>2. ASSUME NEW p \in Tool, NEW d \in Company, NEW s \in State, Append(p, d, s), Appends(p, d, s)
      PROVE  Lasting(c)
  <2>2. OnFile(c)' = ledger'[c]
    BY <1>0, <1>2 DEF Append, OnFile, Clean
  <2>3. ledger'[c] = ledger[c] \/ (c = d /\ ledger'[c].state = s)
    <3>1. Advance(ledger[c], s).state = s
      BY <1>0, Records
    <3>2. ledger' = ledger \/ ledger' = [ledger EXCEPT ![d] = Advance(@, s)]
      BY <1>2 DEF Append
    <3>3. QED BY <3>1, <3>2 DEF TypeOK
  <2>4. QED BY <1>2, <2>2, <2>3, FirmLine DEF FirmInv
<1>3. ASSUME NEW p \in Tool, NEW d \in Company, NEW s \in State, DieAppending(p, d, s)
      PROVE  Lasting(c)
  <2>1. UNCHANGED ledger /\ Appends(p, d, s) /\ (tail' = Torn \/ tail' = [company |-> d, state |-> s])
    BY <1>3 DEF DieAppending
  <2>2. OnFile(c)' = ledger[c] \/ (c = d /\ OnFile(c)'.state = s)
    BY <1>0, <2>1, Records DEF OnFile, Torn
  <2>3. QED BY <2>1, <2>2, FirmLine DEF FirmInv
<1>4. ASSUME NEW p \in Tool, Process(p) PROVE Lasting(c)
  <2>1. CASE \E d \in Company : Recover(p, d)
    BY <1>2, <2>1, StateNames DEF Recover, Appends
  <2>2. CASE \E d \in Company : Create(p, d) \/ Claim(p, d)
    <3>1. PICK d \in Company : Create(p, d) \/ Claim(p, d)
      BY <2>2
    <3>2. PICK s \in {"unseen", "claimed"} : Append(p, d, s) /\ Appends(p, d, s)
      BY <3>1, Taken
    <3>3. QED BY <1>2, <3>2 DEF State
  <2>3. CASE Search(p) \/ Enrich(p) \/ Fail(p) \/ Confirm(p) \/ Complete(p)
    <3>1. PICK s \in State : Updates(p, s)
      BY <2>3, Processing
    <3>2. inHand[p] \in Company /\ Append(p, inHand[p], s) /\ Appends(p, inHand[p], s)
      BY <3>1, InHand DEF Updates, Update, Busy
    <3>3. QED BY <1>2, <3>2
  <2>4. CASE \E d \in Company, s \in State : DieAppending(p, d, s)
    BY <1>3, <2>4
  <2>5. CASE \/ Acquire(p) \/ Resolve(p) \/ Close(p) \/ Persist(p) \/ PersistThrows(p) \/ Die(p)
             \/ DieRegistering(p) \/ (\E companies \in SUBSET Company : List(p, companies))
             \/ \E d \in Company : Pass(p, d)
    BY <1>1, <2>5 DEF Acquire, Resolve, Open, Close, Pass, List, Persist, PersistThrows, Die,
       DieRegistering, files
  <2>6. QED BY <1>4, <2>1, <2>2, <2>3, <2>4, <2>5 DEF Process
<1>5. QED BY <1>1, <1>4 DEF Next, Phase3, Load, Truncate, WriteAll, CutShort, vars, files

(* A complete company's firm keeps its record, whatever is appended, torn  *)
(* or rewritten, but for the losses CompleteIsRegistered names.            *)
THEOREM Registered == Spec => []CompleteIsRegistered
<1>1. Init => FirmInv
  BY AcquisitionAssumption DEF Init, FirmInv, OnFile, Unknown, Clean
<1>2. TypeOK /\ FirmInv /\ [Next]_vars => FirmInv'
  <2> SUFFICES ASSUME TypeOK, FirmInv, [Next]_vars PROVE FirmInv'
    OBVIOUS
  <2>1. QED BY FirmInHand, FirmOnFile DEF FirmInv
<1>3. TypeOK /\ FirmInv => CompleteIsRegistered
  <2> SUFFICES ASSUME TypeOK, FirmInv, NEW c \in Company, c \notin exposed, OnFile(c).state = "complete"
               PROVE  \E d \in Company :
                        /\ Frn[d] = Frn[c]
                        /\ \/ d \in Listed
                           \/ rewrite.pc = "writing" /\ d \in rewrite.records
    BY DEF CompleteIsRegistered
  <2>1. Kept(c)
    BY DEF FirmInv, Lasting
  <2>2. CASE rewrite.pc = "writing"
    <3>1. rewrite.records \subseteq Company
      BY DEF TypeOK
    <3>2. QED BY <2>1, <2>2, <3>1 DEF Kept
  <2>3. CASE rewrite.pc # "writing"
    <3>1. PICK d \in Company : Frn[d] = Frn[c] /\ registry[d] > 0
      BY <2>1, <2>3 DEF Kept
    <3>2. registry[d] \in Nat
      BY DEF TypeOK
    <3>3. QED BY <3>1, <3>2 DEF Listed, Copies
  <2>4. QED BY <2>2, <2>3
<1>4. QED BY <1>1, <1>2, <1>3, TypeCorrect, PTL DEF Spec
=============================================================================

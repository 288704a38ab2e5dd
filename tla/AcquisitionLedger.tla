-------------------------- MODULE AcquisitionLedger --------------------------
(***************************************************************************)
(* Population acquisition: the tools that turn companies into records of   *)
(* the organisation registry, under the processing ledger that is to make  *)
(* it happen once per company.                                             *)
(*                                                                         *)
(* Ledger and registry are append-only files.  A tool reads the ledger     *)
(* into an index once, when it opens it, and decides by the index from     *)
(* then on; nothing keeps a second tool from doing the same beside it.  A  *)
(* step is one append, one answer of a register, or one change of the      *)
(* registry by Phase 3 (enrich-registry), which rewrites it in place.  A   *)
(* tool can die between any two steps and within an append; an append cut  *)
(* short leaves the file without a final newline, so that the next one is  *)
(* glued to what it left and neither can be read.                          *)
(***************************************************************************)
EXTENDS Integers, FiniteSets

CONSTANTS
    Company,      \* company numbers
    Tool,         \* process slots, each running acquire-fca or resolve-ambiguous
    Frn,          \* the FCA firm each company is matched to
    None,         \* no company; a file that ends in a newline
    Fragment,     \* a file that ends in part of a line

    MaxRuns,      \* bound: runs of the tools and of Phase 3
    MaxFaults     \* bound: deaths and failed appends

ASSUME AcquisitionAssumption ==
    /\ IsFiniteSet(Company)
    /\ None \notin Company /\ Fragment \notin Company \cup {None}
    /\ MaxRuns \in Nat /\ MaxFaults \in Nat

-----------------------------------------------------------------------------
(* processing-state.js.  `dropped' stands for no_match, discarded and      *)
(* research, the outcomes nothing leads out of; `absent' is no state of    *)
(* the code but a company the ledger does not know.                        *)

State == {"absent", "unseen", "claimed", "matched", "enriched", "persisted",
          "complete", "dropped", "ambiguous", "failed"}
InFlight == {"claimed", "matched", "enriched", "persisted"}

(* Mutant: what a crash left enriched may be claimed again.                *)
TransitionsReclaimingEnriched ==
    [s \in State |->
        CASE s \in {"unseen", "failed", "ambiguous"} -> {"claimed"}
          [] s = "claimed" -> {"matched", "dropped", "ambiguous", "failed"}
          [] s = "matched" -> {"enriched", "failed"}
          [] s = "enriched" -> {"persisted", "failed", "claimed"}
          [] s = "persisted" -> {"complete"}
          [] OTHER -> {}]

Transitions ==
    [s \in State |->
        CASE s \in {"unseen", "failed", "ambiguous"} -> {"claimed"}
          [] s = "claimed" -> {"matched", "dropped", "ambiguous", "failed"}
          [] s = "matched" -> {"enriched", "failed"}
          [] s = "enriched" -> {"persisted", "failed"}
          [] s = "persisted" -> {"complete"}
          [] OTHER -> {}]

(* A company's record: its state, and whether the event before it was      *)
(* `ambiguous'.                                                            *)
Record == [state: State, reopened: BOOLEAN]
Unknown == [state |-> "absent", reopened |-> FALSE]
Advance(record, s) == [state |-> s, reopened |-> record.state = "ambiguous"]

VARIABLES
    ledger,     \* ledger.ndjson: the lines that can be read, per company
    tail,       \* what follows the ledger's last newline
    registry,   \* registry.ndjson: how many records it has of each company
    rtail,      \* what follows the registry's last newline
    pc, tool,   \* each process slot: where it is, which tool it runs,
    index,      \* the index it built from the ledger and keeps up,
    todo,       \* the companies it still takes up,
    inHand,     \* the company it is processing
    rewrite,    \* Phase 3 and the records it holds in memory
    runs, faults,
    truth,      \* history: the last state anyone recorded of a company
    raced,      \* history: companies recorded by a tool that missed a line
                \*   or while another had them in hand
    unsure,     \* history: companies whose record was written by an append that threw
    orphaned,   \* history: companies in the hand of a process that died
    exposed     \* history: companies whose record was torn, glued or
                \*   beside an unfinished rewrite
files == <<ledger, tail, registry, rtail>>
slots == <<pc, tool, index, todo, inHand>>
history == <<truth, raced, unsure, orphaned, exposed>>
vars == <<files, slots, rewrite, runs, faults, history>>

Clean == [company |-> None, state |-> "absent"]
Torn == [company |-> Fragment, state |-> "absent"]

Init ==
    /\ ledger = [c \in Company |-> Unknown] /\ tail = Clean
    /\ registry = [c \in Company |-> 0] /\ rtail = None
    /\ pc = [p \in Tool |-> "idle"]
    /\ tool = [p \in Tool |-> "acquire"]
    /\ index = [p \in Tool |-> [c \in Company |-> Unknown]]
    /\ todo = [p \in Tool |-> {}]
    /\ inHand = [p \in Tool |-> None]
    /\ rewrite = [pc |-> "off", records |-> {}]
    /\ runs = 0 /\ faults = 0
    /\ truth = [c \in Company |-> "absent"]
    /\ raced = {} /\ unsure = {} /\ orphaned = {} /\ exposed = {}

Run == runs < MaxRuns /\ runs' = runs + 1
Fault == faults < MaxFaults /\ faults' = faults + 1

-----------------------------------------------------------------------------
(* The ledger.                                                             *)

(* What openLedger reads: the last line counts without its newline.        *)
OnFile(c) == IF tail.company = c THEN Advance(ledger[c], tail.state) ELSE ledger[c]

(* p records a state of c without having seen the last one, or while       *)
(* another process is at work on c.                                        *)
Races(p, c) ==
    \/ index[p][c].state # truth[c]
    \/ \E q \in Tool \ {p} : inHand[q] = c

Note(p, c, s) ==
    /\ truth' = [truth EXCEPT ![c] = s]
    /\ raced' = IF Races(p, c) THEN raced \cup {c} ELSE raced

(* _append.                                                                *)
Append(p, c, s) ==
    /\ ledger' = IF tail = Clean THEN [ledger EXCEPT ![c] = Advance(@, s)] ELSE ledger
    /\ tail' = Clean
    /\ index' = [index EXCEPT ![p][c] = Advance(@, s)]
    /\ Note(p, c, s)

(* canTransition(current, CLAIMED), where an absent company is unseen.     *)
Claimable(p, c) ==
    LET current == index[p][c].state
    IN  "claimed" \in Transitions[IF current = "absent" THEN "unseen" ELSE current]

-----------------------------------------------------------------------------
(* Starting and ending a run.                                              *)

Open(p, t, first) ==
    /\ pc[p] = "idle"
    /\ Run
    /\ pc' = [pc EXCEPT ![p] = first]
    /\ tool' = [tool EXCEPT ![p] = t]
    /\ index' = [index EXCEPT ![p] = [c \in Company |-> OnFile(c)]]
    /\ UNCHANGED <<files, inHand, rewrite, faults, history>>

(* acquire-fca: its source may name any company, and name one again under  *)
(* another SIC code.                                                       *)
Acquire(p) ==
    /\ Open(p, "acquire", "choosing")
    /\ todo' = [todo EXCEPT ![p] = Company]

(* resolve-ambiguous first recovers the claims of an interrupted run.      *)
Resolve(p) ==
    /\ Open(p, "resolve", "recovering")
    /\ UNCHANGED todo

Stranded(p, c) == index[p][c] = [state |-> "claimed", reopened |-> TRUE]

Recover(p, c) ==
    /\ pc[p] = "recovering" /\ Stranded(p, c)
    /\ Append(p, c, "ambiguous")
    /\ orphaned' = orphaned \ {c}
    /\ UNCHANGED <<registry, rtail, pc, tool, todo, inHand, rewrite, runs, faults, unsure, exposed>>

(* The ambiguous companies, or a part of them under --limit.               *)
List(p, companies) ==
    /\ pc[p] = "recovering"
    /\ \A c \in Company : ~Stranded(p, c)
    /\ \A c \in companies : index[p][c].state = "ambiguous"
    /\ pc' = [pc EXCEPT ![p] = "choosing"]
    /\ todo' = [todo EXCEPT ![p] = companies]
    /\ UNCHANGED <<files, tool, index, inHand, rewrite, runs, faults, history>>

Idle(p) ==
    /\ pc' = [pc EXCEPT ![p] = "idle"]
    /\ tool' = [tool EXCEPT ![p] = "acquire"]
    /\ index' = [index EXCEPT ![p] = [c \in Company |-> Unknown]]
    /\ todo' = [todo EXCEPT ![p] = {}]
    /\ inHand' = [inHand EXCEPT ![p] = None]

(* The source of acquire-fca ends, fails or reaches its limit.             *)
Close(p) ==
    /\ pc[p] = "choosing"
    /\ tool[p] = "resolve" => todo[p] = {}
    /\ Idle(p)
    /\ UNCHANGED <<files, rewrite, runs, faults, history>>

-----------------------------------------------------------------------------
(* processCandidate.                                                       *)

(* resolve-ambiguous takes up each company of its list once.               *)
Left(p, c) == IF tool[p] = "resolve" THEN todo[p] \ {c} ELSE todo[p]

(* Not claimable, or no profile of it at Companies House.                  *)
Pass(p, c) ==
    /\ pc[p] = "choosing" /\ c \in todo[p]
    /\ Left(p, c) # todo[p]
    /\ todo' = [todo EXCEPT ![p] = Left(p, c)]
    /\ UNCHANGED <<files, pc, tool, index, inHand, rewrite, runs, faults, history>>

Take(p, c, next) ==
    /\ pc[p] = "choosing" /\ c \in todo[p]
    /\ Claimable(p, c)
    /\ pc' = [pc EXCEPT ![p] = next]
    /\ todo' = [todo EXCEPT ![p] = Left(p, c)]
    /\ inHand' = [inHand EXCEPT ![p] = c]

(* claim of a company the ledger does not know: first the line for unseen. *)
Create(p, c) ==
    /\ index[p][c].state = "absent"
    /\ Take(p, c, "created")
    /\ Append(p, c, "unseen")
    /\ UNCHANGED <<registry, rtail, tool, rewrite, runs, faults, unsure, orphaned, exposed>>

Claim(p, c) ==
    /\ \/ index[p][c].state # "absent" /\ Take(p, c, "working")
       \/ /\ pc[p] = "created" /\ inHand[p] = c
          /\ pc' = [pc EXCEPT ![p] = "working"]
          /\ UNCHANGED <<todo, inHand>>
    /\ Append(p, c, "claimed")
    /\ orphaned' = orphaned \ {c}
    /\ UNCHANGED <<registry, rtail, tool, rewrite, runs, faults, unsure, exposed>>

(* Mutant: a company stays in hand whatever becomes of it.                 *)
UpdateInHand(p, s) ==
    LET c == inHand[p] IN
    /\ s \in Transitions[index[p][c].state]
    /\ Append(p, c, s)
    /\ UNCHANGED <<pc, inHand>>
    /\ UNCHANGED <<registry, rtail, tool, todo, rewrite, runs, faults, unsure, orphaned, exposed>>

(* The company in hand reaches state s, and is let go when s ends it.      *)
Update(p, s) ==
    LET c == inHand[p] IN
    /\ s \in Transitions[index[p][c].state]
    /\ Append(p, c, s)
    /\ IF s \in InFlight THEN UNCHANGED <<pc, inHand>>
       ELSE /\ pc' = [pc EXCEPT ![p] = "choosing"]
            /\ inHand' = [inHand EXCEPT ![p] = None]
    /\ UNCHANGED <<registry, rtail, tool, todo, rewrite, runs, faults, unsure, orphaned, exposed>>

At(p, at, s) == pc[p] = at /\ index[p][inHand[p]].state = s

(* The search by name, the match and the status gate.                      *)
Search(p) == At(p, "working", "claimed") /\ \E s \in State : Update(p, s)

Enrich(p) == At(p, "working", "matched") /\ \E s \in State : Update(p, s)

(* createRegistryPersist.  Phase 3 overwrites what is appended beside it.  *)
Persist(p) ==
    LET c == inHand[p] IN
    /\ At(p, "working", "enriched")
    /\ registry' = IF rtail = None THEN [registry EXCEPT ![c] = @ + 1] ELSE registry
    /\ rtail' = None
    /\ exposed' = IF rtail = None /\ rewrite.pc = "off" THEN exposed ELSE exposed \cup {c}
    /\ pc' = [pc EXCEPT ![p] = "written"]
    /\ UNCHANGED <<ledger, tail, tool, index, todo, inHand, rewrite, runs, faults,
                   truth, raced, unsure, orphaned>>

(* The append to the registry threw, having written nothing, a part of the *)
(* line, the line but for its newline, or all of it.                       *)
PersistThrows(p) ==
    LET c == inHand[p] IN
    /\ At(p, "working", "enriched")
    /\ Fault
    /\ \/ UNCHANGED <<registry, rtail, unsure>>
       \/ rtail' = Fragment /\ UNCHANGED <<registry, unsure>>
       \/ rtail = None /\ rtail' = c /\ unsure' = unsure \cup {c} /\ UNCHANGED registry
       \/ /\ registry' = IF rtail = None THEN [registry EXCEPT ![c] = @ + 1] ELSE registry
          /\ rtail' = None
          /\ unsure' = unsure \cup {c}
    /\ pc' = [pc EXCEPT ![p] = "failing"]
    /\ UNCHANGED <<ledger, tail, tool, index, todo, inHand, rewrite, runs,
                   truth, raced, orphaned, exposed>>

(* Mutant: the error ends the candidate without a state of its own.        *)
FailSilently(p) ==
    /\ At(p, "failing", "enriched")
    /\ pc' = [pc EXCEPT ![p] = "choosing"]
    /\ inHand' = [inHand EXCEPT ![p] = None]
    /\ UNCHANGED <<files, tool, index, todo, rewrite, runs, faults, history>>

(* _fail, for the registry.                                                *)
Fail(p) == At(p, "failing", "enriched") /\ Update(p, "failed")

Confirm(p) == At(p, "written", "enriched") /\ Update(p, "persisted")

Complete(p) == At(p, "written", "persisted") /\ Update(p, "complete")

-----------------------------------------------------------------------------
(* Deaths.                                                                 *)

Abandon(p) == orphaned' = orphaned \cup ({inHand[p]} \cap Company)

Die(p) ==
    /\ pc[p] # "idle"
    /\ Fault
    /\ Idle(p)
    /\ Abandon(p)
    /\ UNCHANGED <<files, rewrite, runs, truth, raced, unsure, exposed>>

(* The line p is about to append is one for c and s.                       *)
Appends(p, c, s) ==
    \/ pc[p] = "recovering" /\ Stranded(p, c) /\ s = "ambiguous"
    \/ /\ pc[p] = "choosing" /\ c \in todo[p] /\ Claimable(p, c)
       /\ s = IF index[p][c].state = "absent" THEN "unseen" ELSE "claimed"
    \/ pc[p] = "created" /\ inHand[p] = c /\ s = "claimed"
    \/ /\ pc[p] \in {"working", "failing", "written"} /\ inHand[p] = c
       /\ s \in Transitions[index[p][c].state]
       /\ index[p][c].state = "enriched" =>
            \/ pc[p] = "failing" /\ s = "failed"
            \/ pc[p] = "written" /\ s = "persisted"

(* An append to the ledger is cut short, by a death or by an error, which  *)
(* nothing catches.                                                        *)
DieAppending(p, c, s) ==
    /\ Appends(p, c, s)
    /\ Fault
    /\ \/ /\ tail' = Torn
          /\ Abandon(p)
          /\ UNCHANGED <<truth, raced>>
       \/ /\ tail = Clean
          /\ tail' = [company |-> c, state |-> s]
          /\ Note(p, c, s)
          /\ orphaned' = IF s \in InFlight THEN orphaned \cup {c} ELSE orphaned \ {c}
    /\ Idle(p)
    /\ UNCHANGED <<ledger, registry, rtail, rewrite, runs, unsure, exposed>>

(* The append to the registry is cut short by a death.                     *)
DieRegistering(p) ==
    LET c == inHand[p] IN
    /\ At(p, "working", "enriched")
    /\ Fault
    /\ \/ rtail' = Fragment
       \/ rtail = None /\ rtail' = c
    /\ Idle(p)
    /\ Abandon(p)
    /\ UNCHANGED <<ledger, tail, registry, rewrite, runs, truth, raced, unsure, exposed>>

-----------------------------------------------------------------------------
(* Phase 3, enrich-registry.                                               *)

(* Records that can be read, with the last line if it lacks its newline.   *)
Copies(c) == registry[c] + (IF rtail = c THEN 1 ELSE 0)
Listed == {c \in Company : Copies(c) > 0}

(* One record of each firm: the first in the file, so any of them here.    *)
Deduplicated(kept) ==
    /\ kept \subseteq Listed
    /\ \A c \in Listed : \E d \in kept : Frn[d] = Frn[c]
    /\ \A c, d \in kept : Frn[c] = Frn[d] => c = d

Load(kept) ==
    /\ rewrite.pc = "off"
    /\ Deduplicated(kept)
    /\ Run
    /\ rewrite' = [pc |-> "loaded", records |-> kept]
    /\ UNCHANGED <<files, slots, faults, history>>

(* writeFileSync opens the file with truncation.                           *)
Truncate ==
    /\ rewrite.pc = "loaded"
    /\ rewrite' = [rewrite EXCEPT !.pc = "writing"]
    /\ registry' = [c \in Company |-> 0]
    /\ rtail' = None
    /\ UNCHANGED <<ledger, tail, slots, runs, faults, history>>

(* Mutant: the final write leaves out what --limit left alone.             *)
WriteWithinLimit ==
    /\ rewrite.pc = "writing"
    /\ \E target \in SUBSET rewrite.records :
         registry' = [c \in Company |-> IF c \in target THEN 1 ELSE 0]
    /\ rtail' = None
    /\ rewrite' = [pc |-> "off", records |-> {}]
    /\ UNCHANGED <<ledger, tail, slots, runs, faults, history>>

(* ... and writes it from its start: a flush, or the final write.          *)
WriteAll ==
    /\ rewrite.pc = "writing"
    /\ registry' = [c \in Company |-> IF c \in rewrite.records THEN 1 ELSE 0]
    /\ rtail' = None
    /\ \/ rewrite' = [rewrite EXCEPT !.pc = "loaded"]
       \/ rewrite' = [pc |-> "off", records |-> {}]
    /\ UNCHANGED <<ledger, tail, slots, runs, faults, history>>

(* Phase 3 dies: what was written of the file stays.                       *)
CutShort ==
    /\ rewrite.pc # "off"
    /\ Fault
    /\ rewrite' = [pc |-> "off", records |-> {}]
    /\ \/ rewrite.pc = "loaded" /\ UNCHANGED <<registry, rtail, exposed>>
       \/ /\ rewrite.pc = "writing"
          /\ \E kept \in SUBSET rewrite.records :
               /\ registry' = [c \in Company |-> IF c \in kept THEN 1 ELSE 0]
               /\ rtail' \in {None, Fragment} \cup (rewrite.records \ kept)
          /\ exposed' = exposed \cup {c \in Company : \E d \in rewrite.records : Frn[d] = Frn[c]}
    /\ UNCHANGED <<ledger, tail, slots, runs, truth, raced, unsure, orphaned>>

-----------------------------------------------------------------------------
Process(p) ==
    \/ Acquire(p) \/ Resolve(p) \/ Close(p)
    \/ \E c \in Company : Recover(p, c) \/ Pass(p, c) \/ Create(p, c) \/ Claim(p, c)
    \/ \E companies \in SUBSET Company : List(p, companies)
    \/ Search(p) \/ Enrich(p) \/ Persist(p) \/ PersistThrows(p) \/ Fail(p)
    \/ Confirm(p) \/ Complete(p)
    \/ Die(p) \/ DieRegistering(p)
    \/ \E c \in Company, s \in State : DieAppending(p, c, s)

Phase3 == (\E kept \in SUBSET Company : Load(kept)) \/ Truncate \/ WriteAll \/ CutShort

Next == Phase3 \/ \E p \in Tool : Process(p)

Spec == Init /\ [][Next]_vars

-----------------------------------------------------------------------------
(* A slot has a company in hand exactly while it processes one, in a state *)
(* its point in processCandidate allows.                                   *)
Busy == {"created", "working", "failing", "written"}

TypeOK ==
    /\ ledger \in [Company -> Record]
    /\ tail \in [company: Company \cup {None, Fragment}, state: State]
    /\ registry \in [Company -> Nat]
    /\ rtail \in Company \cup {None, Fragment}
    /\ pc \in [Tool -> Busy \cup {"idle", "recovering", "choosing"}]
    /\ tool \in [Tool -> {"acquire", "resolve"}]
    /\ index \in [Tool -> [Company -> Record]]
    /\ todo \in [Tool -> SUBSET Company]
    /\ inHand \in [Tool -> Company \cup {None}]
    /\ rewrite \in [pc: {"off", "loaded", "writing"}, records: SUBSET Company]
    /\ runs \in Nat /\ faults \in Nat
    /\ truth \in [Company -> State]
    /\ raced \subseteq Company /\ unsure \subseteq Company
    /\ orphaned \subseteq Company /\ exposed \subseteq Company
    /\ \A p \in Tool :
         /\ inHand[p] # None <=> pc[p] \in Busy
         /\ pc[p] = "created" => At(p, "created", "unseen")
         /\ pc[p] = "working" => index[p][inHand[p]].state \in {"claimed", "matched", "enriched"}
         /\ pc[p] = "failing" => At(p, "failing", "enriched")
         /\ pc[p] = "written" => index[p][inHand[p]].state \in {"enriched", "persisted"}

(* A company is registered once, whatever crashes and torn appends happen: *)
(* twice only if a state of it was recorded by a tool that had missed one  *)
(* (a line of another tool since it opened the ledger, or one that was     *)
(* glued), or if the append to the registry threw after having written.    *)
RegisteredOnce ==
    \A c \in Company \ (raced \cup unsure) : Copies(c) <= 1

(* A company the ledger has in flight, which no run will claim again, is   *)
(* in the hand of a live process, or was in that of one that died, or the  *)
(* line that ended its processing was glued and lost.                      *)
InFlightIsHeld ==
    \A c \in Company : OnFile(c).state \in InFlight =>
        \/ \E p \in Tool : inHand[p] = c
        \/ c \in orphaned
        \/ OnFile(c).state # truth[c]

(* The firm of a company that is complete has a record in the registry, or *)
(* in the memory of a Phase 3 that is writing it back, unless the record   *)
(* was glued to a torn one, was appended while Phase 3 ran, or Phase 3     *)
(* died while writing.                                                     *)
CompleteIsRegistered ==
    \A c \in Company \ exposed : OnFile(c).state = "complete" =>
        \E d \in Company :
            /\ Frn[d] = Frn[c]
            /\ \/ d \in Listed
               \/ rewrite.pc = "writing" /\ d \in rewrite.records
=============================================================================

------------------------- MODULE MCAcquisitionLedger -------------------------
(***************************************************************************)
(* AcquisitionLedger for TLC: two companies matched to one firm, so that   *)
(* the deduplication of Phase 3 has something to drop.  Slots are          *)
(* symmetric, and so are companies: nothing tells one from another and no  *)
(* property is temporal.                                                   *)
(***************************************************************************)
EXTENDS AcquisitionLedger, TLC

MCFrn == [c \in Company |-> 1]
MCSymmetry == Permutations(Tool) \cup Permutations(Company)
=============================================================================

--------------------------- MODULE MCCollectionRun ---------------------------
(***************************************************************************)
(* CollectionRun for TLC.  The invocation slots are symmetric: nothing     *)
(* tells one from another, and the temporal properties are about the       *)
(* tables, which hold no slot.  The domains are not, as the lists differ   *)
(* in them.                                                                *)
(***************************************************************************)
EXTENDS CollectionRun, TLC

MCSymmetry == Permutations(Process)
=============================================================================

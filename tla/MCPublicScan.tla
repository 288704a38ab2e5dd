---------------------------- MODULE MCPublicScan ----------------------------
(***************************************************************************)
(* PublicScan for TLC: two requests over two domains, each with a          *)
(* resilient signal and the pair, over three ticks, of which two are       *)
(* within a cooldown of each other.  Requests and domains are symmetric:   *)
(* nothing tells one from another, and KeepsRecord, a property of steps,   *)
(* is as symmetric: the record holds no request, and domains as such.      *)
(***************************************************************************)
EXTENDS PublicScan, TLC

MCSymmetry == Permutations(Request) \cup Permutations(Domain)
=============================================================================

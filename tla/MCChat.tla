------------------------------- MODULE MCChat -------------------------------
(***************************************************************************)
(* The chat service for TLC: sessions that may be exchanged.               *)
(***************************************************************************)
EXTENDS Chat, TLC

Symmetry == Permutations(Sessions)
=============================================================================

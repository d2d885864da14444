---------------------------- MODULE MCTaskForge -----------------------------
(***************************************************************************)
(* The system for TLC.                                                     *)
(***************************************************************************)
EXTENDS TaskForgeInvariants, TLC

Symmetry == Permutations(Workers)

=============================================================================

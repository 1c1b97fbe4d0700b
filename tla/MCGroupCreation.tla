-------------------------- MODULE MCGroupCreation --------------------------
(***************************************************************************)
(* GroupCreation for TLC.                                                  *)
(***************************************************************************)
EXTENDS GroupCreation, TLC

\* Cells are alike.
Cells == Permutations(Cell)
=============================================================================

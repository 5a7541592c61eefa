------------------------------- MODULE MCDrag -------------------------------
(***************************************************************************)
(* Drag with three cards in two columns, of which a column shows two at    *)
(* first.                                                                  *)
(***************************************************************************)
EXTENDS Drag, TLC

CardSymmetry == Permutations(Tasks)
=============================================================================

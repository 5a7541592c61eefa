----------------------------- MODULE MCColumns ------------------------------
(***************************************************************************)
(* Columns with three cards and two columns. A step of 4 leaves room for   *)
(* two drops into one gap before the column is renumbered.                 *)
(***************************************************************************)
EXTENDS Columns, TLC

MCCols == {"draft", "plan"}

CardSymmetry == Permutations(Tasks)
=============================================================================

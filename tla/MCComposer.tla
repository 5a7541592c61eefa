----------------------------- MODULE MCComposer -----------------------------
(***************************************************************************)
(* Composer with two nameless images and a film, and two words.            *)
(***************************************************************************)
EXTENDS Composer, TLC

MCCategory == [f \in Files |-> IF f = "film" THEN "video" ELSE "image"]

WordSymmetry == Permutations(Words)
=============================================================================

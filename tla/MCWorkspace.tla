---------------------------- MODULE MCWorkspace -----------------------------
(***************************************************************************)
(* Workspace with two cards, one of which has two attempts and so a second *)
(* page, and room for one more attempt.                                    *)
(***************************************************************************)
EXTENDS Workspace

MCHomes == [a \in {1, 2, 3} |-> IF a = 3 THEN "y" ELSE "x"]
=============================================================================

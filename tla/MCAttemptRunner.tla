-------------------------- MODULE MCAttemptRunner ---------------------------
(* AttemptRunner on small sets of attempts, handlers and goroutines. *)
EXTENDS AttemptRunner, TLC
CONSTANTS t1

OneTaskOf == [a \in Attempts |-> t1]

(* Handlers are interchangeable, and so are goroutines. *)
Symmetry == Permutations(Requests) \cup Permutations(Goroutines)
=============================================================================

----------------------------- MODULE BoardTable -----------------------------
(***************************************************************************)
(* The task states and the table of legal moves of internal/board/board.go,*)
(* shared by every module that moves a task.                               *)
(***************************************************************************)

TaskStatus == {"draft", "plan", "execute", "verify", "done", "archive"}

(* The validTransitions table: the columns a task may be moved to. *)
validTransitions ==
    [ draft   |-> {"plan", "execute", "archive"},
      plan    |-> {"execute", "draft", "archive"},
      execute |-> {"verify", "archive"},
      verify  |-> {"done", "execute", "archive"},
      done    |-> {"archive", "verify", "execute"},
      archive |-> {"draft", "plan", "execute", "verify", "done"} ]

(* What Service.Transition makes of a task it read in status `from`: the   *)
(* same status is a successful no-op, an illegal move is an error.         *)
Moved(from, to) == IF to \in validTransitions[from] THEN to ELSE from

=============================================================================

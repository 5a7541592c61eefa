----------------------------- MODULE CardOrder ------------------------------
(***************************************************************************)
(* What the board promises of the order of its cards, without positions:   *)
(* in every column some cards stand above others, a new or a transitioned  *)
(* card goes below all of them, a dropped card goes next to the card it    *)
(* was dropped at, and the others stay in the order they have. Columns     *)
(* implements this with numbers, gaps and renumbering.                     *)
(***************************************************************************)
EXTENDS BoardTable

CONSTANTS
    Tasks,   \* task ids
    NoTask,  \* no id, and the status of an id without a row
    Cols     \* bound: the columns in use

VARIABLES
    status,  \* the column of each card, NoTask without a row
    above    \* pairs of cards of a column, the upper one first

vars == <<status, above>>

Column(s) == {t \in Tasks : status[t] = s}

(* The pairs compare cards of one column, as a list with ties does: if x   *)
(* is above z, any y of the column is below x or above z.                  *)
Ordered ==
    \A x, y \in Tasks : <<x, y>> \in above =>
        /\ status[x] = status[y] /\ status[x] # NoTask
        /\ <<y, x>> \notin above
        /\ \A z \in Column(status[x]) : <<x, z>> \in above \/ <<z, y>> \in above

TypeOK ==
    /\ status \in [Tasks -> Cols \cup {NoTask}]
    /\ above \subseteq Tasks \X Tasks

Init ==
    /\ status = [t \in Tasks |-> NoTask]
    /\ above = {}

-----------------------------------------------------------------------------
(* Card t goes to column s, and the others keep their order.               *)
Put(t, s) ==
    /\ status' = [status EXCEPT ![t] = s]
    /\ above' \subseteq Tasks \X Tasks
    /\ Ordered'
    /\ \A x, y \in Tasks \ {t} : <<x, y>> \in above => <<x, y>> \in above'

AtEnd(t, s) == \A x \in Column(s) \ {t} : <<x, t>> \in above'

(* Directly below card x: above what is below x, and below all the rest.   *)
Below(t, x, s) ==
    \A y \in Column(s) \ {t} :
        IF <<x, y>> \in above' THEN <<t, y>> \in above' ELSE <<y, t>> \in above'

(* Directly above card x.                                                  *)
OnTopOf(t, x, s) ==
    \A y \in Column(s) \ {t} :
        IF <<y, x>> \in above' THEN <<y, t>> \in above' ELSE <<t, y>> \in above'

CreateTask(t, s) == status[t] = NoTask /\ Put(t, s) /\ AtEnd(t, s)

SetTaskStatus(t, s) == status[t] # NoTask /\ Put(t, s) /\ AtEnd(t, s)

(* The card that is named as the upper neighbour counts; if it is not in   *)
(* the column, the dropped card may go anywhere.                           *)
MoveTask(t, s, after, before) ==
    /\ status[t] # NoTask
    /\ Put(t, s)
    /\ LET others == Column(s) \ {t}
       IN  /\ after \in others => Below(t, after, s)
           /\ after = NoTask /\ before \in others => OnTopOf(t, before, s)

DeleteTask(t) == status[t] # NoTask /\ Put(t, NoTask)

Next ==
    \E t \in Tasks :
        \/ \E s \in Cols : CreateTask(t, s) \/ SetTaskStatus(t, s)
        \/ \E s \in Cols, x \in Tasks : MoveTask(t, s, x, NoTask) \/ MoveTask(t, s, NoTask, x)
        \/ DeleteTask(t)

Spec == Init /\ [][Next]_vars

=============================================================================

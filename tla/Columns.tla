------------------------------ MODULE Columns -------------------------------
(***************************************************************************)
(* The order of the cards in a column: tasks.position, as the statements   *)
(* of internal/store assign it. A task that is created or transitioned     *)
(* goes below the last card of its column; one that is dropped next to     *)
(* another card gets the middle of the gap, and when the gap is used up    *)
(* MoveTask renumbers the whole column first. Every action is one          *)
(* transaction. What decides on a move, and the cache in front of the      *)
(* table, are TaskBoard's.                                                 *)
(*                                                                         *)
(* An operator whose comment begins with VARIANT is not used by the model: *)
(* it says what a wrong form of the operator after it would be.            *)
(***************************************************************************)
EXTENDS Integers, FiniteSets, BoardTable

CONSTANTS
    Tasks,   \* task ids; an id that is deleted stands for a new one as well
    NoTask,  \* no id, and the status of an id without a row
    Step,    \* the distance of new neighbours, 1024 in the code
    Cols,    \* bound: the columns in use
    Room     \* bound: positions stay between -Room and Room

ASSUME TasksAssumption == IsFiniteSet(Tasks) /\ NoTask \notin Tasks \cup TaskStatus
ASSUME StepAssumption  == Step \in Nat /\ Step >= 2
ASSUME BoundAssumption ==
    /\ Cols \subseteq TaskStatus
    /\ Room \in Nat
    /\ Room >= Step * (Cardinality(Tasks) + 1)

VARIABLES
    status,    \* tasks.status, NoTask without a row
    position   \* tasks.position

vars == <<status, position>>

TypeOK ==
    /\ status \in [Tasks -> Cols \cup {NoTask}]
    /\ position \in [Tasks -> -Room .. Room]

Init ==
    /\ status = [t \in Tasks |-> NoTask]
    /\ position = [t \in Tasks |-> 0]

-----------------------------------------------------------------------------
Column(s) == {t \in Tasks : status[t] = s}

(* VARIANT: the count of a column instead of its maximum.                  *)
HighestCount(s, m) == m = Step * Cardinality(Column(s))

(* SELECT MAX(position) of a column: 0 stands for its NULL.                *)
Highest(s, m) ==
    \/ Column(s) = {} /\ m = 0
    \/ /\ \E t \in Column(s) : position[t] = m
       /\ \A t \in Column(s) : position[t] <= m

(* Bound: a new position is at most a step away from an old one.           *)
InRoom == \A t \in Tasks : status[t] # NoTask =>
              position[t] \in Step - Room .. Room - Step

(* The rows of a column, without t, in ascending position: an order that   *)
(* SQLite may return, whichever way it breaks ties.                        *)
Neighbours(s, t) ==
    LET others == Column(s) \ {t}
    IN  {ord \in [1 .. Cardinality(others) -> others] :
             /\ \A x \in others : \E i \in DOMAIN ord : ord[i] = x
             /\ \A i, j \in DOMAIN ord :
                    i < j => ord[i] # ord[j] /\ position[ord[i]] <= position[ord[j]]}

(* VARIANT: the sum of the two neighbours instead of their middle.         *)
HalfNot(n) == n

(* Go's division by two, which truncates towards zero.                     *)
Half(n) == IF n >= 0 THEN n \div 2 ELSE -((-n) \div 2)

(* The slots a drop asks for: slot k is below the k-th card of the column. *)
(* There is none when the neighbour that was named is not in the column:   *)
(* another request moved or deleted it meanwhile.                          *)
Slots(ord, after, before) ==
    IF after # NoTask THEN {k \in DOMAIN ord : ord[k] = after}
    ELSE IF before # NoTask THEN {k - 1 : k \in {i \in DOMAIN ord : ord[i] = before}}
    ELSE {Cardinality(DOMAIN ord)}

(* VARIANT: a gap of one is taken for one that has a middle.               *)
CrowdedLate(ord, k) ==
    /\ k \in DOMAIN ord
    /\ k + 1 \in DOMAIN ord
    /\ position[ord[k + 1]] - position[ord[k]] < 1

(* There is a card on both sides of slot k, and no integer between them.   *)
Crowded(ord, k) ==
    /\ k \in DOMAIN ord
    /\ k + 1 \in DOMAIN ord
    /\ position[ord[k + 1]] - position[ord[k]] <= 1

(* The position of slot k in a column that is not crowded there.           *)
Middle(ord, k) ==
    IF k \in DOMAIN ord
    THEN IF k + 1 \in DOMAIN ord
         THEN Half(position[ord[k]] + position[ord[k + 1]])
         ELSE position[ord[k]] + Step
    ELSE IF k + 1 \in DOMAIN ord
         THEN position[ord[k + 1]] - Step
         ELSE Step

(* VARIANT: the rows are numbered from the end of the column.              *)
RankDown(ord, x) ==
    Cardinality(DOMAIN ord) + 1 - CHOOSE i \in DOMAIN ord : ord[i] = x

Rank(ord, x) == CHOOSE i \in DOMAIN ord : ord[i] = x

(* The positions after a drop of t at slot k.                              *)
Dropped(t, ord, k) ==
    IF Crowded(ord, k)
    THEN [x \in Tasks |->
            IF x = t THEN k * Step + Step \div 2
            ELSE IF \E i \in DOMAIN ord : ord[i] = x THEN Rank(ord, x) * Step
            ELSE position[x]]
    ELSE [position EXCEPT ![t] = Middle(ord, k)]

-----------------------------------------------------------------------------
(* Store.CreateTask, for POST /api/tasks: the client names the column.     *)
CreateTask(t, s) ==
    /\ InRoom
    /\ status[t] = NoTask
    /\ \E m \in {0} \cup {position[x] : x \in Tasks} :
           /\ Highest(s, m)
           /\ position' = [position EXCEPT ![t] = m + Step]
    /\ status' = [status EXCEPT ![t] = s]

(* Store.SetTaskStatus, for Board.Transition, to the end of the column.    *)
SetTaskStatus(t, to) ==
    /\ InRoom
    /\ status[t] # NoTask
    /\ \E m \in {0} \cup {position[x] : x \in Tasks} :
           /\ Highest(to, m)
           /\ position' = [position EXCEPT ![t] = m + Step]
    /\ status' = [status EXCEPT ![t] = to]

(* Store.MoveTask, for a drag that names the card above or below.          *)
MoveTask(t, to, after, before) ==
    /\ InRoom
    /\ status[t] # NoTask
    /\ \E ord \in Neighbours(to, t) :
           LET slots == Slots(ord, after, before)
           IN  \/ /\ slots = {}
                  /\ position' = [position EXCEPT ![t] = Step]
               \/ \E k \in slots : position' = Dropped(t, ord, k)
    /\ status' = [status EXCEPT ![t] = to]

(* Store.DeleteTask.                                                       *)
DeleteTask(t) ==
    /\ status[t] # NoTask
    /\ status' = [status EXCEPT ![t] = NoTask]
    /\ position' = [position EXCEPT ![t] = 0]

(* What a user or the server does to one card.                             *)
Operation(t) ==
    \/ \E s \in Cols : CreateTask(t, s)
    \/ \E s \in Cols : SetTaskStatus(t, s)
    \/ \E s \in Cols, x \in Tasks : MoveTask(t, s, x, NoTask)
    \/ \E s \in Cols, x \in Tasks : MoveTask(t, s, NoTask, x)
    \/ DeleteTask(t)

Next == \E t \in Tasks : Operation(t)

Spec == Init /\ [][Next]_vars

-----------------------------------------------------------------------------
(* What the board shows: x above y, in a column ordered by position.       *)
Above(x, y) == status[x] # NoTask /\ status[x] = status[y] /\ position[x] < position[y]

(* Whatever a user or the server does to one card, the other cards keep    *)
(* the order the user gave them, also when MoveTask renumbers the column.  *)
OrderKept ==
    [][\A t \in Tasks : Operation(t) =>
          \A x, y \in Tasks \ {t} : Above(x, y) => Above(x, y)']_vars

(* No card of the column is between x and y, and y is not level with x.    *)
Adjacent(x, y) ==
    /\ Above(x, y)
    /\ \A z \in Column(status[x]) \ {x, y} :
           position[z] <= position[x] \/ position[y] <= position[z]

(* A card that is dropped below another stands directly below it, and one  *)
(* that is dropped above another directly above, if that other card is in  *)
(* the column at all; no rounding puts it level with a neighbour.          *)
DropLands ==
    [][\A t, x \in Tasks, s \in Cols :
          x # t /\ status[x] = s =>
              /\ MoveTask(t, s, x, NoTask) => Adjacent(x, t)'
              /\ MoveTask(t, s, NoTask, x) => Adjacent(t, x)']_vars

(* A card that is created or transitioned stands below its whole column.   *)
EndOfColumn ==
    [][\A t \in Tasks, s \in Cols :
          CreateTask(t, s) \/ SetTaskStatus(t, s) =>
              \A x \in Tasks \ {t} : status[x] = s => Above(x, t)']_vars

(* The order that the positions make is the order CardOrder promises: what *)
(* the gaps and the renumbering do is invisible on the board.              *)
AboveOf == {p \in Tasks \X Tasks : Above(p[1], p[2])}

Order == INSTANCE CardOrder WITH above <- AboveOf

KeepsCardOrder == Order!Spec

=============================================================================

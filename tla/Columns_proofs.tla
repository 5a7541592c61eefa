--------------------------- MODULE Columns_proofs ---------------------------
(***************************************************************************)
(* Proofs about Columns, for any number of cards, any step and any bound.  *)
(* The core is DropBetween: whatever ties the column holds, a card dropped *)
(* at a slot gets a position strictly between those of the cards above and *)
(* those below, and no other card changes places.                          *)
(***************************************************************************)
EXTENDS Columns, FiniteSetTheorems, TLAPS

(* Multiplication by a step keeps the order of ranks.                      *)
LEMMA Scaled ==
  ASSUME NEW a \in Int, NEW b \in Int, NEW c \in Nat, a <= b
  PROVE  a * c <= b * c
<1>1. PICK d \in Nat : b = a + d
  <2>1. b - a \in Nat /\ b = a + (b - a)
    OBVIOUS
  <2> QED
    BY <2>1
<1>2. b * c = a * c + d * c
  BY <1>1
<1>3. d * c \in Nat /\ a * c \in Int
  BY <1>1
<1> QED
  BY <1>2, <1>3

(* A middle exists wherever two positions differ by two or more.           *)
LEMMA HalfBetween ==
  ASSUME NEW lo \in Int, NEW hi \in Int, hi - lo > 1
  PROVE  /\ Half(lo + hi) \in Int
         /\ lo < Half(lo + hi)
         /\ Half(lo + hi) < hi
BY DEF Half

(* What a column in SQLite's order is: every other card of it once, by     *)
(* ascending position.                                                     *)
LEMMA Neighbouring ==
  ASSUME TypeOK, NEW s, NEW t \in Tasks, NEW ord \in Neighbours(s, t)
  PROVE  \E n \in Nat :
           /\ n <= Cardinality(Tasks)
           /\ Cardinality(DOMAIN ord) = n
           /\ ord \in [1 .. n -> Column(s) \ {t}]
           /\ \A x \in Column(s) \ {t} : \E i \in 1 .. n : ord[i] = x
           /\ \A i, j \in 1 .. n : i < j =>
                 ord[i] # ord[j] /\ position[ord[i]] <= position[ord[j]]
<1> DEFINE others == Column(s) \ {t}
           n == Cardinality(others)
<1>1. others \subseteq Tasks /\ IsFiniteSet(Tasks)
  BY TasksAssumption DEF Column
<1>2. IsFiniteSet(others) /\ n \in Nat /\ n <= Cardinality(Tasks)
  BY <1>1, FS_Subset, FS_CardinalityType
<1>3. /\ ord \in [1 .. n -> others]
      /\ \A x \in others : \E i \in DOMAIN ord : ord[i] = x
      /\ \A i, j \in DOMAIN ord : i < j =>
            ord[i] # ord[j] /\ position[ord[i]] <= position[ord[j]]
  BY DEF Neighbours
<1>4. DOMAIN ord = 1 .. n
  BY <1>3
<1>5. Cardinality(1 .. n) = n
  BY <1>2, FS_Interval
<1> QED
  BY <1>2, <1>3, <1>4, <1>5

(* The order and place of the cards of a column after a drop at slot k.    *)
LEMMA DropBetween ==
  ASSUME TypeOK, InRoom, NEW s \in Cols, NEW t \in Tasks,
         NEW ord \in Neighbours(s, t), NEW k \in Int,
         0 <= k, k <= Cardinality(DOMAIN ord)
  PROVE  LET d == Dropped(t, ord, k)
         IN  /\ d \in [Tasks -> -Room .. Room]
             /\ \A i \in DOMAIN ord : i <= k => d[ord[i]] < d[t]
             /\ \A i \in DOMAIN ord : k < i => d[t] < d[ord[i]]
             /\ \A i, j \in DOMAIN ord :
                   i < j => d[ord[i]] <= d[ord[j]]
             /\ \A i, j \in DOMAIN ord :
                   position[ord[i]] < position[ord[j]] => d[ord[i]] < d[ord[j]]
             /\ \A x \in Tasks \ {t} : status[x] # s => d[x] = position[x]
<1> DEFINE d == Dropped(t, ord, k)
<1>1. PICK n \in Nat :
           /\ n <= Cardinality(Tasks)
           /\ Cardinality(DOMAIN ord) = n
           /\ ord \in [1 .. n -> Column(s) \ {t}]
           /\ \A x \in Column(s) \ {t} : \E i \in 1 .. n : ord[i] = x
           /\ \A i, j \in 1 .. n : i < j =>
                 ord[i] # ord[j] /\ position[ord[i]] <= position[ord[j]]
  BY Neighbouring
<1>2. /\ DOMAIN ord = 1 .. n
      /\ k <= n
      /\ \A i \in 1 .. n : ord[i] \in Tasks \ {t} /\ status[ord[i]] = s
  BY <1>1 DEF Column
<1>3. /\ position \in [Tasks -> Int]
      /\ Step \in Nat /\ Step >= 2 /\ Room \in Nat
      /\ Cardinality(Tasks) \in Nat
      /\ Room >= Step * (Cardinality(Tasks) + 1)
  BY TasksAssumption, StepAssumption, BoundAssumption, FS_CardinalityType DEF TypeOK
<1>4. \A x \in Tasks : status[x] = s =>
          Step - Room <= position[x] /\ position[x] <= Room - Step
  <2>1. NoTask \notin Cols
    BY TasksAssumption, BoundAssumption
  <2> QED
    BY <2>1, <1>3 DEF InRoom
<1>5. CASE Crowded(ord, k)
  <2>1. k \in 1 .. n /\ k + 1 \in 1 .. n
    BY <1>2, <1>5 DEF Crowded
  <2>2. d = [x \in Tasks |->
              IF x = t THEN k * Step + Step \div 2
              ELSE IF \E i \in 1 .. n : ord[i] = x THEN Rank(ord, x) * Step
              ELSE position[x]]
    BY <1>2, <1>5 DEF Dropped
  <2>3. \A i \in 1 .. n : Rank(ord, ord[i]) = i
    <3>1. TAKE i \in 1 .. n
    <3>2. /\ Rank(ord, ord[i]) \in 1 .. n
          /\ ord[Rank(ord, ord[i])] = ord[i]
      BY <1>2 DEF Rank
    <3>3. \A a, b \in 1 .. n : a < b => ord[a] # ord[b]
      BY <1>1
    <3>4. ~ (Rank(ord, ord[i]) < i) /\ ~ (i < Rank(ord, ord[i]))
      BY <3>2, <3>3
    <3> QED
      BY <3>2, <3>4
  <2>4. d[t] = k * Step + Step \div 2
    BY <2>2
  <2>5. \A i \in 1 .. n : d[ord[i]] = i * Step
    BY <2>2, <2>3, <1>2
  <2>6. \A x \in Tasks \ {t} : status[x] # s => d[x] = position[x]
    BY <2>2, <1>2
  <2>7. 0 < Step \div 2 /\ Step \div 2 < Step /\ Step \div 2 \in Nat
    BY <1>3
  <2>8. \A i, j \in Int : i <= j => i * Step <= j * Step
    BY <1>3, Scaled
  <2>9. \A i \in Int : (i + 1) * Step = i * Step + Step /\ i * Step \in Int
    BY <1>3
  <2>10. \A i \in 1 .. n : i <= k => d[ord[i]] < d[t]
    BY <2>1, <2>4, <2>5, <2>7, <2>8, <2>9
  <2>11. \A i \in 1 .. n : k < i => d[t] < d[ord[i]]
    <3>1. TAKE i \in 1 .. n
    <3>2. HAVE k < i
    <3>3. (k + 1) * Step <= i * Step
      BY <3>2, <2>8
    <3>4. (k + 1) * Step = k * Step + Step /\ k * Step \in Int /\ i * Step \in Int
      BY <2>9
    <3>5. d[ord[i]] = i * Step
      BY <2>5
    <3> HIDE DEF d
    <3> QED
      BY <3>3, <3>4, <3>5, <2>4, <2>7, <1>3
  <2>12. \A i, j \in 1 .. n : i < j => d[ord[i]] < d[ord[j]]
    <3>1. TAKE i, j \in 1 .. n
    <3>2. HAVE i < j
    <3>3. (i + 1) * Step <= j * Step
      BY <3>2, <2>8
    <3>4. (i + 1) * Step = i * Step + Step /\ i * Step \in Int
      BY <2>9
    <3>5. j * Step \in Int
      BY <2>9
    <3> QED
      BY <3>3, <3>4, <3>5, <2>5, <1>3
  <2>13. \A i, j \in 1 .. n : position[ord[i]] < position[ord[j]] => i < j
    <3>1. TAKE i, j \in 1 .. n
    <3>2. HAVE position[ord[i]] < position[ord[j]]
    <3>3. position[ord[i]] \in Int /\ position[ord[j]] \in Int
      BY <1>2, <1>3
    <3>4. j < i => position[ord[j]] <= position[ord[i]]
      BY <1>1
    <3>5. i # j
      BY <3>2, <3>3
    <3> QED
      BY <3>2, <3>3, <3>4, <3>5
  <2>14. d \in [Tasks -> -Room .. Room]
    <3>1. \A i \in 0 .. n : 0 <= i * Step /\ i * Step <= Room - Step
      <4>1. TAKE i \in 0 .. n
      <4>2. 0 * Step <= i * Step /\ i * Step <= Cardinality(Tasks) * Step
        <5>1. 0 <= i /\ i <= Cardinality(Tasks) /\ i \in Int
          BY <1>1, <1>3
        <5> QED
          BY <5>1, <2>8, <1>3
      <4>3. Step * (Cardinality(Tasks) + 1) = Cardinality(Tasks) * Step + Step
        BY <1>3
      <4>4. 0 * Step = 0 /\ i * Step \in Int /\ Cardinality(Tasks) * Step \in Int
        BY <1>3
      <4> QED
        BY <4>2, <4>3, <4>4, <1>3
    <3>2. d[t] \in -Room .. Room
      BY <3>1, <2>1, <2>4, <2>7, <1>3
    <3>3. \A i \in 1 .. n : d[ord[i]] \in -Room .. Room
      BY <3>1, <2>5, <1>3
    <3>4. \A x \in Tasks \ {t} : status[x] # s => d[x] \in -Room .. Room
      BY <2>6 DEF TypeOK
    <3>5. \A x \in Tasks \ {t} : status[x] = s => \E i \in 1 .. n : ord[i] = x
      BY <1>1 DEF Column
    <3>6. \A x \in Tasks : d[x] \in -Room .. Room
      BY <3>2, <3>3, <3>4, <3>5
    <3> QED
      BY <3>6, <2>2
  <2>15. \A i, j \in 1 .. n : i < j => d[ord[i]] <= d[ord[j]]
    BY <2>12, <2>14, <1>2, <1>3
  <2>16. \A i, j \in 1 .. n :
            position[ord[i]] < position[ord[j]] => d[ord[i]] < d[ord[j]]
    BY <2>12, <2>13
  <2> HIDE DEF d
  <2>17. DOMAIN ord = 1 .. n
    BY <1>2
  <2> QED
    BY <2>6, <2>10, <2>11, <2>14, <2>15, <2>16, <2>17 DEF d
<1>6. CASE ~ Crowded(ord, k)
  <2>1. d = [position EXCEPT ![t] = Middle(ord, k)]
    BY <1>6 DEF Dropped
  <2>2. \A x \in Tasks \ {t} : d[x] = position[x]
    BY <2>1, <1>3
  <2>3. \A i \in 1 .. n : d[ord[i]] = position[ord[i]] /\ position[ord[i]] \in Int
    BY <2>2, <1>2, <1>3
  <2>4. d[t] = Middle(ord, k)
    BY <2>1, <1>3
  <2>5. \A i, j \in 1 .. n : i < j => position[ord[i]] <= position[ord[j]]
    BY <1>1
  <2>6. /\ Middle(ord, k) \in -Room .. Room
        /\ k \in 1 .. n => position[ord[k]] < Middle(ord, k)
        /\ k + 1 \in 1 .. n => Middle(ord, k) < position[ord[k + 1]]
    <3>1. \A i \in 1 .. n : /\ position[ord[i]] \in Int
                            /\ Step - Room <= position[ord[i]]
                            /\ position[ord[i]] <= Room - Step
      BY <1>2, <1>3, <1>4
    <3>2. CASE k \in 1 .. n /\ k + 1 \in 1 .. n
      <4>1. position[ord[k + 1]] - position[ord[k]] > 1
        BY <1>2, <1>6, <3>1, <3>2 DEF Crowded
      <4>2. Middle(ord, k) = Half(position[ord[k]] + position[ord[k + 1]])
        BY <1>2, <3>2 DEF Middle
      <4>3. /\ Half(position[ord[k]] + position[ord[k + 1]]) \in Int
            /\ position[ord[k]] < Half(position[ord[k]] + position[ord[k + 1]])
            /\ Half(position[ord[k]] + position[ord[k + 1]]) < position[ord[k + 1]]
        BY <4>1, <3>1, <3>2, HalfBetween
      <4> QED
        BY <4>2, <4>3, <3>1, <3>2, <1>3
    <3>3. CASE k \in 1 .. n /\ k + 1 \notin 1 .. n
      <4>1. Middle(ord, k) = position[ord[k]] + Step
        BY <1>2, <3>3 DEF Middle
      <4> QED
        BY <4>1, <3>1, <3>3, <1>3
    <3>4. CASE k \notin 1 .. n /\ k + 1 \in 1 .. n
      <4>1. Middle(ord, k) = position[ord[k + 1]] - Step
        BY <1>2, <3>4 DEF Middle
      <4> QED
        BY <4>1, <3>1, <3>4, <1>3
    <3>5. CASE k \notin 1 .. n /\ k + 1 \notin 1 .. n
      <4>1. Middle(ord, k) = Step
        BY <1>2, <3>5 DEF Middle
      <4>2. Step * (Cardinality(Tasks) + 1) >= Step
        <5>1. 1 * Step <= (Cardinality(Tasks) + 1) * Step
          BY Scaled, <1>3
        <5> QED
          BY <5>1, <1>3
      <4>3. Step <= Room
        BY <4>2, <1>3
      <4> QED
        BY <4>1, <4>3, <3>5, <1>3
    <3> QED
      BY <3>2, <3>3, <3>4, <3>5
  <2>7. d \in [Tasks -> -Room .. Room]
    BY <2>1, <2>6 DEF TypeOK
  <2>8. \A i \in 1 .. n : i <= k => d[ord[i]] < d[t]
    <3>1. TAKE i \in 1 .. n
    <3>2. HAVE i <= k
    <3>3. k \in 1 .. n /\ (i = k \/ i < k)
      BY <3>2, <1>2
    <3>4. position[ord[i]] <= position[ord[k]]
      BY <3>3, <2>5, <2>3
    <3>5. Middle(ord, k) \in Int
      BY <2>6, <1>3
    <3> QED
      BY <3>3, <3>4, <3>5, <2>3, <2>4, <2>6
  <2>9. \A i \in 1 .. n : k < i => d[t] < d[ord[i]]
    <3>1. TAKE i \in 1 .. n
    <3>2. HAVE k < i
    <3>3. k + 1 \in 1 .. n /\ (i = k + 1 \/ k + 1 < i)
      BY <3>2
    <3>4. position[ord[k + 1]] <= position[ord[i]]
      BY <3>3, <2>5, <2>3
    <3>5. Middle(ord, k) \in Int
      BY <2>6, <1>3
    <3> QED
      BY <3>3, <3>4, <3>5, <2>3, <2>4, <2>6
  <2>10. \A i, j \in 1 .. n : i < j => d[ord[i]] <= d[ord[j]]
    BY <2>3, <2>5
  <2>11. \A i, j \in 1 .. n :
            position[ord[i]] < position[ord[j]] => d[ord[i]] < d[ord[j]]
    BY <2>3
  <2>12. DOMAIN ord = 1 .. n
    BY <1>2
  <2> HIDE DEF d
  <2> QED
    BY <2>2, <2>7, <2>8, <2>9, <2>10, <2>11, <2>12 DEF d
<1> QED
  BY <1>5, <1>6

(* Every slot a drop asks for is a slot of the column.                     *)
LEMMA SlotsInColumn ==
  ASSUME TypeOK, NEW s, NEW t \in Tasks, NEW ord \in Neighbours(s, t),
         NEW after, NEW before, NEW k \in Slots(ord, after, before)
  PROVE  k \in Int /\ 0 <= k /\ k <= Cardinality(DOMAIN ord)
<1>1. PICK n \in Nat : /\ Cardinality(DOMAIN ord) = n
                       /\ ord \in [1 .. n -> Column(s) \ {t}]
  BY Neighbouring
<1>2. DOMAIN ord = 1 .. n
  BY <1>1
<1> QED
  BY <1>1, <1>2 DEF Slots

(* What the highest position of a column is, and that it leaves room.      *)
LEMMA HighestFact ==
  ASSUME TypeOK, InRoom, NEW s \in Cols, NEW m \in {0} \cup {position[x] : x \in Tasks},
         Highest(s, m)
  PROVE  /\ m + Step \in -Room .. Room
         /\ \A x \in Tasks : status[x] = s => position[x] < m + Step
<1>1. /\ position \in [Tasks -> Int]
      /\ Step \in Nat /\ Step >= 2 /\ Room \in Nat
      /\ Cardinality(Tasks) \in Nat
      /\ Room >= Step * (Cardinality(Tasks) + 1)
  BY TasksAssumption, StepAssumption, BoundAssumption, FS_CardinalityType DEF TypeOK
<1>2. Step <= Room
  <2>1. 1 * Step <= (Cardinality(Tasks) + 1) * Step
    BY Scaled, <1>1
  <2> QED
    BY <2>1, <1>1
<1>3. NoTask \notin Cols
  BY TasksAssumption, BoundAssumption
<1>4. CASE Column(s) = {} /\ m = 0
  BY <1>1, <1>2, <1>4 DEF Column
<1>5. CASE /\ \E t \in Column(s) : position[t] = m
           /\ \A t \in Column(s) : position[t] <= m
  <2>1. PICK t \in Column(s) : position[t] = m
    BY <1>5
  <2>2. m \in Step - Room .. Room - Step
    BY <2>1, <1>3 DEF InRoom, Column
  <2>3. \A x \in Tasks : status[x] = s => position[x] <= m
    BY <1>5 DEF Column
  <2>4. m \in Int /\ m + Step \in -Room .. Room
    BY <2>2, <1>1
  <2> QED
    BY <2>3, <2>4, <1>1
<1> QED
  BY <1>4, <1>5 DEF Highest

(* A row put at the end of a column, by CreateTask or SetTaskStatus.       *)
LEMMA EndPlaced ==
  ASSUME TypeOK, NEW t \in Tasks, NEW s \in Cols,
         CreateTask(t, s) \/ SetTaskStatus(t, s)
  PROVE  /\ TypeOK'
         /\ status' = [status EXCEPT ![t] = s]
         /\ \A x \in Tasks \ {t} : position'[x] = position[x]
         /\ \A x \in Tasks : status[x] = s => position[x] < position'[t]
<1>1. /\ InRoom
      /\ status' = [status EXCEPT ![t] = s]
  BY DEF CreateTask, SetTaskStatus
<1>2. PICK m \in {0} \cup {position[x] : x \in Tasks} :
           Highest(s, m) /\ position' = [position EXCEPT ![t] = m + Step]
  BY DEF CreateTask, SetTaskStatus
<1>3. /\ m + Step \in -Room .. Room
      /\ \A x \in Tasks : status[x] = s => position[x] < m + Step
  BY <1>1, <1>2, HighestFact
<1> QED
  BY <1>1, <1>2, <1>3 DEF TypeOK

(* A drag: its row goes to a slot of the column, or, without one, to Step. *)
LEMMA MovePlaced ==
  ASSUME TypeOK, NEW t \in Tasks, NEW s \in Cols, NEW after, NEW before,
         MoveTask(t, s, after, before)
  PROVE  /\ InRoom
         /\ status' = [status EXCEPT ![t] = s]
         /\ \E ord \in Neighbours(s, t) :
               \/ /\ Slots(ord, after, before) = {}
                  /\ position' = [position EXCEPT ![t] = Step]
               \/ \E k \in Slots(ord, after, before) :
                     /\ k \in Int /\ 0 <= k /\ k <= Cardinality(DOMAIN ord)
                     /\ position' = Dropped(t, ord, k)
BY SlotsInColumn DEF MoveTask

LEMMA StepInRoom == Step \in -Room .. Room
<1>1. /\ Step \in Nat /\ Room \in Nat /\ Cardinality(Tasks) \in Nat
      /\ Room >= Step * (Cardinality(Tasks) + 1)
  BY TasksAssumption, StepAssumption, BoundAssumption, FS_CardinalityType
<1>2. 1 * Step <= (Cardinality(Tasks) + 1) * Step
  BY Scaled, <1>1
<1> QED
  BY <1>1, <1>2

LEMMA MoveTyped ==
  ASSUME TypeOK, NEW t \in Tasks, NEW s \in Cols, NEW after, NEW before,
         MoveTask(t, s, after, before)
  PROVE  TypeOK'
<1>1. InRoom /\ status' = [status EXCEPT ![t] = s]
  BY MovePlaced
<1>2. PICK ord \in Neighbours(s, t) :
         \/ /\ Slots(ord, after, before) = {}
            /\ position' = [position EXCEPT ![t] = Step]
         \/ \E k \in Slots(ord, after, before) :
               /\ k \in Int /\ 0 <= k /\ k <= Cardinality(DOMAIN ord)
               /\ position' = Dropped(t, ord, k)
  BY MovePlaced
<1>3. position' \in [Tasks -> -Room .. Room]
  <2>1. CASE position' = [position EXCEPT ![t] = Step]
    BY <2>1, StepInRoom DEF TypeOK
  <2>2. ASSUME NEW k \in Int, 0 <= k, k <= Cardinality(DOMAIN ord),
               position' = Dropped(t, ord, k)
        PROVE  position' \in [Tasks -> -Room .. Room]
    BY <2>2, <1>1, DropBetween
  <2> QED
    BY <1>2, <2>1, <2>2
<1> QED
  BY <1>1, <1>3 DEF TypeOK

LEMMA TypeStep == TypeOK /\ [Next]_vars => TypeOK'
<1> SUFFICES ASSUME TypeOK, [Next]_vars
             PROVE  TypeOK'
  OBVIOUS
<1>1. CASE UNCHANGED vars
  BY <1>1 DEF TypeOK, vars
<1>2. ASSUME NEW t \in Tasks, NEW s \in Cols, CreateTask(t, s) \/ SetTaskStatus(t, s)
      PROVE  TypeOK'
  BY <1>2, EndPlaced
<1>3. ASSUME NEW t \in Tasks, NEW s \in Cols, NEW a, NEW b, MoveTask(t, s, a, b)
      PROVE  TypeOK'
  BY <1>3, MoveTyped
<1>4. ASSUME NEW t \in Tasks, DeleteTask(t)
      PROVE  TypeOK'
  BY <1>4, BoundAssumption DEF DeleteTask, TypeOK
<1> QED
  BY <1>1, <1>2, <1>3, <1>4 DEF Next, Operation

(* Positions are integers within the bound and every row has a column.     *)
THEOREM TypeCorrect == Spec => []TypeOK
<1>1. Init => TypeOK
  BY BoundAssumption DEF Init, TypeOK
<1>2. TypeOK /\ [Next]_vars => TypeOK'
  BY TypeStep
<1> QED
  BY <1>1, <1>2, PTL DEF Spec

-----------------------------------------------------------------------------
(* The order of the other cards is the same after a drag.                  *)
LEMMA MoveKeepsOrder ==
  ASSUME TypeOK, NEW t \in Tasks, NEW s \in Cols, NEW after, NEW before,
         MoveTask(t, s, after, before),
         NEW x \in Tasks \ {t}, NEW y \in Tasks \ {t}, Above(x, y)
  PROVE  Above(x, y)'
<1>1. InRoom /\ status' = [status EXCEPT ![t] = s]
  BY MovePlaced
<1>2. status'[x] = status[x] /\ status'[y] = status[y]
  BY <1>1 DEF TypeOK
<1>3. PICK ord \in Neighbours(s, t) :
         \/ /\ Slots(ord, after, before) = {}
            /\ position' = [position EXCEPT ![t] = Step]
         \/ \E k \in Slots(ord, after, before) :
               /\ k \in Int /\ 0 <= k /\ k <= Cardinality(DOMAIN ord)
               /\ position' = Dropped(t, ord, k)
  BY MovePlaced
<1>4. position'[x] < position'[y]
  <2>1. CASE position' = [position EXCEPT ![t] = Step]
    BY <2>1 DEF TypeOK, Above
  <2>2. ASSUME NEW k \in Int, 0 <= k, k <= Cardinality(DOMAIN ord),
               position' = Dropped(t, ord, k)
        PROVE  position'[x] < position'[y]
    <3>1. /\ \A i, j \in DOMAIN ord : position[ord[i]] < position[ord[j]]
                => position'[ord[i]] < position'[ord[j]]
          /\ \A z \in Tasks \ {t} : status[z] # s => position'[z] = position[z]
      BY <2>2, <1>1, DropBetween
    <3>2. CASE status[x] = s
      <4>1. x \in Column(s) \ {t} /\ y \in Column(s) \ {t}
        BY <3>2 DEF Above, Column
      <4>2. \A z \in Column(s) \ {t} : \E i \in DOMAIN ord : ord[i] = z
        BY DEF Neighbours
      <4> QED
        BY <3>1, <4>1, <4>2 DEF Above
    <3>3. CASE status[x] # s
      BY <3>1, <3>3 DEF Above
    <3> QED
      BY <3>2, <3>3
  <2> QED
    BY <1>3, <2>1, <2>2
<1> QED
  BY <1>2, <1>4 DEF Above

LEMMA OrderStep ==
  ASSUME TypeOK, NEW t \in Tasks, Operation(t)
  PROVE  \A x, y \in Tasks \ {t} : Above(x, y) => Above(x, y)'
<1>1. ASSUME NEW s \in Cols, CreateTask(t, s) \/ SetTaskStatus(t, s)
      PROVE  \A x, y \in Tasks \ {t} : Above(x, y) => Above(x, y)'
  <2>1. /\ status' = [status EXCEPT ![t] = s]
        /\ \A x \in Tasks \ {t} : position'[x] = position[x]
    BY <1>1, EndPlaced
  <2> QED
    BY <2>1 DEF TypeOK, Above
<1>2. ASSUME NEW s \in Cols, NEW a, NEW b, MoveTask(t, s, a, b)
      PROVE  \A x, y \in Tasks \ {t} : Above(x, y) => Above(x, y)'
  BY <1>2, MoveKeepsOrder
<1>3. CASE DeleteTask(t)
  BY <1>3 DEF DeleteTask, TypeOK, Above
<1> QED
  BY <1>1, <1>2, <1>3 DEF Operation

(* An operation moves its own card only: all others keep their order.      *)
THEOREM OrderCorrect == Spec => OrderKept
<1> DEFINE Keeps == \A t \in Tasks : Operation(t) =>
                       \A x, y \in Tasks \ {t} : Above(x, y) => Above(x, y)'
<1>1. TypeOK /\ [Next]_vars => [Keeps]_vars
  BY OrderStep
<1> QED
  BY <1>1, TypeCorrect, PTL DEF Spec, OrderKept

-----------------------------------------------------------------------------
(* What the step puts t level with, among the other cards of a column:     *)
(* nothing, whether t goes directly below x or directly above.             *)
PartsBelow(t, x, s) ==
    \A y \in Column(s) \ {t} : IF Above(x, y)' THEN Above(t, y)' ELSE Above(y, t)'

PartsAbove(t, x, s) ==
    \A y \in Column(s) \ {t} : IF Above(y, x)' THEN Above(y, t)' ELSE Above(t, y)'

(* The card lands at the slot it was dropped on.                           *)
LEMMA DropStep ==
  ASSUME TypeOK, NEW t \in Tasks, NEW x \in Tasks, NEW s \in Cols,
         x # t, status[x] = s
  PROVE  /\ MoveTask(t, s, x, NoTask) => Adjacent(x, t)' /\ PartsBelow(t, x, s)
         /\ MoveTask(t, s, NoTask, x) => Adjacent(t, x)' /\ PartsAbove(t, x, s)
<1>1. x \in Column(s) \ {t} /\ x # NoTask /\ s # NoTask
  BY TasksAssumption, BoundAssumption DEF Column
<1>2. ASSUME NEW after, NEW before, MoveTask(t, s, after, before),
             \A ord \in Neighbours(s, t) : Slots(ord, after, before) # {}
      PROVE  /\ status' = [status EXCEPT ![t] = s]
             /\ position' \in [Tasks -> -Room .. Room]
             /\ \E ord \in Neighbours(s, t) : \E k \in Slots(ord, after, before) :
                  /\ k \in Int
                  /\ \A i \in DOMAIN ord : i <= k => position'[ord[i]] < position'[t]
                  /\ \A i \in DOMAIN ord : k < i => position'[t] < position'[ord[i]]
                  /\ \A i, j \in DOMAIN ord :
                        i < j => position'[ord[i]] <= position'[ord[j]]
  <2>1. InRoom /\ status' = [status EXCEPT ![t] = s]
    BY <1>2, MovePlaced
  <2>2. PICK ord \in Neighbours(s, t) : \E k \in Slots(ord, after, before) :
               /\ k \in Int /\ 0 <= k /\ k <= Cardinality(DOMAIN ord)
               /\ position' = Dropped(t, ord, k)
    BY <1>2, MovePlaced
  <2>3. PICK k \in Slots(ord, after, before) :
               /\ k \in Int /\ 0 <= k /\ k <= Cardinality(DOMAIN ord)
               /\ position' = Dropped(t, ord, k)
    BY <2>2
  <2> QED
    BY <2>1, <2>3, DropBetween
<1>3. \A ord \in Neighbours(s, t) :
        /\ \E n \in Nat : DOMAIN ord = 1 .. n
        /\ \A z \in Column(s) \ {t} : \E i \in DOMAIN ord : ord[i] = z
        /\ \A i \in DOMAIN ord : ord[i] \in Tasks
        /\ \A i, j \in DOMAIN ord : i < j => ord[i] # ord[j]
  <2>1. TAKE ord \in Neighbours(s, t)
  <2>2. PICK n \in Nat : ord \in [1 .. n -> Column(s) \ {t}]
    BY Neighbouring
  <2> QED
    BY <2>2 DEF Neighbours, Column
<1>4. ASSUME MoveTask(t, s, x, NoTask)
      PROVE  Adjacent(x, t)' /\ PartsBelow(t, x, s)
  <2>1. \A ord \in Neighbours(s, t) :
            Slots(ord, x, NoTask) = {k \in DOMAIN ord : ord[k] = x}
    BY <1>1 DEF Slots
  <2>2. \A ord \in Neighbours(s, t) : Slots(ord, x, NoTask) # {}
    BY <2>1, <1>1, <1>3
  <2>3. status' = [status EXCEPT ![t] = s] /\ position' \in [Tasks -> -Room .. Room]
    BY <1>2, <1>4, <2>2
  <2>4. PICK ord \in Neighbours(s, t) : \E k \in Slots(ord, x, NoTask) :
            /\ k \in Int
            /\ \A i \in DOMAIN ord : i <= k => position'[ord[i]] < position'[t]
            /\ \A i \in DOMAIN ord : k < i => position'[t] < position'[ord[i]]
            /\ \A i, j \in DOMAIN ord :
                  i < j => position'[ord[i]] <= position'[ord[j]]
    BY <1>2, <1>4, <2>2
  <2>5. PICK k \in DOMAIN ord :
            /\ ord[k] = x
            /\ \A i \in DOMAIN ord : i <= k => position'[ord[i]] < position'[t]
            /\ \A i \in DOMAIN ord : k < i => position'[t] < position'[ord[i]]
            /\ \A i, j \in DOMAIN ord :
                  i < j => position'[ord[i]] <= position'[ord[j]]
    BY <2>1, <2>4
  <2>6. k \in Int /\ \A i \in DOMAIN ord : i \in Int
    BY <1>3
  <2>7. Above(x, t)'
    BY <2>3, <2>5, <2>6, <1>1 DEF Above, TypeOK
  <2>8. ASSUME NEW z \in Column(s)' \ {x, t}
        PROVE  position'[z] <= position'[x] \/ position'[t] <= position'[z]
    <3>1. z \in Column(s) \ {t}
      BY <2>3 DEF Column, TypeOK
    <3>2. PICK i \in DOMAIN ord : ord[i] = z
      BY <3>1, <1>3
    <3>3. i < k \/ k < i
      BY <3>2, <2>5, <2>6
    <3>4. position'[t] \in Int /\ position'[z] \in Int
      BY <2>3, <3>1, BoundAssumption DEF Column
    <3> QED
      BY <3>2, <3>3, <3>4, <2>5
  <2>9. status'[x] = s /\ status'[t] = s
    BY <2>3 DEF TypeOK
  <2>10. ASSUME NEW y \in Column(s) \ {t}
         PROVE  IF Above(x, y)' THEN Above(t, y)' ELSE Above(y, t)'
    <3>1. status'[y] = s /\ y \in Tasks
      BY <2>3 DEF Column, TypeOK
    <3>2. PICK i \in DOMAIN ord : ord[i] = y
      BY <1>3
    <3>3. position'[t] \in Int /\ position'[y] \in Int /\ position'[x] \in Int
      BY <2>3, <3>1, BoundAssumption
    <3>4. CASE i <= k
      <4>1. i < k \/ i = k
        BY <3>4, <2>6
      <4>2. position'[y] <= position'[x] /\ position'[y] < position'[t]
        BY <4>1, <3>2, <3>3, <3>4, <2>5
      <4> QED
        BY <4>2, <3>1, <3>3, <2>9, <1>1 DEF Above
    <3>5. CASE k < i
      <4>1. position'[x] < position'[t] /\ position'[t] < position'[y]
        BY <3>2, <3>5, <2>5, <2>6
      <4> QED
        BY <4>1, <3>1, <3>3, <2>9, <1>1 DEF Above
    <3> QED
      BY <3>4, <3>5, <2>6
  <2> QED
    BY <2>7, <2>8, <2>9, <2>10 DEF Adjacent, PartsBelow
<1>5. ASSUME MoveTask(t, s, NoTask, x)
      PROVE  Adjacent(t, x)' /\ PartsAbove(t, x, s)
  <2>1. \A ord \in Neighbours(s, t) : Slots(ord, NoTask, x)
            = {k - 1 : k \in {i \in DOMAIN ord : ord[i] = x}}
    BY <1>1 DEF Slots
  <2>2. ASSUME NEW ord \in Neighbours(s, t)
        PROVE  Slots(ord, NoTask, x) # {}
    <3>1. PICK k \in DOMAIN ord : ord[k] = x
      BY <1>1, <1>3
    <3>2. k - 1 \in Slots(ord, NoTask, x)
      BY <3>1, <2>1
    <3> QED
      BY <3>2
  <2>3. status' = [status EXCEPT ![t] = s] /\ position' \in [Tasks -> -Room .. Room]
    BY <1>2, <1>5, <2>2
  <2>4. PICK ord \in Neighbours(s, t) : \E k \in Slots(ord, NoTask, x) :
            /\ k \in Int
            /\ \A i \in DOMAIN ord : i <= k => position'[ord[i]] < position'[t]
            /\ \A i \in DOMAIN ord : k < i => position'[t] < position'[ord[i]]
            /\ \A i, j \in DOMAIN ord :
                  i < j => position'[ord[i]] <= position'[ord[j]]
    BY <1>2, <1>5, <2>2
  <2>5. PICK k \in DOMAIN ord :
            /\ ord[k] = x
            /\ \A i \in DOMAIN ord : i <= k - 1 => position'[ord[i]] < position'[t]
            /\ \A i \in DOMAIN ord : k - 1 < i => position'[t] < position'[ord[i]]
            /\ \A i, j \in DOMAIN ord :
                  i < j => position'[ord[i]] <= position'[ord[j]]
    BY <2>1, <2>4
  <2>6. k \in Int /\ \A i \in DOMAIN ord : i \in Int
    BY <1>3
  <2>7. Above(t, x)'
    BY <2>3, <2>5, <2>6, <1>1 DEF Above, TypeOK
  <2>8. ASSUME NEW z \in Column(s)' \ {t, x}
        PROVE  position'[z] <= position'[t] \/ position'[x] <= position'[z]
    <3>1. z \in Column(s) \ {t}
      BY <2>3 DEF Column, TypeOK
    <3>2. PICK i \in DOMAIN ord : ord[i] = z
      BY <3>1, <1>3
    <3>3. i <= k - 1 \/ k < i
      BY <3>2, <2>5, <2>6
    <3>4. position'[t] \in Int /\ position'[z] \in Int
      BY <2>3, <3>1, BoundAssumption DEF Column
    <3> QED
      BY <3>2, <3>3, <3>4, <2>5
  <2>9. status'[x] = s /\ status'[t] = s
    BY <2>3 DEF TypeOK
  <2>10. ASSUME NEW y \in Column(s) \ {t}
         PROVE  IF Above(y, x)' THEN Above(y, t)' ELSE Above(t, y)'
    <3>1. status'[y] = s /\ y \in Tasks
      BY <2>3 DEF Column, TypeOK
    <3>2. PICK i \in DOMAIN ord : ord[i] = y
      BY <1>3
    <3>3. position'[t] \in Int /\ position'[y] \in Int /\ position'[x] \in Int
      BY <2>3, <3>1, BoundAssumption
    <3>4. CASE i < k
      <4>1. i <= k - 1
        BY <3>4, <2>6
      <4>2. position'[y] < position'[t] /\ position'[t] < position'[x]
        BY <4>1, <3>2, <2>5, <2>6
      <4> QED
        BY <4>2, <3>1, <3>3, <2>9, <1>1 DEF Above
    <3>5. CASE k <= i
      <4>1. k - 1 < i /\ (k < i \/ k = i)
        BY <3>5, <2>6
      <4>2. position'[x] <= position'[y] /\ position'[t] < position'[y]
        BY <4>1, <3>2, <3>3, <2>5
      <4> QED
        BY <4>2, <3>1, <3>3, <2>9, <1>1 DEF Above
    <3> QED
      BY <3>4, <3>5, <2>6
  <2> QED
    BY <2>7, <2>8, <2>9, <2>10 DEF Adjacent, PartsAbove
<1> QED
  BY <1>4, <1>5

(* A dropped card lands between the cards it was dropped between.          *)
THEOREM DropCorrect == Spec => DropLands
<1> DEFINE Lands ==
      \A t, x \in Tasks, s \in Cols :
          x # t /\ status[x] = s =>
              /\ MoveTask(t, s, x, NoTask) => Adjacent(x, t)'
              /\ MoveTask(t, s, NoTask, x) => Adjacent(t, x)'
<1>1. TypeOK /\ [Next]_vars => [Lands]_vars
  BY DropStep
<1> QED
  BY <1>1, TypeCorrect, PTL DEF Spec, DropLands

(* A card that is created or transitioned goes below its column.           *)
THEOREM EndCorrect == Spec => EndOfColumn
<1> DEFINE Ends ==
      \A t \in Tasks, s \in Cols :
          CreateTask(t, s) \/ SetTaskStatus(t, s) =>
              \A x \in Tasks \ {t} : status[x] = s => Above(x, t)'
<1>1. TypeOK /\ [Next]_vars => [Ends]_vars
  <2> SUFFICES ASSUME TypeOK, NEW t \in Tasks, NEW s \in Cols,
                      CreateTask(t, s) \/ SetTaskStatus(t, s),
                      NEW x \in Tasks \ {t}, status[x] = s
               PROVE  Above(x, t)'
    OBVIOUS
  <2>1. /\ status' = [status EXCEPT ![t] = s]
        /\ position'[x] = position[x]
        /\ position[x] < position'[t]
    BY EndPlaced
  <2>2. s # NoTask
    BY TasksAssumption, BoundAssumption
  <2> QED
    BY <2>1, <2>2 DEF Above, TypeOK
<1> QED
  BY <1>1, TypeCorrect, PTL DEF Spec, EndOfColumn

-----------------------------------------------------------------------------
(* Positions compare the cards of a column as CardOrder wants it.          *)
LEMMA PositionsOrder ==
  ASSUME TypeOK
  PROVE  Order!Ordered
<1>1. position \in [Tasks -> Int]
  BY BoundAssumption DEF TypeOK
<1> QED
  BY <1>1 DEF Order!Ordered, Order!Column, AboveOf, Above

(* A step of one card is a Put of CardOrder.                               *)
LEMMA StepPuts ==
  ASSUME TypeOK, TypeOK', NEW t \in Tasks, Operation(t),
         NEW s, status' = [status EXCEPT ![t] = s]
  PROVE  Order!Put(t, s)
<1>1. Order!Ordered'
  <2>1. TypeOK' => Order!Ordered'
    BY PositionsOrder, PTL
  <2> QED
    BY <2>1
<1>2. \A x, y \in Tasks \ {t} : <<x, y>> \in AboveOf => <<x, y>> \in AboveOf'
  BY OrderStep DEF AboveOf
<1>3. AboveOf' \subseteq Tasks \X Tasks
  BY DEF AboveOf
<1> QED
  BY <1>1, <1>2, <1>3 DEF Order!Put

(* Every step is one of CardOrder's: the numbers never show.               *)
LEMMA RefinementStep ==
  ASSUME TypeOK, [Next]_vars
  PROVE  [Order!Next]_(Order!vars)
<1>1. TypeOK'
  BY TypeStep
<1>2. CASE UNCHANGED vars
  BY <1>2 DEF vars, Order!vars, AboveOf, Above
<1>3. ASSUME NEW t \in Tasks, NEW s \in Cols, CreateTask(t, s) \/ SetTaskStatus(t, s)
      PROVE  Order!Next
  <2>1. /\ status' = [status EXCEPT ![t] = s]
        /\ \A x \in Tasks \ {t} : position'[x] = position[x]
        /\ \A x \in Tasks : status[x] = s => position[x] < position'[t]
    BY <1>3, EndPlaced
  <2>2. Order!Put(t, s)
    BY <1>1, <1>3, <2>1, StepPuts DEF Operation
  <2>3. Order!AtEnd(t, s)
    BY <2>1, TasksAssumption, BoundAssumption
    DEF Order!AtEnd, Order!Column, AboveOf, Above, TypeOK
  <2>4. status[t] = NoTask \/ status[t] # NoTask
    OBVIOUS
  <2> QED
    BY <2>2, <2>3, <2>4 DEF Order!Next, Order!CreateTask, Order!SetTaskStatus
<1>4. ASSUME NEW t \in Tasks, NEW s \in Cols, NEW x \in Tasks, MoveTask(t, s, x, NoTask)
      PROVE  Order!Next
  <2>1. Order!Put(t, s) /\ status[t] # NoTask
    BY <1>1, <1>4, MovePlaced, StepPuts DEF Operation, MoveTask
  <2>2. x \in Order!Column(s) \ {t} => Order!Below(t, x, s)
    <3>1. HAVE x \in Order!Column(s) \ {t}
    <3>2. PartsBelow(t, x, s)
      BY <1>4, <3>1, DropStep DEF Order!Column
    <3> QED
      BY <3>2 DEF PartsBelow, Column, Order!Below, Order!Column, AboveOf
  <2>3. x # NoTask
    BY TasksAssumption
  <2> QED
    BY <2>1, <2>2, <2>3 DEF Order!Next, Order!MoveTask
<1>5. ASSUME NEW t \in Tasks, NEW s \in Cols, NEW x \in Tasks, MoveTask(t, s, NoTask, x)
      PROVE  Order!Next
  <2>1. Order!Put(t, s) /\ status[t] # NoTask
    BY <1>1, <1>5, MovePlaced, StepPuts DEF Operation, MoveTask
  <2>2. x \in Order!Column(s) \ {t} => Order!OnTopOf(t, x, s)
    <3>1. HAVE x \in Order!Column(s) \ {t}
    <3>2. PartsAbove(t, x, s)
      BY <1>5, <3>1, DropStep DEF Order!Column
    <3> QED
      BY <3>2 DEF PartsAbove, Column, Order!OnTopOf, Order!Column, AboveOf
  <2>3. NoTask \notin Order!Column(s)
    BY TasksAssumption DEF Order!Column
  <2> QED
    BY <2>1, <2>2, <2>3 DEF Order!Next, Order!MoveTask
<1>6. ASSUME NEW t \in Tasks, DeleteTask(t)
      PROVE  Order!Next
  <2>1. status' = [status EXCEPT ![t] = NoTask] /\ status[t] # NoTask
    BY <1>6 DEF DeleteTask
  <2>2. Order!Put(t, NoTask)
    BY <1>1, <1>6, <2>1, StepPuts DEF Operation
  <2> QED
    BY <2>1, <2>2 DEF Order!Next, Order!DeleteTask
<1> QED
  BY <1>2, <1>3, <1>4, <1>5, <1>6 DEF Next, Operation

(* The positions of the table, their gaps and renumberings, implement the  *)
(* order of cards that CardOrder describes without them.                   *)
THEOREM OrderImplemented == Spec => KeepsCardOrder
<1>1. Init => Order!Init
  BY DEF Init, Order!Init, AboveOf, Above
<1>2. TypeOK /\ [Next]_vars => [Order!Next]_(Order!vars)
  BY RefinementStep
<1> QED
  BY <1>1, <1>2, TypeCorrect, PTL DEF Spec, KeepsCardOrder, Order!Spec
=============================================================================

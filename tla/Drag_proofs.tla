---------------------------- MODULE Drag_proofs -----------------------------
(***************************************************************************)
(* What TLAPS proves of Drag, for any number of cards, columns, drops and  *)
(* lists in flight. What is known of the table comes from the theorems on  *)
(* Columns, as the instance Rows of their module; the invariant has a part *)
(* for each property:                                                      *)
(*                                                                         *)
(*   - TypeInv, with Counted: every message in flight, every drop that was *)
(*     sent, the drag and every press has a turn of its own;               *)
(*   - HiddenInv: a card that is dragged was not left hidden;              *)
(*   - Newest: the lists on their way are old first and new last, and the  *)
(*     last of them, or else the board, is the table's once no message and *)
(*     no request is under way;                                            *)
(*   - SeenInv: the neighbour a drop names, unless it is the dragged card, *)
(*     is the one the user saw.                                            *)
(***************************************************************************)
EXTENDS Drag, FiniteSetTheorems, TLAPS

Rows == INSTANCE Columns_proofs

Sent == {p \in Posts : posts[p].stage = "sent"}

Held == IF drag = NoDrag THEN 0 ELSE 1

Counted ==
    /\ turns \in 0 .. MaxTurns /\ news \in Nat
    /\ IsFiniteSet(Sent)
    /\ news + Cardinality(Sent) + Cardinality(pressed) + Held <= turns

Answers == [rows : [Cols -> Seq(Tasks)], old : BOOLEAN]

TableOK == Table!TypeOK /\ status \in [Tasks -> Cols]

ScreenOK ==
    /\ view \in Views
    /\ IsList(board)
    /\ expanded \subseteq Cols
    /\ pressed \subseteq Tasks /\ hidden \subseteq Tasks /\ left \subseteq Tasks
    /\ drag \in Drags
    /\ IF drag.task = NoTask THEN drag = NoDrag
       ELSE drag.col \in Cols /\ drag.gap <= Len(Shown(drag.col))
    /\ drag.zone # NoTask => drag.zone = drag.col

PostsOK ==
    /\ posts \in [Posts -> Drops]
    /\ \A p \in Posts : posts[p] # NoDrop =>
           posts[p].task \in Tasks /\ posts[p].to \in Cols /\ posts[p].stage # "free"

NetOK ==
    /\ asks \in Nat
    /\ answers \in Seq(Answers) /\ \A i \in DOMAIN answers : IsList(answers[i].rows)
    /\ asks + Len(answers) <= MaxGets
    /\ unseen \in BOOLEAN /\ overtaken \in BOOLEAN

TypeInv == TableOK /\ ScreenOK /\ PostsOK /\ NetOK /\ Counted

HiddenInv == OnlyDraggedHidden /\ (drag.live => drag.task \notin left)

Newest ==
    /\ \A j, k \in DOMAIN answers : j < k /\ answers[k].old => answers[j].old
    /\ news = 0 /\ asks = 0 /\ ~unseen =>
           IF answers # <<>> /\ ~answers[Len(answers)].old
           THEN answers[Len(answers)].rows \in Lists
           ELSE board \in Lists \/ overtaken

Seen(d) ==
    /\ d.after \notin {NoTask, d.task} => d.up = d.after
    /\ d.after = NoTask /\ d.before \notin {NoTask, d.task} => d.up = NoTask /\ d.down = d.before

SeenInv == \A p \in Posts : Seen(posts[p])

-----------------------------------------------------------------------------
(* The statements on the table, from the theorems on Columns.              *)

(* What the theorems of Columns_proofs assume of the constants.            *)
LEMMA RowsAssumptions ==
  /\ Rows!IsFiniteSet(Tasks) /\ NoTask \notin Tasks \cup Rows!TaskStatus
  /\ Cols \subseteq Rows!TaskStatus
  /\ Step \in Nat /\ Step >= 2
  /\ Room \in Nat
  /\ Room >= Step * (Rows!Cardinality(Tasks) + 1)
<1>1. Rows!TaskStatus = TaskStatus
  BY DEF Rows!TaskStatus, TaskStatus
<1>2. Rows!IsFiniteSet(Tasks) <=> IsFiniteSet(Tasks)
  BY DEF Rows!IsFiniteSet, IsFiniteSet
<1>3. Rows!Cardinality(Tasks) = Cardinality(Tasks)
  BY DEF Rows!Cardinality, Cardinality
<1> QED
  BY <1>1, <1>2, <1>3, TasksAssumption, StepAssumption, BoundAssumption

LEMMA SameTable ==
  /\ Rows!TypeOK <=> Table!TypeOK
  /\ Rows!TypeOK' <=> Table!TypeOK'
  /\ \A x, y : Rows!Adjacent(x, y)' <=> Table!Adjacent(x, y)'
BY DEF Rows!TypeOK, Table!TypeOK, Rows!Adjacent, Table!Adjacent, Rows!Above, Table!Above,
       Rows!Column, Table!Column

LEMMA SameMove ==
  ASSUME NEW t, NEW s, NEW after, NEW before
  PROVE  Rows!MoveTask(t, s, after, before) <=> Table!MoveTask(t, s, after, before)
BY DEF Rows!MoveTask, Table!MoveTask, Rows!InRoom, Table!InRoom, Rows!Neighbours,
       Table!Neighbours, Rows!Column, Table!Column, Rows!Slots, Table!Slots, Rows!Dropped,
       Table!Dropped, Rows!Crowded, Table!Crowded, Rows!Middle, Table!Middle, Rows!Rank,
       Table!Rank, Rows!Half, Table!Half, Rows!Cardinality, Table!Cardinality

LEMMA SameSet ==
  ASSUME NEW t, NEW s
  PROVE  Rows!SetTaskStatus(t, s) <=> Table!SetTaskStatus(t, s)
BY DEF Rows!SetTaskStatus, Table!SetTaskStatus, Rows!InRoom, Table!InRoom, Rows!Highest,
       Table!Highest, Rows!Column, Table!Column

LEMMA Placed ==
  ASSUME Table!TypeOK, NEW t \in Tasks, NEW s \in Cols,
         \/ Table!SetTaskStatus(t, s)
         \/ \E after, before : Table!MoveTask(t, s, after, before)
  PROVE  Table!TypeOK' /\ status' = [status EXCEPT ![t] = s]
<1>1. CASE Table!SetTaskStatus(t, s)
  BY <1>1, SameSet, SameTable, RowsAssumptions, Rows!EndPlaced
<1>2. ASSUME NEW after, NEW before, Table!MoveTask(t, s, after, before)
      PROVE  Table!TypeOK' /\ status' = [status EXCEPT ![t] = s]
  <2>1. Rows!MoveTask(t, s, after, before) /\ Rows!TypeOK
    BY <1>2, SameMove, SameTable
  <2>2. Rows!TypeOK'
    BY <2>1, RowsAssumptions, Rows!MoveTyped
  <2>3. status' = [status EXCEPT ![t] = s]
    BY <1>2 DEF Table!MoveTask
  <2> QED
    BY <2>2, <2>3, SameTable
<1> QED
  BY <1>1, <1>2

LEMMA Landed ==
  ASSUME Table!TypeOK, NEW t \in Tasks, NEW x \in Tasks, NEW s \in Cols,
         x # t, status[x] = s
  PROVE  /\ \A before : Table!MoveTask(t, s, x, before) => Table!Adjacent(x, t)'
         /\ Table!MoveTask(t, s, NoTask, x) => Table!Adjacent(t, x)'
<1>1. x # NoTask
  BY TasksAssumption
<1>2. ASSUME NEW before, Table!MoveTask(t, s, x, before)
      PROVE  Table!MoveTask(t, s, x, NoTask)
  <2>1. \A ord : Table!Slots(ord, x, before) = Table!Slots(ord, x, NoTask)
    BY <1>1 DEF Table!Slots
  <2> QED
    BY <1>2, <2>1 DEF Table!MoveTask
<1>3. /\ Rows!MoveTask(t, s, x, NoTask) => Rows!Adjacent(x, t)'
      /\ Rows!MoveTask(t, s, NoTask, x) => Rows!Adjacent(t, x)'
  BY SameTable, RowsAssumptions, Rows!DropStep
<1> QED
  BY <1>2, <1>3, SameMove, SameTable

-----------------------------------------------------------------------------
(* Lists.                                                                  *)

LEMMA NoDragFacts ==
  /\ NoDrag \in Drags
  /\ NoDrag.task = NoTask /\ NoDrag.live = FALSE /\ NoDrag.zone = NoTask
  /\ NoDrag.col = NoTask /\ NoDrag.gap = 0
<1>1. Cardinality(Tasks) \in Nat
  BY TasksAssumption, FS_CardinalityType
<1> QED
  BY <1>1 DEF NoDrag, Drags, Beside

LEMMA NoDropFacts ==
  /\ NoDrop \in Drops
  /\ NoDrop.stage = "free" /\ NoDrop.task = NoTask /\ NoDrop.to = NoTask
  /\ NoDrop.after = NoTask /\ NoDrop.before = NoTask /\ NoDrop.how = ""
BY DEF NoDrop, Drops

(* A column holds no more cards than there are.                            *)
LEMMA Fits ==
  ASSUME NEW l, IsList(l), NEW c \in Cols
  PROVE  Len(l[c]) <= Cardinality(Tasks)
<1> DEFINE f == l[c]
           n == Len(f)
<1>1. f \in Seq(Tasks) /\ n \in Nat /\ f \in [1 .. n -> Tasks]
  BY DEF IsList
<1>2. ASSUME NEW i \in 1 .. n, NEW j \in 1 .. n, f[i] = f[j]
      PROVE  i = j
  <2>1. f[i] \in Tasks
    BY <1>1
  <2>2. DOMAIN l[c] = 1 .. n
    BY <1>1
  <2>3. PICK d \in Cols : \E k \in DOMAIN l[d] :
           \A e \in Cols : \A m \in DOMAIN l[e] : l[e][m] = f[i] <=> e = d /\ m = k
    BY <2>1 DEF IsList
  <2>4. PICK k \in DOMAIN l[d] :
           \A e \in Cols : \A m \in DOMAIN l[e] : l[e][m] = f[i] <=> e = d /\ m = k
    BY <2>3
  <2>5. i = k /\ j = k
    BY <1>2, <2>2, <2>4
  <2> QED
    BY <2>5
<1>3. f \in Injection(1 .. n, Tasks)
  <2> HIDE DEF f, n
  <2> QED
    BY <1>1, <1>2 DEF Injection, IsInjective
<1>4. Cardinality(1 .. n) = n
  <2> HIDE DEF n
  <2> QED
    BY <1>1, FS_Interval
<1>5. Cardinality(1 .. n) <= Cardinality(Tasks)
  <2> HIDE DEF n, f
  <2> QED
    BY <1>3, TasksAssumption, FS_Injection
<1> QED
  BY <1>4, <1>5

LEMMA ListsAreLists ==
  ASSUME TableOK, NEW l \in Lists
  PROVE  IsList(l)
<1> DEFINE n(c) == Cardinality(Table!Column(c) \ {NoTask})
<1>1. \A c \in Cols : n(c) \in Nat
  <2> SUFFICES ASSUME NEW c \in Cols
               PROVE  n(c) \in Nat
    OBVIOUS
  <2>1. Table!Column(c) \ {NoTask} \subseteq Tasks
    BY DEF Table!Column
  <2> QED
    BY <2>1, TasksAssumption, FS_Subset, FS_CardinalityType
<1>2. \A S : Table!Cardinality(S) = Cardinality(S)
  BY DEF Table!Cardinality, Cardinality
<1>3. DOMAIN l = Cols /\ \A c \in Cols : l[c] \in Table!Neighbours(c, NoTask)
  BY DEF Lists
<1>4. ASSUME NEW c \in Cols
      PROVE  /\ l[c] \in [1 .. n(c) -> Table!Column(c) \ {NoTask}]
             /\ \A x \in Table!Column(c) \ {NoTask} : \E i \in 1 .. n(c) : l[c][i] = x
             /\ \A i, j \in 1 .. n(c) : i < j => l[c][i] # l[c][j]
  <2> DEFINE others == Table!Column(c) \ {NoTask}
             m      == Table!Cardinality(others)
  <2>1. l[c] \in {ord \in [1 .. m -> others] :
             /\ \A x \in others : \E i \in DOMAIN ord : ord[i] = x
             /\ \A i, j \in DOMAIN ord :
                    i < j => ord[i] # ord[j] /\ position[ord[i]] <= position[ord[j]]}
    BY <1>3 DEF Table!Neighbours
  <2>2. m = n(c)
    BY <1>2
  <2> HIDE DEF m, others
  <2>3. /\ l[c] \in [1 .. m -> others] /\ DOMAIN l[c] = 1 .. m
        /\ \A x \in others : \E i \in 1 .. m : l[c][i] = x
        /\ \A i, j \in 1 .. m : i < j => l[c][i] # l[c][j]
    BY <2>1
  <2> QED
    BY <2>2, <2>3 DEF others
<1>5. \A c \in Cols : Table!Column(c) \ {NoTask} = {t \in Tasks : status[t] = c}
  BY TasksAssumption DEF Table!Column
<1> HIDE DEF n
<1>6. /\ \A c \in Cols : l[c] \in Seq(Tasks) /\ DOMAIN l[c] = 1 .. n(c)
      /\ \A c \in Cols : \A i \in 1 .. n(c) : status[l[c][i]] = c
  BY <1>1, <1>4, <1>5
<1>7. l \in [Cols -> Seq(Tasks)]
  <2>1. l = [c \in Cols |-> l[c]]
    BY DEF Lists
  <2> QED
    BY <1>6, <2>1
<1>8. ASSUME NEW t \in Tasks
      PROVE  \E c \in Cols : \E i \in DOMAIN l[c] :
                \A d \in Cols : \A j \in DOMAIN l[d] : l[d][j] = t <=> d = c /\ j = i
  <2>1. status[t] \in Cols
    BY DEF TableOK
  <2>2. PICK i \in 1 .. n(status[t]) : l[status[t]][i] = t
    BY <1>4, <1>5, <2>1
  <2>3. ASSUME NEW d \in Cols, NEW j \in DOMAIN l[d], l[d][j] = t
        PROVE  d = status[t] /\ j = i
    <3>1. d = status[t]
      BY <1>6, <2>3
    <3>2. i \in Nat /\ j \in Nat
      BY <1>1, <1>6, <2>1, <2>3, <3>1
    <3>3. \A a, b \in 1 .. n(d) : a < b => l[d][a] # l[d][b]
      BY <1>4
    <3>4. i \in 1 .. n(d) /\ j \in 1 .. n(d) /\ l[d][i] = l[d][j]
      BY <1>6, <2>2, <2>3, <3>1
    <3>5. ~(i < j) /\ ~(j < i)
      BY <3>3, <3>4
    <3> QED
      BY <3>1, <3>2, <3>5
  <2> DEFINE home == status[t]
  <2>4. i \in DOMAIN l[home]
    BY <1>6, <2>1, <2>2
  <2>5. \A d \in Cols : \A j \in DOMAIN l[d] : l[d][j] = t <=> d = home /\ j = i
    BY <2>2, <2>3
  <2> HIDE DEF home
  <2>6. home \in Cols
    BY <2>1 DEF home
  <2> QED
    BY <2>4, <2>5, <2>6
<1> QED
  BY <1>7, <1>8 DEF IsList

LEMMA VisibleFacts ==
  ASSUME NEW l, IsList(l), NEW c \in Cols, NEW open
  PROVE  /\ Visible(l[c], c, open) \in Seq(Tasks)
         /\ Len(Visible(l[c], c, open)) \in 0 .. Cardinality(Tasks)
<1>1. l[c] \in Seq(Tasks) /\ Len(l[c]) <= Cardinality(Tasks) /\ Cardinality(Tasks) \in Nat
  BY Fits, TasksAssumption, FS_CardinalityType DEF IsList
<1>2. Len(l[c]) \in Nat /\ Limit \in Nat
  BY <1>1, LimitAssumption
<1>3. CASE Visible(l[c], c, open) = l[c]
  BY <1>1, <1>2, <1>3
<1>4. CASE Visible(l[c], c, open) = SubSeq(l[c], 1, Limit) /\ ~(Len(l[c]) <= Limit)
  <2> DEFINE s == l[c]
  <2>1. SubSeq(s, 1, Limit) \in Seq(Tasks) /\ Len(SubSeq(s, 1, Limit)) = Limit
    <3> HIDE DEF s
    <3>1. s \in Seq(Tasks) /\ Limit < Len(s)
      BY <1>1, <1>2, <1>4 DEF s
    <3> QED
      BY <1>2, <3>1
  <2> QED
    BY <1>1, <1>2, <1>4, <2>1
<1> QED
  BY <1>3, <1>4 DEF Visible

LEMMA ShownFacts ==
  ASSUME ScreenOK, NEW c \in Cols
  PROVE  Shown(c) \in Seq(Tasks) /\ Len(Shown(c)) \in 0 .. Cardinality(Tasks)
BY VisibleFacts DEF ScreenOK, Shown

LEMMA AtFacts ==
  ASSUME NEW s \in Seq(Tasks), NEW i
  PROVE  At(s, i) \in Tasks \cup {NoTask}
BY DEF At

-----------------------------------------------------------------------------
(* What a step leaves alone keeps its types.                               *)

LEMMA TableKept == TableOK /\ UNCHANGED table => TableOK'
BY DEF TableOK, table, Table!TypeOK

LEMMA PostsKept == PostsOK /\ UNCHANGED posts => PostsOK' /\ Sent' = Sent
BY DEF PostsOK, Sent

LEMMA NetKept == NetOK /\ UNCHANGED <<asks, answers, unseen, overtaken>> => NetOK'
BY DEF NetOK

LEMMA ScreenStep ==
  ASSUME ScreenOK, UNCHANGED <<view, board, expanded>>,
         pressed' \subseteq Tasks, hidden' \subseteq Tasks, left' \subseteq Tasks,
         drag' \in Drags,
         IF drag'.task = NoTask THEN drag' = NoDrag
         ELSE drag'.col \in Cols /\ drag'.gap <= Len(Shown(drag'.col)),
         drag'.zone # NoTask => drag'.zone = drag'.col
  PROVE  ScreenOK'
<1>1. \A c : Shown(c)' = Shown(c)
  BY DEF Shown, Visible
<1> QED
  BY <1>1 DEF ScreenOK

LEMMA ScreenKept == ScreenOK /\ UNCHANGED <<screen, left>> => ScreenOK'
BY ScreenStep DEF ScreenOK, screen

LEMMA CountedFacts ==
  ASSUME ScreenOK, Counted
  PROVE  /\ IsFiniteSet(pressed) /\ Cardinality(pressed) \in Nat
         /\ IsFiniteSet(Sent) /\ Cardinality(Sent) \in Nat
         /\ news \in Nat /\ turns \in Nat /\ MaxTurns \in Nat /\ turns <= MaxTurns
         /\ Held \in {0, 1}
         /\ news + Cardinality(Sent) + Cardinality(pressed) + Held <= turns
<1>1. IsFiniteSet(pressed)
  BY TasksAssumption, FS_Subset DEF ScreenOK
<1> QED
  BY <1>1, FS_CardinalityType, LimitAssumption DEF Counted, Held

(* A step that counts no more than it takes turns.                         *)
LEMMA CountedStep ==
  ASSUME ScreenOK, Counted,
         NEW a \in Nat, news' = a, NEW b \in Nat, IsFiniteSet(Sent)', Cardinality(Sent)' = b,
         NEW c \in Nat, Cardinality(pressed)' = c, NEW m \in Nat, turns' = m, m <= MaxTurns,
         a + b + c + Held' - (news + Cardinality(Sent) + Cardinality(pressed) + Held)
            <= m - turns
  PROVE  Counted'
<1>1. Held' \in {0, 1}
  BY DEF Held
<1> DEFINE h1 == Held'
           h  == Held
           p  == Cardinality(pressed)
           s  == Cardinality(Sent)
<1>2. /\ p \in Nat /\ s \in Nat /\ news \in Nat /\ turns \in Nat /\ MaxTurns \in Nat
      /\ h \in Nat /\ h1 \in Nat
      /\ news + s + p + h <= turns
      /\ a + b + c + h1 - (news + s + p + h) <= m - turns
  BY <1>1, CountedFacts
<1> HIDE DEF h, h1, p, s
<1>3. a + b + c + h1 <= m
  BY <1>2
<1>4. news' + Cardinality(Sent)' + Cardinality(pressed)' + Held' <= turns'
  BY <1>3 DEF h1
<1>5. turns' \in 0 .. MaxTurns /\ news' \in Nat
  BY <1>2
<1> QED
  BY <1>4, <1>5 DEF Counted

-----------------------------------------------------------------------------
(* The pointer.                                                            *)

LEMMA PressStep ==
  ASSUME TypeInv, NEW t \in Tasks, Press(t)
  PROVE  TypeInv'
<1>1. /\ TableOK /\ ScreenOK /\ PostsOK /\ NetOK /\ Counted
      /\ UNCHANGED <<status, position, view, board, expanded, drag, hidden, left, posts,
                     news, asks, answers, unseen, overtaken>>
      /\ pressed' = pressed \cup {t} /\ turns' = turns + 1 /\ turns < MaxTurns
  BY DEF TypeInv, Press, table, net
<1>2. TableOK' /\ PostsOK' /\ NetOK' /\ Sent' = Sent
  BY <1>1, TableKept, PostsKept, NetKept DEF table
<1>3. ScreenOK'
  BY <1>1, ScreenStep DEF ScreenOK
<1>4. Counted'
  <2>1. /\ IsFiniteSet(pressed) /\ Cardinality(pressed) \in Nat
        /\ IsFiniteSet(Sent) /\ Cardinality(Sent) \in Nat
        /\ news \in Nat /\ turns \in Nat /\ MaxTurns \in Nat /\ Held \in Nat /\ Held' = Held
    BY <1>1, CountedFacts DEF Held
  <2>2. /\ Cardinality(pressed') \in Nat /\ Cardinality(pressed') <= Cardinality(pressed) + 1
    <3>1. Cardinality(pressed') = IF t \in pressed THEN Cardinality(pressed)
                                  ELSE Cardinality(pressed) + 1
      BY <1>1, <2>1, FS_AddElement
    <3> QED
      BY <2>1, <3>1
  <2>3. turns + 1 \in Nat /\ turns + 1 <= MaxTurns
    BY <1>1, <2>1
  <2>4. turns' = turns + 1 /\ news' = news /\ Cardinality(Sent)' = Cardinality(Sent)
        /\ IsFiniteSet(Sent)' /\ Cardinality(pressed)' = Cardinality(pressed')
    BY <1>1, <1>2, <2>1
  <2>5. news + Cardinality(Sent) + Cardinality(pressed') + Held
            - (news + Cardinality(Sent) + Cardinality(pressed) + Held) <= (turns + 1) - turns
    BY <2>1, <2>2
  <2> QED
    BY <1>1, <2>1, <2>2, <2>3, <2>4, <2>5, CountedStep
<1> QED
  BY <1>2, <1>3, <1>4 DEF TypeInv

LEMMA IndexFacts ==
  ASSUME NEW s \in Seq(Tasks), NEW t \in Elements(s)
  PROVE  IndexOf(s, t) \in 1 .. Len(s)
BY DEF IndexOf, Elements

LEMMA GapFacts ==
  ASSUME ScreenOK, NEW c \in Cols, NEW gap \in Beside .. Len(Shown(c))
  PROVE  gap \in Beside .. Cardinality(Tasks) /\ gap \in Int /\ gap <= Len(Shown(c))
<1>1. Len(Shown(c)) \in 0 .. Cardinality(Tasks)
  BY ShownFacts
<1>2. Cardinality(Tasks) \in Nat
  BY TasksAssumption, FS_CardinalityType
<1> QED
  BY <1>1, <1>2 DEF Beside

LEMMA StartStep ==
  ASSUME TypeInv, NEW t \in Tasks, Start(t)
  PROVE  TypeInv'
<1>1. /\ TableOK /\ ScreenOK /\ PostsOK /\ NetOK /\ Counted
      /\ UNCHANGED <<status, position, view, board, expanded, posts,
                     news, asks, answers, turns, unseen, overtaken>>
      /\ t \in pressed /\ pressed' = pressed \ {t} /\ hidden' = hidden \cup {t}
      /\ left' = (IF drag.live THEN left \cup {drag.task} ELSE left) \ {t}
  BY DEF TypeInv, Start, table, net
<1>2. PICK c \in Cols :
           /\ t \in Elements(Shown(c))
           /\ drag' = [task |-> t, live |-> TRUE, zone |-> NoTask, col |-> c,
                       gap |-> IndexOf(Shown(c), t) - 1]
  BY DEF Start
<1>3. TableOK' /\ PostsOK' /\ NetOK' /\ Sent' = Sent
  BY <1>1, TableKept, PostsKept, NetKept DEF table
<1> DEFINE gap == IndexOf(Shown(c), t) - 1
<1>4. gap \in Beside .. Cardinality(Tasks) /\ gap \in Int /\ gap <= Len(Shown(c))
  <2>1. IndexOf(Shown(c), t) \in 1 .. Len(Shown(c)) /\ Len(Shown(c)) \in Nat
    BY <1>1, <1>2, ShownFacts, IndexFacts
  <2>2. gap \in Beside .. Len(Shown(c))
    BY <2>1 DEF Beside
  <2> QED
    BY <1>1, <2>2, GapFacts
<1> HIDE DEF gap
<1>5. t # NoTask
  BY TasksAssumption
<1>6. /\ drag' \in Drags /\ drag'.task = t /\ drag'.col = c /\ drag'.gap = gap
      /\ drag'.zone = NoTask
  BY <1>2, <1>4 DEF Drags, gap
<1>7. left' \subseteq Tasks
  <2>1. drag.live => drag.task \in Tasks
    BY <1>1, NoDragFacts DEF ScreenOK, Drags
  <2> QED
    BY <1>1, <2>1 DEF ScreenOK
<1>8. ScreenOK'
  <2>1. pressed' \subseteq Tasks /\ hidden' \subseteq Tasks
    BY <1>1 DEF ScreenOK
  <2> QED
    BY <1>1, <1>4, <1>5, <1>6, <1>7, <2>1, ScreenStep
<1>9. Counted'
  <2>1. /\ IsFiniteSet(pressed) /\ Cardinality(pressed) \in Nat
        /\ IsFiniteSet(Sent) /\ Cardinality(Sent) \in Nat
        /\ news \in Nat /\ turns \in Nat /\ MaxTurns \in Nat /\ turns <= MaxTurns
        /\ Held \in {0, 1} /\ Held' \in {0, 1}
    BY <1>1, CountedFacts DEF Held
  <2>2. /\ Cardinality(pressed') \in Nat /\ Cardinality(pressed') = Cardinality(pressed) - 1
    BY <1>1, <2>1, FS_RemoveElement, FS_CardinalityType
  <2> QED
    BY <1>1, <1>3, <2>1, <2>2, CountedStep
<1> QED
  BY <1>3, <1>8, <1>9 DEF TypeInv

LEMMA CountedKept ==
  ASSUME Counted, UNCHANGED <<news, posts, pressed, turns>>, Held' = Held
  PROVE  Counted'
<1>1. Sent' = Sent
  BY DEF Sent
<1> QED
  BY <1>1 DEF Counted

LEMMA PlaceStep ==
  ASSUME TypeInv, NEW c \in Cols, NEW gap \in Beside .. Len(Shown(c)), PlaceAt(c, gap)
  PROVE  TypeInv'
<1>1. /\ TableOK /\ ScreenOK /\ PostsOK /\ NetOK /\ Counted
      /\ UNCHANGED <<status, position, view, board, expanded, pressed, hidden, posts,
                     news, asks, answers, turns, left, unseen, overtaken>>
      /\ drag.task # NoTask
      /\ drag' = [drag EXCEPT !.zone = c, !.col = c, !.gap = gap]
  BY DEF TypeInv, PlaceAt, table, net
<1>2. gap \in Beside .. Cardinality(Tasks) /\ gap \in Int /\ gap <= Len(Shown(c))
  BY <1>1, GapFacts
<1>3. /\ drag' \in Drags /\ drag'.task = drag.task /\ drag'.zone = c /\ drag'.col = c
      /\ drag'.gap = gap
  BY <1>1, <1>2 DEF ScreenOK, Drags
<1>4. ScreenOK'
  <2>1. pressed \subseteq Tasks /\ hidden \subseteq Tasks /\ left \subseteq Tasks
    BY <1>1 DEF ScreenOK
  <2> QED
    BY <1>1, <1>2, <1>3, <2>1, ScreenStep
<1>5. drag # NoDrag /\ drag' # NoDrag
  BY <1>1, <1>3, NoDragFacts
<1>6. Counted'
  BY <1>1, <1>5, CountedKept DEF Held
<1> QED
  BY <1>1, <1>4, <1>6, TableKept, PostsKept, NetKept DEF TypeInv, table

LEMMA MoveStep ==
  ASSUME TypeInv, NEW c \in Cols, NEW item \in Tasks \cup {NoTask}, Move(c, item)
  PROVE  TypeInv'
<1>1. /\ ScreenOK /\ item \in Items(c) \cup {NoTask} /\ PlaceAt(c, GapBefore(c, item))
  BY DEF TypeInv, Move
<1>2. Shown(c) \in Seq(Tasks) /\ Len(Shown(c)) \in Nat
  BY <1>1, ShownFacts
<1>3. CASE item # NoTask
  <2>1. item \in Elements(Shown(c))
    BY <1>1, <1>3 DEF Items
  <2>2. IndexOf(Shown(c), item) \in 1 .. Len(Shown(c))
    BY <1>2, <2>1, IndexFacts
  <2>3. GapBefore(c, item) = IndexOf(Shown(c), item) - 1
    BY <1>3 DEF GapBefore
  <2>4. GapBefore(c, item) \in Beside .. Len(Shown(c))
    BY <1>2, <2>2, <2>3 DEF Beside
  <2> QED
    BY <1>1, <2>4, PlaceStep
<1>4. CASE item = NoTask
  <2>1. GapBefore(c, item) \in {0, Len(Shown(c))}
    BY <1>4 DEF GapBefore
  <2>2. GapBefore(c, item) \in Beside .. Len(Shown(c))
    BY <1>2, <2>1 DEF Beside
  <2> QED
    BY <1>1, <2>2, PlaceStep
<1> QED
  BY <1>3, <1>4

LEMMA MovePanelStep ==
  ASSUME TypeInv, NEW c \in Cols, MovePanel(c)
  PROVE  TypeInv'
<1>1. ScreenOK /\ PlaceAt(c, Beside)
  BY DEF TypeInv, MovePanel
<1>2. Len(Shown(c)) \in Nat
  BY <1>1, ShownFacts
<1>3. Beside \in Beside .. Len(Shown(c))
  BY <1>2 DEF Beside
<1> QED
  BY <1>1, <1>3, PlaceStep

LEMMA MoveTabStep ==
  ASSUME TypeInv, NEW c \in Cols, MoveTab(c)
  PROVE  TypeInv'
<1>1. ScreenOK /\ PlaceAt(c, TabGap(c)) /\ drag.task # NoTask
  BY DEF TypeInv, MoveTab, PlaceAt
<1>2. Len(Shown(c)) \in Nat /\ Cardinality(Tasks) \in Nat
  BY <1>1, ShownFacts, TasksAssumption, FS_CardinalityType
<1>3. drag.col = c => drag.gap \in Beside .. Cardinality(Tasks) /\ drag.gap <= Len(Shown(c))
  BY <1>1 DEF ScreenOK, Drags
<1>4. TabGap(c) \in Beside .. Len(Shown(c))
  <2>1. CASE drag.col = c
    BY <1>2, <1>3, <2>1 DEF TabGap, Beside
  <2>2. CASE drag.col # c
    BY <1>2, <2>2 DEF TabGap, Beside
  <2> QED
    BY <2>1, <2>2
<1> QED
  BY <1>1, <1>4, PlaceStep

LEMMA ShowMoreStep ==
  ASSUME TypeInv, NEW c \in Cols, ShowMore(c)
  PROVE  TypeInv'
<1>1. /\ TableOK /\ ScreenOK /\ PostsOK /\ NetOK /\ Counted
      /\ UNCHANGED <<status, position, view, board, pressed, drag, hidden, posts,
                     news, asks, answers, turns, left, unseen, overtaken>>
      /\ drag = NoDrag /\ expanded' = expanded \cup {c}
  BY DEF TypeInv, ShowMore, table, net
<1>2. ScreenOK'
  BY <1>1, NoDragFacts DEF ScreenOK
<1>3. Counted'
  BY <1>1, CountedKept DEF Held
<1> QED
  BY <1>1, <1>2, <1>3, TableKept, PostsKept, NetKept DEF TypeInv, table

(* The pointer is up and nothing is pressed or dragged any more.           *)
LEMMA PointerUp ==
  ASSUME ScreenOK, UNCHANGED <<view, board, expanded>>, pressed' = {}, drag' = NoDrag,
         hidden' \subseteq Tasks, left' \subseteq Tasks
  PROVE  ScreenOK'
BY NoDragFacts, ScreenStep

LEMMA CancelStep ==
  ASSUME TypeInv, Cancel
  PROVE  TypeInv'
<1>1. /\ TableOK /\ ScreenOK /\ PostsOK /\ NetOK /\ Counted
      /\ UNCHANGED <<status, position, view, board, expanded, posts,
                     news, asks, answers, turns, left, unseen, overtaken>>
      /\ pressed' = {} /\ drag' = NoDrag /\ hidden' = Restored(hidden)
  BY DEF TypeInv, Cancel, table, net
<1>2. hidden' \subseteq Tasks /\ left' \subseteq Tasks
  BY <1>1 DEF ScreenOK, Restored
<1>3. ScreenOK'
  BY <1>1, <1>2, PointerUp
<1>4. TableOK' /\ PostsOK' /\ NetOK' /\ Sent' = Sent
  BY <1>1, TableKept, PostsKept, NetKept DEF table
<1>5. Counted'
  <2>1. /\ Cardinality(pressed) \in Nat /\ IsFiniteSet(Sent) /\ Cardinality(Sent) \in Nat
        /\ news \in Nat /\ turns \in Nat /\ turns <= MaxTurns /\ Held \in {0, 1}
    BY <1>1, CountedFacts
  <2>2. Cardinality(pressed)' = 0 /\ Held' = 0
    BY <1>1, FS_EmptySet DEF Held
  <2>3. /\ news' = news /\ turns' = turns /\ Cardinality(Sent)' = Cardinality(Sent)
        /\ IsFiniteSet(Sent)'
    BY <1>1, <1>4, <2>1
  <2>4. news + Cardinality(Sent) + 0 + 0
            - (news + Cardinality(Sent) + Cardinality(pressed) + Held) <= turns - turns
    BY <2>1
  <2> QED
    BY <1>1, <2>1, <2>2, <2>3, <2>4, CountedStep
<1> QED
  BY <1>3, <1>4, <1>5 DEF TypeInv

(* The request of a drop names a column, and its neighbours are those the  *)
(* user saw, except for the dragged card itself.                           *)
LEMMA DropFacts ==
  ASSUME ScreenOK, drag # NoDrag, drag.zone # NoTask
  PROVE  /\ Drop \in Drops /\ Drop.stage = "sent" /\ Drop.task \in Tasks /\ Drop.to \in Cols
         /\ Drop.how = ""
         /\ Seen(Drop)
<1>1. /\ drag \in Drags /\ drag.task \in Tasks /\ drag.zone \in Cols
      /\ Shown(drag.zone) \in Seq(Tasks)
  <2>1. drag \in Drags /\ drag.task # NoTask
    BY DEF ScreenOK
  <2>2. drag.task \in Tasks /\ drag.zone \in Cols
    BY <2>1 DEF Drags
  <2> QED
    BY <2>1, <2>2, ShownFacts
<1>2. /\ PrevItem \in Tasks \cup {NoTask} /\ NextItem \in Tasks \cup {NoTask}
      /\ SeenAbove \in Tasks \cup {NoTask} /\ SeenBelow \in Tasks \cup {NoTask}
  BY <1>1, AtFacts DEF PrevItem, NextItem, SeenAbove, SeenBelow
<1>3. drag.task # NoTask
  BY <1>1, TasksAssumption
<1>4. /\ PrevItem # drag.task => SeenAbove = PrevItem
      /\ NextItem # drag.task => SeenBelow = NextItem
  BY DEF SeenAbove, SeenBelow, IsSource
<1> DEFINE prev == PrevItem
           next == NextItem
           up   == SeenAbove
           down == SeenBelow
<1>5. Drop = [stage |-> "sent", task |-> drag.task, to |-> drag.zone, after |-> prev,
              before |-> next, up |-> up, down |-> down, how |-> ""]
  BY DEF Drop
<1>6. /\ prev \in Tasks \cup {NoTask} /\ next \in Tasks \cup {NoTask}
      /\ up \in Tasks \cup {NoTask} /\ down \in Tasks \cup {NoTask}
      /\ prev # drag.task => up = prev
      /\ next # drag.task => down = next
  BY <1>2, <1>4
<1> HIDE DEF prev, next, up, down
<1>7. /\ Drop.stage = "sent" /\ Drop.task = drag.task /\ Drop.to = drag.zone
      /\ Drop.after = prev /\ Drop.before = next /\ Drop.up = up /\ Drop.down = down
      /\ Drop.how = ""
  BY <1>5
<1>8. Drop \in Drops
  BY <1>1, <1>5, <1>6 DEF Drops
<1>9. Seen(Drop)
  BY <1>3, <1>6, <1>7 DEF Seen
<1> QED
  BY <1>1, <1>7, <1>8, <1>9

LEMMA ReleaseFacts ==
  ASSUME TypeInv, Release
  PROVE  /\ UNCHANGED <<status, position, view, board, expanded, news, asks, answers, turns,
                        unseen, overtaken>>
         /\ pressed' = {} /\ drag' = NoDrag
         /\ \/ UNCHANGED <<hidden, posts>> /\ left' = left /\ drag = NoDrag
            \/ /\ UNCHANGED <<hidden, posts>> /\ drag # NoDrag /\ drag.zone = NoTask
               /\ left' = IF drag.live THEN left \cup {drag.task} ELSE left
            \/ /\ drag # NoDrag /\ drag.zone # NoTask /\ left' = left
               /\ hidden' = Restored(hidden)
               /\ \E p \in Posts : posts[p] = NoDrop /\ posts' = [posts EXCEPT ![p] = Drop]
BY DEF Release, table, net

LEMMA ReleaseStep ==
  ASSUME TypeInv, Release
  PROVE  TypeInv'
<1>1. /\ TableOK /\ ScreenOK /\ PostsOK /\ NetOK /\ Counted
      /\ UNCHANGED <<status, position, view, board, expanded, news, asks, answers, turns,
                     unseen, overtaken>>
      /\ pressed' = {} /\ drag' = NoDrag
  BY ReleaseFacts DEF TypeInv
<1>2. TableOK' /\ NetOK'
  BY <1>1, TableKept, NetKept DEF table
<1>3. ScreenOK'
  <2>1. drag.live => drag.task \in Tasks
    BY <1>1, NoDragFacts DEF ScreenOK, Drags
  <2>2. hidden' \subseteq Tasks /\ left' \subseteq Tasks
    BY <1>1, <2>1, ReleaseFacts DEF ScreenOK, Restored
  <2> QED
    BY <1>1, <2>2, PointerUp
<1>4. /\ Cardinality(pressed) \in Nat /\ IsFiniteSet(Sent) /\ Cardinality(Sent) \in Nat
      /\ news \in Nat /\ turns \in Nat /\ turns <= MaxTurns /\ Held \in {0, 1}
      /\ Cardinality(pressed)' = 0 /\ Held' = 0
  BY <1>1, CountedFacts, FS_EmptySet DEF Held
<1>5. CASE UNCHANGED posts
  <2>1. PostsOK' /\ Sent' = Sent
    BY <1>1, <1>5, PostsKept
  <2>2. /\ news' = news /\ turns' = turns /\ Cardinality(Sent)' = Cardinality(Sent)
        /\ IsFiniteSet(Sent)'
    BY <1>1, <1>4, <2>1
  <2>3. news + Cardinality(Sent) + 0 + 0
            - (news + Cardinality(Sent) + Cardinality(pressed) + Held) <= turns - turns
    BY <1>4
  <2>4. Counted'
    BY <1>1, <1>4, <2>2, <2>3, CountedStep
  <2> QED
    BY <1>2, <1>3, <2>1, <2>4 DEF TypeInv
<1>6. ASSUME NEW p \in Posts, posts[p] = NoDrop, posts' = [posts EXCEPT ![p] = Drop],
             drag # NoDrag, drag.zone # NoTask
      PROVE  TypeInv'
  <2>1. /\ Drop \in Drops /\ Drop.stage = "sent" /\ Drop.task \in Tasks /\ Drop.to \in Cols
        /\ NoDrop.stage = "free"
    BY <1>1, <1>6, DropFacts, NoDropFacts
  <2> DEFINE d == Drop
  <2> HIDE DEF d
  <2>2. posts \in [Posts -> Drops] /\ posts' = [posts EXCEPT ![p] = d] /\ d \in Drops
    BY <1>1, <1>6, <2>1 DEF PostsOK, d
  <2>3. PostsOK'
    BY <1>1, <2>1, <2>2 DEF PostsOK, d
  <2>4. Sent' = Sent \cup {p} /\ p \notin Sent
    BY <1>6, <2>1, <2>2 DEF Sent, d
  <2>5. IsFiniteSet(Sent)' /\ Cardinality(Sent)' = Cardinality(Sent) + 1
    BY <1>4, <2>4, FS_AddElement
  <2>6. Held = 1
    BY <1>6 DEF Held
  <2>7. news + (Cardinality(Sent) + 1) + 0 + 0
            - (news + Cardinality(Sent) + Cardinality(pressed) + Held) <= turns - turns
    BY <1>4, <2>6
  <2>8. news' = news /\ turns' = turns /\ Cardinality(Sent) + 1 \in Nat
    BY <1>1, <1>4
  <2>9. Counted'
    BY <1>1, <1>4, <2>5, <2>7, <2>8, CountedStep
  <2> QED
    BY <1>2, <1>3, <2>3, <2>9 DEF TypeInv
<1> QED
  BY <1>5, <1>6, ReleaseFacts

-----------------------------------------------------------------------------
(* The server.                                                             *)

LEMMA SentFacts ==
  ASSUME PostsOK, NEW p \in Posts, posts[p].stage \in {"sent", "done"}
  PROVE  /\ posts[p] \in Drops /\ posts[p] # NoDrop
         /\ posts[p].task \in Tasks /\ posts[p].to \in Cols
BY NoDropFacts DEF PostsOK

LEMMA HandleFacts ==
  ASSUME TableOK, PostsOK, NEW p \in Posts, posts[p].stage = "sent", NEW how, Handle(p, how)
  PROVE  /\ TableOK'
         /\ \/ UNCHANGED table /\ news' = news
            \/ news' = news + 1
         /\ how = "moved" =>
                Table!MoveTask(posts[p].task, posts[p].to, posts[p].after, posts[p].before)
<1> DEFINE d == posts[p]
           t == d.task
           s == d.to
<1>1. t \in Tasks /\ s \in Cols
  BY SentFacts
<1>2. /\ \/ UNCHANGED table /\ news' = news
         \/ /\ Table!SetTaskStatus(t, s) \/ Table!MoveTask(t, s, d.after, d.before)
            /\ news' = news + 1
      /\ how = "moved" => Table!MoveTask(t, s, d.after, d.before)
  BY DEF Handle, Publish
<1> HIDE DEF d, t, s
<1>3. UNCHANGED table => TableOK'
  BY TableKept
<1>4. ASSUME Table!SetTaskStatus(t, s) \/ Table!MoveTask(t, s, d.after, d.before)
      PROVE  TableOK'
  <2>1. Table!TypeOK' /\ status' = [status EXCEPT ![t] = s]
    BY <1>1, <1>4, Placed DEF TableOK
  <2> QED
    BY <1>1, <2>1 DEF TableOK
<1> QED
  BY <1>2, <1>3, <1>4 DEF d, t, s

LEMMA TransitionFacts ==
  ASSUME TypeInv, NEW p \in Posts, Transition(p)
  PROVE  \E how \in {"started", "moved", "same", "ended", "refused"} :
            /\ Handle(p, how)
            /\ posts' = [posts EXCEPT ![p] = [posts[p] EXCEPT !.stage = "done", !.how = how]]
            /\ posts'[p].stage = "done" /\ posts'[p].how = how
<1>1. posts \in [Posts -> Drops] /\ posts[p] \in Drops
  BY DEF TypeInv, PostsOK
<1>2. PICK how \in {"started", "moved", "same", "ended", "refused"} :
            /\ Handle(p, how)
            /\ posts' = [posts EXCEPT ![p].stage = "done", ![p].how = how]
  BY DEF Transition
<1>3. posts' = [posts EXCEPT ![p] = [posts[p] EXCEPT !.stage = "done", !.how = how]]
  BY <1>1, <1>2
<1> DEFINE d == [posts[p] EXCEPT !.stage = "done", !.how = how]
<1>4. d.stage = "done" /\ d.how = how
  BY <1>1 DEF Drops
<1> HIDE DEF d
<1>5. posts'[p] = d
  BY <1>1, <1>3 DEF d
<1> QED
  BY <1>2, <1>3, <1>4, <1>5

LEMMA TransitionStep ==
  ASSUME TypeInv, NEW p \in Posts, Transition(p)
  PROVE  TypeInv'
<1>1. /\ TableOK /\ ScreenOK /\ PostsOK /\ NetOK /\ Counted
      /\ UNCHANGED <<view, board, expanded, pressed, drag, hidden, left, asks, answers, turns,
                     unseen, overtaken>>
      /\ posts[p].stage = "sent"
  BY DEF TypeInv, Transition, screen
<1>2. PICK how \in {"started", "moved", "same", "ended", "refused"} :
            /\ Handle(p, how)
            /\ posts' = [posts EXCEPT ![p] = [posts[p] EXCEPT !.stage = "done", !.how = how]]
  BY TransitionFacts
<1>3. TableOK' /\ (news' = news \/ news' = news + 1)
  BY <1>1, <1>2, HandleFacts
<1>4. ScreenOK' /\ NetOK'
  BY <1>1, ScreenKept, NetKept DEF screen
<1> DEFINE d == [posts[p] EXCEPT !.stage = "done", !.how = how]
<1>5. posts[p] \in Drops /\ posts[p].task \in Tasks /\ posts[p].to \in Cols
  BY <1>1, SentFacts
<1>6. d \in Drops /\ d.stage = "done" /\ d.task \in Tasks /\ d.to \in Cols
  BY <1>5 DEF Drops
<1>7. posts \in [Posts -> Drops] /\ posts' = [posts EXCEPT ![p] = d]
  BY <1>1, <1>2 DEF PostsOK
<1> HIDE DEF d
<1>8. PostsOK'
  BY <1>1, <1>6, <1>7 DEF PostsOK
<1>9. Sent' = Sent \ {p} /\ p \in Sent
  BY <1>1, <1>6, <1>7 DEF Sent
<1>10. Counted'
  <2>1. /\ Cardinality(pressed) \in Nat /\ IsFiniteSet(Sent) /\ Cardinality(Sent) \in Nat
        /\ news \in Nat /\ turns \in Nat /\ turns <= MaxTurns /\ Held \in {0, 1}
    BY <1>1, CountedFacts
  <2>2. /\ IsFiniteSet(Sent)' /\ Cardinality(Sent)' = Cardinality(Sent) - 1
        /\ Cardinality(Sent) - 1 \in Nat
    <3>1. IsFiniteSet(Sent \ {p}) /\ Cardinality(Sent \ {p}) = Cardinality(Sent) - 1
      BY <1>9, <2>1, FS_RemoveElement
    <3>2. Cardinality(Sent \ {p}) \in Nat
      BY <3>1, FS_CardinalityType
    <3> QED
      BY <1>9, <3>1, <3>2
  <2>3. Held' = Held /\ turns' = turns /\ Cardinality(pressed)' = Cardinality(pressed)
        /\ news' \in Nat
    BY <1>1, <1>3, <2>1 DEF Held
  <2>4. news' + (Cardinality(Sent) - 1) + Cardinality(pressed) + Held
            - (news + Cardinality(Sent) + Cardinality(pressed) + Held) <= turns - turns
    BY <1>3, <2>1
  <2> QED
    BY <1>1, <2>1, <2>2, <2>3, <2>4, CountedStep
<1> QED
  BY <1>3, <1>4, <1>8, <1>10 DEF TypeInv

(* A step of one turn, or none, that only changes the table and the        *)
(* messages, requests and answers in flight.                               *)
LEMMA NewsStep ==
  ASSUME ScreenOK, PostsOK, Counted, UNCHANGED <<screen, left, posts>>,
         \/ news' = news + 1 /\ turns' = turns + 1 /\ turns < MaxTurns
         \/ news' = news /\ turns' = turns
         \/ news > 0 /\ news' = news - 1 /\ turns' = turns
         \/ news' = news /\ turns' = turns + 1 /\ turns < MaxTurns
         \/ news > 0 /\ news' = news - 1 /\ turns' = turns + 1 /\ turns < MaxTurns
  PROVE  ScreenOK' /\ PostsOK' /\ Counted'
<1>1. ScreenOK' /\ PostsOK' /\ Sent' = Sent
  BY ScreenKept, PostsKept
<1>2. /\ Cardinality(pressed) \in Nat /\ IsFiniteSet(Sent) /\ Cardinality(Sent) \in Nat
      /\ news \in Nat /\ turns \in Nat /\ MaxTurns \in Nat /\ turns <= MaxTurns
      /\ Held \in {0, 1}
  BY CountedFacts
<1>3. Held' = Held /\ Cardinality(pressed)' = Cardinality(pressed)
      /\ Cardinality(Sent)' = Cardinality(Sent) /\ IsFiniteSet(Sent)'
  BY <1>1, <1>2 DEF Held, screen
<1>4. /\ news' \in Nat /\ turns' \in Nat /\ turns' <= MaxTurns
      /\ news' + Cardinality(Sent) + Cardinality(pressed) + Held
            - (news + Cardinality(Sent) + Cardinality(pressed) + Held) <= turns' - turns
  BY <1>2
<1>5. Counted'
  BY <1>2, <1>3, <1>4, CountedStep
<1> QED
  BY <1>1, <1>5

LEMMA OtherStep ==
  ASSUME TypeInv, NEW t \in Tasks, Other(t)
  PROVE  TypeInv'
<1>1. /\ TableOK /\ ScreenOK /\ PostsOK /\ NetOK /\ Counted
      /\ UNCHANGED <<screen, left, posts, asks, answers, unseen, overtaken>>
      /\ news' = news + 1 /\ turns' = turns + 1 /\ turns < MaxTurns
  BY DEF TypeInv, Other, Publish
<1>2. \E c \in Cols : \/ Table!SetTaskStatus(t, c)
                      \/ \E after, before : Table!MoveTask(t, c, after, before)
  BY DEF Other
<1>3. TableOK'
  <2>1. PICK c \in Cols : \/ Table!SetTaskStatus(t, c)
                          \/ \E after, before : Table!MoveTask(t, c, after, before)
    BY <1>2
  <2>2. Table!TypeOK' /\ status' = [status EXCEPT ![t] = c]
    BY <1>1, <2>1, Placed DEF TableOK
  <2> QED
    BY <1>1, <2>2 DEF TableOK
<1>4. NetOK' /\ ScreenOK' /\ PostsOK' /\ Counted'
  BY <1>1, NetKept, NewsStep
<1> QED
  BY <1>3, <1>4 DEF TypeInv

-----------------------------------------------------------------------------
(* The list of tasks.                                                      *)

(* Another request for the list.                                           *)
LEMMA RefreshStep ==
  ASSUME NetOK, Refresh, UNCHANGED <<answers, unseen, overtaken>>
  PROVE  NetOK'
<1>1. Len(answers) \in Nat /\ MaxGets \in Nat /\ asks \in Nat
  BY LimitAssumption DEF NetOK
<1>2. asks' \in Nat /\ asks' + Len(answers) <= MaxGets
  BY <1>1 DEF Refresh
<1> QED
  BY <1>2 DEF NetOK

LEMMA DroppedStep ==
  ASSUME TypeInv, NEW p \in Posts, Dropped(p)
  PROVE  TypeInv'
<1>1. /\ TableOK /\ ScreenOK /\ PostsOK /\ NetOK /\ Counted
      /\ UNCHANGED <<status, position, view, board, expanded, pressed, drag, hidden, left, news,
                     answers, turns, unseen, overtaken>>
      /\ posts[p].stage = "done" /\ posts' = [posts EXCEPT ![p] = NoDrop] /\ Refresh
  BY DEF TypeInv, Dropped, screen, table
<1>2. TableOK' /\ ScreenOK' /\ NetOK'
  BY <1>1, TableKept, ScreenKept, RefreshStep DEF table, screen
<1>3. PostsOK'
  BY <1>1, NoDropFacts DEF PostsOK
<1>4. Sent' = Sent
  BY <1>1, NoDropFacts DEF Sent, PostsOK
<1>5. Counted'
  BY <1>1, <1>4 DEF Counted, Held
<1> QED
  BY <1>2, <1>3, <1>5 DEF TypeInv

LEMMA NoticeStep ==
  ASSUME TypeInv, Notice
  PROVE  TypeInv'
<1>1. /\ TableOK /\ ScreenOK /\ PostsOK /\ NetOK /\ Counted
      /\ UNCHANGED <<table, screen, left, posts, answers, turns, unseen, overtaken>>
      /\ news > 0 /\ news' = news - 1 /\ turns' = turns /\ Refresh
  BY DEF TypeInv, Notice
<1> QED
  BY <1>1, TableKept, NewsStep, RefreshStep DEF TypeInv

LEMMA LoseNoticeStep ==
  ASSUME TypeInv, LoseNotice
  PROVE  TypeInv'
<1>1. /\ TableOK /\ ScreenOK /\ PostsOK /\ NetOK /\ Counted
      /\ UNCHANGED <<table, screen, left, posts, asks, answers, overtaken>> /\ unseen' = TRUE
      /\ news > 0 /\ news' = news - 1 /\ turns' = turns + 1 /\ turns < MaxTurns
  BY DEF TypeInv, LoseNotice
<1>2. NetOK'
  BY <1>1 DEF NetOK
<1> QED
  BY <1>1, <1>2, TableKept, NewsStep DEF TypeInv

LEMMA ListTasksStep ==
  ASSUME TypeInv, ListTasks
  PROVE  TypeInv'
<1>1. /\ TableOK /\ ScreenOK /\ PostsOK /\ NetOK /\ Counted
      /\ UNCHANGED <<table, screen, left, posts, news, turns, overtaken>>
      /\ asks > 0 /\ asks' = asks - 1 /\ unseen' = FALSE
  BY DEF TypeInv, ListTasks
<1>2. PICK l \in Lists : answers' = Append(answers, [rows |-> l, old |-> FALSE])
  BY DEF ListTasks
<1>3. IsList(l)
  BY <1>1, ListsAreLists
<1> DEFINE r == [rows |-> l, old |-> FALSE]
<1>4. r \in Answers /\ IsList(r.rows)
  BY <1>3 DEF Answers, IsList
<1> HIDE DEF r
<1>5. answers \in Seq(Answers) /\ answers' = Append(answers, r) /\ Len(answers) \in Nat
      /\ MaxGets \in Nat /\ asks \in Nat /\ asks + Len(answers) <= MaxGets
  BY <1>1, <1>2, LimitAssumption DEF NetOK, r
<1>6. answers' \in Seq(Answers) /\ Len(answers') = Len(answers) + 1
      /\ \A i \in DOMAIN answers' :
             \/ i \in DOMAIN answers /\ answers'[i] = answers[i]
             \/ answers'[i] = r
  BY <1>4, <1>5
<1>7. \A i \in DOMAIN answers' : IsList(answers'[i].rows)
  BY <1>1, <1>4, <1>6 DEF NetOK
<1>8. asks' \in Nat /\ asks' + Len(answers') <= MaxGets
  BY <1>1, <1>5, <1>6
<1>9. NetOK'
  BY <1>1, <1>6, <1>7, <1>8 DEF NetOK
<1> QED
  BY <1>1, <1>9, TableKept, NewsStep DEF TypeInv

LEMMA ListFailsStep ==
  ASSUME TypeInv, ListFails
  PROVE  TypeInv'
<1>1. /\ TableOK /\ ScreenOK /\ PostsOK /\ NetOK /\ Counted
      /\ UNCHANGED <<table, screen, left, posts, news, answers, overtaken>>
      /\ asks > 0 /\ asks' = asks - 1 /\ unseen' = TRUE
      /\ turns' = turns + 1 /\ turns < MaxTurns
  BY DEF TypeInv, ListFails
<1>2. NetOK'
  <2>1. Len(answers) \in Nat /\ MaxGets \in Nat /\ asks \in Nat /\ asks + Len(answers) <= MaxGets
    BY <1>1, LimitAssumption DEF NetOK
  <2>2. asks' \in Nat /\ asks' + Len(answers) <= MaxGets
    BY <1>1, <2>1
  <2> QED
    BY <1>1, <2>2 DEF NetOK
<1> QED
  BY <1>1, <1>2, TableKept, NewsStep DEF TypeInv

LEMMA AnsweredFacts ==
  ASSUME NetOK, NEW i \in DOMAIN answers
  PROVE  /\ Answered(i) \in Seq(Answers) /\ Len(Answered(i)) = Len(answers) - 1
         /\ DOMAIN Answered(i) = 1 .. Len(answers) - 1
         /\ \A j \in 1 .. Len(answers) - 1 :
               /\ j < i => /\ Answered(i)[j].rows = answers[j].rows
                           /\ Answered(i)[j].old = TRUE
               /\ ~(j < i) => Answered(i)[j] = answers[j + 1]
<1> DEFINE n == Len(answers) - 1
<1>1. /\ answers \in Seq(Answers) /\ Len(answers) \in Nat /\ n \in Nat
      /\ DOMAIN answers = 1 .. Len(answers) /\ i \in 1 .. Len(answers)
  BY DEF NetOK
<1>2. ASSUME NEW j \in 1 .. n
      PROVE  /\ answers[j] \in Answers /\ answers[j + 1] \in Answers
             /\ [answers[j] EXCEPT !.old = TRUE] \in Answers
             /\ [answers[j] EXCEPT !.old = TRUE].rows = answers[j].rows
             /\ [answers[j] EXCEPT !.old = TRUE].old = TRUE
  <2>1. answers[j] \in Answers /\ answers[j + 1] \in Answers
    BY <1>1
  <2> DEFINE r == answers[j]
  <2> HIDE DEF r
  <2>2. r \in Answers
    BY <2>1 DEF r
  <2>3. /\ [r EXCEPT !.old = TRUE] \in Answers /\ [r EXCEPT !.old = TRUE].rows = r.rows
        /\ [r EXCEPT !.old = TRUE].old = TRUE
    BY <2>2 DEF Answers
  <2> QED
    BY <2>1, <2>3 DEF r
<1> DEFINE e(j) == [answers[j] EXCEPT !.old = TRUE]
<1>3. Answered(i) = [j \in 1 .. n |-> IF j < i THEN e(j) ELSE answers[j + 1]]
  BY DEF Answered
<1>4. \A j \in 1 .. n : /\ answers[j + 1] \in Answers /\ e(j) \in Answers
                        /\ e(j).rows = answers[j].rows /\ e(j).old = TRUE
  BY <1>2
<1> HIDE DEF n, e
<1>5. Answered(i) \in [1 .. n -> Answers]
  BY <1>3, <1>4
<1>6. /\ Answered(i) \in Seq(Answers) /\ Len(Answered(i)) = n /\ DOMAIN Answered(i) = 1 .. n
  <2> DEFINE s == Answered(i)
  <2> HIDE DEF s
  <2>1. s \in [1 .. n -> Answers]
    BY <1>5 DEF s
  <2>2. s \in Seq(Answers) /\ Len(s) = n /\ DOMAIN s = 1 .. n
    BY <1>1, <2>1
  <2> QED
    BY <2>2 DEF s
<1>7. \A j \in 1 .. n : Answered(i)[j] = IF j < i THEN e(j) ELSE answers[j + 1]
  BY <1>3
<1> QED
  BY <1>4, <1>6, <1>7 DEF n

LEMMA RenderFacts ==
  ASSUME ScreenOK, NEW list, Render(list)
  PROVE  /\ board' = list /\ expanded' = {}
         /\ \E kept, gap :
               /\ pressed' = pressed \cap kept /\ hidden' = hidden \cap kept
               /\ left' = left \cap kept
               /\ drag' = [drag EXCEPT !.live = @ /\ drag.task \in kept, !.gap = gap]
               /\ \/ /\ gap = drag.gap
                     /\ \/ drag.task = NoTask \/ drag.gap = Beside
                        \/ Shown(drag.col) = Visible(list[drag.col], drag.col, {})
                  \/ /\ drag.task # NoTask
                     /\ gap \in 0 .. Len(Visible(list[drag.col], drag.col, {}))
<1> DEFINE after(c) == Visible(list[c], c, {})
           kept     == {t \in Tasks : \E c \in Cols :
                           t \in Elements(Shown(c)) /\ t \in Elements(after(c))}
           places   == IF drag.task = NoTask \/ drag.gap = Beside THEN {drag.gap}
                       ELSE IF Shown(drag.col) = after(drag.col) THEN {drag.gap}
                       ELSE 0 .. Len(after(drag.col))
<1>1. /\ board' = list /\ expanded' = {}
      /\ pressed' = pressed \cap kept /\ hidden' = hidden \cap kept /\ left' = left \cap kept
      /\ \E gap \in places :
            drag' = [drag EXCEPT !.live = @ /\ drag.task \in kept, !.gap = gap]
  BY DEF Render
<1>2. PICK gap \in places :
         drag' = [drag EXCEPT !.live = @ /\ drag.task \in kept, !.gap = gap]
  BY <1>1
<1>3. \/ /\ gap = drag.gap
         /\ \/ drag.task = NoTask \/ drag.gap = Beside
            \/ Shown(drag.col) = after(drag.col)
      \/ drag.task # NoTask /\ gap \in 0 .. Len(after(drag.col))
  BY <1>2
<1> HIDE DEF kept, places
<1> QED
  BY <1>1, <1>2, <1>3

(* What a rendered list makes of a drag.                                   *)
LEMMA RenderedDrag ==
  ASSUME ScreenOK, NEW kept, NEW gap \in Beside .. Cardinality(Tasks),
         drag' = [drag EXCEPT !.live = @ /\ drag.task \in kept, !.gap = gap],
         drag.task = NoTask => gap = drag.gap
  PROVE  /\ drag' \in Drags
         /\ drag'.task = drag.task /\ drag'.col = drag.col /\ drag'.zone = drag.zone
         /\ drag'.gap = gap
         /\ drag'.live = (drag.live /\ drag.task \in kept)
         /\ drag.task = NoTask => drag' = NoDrag
         /\ Held' = Held
<1>1. drag \in Drags /\ (drag.task = NoTask => drag = NoDrag)
  BY DEF ScreenOK
<1> DEFINE live == drag.live /\ drag.task \in kept
<1>2. live \in BOOLEAN
  OBVIOUS
<1>3. drag' = [drag EXCEPT !.live = live, !.gap = gap]
  OBVIOUS
<1>4. drag.task = NoTask => live = FALSE
  BY <1>1, NoDragFacts
<1> HIDE DEF live
<1>5. /\ drag' \in Drags
      /\ drag'.task = drag.task /\ drag'.col = drag.col /\ drag'.zone = drag.zone
      /\ drag'.gap = gap /\ drag'.live = live
  BY <1>1, <1>2, <1>3 DEF Drags
<1>6. drag.task = NoTask => drag' = NoDrag
  BY <1>1, <1>3, <1>4, NoDragFacts DEF NoDrag
<1>7. Held' = Held
  BY <1>1, <1>5, <1>6, NoDragFacts DEF Held
<1> QED
  BY <1>5, <1>6, <1>7 DEF live

LEMMA ListedStep ==
  ASSUME TypeInv, NEW i \in 1 .. MaxGets, Listed(i)
  PROVE  TypeInv'
<1>1. /\ TableOK /\ ScreenOK /\ PostsOK /\ NetOK /\ Counted
      /\ UNCHANGED <<table, view, posts, news, asks, turns, unseen>>
      /\ i \in DOMAIN answers /\ answers' = Answered(i) /\ overtaken' = answers[i].old
      /\ Render(answers[i].rows)
  BY DEF TypeInv, Listed
<1> DEFINE list == answers[i].rows
<1>2. /\ answers \in Seq(Answers) /\ Len(answers) \in Nat /\ DOMAIN answers = 1 .. Len(answers)
      /\ asks \in Nat /\ MaxGets \in Nat /\ asks + Len(answers) <= MaxGets
      /\ \A j \in DOMAIN answers : IsList(answers[j].rows)
  BY <1>1, LimitAssumption DEF NetOK
<1>3. /\ answers' \in Seq(Answers) /\ Len(answers') = Len(answers) - 1
      /\ DOMAIN answers' = 1 .. Len(answers) - 1
      /\ \A j \in DOMAIN answers' : \E k \in DOMAIN answers : answers'[j].rows = answers[k].rows
  <2>1. /\ answers' \in Seq(Answers) /\ Len(answers') = Len(answers) - 1
        /\ DOMAIN answers' = 1 .. Len(answers) - 1
        /\ \A j \in 1 .. Len(answers) - 1 :
              \/ answers'[j].rows = answers[j].rows
              \/ answers'[j].rows = answers[j + 1].rows
    BY <1>1, AnsweredFacts
  <2>2. \A j \in 1 .. Len(answers) - 1 : j \in DOMAIN answers /\ j + 1 \in DOMAIN answers
    BY <1>2
  <2> QED
    BY <2>1, <2>2
<1>4. NetOK'
  <2>1. asks' \in Nat /\ asks' + Len(answers') <= MaxGets
    BY <1>1, <1>2, <1>3
  <2>2. \A j \in DOMAIN answers' : IsList(answers'[j].rows)
    BY <1>2, <1>3
  <2>3. overtaken' \in BOOLEAN
    <3>1. answers[i] \in Answers
      BY <1>1, <1>2
    <3> QED
      BY <1>1, <3>1 DEF Answers
  <2>4. unseen' \in BOOLEAN
    BY <1>1 DEF NetOK
  <2> QED
    BY <1>3, <2>1, <2>2, <2>3, <2>4 DEF NetOK
<1>5. IsList(list)
  BY <1>1, <1>2
<1> HIDE DEF list
<1>6. Render(list)
  BY <1>1 DEF list
<1>7. /\ board' = list /\ expanded' = {}
      /\ \A c : Shown(c)' = Visible(list[c], c, {})
  <2>1. board' = list /\ expanded' = {}
    BY <1>1, <1>6, RenderFacts
  <2> QED
    BY <1>1, <2>1 DEF Shown, Visible
<1>8. PICK kept, gap :
         /\ pressed' = pressed \cap kept /\ hidden' = hidden \cap kept
         /\ left' = left \cap kept
         /\ drag' = [drag EXCEPT !.live = @ /\ drag.task \in kept, !.gap = gap]
         /\ \/ /\ gap = drag.gap
               /\ \/ drag.task = NoTask \/ drag.gap = Beside
                  \/ Shown(drag.col) = Visible(list[drag.col], drag.col, {})
            \/ /\ drag.task # NoTask
               /\ gap \in 0 .. Len(Visible(list[drag.col], drag.col, {}))
  BY <1>1, <1>6, RenderFacts
<1>9. drag.task # NoTask => /\ drag.col \in Cols
                            /\ drag.gap <= Len(Shown(drag.col))
                            /\ Len(Visible(list[drag.col], drag.col, {})) \in 0 .. Cardinality(Tasks)
  BY <1>1, <1>5, VisibleFacts DEF ScreenOK
<1>10. Cardinality(Tasks) \in Nat /\ drag.gap \in Beside .. Cardinality(Tasks)
  BY <1>1, TasksAssumption, FS_CardinalityType DEF ScreenOK, Drags
<1>11. /\ gap \in Beside .. Cardinality(Tasks)
       /\ drag.task = NoTask => gap = drag.gap
       /\ drag.task # NoTask => gap <= Len(Visible(list[drag.col], drag.col, {}))
  <2>1. CASE gap = drag.gap /\ (drag.task = NoTask \/ drag.gap = Beside)
    BY <1>9, <1>10, <2>1 DEF Beside
  <2>2. CASE gap = drag.gap /\ Shown(drag.col) = Visible(list[drag.col], drag.col, {})
    BY <1>9, <1>10, <2>2
  <2>3. CASE drag.task # NoTask /\ gap \in 0 .. Len(Visible(list[drag.col], drag.col, {}))
    BY <1>9, <1>10, <2>3 DEF Beside
  <2> QED
    BY <1>8, <2>1, <2>2, <2>3
<1>12. /\ drag' \in Drags
       /\ drag'.task = drag.task /\ drag'.col = drag.col /\ drag'.zone = drag.zone
       /\ drag'.gap = gap
       /\ drag.task = NoTask => drag' = NoDrag
       /\ Held' = Held
  BY <1>1, <1>8, <1>11, RenderedDrag
<1>13. ScreenOK'
  <2>1. drag'.zone # NoTask => drag'.zone = drag'.col
    BY <1>1, <1>12 DEF ScreenOK
  <2>2. /\ pressed' \subseteq Tasks /\ hidden' \subseteq Tasks /\ left' \subseteq Tasks
        /\ view' \in Views
    BY <1>1, <1>8 DEF ScreenOK
  <2>3. IF drag'.task = NoTask THEN drag' = NoDrag
        ELSE drag'.col \in Cols /\ drag'.gap <= Len(Visible(board'[drag'.col], drag'.col, {}))
    BY <1>7, <1>9, <1>11, <1>12
  <2>4. \A c : Shown(c)' = Visible(board'[c], c, {})
    BY <1>7
  <2> QED
    BY <1>5, <1>7, <1>12, <2>1, <2>2, <2>3, <2>4 DEF ScreenOK
<1>14. TableOK' /\ PostsOK' /\ Sent' = Sent
  BY <1>1, TableKept, PostsKept
<1>15. Counted'
  <2>1. /\ IsFiniteSet(pressed) /\ Cardinality(pressed) \in Nat
        /\ IsFiniteSet(Sent) /\ Cardinality(Sent) \in Nat
        /\ news \in Nat /\ turns \in Nat /\ turns <= MaxTurns /\ Held \in {0, 1}
    BY <1>1, CountedFacts
  <2>2. /\ Cardinality(pressed)' \in Nat /\ Cardinality(pressed)' <= Cardinality(pressed)
    <3>1. pressed' \subseteq pressed
      BY <1>8
    <3> QED
      BY <2>1, <3>1, FS_Subset, FS_CardinalityType
  <2>3. /\ news' = news /\ turns' = turns /\ Cardinality(Sent)' = Cardinality(Sent)
        /\ IsFiniteSet(Sent)'
    BY <1>1, <1>14, <2>1
  <2>4. news + Cardinality(Sent) + Cardinality(pressed)' + Held'
            - (news + Cardinality(Sent) + Cardinality(pressed) + Held) <= turns - turns
    BY <1>12, <2>1, <2>2
  <2> QED
    BY <1>1, <2>1, <2>2, <2>3, <2>4, CountedStep
<1> QED
  BY <1>4, <1>13, <1>14, <1>15 DEF TypeInv

-----------------------------------------------------------------------------
(* Types.                                                                  *)

LEMMA InitTyped ==
  ASSUME Init
  PROVE  TypeInv
<1>1. TableOK
  <2>1. PICK place \in [Tasks -> 1 .. Cardinality(Tasks)] :
           position = [t \in Tasks |-> Step * place[t]]
    BY DEF Init
  <2>2. /\ Cardinality(Tasks) \in Nat /\ Step \in Nat /\ Room \in Nat
        /\ Room >= Step * (Cardinality(Tasks) + 1)
    BY TasksAssumption, StepAssumption, BoundAssumption, FS_CardinalityType
  <2>3. ASSUME NEW k \in 1 .. Cardinality(Tasks)
        PROVE  Step * k \in -Room .. Room
    <3>1. 0 * Step <= k * Step /\ k * Step <= (Cardinality(Tasks) + 1) * Step
      <4>1. /\ 0 \in Int /\ k \in Int /\ Cardinality(Tasks) + 1 \in Int
            /\ 0 <= k /\ k <= Cardinality(Tasks) + 1
        BY <2>2
      <4> QED
        BY <2>2, <4>1, Rows!Scaled
    <3> QED
      BY <2>2, <3>1
  <2>4. position \in [Tasks -> -Room .. Room]
    BY <2>1, <2>3
  <2> QED
    BY <2>4 DEF Init, TableOK, Table!TypeOK
<1>2. ScreenOK
  BY <1>1, ListsAreLists, NoDragFacts DEF Init, ScreenOK
<1>3. PostsOK /\ Sent = {}
  BY NoDropFacts DEF Init, PostsOK, Sent
<1>4. NetOK
  <2>1. answers = <<>> /\ asks = 0 /\ unseen \in BOOLEAN /\ overtaken \in BOOLEAN
    BY DEF Init
  <2>2. answers \in Seq(Answers) /\ Len(answers) = 0 /\ DOMAIN answers = {}
    BY <2>1
  <2> QED
    BY <2>1, <2>2, LimitAssumption DEF NetOK
<1>5. Counted
  <2>1. Cardinality(Sent) = 0 /\ IsFiniteSet(Sent) /\ Cardinality(pressed) = 0 /\ Held = 0
    BY <1>3, FS_EmptySet DEF Init, Held
  <2> QED
    BY <2>1, LimitAssumption DEF Init, Counted
<1> QED
  BY <1>1, <1>2, <1>3, <1>4, <1>5 DEF TypeInv

LEMMA TypeStep == TypeInv /\ [Next]_vars => TypeInv'
<1> SUFFICES ASSUME TypeInv, [Next]_vars
             PROVE  TypeInv'
  OBVIOUS
<1>1. CASE UNCHANGED vars
  <2>1. /\ TableOK /\ ScreenOK /\ PostsOK /\ NetOK /\ Counted
        /\ UNCHANGED <<table, screen, posts, asks, answers, news, turns, left, unseen, overtaken>>
    BY <1>1 DEF TypeInv, vars, net
  <2>2. ScreenOK' /\ PostsOK' /\ Counted'
    BY <2>1, NewsStep
  <2> QED
    BY <2>1, <2>2, TableKept, NetKept DEF TypeInv
<1>2. ASSUME NEW t \in Tasks, CardPointerDown(t) \/ ItemPointerDown(t) \/ Start(t) \/ Other(t)
      PROVE  TypeInv'
  BY <1>2, PressStep, StartStep, OtherStep DEF CardPointerDown, ItemPointerDown
<1>3. ASSUME NEW c \in Cols, MovePanel(c) \/ MoveTab(c) \/ ShowMore(c)
      PROVE  TypeInv'
  BY <1>3, MovePanelStep, MoveTabStep, ShowMoreStep
<1>4. ASSUME NEW c \in Cols, NEW item \in Tasks \cup {NoTask}, Move(c, item)
      PROVE  TypeInv'
  BY <1>4, MoveStep
<1>5. CASE Release \/ Cancel
  BY <1>5, ReleaseStep, CancelStep
<1>6. ASSUME NEW p \in Posts, Transition(p) \/ Dropped(p)
      PROVE  TypeInv'
  BY <1>6, TransitionStep, DroppedStep
<1>7. CASE Notice \/ LoseNotice \/ ListTasks \/ ListFails
  BY <1>7, NoticeStep, LoseNoticeStep, ListTasksStep, ListFailsStep
<1>8. ASSUME NEW i \in 1 .. MaxGets, Listed(i)
      PROVE  TypeInv'
  BY <1>8, ListedStep
<1> QED
  BY <1>1, <1>2, <1>3, <1>4, <1>5, <1>6, <1>7, <1>8 DEF Next

LEMMA Typed == Spec => []TypeInv
<1>1. Init => TypeInv
  BY InitTyped
<1> QED
  BY <1>1, TypeStep, PTL DEF Spec

LEMMA TypeHolds == TypeInv => TypeOK
<1> SUFFICES ASSUME TypeInv
             PROVE  TypeOK
  OBVIOUS
<1>1. TableOK /\ ScreenOK /\ PostsOK /\ NetOK /\ Counted
  BY DEF TypeInv
<1>2. news \in 0 .. MaxTurns
  <2>1. /\ news \in Nat /\ Cardinality(Sent) \in Nat /\ Cardinality(pressed) \in Nat
        /\ Held \in {0, 1} /\ turns \in Nat /\ MaxTurns \in Nat /\ turns <= MaxTurns
        /\ news + Cardinality(Sent) + Cardinality(pressed) + Held <= turns
    BY <1>1, CountedFacts
  <2> QED
    BY <2>1
<1>3. drag # NoDrag => drag.gap <= Len(Shown(drag.col))
  BY <1>1 DEF ScreenOK
<1> QED
  BY <1>1, <1>2, <1>3 DEF TypeOK, TableOK, ScreenOK, PostsOK, NetOK

(* The types, of any number of pointers, drops, lists and messages: in     *)
(* every list that is shown or under way each card stands once, and no     *)
(* placeholder leaves its column's list.                                   *)
THEOREM TypeCorrect == Spec => []TypeOK
<1> QED
  BY Typed, TypeHolds, PTL

-----------------------------------------------------------------------------
(* Hidden cards.                                                           *)

LEMMA HiddenStep == TypeInv /\ HiddenInv /\ [Next]_vars => HiddenInv'
<1> SUFFICES ASSUME TypeInv, HiddenInv, [Next]_vars
             PROVE  HiddenInv'
  OBVIOUS
<1>1. /\ hidden = (IF drag.live THEN {drag.task} ELSE {}) \cup left
      /\ drag.live => drag.task \notin left
      /\ drag.live \in BOOLEAN
  BY DEF HiddenInv, OnlyDraggedHidden, TypeInv, ScreenOK, Drags
<1>2. CASE UNCHANGED <<drag, hidden, left>>
  BY <1>1, <1>2 DEF HiddenInv, OnlyDraggedHidden
<1>3. ASSUME NEW t \in Tasks, Start(t)
      PROVE  HiddenInv'
  <2>1. /\ hidden' = hidden \cup {t}
        /\ left' = (IF drag.live THEN left \cup {drag.task} ELSE left) \ {t}
        /\ drag'.task = t /\ drag'.live = TRUE
    BY <1>3 DEF Start
  <2> QED
    BY <1>1, <2>1 DEF HiddenInv, OnlyDraggedHidden
<1>4. ASSUME NEW c, NEW gap, PlaceAt(c, gap)
      PROVE  HiddenInv'
  <2>1. UNCHANGED <<hidden, left>> /\ drag' = [drag EXCEPT !.zone = c, !.col = c, !.gap = gap]
    BY <1>4 DEF PlaceAt
  <2>2. drag \in Drags
    BY DEF TypeInv, ScreenOK
  <2>3. drag'.task = drag.task /\ drag'.live = drag.live
    BY <2>1, <2>2 DEF Drags
  <2> QED
    BY <1>1, <2>1, <2>3 DEF HiddenInv, OnlyDraggedHidden
<1>5. CASE Release
  <2>1. drag' = NoDrag /\ NoDrag.live = FALSE
    BY <1>5, ReleaseFacts, NoDragFacts
  <2>2. hidden' = left'
    BY <1>1, <1>5, ReleaseFacts, NoDragFacts DEF Restored
  <2> QED
    BY <2>1, <2>2 DEF HiddenInv, OnlyDraggedHidden
<1>6. CASE Cancel
  <2>1. drag' = NoDrag /\ NoDrag.live = FALSE /\ hidden' = Restored(hidden) /\ left' = left
    BY <1>6, NoDragFacts DEF Cancel
  <2> QED
    BY <1>1, <2>1 DEF HiddenInv, OnlyDraggedHidden, Restored
<1>7. ASSUME NEW i \in 1 .. MaxGets, Listed(i)
      PROVE  HiddenInv'
  <2>1. ScreenOK /\ Render(answers[i].rows)
    BY <1>7 DEF TypeInv, Listed
  <2>2. PICK kept, gap :
           /\ hidden' = hidden \cap kept /\ left' = left \cap kept
           /\ drag' = [drag EXCEPT !.live = @ /\ drag.task \in kept, !.gap = gap]
    BY <2>1, RenderFacts
  <2>3. drag \in Drags
    BY <2>1 DEF ScreenOK
  <2> DEFINE live == drag.live /\ drag.task \in kept
  <2>4. drag' = [drag EXCEPT !.live = live, !.gap = gap]
    BY <2>2
  <2> HIDE DEF live
  <2>5. drag'.task = drag.task /\ drag'.live = live
    BY <2>3, <2>4 DEF Drags
  <2>6. hidden' = (IF live THEN {drag.task} ELSE {}) \cup left'
    BY <1>1, <2>2 DEF live
  <2>7. live => drag.task \notin left'
    BY <1>1, <2>2 DEF live
  <2> QED
    BY <2>5, <2>6, <2>7 DEF HiddenInv, OnlyDraggedHidden
<1>8. ASSUME NEW t \in Tasks, CardPointerDown(t) \/ ItemPointerDown(t) \/ Other(t)
      PROVE  UNCHANGED <<drag, hidden, left>>
  BY <1>8 DEF CardPointerDown, ItemPointerDown, Press, Other, screen
<1>9. ASSUME NEW p \in Posts, Transition(p) \/ Dropped(p)
      PROVE  UNCHANGED <<drag, hidden, left>>
  BY <1>9 DEF Transition, Dropped, screen
<1>10. Notice \/ LoseNotice \/ ListTasks \/ ListFails => UNCHANGED <<drag, hidden, left>>
  BY DEF Notice, LoseNotice, ListTasks, ListFails, screen
<1>11. ASSUME NEW c, NEW item, MovePanel(c) \/ MoveTab(c) \/ Move(c, item)
       PROVE  \E gap : PlaceAt(c, gap)
  BY <1>11 DEF MovePanel, MoveTab, Move
<1>12. \A c : ShowMore(c) => UNCHANGED <<drag, hidden, left>>
  BY DEF ShowMore
<1>13. UNCHANGED vars => UNCHANGED <<drag, hidden, left>>
  BY DEF vars, screen
<1> QED
  BY <1>2, <1>3, <1>4, <1>5, <1>6, <1>7, <1>8, <1>9, <1>10, <1>11, <1>12, <1>13 DEF Next

(* A card is off the screen only while it is dragged, or when a drag left  *)
(* it so: for any number of pointers, and whatever lists are rendered      *)
(* during a drag.                                                          *)
THEOREM HiddenCorrect == Spec => []OnlyDraggedHidden
<1>1. Init => HiddenInv
  BY NoDragFacts DEF Init, HiddenInv, OnlyDraggedHidden
<1>2. HiddenInv => OnlyDraggedHidden
  BY DEF HiddenInv
<1> QED
  BY <1>1, <1>2, Typed, HiddenStep, PTL DEF Spec

-----------------------------------------------------------------------------
(* The board and the table.                                                *)

LEMMA ListsKept == UNCHANGED table => Lists' = Lists
BY DEF table, Lists, Table!Neighbours, Table!Column

LEMMA NewestKept ==
  ASSUME Newest, UNCHANGED answers,
         \/ news' # 0 \/ asks' # 0 \/ unseen'
         \/ UNCHANGED <<table, board, news, asks, unseen, overtaken>>
  PROVE  Newest'
<1>1. CASE news' # 0 \/ asks' # 0 \/ unseen'
  BY <1>1 DEF Newest
<1>2. CASE UNCHANGED <<table, board, news, asks, unseen, overtaken>>
  BY <1>2, ListsKept DEF Newest
<1> QED
  BY <1>1, <1>2

LEMMA ListTasksNewest ==
  ASSUME TypeInv, Newest, ListTasks
  PROVE  Newest'
<1>1. UNCHANGED <<table, board, news, overtaken>>
  BY DEF ListTasks, screen
<1>2. PICK l \in Lists : answers' = Append(answers, [rows |-> l, old |-> FALSE])
  BY DEF ListTasks
<1> DEFINE r == [rows |-> l, old |-> FALSE]
           n == Len(answers)
<1>3. answers \in Seq(Answers) /\ n \in Nat
  BY DEF TypeInv, NetOK
<1>4. r.rows = l /\ r.old = FALSE
  OBVIOUS
<1> HIDE DEF r
<1>5. /\ Len(answers') = n + 1 /\ DOMAIN answers' = 1 .. n + 1 /\ DOMAIN answers = 1 .. n
      /\ answers'[n + 1] = r /\ answers' # <<>>
      /\ \A j \in 1 .. n : answers'[j] = answers[j]
  <2>1. answers' = Append(answers, r)
    BY <1>2 DEF r
  <2> QED
    BY <1>3, <2>1
<1> HIDE DEF n
<1>6. ASSUME NEW j \in DOMAIN answers', NEW k \in DOMAIN answers', j < k, answers'[k].old
      PROVE  answers'[j].old
  <2>1. k # n + 1
    BY <1>4, <1>5, <1>6
  <2>2. j \in 1 .. n /\ k \in 1 .. n
    BY <1>3, <1>5, <1>6, <2>1
  <2> QED
    BY <1>5, <1>6, <2>2 DEF Newest
<1>7. answers'[Len(answers')].rows \in Lists' /\ ~answers'[Len(answers')].old
  BY <1>1, <1>2, <1>4, <1>5, ListsKept
<1> QED
  BY <1>5, <1>6, <1>7 DEF Newest

LEMMA ListedNewest ==
  ASSUME TypeInv, Newest, NEW i \in 1 .. MaxGets, Listed(i)
  PROVE  Newest'
<1>1. /\ UNCHANGED <<table, news, asks, unseen>>
      /\ i \in DOMAIN answers /\ answers' = Answered(i) /\ overtaken' = answers[i].old
      /\ board' = answers[i].rows
  BY DEF Listed, Render
<1> DEFINE n == Len(answers)
<1>2. answers \in Seq(Answers) /\ n \in Nat /\ DOMAIN answers = 1 .. n /\ i \in 1 .. n
  BY <1>1 DEF TypeInv, NetOK
<1>3. /\ Len(answers') = n - 1 /\ DOMAIN answers' = 1 .. n - 1
      /\ answers' \in Seq(Answers)
      /\ \A j \in 1 .. n - 1 : j < i => answers'[j].old = TRUE
      /\ \A j \in 1 .. n - 1 : ~(j < i) => answers'[j] = answers[j + 1]
  BY <1>1, AnsweredFacts DEF TypeInv
<1> HIDE DEF n
<1>4. ASSUME NEW j \in 1 .. n - 1, NEW k \in 1 .. n - 1, j < k, answers'[k].old
      PROVE  answers'[j].old
  <2>1. CASE j < i
    BY <1>3, <2>1
  <2>2. CASE ~(j < i)
    <3>1. ~(k < i) /\ j + 1 \in 1 .. n /\ k + 1 \in 1 .. n /\ j + 1 < k + 1
      BY <1>2, <1>4, <2>2
    <3>2. answers[k + 1].old
      BY <1>3, <1>4, <3>1
    <3>3. answers[j + 1].old
      BY <1>2, <3>1, <3>2 DEF Newest
    <3> QED
      BY <1>3, <2>2, <3>3
  <2> QED
    BY <2>1, <2>2
<1>5. ASSUME news' = 0, asks' = 0, ~unseen'
      PROVE  IF answers' # <<>> /\ ~answers'[Len(answers')].old
             THEN answers'[Len(answers')].rows \in Lists'
             ELSE board' \in Lists' \/ overtaken'
  <2>1. answers # <<>> /\ Lists' = Lists
    BY <1>1, ListsKept
  <2>2. ~answers[n].old => answers[n].rows \in Lists
    BY <1>1, <1>5, <2>1 DEF Newest, n
  <2>3. CASE i = n
    <3>1. answers' # <<>> => answers'[Len(answers')].old
      <4> SUFFICES ASSUME answers' # <<>>
                   PROVE  answers'[Len(answers')].old
        OBVIOUS
      <4>1. Len(answers') # 0
        BY <1>3
      <4>2. n - 1 \in 1 .. n - 1 /\ n - 1 < i
        BY <1>2, <1>3, <2>3, <4>1
      <4> QED
        BY <1>3, <4>2
    <3>2. board' \in Lists' \/ overtaken'
      BY <1>1, <2>1, <2>2, <2>3
    <3> QED
      BY <3>1, <3>2
  <2>4. CASE i # n
    <3>1. n - 1 \in 1 .. n - 1 /\ ~(n - 1 < i) /\ (n - 1) + 1 = n /\ i < n
      BY <1>2, <2>4
    <3>2. answers'[Len(answers')] = answers[n]
      BY <1>3, <3>1
    <3>3. answers[n].old => overtaken'
      BY <1>1, <1>2, <3>1 DEF Newest
    <3>4. answers' # <<>>
      BY <1>3, <3>1
    <3> QED
      BY <2>1, <2>2, <3>2, <3>3, <3>4
  <2> QED
    BY <2>3, <2>4
<1> QED
  BY <1>3, <1>4, <1>5 DEF Newest

LEMMA NewestStep == TypeInv /\ Newest /\ [Next]_vars => Newest'
<1> SUFFICES ASSUME TypeInv, Newest, [Next]_vars
             PROVE  Newest'
  OBVIOUS
<1>1. TableOK /\ PostsOK /\ news \in Nat /\ asks \in Nat
  BY DEF TypeInv, Counted, NetOK
<1>2. CASE UNCHANGED vars
  BY <1>2, NewestKept DEF vars, screen, net
<1>3. ASSUME NEW t \in Tasks, CardPointerDown(t) \/ ItemPointerDown(t) \/ Start(t)
      PROVE  Newest'
  BY <1>3, NewestKept DEF CardPointerDown, ItemPointerDown, Press, Start, net
<1>4. ASSUME NEW t \in Tasks, Other(t)
      PROVE  Newest'
  <2>1. news' # 0 /\ answers' = answers
    BY <1>1, <1>4 DEF Other, Publish
  <2> QED
    BY <2>1, NewestKept
<1>5. ASSUME NEW c, NEW item, MovePanel(c) \/ MoveTab(c) \/ Move(c, item)
      PROVE  Newest'
  BY <1>5, NewestKept DEF MovePanel, MoveTab, Move, PlaceAt, net
<1>6. ASSUME NEW c, ShowMore(c)
      PROVE  Newest'
  BY <1>6, NewestKept DEF ShowMore, net
<1>7. CASE Release
  BY <1>7, NewestKept DEF Release, net
<1>8. CASE Cancel
  BY <1>8, NewestKept DEF Cancel, net
<1>9. ASSUME NEW p \in Posts, Transition(p)
      PROVE  Newest'
  <2>1. UNCHANGED <<board, answers, asks, unseen, overtaken>> /\ posts[p].stage = "sent"
    BY <1>9 DEF Transition, screen
  <2>2. (UNCHANGED table /\ news' = news) \/ news' = news + 1
    BY <1>1, <1>9, <2>1, TransitionFacts, HandleFacts
  <2>3. news' # 0 \/ UNCHANGED <<table, news>>
    BY <1>1, <2>2
  <2> QED
    BY <2>1, <2>3, NewestKept
<1>10. ASSUME NEW p \in Posts, Dropped(p)
       PROVE  Newest'
  <2>1. answers' = answers /\ asks' = asks + 1
    BY <1>10 DEF Dropped, Refresh
  <2> QED
    BY <1>1, <2>1, NewestKept
<1>11. CASE Notice
  <2>1. answers' = answers /\ asks' = asks + 1
    BY <1>11 DEF Notice, Refresh
  <2> QED
    BY <1>1, <2>1, NewestKept
<1>12. CASE LoseNotice \/ ListFails
  BY <1>12, NewestKept DEF LoseNotice, ListFails
<1>13. CASE ListTasks
  BY <1>13, ListTasksNewest
<1>14. ASSUME NEW i \in 1 .. MaxGets, Listed(i)
       PROVE  Newest'
  BY <1>14, ListedNewest
<1> QED
  BY <1>2, <1>3, <1>4, <1>5, <1>6, <1>7, <1>8, <1>9, <1>10, <1>11, <1>12, <1>13, <1>14 DEF Next

(* When nothing is under way the board shows the table, for any number of  *)
(* drops, messages and lists that have crossed, unless the last message or *)
(* list was lost or an older answer came after a newer one.                *)
THEOREM CatchUpCorrect == Spec => []BoardCatchesUp
<1>1. Init => Newest
  <2> SUFFICES ASSUME Init
               PROVE  Newest
    OBVIOUS
  <2>1. answers = <<>> /\ board \in Lists /\ DOMAIN answers = {}
    BY DEF Init
  <2> QED
    BY <2>1 DEF Newest
<1>2. Newest => BoardCatchesUp
  BY DEF Newest, BoardCatchesUp
<1> QED
  BY <1>1, <1>2, Typed, NewestStep, PTL DEF Spec

-----------------------------------------------------------------------------
(* Drops.                                                                  *)

LEMMA SeenKept ==
  ASSUME SeenInv, NEW p \in Posts, NEW d, posts \in [Posts -> Drops],
         posts' = [posts EXCEPT ![p] = d], Seen(d)
  PROVE  SeenInv'
BY DEF SeenInv

LEMMA SeenStep == TypeInv /\ SeenInv /\ [Next]_vars => SeenInv'
<1> SUFFICES ASSUME TypeInv, SeenInv, [Next]_vars
             PROVE  SeenInv'
  OBVIOUS
<1>1. posts \in [Posts -> Drops] /\ ScreenOK
  BY DEF TypeInv, PostsOK
<1>2. CASE UNCHANGED posts
  BY <1>2 DEF SeenInv
<1>3. CASE Release
  BY <1>1, <1>2, <1>3, ReleaseFacts, DropFacts, SeenKept
<1>4. ASSUME NEW p \in Posts, Transition(p)
      PROVE  SeenInv'
  <2>1. PICK how : posts' = [posts EXCEPT ![p] = [posts[p] EXCEPT !.stage = "done", !.how = how]]
    BY <1>4, TransitionFacts
  <2> DEFINE d == [posts[p] EXCEPT !.stage = "done", !.how = how]
  <2>2. posts[p] \in Drops /\ Seen(posts[p])
    BY <1>1 DEF SeenInv
  <2>3. /\ d.task = posts[p].task /\ d.after = posts[p].after /\ d.before = posts[p].before
        /\ d.up = posts[p].up /\ d.down = posts[p].down
    BY <2>2 DEF Drops
  <2> HIDE DEF d
  <2>4. Seen(d)
    BY <2>2, <2>3 DEF Seen
  <2>5. posts' = [posts EXCEPT ![p] = d]
    BY <2>1 DEF d
  <2> QED
    BY <1>1, <2>4, <2>5, SeenKept
<1>5. ASSUME NEW p \in Posts, Dropped(p)
      PROVE  SeenInv'
  <2>1. posts' = [posts EXCEPT ![p] = NoDrop] /\ Seen(NoDrop)
    BY <1>5, NoDropFacts DEF Dropped, Seen
  <2> QED
    BY <1>1, <2>1, SeenKept
<1>6. ASSUME NEW t \in Tasks, CardPointerDown(t) \/ ItemPointerDown(t) \/ Start(t) \/ Other(t)
      PROVE  UNCHANGED posts
  BY <1>6 DEF CardPointerDown, ItemPointerDown, Press, Start, Other
<1>7. ASSUME NEW c, NEW item, MovePanel(c) \/ MoveTab(c) \/ Move(c, item) \/ ShowMore(c)
      PROVE  UNCHANGED posts
  BY <1>7 DEF MovePanel, MoveTab, Move, PlaceAt, ShowMore
<1>8. Cancel \/ Notice \/ LoseNotice \/ ListTasks \/ ListFails => UNCHANGED posts
  BY DEF Cancel, Notice, LoseNotice, ListTasks, ListFails
<1>9. \A i : Listed(i) => UNCHANGED posts
  BY DEF Listed
<1>10. UNCHANGED vars => UNCHANGED posts
  BY DEF vars
<1> QED
  BY <1>2, <1>3, <1>4, <1>5, <1>6, <1>7, <1>8, <1>9, <1>10 DEF Next

(* Only the handler carries out a drop, and only its own.                  *)
LEMMA CommitFacts ==
  ASSUME TypeInv, [Next]_vars, NEW p \in Posts, Commits(p)
  PROVE  Transition(p)
<1>1. /\ posts[p].stage = "sent" /\ posts'[p].stage = "done" /\ posts \in [Posts -> Drops]
  BY DEF Commits, TypeInv, PostsOK
<1>2. posts' # posts
  BY <1>1
<1>3. ~Release
  <2> SUFFICES ASSUME Release
               PROVE  FALSE
    OBVIOUS
  <2>1. PICK q \in Posts : posts[q] = NoDrop /\ posts' = [posts EXCEPT ![q] = Drop]
                           /\ drag # NoDrag /\ drag.zone # NoTask
    BY <1>2, ReleaseFacts
  <2>2. Drop.stage = "sent"
    BY <2>1, DropFacts DEF TypeInv
  <2> QED
    BY <1>1, <2>1, <2>2
<1>4. ASSUME NEW q \in Posts, Dropped(q)
      PROVE  FALSE
  <2>1. posts' = [posts EXCEPT ![q] = NoDrop]
    BY <1>4 DEF Dropped
  <2> QED
    BY <1>1, <2>1, NoDropFacts
<1>5. ASSUME NEW q \in Posts, Transition(q)
      PROVE  q = p
  <2>1. PICK how : posts' = [posts EXCEPT ![q] = [posts[q] EXCEPT !.stage = "done", !.how = how]]
    BY <1>5, TransitionFacts
  <2> QED
    BY <1>1, <2>1
<1>6. ASSUME NEW t \in Tasks, CardPointerDown(t) \/ ItemPointerDown(t) \/ Start(t) \/ Other(t)
      PROVE  UNCHANGED posts
  BY <1>6 DEF CardPointerDown, ItemPointerDown, Press, Start, Other
<1>7. ASSUME NEW c, NEW item, MovePanel(c) \/ MoveTab(c) \/ Move(c, item) \/ ShowMore(c)
      PROVE  UNCHANGED posts
  BY <1>7 DEF MovePanel, MoveTab, Move, PlaceAt, ShowMore
<1>8. Cancel \/ Notice \/ LoseNotice \/ ListTasks \/ ListFails => UNCHANGED posts
  BY DEF Cancel, Notice, LoseNotice, ListTasks, ListFails
<1>9. \A i : Listed(i) => UNCHANGED posts
  BY DEF Listed
<1>10. UNCHANGED vars => UNCHANGED posts
  BY DEF vars
<1> QED
  BY <1>2, <1>3, <1>4, <1>5, <1>6, <1>7, <1>8, <1>9, <1>10 DEF Next

LEMMA LandsStep ==
  ASSUME TypeInv, SeenInv, [Next]_vars, NEW p \in Posts,
         Commits(p), posts'[p].how = "moved", NamesOther(posts[p])
  PROVE  Lands(posts[p])
<1> DEFINE d == posts[p]
           t == d.task
           s == d.to
<1>1. Transition(p) /\ TableOK /\ PostsOK /\ d.stage = "sent"
  BY CommitFacts DEF TypeInv, Commits
<1>2. Table!MoveTask(t, s, d.after, d.before)
  BY <1>1, TransitionFacts, HandleFacts
<1>3. /\ t \in Tasks /\ s \in Cols /\ Seen(d) /\ Table!TypeOK
      /\ d.after \in Tasks \cup {NoTask} /\ d.before \in Tasks \cup {NoTask}
  <2>1. d \in Drops
    BY <1>1, SentFacts
  <2> QED
    BY <1>1, <2>1, SentFacts DEF TableOK, SeenInv, Drops
<1>4. (d.task)' = t /\ (d.up)' = d.up /\ (d.down)' = d.down
  <2>1. PICK how : posts' = [posts EXCEPT ![p] = [posts[p] EXCEPT !.stage = "done", !.how = how]]
    BY <1>1, TransitionFacts
  <2>2. posts \in [Posts -> Drops] /\ posts[p] \in Drops
    BY <1>1 DEF PostsOK
  <2>3. posts'[p] = [posts[p] EXCEPT !.stage = "done", !.how = how]
    BY <2>1, <2>2
  <2> QED
    BY <2>2, <2>3 DEF Drops
<1>5. CASE d.after # NoTask
  <2>1. d.after # t /\ d.up = d.after /\ d.up \in Tasks /\ d.up # NoTask
    BY <1>3, <1>5 DEF NamesOther, Seen
  <2>2. Table!MoveTask(t, s, d.up, d.before) /\ d.up # t
    BY <1>2, <2>1
  <2>3. status[d.up] = s => Table!Adjacent(d.up, t)'
    BY <1>3, <1>4, <2>1, <2>2, Landed
  <2> QED
    BY <2>1, <2>3 DEF Lands
<1>6. CASE d.after = NoTask
  <2>1. d.before # t /\ d.before \in Tasks /\ d.up = NoTask /\ d.down = d.before
    BY <1>3, <1>6 DEF NamesOther, Seen
  <2>2. Table!MoveTask(t, s, NoTask, d.down) /\ d.down # t /\ d.down \in Tasks
    BY <1>2, <1>6, <2>1
  <2>3. status[d.down] = s => Table!Adjacent(t, d.down)'
    BY <1>3, <1>4, <2>2, Landed
  <2> QED
    BY <2>1, <2>3 DEF Lands
<1> QED
  BY <1>5, <1>6

(* A card that was moved next to a neighbour stands where its user saw the *)
(* placeholder, whatever was rendered and whoever moved cards meanwhile:   *)
(* the pointer, the request and MoveTask's gaps together.                  *)
THEOREM LandsCorrect == Spec => LandsBetween
<1>1. Init => SeenInv
  BY NoDropFacts DEF Init, SeenInv, Seen
<1>2. TypeInv /\ SeenInv /\ [Next]_vars =>
         [\A p \in Posts :
             Commits(p) /\ posts'[p].how = "moved" /\ NamesOther(posts[p]) => Lands(posts[p])]_vars
  BY LandsStep
<1> QED
  BY <1>1, <1>2, Typed, SeenStep, PTL DEF Spec, LandsBetween
=============================================================================

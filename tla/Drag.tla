-------------------------------- MODULE Drag --------------------------------
(***************************************************************************)
(* A card that is dragged, from the pointer to the table of tasks and back *)
(* to the board:                                                           *)
(*                                                                         *)
(*   - drag.js hides the card, moves a placeholder among the cards of the  *)
(*     columns, and on release names the cards next to the placeholder;    *)
(*   - POST .../transition starts an attempt, moves the card next to a     *)
(*     named neighbour, or transitions it, and publishes that it did;      *)
(*   - the browser then asks for the list of tasks again, as it does for   *)
(*     every message of the board's stream, and renders what it gets, also *)
(*     in the middle of a drag.                                            *)
(*                                                                         *)
(* The statements on the table are those of Columns. The view is the board *)
(* or the panels of the chat; it is not switched during a drag. The search *)
(* field, sounds and the floating clone are left out.                      *)
(*                                                                         *)
(* An operator whose comment begins with VARIANT is not used by the model: *)
(* it says what a wrong form of the operator after it would be.            *)
(***************************************************************************)
EXTENDS Integers, Sequences, FiniteSets, BoardTable

CONSTANTS
    Tasks,      \* task ids
    NoTask,     \* no id, and no column
    Step,       \* the distance of new neighbours, 1024 in the code
    Cols,       \* bound: the columns in use
    Room,       \* bound: positions stay between -Room and Room
    Views,      \* the views in use, of "board" and "chat"
    Limit,      \* the cards a column shows at first, 10 in the code
    Posts,      \* bound: the drops in flight at a time
    MaxGets,    \* bound: the lists in flight at a time
    MaxTurns    \* bound: pointers that go down, changes by others, and faults

ASSUME TasksAssumption == IsFiniteSet(Tasks) /\ NoTask \notin Tasks \cup TaskStatus
ASSUME StepAssumption  == Step \in Nat /\ Step >= 2
ASSUME BoundAssumption ==
    /\ Cols \subseteq TaskStatus
    /\ Room \in Nat
    /\ Room >= Step * (Cardinality(Tasks) + 1)
ASSUME ViewAssumption == Views \subseteq {"board", "chat"}
ASSUME LimitAssumption == Limit \in Nat /\ MaxGets \in Nat /\ MaxTurns \in Nat

VARIABLES
    status, position, \* the table of tasks
    view,       \* state.viewMode
    board,      \* state.tasks, by column
    expanded,   \* columns that show all their cards
    pressed,    \* cards with a pointer down that has not moved yet
    drag,       \* the state of drag.js, with the place of its placeholder
    hidden,     \* cards whose element is off the screen
    posts,      \* the drops in flight
    news,       \* messages of the board's stream in flight
    asks,       \* requests for the list that the server has not read yet
    answers,    \* lists on their way to the browser, in the order they were read
    turns,      \* bound: how many so far
    left,       \* ghost: cards a drag has left hidden
    unseen,     \* ghost: a message or a list was lost, and no list read since
    overtaken   \* ghost: the board shows an older list than it did before

table == <<status, position>>
screen == <<view, board, expanded, pressed, drag, hidden>>
net == <<news, asks, answers>>
vars == <<table, screen, net, posts, turns, left, unseen, overtaken>>

Table == INSTANCE Columns

NoDrag == [task |-> NoTask, live |-> FALSE, zone |-> NoTask, col |-> NoTask, gap |-> 0]

NoDrop == [stage |-> "free", task |-> NoTask, to |-> NoTask, after |-> NoTask,
           before |-> NoTask, up |-> NoTask, down |-> NoTask, how |-> ""]

(* The place of a placeholder that is in the column, but beside its cards. *)
Beside == -1

-----------------------------------------------------------------------------
(* The lists the server may answer with: the rows by status and position.  *)
Lists == {l \in [Cols -> UNION {Table!Neighbours(c, NoTask) : c \in Cols}] :
             \A c \in Cols : l[c] \in Table!Neighbours(c, NoTask)}

(* Column.visibleTasks; a panel of the chat shows all its tasks.           *)
Visible(list, c, open) ==
    IF view = "chat" \/ c \in open \/ Len(list) <= Limit THEN list
    ELSE SubSeq(list, 1, Limit)

Shown(c) == Visible(board[c], c, expanded)

Elements(s) == {s[i] : i \in DOMAIN s}

(* The card at place i of a list, if there is one.                         *)
At(list, i) == IF i \in DOMAIN list THEN list[i] ELSE NoTask

IndexOf(list, t) == CHOOSE i \in DOMAIN list : list[i] = t

(* The cards of a column among which move() looks for a place: not the     *)
(* dragged element.                                                        *)
IsSource(t) == drag.live /\ drag.task = t

Items(c) == {t \in Elements(Shown(c)) : ~IsSource(t)}

Init ==
    /\ status \in [Tasks -> Cols]
    /\ \E place \in [Tasks -> 1 .. Cardinality(Tasks)] :
           /\ \A s, t \in Tasks : place[s] = place[t] => s = t
           /\ position = [t \in Tasks |-> Step * place[t]]
    /\ view \in Views
    /\ board \in Lists
    /\ expanded = {} /\ pressed = {}
    /\ drag = NoDrag
    /\ hidden = {}
    /\ posts = [p \in Posts |-> NoDrop]
    /\ news = 0 /\ asks = 0 /\ answers = <<>>
    /\ turns = 0
    /\ left = {}
    /\ unseen = FALSE /\ overtaken = FALSE

-----------------------------------------------------------------------------
(* The pointer.                                                            *)

Press(t) ==
    /\ turns < MaxTurns
    /\ \E c \in Cols : t \in Elements(Shown(c))
    /\ t \notin hidden
    /\ pressed' = pressed \cup {t}
    /\ turns' = turns + 1
    /\ UNCHANGED <<table, view, board, expanded, drag, hidden, posts, net,
                   left, unseen, overtaken>>

(* onPointerDown of a card of the board: no other pointer is in its way.   *)
CardPointerDown(t) == view = "board" /\ Press(t)

(* onItemPointerDown of a task in a panel of the chat.                     *)
ItemPointerDown(t) == view = "chat" /\ Press(t)

(* start(), when a pressed pointer has moved far enough: the placeholder   *)
(* goes before the card. A drag that was under way is forgotten, with its  *)
(* card off the screen.                                                    *)
Start(t) ==
    /\ t \in pressed
    /\ \E c \in Cols :
           /\ t \in Elements(Shown(c))
           /\ drag' = [task |-> t, live |-> TRUE, zone |-> NoTask, col |-> c,
                       gap |-> IndexOf(Shown(c), t) - 1]
    /\ pressed' = pressed \ {t}
    /\ hidden' = hidden \cup {t}
    /\ left' = (IF drag.live THEN left \cup {drag.task} ELSE left) \ {t}
    /\ UNCHANGED <<table, view, board, expanded, posts, net, turns, unseen,
                   overtaken>>

PlaceAt(c, gap) ==
    /\ drag.task # NoTask
    /\ drag' = [drag EXCEPT !.zone = c, !.col = c, !.gap = gap]
    /\ UNCHANGED <<table, view, board, expanded, pressed, hidden, posts,
                   net, turns, left, unseen, overtaken>>

(* Where move() puts the placeholder: before the first card whose middle   *)
(* is below the pointer, or behind them all. That is among the children of *)
(* the column's drop zone, and the dragged element is one of them.         *)
GapBefore(c, item) ==
    IF item # NoTask THEN IndexOf(Shown(c), item) - 1
    ELSE IF Items(c) = {} THEN 0
    ELSE Len(Shown(c))

(* move() over a column.                                                   *)
Move(c, item) ==
    /\ view = "board"
    /\ item \in Items(c) \cup {NoTask}
    /\ PlaceAt(c, GapBefore(c, item))

(* move() over a panel of the chat. The cards are no children of the panel *)
(* itself, so insertBefore one of them throws and nothing has changed;     *)
(* below the cards the placeholder is appended to the panel.               *)
MovePanel(c) == view = "chat" /\ PlaceAt(c, Beside)

(* VARIANT: the placeholder is not moved.                                  *)
TabGapKept(c) == drag.gap

TabGap(c) == IF drag.col = c THEN drag.gap ELSE Len(Shown(c))

(* move() over the tab of a column, on a small screen.                     *)
MoveTab(c) == view = "board" /\ PlaceAt(c, TabGap(c))

(* nextItem and prevItem: the cards on both sides of the placeholder, the  *)
(* dragged one included.                                                   *)
NextItem == At(Shown(drag.zone), drag.gap + 1)
PrevItem == At(Shown(drag.zone), drag.gap)

(* What the user sees there: the cards that are not dragged.               *)
SeenAbove ==
    IF IsSource(PrevItem) THEN At(Shown(drag.zone), drag.gap - 1) ELSE PrevItem
SeenBelow ==
    IF IsSource(NextItem) THEN At(Shown(drag.zone), drag.gap + 2) ELSE NextItem

(* VARIANT: the neighbours change places.                                  *)
DropTurned ==
    [stage |-> "sent", task |-> drag.task, to |-> drag.zone, after |-> NextItem,
     before |-> PrevItem, up |-> SeenAbove, down |-> SeenBelow, how |-> ""]

Drop ==
    [stage |-> "sent", task |-> drag.task, to |-> drag.zone, after |-> PrevItem,
     before |-> NextItem, up |-> SeenAbove, down |-> SeenBelow, how |-> ""]

(* VARIANT: the element is not brought back.                               *)
RestoredNot(cards) == cards

(* restoreSource: an element that is gone from the page needs none.        *)
Restored(cards) == IF drag.live THEN cards \ {drag.task} ELSE cards

(* A pointer goes up, any pointer: end(). Over no column yet, end() only   *)
(* forgets the drag.                                                       *)
Release ==
    /\ pressed # {} \/ drag # NoDrag
    /\ pressed' = {}
    /\ drag' = NoDrag
    /\ IF drag = NoDrag THEN UNCHANGED <<left, hidden, posts>>
       ELSE IF drag.zone = NoTask
       THEN /\ left' = IF drag.live THEN left \cup {drag.task} ELSE left
            /\ UNCHANGED <<hidden, posts>>
       ELSE /\ hidden' = Restored(hidden)
            /\ \E p \in Posts :
                   /\ posts[p] = NoDrop
                   /\ posts' = [posts EXCEPT ![p] = Drop]
            /\ UNCHANGED left
    /\ UNCHANGED <<table, view, board, expanded, net, turns, unseen,
                   overtaken>>

(* pointercancel: a press is over, and cancel() ends a drag without a drop.*)
Cancel ==
    /\ pressed # {} \/ drag # NoDrag
    /\ pressed' = {}
    /\ drag' = NoDrag
    /\ hidden' = Restored(hidden)
    /\ UNCHANGED <<table, view, board, expanded, posts, net, turns, left,
                   unseen, overtaken>>

ShowMore(c) ==
    /\ Shown(c) # board[c]
    /\ drag = NoDrag
    /\ expanded' = expanded \cup {c}
    /\ UNCHANGED <<table, view, board, pressed, drag, hidden, posts, net,
                   turns, left, unseen, overtaken>>

-----------------------------------------------------------------------------
(* The server.                                                             *)

Publish == news' = news + 1

(* hTransition: what it does to the table, and what the client is told.    *)
Handle(p, how) ==
    LET d == posts[p]
    IN  IF d.to = "execute" /\ status[d.task] \in {"plan", "draft"}
        THEN \/ how = "started" /\ Table!SetTaskStatus(d.task, "execute") /\ Publish
             \/ how = "refused" /\ UNCHANGED <<table, news>>
        ELSE IF d.after # NoTask \/ d.before # NoTask
        THEN how = "moved" /\ Table!MoveTask(d.task, d.to, d.after, d.before) /\ Publish
        ELSE IF status[d.task] = d.to
        THEN how = "same" /\ UNCHANGED <<table, news>>
        ELSE IF d.to \in validTransitions[status[d.task]]
        THEN how = "ended" /\ Table!SetTaskStatus(d.task, d.to) /\ Publish
        ELSE how = "refused" /\ UNCHANGED <<table, news>>

Transition(p) ==
    /\ posts[p].stage = "sent"
    /\ \E how \in {"started", "moved", "same", "ended", "refused"} :
           /\ Handle(p, how)
           /\ posts' = [posts EXCEPT ![p].stage = "done", ![p].how = how]
    /\ UNCHANGED <<screen, asks, answers, turns, left, unseen, overtaken>>

(* Another browser or the server itself moves a card.                      *)
Other(t) ==
    /\ turns < MaxTurns
    /\ turns' = turns + 1
    /\ \/ \E c \in Cols \ {status[t]} : Table!SetTaskStatus(t, c)
       \/ \E c \in Cols, x \in Tasks \ {t} : status[x] = c /\ Table!MoveTask(t, c, x, NoTask)
    /\ Publish
    /\ UNCHANGED <<screen, posts, asks, answers, left, unseen, overtaken>>

-----------------------------------------------------------------------------
(* The list of tasks.                                                      *)

(* VARIANT: the list is not asked for again.                               *)
RefreshNot == asks' = asks

(* refreshTasks, up to its await.                                          *)
Refresh == asks + Len(answers) < MaxGets /\ asks' = asks + 1

(* onDrop: the answer, good or bad, is followed by a refresh.              *)
Dropped(p) ==
    /\ posts[p].stage = "done"
    /\ posts' = [posts EXCEPT ![p] = NoDrop]
    /\ Refresh
    /\ UNCHANGED <<table, screen, news, answers, turns, left, unseen,
                   overtaken>>

(* subscribeBoard: a message arrives.                                      *)
Notice ==
    /\ news > 0
    /\ news' = news - 1
    /\ Refresh
    /\ UNCHANGED <<table, screen, posts, answers, turns, left, unseen,
                   overtaken>>

(* A message is lost: the stream is down, or the hub's buffer is full.     *)
LoseNotice ==
    /\ turns < MaxTurns
    /\ news > 0
    /\ news' = news - 1
    /\ turns' = turns + 1
    /\ unseen' = TRUE
    /\ UNCHANGED <<table, screen, posts, asks, answers, left, overtaken>>

(* hListTasks.                                                             *)
ListTasks ==
    /\ asks > 0
    /\ asks' = asks - 1
    /\ \E l \in Lists : answers' = Append(answers, [rows |-> l, old |-> FALSE])
    /\ unseen' = FALSE
    /\ UNCHANGED <<table, screen, posts, news, turns, left, overtaken>>

(* refreshTasks fails, and says so.                                        *)
ListFails ==
    /\ turns < MaxTurns
    /\ asks > 0
    /\ asks' = asks - 1
    /\ turns' = turns + 1
    /\ unseen' = TRUE
    /\ UNCHANGED <<table, screen, posts, news, answers, left, overtaken>>

(* The answers behind number i are newer; those before it are old now.     *)
Answered(i) ==
    [j \in 1 .. Len(answers) - 1 |->
        IF j < i THEN [answers[j] EXCEPT !.old = TRUE] ELSE answers[j + 1]]

(* Vue renders the list: the element of a card stays if its column still   *)
(* shows the card. A placeholder is none of Vue's, and may end up anywhere *)
(* in a column whose cards change. A pressed card whose element is gone    *)
(* cannot be started: start() throws.                                      *)
Render(list) ==
    LET after(c) == Visible(list[c], c, {})
        kept     == {t \in Tasks : \E c \in Cols :
                        t \in Elements(Shown(c)) /\ t \in Elements(after(c))}
        places   == IF drag.task = NoTask \/ drag.gap = Beside THEN {drag.gap}
                    ELSE IF Shown(drag.col) = after(drag.col) THEN {drag.gap}
                    ELSE 0 .. Len(after(drag.col))
    IN  /\ board' = list
        /\ expanded' = {}
        /\ pressed' = pressed \cap kept
        /\ hidden' = hidden \cap kept
        /\ left' = left \cap kept
        /\ \E gap \in places :
               drag' = [drag EXCEPT !.live = @ /\ drag.task \in kept, !.gap = gap]

(* refreshTasks, after its await: whichever answer comes is shown.         *)
Listed(i) ==
    /\ i \in DOMAIN answers
    /\ answers' = Answered(i)
    /\ overtaken' = answers[i].old
    /\ Render(answers[i].rows)
    /\ UNCHANGED <<table, view, posts, news, asks, turns, unseen>>

-----------------------------------------------------------------------------
Next ==
    \/ \E t \in Tasks : CardPointerDown(t) \/ ItemPointerDown(t) \/ Start(t) \/ Other(t)
    \/ \E c \in Cols : MovePanel(c) \/ MoveTab(c) \/ ShowMore(c)
    \/ \E c \in Cols, item \in Tasks \cup {NoTask} : Move(c, item)
    \/ Release \/ Cancel
    \/ \E p \in Posts : Transition(p) \/ Dropped(p)
    \/ Notice \/ LoseNotice \/ ListTasks \/ ListFails
    \/ \E i \in 1 .. MaxGets : Listed(i)

Spec == Init /\ [][Next]_vars

-----------------------------------------------------------------------------
Drags ==
    [task : Tasks \cup {NoTask}, live : BOOLEAN, zone : Cols \cup {NoTask},
     col : Cols \cup {NoTask}, gap : Beside .. Cardinality(Tasks)]

Drops ==
    [stage : {"free", "sent", "done"}, task : Tasks \cup {NoTask}, to : Cols \cup {NoTask},
     after : Tasks \cup {NoTask}, before : Tasks \cup {NoTask}, up : Tasks \cup {NoTask},
     down : Tasks \cup {NoTask}, how : {"", "started", "moved", "same", "ended", "refused"}]

(* A list has every card once, in one of its columns.                      *)
IsList(l) ==
    /\ l \in [Cols -> Seq(Tasks)]
    /\ \A t \in Tasks : \E c \in Cols : \E i \in DOMAIN l[c] :
           \A d \in Cols : \A j \in DOMAIN l[d] : l[d][j] = t <=> d = c /\ j = i

(* The types: in every list that is shown or under way each card stands    *)
(* once, a placeholder is in its column's list or beside it, and a request *)
(* names a column to drop into.                                            *)
TypeOK ==
    /\ Table!TypeOK
    /\ view \in Views
    /\ IsList(board) /\ \A i \in DOMAIN answers : IsList(answers[i].rows)
    /\ expanded \subseteq Cols
    /\ pressed \subseteq Tasks /\ hidden \subseteq Tasks /\ left \subseteq Tasks
    /\ drag \in Drags
    /\ drag # NoDrag => drag.gap <= Len(Shown(drag.col))
    /\ drag.zone # NoTask => drag.zone = drag.col
    /\ posts \in [Posts -> Drops]
    /\ \A p \in Posts : posts[p] # NoDrop => posts[p].to \in Cols
    /\ news \in 0 .. MaxTurns
    /\ asks + Len(answers) <= MaxGets
    /\ unseen \in BOOLEAN /\ overtaken \in BOOLEAN

(* A drop that names a neighbour other than the dragged card itself.       *)
NamesOther(d) ==
    IF d.after # NoTask THEN d.after # d.task ELSE d.before \notin {NoTask, d.task}

(* The place between the two cards the user saw, if they are still there.  *)
Lands(d) ==
    /\ d.up # NoTask /\ status[d.up] = d.to => Table!Adjacent(d.up, d.task)'
    /\ d.up = NoTask /\ d.down # NoTask /\ status[d.down] = d.to =>
           Table!Adjacent(d.task, d.down)'

Commits(p) == posts[p].stage = "sent" /\ posts'[p].stage = "done"

(* A card that is moved next to a neighbour comes to stand directly below  *)
(* the card that was above the placeholder when the pointer went up, or,   *)
(* at the top, directly above the one below: whatever was rendered during  *)
(* the drag, whoever moved other cards meanwhile, and also when the column *)
(* shows only its first cards. Not so if drag.js names the dragged card    *)
(* itself.                                                                 *)
LandsBetween ==
    [][\A p \in Posts :
          Commits(p) /\ posts'[p].how = "moved" /\ NamesOther(posts[p]) => Lands(posts[p])]_vars

(* A card is off the screen only while it is dragged, or when its drag     *)
(* ended over no column or was replaced by one of a second pointer; new    *)
(* lists in the middle of a drag neither bring it back early nor lose it.  *)
OnlyDraggedHidden ==
    hidden = (IF drag.live THEN {drag.task} ELSE {}) \cup left

(* When nothing is under way the board shows the table, however drops,     *)
(* changes of others and answers have crossed, unless the last message or  *)
(* list was lost, or an older answer came after a newer one.               *)
BoardCatchesUp ==
    /\ \A p \in Posts : posts[p] = NoDrop
    /\ news = 0 /\ asks = 0 /\ answers = <<>>
    /\ ~unseen /\ ~overtaken
    => board \in Lists

(* CHANGELOG.md, on drag and drop: "the drop commits to an exact slot      *)
(* (between neighbours, not just "the column")".                           *)
LandsAtPlaceholder ==
    [][\A p \in Posts :
          Commits(p) /\ posts'[p].how = "moved" => Lands(posts[p])]_vars

(* docs/requirements.md: a drag that the table of moves does not allow is  *)
(* rejected by the server's state machine, and the card goes back.         *)
IllegalBounces ==
    [][\A p \in Posts : Commits(p) =>
          LET t == posts[p].task
          IN  status'[t] \in {status[t]} \cup validTransitions[status[t]]]_vars

=============================================================================

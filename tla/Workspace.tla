----------------------------- MODULE Workspace ------------------------------
(***************************************************************************)
(* The pane in which a user works on one card: TaskModal over the board,   *)
(* or ChatWorkspace beside the list of cards. Selecting a card sends two   *)
(* requests, one for the card and one for its last attempts; commands go   *)
(* to the selected card and attempt whatever has been answered so far, and *)
(* their answers change the pane again. The server keeps the cards and the *)
(* attempts, and tells all browsers when an attempt changes its state.     *)
(*                                                                         *)
(* Folding, scrolling and the dialogs that ask before an attempt is        *)
(* started, deleted or copied are left out: they can be opened at any time *)
(* and hold no object but the one they are opened for. The clicks that ask *)
(* before a stop or the deletion of a card hold none at all, and are       *)
(* modelled. What is typed is Composer's, the log of an attempt is         *)
(* EventStream's, what the server does with an attempt AttemptRunner's.    *)
(*                                                                         *)
(* An operator whose comment begins with VARIANT is not used by the model: *)
(* it says what a wrong form of the operator after it would be.            *)
(***************************************************************************)
EXTENDS Naturals, Sequences, FiniteSets, Lists

CONSTANTS
    Tasks,      \* task ids
    NoTask,     \* no task, null in the code
    Ids,        \* attempt ids, in the order in which they are started
    Homes,      \* the attempts there are at first, and their tasks
    Archived,   \* tasks in the archive, which can be deleted
    Panes,      \* the panes in use, of "modal" and "chat"
    PageSize,   \* attempts of a page, 50 in the code
    MaxGets,    \* bound: lists and cards in flight
    MaxCalls,   \* bound: commands in flight
    MaxTurns    \* bound: selections, commands, changes from elsewhere, and faults

ASSUME IdAssumption == Ids \subseteq Nat \ {0} /\ IsFiniteSet(Ids) /\ NoTask \notin Tasks
ASSUME HomeAssumption == DOMAIN Homes \subseteq Ids /\ Homes \in [DOMAIN Homes -> Tasks]
ASSUME ArchivedAssumption == Archived \subseteq Tasks /\ Panes \subseteq {"modal", "chat"}
ASSUME SizeAssumption == PageSize \in Nat \ {0}
ASSUME BoundAssumption == MaxGets \in Nat /\ MaxCalls \in Nat /\ MaxTurns \in Nat

VARIABLES
    pane,       \* which component this is
    cards,      \* the tasks that exist
    home,       \* the task of each attempt, NoTask before it is started
    rows,       \* the attempts that exist
    state,      \* the state of each: "live" or "settled"
    news,       \* attempt.state_changed messages in flight
    w,          \* the data of the component
    gets,       \* the requests for cards and lists in flight, as they were sent
    calls,      \* the commands in flight, as they were given
    turns,      \* bound: how many so far
    cardLost,   \* ghost: the last request for the selected card failed
    listLost,   \* ghost: the last request for its list failed
    reopened,   \* ghost: the card was closed while it was under way
    crossed,    \* ghost: a page was added to a list it was not asked for
    overlooked  \* ghost: attempts whose last change the pane could not see

server == <<cards, home, rows, state>>
ghosts == <<cardLost, listLost, reopened, crossed, overlooked>>
vars == <<pane, server, news, w, gets, calls, turns, ghosts>>

NoId == 0

(* data(), of a pane that has just been made: taskId is the selected card, *)
(* task the one whose answer came last, form the one the fields are of;    *)
(* stop and del say for which attempt or card the user was asked.          *)
Fresh ==
    [taskId |-> NoTask, task |-> NoTask, form |-> NoTask, editing |-> FALSE,
     attempts |-> <<>>, hasMore |-> FALSE, loadingMore |-> FALSE, activeAttemptId |-> NoId,
     stop |-> NoId, del |-> NoTask, reconnectAskedFor |-> NoId, sending |-> FALSE,
     loadSeq |-> 0]

Init ==
    /\ pane \in Panes
    /\ cards = Tasks
    /\ home = [a \in Ids |-> IF a \in DOMAIN Homes THEN Homes[a] ELSE NoTask]
    /\ rows = DOMAIN Homes
    /\ state = [a \in Ids |-> "settled"]
    /\ news = <<>>
    /\ w = Fresh
    /\ gets = <<>> /\ calls = <<>>
    /\ turns = 0
    /\ cardLost = FALSE /\ listLost = FALSE /\ reopened = FALSE /\ crossed = FALSE
    /\ overlooked = {}

-----------------------------------------------------------------------------
IdsOf(list) == {list[i].id : i \in DOMAIN list}

LastId(list) == IF list = <<>> THEN NoId ELSE list[Len(list)].id

Turn == turns < MaxTurns /\ turns' = turns + 1

(* The template: the controls of a card that is shown and not being edited,*)
(* those of the form, and the line at the bottom.                          *)
ReadView == w.task # NoTask /\ ~w.editing
EditView == w.task # NoTask /\ w.editing
InputBar == w.activeAttemptId # NoId /\ IF pane = "modal" THEN ReadView ELSE w.task # NoTask

CurrentState(v) ==
    LET places == {i \in DOMAIN v.attempts : v.attempts[i].id = v.activeAttemptId}
    IN  IF places = {} THEN "" ELSE v.attempts[CHOOSE i \in places : TRUE].state

-----------------------------------------------------------------------------
(* The requests of the pane.                                               *)

Get(kind, v, before) ==
    [kind |-> kind, seq |-> v.loadSeq, task |-> v.taskId, before |-> before,
     read |-> FALSE, list |-> <<>>, more |-> FALSE]

(* load(), up to its answers: the card that was shown stays, as do its     *)
(* fields and its attempt.                                                 *)
Loading(v) ==
    IF v.taskId = NoTask THEN [v EXCEPT !.task = NoTask]
    ELSE [v EXCEPT !.loadSeq = @ + 1, !.attempts = <<>>, !.hasMore = FALSE]

Load(v, others) ==
    /\ w' = Loading(v)
    /\ gets' = IF v.taskId = NoTask THEN others
               ELSE others \o <<Get("task", w', NoId), Get("list", w', NoId)>>
    /\ Len(gets') <= MaxGets
    /\ IF v.taskId = NoTask THEN UNCHANGED <<cardLost, listLost>>
       ELSE cardLost' = FALSE /\ listLost' = FALSE

(* VARIANT: every answer is taken for the current one.                     *)
CurrentAlways(g) == TRUE

(* The guard of load(): no other load has begun since.                     *)
Current(g) == g.seq = w.loadSeq

Pending(kind) == \E i \in DOMAIN gets : gets[i].kind = kind /\ Current(gets[i])

(* Another card is selected, in the chat.                                  *)
Select(t) ==
    /\ pane = "chat" /\ Turn
    /\ t \in cards /\ t # w.taskId
    /\ Load([w EXCEPT !.taskId = t], gets)
    /\ reopened' = FALSE
    /\ UNCHANGED <<pane, server, news, calls, crossed, overlooked>>

(* A card is opened, on the board: a pane is made for it.                  *)
Open(t) ==
    /\ pane = "modal" /\ Turn
    /\ t \in cards /\ w.taskId = NoTask
    /\ Load([Fresh EXCEPT !.taskId = t], <<>>)
    /\ reopened' = FALSE /\ crossed' = FALSE
    /\ UNCHANGED <<pane, server, news, calls, overlooked>>

(* What @close and @close-task do. Nobody waits for the answers of a modal *)
(* that is gone. The chat's pane loads "no card": it keeps everything but  *)
(* the card, and goes on waiting for its answers.                          *)
Closed(v, others) ==
    IF pane = "modal"
    THEN /\ w' = Fresh
         /\ gets' = <<>>
         /\ calls' = [i \in DOMAIN others |-> [others[i] EXCEPT !.mine = FALSE]]
         /\ UNCHANGED reopened
    ELSE /\ w' = Loading([v EXCEPT !.taskId = NoTask])
         /\ calls' = others
         /\ reopened' = (reopened \/ Pending("task"))
         /\ UNCHANGED gets

Close ==
    /\ w.taskId # NoTask
    /\ Closed(w, calls)
    /\ UNCHANGED <<pane, server, news, turns, cardLost, listLost, crossed, overlooked>>

(* GET /api/tasks/t.                                                       *)
TaskAnswer(i) ==
    LET g == gets[i]
    IN  /\ i \in DOMAIN gets /\ g.kind = "task" /\ g.task \in cards
        /\ gets' = Without(gets, i)
        /\ w' = IF Current(g) THEN [w EXCEPT !.task = g.task, !.form = g.task] ELSE w
        /\ UNCHANGED <<pane, server, news, calls, turns, ghosts>>

(* ListAttemptsForTask: the last attempts before a given one.              *)
Attempts(t) == {a \in rows : home[a] = t}

Page(t, before) ==
    LET older == {a \in Attempts(t) : before = NoId \/ a < before}
    IN  {a \in older : Cardinality({b \in older : b > a}) < PageSize}

Listing(ids) ==
    LET order == InOrder(ids)
    IN  [i \in DOMAIN order |-> [id |-> order[i], state |-> state[order[i]]]]

(* hListTaskAttempts. What the pane had overlooked, this list has.         *)
ListAttempts(i) ==
    LET g == gets[i]
        page == Page(g.task, g.before)
    IN  /\ i \in DOMAIN gets /\ g.kind # "task" /\ ~g.read
        /\ gets' = [gets EXCEPT ![i] =
                       [g EXCEPT !.read = TRUE, !.list = Listing(page),
                        !.more = \E a \in Attempts(g.task) \ page :
                                     \A b \in page : a < b]]
        /\ overlooked' = IF g.kind = "list" /\ Current(g) THEN overlooked \ page
                         ELSE overlooked
        /\ UNCHANGED <<pane, server, news, w, calls, turns, cardLost, listLost, reopened,
                       crossed>>

(* VARIANT: the attempt that was selected stays selected.                  *)
ChosenStill(v, list) == IF v.activeAttemptId = NoId THEN LastId(list) ELSE v.activeAttemptId

(* The last attempt is selected unless the selected one is in the list.    *)
Chosen(v, list) == IF v.activeAttemptId \in IdsOf(list) THEN v.activeAttemptId ELSE LastId(list)

ListAnswer(i) ==
    LET g == gets[i]
    IN  /\ i \in DOMAIN gets /\ g.kind = "list" /\ g.read
        /\ gets' = Without(gets, i)
        /\ w' = IF Current(g)
                THEN [w EXCEPT !.attempts = g.list, !.hasMore = g.more,
                               !.activeAttemptId = Chosen(w, g.list)]
                ELSE w
        /\ crossed' = (crossed /\ ~Current(g))
        /\ UNCHANGED <<pane, server, news, calls, turns, cardLost, listLost, reopened, overlooked>>

(* VARIANT: the button is not disabled while a page is under way.          *)
MayLoadMoreTwice == w.hasMore /\ w.attempts # <<>>

MayLoadMore == ~w.loadingMore /\ w.hasMore /\ w.attempts # <<>>

(* loadMoreAttempts: from the first attempt of the list back. It has no    *)
(* guard like that of load(); the number only says whether it will cross.  *)
LoadMore ==
    /\ ReadView /\ MayLoadMore /\ Len(gets) < MaxGets
    /\ w' = [w EXCEPT !.loadingMore = TRUE]
    /\ gets' = Append(gets, [Get("more", w, w.attempts[1].id) EXCEPT !.seq = IF crossed THEN 0 ELSE @])
    /\ UNCHANGED <<pane, server, news, calls, turns, ghosts>>

(* The page goes before whatever list there is now.                        *)
MoreAnswer(i) ==
    LET g == gets[i]
    IN  /\ i \in DOMAIN gets /\ g.kind = "more" /\ g.read
        /\ gets' = Without(gets, i)
        /\ w' = [w EXCEPT !.attempts = g.list \o @, !.hasMore = g.more, !.loadingMore = FALSE]
        /\ crossed' = (crossed \/ ~Current(g))
        /\ UNCHANGED <<pane, server, news, calls, turns, cardLost, listLost, reopened, overlooked>>

(* A request fails; the one for a card that was deleted always does.       *)
GetFails(i) ==
    LET g == gets[i]
    IN  /\ i \in DOMAIN gets
        /\ IF g.kind = "task" /\ g.task \notin cards THEN UNCHANGED turns ELSE Turn
        /\ gets' = Without(gets, i)
        /\ w' = IF g.kind = "more" THEN [w EXCEPT !.loadingMore = FALSE] ELSE w
        /\ cardLost' = (cardLost \/ (g.kind = "task" /\ Current(g)))
        /\ listLost' = (listLost \/ (g.kind = "list" /\ Current(g)))
        /\ UNCHANGED <<pane, server, news, calls, reopened, crossed, overlooked>>

-----------------------------------------------------------------------------
(* What the user does without a request.                                   *)

Click(v) ==
    /\ w' = v
    /\ UNCHANGED <<pane, server, news, gets, calls, turns, ghosts>>

Edit       == ReadView /\ Click([w EXCEPT !.editing = TRUE])
CancelEdit == EditView /\ Click([w EXCEPT !.editing = FALSE])

Pick(a) ==
    ReadView /\ a \in IdsOf(w.attempts) /\ a # w.activeAttemptId
    /\ Click([w EXCEPT !.activeAttemptId = a])

(* confirmStop: the button now says "confirm", for a few seconds.          *)
AskStop   == InputBar /\ w.stop = NoId /\ Click([w EXCEPT !.stop = w.activeAttemptId])
StopTimer == w.stop # NoId /\ Click([w EXCEPT !.stop = NoId])

(* confirmDelete: nothing takes it back.                                   *)
AskDelete ==
    /\ ReadView /\ w.task \in Archived /\ w.del = NoTask
    /\ Click([w EXCEPT !.del = w.task])

-----------------------------------------------------------------------------
(* The commands: what is sent, for which card and attempt, and for which   *)
(* one the user was asked.                                                 *)
Command(op, id, asked) ==
    [op |-> op, task |-> w.taskId, id |-> id, asked |-> asked, stage |-> "sent", mine |-> TRUE]

Send(v, op, id, asked) ==
    /\ Turn
    /\ Len(calls) < MaxCalls
    /\ calls' = Append(calls, Command(op, id, asked))
    /\ w' = v
    /\ UNCHANGED <<pane, server, news, gets, ghosts>>

Save == EditView /\ Send(w, "save", NoId, NoTask)

DeleteTask ==
    ReadView /\ w.task \in Archived /\ w.del # NoTask /\ Send(w, "del", NoId, w.del)

(* canDeleteAttempt and deleteAttempt: the list changes at once.           *)
DeleteAttempt(i) ==
    LET id   == w.attempts[i].id
        list == Kept(w.attempts, {j \in DOMAIN w.attempts : w.attempts[j].id # id})
    IN  /\ ReadView /\ i \in DOMAIN w.attempts /\ w.attempts[i].state = "settled"
        /\ Send([w EXCEPT !.attempts = list,
                          !.activeAttemptId = IF @ = id THEN LastId(list) ELSE @],
                "delAttempt", id, NoTask)

StartAttempt == ReadView /\ Send(w, "start", NoId, NoTask)

(* sendMsg, without its text.                                              *)
SendMsg == InputBar /\ Send(w, "send", w.activeAttemptId, NoTask)

CancelAttempt ==
    InputBar /\ w.stop # NoId /\ Send([w EXCEPT !.stop = NoId], "cancel", w.activeAttemptId, w.stop)

(* canSendContinue and sendContinue, in the pane's EventStream.            *)
SendContinue ==
    /\ w.activeAttemptId # NoId /\ IF pane = "modal" THEN ReadView ELSE w.task # NoTask
    /\ CurrentState(w) = "settled" /\ ~w.sending
    /\ Send([w EXCEPT !.sending = TRUE], "continue", w.activeAttemptId, NoTask)

(* onModalBodyScroll: the modal asks once for each attempt it shows.       *)
Reconnect ==
    /\ pane = "modal" /\ w.task # NoTask
    /\ w.activeAttemptId \notin {NoId, w.reconnectAskedFor}
    /\ Send([w EXCEPT !.reconnectAskedFor = w.activeAttemptId], "reconnect",
            w.activeAttemptId, NoTask)

-----------------------------------------------------------------------------
(* The server.                                                             *)

(* setState publishes what the row says now.                               *)
Becomes(a, s) ==
    /\ state' = [state EXCEPT ![a] = s]
    /\ news' = Append(news, [id |-> a, state |-> s])

(* Something the pane shows, or is about to show, is gone.                 *)
Noticed(a) ==
    IF a \in IdsOf(w.attempts) \/ \E i \in DOMAIN gets : a \in IdsOf(gets[i].list)
    THEN overlooked \cup {a} ELSE overlooked

Same == UNCHANGED <<server, news, overlooked>>

(* What the handlers of the commands accept.                               *)
Accepted(c) ==
    CASE c.op = "save" -> c.task \in cards
      [] c.op = "del" -> c.task # NoTask
      [] c.op = "delAttempt" -> c.id \in rows /\ state[c.id] = "settled"
      [] c.op = "start" -> FALSE
      [] OTHER -> c.id \in rows

(* A command that is carried out.                                          *)
Done(c) ==
    CASE c.op = "del" ->
             /\ cards' = cards \ {c.task}
             /\ rows' = rows \ Attempts(c.task)
             /\ UNCHANGED <<home, state, news, overlooked>>
      [] c.op = "delAttempt" ->
             /\ rows' = rows \ {c.id}
             /\ overlooked' = Noticed(c.id)
             /\ UNCHANGED <<cards, home, state, news>>
      [] c.op \in {"send", "continue"} /\ state[c.id] = "settled" ->
             Becomes(c.id, "live") /\ UNCHANGED <<cards, home, rows, overlooked>>
      [] c.op = "cancel" /\ state[c.id] = "live" ->
             Becomes(c.id, "settled") /\ UNCHANGED <<cards, home, rows, overlooked>>
      [] OTHER -> Same

(* Runner.Start: a new row, unless the limits are reached. A pane that has *)
(* the card and is not told that it was its own start does not see it: it  *)
(* looks at no notice but those that change the state of a listed attempt. *)
Started(c, a, told) ==
    /\ c.op = "start" /\ c.task \in cards
    /\ home[a] = NoTask /\ \A b \in Ids : home[b] = NoTask => a <= b
    /\ home' = [home EXCEPT ![a] = c.task]
    /\ rows' = rows \cup {a}
    /\ Becomes(a, "live")
    /\ overlooked' = IF told \/ c.task # w.taskId THEN overlooked ELSE overlooked \cup {a}
    /\ UNCHANGED cards

(* A handler of a command runs: it does its work or refuses. What it did   *)
(* is answered by an error when a later step of it fails, as the writing   *)
(* of the data of a new attempt, or when the answer does not come back.    *)
Serve(i) ==
    LET c == calls[i]
        Replies(answer, id) == calls' = [calls EXCEPT ![i].stage = answer, ![i].id = id]
    IN  /\ i \in DOMAIN calls /\ c.stage = "sent"
        /\ \/ \E answer \in {"ok", "err"} :
                 /\ IF answer = "ok" THEN UNCHANGED turns ELSE Turn
                 /\ \/ Accepted(c) /\ Done(c) /\ Replies(answer, c.id)
                    \/ \E a \in Ids :
                           Started(c, a, c.mine /\ answer = "ok") /\ Replies(answer, a)
           \/ /\ IF Accepted(c) THEN Turn ELSE UNCHANGED turns
              /\ Same /\ Replies("err", c.id)
        /\ UNCHANGED <<pane, w, gets, cardLost, listLost, reopened, crossed>>

(* Another browser starts an attempt, or deletes one or a card; the        *)
(* scheduler, a schedule and a move to Execute start one too.              *)
Elsewhere(op, t, a) ==
    LET c == [Command(op, a, NoTask) EXCEPT !.task = t, !.mine = FALSE]
    IN  /\ Turn
        /\ \/ Accepted(c) /\ Done(c)
           \/ \E b \in Ids : Started(c, b, FALSE)
        /\ UNCHANGED <<pane, w, gets, calls, cardLost, listLost, reopened, crossed>>

(* An agent ends its turn; the resumer, or a message or a stop from another*)
(* browser, gives an attempt a new one or ends it.                         *)
Flip(a) ==
    /\ Turn
    /\ a \in rows
    /\ Becomes(a, IF state[a] = "live" THEN "settled" ELSE "live")
    /\ UNCHANGED <<pane, cards, home, rows, w, gets, calls, ghosts>>

-----------------------------------------------------------------------------
(* What the pane does with the answers to its commands.                    *)

Reload(v, others) ==
    /\ Load(v, gets)
    /\ calls' = others
    /\ UNCHANGED <<reopened, crossed>>

Quietly(v, others) ==
    w' = v /\ calls' = others /\ UNCHANGED <<gets, cardLost, listLost, reopened, crossed>>

(* save, del, deleteAttempt, actuallyStartAttempt, sendContinue after their*)
(* awaits. Whatever card is selected by then is loaded or closed.          *)
Handled(c, answer, others) ==
    CASE c.op = "save" /\ answer = "ok" -> Reload([w EXCEPT !.editing = FALSE], others)
      [] c.op = "del" /\ answer = "ok" ->
             Closed(w, others) /\ UNCHANGED <<cardLost, listLost, crossed>>
      [] c.op = "delAttempt" /\ answer = "err" -> Reload(w, others)
      [] c.op = "start" /\ answer = "ok" ->
             Reload([w EXCEPT !.activeAttemptId = c.id], others)
      [] c.op = "continue" -> Quietly([w EXCEPT !.sending = FALSE], others)
      [] OTHER -> Quietly(w, others)

Answer(i) ==
    LET c      == calls[i]
        others == Without(calls, i)
    IN  /\ i \in DOMAIN calls /\ c.stage # "sent"
        /\ IF c.mine THEN Handled(c, c.stage, others) ELSE Quietly(w, others)
        /\ UNCHANGED <<pane, server, news, turns, overlooked>>

(* The connection breaks before the answer: the handler may run yet.       *)
CutOff(i) ==
    LET c == calls[i]
    IN  /\ i \in DOMAIN calls /\ c.stage = "sent" /\ c.mine
        /\ Turn
        /\ Handled(c, "err", [calls EXCEPT ![i].mine = FALSE])
        /\ UNCHANGED <<pane, server, news, overlooked>>

(* VARIANT: the message is not looked at.                                  *)
PatchedNot(list, n) == list

(* The state of an attempt of the list is set in place.                    *)
Patched(list, n) ==
    [i \in DOMAIN list |->
        IF list[i].id = n.id THEN [list[i] EXCEPT !.state = n.state] ELSE list[i]]

(* A list that was read before the change and has not been answered.       *)
Missed(n) ==
    \E i \in DOMAIN gets : \E j \in DOMAIN gets[i].list :
        gets[i].list[j].id = n.id /\ gets[i].list[j].state # n.state

(* attempt.state_changed arrives.                                          *)
Notice ==
    /\ news # <<>>
    /\ news' = Tail(news)
    /\ w' = [w EXCEPT !.attempts = Patched(@, Head(news))]
    /\ overlooked' = IF Missed(Head(news)) THEN overlooked \cup {Head(news).id} ELSE overlooked
    /\ UNCHANGED <<pane, server, gets, calls, turns, cardLost, listLost, reopened, crossed>>

(* It is lost: the stream is down, or the hub's buffer is full.            *)
LoseNotice ==
    /\ Turn
    /\ news # <<>>
    /\ news' = Tail(news)
    /\ overlooked' = overlooked \cup {Head(news).id}
    /\ UNCHANGED <<pane, server, w, gets, calls, cardLost, listLost, reopened, crossed>>

-----------------------------------------------------------------------------
Selecting == (\E t \in Tasks : Select(t) \/ Open(t)) \/ Close
Loadings  ==
    \/ LoadMore
    \/ \E i \in 1 .. MaxGets :
           TaskAnswer(i) \/ ListAttempts(i) \/ ListAnswer(i) \/ MoreAnswer(i) \/ GetFails(i)
Clicks    == Edit \/ CancelEdit \/ AskStop \/ StopTimer \/ AskDelete \/ \E a \in Ids : Pick(a)
Commands  ==
    \/ Save \/ DeleteTask \/ StartAttempt \/ SendMsg \/ CancelAttempt \/ SendContinue \/ Reconnect
    \/ \E i \in 1 .. Cardinality(Ids) : DeleteAttempt(i)
Answers   ==
    \/ Notice \/ LoseNotice
    \/ \E i \in 1 .. MaxCalls : Serve(i) \/ Answer(i) \/ CutOff(i)
    \/ \E a \in Ids : Flip(a) \/ Elsewhere("delAttempt", NoTask, a)
    \/ \E t \in Tasks : Elsewhere("start", t, NoId)
    \/ \E t \in Archived : Elsewhere("del", t, NoId)

Next == Selecting \/ Loadings \/ Clicks \/ Commands \/ Answers

Spec == Init /\ [][Next]_vars

-----------------------------------------------------------------------------
Rows == [id : Ids, state : {"live", "settled"}]

Data ==
    [taskId : Tasks \cup {NoTask}, task : Tasks \cup {NoTask}, form : Tasks \cup {NoTask},
     editing : BOOLEAN, attempts : Seq(Rows), hasMore : BOOLEAN, loadingMore : BOOLEAN,
     activeAttemptId : Ids \cup {NoId}, stop : Ids \cup {NoId}, del : Archived \cup {NoTask},
     reconnectAskedFor : Ids \cup {NoId}, sending : BOOLEAN, loadSeq : Nat]

Distinct(list) == \A i, j \in DOMAIN list : list[i].id = list[j].id => i = j

(* The types: an attempt stands once in the list, unless a page was added  *)
(* to a list it was not asked for; the fields are those of the card shown  *)
(* last; and one page is asked for at a time.                              *)
TypeOK ==
    /\ pane \in Panes
    /\ cards \subseteq Tasks /\ rows \subseteq Ids
    /\ home \in [Ids -> Tasks \cup {NoTask}] /\ state \in [Ids -> {"live", "settled"}]
    /\ \A a \in rows : home[a] \in cards
    /\ news \in Seq(Rows)
    /\ w \in Data
    /\ w.task # NoTask => w.form = w.task
    /\ crossed \/ Distinct(w.attempts)
    /\ Len(gets) <= MaxGets /\ Len(calls) <= MaxCalls
    /\ Cardinality({i \in DOMAIN gets : gets[i].kind = "more"}) <= 1
    /\ overlooked \subseteq Ids

(* The pane shows the card that is selected, and its fields are the ones a *)
(* save sends, whatever was selected, closed, saved and started before and *)
(* in whatever order the answers come. It shows another one only while the *)
(* answer for the selected card is awaited or after it has failed, or when *)
(* the card was closed before it was answered.                             *)
ShownIsSelected ==
    w.task \notin {NoTask, w.taskId} =>
        \/ cardLost \/ Pending("task")
        \/ w.taskId = NoTask /\ reopened

(* A message, a stop or a "continue" goes to an attempt of the selected    *)
(* card, except while its list is awaited or after it failed, and when a   *)
(* page of another list came in.                                           *)
ActiveIsOfSelected ==
    w.taskId # NoTask /\ w.activeAttemptId # NoId /\ home[w.activeAttemptId] # w.taskId =>
        listLost \/ crossed \/ Pending("list")

Quiet == gets = <<>> /\ calls = <<>> /\ news = <<>>

(* When nothing is under way the list is a gapless end of the attempts of  *)
(* the selected card in their present states, and all of them when no more *)
(* are on offer, however starts, deletions, pages, messages and reloads    *)
(* have crossed; after its request failed it may be empty. Except for      *)
(* attempts started since its list was read, elsewhere or by a command     *)
(* that was answered by an error; those whose message was lost or came     *)
(* while a list read before it was under way; and those deleted elsewhere, *)
(* or while such a list was.                                               *)
AttemptsCatchUp ==
    Quiet /\ w.taskId \in cards /\ ~crossed =>
        LET shown == IdsOf(w.attempts)
            there == {a \in Attempts(w.taskId) :
                         (~w.hasMore /\ ~listLost) \/ \E b \in shown : b <= a}
        IN  /\ shown \ overlooked \subseteq Attempts(w.taskId)
            /\ there \ overlooked \subseteq shown
            /\ \A i \in DOMAIN w.attempts :
                   LET a == w.attempts[i]
                   IN  a.id \in overlooked \/ a.state = state[a.id]

(* CHANGELOG.md on deleting a card: "clicking once reveals a second        *)
(* "Confirm delete?" button"; the manual on stopping an attempt: "two-click*)
(* confirm to avoid accidents". So each deletion and each stop was asked   *)
(* for and confirmed at the same card or attempt.                          *)
AskedTwice ==
    \A i \in DOMAIN calls :
        /\ calls[i].op = "del" => calls[i].asked = calls[i].task
        /\ calls[i].op = "cancel" => calls[i].asked = calls[i].id

=============================================================================

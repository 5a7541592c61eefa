---------------------------- MODULE EventStream -----------------------------
(***************************************************************************)
(* The event log of an attempt, from the line a goroutine appends to       *)
(* events.ndjson to the cards one open pane of the browser shows:          *)
(*                                                                         *)
(*   - the server numbers a line, writes it and publishes it, in three     *)
(*     steps; GET .../events reads the file, and the stream handler first  *)
(*     replays the file and only then subscribes to the hub;               *)
(*   - the browser's EventSource reconnects by itself, with the number of  *)
(*     the last event it received;                                         *)
(*   - the EventStream component loads the tail, subscribes, pages back on *)
(*     demand and rebuilds its cards from the events, which a timer delays.*)
(*                                                                         *)
(* Scrolling, copying and the layout of a card are left out. An operator   *)
(* whose comment begins with VARIANT is not used by the model: it says     *)
(* what a wrong form of the operator after it would be.                    *)
(***************************************************************************)
EXTENDS Naturals, Sequences, FiniteSets, Lists

CONSTANTS
    Attempts,     \* attempt ids
    NoAttempt,    \* no attempt is selected, null in the code
    Writers,      \* goroutines that append: the loop and the handlers
    Conns,        \* bound: the streams that are open at a time
    Gets,         \* bound: the GET requests in flight at a time
    NoConn,       \* no stream, null in the code
    Tools,        \* ids of tool calls
    Scripts,      \* the contents an attempt's log may get, by number
    History,      \* bound: the lines of a log when the pane is opened
    TailSize,     \* events of the first load, 30 in the code
    PageSize,     \* events of a page, 200 in the code
    Buffer,       \* a hub subscriber's buffer, 256 in the code
    ReplayLimit,  \* events of a replay, 2000 in the code
    MaxSwitches,  \* bound: how often the user selects an attempt
    MaxFaults     \* bound: lost streams, failed requests and restarts

Kinds == {"note", "delta", "done", "call", "called", "output", "other"}

Contents == [kind : Kinds, tool : Tools]

ASSUME IdAssumption == NoAttempt \notin Attempts /\ NoConn \notin Conns
ASSUME ScriptAssumption == Scripts \subseteq [Attempts -> Seq(Contents)]
ASSUME SizeAssumption == TailSize \in Nat \ {0} /\ PageSize \in Nat \ {0}
ASSUME LimitAssumption == Buffer \in Nat /\ ReplayLimit \in Nat
ASSUME CountAssumption == History \in Nat /\ MaxSwitches \in Nat /\ MaxFaults \in Nat

VARIABLES
    script,     \* what the agent and the users say in each attempt
    seqs,       \* FS.seqs: the last number given out
    file,       \* events.ndjson: the numbers in the order of the lines
    gone,       \* attempts that were deleted
    writer,     \* what each goroutine has done of an append
    conn,       \* the EventSource objects and their handlers
    get,        \* the GET requests of the pane
    attemptId,  \* the attempt the pane is for
    events,     \* this.events
    messages,   \* this.messages, the cards
    hasMore, loadingMore, timer, unsub, mounted,
    switches,   \* bound: selections so far
    faults,     \* bound: faults so far
    overlapped, \* ghost: a selection overtook an answer
    excused,    \* ghost: events that a known window loses
    crossed,    \* ghost: events written or published out of the order of their numbers
    echoed      \* ghost: events that were read before they were published

server == <<script, seqs, file, gone, writer>>
pane == <<attemptId, events, messages, hasMore, loadingMore, timer, unsub, mounted>>
ghosts == <<switches, faults, overlapped, excused, crossed, echoed>>
vars == <<server, conn, get, pane, ghosts>>

Event == [att : Attempts, seq : Nat]

Idle == [stage |-> "idle", att |-> NoAttempt, seq |-> 0]
Closed == [stage |-> "closed", att |-> NoAttempt, since |-> 0, upto |-> 0,
           wire |-> <<>>, chan |-> <<>>]
NoGet == [kind |-> "none", att |-> NoAttempt, before |-> 0]

-----------------------------------------------------------------------------
(* The cards of a list of events.                                          *)
Values(s) == {s[i] : i \in DOMAIN s}

(* attempt.deleted comes through the same topic, without a number.         *)
Content(e) ==
    IF e.seq = 0 THEN [kind |-> "other", tool |-> CHOOSE t \in Tools : TRUE]
    ELSE script[e.att][e.seq]

Blank == [out |-> <<>>, buf |-> <<>>, tools |-> [t \in Tools |-> 0]]

Card(kind, text) == [kind |-> kind, text |-> text, status |-> "", output |-> FALSE]

(* flushAssistant: an open bubble becomes a card.                          *)
Flush(acc) ==
    [acc EXCEPT !.out = IF acc.buf = <<>> THEN @
                        ELSE Append(@, Card("assistant", acc.buf)),
                !.buf = <<>>]

(* What one event adds to the cards before it.                             *)
Absorb(acc, e) ==
    LET c       == Content(e)
        flushed == Flush(acc)
        index   == acc.tools[c.tool]
    IN  CASE c.kind = "note"  -> [flushed EXCEPT !.out = Append(@, Card("note", <<e>>))]
          [] c.kind = "delta" -> [acc EXCEPT !.buf = Append(@, e)]
          [] c.kind = "done"  -> flushed
          [] c.kind = "call"  ->
                 [flushed EXCEPT
                     !.out = Append(@, [Card("tool", <<e>>) EXCEPT !.status = "in_progress"]),
                     !.tools[c.tool] = Len(flushed.out) + 1]
          [] c.kind = "called" /\ index > 0 -> [acc EXCEPT !.out[index].status = "completed"]
          [] c.kind = "output" /\ index > 0 -> [acc EXCEPT !.out[index].output = TRUE]
          [] OTHER -> acc

(* rebuild() walks the events from the first to the last.                  *)
Walk(evts) ==
    LET walk[i \in 0 .. Len(evts)] ==
            IF i = 0 THEN Blank ELSE Absorb(walk[i - 1], evts[i])
    IN  walk[Len(evts)]

Rebuild(evts) == Flush(Walk(evts)).out

-----------------------------------------------------------------------------
(* Some lines are in the file already when the pane is opened.             *)
Init ==
    /\ script \in Scripts
    /\ seqs = [a \in Attempts |-> IF History < Len(script[a]) THEN History ELSE Len(script[a])]
    /\ file = [a \in Attempts |-> [i \in 1 .. seqs[a] |-> i]]
    /\ gone = {}
    /\ writer = [w \in Writers |-> Idle]
    /\ conn = [c \in Conns |-> Closed]
    /\ get = [g \in Gets |-> NoGet]
    /\ attemptId = NoAttempt
    /\ events = <<>> /\ messages = <<>>
    /\ hasMore = FALSE /\ loadingMore = FALSE /\ timer = FALSE
    /\ unsub = NoConn
    /\ mounted = TRUE
    /\ switches = 0 /\ faults = 0
    /\ overlapped = FALSE
    /\ excused = {} /\ crossed = {} /\ echoed = {}

-----------------------------------------------------------------------------
(* The server.                                                             *)

(* Event n overtakes the smaller numbers of the other goroutines.          *)
Crossing(a, n) ==
    LET behind == {w \in Writers : writer[w].att = a /\ writer[w].seq < n}
    IN  IF behind = {} THEN {} ELSE {<<a, n>>} \cup {<<a, writer[w].seq>> : w \in behind}

(* nextSeq, the first step of AppendEvent.                                 *)
TakeSeq(w, a) ==
    /\ writer[w].stage = "idle"
    /\ a \notin gone
    /\ seqs[a] < Len(script[a])
    /\ seqs' = [seqs EXCEPT ![a] = @ + 1]
    /\ writer' = [writer EXCEPT ![w] =
                     [stage |-> "numbered", att |-> a, seq |-> seqs[a] + 1]]
    /\ UNCHANGED <<script, file, gone, conn, get, pane, ghosts>>

(* The rest of AppendEvent: one line at the end of the file.               *)
WriteLine(w) ==
    LET a == writer[w].att
        n == writer[w].seq
    IN  /\ writer[w].stage = "numbered"
        /\ file' = [file EXCEPT ![a] = Append(@, n)]
        /\ writer' = [writer EXCEPT ![w].stage = "written"]
        /\ crossed' = crossed \cup Crossing(a, n)
        /\ UNCHANGED <<script, seqs, gone, conn, get, pane,
                       switches, faults, overlapped, excused, echoed>>

(* The streams the hub knows for an attempt.                               *)
Subscribers(a) == {c \in Conns : conn[c].stage = "live" /\ conn[c].att = a}

(* VARIANT: a line is written and not published.                           *)
BroadcastNot(a, n) == conn

(* Hub.Publish: a subscriber whose buffer is full does not get the event.  *)
Broadcast(a, n) ==
    [c \in Conns |->
        IF c \in Subscribers(a) /\ Len(conn[c].chan) < Buffer
        THEN [conn[c] EXCEPT !.chan = Append(@, n)]
        ELSE conn[c]]

(* Streams that event n of a does not reach when it is published now: the  *)
(* buffer is full, or the replay was read without it and the handler has   *)
(* not subscribed yet.                                                     *)
Missed(a, n) ==
    {c \in Conns :
        /\ conn[c].att = a
        /\ \/ conn[c].stage = "live" /\ Len(conn[c].chan) >= Buffer
           \/ /\ conn[c].stage = "replayed"
              /\ n \notin {file[a][i] : i \in 1 .. conn[c].upto}}

Publish(w) ==
    LET a == writer[w].att
        n == writer[w].seq
    IN  /\ writer[w].stage = "written"
        /\ writer' = [writer EXCEPT ![w] = Idle]
        /\ conn' = Broadcast(a, n)
        /\ excused' = IF Missed(a, n) # {} THEN excused \cup {<<a, n>>} ELSE excused
        /\ crossed' = crossed \cup Crossing(a, n)
        /\ UNCHANGED <<script, seqs, file, gone, get, pane,
                       switches, faults, overlapped, echoed>>

(* hDeleteAttempt, of an attempt that nothing writes to any more.          *)
Delete(a) ==
    /\ a \notin gone
    /\ \A w \in Writers : writer[w].att # a
    /\ gone' = gone \cup {a}
    /\ file' = [file EXCEPT ![a] = <<>>]
    /\ conn' = Broadcast(a, 0)
    /\ UNCHANGED <<script, seqs, writer, get, pane, ghosts>>

(* Events of a that are in the file and not published yet.                 *)
Unpublished(a) ==
    {<<a, writer[w].seq>> :
        w \in {x \in Writers : writer[x].stage = "written" /\ writer[x].att = a}}

Above(since, n) == n > since

(* ReadEventsRange for a replay; nothing is replayed without a number.     *)
Replay(a, since) ==
    LET newer == Kept(file[a], {i \in DOMAIN file[a] : Above(since, file[a][i])})
    IN  IF since = 0 THEN <<>>
        ELSE SubSeq(newer, 1, IF Len(newer) < ReplayLimit THEN Len(newer) ELSE ReplayLimit)

(* streamTopicForUser up to Subscribe; 404 ends the EventSource for good.  *)
Serve(c) ==
    LET a == conn[c].att
        replay == Replay(a, conn[c].since)
    IN  /\ conn[c].stage = "opening"
        /\ IF a \in Attempts \ gone
           THEN /\ conn' = [conn EXCEPT ![c].stage = "replayed",
                                        ![c].upto = Len(file[a]),
                                        ![c].wire = replay]
                /\ excused' = excused \cup
                      {<<a, n>> : n \in {m \in Values(file[a]) :
                                           Above(conn[c].since, m) /\ m \notin Values(replay)}}
                /\ echoed' = echoed \cup Unpublished(a)
           ELSE /\ conn' = [conn EXCEPT ![c] = Closed]
                /\ UNCHANGED <<excused, echoed>>
        /\ UNCHANGED <<server, get, pane, switches, faults, overlapped, crossed>>

(* Hub.Subscribe, and from then on the loop of the handler.                *)
Subscribe(c) ==
    /\ conn[c].stage = "replayed"
    /\ conn' = [conn EXCEPT ![c].stage = "live"]
    /\ UNCHANGED <<server, get, pane, ghosts>>

(* ReadEventsTail and ReadEventsBefore, as hAttemptEvents calls them. The  *)
(* file is read when the answer is used: lines that are appended in        *)
(* between reach the pane, or not, as those before the stream is served.   *)
LastOf(s, n) == SubSeq(s, IF Len(s) > n THEN Len(s) - n + 1 ELSE 1, Len(s))

Answer(request) ==
    LET a == request.att
        older == Kept(file[a], {i \in DOMAIN file[a] : file[a][i] < request.before})
        lines == IF request.kind = "tail" THEN LastOf(file[a], TailSize)
                 ELSE LastOf(older, PageSize)
    IN  [i \in DOMAIN lines |-> [att |-> a, seq |-> lines[i]]]

-----------------------------------------------------------------------------
(* The faults.                                                             *)

Fault == faults < MaxFaults /\ faults' = faults + 1

Broken(c) == [conn[c] EXCEPT !.stage = "opening", !.wire = <<>>, !.chan = <<>>]

(* A stream breaks, and the EventSource asks again.                        *)
Drop(c) ==
    /\ Fault
    /\ conn[c].stage \in {"replayed", "live"}
    /\ conn' = [conn EXCEPT ![c] = Broken(c)]
    /\ UNCHANGED <<server, get, pane, switches, overlapped, excused, crossed, echoed>>

(* The server ends and starts again: appends are cut off where they are,   *)
(* and the next number is that of the file.                                *)
Restart ==
    /\ Fault
    /\ writer' = [w \in Writers |-> Idle]
    /\ seqs' = [a \in Attempts |->
                  IF file[a] = <<>> THEN 0
                  ELSE CHOOSE m \in Values(file[a]) : \A n \in Values(file[a]) : n <= m]
    /\ conn' = [c \in Conns |-> IF conn[c].stage = "closed" THEN conn[c] ELSE Broken(c)]
    /\ UNCHANGED <<script, file, gone, get, pane, switches, overlapped, excused, crossed, echoed>>

-----------------------------------------------------------------------------
(* The pane.                                                               *)

InFlight == {g \in Gets : get[g].kind # "none"}

(* VARIANT: the old stream stays open.                                     *)
UnsubscribeNot == conn

(* this.unsub()                                                            *)
Unsubscribe == [c \in Conns |-> IF c = unsub THEN Closed ELSE conn[c]]

Send(request) ==
    LET free == Gets \ InFlight
    IN  /\ free # {}
        /\ get' = [get EXCEPT ![CHOOSE g \in free : TRUE] = request]

(* The parent selects an attempt, or none, and the watch calls reload.     *)
Switch(a) ==
    /\ mounted
    /\ a # attemptId
    /\ switches < MaxSwitches
    /\ switches' = switches + 1
    /\ attemptId' = a
    /\ conn' = Unsubscribe
    /\ unsub' = NoConn
    /\ events' = <<>> /\ messages' = <<>>
    /\ hasMore' = FALSE /\ loadingMore' = FALSE /\ timer' = FALSE
    /\ IF a = NoAttempt THEN UNCHANGED get
       ELSE Send([kind |-> "tail", att |-> a, before |-> 0])
    /\ overlapped' = (overlapped \/ InFlight # {})
    /\ UNCHANGED <<server, mounted, faults, excused, crossed, echoed>>

First(evts) == evts[1].seq
Last(evts) == IF evts = <<>> THEN 0 ELSE evts[Len(evts)].seq

(* A request succeeds, or fails on the way; one for an attempt that is     *)
(* gone finds no file and has no events.                                   *)
Outcome(ok) == IF ok THEN UNCHANGED faults ELSE Fault

(* reload after its await. The stream is the one of the attempt that is    *)
(* selected by then, since the last event there is by then.                *)
Loaded(g, ok) ==
    LET now == IF ok THEN Answer(get[g]) ELSE events
        free == {c \in Conns : conn[c].stage = "closed"}
    IN  /\ get[g].kind = "tail"
        /\ get' = [get EXCEPT ![g] = NoGet]
        /\ events' = now
        /\ messages' = IF ok THEN Rebuild(now) ELSE messages
        /\ hasMore' = IF ok THEN now # <<>> /\ First(now) > 1 ELSE hasMore
        /\ free # {}
        /\ unsub' = CHOOSE c \in free : TRUE
        /\ conn' = [conn EXCEPT ![unsub'] = [Closed EXCEPT !.stage = "opening",
                                                           !.att = attemptId,
                                                           !.since = Last(now)]]
        /\ echoed' = IF ok THEN echoed \cup Unpublished(get[g].att) ELSE echoed
        /\ Outcome(ok)
        /\ UNCHANGED <<server, attemptId, loadingMore, timer, mounted,
                       switches, overlapped, excused, crossed>>

(* loadMore, up to its await.                                              *)
LoadMore ==
    /\ mounted
    /\ hasMore /\ ~loadingMore /\ attemptId # NoAttempt
    /\ events # <<>> /\ First(events) # 0
    /\ loadingMore' = TRUE
    /\ Send([kind |-> "page", att |-> attemptId, before |-> First(events)])
    /\ UNCHANGED <<server, conn, attemptId, events, messages, hasMore, timer, unsub,
                   mounted, ghosts>>

(* VARIANT: the older events go below the newer ones.                      *)
JoinBelow(older, newer) == newer \o older

Join(older, newer) == older \o newer

(* loadMore after its await.                                               *)
MoreLoaded(g, ok) ==
    /\ get[g].kind = "page"
    /\ get' = [get EXCEPT ![g] = NoGet]
    /\ loadingMore' = FALSE
    /\ \E older \in {Answer(get[g])} :
           IF ~ok THEN UNCHANGED <<events, messages, hasMore>>
           ELSE IF older = <<>> THEN hasMore' = FALSE /\ UNCHANGED <<events, messages>>
           ELSE /\ events' = Join(older, events)
                /\ messages' = Rebuild(Join(older, events))
                /\ hasMore' = (First(older) > 1)
    /\ echoed' = IF ok THEN echoed \cup Unpublished(get[g].att) ELSE echoed
    /\ Outcome(ok)
    /\ UNCHANGED <<server, conn, attemptId, timer, unsub, mounted,
                   switches, overlapped, excused, crossed>>

(* The next frame of a stream: the replay first, then the hub's buffer.    *)
Ahead(c) == conn[c].wire \o conn[c].chan

Popped(c) ==
    IF conn[c].wire # <<>> THEN [conn[c] EXCEPT !.wire = Tail(@)]
    ELSE [conn[c] EXCEPT !.chan = Tail(@)]

(* VARIANT: the reconnect starts at the number of the URL again.           *)
LastEventIdNot(since, n) == since

(* VARIANT: the reconnect asks for one event less than is missing.         *)
LastEventIdNext(since, n) == IF n = 0 THEN since ELSE n + 1

(* VARIANT: the reconnect asks for the last event again.                   *)
LastEventIdBack(since, n) == n - 1

(* A frame with a number is where the EventSource will resume.             *)
LastEventId(since, n) == IF n = 0 THEN since ELSE n

(* onmessage, and the callback of reload with its scheduleRebuild.         *)
Deliver(c) ==
    LET n == Head(Ahead(c))
    IN  /\ conn[c].stage \in {"replayed", "live"}
        /\ Ahead(c) # <<>>
        /\ conn' = [conn EXCEPT ![c] = [Popped(c) EXCEPT !.since = LastEventId(@, n)]]
        /\ events' = Append(events, [att |-> conn[c].att, seq |-> n])
        /\ timer' = TRUE
        /\ UNCHANGED <<server, get, attemptId, messages, hasMore, loadingMore, unsub,
                       mounted, ghosts>>

(* The timer of scheduleRebuild.                                           *)
Tick ==
    /\ timer
    /\ timer' = FALSE
    /\ messages' = Rebuild(events)
    /\ UNCHANGED <<server, conn, get, attemptId, events, hasMore, loadingMore, unsub,
                   mounted, ghosts>>

(* beforeUnmount: the pane is closed with its modal.                       *)
Unmount ==
    /\ mounted
    /\ mounted' = FALSE
    /\ conn' = Unsubscribe
    /\ timer' = FALSE
    /\ overlapped' = (overlapped \/ InFlight # {})
    /\ UNCHANGED <<server, get, attemptId, events, messages, hasMore, loadingMore, unsub,
                   switches, faults, excused, crossed, echoed>>

Next ==
    \/ \E w \in Writers, a \in Attempts : TakeSeq(w, a)
    \/ \E w \in Writers : WriteLine(w) \/ Publish(w)
    \/ \E a \in Attempts : Delete(a)
    \/ \E c \in Conns : Serve(c) \/ Subscribe(c) \/ Deliver(c) \/ Drop(c)
    \/ \E g \in Gets, ok \in BOOLEAN : Loaded(g, ok) \/ MoreLoaded(g, ok)
    \/ Restart
    \/ \E a \in Attempts \cup {NoAttempt} : Switch(a)
    \/ LoadMore \/ Tick \/ Unmount

(* The server's goroutines, the network and the browser's timers go on;    *)
(* nobody has to write, to select or to page.                              *)
Fairness ==
    /\ \A w \in Writers : WF_vars(WriteLine(w)) /\ WF_vars(Publish(w))
    /\ \A c \in Conns : WF_vars(Serve(c)) /\ WF_vars(Subscribe(c)) /\ WF_vars(Deliver(c))
    /\ \A g \in Gets : WF_vars(Loaded(g, TRUE)) /\ WF_vars(MoreLoaded(g, TRUE))
    /\ WF_vars(Tick)

Spec == Init /\ [][Next]_vars /\ Fairness

-----------------------------------------------------------------------------
TypeOK ==
    /\ script \in Scripts
    /\ seqs \in [Attempts -> Nat]
    /\ file \in [Attempts -> Seq(Nat)]
    /\ gone \subseteq Attempts
    /\ writer \in [Writers -> [stage : {"idle", "numbered", "written"},
                               att : Attempts \cup {NoAttempt}, seq : Nat]]
    /\ conn \in [Conns -> [stage : {"closed", "opening", "replayed", "live"},
                           att : Attempts \cup {NoAttempt}, since : Nat, upto : Nat,
                           wire : Seq(Nat), chan : Seq(Nat)]]
    /\ get \in [Gets -> [kind : {"none", "tail", "page"}, att : Attempts \cup {NoAttempt},
                         before : Nat]]
    /\ attemptId \in Attempts \cup {NoAttempt}
    /\ events \in Seq(Event)
    /\ hasMore \in BOOLEAN /\ loadingMore \in BOOLEAN /\ timer \in BOOLEAN
    /\ unsub \in Conns \cup {NoConn}
    /\ mounted \in BOOLEAN
    /\ switches \in 0 .. MaxSwitches /\ faults \in 0 .. MaxFaults
    /\ overlapped \in BOOLEAN
    /\ excused \subseteq Attempts \X Nat
    /\ crossed \subseteq Attempts \X Nat
    /\ echoed \subseteq Attempts \X Nat

Open == {c \in Conns : conn[c].stage # "closed"}

(* As long as no selection overtakes an answer, the pane shows only events *)
(* of the attempt that is selected, at most one stream is open, and none   *)
(* after the pane was closed. Overtaken answers are the only way in: they  *)
(* are taken for answers about the attempt that is selected by then.       *)
OwnEventsOnly ==
    ~overlapped =>
        /\ mounted => \A e \in Values(events) : e.att = attemptId
        /\ Open \subseteq IF mounted THEN {unsub} ELSE {}

(* Nothing of the selected attempt is on its way to the pane.              *)
Settled ==
    /\ mounted /\ ~overlapped /\ InFlight = {} /\ unsub # NoConn
    /\ attemptId \in Attempts \ gone
    /\ conn[unsub].stage = "live" /\ Ahead(unsub) = <<>>
    /\ \A w \in Writers : writer[w].att # attemptId

Numbers == {e.seq : e \in Values(events)}

(* When nothing is on its way, every line of the log is in the pane, or    *)
(* older than its first event with "load earlier" on offer, or was lost in *)
(* one of the windows the server leaves: between the replay and the        *)
(* subscription, by a stream that starts without a number, by the limit of *)
(* a replay, by a full buffer, or written or published out of order.       *)
NothingElseLost ==
    Settled =>
        \A n \in Values(file[attemptId]) :
            \/ n \in Numbers
            \/ events # <<>> /\ n < First(events) /\ hasMore
            \/ <<attemptId, n>> \in excused \cup crossed

(* An event is shown twice only if it was read before it was published, or *)
(* if the log is out of order.                                             *)
NothingElseTwice ==
    mounted /\ ~overlapped =>
        \A i, j \in DOMAIN events :
            i < j /\ events[i] = events[j] /\ events[i].seq # 0 =>
                \/ <<attemptId, events[i].seq>> \in echoed
                \/ crossed # {}

Whole == Rebuild([i \in DOMAIN file[attemptId] |-> [att |-> attemptId, seq |-> file[attemptId][i]]])

(* When nothing was lost or doubled, the cards are the last cards of the   *)
(* whole log: loading the tail first and paging back changes none of them, *)
(* but for a bubble that the first event cuts in two.                      *)
CardsOfTheLog ==
    Settled /\ ~timer /\ excused = {} /\ crossed = {} /\ echoed = {} =>
        LET n == Len(messages)
            m == Len(Whole)
        IN  /\ n <= m
            /\ \A i \in 2 .. n : messages[i] = Whole[m - n + i]
            /\ ~hasMore => messages = Whole

(* Every line of the selected attempt's log is on the screen, or known to  *)
(* be lost or older than what is loaded.                                   *)
CaughtUp ==
    mounted /\ ~overlapped /\ attemptId \in Attempts \ gone =>
        /\ InFlight = {}
        /\ messages = Rebuild(events)
        /\ \A n \in Values(file[attemptId]) :
               \/ n \in Numbers
               \/ <<attemptId, n>> \in excused \cup crossed
               \/ events # <<>> /\ n < First(events)

(* The pane catches up with the log again and again, through lost streams, *)
(* failed requests and restarts of the server: no event waits for the next *)
(* one, for a selection or for a click.                                    *)
CatchesUp == []<>CaughtUp

=============================================================================

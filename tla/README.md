# A verified model of hermes-taskboard

hermes-taskboard is a Go server with a browser front end. Users keep tasks on a
board; starting a task makes an *attempt*, a conversation with a Hermes agent
server that a goroutine drives turn by turn while handlers, a scheduler, a cron
worker, an auto-resumer and the boot code act on the same rows and files. This
directory holds TLA+ modules that model the parts of it where the order of
things matters, TLC configurations that check them on small instances, and
proofs, checked by TLAPS, that hold for every instance. Paths below are
relative to the repository's root.

    tlc  -workers 2 -config AttemptSafety.cfg MCAttemptRunner     # a run
    tlapm AttemptRunner_proofs.tla                                # its proofs

## 1. The system

| Component | Source | State | Operations |
|---|---|---|---|
| Attempt runner | `internal/attempt/runner.go` | `Runner.active` (attempt -> live goroutine) behind `Runner.mu`; each goroutine's input queue and context | `Start`, `SendMessage`, `Cancel`, `TryReconnect`, `ResumeOrphans`; the goroutines `loop`/`runOnce`/`handleEvent` and `resumeLoop` |
| Auto-resumer | `internal/attempt/resumer.go` | none of its own; reads rows, `meta.json`, `Runner.active` | `tick`, `autoSend` |
| Board state machine | `internal/board/board.go` | the table of legal moves | `Transition`, `MaybeAdvanceAfterAttempt` |
| HTTP handlers | `internal/server/handlers.go` | per request | tasks, attempts, servers, tags, schedules, streams, settings |
| Store | `internal/store/store.go`, `manager.go`, `sqlite/` | one SQLite file per user: tasks, tags, dependencies, attempts, schedules | CRUD, `MoveTask`, `CountActive`, `AllDependenciesDone`, due schedules |
| Task cache | `internal/store/cache.go` | task id -> task | `get`, `put`, `invalidate` |
| Attempt files | `internal/store/fsstore/` | `meta.json`, `events.ndjson`, task documents, the sequence counters | load/save, `AppendEvent`, `ReadEventsRange` |
| Scheduler | `internal/scheduler/scheduler.go` | the tick's place in users and tasks | `tick`, `tickUser` |
| Cron worker | `internal/cron/worker.go` | the list of due schedules | `rehydrate`, `tick`, `Compute` |
| SSE hub and streams | `internal/sse/hub.go`, stream handlers | subscribers with buffers of 256 events | `Subscribe`, `Publish`, replay |
| User directory, tags | `internal/userdir/`, `internal/server/users.go` | a cached `config.yaml` per user, a disabled sentinel, tag files | users, servers, tags; uniqueness of shared ids |
| Hermes client, pool | `internal/hermes/client.go` | id -> client | `CreateResponse`, streams, `Pool.Reload` |
| Reaper | `internal/reaper/reaper.go` | directories without rows | `sweepUser` |
| Legacy migration | `internal/migrate/` | old and new data layout | `MigrateLegacy` |
| Log pane | `webfs/web/js/event-stream.js`, `sse.js` | the events of one attempt, the cards made of them, a timer, one open stream | select, load the tail, page back, follow, rebuild |
| Drag and drop | `webfs/web/js/drag.js`, the columns and panels of `app.js` | one drag, its placeholder, the hidden card | press, move, release, cancel; `refreshTasks` |
| Card pane | `TaskModal`, `ChatWorkspace` in `app.js` | the selected card and attempt, the list of attempts, "ask again" flags | load, page, patch by notices, start, stop, delete, save |
| Inputs and forms | `description-editor.js`, `tag-input.js`, `dependency-picker.js`, `chatInputMixin`, `NewTaskModal`, `TaskModal` | text, tags, dependencies, uploads under way | type, attach, send, save |
| Configuration, authentication, uploads, entry point, other pages | `internal/config`, `internal/auth`, `internal/uploads`, `cmd/`, the rest of `internal/webfs` | snapshot pointer, signed cookies, files | -- |

How they meet:

- **The attempt row** (`attempts.state`), **`meta.json`** and **`Runner.active`**
  are three views of one attempt with three different locks (SQLite's, none,
  `Runner.mu`). Handlers, goroutines, the resumer and the boot code change them
  in steps with nothing held in between; `meta.json` is always loaded, edited
  and saved as a whole.
- **The task row** is moved by users, by `Start` and `SendMessage` (to Execute)
  and by whoever settles the last attempt (`MaybeAdvanceAfterAttempt`, to
  Verify). Each reads first and writes later.
- **`Runner.Start`** is called by handlers, the scheduler and the cron worker;
  its gate counts the active rows of every user's database, one after the other.
- **The event log and the hub** carry what a goroutine reads from Hermes to
  browsers: append, publish, replay and subscribe are four separate steps.
- **Browser and server** meet in requests whose answers come late, in another
  order, or not at all, while the user goes on: selects another card, types,
  drags. The board's stream only says *that* something changed; the browser
  answers with a request for the whole list, and the list may arrive in the
  middle of a drag.

What is hard: the interleavings just named; crashes between two of the writes;
streams that break, retries with a budget, requests whose client goes away; the
idle time-out of a loop racing with events; a queue read for the last time while
somebody still puts into it; an answer that is applied to a page that has moved
on. The places are listed, at their lines, under "hazards" in `PROJECT.json`.

What makes each component correct:

- *Attempt runner*: one loop per attempt; `Runner.active` tells the truth; a
  turn is chained to the last response that was received to its end; an attempt
  that waits for the user is left waiting; after a crash no attempt is
  forgotten; every loop ends; a follow-up is driven.
- *Auto-resumer*: a broken-off turn is retried, at most `AutoResumeMaxRetries`
  times and not after the user stopped it.
- *Board*: a task in Verify has no attempt under way; only legal moves.
- *Scheduler and gate*: caps are kept (as far as an unlocked gate can), and a
  task that may start is not passed over.
- *Store and cache*: positions keep the order of a column; a read after a write
  does not return what was there before the write.
- *Cron*: a due schedule fires once; a user's edit is not overwritten.
- *Streams and log pane*: the pane shows the events of the selected attempt,
  every one, once and in order, and keeps up with the log.
- *Drag and drop*: a card lands between the cards the user saw, comes back onto
  the screen, and the board shows what the database says.
- *Card pane*: what is shown and what a command goes to is what is selected.
- *Inputs*: nothing that was typed is lost, nothing comes back that was sent.
- *Directory*: one owner per shared id and tag name; one admin at least.
- *Migration*: it can be run again after a crash at any point.

## 2. Modules

| Module | Models | Lines of it |
|---|---|---|
| `BoardTable` | task states, `validTransitions`, the outcome of a move | board.go, model.go |
| `AttemptRunner` | the life of an attempt | runner.go, resumer.go, boot in main.go, what they call |
| `MCAttemptRunner` | an instance for TLC | |
| `AttemptRunner_proofs` | theorems about `AttemptRunner` | |
| `Dispatch` | scheduler, cron and handlers as callers of the concurrency gate | runner.go `Start`, scheduler.go, store counts |
| `MCDispatch` | an instance for TLC | |
| `Dispatch_proofs` | theorems about `Dispatch` | |
| `Columns` | positions of the cards in a column | store.go |
| `CardOrder` | the order of cards in a column, without positions | the abstract specification of `Columns` |
| `MCColumns`, `Columns_proofs` | an instance for TLC, theorems | |
| `TaskBoard` | task reads and writes over the task cache | cache.go, store.go, board.go, task handlers |
| `MCTaskBoard`, `TaskBoard_proofs` | an instance for TLC, theorems | |
| `EventStream` | the log of an attempt, the hub, the streams, and the pane that follows | fsstore.go, hub.go, handlers.go, event-stream.js, sse.js |
| `Drag` | a drag from the pointer to the table and back | drag.js, app.js, handlers.go, over `Columns` |
| `Lists` | what is done with an array: drop an entry, filter (the loop of `filter`), rows in order of their ids | used by `Workspace`, `Composer`, `EventStream` |
| `Workspace` | the pane of a card and its requests | app.js, handlers.go |
| `Composer` | message input and task forms with their uploads | app.js, description-editor.js, tag-input.js, dependency-picker.js |
| `MCEventStream`, `MCDrag`, `MCWorkspace`, `MCComposer` | instances for TLC | |
| `EventStream_proofs` | theorems about `EventStream` | |
| `Drag_proofs`, `Workspace_proofs`, `Composer_proofs` | theorems about `Drag` (with those about `Columns`), `Workspace`, `Composer` | |

`PROJECT.json` maps every definition to its lines. An operator whose comment
begins with VARIANT is not used by the model: it is the operator beside it with
a mistake in it, kept to show that the properties notice the mistake.

### AttemptRunner

Processes: goroutine slots (`Goroutines`), handler slots (`Requests`), the
`Resumer` and the `Boot` code. `pc` says what a process does next, `att` for
which attempt, `snap` what it read earlier and still acts on, `buf` the copy of
`meta.json` it is about to write. One step is one SQL statement, one read or
write of `meta.json`, or one critical section of `Runner.mu`, so every
interleaving of those is explored.

| Code | Model |
|---|---|
| `attempts.state`, `tasks.status`, `meta.json` | `state`, `task`, `meta` |
| `Runner.active`, `runCtx.queue`, its context | `active`, `queue`, `cancelled` |
| `loop` / `runOnce` / `handleEvent` | `run`, `call`, `saveCold`, `coldCall`, `stream`, `saveEvent`, `saveEnd`, `select`, `finish`, `fail`, `exit` |
| `resumeLoop` | the same stream with `tailing`, then `tailFinish` |
| `Start` after its gate | `create`, `saveNew`, `toExecute`, `startLoop` |
| `SendMessage`, `Cancel`, `TryReconnect` | `Send`.., `Cancel`.., `TryReconnect`.. |
| `Resumer.tick`, `autoSend` | `Tick`, `Skip`, `Retry`, `saveBump`, `startLoop` |
| `ResumeOrphans` and `main` | `Crash` (all memory is lost; the orphans are listed), `BootSkip`, `BootAttach`, `BootContinue`, `BootFail`, `Serve` |
| Hermes | outcomes of a call and events of a stream, chosen freely |
| a statement or a file that fails | `Fault`: `Lapse` where it costs a write, `Miss` where it can leave an orphan behind |

The code ignores most errors of its reads and writes (`_ = UpdateAttemptState`,
`_ = SaveAttemptMeta`, a `Stores.Get` after which it returns), and so does the
model: at most `MaxFaults` of them fail. A boot can pass over an attempt in this
way: the list of orphans fails and `main` only warns and serves (main.go:135);
`Stores.Get` fails and `ResumeOrphans` goes to the next one (runner.go:86);
`markFailed`, which a failed rebuild of the prompt reaches with budget left
(runner.go:143), ignores that its write failed (runner.go:124); a loop the boot
has started cannot open the store, or loses its last write. The history variable
`missed` remembers these until the server serves; no guard reads it.

Abstractions: `ListAllActiveAttempts` fails as a whole; the text of messages and
events; `response.created` comes once in
a stream and nothing follows `response.completed`; a turn is always streamed;
whether `AutoResumeCooldown` has passed is a choice of each visit of the
resumer; `Transition`'s read and write are one step (they are apart from
`MaybeAdvanceAfterAttempt`'s reads); `SendMessage`'s and `TryReconnect`'s reads
are one step each; a save of `meta.json` is atomic (the code's `atomicWrite`
uses one temporary name per file, see the hazard at `fsstore.go:328`); the
event log and the broadcasts are not in this module, nor are the deletion of
tasks and attempts and the drags of users.

### Dispatch

Callers of `Start`: the scheduler (which lists a user's plan column, visits its
tasks one by one, and comes to the next user), the cron worker and handlers.
`Call` reads the task and resolves the server; `CountUser` reads the active rows
of the next user; `Gate` reads the last user's and decides; `Create` inserts and
moves the task, `CreateOnly` inserts and loses the rest; `StartFails` is a start
whose client goes away, or of which a count or the insert fails. Between these steps
other callers, users (drags, follow-ups), administrators and attempts that
settle do theirs. Counts are kept as the set `seen` of counted rows, whose
cardinality the gate compares: the same numbers, in a form that can be proved
about.

Abstractions: `AttemptRunner` settles and reopens attempts here in one step
each; the two `COUNT`s of one database are one step, as are `CreateAttempt`
and the move after it, and the two reads of the task in a drag; users are not
created or deleted; an attempt id is set aside for its task and server in
advance, and a settled id may be used for a new row.

### Columns

`status` and `position` of every task; `CreateTask`, `SetTaskStatus`,
`MoveTask` and `DeleteTask` are one transaction, and one action, each. `Highest`
is the `MAX(position)` of a column (0 for its NULL), `Neighbours` the rows in
the order SQLite may return them (ties either way), `Slots` the place that
`after_id` or `before_id` asks for (none when that card has left the column),
`Middle` and `Dropped` the arithmetic of `MoveTask` with Go's truncating
division and the renumbering of a crowded column. Bound: positions stay within
`Room`; a step that could leave it is not taken. 64-bit overflow would need
2^53 steps of 1024 and is not modelled. Clients name one of the six columns.

`CardOrder` says the same without numbers: `above` relates the cards of a column,
and an operation puts one card at the end, or directly below or above another,
and leaves the order of the rest alone. `Columns` implements it under the
mapping `above <- {<<x, y>> : same column, position[x] < position[y]}`. Nothing in
the table makes positions different, so `above` is an order with ties.

### TaskBoard

Processes are handlers, goroutines, the scheduler and the cron worker, which
differ only in what they do. `row` is a task's rows in `tasks`, `task_tags` and
`task_deps`, `att` the state of its attempts, `cache` the map of `taskCache`.

| Code | Model |
|---|---|
| `GetTask` | `Lookup`, `ReadRow`, `ReadTags`, `ReadCounts`, `Put` |
| `ListTasks` | the same from `ReadRow` for all tasks, one `Put` per task |
| `taskCache.put` with its eviction | `PutOne`, `Victims` |
| `hPatchTask`, `UpdateTask` | `UpdateTask` on the copy, then `Invalidate` |
| `hTransition` | `Read`, `Dragged`, then `MoveTask`, `SetTaskStatus` or `CreateAttempt` |
| `Board.Transition` | a read, then `SetTaskStatus` |
| `MaybeAdvanceAfterAttempt` | a read, `MaybeAdvance`, a read, `SetTaskStatus` |
| `Runner.Start` | a read, `CreateAttempt`, `Invalidate`, a read, `SetTaskStatus` |
| `UpdateAttemptState` | `UpdateAttemptState`, `Owner` or `OwnerFails`, `Invalidate` |
| `hDeleteTask`, `hDeleteAttempt` | `DeleteTask` (with `RowsWithout`: the dependencies of others on it go too); `RemoveAttempt`, `DeleteAttempt` |
| a client that leaves, an error, a refusal | `Finish`; in `ReadCounts` the counts cut short |

Two writes reach rows of other tasks than the one whose copy they drop.
`DeleteTask` removes the dependencies that name the deleted task (store.go:291),
and `MoveTask` renumbers the whole column when there is no room (store.go:217);
both invalidate one id. Copies of the other tasks stay as they are, without any
race, until the next write to them.

Four history variables say of copies that they may differ. `raced[p]` are the
copies of `p` that a write has overtaken or a leaving client cut short, `suspect`
the cached copies that came from such a reader or whose writer never got to drop
them; `shifted[p]` and `misplaced` are the copies, held and cached, whose card was
renumbered by the move of another. They are not read by any guard.

Abstractions: a task is a status, a position, a set of tags, a set of
dependencies, and a title (all other columns of its row); its tags and
dependencies are read by neighbouring statements, here in one step; which
position a move gives is `Columns`' subject, here it is one of `Slots`, and a
neighbour may get any other; the description
file is not modelled; any other entry may be the oldest; a filtered list is a
shorter list; an attempt is active, settled or deleted (`AttemptRunner` has the
rest), and the gate of `Start` is `Dispatch`'s.

### EventStream

The server side: `TakeSeq`, `WriteLine` and `Publish` are the three steps of an
append (`FS.NextSeq`, the write, `hub.Publish`), by the loop and by a handler;
`Serve` is the replay of a stream handler, `Subscribe` its subscription,
`Deliver` one event on its way to the browser; a subscriber whose buffer is full
loses what is published. `Drop` breaks a connection and the browser's
EventSource opens it again with the last number it received; `Restart` takes the
process away with its hub and its counters, which come back from the files;
`Delete` removes the attempt.

The browser side: `Switch`, `Loaded`, `LoadMore`, `MoreLoaded`, `Tick` and
`Unmount` are the handlers of the pane with all they call; `Rebuild` is the fold
of `rebuild` that makes bubbles, notes and tool calls of events.
`Event`s carry their attempt, which the code's do not: that is how the model can
tell that a pane shows another attempt's log.

Ghosts name the windows the server leaves: `excused` are events that a full
buffer, the gap between replay and subscription, a first stream without a number
or the limit of a replay loses; `crossed` are events written or published out of
the order of their numbers; `echoed` those that were read from the file before
they were published. `overlapped` says that a selection overtook an answer
(event-stream.js:256 does not look again at which attempt is selected).

Abstractions: what an event says is its kind and its tool; scrolling, copying
and the text of a card are left out.

### Drag

The table of tasks and its statements are those of `Columns` (`INSTANCE`), the
moves those of `BoardTable`. `CardPointerDown`, `ItemPointerDown`, `Start`,
`Move`, `MovePanel`, `MoveTab`, `Release` and `Cancel` are the handlers of
drag.js; the list under the pointer keeps its order while a placeholder, a place
in it, moves. `Release` names the neighbours of the placeholder as the DOM has
them, the hidden card included. `Transition` is `hTransition` with its three
branches, `Dropped` its answer; `Notice`, `ListTasks`, `Listed` are the board's
stream and `refreshTasks`, whose answers cross. Ghosts: `left` are the cards that
a drag leaves hidden (a release over nothing; a second pointer), `unseen` and
`overtaken` say that a list was lost or came late.

Abstractions: the pointer's position is the choice of the card it is over; the
search field, sounds and the floating clone are left out; in the chat the
placeholder is only moved where drag.js can put it (its `insertBefore` fails
when the card is nested deeper, drag.js:139, and nothing changes). `Start`'s gate
is `Dispatch`'s: here it starts or refuses.

### Workspace

`w` is the data of the component, `gets` and `calls` the requests in flight as
they were sent. `Selecting` (select, close, pick an attempt), `Loadings` (the
answers of the card and of its list, the older page), `Clicks` (the clicks that
ask before a stop or a deletion), `Commands` (start, stop, reconnect, delete,
save, send) and `Answers` are the handlers. `load()` numbers its requests and
drops answers to older ones; pages, saves and starts do not. Modal and chat
differ where the code differs.

The pane is not alone. `Flip` is an attempt that an agent, the resumer or a
message or stop from another browser gives a turn or ends; `Elsewhere` is what
others do to the rows: the scheduler, a schedule (worker.go:133), a move to
Execute (handlers.go:315) and other browsers start attempts, other browsers
delete attempts and cards. A notice tells the pane of a new state, and it patches
the attempt if it is in its list; it does not look at notices of others
(app.js:643), so a new attempt is seen when the list is loaded next. `Serve`
is a handler that works or refuses; one that has worked may answer with an error
all the same, when a later step fails (`SaveAttemptMeta`, runner.go:336) or the
answer does not come back, and `CutOff` is a connection that breaks before the
handler has even run. In both cases `api` throws and a start is not followed by
`load()` (app.js:1161).

Ghosts: `cardLost` and `listLost` (the last request for what is selected failed),
`reopened` (the card was closed while it was under way), `crossed` (a page was
added to a list it was not asked for), `overlooked` (attempts of the selected
card that were started without an answer telling this pane so, or deleted
elsewhere, or whose notice was lost or came while an older list was under way,
until the list is read again). No guard reads them.

### Composer

One box of three kinds. A text is a set of pieces: words, and links to files
with the number DescriptionEditor or the mixin gives them. `Attach` keeps,
for the message input, the text as it was (app.js writes it back with the link
added), for the forms nothing (description-editor.js adds to the text of then).
Tags are chips and a field of names, dependencies rows of a card and a state.
`SendMsg` empties the input before it posts; a save sends a copy of the form; the
answer of a load writes over the form. Ghosts: `mine` is what the user has put in
and not taken out, `touched` what was put in or out while the message input had
an upload under way or by a pasted list of tags, `muddled` that numbering cannot
be expected to hold.

## 3. What the runs check

### AttemptSafety (pass)

One attempt, two handlers, two goroutine slots, the resumer, the boot code; two
accepted turns, one retry, two requests, one client that goes away, two reads or
writes that fail, one crash, a queue of one. Handlers
and goroutines are interchangeable (symmetry). 2.3 million distinct states.

- `TypeOK`, which holds the retry budget (`count <= MaxRetries`) and the queue
  capacity.
- `OneLoopPerAttempt`, `ActiveIsLive`: no mixture of starts, follow-ups,
  retries, reconnects and reboots gives an attempt two loops, and
  `Runner.active` names exactly the live goroutines.
- `ChainsOffCompleted`: `latest_response_id` never names a response that was
  cancelled or broke off, also when two processes rewrite `meta.json` at once
  (what `TestCancelDoesNotPersistStaleResponseID` tests on one schedule).
- `NeedsInputKept` (action property): only a stop request completes an attempt
  that waits for the user.
- `OrphansAdopted` (action property): when the server starts to serve after a
  crash, every attempt found queued or running is driven, settled or left to
  the resumer, except the `missed` ones: a failed read or write of the boot, or of
  the end of a loop it started, leaves an attempt active with nobody to work for
  it until the next restart. A failed write that is not the last chance (the save
  of the retry count, the state set when a turn begins) makes no exception.

*Why the bounds are enough*: attempts share nothing but their task's status, so
one attempt shows every conflict over its row, file and map entry. Two handlers,
two goroutines and the resumer give every pair and triple of writers; two turns
give a completed response to chain to and a later one that is cut; one retry
and a queue of one reach both limits; of two failures the boot survives one and
not the other; a second crash starts again from a state
a first one can leave. The theorems drop these bounds.

### AttemptLiveness (pass)

One handler, one goroutine slot, two requests, one read or write that fails, one
crash (279 thousand states).

- `LoopSettles`: a goroutine ends, or waits for the user with an empty queue, or
  stays for ever in one turn that Hermes does not end and nobody stops. What it
  excludes is a loop that goes round, or hangs, on its own account: between two
  turns, after a stop, around its 50 ms of silence.
- `BrokenTurnRetried`: an attempt that is active with a broken-off turn and
  budget left is retried, or is settled by somebody.

Fairness: weak for the steps of goroutines, handlers, the ticker, the resumer
and the boot code outside a turn, because the Go runtime schedules every runnable
goroutine and tickers fire; strong for `Retry`, because a cooldown that is over
stays over, while a visit that skips may come in between. Nothing is assumed of
Hermes: the client sets no time-out on a call (`Timeout: 0`, client.go:80), its
`ResponseHeaderTimeout` does not concern the body of a stream, and a pool of 16
silent streams keeps a further call waiting. A turn ends when Hermes ends it or
when its context is cancelled, which closes the stream (`TurnStops`, strongly
fair, because events that are already buffered may be handled first). Nothing is
assumed of users, of clients or of crashes.

### Dispatch (pass)

Two users with one task each (the second waits for the first), two servers with
caps 1 and 2, a global cap of 2, the scheduler, the cron worker and one handler;
508 thousand states, with liveness. Any start may fail.

- `GlobalOvershootBounded`, `ServerOvershootBounded`: with *n* callers of
  `Start` a cap is passed by at most *n - 1*, counting callers already admitted.
- `AutoTaskStarts`: if a task waits for ever with room for it all the time, then
  attempts come and go for ever. So in a quiet system the scheduler starts it,
  whatever else it meets on its way. The escape is real: counts of different
  databases are taken at different times, and a busy system can show the
  scheduler a full count at every visit though it was never full. It assumes that
  the scheduler's own statements do not go on failing (`StartFails`).

Three callers, of which two are never the same goroutine, and two databases are
the least in which a count is overtaken on the database it has passed. The
theorems hold for any number. Fairness: weak for the scheduler's steps alone.

### Columns (pass)

Three cards, two columns, a step of 4 and room for 16; 11 thousand states.

- `DropLands`: a card dropped below (above) another stands directly below
  (above) it, strictly: no rounding makes two cards level there.
- `OrderKept`: an operation on one card leaves the order of the others,
  renumbering included.
- `KeepsCardOrder` (refinement): every behaviour, seen through the order of the
  positions, is one of `CardOrder`; so a card created or transitioned stands
  below its column, and no operation moves two cards.

A step of 4 is used up by two drops into the same gap, so all branches of
`MoveTask` and negative positions occur; three cards give a card and its two
neighbours. The theorems hold for any step of at least 2 and any cards.

### TaskBoard (pass)

Two processes; a task that everything is done to, and one that depends on it,
stands in Execute and is looked at; one attempt, two positions, a cache of one
entry, drags to Verify and Execute; 1.7 million states. A stopped process can
always be restarted, so there is no deadlock to allow for. A PATCH writes back
what it read (there is one title and one set of tags, and it may drop the
dependencies): that two PATCHes differ adds states and no race, and the proof
covers it.

- `CacheExact`: a cached copy equals the database, or a writer is about to drop
  it, or it is `suspect`. Beyond the three races, a copy can differ in two ways
  only, for which no race is needed: it may name deleted tasks among its
  dependencies, and it may have the position from before another card's move
  renumbered its column. Status, tags, counts and every other column are exact.
- `MovesLegal` (action property): a `Transition` that no write overtakes between
  its read and its write moves the *row* along the table, although it looked at
  a copy that may have come from the cache.
- `NoOrphans` (action property): an attempt is created for a task that exists,
  unless the task was deleted while `Start` was under way.

Each property is about one task against its writers; the second task is there to
evict, to be listed, to depend and to be renumbered. One process that reads and
one that writes make every
race of the cache; what more of them add is covered by the theorems.

### EventStream (pass)

One attempt with a log of three events (a bubble cut by a page and ended by a
note) or two (a tool call and its end), another one to select; two writers, two
streams, two requests; a tail, a page, a replay and a buffer of one; two
selections, one fault; 176 thousand states, with liveness. What happens after a
selection overtook an answer is not followed (`Followed`): from then on the pane
may show anything, which the hazard at `event-stream.js:256` records.

- `OwnEventsOnly`: events of another attempt never reach the pane, at most one
  stream is open, and none after the pane is gone.
- `NothingElseLost`: when nothing is on its way, a line of the log is in the
  pane, or above it with "load earlier" on offer, or fell into one of the windows.
- `NothingElseTwice`: an event stands twice only if it was read before it was
  published, or the log is out of order.
- `CardsOfTheLog`: what is built from a tail, pages in front and events behind is
  what the whole log gives, but for a bubble cut by the first event.
- `CatchesUp` (liveness): the pane shows the log again and again, through lost
  streams, failed requests and restarts.

Fairness: the server's goroutines, the network and the browser's timer go on;
nobody has to write, to select or to page. Bounds of one put every limit (tail,
page, replay, buffer) between any two events, and two writers make every order
of number, line and publication.

### Drag (pass)

Three cards in two columns, of which a column shows two, the board and the chat,
two drops and two lists in flight, two presses, changes by others or faults; 535
thousand states.

- `LandsBetween`: a card that is moved next to a neighbour stands directly below
  the card that was above the placeholder at release (at the top: directly above
  the one below), whatever was rendered or moved meanwhile. Not when drag.js
  names the dragged card itself.
- `OnlyDraggedHidden`: a card is off the screen only while it is dragged, or when
  its drag ended over no column or was replaced by a second pointer's.
- `BoardCatchesUp`: when nothing is under way the board shows the table, unless
  the last message or list was lost or an older answer came after a newer one.

Three cards are a dragged card and two neighbours, and with a limit of two a
neighbour can be out of sight. Two turns are two drags, or one and what another
user does to its neighbours; two lists are the least that can cross.

### Workspace (pass)

Two cards, one with two attempts and so a second page, one with one, room for an
attempt more, pages of one, four requests and two commands in flight, three
turns; both panes; one of the cards may be archived, and so deleted; 3.0 million
states.

- `ShownIsSelected`: the card shown is the card selected, and its fields are the
  ones a save sends, in whatever order answers come; except while an answer is
  awaited, after it failed, or after a close that overtook it.
- `ActiveIsOfSelected`: a message or a stop goes to an attempt of the selected
  card, with the same exceptions and that of a page of another list.
- `AttemptsCatchUp`: when nothing is under way the list is a gapless end of the
  card's attempts in their present states, and all of them when "load earlier" is
  not on offer, except `overlooked` ones; after its request failed it may be empty.
  An attempt that others start is `overlooked` until the list is read again: the
  pane really does not show it. What is left to say is that the pane's own starts
  and deletions, pages, notices and reloads lose or spoil nothing, in any order and
  beside anything others do.

Each exception names its cause, and each occurs. Three turns are two selections
and a command, or a selection, a command and a start elsewhere: an answer of the
first card can come after the second was selected, and its own command in
between. What others do, failures and lost notices are turns too.

### Composer (pass)

The three boxes, two words, two nameless images and a film, two tags, two uploads
in flight, six turns; 482 thousand states.

- `WhatWasPutIn`: a form holds what the user put in and not took out. No answer
  loses what was typed before it or brings back what was sent or erased, except
  in the message input what was typed, sent or erased while an upload was under
  way, and all but the last of several tags pasted at once.
- `NumbersApart`: links to nameless files of a kind have different numbers, as
  long as uploads do not overlap and no link is taken out (the comment at
  description-editor.js:74 promises it without the condition).

Two uploads overlap, two images can share a number, the film has its own
category; six turns are enough to attach, type, send, type, attach, erase.

### Runs that end in a violation

Each checks one statement of the documentation; the counterexample is a real
schedule of the code.

| Run | Statement | What happens |
|---|---|---|
| `StopRespected` | no auto-retry resurrects a turn the user stopped (CHANGELOG.md:314) | the stream broke, so a stop finds no live loop and leaves the reason "abnormal"; the resumer, which listed the attempt before, retries it |
| `LandsAtPlaceholder` | a drop commits to an exact slot between neighbours (CHANGELOG.md:776) | the dragged card is hidden but still in its column; released right below its old place, the drop names the card itself as its upper neighbour (drag.js:173), which `MoveTask` does not find among the others; it takes the default branch (store.go:245) and writes the position 1024 whatever the column holds. In the trace that is the position of the column's first card, and the two are level |
| `AskedTwice` | clicking once reveals a second "Confirm delete?" button (CHANGELOG.md:783); two-click confirm of a stop (manual.en.md:65) | one click asks; another attempt or card is selected, and the flag stays (app.js:567, 597); the next click there stops or deletes what was not asked about |

### Statements that do not hold and have no run of their own

They are definitions in the modules; adding one to the .cfg of its module's run
shows a trace (for the two of `AttemptRunner`, `AttemptLiveness.cfg` with `Spec`
and `MaxFaults = 0`, so that no failed write takes the place of the interleaving).

| Definition | Statement | What happens |
|---|---|---|
| `VerifyMeansSettled` (AttemptRunner) | a card with an attempt still active stays in Execute (docs/requirements.md:164) | a stop completes the attempt and moves the task to Verify; an `input_required` that was on its way makes the attempt wait for the user again. Or: a goroutine that failed its attempt reads that all attempts are terminal, a follow-up requeues the attempt and finds the task still in Execute, and the goroutine then moves it to Verify. The state stays: no process works for the attempt any more |
| `QueuedIsDriven` (AttemptRunner) | a follow-up makes the attempt run again (docs/requirements.md:166) | the follow-up finds the loop in `Runner.active` after the loop's last look at its queue, puts the message there, and it is dropped; the attempt stays queued without a loop or a retry |
| `GlobalCapKept` (Dispatch, with `GlobalCap = 1`: the run has two attempts) | `global_max_concurrent` is the upper limit (docs/requirements.md:219) | one start has counted the first user's rows, another inserts there, and both pass |
| `PlaceFresh` (TaskBoard) | MoveTask invalidates on writes so that stale positions never leak into the single-task view (cache.go:18) | a card is moved into a column without room, its neighbours are renumbered, and the neighbour that is cached keeps its old position: only the moved card is invalidated (store.go:263) |
| `CacheFresh` (TaskBoard) | writes drop the stale entry so the next read is fresh (CHANGELOG.md:361) | a list has read a task; the task is deleted and its entry invalidated; the list puts its copy, and the deleted task is served from the cache |
| `IllegalBounces` (Drag) | a drag the table of moves does not allow is rejected and the card goes back (docs/requirements.md:170) | a drop with a neighbour is a `MoveTask` (handlers.go:327), which does not look at the table |

The passing properties beside them say how far the statements do hold:
`GlobalOvershootBounded`, `CacheExact`, `MovesLegal`, `LandsBetween`.

Other ways in which the code can surprise, met while modelling, about which no
document makes a statement and which no property here forbids:

- a task stays in Execute when the server crashes between the two writes that
  settle its last attempt; an archived task is not kept from `MaybeAdvance`;
- `input_required` that arrives after a stop brings the attempt back to waiting;
- a turn is not always chained to the *latest* completed response, since a
  concurrent save brings an older copy back;
- a client that gives up on its stop request cancels the writes of `Cancel`, not
  the cancellation; when `meta.json` cannot be saved a new row stays queued; when
  the retries are used up an attempt stays running and keeps its place;
- an attempt is deleted while its loop still writes its files, and two saves of
  one `meta.json` share the name of their temporary file (fsstore.go:328);
- an attempt whose store or row cannot be read or written during a restart stays
  queued or running, and counts against the caps, until the next restart;
- a cached copy goes on naming a dependency that was deleted with its task, and
  a PATCH that does not mention the dependencies writes it back;
- a list of attempts that is open does not show an attempt that the scheduler, a
  schedule or another browser starts (app.js:643);
- overlapping uploads in the message input overwrite each other's link, or what
  was typed meanwhile (app.js 488-545); a message whose post fails is gone; the
  answer of a load writes over a form that is being edited (app.js:1039).

## 4. What is proved

The proofs hold for all values of the constants that satisfy the named
assumptions: any number of attempts, tasks, goroutines, handlers, users,
servers, requests, logs and cache entries, any caps and bounds. The assumptions
say only that kinds of processes are different, that bounds are numbers, that
caps and the queue have room for one, and that sets of rows, tasks and callers
are finite where they are counted.

| Theorem | Says |
|---|---|
| `AttemptRunner_proofs!TypeCorrect` | `Spec => []TypeOK` |
| `...!ActiveCorrect`, `...!OneLoopCorrect` | `Spec => []ActiveIsLive`, `Spec => []OneLoopPerAttempt` |
| `...!ChainCorrect` | `Spec => []ChainsOffCompleted` |
| `...!NeedsInputCorrect`, `...!OrphansCorrect` | `Spec => NeedsInputKept`, `Spec => OrphansAdopted` |
| `Dispatch_proofs!TypeCorrect` | `Spec => []TypeOK` |
| `...!GlobalOvershoot`, `...!ServerOvershoot` | `Spec => []GlobalOvershootBounded`, `Spec => []ServerOvershootBounded` |
| `Columns_proofs!TypeCorrect`, `...!OrderCorrect`, `...!DropCorrect`, `...!EndCorrect` | `Spec => []TypeOK`, `Spec => OrderKept`, `Spec => DropLands`, `Spec => EndOfColumn` (a card created or transitioned stands below its column) |
| `...!OrderImplemented` | `Spec => KeepsCardOrder`: `Columns` implements `CardOrder` |
| `TaskBoard_proofs!TypeCorrect`, `...!CacheCorrect` | `Spec => []TypeOK`, `Spec => []CacheExact` |
| `...!MovesCorrect`, `...!OrphansCorrect` | `Spec => MovesLegal`, `Spec => NoOrphans` |
| `Workspace_proofs!TypeCorrect` | `Spec => []TypeOK` |
| `...!ShownCorrect`, `...!ActiveCorrect` | `Spec => []ShownIsSelected`, `Spec => []ActiveIsOfSelected` |
| `...!CatchUpCorrect` | `Spec => []AttemptsCatchUp` |
| `EventStream_proofs!TypeCorrect` | `Spec => []TypeOK` |
| `...!OwnCorrect`, `...!LostCorrect` | `Spec => []OwnEventsOnly`, `Spec => []NothingElseLost` |
| `...!TwiceCorrect`, `...!CardsCorrect` | `Spec => []NothingElseTwice`, `Spec => []CardsOfTheLog` |
| `Drag_proofs!TypeCorrect` | `Spec => []TypeOK` |
| `...!HiddenCorrect`, `...!CatchUpCorrect`, `...!LandsCorrect` | `Spec => []OnlyDraggedHidden`, `Spec => []BoardCatchesUp`, `Spec => LandsBetween` |
| `Composer_proofs!TypeCorrect` | `Spec => []TypeOK` |
| `...!TextCorrect`, `...!NumbersCorrect` | `Spec => []WhatWasPutIn`, `Spec => []NumbersApart` |

*AttemptRunner.* `TypeOK` alone is not inductive: it needs that a working
process has an attempt and that the outcome `resumeLoop` chose is terminal
(`TypeInv`). With types known, `ActiveIsLive` is inductive: the check of
`startLoop` and its insertion are one critical section, and a goroutine removes
only its own entry. `OneLoopPerAttempt` follows from it. `ChainsOffCompleted` is
a statement about a file that several processes hold copies of, so the invariant
speaks of the copies too (`BufChained`): every copy that may still be saved names
a completed response, or nothing. For `NeedsInputKept` the invariant
(`SettlesNoWaiting`) records what a goroutine has read before it settles its
attempt: only it, or a stop, changes the row in between. `OrphansAdopted` is about
the step that ends the boot, so its invariant (`Booting`) is about the whole of
it: `ResumeOrphans` starts goroutines while it goes on, and they may end before
it does. Every attempt caught by the crash is still to be visited, has a
goroutine, has its broken turn on record, or is the one in hand (`Cared`); for the
second to become the third or a settled state, a goroutine that leaves must have
written one of them down (`LeavesInOrder`), which in turn needs that `meta.json`
exists by then. Or it is `missed`: the failures that break one of these cases are
exactly those that `Miss` records, and each `Lapse` is shown to break none. A
second crash starts again from whatever state the first boot
had reached; nothing is assumed of it.

*Dispatch.* List the active rows that the gate let in, on all servers or on one,
in the order they were inserted, each with its caller. The invariant (`Ordered`)
says: a caller's current or next count sees its own last row and all rows before
it; who is admitted saw fewer than the cap; and a caller has no two rows of
which the first is at the cap or after it. So rows from the cap-th on have
different callers, none of them admitted, and there are fewer of them than
callers. The list is bound by an existential quantifier: the proof needs no
history variable, and the model carries none. Inserting appends to the list,
settling closes a gap in it.

*Columns.* Types suffice as the invariant; the work is in the arithmetic of one
drop (`DropBetween`): the position given to slot *k* lies strictly between those
of its neighbours, for a middle of a gap of at least two, for an end, and after a
renumbering, whose ranks keep the order. The refinement is one step per action
(`RefinementStep`): the pairs of the others are kept by `OrderKept`'s lemma, and
what puts the card at the end or beside its neighbour is `DropLands`'s; a drop
whose neighbour has left maps to a drop anywhere, which `CardOrder` allows.

*TaskBoard.* `CacheExact` is not inductive: what enters the cache is a reader's
copy. `BoardInv` says of every copy, half read or whole, held or cached, that
unless it is marked as raced the parts read so far are what the database says, the
dependencies up to deleted tasks (which stay deleted: an id is given out once) and
the position unless the copy is marked as shifted;
that a reader has the copies it is about to fill; and that the writer who will
drop an entry still has the row that names it (`WillDrop`: `Owner` must find the
attempt). All writes are one case of the proof (`WroteKeeps`): the copies of
others that they overtake become raced, and their own process will drop the
cached one. `MovesCorrect` and `OrphansCorrect` are what `BoardInv` says of the
copy a process decides on.

*EventStream.* Any attempts, logs of any length and content, goroutines, streams
and requests, a buffer and a replay of any limit, a tail and a page of at least
one event. The five invariants follow from one, `StreamInv`:

- `BaseInv` has the types, what the server keeps (a log holds numbers given out,
  in order but for `crossed`; goroutines hold different ones, later than the log or
  `crossed`; without `crossed` what is written and unpublished is the end of the
  log), and what the pane keeps (`Owning`): before a selection overtakes an answer,
  streams, answers and events are about the attempt that is selected, and the
  cards are those of the events, or the timer is set.
- `FlowInv` is about the pipeline of the pane, the numbers it shows followed by
  those its stream still brings (`Flow`, `NoneLost`). A line of the log is shown,
  older and on offer, in a window, or on its way; or it is beyond the whole pipeline
  and a goroutine has still to publish it, or the stream has still to be served.
  The stream's number is the last one shown, so a reconnect asks for what comes
  after it: for this every number on its way is above all before it, or stands
  there already, or has its excuse. `NothingElseLost` says nothing until all is
  quiet; the invariant is what holds before, through breaks, replays and restarts.
- `TwiceInv` (`NoneTwice`) says that the pipeline rises, except where what follows
  is `echoed`, together with all of the log from it to where it falls back: a line
  that was read before it was published comes again with those read with it.

A server step appends to the pipeline, a page is put before it, a break cuts its
end off, a replay puts the rest of the log behind it: for each of these one lemma
on lists of numbers says that the relation to the file is kept, and one more that
the action does this (`LostServe` and `ServeFlow`, `TwicePage` and
`MoreLoadedTwice`).

`CardsOfTheLog` follows from the three. With nothing lost or doubled the pane
holds the end of the log (`ShownFacts`, from `LastPart`: two rising lists, one in
the other and all its greater entries there too). `rebuild` then walks this end,
and `AlikeWalk` compares its walk with that over the whole log: the same bubble in
the making, the same cards but for the first, tool calls at places that differ by
the cards before, or, when a call is above what is loaded, unknown to the shorter
walk. `CardsOfTheLog` excepts the first card because a bubble may be cut there.

The walk and the filter are recursive functions over a sequence. The library's
induction rules cannot be used, so `LeastNumber` (a set of numbers has a least
one, from the theorem that `<` is well founded) takes their place: the least step
at which a claim fails is not the first, and the step before gives it. The lemmas
about `Kept` are in each of the three modules that need them, under the same names.

*Drag.* Any number of cards, columns, drops and lists. What the theorems on
`Columns` say of the table is used through an instance of their module (`Rows`),
so `LandsCorrect` adds only what is new: that the neighbour a drop names is the one
that stood above the placeholder, or, at the top, below it (`SeenInv`), whatever
the hidden card in between, and that the drop is still that drop when the server
comes to it. `TypeInv` counts what is under way: each press, drag, drop and message
has a turn of its own (`Counted`), which is why the counter of messages stays
within its bound. `OnlyDraggedHidden` needs that a live drag is not of a card some
earlier drag has left hidden. For `BoardCatchesUp` the invariant (`Newest`) says of
the lists in flight that old ones come first, and that the last of them, or the
board when there is none, is what the table shows once no message and no request
is left. The assumptions name what a column's proof needs: finitely many cards, a
step of two at least, and room for one renumbering.

*Workspace.* Any number of cards, of attempts, of requests and commands in
flight; ids are numbers, given out in order, and there are finitely many. The two
properties need each other's neighbours: an answer that counts must be about the
selected card (`Own`, because every selection takes a new number and `Numbered`
says no request has one that is still to come), and a list must hold attempts of
the card it was asked for (`Origins`, because an attempt never changes its card
and pages are read from the rows). That an attempt stands once in the list is the
order of the ids (`Sorted`): a page ends before the first attempt the pane has,
which holds until the answer because nothing else puts an attempt in front. That
in turn needs `Single`: one page is asked for at a time, and while a list is
awaited there is nothing to ask a page for. `crossed` marks where the code has no
guard, in `loadMoreAttempts`. The lemmas on `Lists` (`KeptFacts`, `InOrderFacts`
and others) show that its operators order, keep and drop what they say.

`AttemptsCatchUp` says nothing until all is quiet, so its invariant (`CatchInv`)
says why an attempt may be wrong or missing before: a message about it is on its
way, and the last one has its present state (`Told`); a command of this pane was
carried out and will load the list when its answer, now known to be good, comes
(`Owed`); or it is `overlooked`, as an attempt started elsewhere is at once. That holds
of the list on the screen (`PaneRight`), of every answer the pane will still
accept, and of the gap an older page is to fill, down to the attempt it was asked
for (`AnswersRight`). An older page joins the list without a gap because it was
asked for at the first attempt the list has, which only `crossed` breaks.
Once nothing is in flight only the last excuse is left. Proving it showed that
less had been stated than holds: the list is complete whenever no more is on
offer, which `AttemptsCatchUp` now says.

*Composer.* Any number of files, uploads, saves and messages. `WhatWasPutIn` needs
to know what an answer will write: in the forms it adds to the text of then, so
nothing more; the message input writes back the text its upload began with, which
`OfMessage` says differs from the text of now only in touched pieces. Pieces, tags
and dependencies never coincide (`Kinds`), so a turn that concerns one leaves the
others alone. `Underway` says of every upload that its files are different and
were not in the text it began with, and that its links so far are of the first of
them, so the next link is a new one.
`NumbersApart` is not inductive: that two numbers differ now says nothing of the
next. The invariant (`Counted`) is that a number is no higher than the count of
links of its category, so the count plus one is free; of an upload under way, that
the text it counted has these links still, or in the message input has lost some
by being sent (`Numbers`). `muddled` marks where the count may fall
behind: a second upload beside the first, a link taken out or replaced, and a
text that comes from the server, about whose numbers nothing is known.

*Only model-checked*: the liveness properties (`LoopSettles`,
`BrokenTurnRetried`, `AutoTaskStarts`, `CatchesUp`), since the prover does not
reason about fairness. Every other property of the passing runs is a theorem.

## 5. Not modelled

- *Yet*, see the plan: the rows of schedules (the cron worker is a caller of
  `Start` only), the writes of the user directory and the tag files,
  `Pool.Reload`, the migration, the reaper; the files that deletions remove.
- *At all*: authentication (stateless signed cookies), configuration (one
  pointer behind a mutex), the object store behind uploads (I/O with no shared
  state), the probe; of the front end the settings, the schedule picker, login,
  help, sounds, languages and the rendering of markdown, which keep no state that
  crosses a request. The prompt builders and `LookupAttempt` only read.

## 6. Plan

The order puts first what most of the system depends on. Constants carry named
assumptions, one action stands for one operation, and no module that is proved
about uses RECURSIVE.

1. `AttemptRunner`, its runs and proofs -- done; its safety properties are all proved.
2. `Dispatch`, its runs and proofs -- done.
3. `Columns` with its abstract `CardOrder`, and `TaskBoard`, their runs and
   proofs -- done. To add: an abstract store that answers from the last committed
   write, which `TaskBoard` without its races implements.
4. `EventStream` -- modelled, checked and proved. To add: a second pane, and the
   log after a selection overtook an answer.
5. The front end: `Drag`, `Workspace`, `Composer` -- modelled, checked and proved.
6. `Schedules`: `rehydrate`, `tick`, the schedule handlers, lost fires and
   overwritten edits. Composes with `Dispatch`: a fire is one of its calls. One
   schedule, one editor, small times.
7. `Registry`: users, disabling, last admin, shared server ids, public tags and
   `Pool.Reload`. To prove: the uniqueness that each lock does give.
8. `Migration`: the steps of `MigrateLegacy` with a crash after each, and a
   rerun; the reaper's sweep beside it.

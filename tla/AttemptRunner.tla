--------------------------- MODULE AttemptRunner ----------------------------
(***************************************************************************)
(* The life of an attempt: internal/attempt/runner.go and resumer.go with  *)
(* the calls they make into internal/board/board.go.                       *)
(*                                                                         *)
(* Four kinds of process share the rows of the attempts table, the         *)
(* meta.json of every attempt and the Runner's map of live loops:          *)
(*   - the goroutine that drives an attempt (Runner.loop, or resumeLoop    *)
(*     when it only tails a run that is already under way),                *)
(*   - HTTP handlers (Start, SendMessage, Cancel, TryReconnect),           *)
(*   - the Resumer, which retries turns whose stream broke,                *)
(*   - the boot code, which re-adopts attempts after a crash.              *)
(* One step of the model is one database statement, one read or write of   *)
(* meta.json, or one critical section of Runner.mu.                        *)
(***************************************************************************)
EXTENDS Integers, FiniteSets, BoardTable

CONSTANTS
    Attempts,      \* attempt ids
    Tasks,         \* task ids
    TaskOf,        \* the task each attempt belongs to
    Goroutines,    \* slots for the goroutines spawned by the Runner
    Requests,      \* slots for HTTP handlers
    Resumer,       \* the auto-resume process
    Boot,          \* the boot process
    NoAttempt,     \* "no attempt"
    NoGoroutine,   \* "no entry in the active map"
    QueueCap,      \* capacity of runCtx.queue (32 in the code)
    MaxRetries,    \* AutoResumeMaxRetries (3 in the code)
    MaxRuns,       \* bound: Hermes accepts at most this many turns
    MaxRequests,   \* bound: HTTP requests that are made
    MaxDisconnects,\* bound: HTTP clients that give up on a request
    MaxFaults,     \* bound: reads and writes of an attempt that fail
    MaxCrashes     \* bound: crashes of the process

ASSUME TasksAssumption == TaskOf \in [Attempts -> Tasks]
ASSUME BoundsAssumption ==
    /\ QueueCap \in Nat \ {0}
    /\ MaxRetries \in Nat
    /\ MaxRuns \in Nat
    /\ MaxRequests \in Nat
    /\ MaxDisconnects \in Nat
    /\ MaxFaults \in Nat
    /\ MaxCrashes \in Nat
ASSUME ProcessesAssumption ==
    /\ NoAttempt \notin Attempts
    /\ NoGoroutine \notin Goroutines
    /\ Goroutines \cap Requests = {}
    /\ Resumer \notin Goroutines \cup Requests
    /\ Boot \notin Goroutines \cup Requests \cup {Resumer}

VARIABLES
    up,         \* "booting" while ResumeOrphans runs, then "up"
    state,      \* attempts.state in SQLite; "none" before the row exists
    task,       \* tasks.status in SQLite
    meta,       \* meta.json of each attempt
    active,     \* Runner.active: attempt id -> live goroutine
    queue,      \* number of inputs waiting in each goroutine's runCtx.queue
    cancelled,  \* the process's context is cancelled
    tailing,    \* the goroutine is a resumeLoop, not a loop
    run,        \* the Hermes run the goroutine streams
    saw,        \* runOnce's sawCompleted
    pc,         \* what each process does next
    att,        \* the attempt each process works on
    snap,       \* the state, status or outcome a process read earlier
    buf,        \* the copy of meta.json a process is about to write
    todo,       \* attempts the Resumer or the boot code still has to visit
    nextRun,    \* the id Hermes gives the next run
    requests,   \* HTTP requests so far
    disconnects,\* clients gone so far
    faults,     \* reads and writes that failed so far
    crashes,    \* crashes so far
    completed,  \* history: runs whose response.completed was received
    stopped,    \* history: stopped by the user, who has not touched it since
    missed      \* history: of the boot under way, see Miss

rows     == <<state, task>>
loopVars == <<queue, cancelled, tailing, run, saw>>
procVars == <<pc, att, snap, buf>>
ghosts   == <<completed, stopped>>
failures == <<faults, missed>>
bounds   == <<nextRun, requests, disconnects, crashes>>
vars     == <<up, rows, meta, active, loopVars, procVars, todo, bounds, ghosts, failures>>

Procs  == Goroutines \cup Requests \cup {Resumer, Boot}
RunIds == 0 .. MaxRuns                   \* 0 is the empty run or response id

Active        == {"queued", "running", "needs_input"}
Terminal      == {"completed", "failed", "cancelled"}
AttemptStates == {"none"} \cup Active \cup Terminal

(* AttemptSession: current_run_id, latest_response_id, the reason of the   *)
(* last disconnect and continue_resume_count. `has` is FALSE until the     *)
(* file exists. last_continue_at is abstracted: whether AutoResumeCooldown *)
(* has passed is a choice of every visit of the Resumer.                   *)
Reasons == {"", "completed", "abnormal", "cancelled"}
Meta == [has : BOOLEAN, run : RunIds, latest : RunIds, reason : Reasons,
         count : 0 .. MaxRetries]
NoMeta  == [has |-> FALSE, run |-> 0, latest |-> 0, reason |-> "",
            count |-> 0]
NewMeta == [NoMeta EXCEPT !.has = TRUE]

GoPcs   == {"run", "call", "saveCold", "coldCall", "stream", "saveEvent",
            "saveEnd", "select", "finish", "fail", "tailFinish", "exit"}
ReqPcs  == {"create", "saveNew", "toExecute", "startLoop", "saveReset",
            "sendRoute", "cancelWrite", "attach"}
Pcs     == {"idle", "advance", "toVerify", "saveBump"} \cup GoPcs \cup ReqPcs

TypeOK ==
    /\ up \in {"booting", "up"}
    /\ state \in [Attempts -> AttemptStates]
    /\ task \in [Tasks -> TaskStatus]
    /\ meta \in [Attempts -> Meta]
    /\ active \in [Attempts -> Goroutines \cup {NoGoroutine}]
    /\ queue \in [Goroutines -> 0 .. QueueCap]
    /\ cancelled \in [Procs -> BOOLEAN]
    /\ tailing \in [Goroutines -> BOOLEAN]
    /\ run \in [Goroutines -> RunIds]
    /\ saw \in [Goroutines -> BOOLEAN]
    /\ pc \in [Procs -> Pcs]
    /\ att \in [Procs -> Attempts \cup {NoAttempt}]
    /\ snap \in [Procs -> AttemptStates \cup TaskStatus]
    /\ buf \in [Procs -> Meta]
    /\ todo \in SUBSET Attempts
    /\ nextRun \in 1 .. MaxRuns + 1
    /\ requests \in 0 .. MaxRequests
    /\ disconnects \in 0 .. MaxDisconnects
    /\ crashes \in 0 .. MaxCrashes
    /\ faults \in 0 .. MaxFaults
    /\ completed \in [Attempts -> SUBSET RunIds]
    /\ stopped \in [Attempts -> BOOLEAN]
    /\ missed \in SUBSET Attempts

Init ==
    /\ up = "up"
    /\ state \in [Attempts -> {"none", "completed"}]
    /\ task \in [Tasks -> {"plan", "execute"}]
    /\ meta = [a \in Attempts |-> IF state[a] = "none" THEN NoMeta ELSE NewMeta]
    /\ active = [a \in Attempts |-> NoGoroutine]
    /\ queue = [g \in Goroutines |-> 0]
    /\ cancelled = [p \in Procs |-> FALSE]
    /\ tailing = [g \in Goroutines |-> FALSE]
    /\ run = [g \in Goroutines |-> 0]
    /\ saw = [g \in Goroutines |-> FALSE]
    /\ pc = [p \in Procs |-> "idle"]
    /\ att = [p \in Procs |-> NoAttempt]
    /\ snap = [p \in Procs |-> "none"]
    /\ buf = [p \in Procs |-> NoMeta]
    /\ todo = {}
    /\ nextRun = 1
    /\ requests = 0
    /\ disconnects = 0
    /\ crashes = 0
    /\ faults = 0
    /\ completed = [a \in Attempts |-> {}]
    /\ stopped = [a \in Attempts |-> FALSE]
    /\ missed = {}

-----------------------------------------------------------------------------
(* Where a process goes when the call it made returns: a goroutine runs its*)
(* deferred cleanup, a handler ends, the Resumer is ready to go on.        *)
Home(p) == IF p \in Goroutines THEN "exit" ELSE "idle"

Goto(p, step) == pc' = [pc EXCEPT ![p] = step]

Return(p) ==
    /\ Goto(p, Home(p))
    /\ att' = IF p \in Goroutines THEN att ELSE [att EXCEPT ![p] = NoAttempt]
    /\ snap' = [snap EXCEPT ![p] = "none"]
    /\ buf' = [buf EXCEPT ![p] = NoMeta]
    /\ cancelled' = IF p \in Goroutines THEN cancelled ELSE [cancelled EXCEPT ![p] = FALSE]

(* A statement run under the caller's context fails once that context is   *)
(* cancelled. resumeLoop writes under context.Background().                *)
ContextDone(p) == cancelled[p] /\ ~(p \in Goroutines /\ tailing[p])

(* A read or write of an attempt may fail besides, and most callers ignore *)
(* that. The failures the rescue of an orphan cannot survive are remembered*)
(* until the boot is over.                                                 *)
Fault == faults < MaxFaults /\ faults' = faults + 1
Lapse == Fault /\ UNCHANGED missed
Miss(a) ==
    /\ Fault
    /\ missed' = IF up = "booting" THEN missed \cup {a} ELSE missed

AttemptsOf(t) == {a \in Attempts : TaskOf[a] = t /\ state[a] # "none"}
AllAttemptsTerminal(t) ==
    /\ AttemptsOf(t) # {}
    /\ \A a \in AttemptsOf(t) : state[a] \in Terminal

SetState(a, s) == state' = [state EXCEPT ![a] = s]

(* `_ = UpdateAttemptState`: the caller goes on whether it worked or not.  *)
TrySetState(p, a, s) ==
    \/ ~ContextDone(p) /\ SetState(a, s) /\ UNCHANGED failures
    \/ ContextDone(p) /\ UNCHANGED <<state, failures>>
    \/ Miss(a) /\ UNCHANGED state

(* An operator whose comment begins with VARIANT is not used by the model: *)
(* it is the definition after it as a plausible mistake would have it, and *)
(* stands by to show that the properties below can fail.                   *)

(* The attempts ResumeOrphans and the Resumer visit.                       *)
(* VARIANT: an attempt caught before its first turn is forgotten.          *)
OrphansRunning == {a \in Attempts : state[a] = "running"}
Orphans        == {a \in Attempts : state[a] \in {"running", "queued"}}

(* VARIANT: the list of active attempts reads the running ones only.       *)
ActiveRunning  == {a \in Attempts : state[a] = "running"}
ActiveAttempts == {a \in Attempts : state[a] \in Active}

(* VARIANT: one retry more than AutoResumeMaxRetries.                      *)
HasBudgetPlus(a) == meta[a].has /\ meta[a].count <= MaxRetries
HasBudget(a)     == meta[a].has /\ meta[a].count < MaxRetries

(* The check startLoop and resumeAttempt make under Runner.mu.             *)
(* VARIANT: a goroutine that tails a run is not taken for a live one.      *)
HasLoop(a) == active[a] # NoGoroutine /\ ~tailing[active[a]]
IsLive(a)  == active[a] # NoGoroutine

(* The copy of meta.json response.created writes: the run, never the       *)
(* response a next turn chains to.                                         *)
(* VARIANT: the run is chained to as soon as it is created.                *)
CreatedChained(m, id) == [m EXCEPT !.run = id, !.latest = id]
Created(m, id)        == [m EXCEPT !.run = id]

(* The states in which 50 ms of silence leave the loop waiting.            *)
(* VARIANT: none, and VARIANT: after a finished turn as well.              *)
PatientNever   == {}
PatientRunning == {"needs_input", "running"}
Patient        == {"needs_input"}

(* startLoop and autoSend: hand one input to the live goroutine of the     *)
(* attempt, where a full queue drops it, or start a loop for it.           *)
Push(g) == queue' = [queue EXCEPT ![g] = IF @ < QueueCap THEN @ + 1 ELSE @]

(* Register a runCtx for the attempt of p and spawn its goroutine, which   *)
(* begins at `step`.                                                       *)
Spawn(p, g, step) ==
    /\ pc[g] = "idle"
    /\ active' = [active EXCEPT ![att[p]] = g]
    /\ pc' = [pc EXCEPT ![p] = Home(p), ![g] = step]
    /\ att' = [att EXCEPT ![p] = NoAttempt, ![g] = att[p]]
    /\ snap' = [snap EXCEPT ![p] = "none"]
    /\ buf' = [buf EXCEPT ![p] = NoMeta]
    /\ cancelled' = [cancelled EXCEPT ![p] = FALSE]

StartLoop(p) ==
    /\ pc[p] = "startLoop"
    /\ \/ /\ IsLive(att[p])
          /\ Push(active[att[p]])
          /\ Return(p)
          /\ UNCHANGED <<active, failures>>
       \/ /\ ~IsLive(att[p])
          /\ \E g \in Goroutines : Spawn(p, g, "run")
          /\ UNCHANGED <<queue, failures>>
       \/ /\ ~IsLive(att[p])                 \* loop: Stores.Get failed
          /\ \E g \in Goroutines : Spawn(p, g, "exit")
          /\ Miss(att[p])
          /\ UNCHANGED queue
    /\ UNCHANGED <<up, rows, meta, tailing, run, saw, todo, bounds, ghosts>>

(* resumeAttempt: tail the run named by the meta.json read earlier, unless *)
(* the attempt is live by now.                                             *)
Attach(p) ==
    /\ pc[p] = "attach"
    /\ \/ /\ IsLive(att[p])
          /\ Return(p)
          /\ UNCHANGED <<active, tailing, run>>
       \/ /\ ~IsLive(att[p])
          /\ \E g \in Goroutines :
                /\ Spawn(p, g, "stream")
                /\ tailing' = [tailing EXCEPT ![g] = TRUE]
                /\ run' = [run EXCEPT ![g] = buf[p].run]
    /\ UNCHANGED <<up, rows, meta, queue, saw, todo, bounds, ghosts, failures>>

(* MaybeAdvanceAfterAttempt: the two reads, then the write of Transition.  *)
Advance(p) ==
    /\ pc[p] = "advance"
    /\ LET t == TaskOf[att[p]] IN
       IF ~ContextDone(p) /\ task[t] = "execute" /\ AllAttemptsTerminal(t)
       THEN Goto(p, "toVerify") /\ UNCHANGED <<att, snap, buf, cancelled>>
       ELSE Return(p)
    /\ UNCHANGED <<up, rows, meta, active, queue, tailing, run, saw, todo, bounds, ghosts, failures>>

ToVerify(p) ==
    /\ pc[p] = "toVerify"
    /\ LET t == TaskOf[att[p]] IN
       task' = IF ContextDone(p) THEN task ELSE [task EXCEPT ![t] = Moved(@, "verify")]
    /\ Return(p)
    /\ UNCHANGED <<up, state, meta, active, queue, tailing, run, saw, todo, bounds, ghosts, failures>>

(* Transition to execute, made by Start and by a follow-up message.        *)
ToExecute(p) ==
    /\ pc[p] = "toExecute"
    /\ LET t == TaskOf[att[p]] IN
       task' = IF ContextDone(p) THEN task ELSE [task EXCEPT ![t] = Moved(@, "execute")]
    /\ Goto(p, "startLoop")
    /\ UNCHANGED <<up, state, meta, active, loopVars, att, snap, buf, todo, bounds, ghosts, failures>>

(* Every change of meta.json reads the file, edits the copy and writes the *)
(* whole copy back: the write of the copy is a step of its own. A copy     *)
(* that could not be read or written is dropped without a word.            *)
SaveSteps == {"saveCold", "saveEvent", "saveEnd", "saveReset", "saveBump"}

AfterSave(p) ==
    CASE pc[p] = "saveCold"  -> {"coldCall"}
      [] pc[p] = "saveEvent" -> {"stream"}
      [] pc[p] = "saveReset" -> {"sendRoute"}
      [] pc[p] = "saveBump"  -> {"startLoop"}
      [] pc[p] = "saveEnd"   -> CASE buf[p].reason = "abnormal"  -> {"exit"}
                                  [] buf[p].reason = "cancelled" -> {"select", "fail"}
                                  [] OTHER                       -> {"select"}

SaveMeta(p) ==
    /\ pc[p] \in SaveSteps
    /\ \/ /\ meta' = IF buf[p].has THEN [meta EXCEPT ![att[p]] = buf[p]] ELSE meta
          /\ UNCHANGED failures
       \/ /\ IF pc[p] = "saveEnd" /\ buf[p].reason = "abnormal"
             THEN Miss(att[p])
             ELSE Lapse
          /\ UNCHANGED meta
    /\ \E step \in AfterSave(p) : Goto(p, step)
    /\ buf' = [buf EXCEPT ![p] = NoMeta]
    /\ UNCHANGED <<up, rows, active, loopVars, att, snap, todo, bounds, ghosts>>

-----------------------------------------------------------------------------
(* HTTP handlers.                                                          *)

Accept(r, a, step) ==
    /\ up = "up"
    /\ pc[r] = "idle"
    /\ requests < MaxRequests
    /\ requests' = requests + 1
    /\ Goto(r, step)
    /\ att' = [att EXCEPT ![r] = a]

(* The client closes the connection: the handler's r.Context() is done.    *)
ClientGone(r) ==
    /\ pc[r] # "idle"
    /\ ~cancelled[r]
    /\ disconnects < MaxDisconnects
    /\ disconnects' = disconnects + 1
    /\ cancelled' = [cancelled EXCEPT ![r] = TRUE]
    /\ UNCHANGED <<up, rows, meta, active, queue, tailing, run, saw, procVars, todo, nextRun, requests, crashes, ghosts, failures>>

(* Start, after the concurrency check: the task was read at the top.       *)
Start(r, a) ==
    /\ state[a] = "none"
    /\ \A p \in Procs : att[p] # a
    /\ Accept(r, a, "create")
    /\ snap' = [snap EXCEPT ![r] = task[TaskOf[a]]]
    /\ UNCHANGED <<up, rows, meta, active, loopVars, buf, todo, nextRun, disconnects, crashes, ghosts, failures>>

CreateAttempt(r) ==
    /\ pc[r] = "create"
    /\ IF ContextDone(r)
       THEN Return(r) /\ UNCHANGED state
       ELSE /\ SetState(att[r], "queued")
            /\ Goto(r, "saveNew")
            /\ UNCHANGED <<att, snap, buf, cancelled>>
    /\ UNCHANGED <<up, task, meta, active, queue, tailing, run, saw, todo, bounds, ghosts, failures>>

SaveNewMeta(r) ==
    /\ pc[r] = "saveNew"
    /\ \/ /\ meta' = [meta EXCEPT ![att[r]] = NewMeta]
          /\ Goto(r, IF snap[r] = "execute" THEN "startLoop" ELSE "toExecute")
          /\ UNCHANGED <<att, snap, buf, cancelled>>
       \/ Return(r) /\ UNCHANGED meta        \* SaveAttemptMeta failed
    /\ UNCHANGED <<up, rows, active, queue, tailing, run, saw, todo, bounds, ghosts, failures>>

(* SendMessage: read the attempt and its meta, reset the retry budget.     *)
Send(r, a) ==
    /\ state[a] # "none"
    /\ snap' = [snap EXCEPT ![r] = state[a]]
    /\ stopped' = [stopped EXCEPT ![a] = FALSE]
    /\ IF meta[a].has /\ meta[a].count > 0
       THEN /\ buf' = [buf EXCEPT ![r] = [meta[a] EXCEPT !.count = 0]]
            /\ Accept(r, a, "saveReset")
       ELSE /\ Accept(r, a, "sendRoute")
            /\ UNCHANGED buf
    /\ UNCHANGED <<up, rows, meta, active, loopVars, todo, nextRun, disconnects, crashes, completed, failures>>

(* A terminal attempt is requeued as a follow-up; otherwise the input goes *)
(* to the live goroutine, or to a new loop when there is none.             *)
SendRoute(r) ==
    /\ pc[r] = "sendRoute"
    /\ LET a == att[r] IN
       \/ /\ snap[r] \in Terminal
          /\ IF ContextDone(r)
             THEN Return(r) /\ UNCHANGED state
             ELSE /\ SetState(a, "queued")
                  /\ Goto(r, "toExecute")
                  /\ UNCHANGED <<att, snap, buf, cancelled>>
          /\ UNCHANGED queue
       \/ /\ snap[r] \notin Terminal
          /\ IF IsLive(a)
             THEN Push(active[a]) /\ Return(r)
             ELSE Goto(r, "startLoop") /\ UNCHANGED <<queue, att, snap, buf, cancelled>>
          /\ UNCHANGED state
    /\ UNCHANGED <<up, task, meta, active, tailing, run, saw, todo, bounds, ghosts, failures>>

(* Cancel: cancel the goroutine's context, then write the terminal state.  *)
Cancel(r, a) ==
    /\ state[a] # "none"
    /\ Accept(r, a, "cancelWrite")
    /\ cancelled' = IF IsLive(a) THEN [cancelled EXCEPT ![active[a]] = TRUE]
                    ELSE cancelled
    /\ UNCHANGED <<up, rows, meta, active, queue, tailing, run, saw, snap, buf, todo, nextRun, disconnects, crashes, ghosts, failures>>

CancelWrite(r) ==
    /\ pc[r] = "cancelWrite"
    /\ IF ContextDone(r)
       THEN Return(r) /\ UNCHANGED <<state, stopped>>
       ELSE /\ SetState(att[r], "completed")
            /\ stopped' = [stopped EXCEPT ![att[r]] = TRUE]
            /\ Goto(r, "advance")
            /\ UNCHANGED <<att, snap, buf, cancelled>>
    /\ UNCHANGED <<up, task, meta, active, queue, tailing, run, saw, todo, bounds, completed, failures>>

(* TryReconnect: not live, and meta.json names a run to tail.              *)
TryReconnect(r, a) ==
    /\ state[a] # "none"
    /\ ~IsLive(a)
    /\ meta[a].run # 0
    /\ Accept(r, a, "attach")
    /\ buf' = [buf EXCEPT ![r] = meta[a]]
    /\ UNCHANGED <<up, rows, meta, active, loopVars, snap, todo, nextRun, disconnects, crashes, ghosts, failures>>

-----------------------------------------------------------------------------
(* The goroutine of an attempt: loop and runOnce, or resumeLoop.           *)

RunOnce(g) ==
    /\ pc[g] = "run"
    /\ \/ ~ContextDone(g) /\ SetState(att[g], "running") /\ UNCHANGED failures
       \/ ContextDone(g) /\ UNCHANGED <<state, failures>>
       \/ Lapse /\ UNCHANGED state
    /\ Goto(g, "call")
    /\ UNCHANGED <<up, task, meta, active, loopVars, att, snap, buf, todo, bounds, ghosts>>

(* CreateResponse: Hermes accepts the turn as a new run, ...               *)
CreateResponse(g) ==
    /\ pc[g] \in {"call", "coldCall"}
    /\ ~ContextDone(g)
    /\ nextRun <= MaxRuns
    /\ run' = [run EXCEPT ![g] = nextRun]
    /\ saw' = [saw EXCEPT ![g] = FALSE]
    /\ nextRun' = nextRun + 1
    /\ Goto(g, "stream")
    /\ UNCHANGED <<up, rows, meta, active, queue, cancelled, tailing, att, snap, buf, todo, requests, disconnects, crashes, ghosts, failures>>

(* ... or it does not know the previous response, which is forgotten, ...  *)
PreviousResponseNotFound(g) ==
    /\ pc[g] = "call"
    /\ ~ContextDone(g)
    /\ LET m == meta[att[g]] IN
       /\ m.has /\ m.latest # 0
       /\ buf' = [buf EXCEPT ![g] = [m EXCEPT !.latest = 0]]
    /\ Goto(g, "saveCold")
    /\ UNCHANGED <<up, rows, meta, active, loopVars, att, snap, todo, bounds, ghosts, failures>>

(* ... or the call fails: server gone, refused, context cancelled.         *)
CallFails(g) ==
    /\ pc[g] \in {"call", "coldCall"}
    /\ Goto(g, "fail")
    /\ UNCHANGED <<up, rows, meta, active, loopVars, att, snap, buf, todo, bounds, ghosts, failures>>

(* handleEvent. After response.completed the stream carries nothing else,  *)
(* and response.created comes once. An input_required whose write fails    *)
(* changes nothing.                                                        *)
EventCreated(g) ==
    /\ pc[g] = "stream"
    /\ ~saw[g]
    /\ meta[att[g]].has /\ meta[att[g]].run # run[g]
    /\ buf' = [buf EXCEPT ![g] = Created(meta[att[g]], run[g])]
    /\ Goto(g, "saveEvent")
    /\ UNCHANGED <<up, rows, meta, active, loopVars, att, snap, todo, bounds, ghosts, failures>>

EventInputRequired(g) ==
    /\ pc[g] = "stream"
    /\ ~saw[g]
    /\ SetState(att[g], "needs_input")
    /\ UNCHANGED <<up, task, meta, active, loopVars, procVars, todo, bounds, ghosts, failures>>

EventCompleted(g) ==
    /\ pc[g] = "stream"
    /\ ~saw[g]
    /\ saw' = [saw EXCEPT ![g] = TRUE]
    /\ completed' = [completed EXCEPT ![att[g]] = @ \cup {run[g]}]
    /\ IF meta[att[g]].has
       THEN /\ buf' = [buf EXCEPT ![g] = [meta[att[g]] EXCEPT !.latest = run[g]]]
            /\ Goto(g, "saveEvent")
       ELSE UNCHANGED <<buf, pc>>
    /\ UNCHANGED <<up, rows, meta, active, queue, cancelled, tailing, run, att, snap, todo, bounds, stopped, failures>>

(* The stream of runOnce ends, cleanly or with an error.                   *)
StreamEnd(g) ==
    /\ pc[g] = "stream"
    /\ ~tailing[g]
    /\ \E err \in BOOLEAN :
         LET reason == IF cancelled[g] THEN "cancelled"
                       ELSE IF ~err /\ saw[g] THEN "completed"
                       ELSE "abnormal"
             m == meta[att[g]]
         IN  buf' = [buf EXCEPT ![g] =
                       [m EXCEPT !.run = 0, !.reason = reason,
                                 !.count = IF reason = "completed" THEN 0 ELSE @]]
    /\ Goto(g, "saveEnd")
    /\ UNCHANGED <<up, rows, meta, active, loopVars, att, snap, todo, bounds, ghosts, failures>>

(* The stream of resumeLoop ends: an attempt still under way is settled,   *)
(* unless it cannot be read.                                               *)
TailEnd(g) ==
    /\ pc[g] = "stream"
    /\ tailing[g]
    /\ \/ /\ state[att[g]] \in {"running", "queued"}
          /\ \E final \in {"completed", "failed"} : snap' = [snap EXCEPT ![g] = final]
          /\ Goto(g, "tailFinish")
          /\ UNCHANGED failures
       \/ /\ state[att[g]] \notin {"running", "queued"}
          /\ Goto(g, "exit")
          /\ UNCHANGED <<snap, failures>>
       \/ /\ Miss(att[g])
          /\ Goto(g, "exit")
          /\ UNCHANGED snap
    /\ UNCHANGED <<up, rows, meta, active, loopVars, att, buf, todo, bounds, ghosts>>

TailFinish(g) ==
    /\ pc[g] = "tailFinish"
    /\ TrySetState(g, att[g], snap[g])
    /\ Goto(g, "advance")
    /\ UNCHANGED <<up, task, meta, active, loopVars, att, snap, buf, todo, bounds, ghosts>>

(* The select of loop: context done, next input, or 50 ms of silence, upon *)
(* which the attempt's row, once it can be read, decides whether the loop  *)
(* is finished.                                                            *)
SelectDone(g) ==
    /\ pc[g] = "select"
    /\ cancelled[g]
    /\ Goto(g, "exit")
    /\ UNCHANGED <<up, rows, meta, active, loopVars, att, snap, buf, todo, bounds, ghosts, failures>>

SelectInput(g) ==
    /\ pc[g] = "select"
    /\ queue[g] > 0
    /\ queue' = [queue EXCEPT ![g] = @ - 1]
    /\ Goto(g, "run")
    /\ UNCHANGED <<up, rows, meta, active, cancelled, tailing, run, saw, att, snap, buf, todo, bounds, ghosts, failures>>

SelectTimeout(g) ==
    /\ pc[g] = "select"
    /\ ~cancelled[g] /\ queue[g] = 0
    /\ state[att[g]] \notin Patient
    /\ Goto(g, IF state[att[g]] \in Active THEN "finish" ELSE "exit")
    /\ UNCHANGED <<up, rows, meta, active, loopVars, att, snap, buf, todo, bounds, ghosts, failures>>

Finish(g) ==
    /\ pc[g] = "finish"
    /\ TrySetState(g, att[g], "completed")
    /\ Goto(g, "advance")
    /\ UNCHANGED <<up, task, meta, active, loopVars, att, snap, buf, todo, bounds, ghosts>>

Fail(g) ==
    /\ pc[g] = "fail"
    /\ TrySetState(g, att[g], "failed")
    /\ Goto(g, "advance")
    /\ UNCHANGED <<up, task, meta, active, loopVars, att, snap, buf, todo, bounds, ghosts>>

(* The deferred delete from Runner.active; the goroutine ends.             *)
Exit(g) ==
    /\ pc[g] = "exit"
    /\ active' = [active EXCEPT ![att[g]] = NoGoroutine]
    /\ Goto(g, "idle")
    /\ att' = [att EXCEPT ![g] = NoAttempt]
    /\ snap' = [snap EXCEPT ![g] = "none"]
    /\ buf' = [buf EXCEPT ![g] = NoMeta]
    /\ queue' = [queue EXCEPT ![g] = 0]
    /\ cancelled' = [cancelled EXCEPT ![g] = FALSE]
    /\ tailing' = [tailing EXCEPT ![g] = FALSE]
    /\ run' = [run EXCEPT ![g] = 0]
    /\ saw' = [saw EXCEPT ![g] = FALSE]
    /\ UNCHANGED <<up, rows, meta, todo, bounds, ghosts, failures>>

-----------------------------------------------------------------------------
(* The Resumer: every 30 s, visit the active attempts one after another.   *)

Tick ==
    /\ up = "up"
    /\ pc[Resumer] = "idle"
    /\ todo = {}
    /\ todo' = ActiveAttempts
    /\ UNCHANGED <<up, rows, meta, active, loopVars, procVars, bounds, ghosts, failures>>

(* Not live, broken off and budget left: count the retry.                  *)
MayRetry(a) ==
    /\ ~IsLive(a)
    /\ HasBudget(a)
    /\ meta[a].reason = "abnormal"

Retry(a) ==
    /\ up = "up" /\ pc[Resumer] = "idle"
    /\ a \in todo
    /\ MayRetry(a)
    /\ todo' = todo \ {a}
    /\ buf' = [buf EXCEPT ![Resumer] = [meta[a] EXCEPT !.count = @ + 1]]
    /\ att' = [att EXCEPT ![Resumer] = a]
    /\ Goto(Resumer, "saveBump")
    /\ UNCHANGED <<up, rows, meta, active, loopVars, snap, bounds, ghosts, failures>>

(* The attempt may not be retried, or its last retry is too recent.        *)
Skip(a) ==
    /\ up = "up" /\ pc[Resumer] = "idle"
    /\ a \in todo
    /\ todo' = todo \ {a}
    /\ UNCHANGED <<up, rows, meta, active, loopVars, procVars, bounds, ghosts, failures>>

-----------------------------------------------------------------------------
(* The process dies: SQLite and meta.json survive, everything else is gone.*)
(* It restarts with ResumeOrphans, which lists the running and queued rows *)
(* before the HTTP server, the scheduler and the Resumer are started. A    *)
(* list that fails is logged: nothing is visited, the server starts.       *)
Crash ==
    /\ crashes < MaxCrashes
    /\ crashes' = crashes + 1
    /\ up' = "booting"
    /\ \/ todo' = Orphans /\ missed' = {} /\ UNCHANGED faults
       \/ todo' = {} /\ missed' = Orphans /\ Fault
    /\ active' = [a \in Attempts |-> NoGoroutine]
    /\ queue' = [g \in Goroutines |-> 0]
    /\ cancelled' = [p \in Procs |-> FALSE]
    /\ tailing' = [g \in Goroutines |-> FALSE]
    /\ run' = [g \in Goroutines |-> 0]
    /\ saw' = [g \in Goroutines |-> FALSE]
    /\ pc' = [p \in Procs |-> "idle"]
    /\ att' = [p \in Procs |-> NoAttempt]
    /\ snap' = [p \in Procs |-> "none"]
    /\ buf' = [p \in Procs |-> NoMeta]
    /\ UNCHANGED <<rows, meta, nextRun, requests, disconnects, ghosts>>

(* An orphan whose user's store cannot be opened is left as it is, ...     *)
BootSkip(a) ==
    /\ up = "booting" /\ pc[Boot] = "idle"
    /\ a \in todo
    /\ todo' = todo \ {a}
    /\ Miss(a)
    /\ UNCHANGED <<up, rows, meta, active, loopVars, procVars, bounds, ghosts>>

(* ... one whose meta.json names a run is attached to it, ...              *)
BootAttach(a) ==
    /\ up = "booting" /\ pc[Boot] = "idle"
    /\ a \in todo
    /\ meta[a].run # 0
    /\ todo' = todo \ {a}
    /\ buf' = [buf EXCEPT ![Boot] = meta[a]]
    /\ att' = [att EXCEPT ![Boot] = a]
    /\ Goto(Boot, "attach")
    /\ UNCHANGED <<up, rows, meta, active, loopVars, snap, bounds, ghosts, failures>>

(* ... one without a run, or whose server is gone, is sent a "continue"    *)
(* when its budget allows, ...                                             *)
BootContinue(a) ==
    /\ up = "booting" /\ pc[Boot] = "idle"
    /\ a \in todo
    /\ HasBudget(a)
    /\ todo' = todo \ {a}
    /\ \/ /\ meta' = [meta EXCEPT ![a] = [meta[a] EXCEPT !.count = @ + 1,
                                                  !.reason = "abnormal", !.run = 0]]
          /\ UNCHANGED failures
       \/ Lapse /\ UNCHANGED meta            \* SaveAttemptMeta failed
    /\ att' = [att EXCEPT ![Boot] = a]
    /\ Goto(Boot, "startLoop")
    /\ UNCHANGED <<up, rows, active, loopVars, snap, buf, bounds, ghosts>>

(* ... and one is marked failed that has no meta.json or no budget, whose  *)
(* meta.json cannot be read, or whose first prompt cannot be rebuilt.      *)
BootFail(a) ==
    /\ up = "booting" /\ pc[Boot] = "idle"
    /\ a \in todo
    /\ todo' = todo \ {a}
    /\ \/ ~HasBudget(a) /\ SetState(a, "failed") /\ UNCHANGED failures
       \/ Lapse /\ SetState(a, "failed")     \* nothing to continue from
       \/ Miss(a) /\ UNCHANGED state         \* markFailed's write failed
    /\ att' = [att EXCEPT ![Boot] = a]
    /\ Goto(Boot, "advance")
    /\ UNCHANGED <<up, task, meta, active, loopVars, snap, buf, bounds, ghosts>>

Serve ==
    /\ up = "booting" /\ pc[Boot] = "idle"
    /\ todo = {}
    /\ up' = "up"
    /\ missed' = {}
    /\ UNCHANGED <<rows, meta, active, loopVars, procVars, todo, bounds, ghosts, faults>>

-----------------------------------------------------------------------------
GoroutineStep(g) ==
    \/ RunOnce(g) \/ CreateResponse(g) \/ PreviousResponseNotFound(g) \/ CallFails(g)
    \/ EventCreated(g) \/ EventInputRequired(g) \/ EventCompleted(g)
    \/ StreamEnd(g) \/ TailEnd(g) \/ TailFinish(g)
    \/ SelectDone(g) \/ SelectInput(g) \/ SelectTimeout(g)
    \/ Finish(g) \/ Fail(g) \/ Exit(g)
    \/ SaveMeta(g) \/ Advance(g) \/ ToVerify(g)

Request(r, a) ==
    Start(r, a) \/ Send(r, a) \/ Cancel(r, a) \/ TryReconnect(r, a)

RequestStep(r) ==
    \/ CreateAttempt(r) \/ SaveNewMeta(r) \/ SendRoute(r) \/ CancelWrite(r)
    \/ SaveMeta(r) \/ ToExecute(r) \/ StartLoop(r) \/ Attach(r)
    \/ Advance(r) \/ ToVerify(r)

ResumerStep ==
    \/ \E a \in Attempts : Retry(a) \/ Skip(a)
    \/ SaveMeta(Resumer) \/ StartLoop(Resumer)

BootStep ==
    \/ \E a \in Attempts :
          BootSkip(a) \/ BootAttach(a) \/ BootContinue(a) \/ BootFail(a)
    \/ Serve \/ Attach(Boot) \/ StartLoop(Boot) \/ Advance(Boot) \/ ToVerify(Boot)

Next ==
    \/ \E g \in Goroutines : GoroutineStep(g)
    \/ \E r \in Requests : RequestStep(r) \/ ClientGone(r)
    \/ \E r \in Requests, a \in Attempts : Request(r, a)
    \/ Tick \/ ResumerStep \/ BootStep \/ Crash

Spec == Init /\ [][Next]_vars

(* What a goroutine does while it waits for Hermes. The client sets no     *)
(* time-out on a turn (a stream may stay silent, and a full pool of silent *)
(* streams keeps the next call waiting), so that nothing has to end it but *)
(* the stop of its context.                                                *)
AtHermes(g) == pc[g] \in {"call", "coldCall", "stream"}
TurnStops(g) ==
    cancelled[g] /\ (CallFails(g) \/ StreamEnd(g) \/ TailEnd(g))

(* Goroutines and handlers are scheduled, a turn that is stopped ends      *)
(* after the events it has buffered, the tickers fire, and a visit         *)
(* eventually finds the cooldown passed. Nothing is assumed of Hermes,     *)
(* users, clients and crashes.                                             *)
Fairness ==
    /\ \A g \in Goroutines : WF_vars(~AtHermes(g) /\ GoroutineStep(g))
    /\ \A g \in Goroutines : SF_vars(TurnStops(g))
    /\ \A r \in Requests : WF_vars(RequestStep(r))
    /\ WF_vars(Tick) /\ WF_vars(ResumerStep) /\ WF_vars(BootStep)
    /\ \A a \in Attempts : SF_vars(Retry(a))

FairSpec == Spec /\ Fairness

-----------------------------------------------------------------------------
(* Properties.                                                             *)

Live(g) == pc[g] # "idle"

(* The server is up and no process is in the middle of anything for the    *)
(* attempt.                                                                *)
Quiet(a) == up = "up" /\ \A p \in Procs : att[p] # a

(* An attempt is never driven by two goroutines at once, whatever mixture  *)
(* of handlers, retries, reconnects and reboots asks for a loop: two loops *)
(* would interleave their turns in one Hermes conversation.                *)
OneLoopPerAttempt ==
    \A g, h \in Goroutines : Live(g) /\ Live(h) /\ att[g] = att[h] => g = h

(* Runner.active names exactly the live goroutines: an entry left behind   *)
(* would swallow every later message, a missing one would hide a loop from *)
(* Cancel and from the Resumer.                                            *)
ActiveIsLive ==
    /\ \A a \in Attempts : active[a] # NoGoroutine =>
                             Live(active[a]) /\ att[active[a]] = a
    /\ \A g \in Goroutines : Live(g) => att[g] \in Attempts /\ active[att[g]] = g

(* The response a next turn is chained to was received to its end: a turn  *)
(* that was cancelled or broke off never leaves its id in meta.json, not   *)
(* even through a concurrent rewrite of the file                           *)
(* (TestCancelDoesNotPersistStaleResponseID).                              *)
ChainsOffCompleted ==
    \A a \in Attempts : meta[a].latest \in {0} \cup completed[a]

(* A task in Verify has no attempt under way, once the handlers and        *)
(* goroutines of its attempts are done.                                    *)
VerifyMeansSettled ==
    \A t \in Tasks :
        task[t] = "verify" /\ (\A a \in AttemptsOf(t) : Quiet(a)) =>
            \A a \in AttemptsOf(t) : state[a] \in Terminal

(* A queued attempt has a loop, or will be given one.                      *)
QueuedIsDriven ==
    \A a \in Attempts :
        state[a] = "queued" /\ meta[a].has /\ Quiet(a) => MayRetry(a)

(* The Resumer gives no turn to an attempt the user has stopped.           *)
RetryRespectsStop ==
    [][\A a \in Attempts :
          pc[Resumer] = "startLoop" /\ att[Resumer] = a /\ att'[Resumer] # a =>
              ~stopped[a] \/ up' = "booting"]_vars

(* An attempt that waits for the user is completed by the user alone: the  *)
(* loop's idle timeout and a resumed stream leave it waiting.              *)
NeedsInputKept ==
    [][\A a \in Attempts :
          state[a] = "needs_input" /\ state'[a] = "completed" =>
              \E r \in Requests : att[r] = a /\ pc[r] = "cancelWrite"]_vars

(* ResumeOrphans leaves nothing behind: when the server starts to serve,   *)
(* every attempt the crash caught queued or running is driven again, is    *)
(* settled, or is left to the Resumer. The exceptions are the attempts a   *)
(* read or write of the boot itself, or the last one of the loop it        *)
(* started, failed for: ResumeOrphans logs such an error and goes on.      *)
OrphansAdopted ==
    [][up = "booting" /\ up' = "up" =>
          \A a \in Attempts \ missed : state[a] \in {"queued", "running"} =>
              active[a] # NoGoroutine \/ meta[a].reason = "abnormal"]_vars

(* A goroutine ends, waits for the user, or is from some time on in one    *)
(* turn that Hermes does not end and nobody stops.                         *)
AwaitsUser(g) ==
    pc[g] = "select" /\ queue[g] = 0 /\ state[att[g]] = "needs_input"
InTurn(g) == AtHermes(g) \/ pc[g] \in {"saveCold", "saveEvent"}

LoopSettles ==
    \A g \in Goroutines :
        Live(g) ~> (~Live(g) \/ AwaitsUser(g) \/ [](InTurn(g) /\ ~cancelled[g]))

(* A broken-off turn with budget left is retried, unless its attempt was   *)
(* settled in the meantime.                                                *)
BrokenTurnRetried ==
    \A a \in Attempts :
        (state[a] \in Active /\ MayRetry(a)) ~> (state[a] \in Terminal \/ ~MayRetry(a))

=============================================================================

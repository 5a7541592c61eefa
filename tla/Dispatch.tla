------------------------------ MODULE Dispatch ------------------------------
(***************************************************************************)
(* How tasks get attempts: the scheduler of internal/scheduler, the cron   *)
(* worker and the HTTP handlers all call Runner.Start, whose concurrency   *)
(* gate counts the active attempts of every user's database before it      *)
(* inserts a row into one of them. Nothing locks the gate, so this module  *)
(* says by how much the caps can be passed, and that a task that may start *)
(* is not passed over for ever.                                            *)
(*                                                                         *)
(* What becomes of an attempt once it is started is AttemptRunner's; here  *)
(* it is active until it settles, and a follow-up can make it active again.*)
(* Attempt ids are uuids: each is set aside in advance for the task and    *)
(* the server of its row. An id whose row is not active stands for any     *)
(* number of settled rows, and may be used for a new one.                  *)
(*                                                                         *)
(* An operator whose comment begins with VARIANT is not used by the model: *)
(* it says what a wrong form of the operator after it would be.            *)
(***************************************************************************)
EXTENDS Integers, FiniteSets, BoardTable

CONSTANTS
    NumUsers,    \* user directory entries, in the order of Users.List()
    Tasks,
    OwnerOf,     \* the user each task belongs to
    AutoTasks,   \* the tasks whose trigger mode is auto
    Deps,        \* task_deps: [task, on, state], state the one required
    Preferred,   \* the preferred server of each task, or NoServer
    Servers,
    Usable,      \* the servers each user may use
    Default,     \* the default server of each user, or NoServer
    NoServer,
    Attempts,    \* attempt ids
    TaskOf,      \* the task of each attempt
    ServerOf,    \* the server of each attempt
    GlobalCap,   \* scheduler.global_max_concurrent
    ServerCap,   \* max_concurrent of each server
    Scheduler,   \* the scheduler goroutine
    Cron,        \* the cron worker goroutine
    Requests,    \* slots for HTTP handlers
    Scheduled,   \* bound: the tasks that have a schedule
    Drags,       \* bound: the columns users drag tasks to
    Disableable  \* bound: the users an admin disables and enables

Users    == 1 .. NumUsers
Starters == {Scheduler, Cron} \cup Requests

ASSUME UsersAssumption == NumUsers \in Nat \ {0} /\ OwnerOf \in [Tasks -> Users]
ASSUME TasksAssumption ==
    /\ Tasks # {}
    /\ AutoTasks \subseteq Tasks
    /\ Deps \subseteq [task : Tasks, on : Tasks, state : {"verify", "done"}]
    /\ Scheduled \subseteq Tasks
    /\ Drags \subseteq TaskStatus
    /\ Disableable \subseteq Users
ASSUME ServersAssumption ==
    /\ NoServer \notin Servers
    /\ Preferred \in [Tasks -> Servers \cup {NoServer}]
    /\ Usable \in [Users -> SUBSET Servers]
    /\ Default \in [Users -> Servers \cup {NoServer}]
    /\ GlobalCap \in Nat \ {0}
    /\ ServerCap \in [Servers -> Nat \ {0}]
ASSUME AttemptsAssumption ==
    /\ TaskOf \in [Attempts -> Tasks]
    /\ ServerOf \in [Attempts -> Servers]
    /\ IsFiniteSet(Attempts)
ASSUME StartersAssumption ==
    /\ Scheduler # Cron
    /\ Requests \cap {Scheduler, Cron} = {}
    /\ IsFiniteSet(Requests)

VARIABLES
    status,    \* tasks.status
    active,    \* the attempts whose row is queued, running or needs_input
    disabled,  \* the users an admin has disabled
    next,      \* the user the scheduler's tick comes to next
    todo,      \* the plan column of the last user, as far as not visited
    pc,        \* where each caller of Start is
    job,       \* the task each caller starts
    srv,       \* the server it was resolved to
    moves,     \* the task was not in execute when Start read it
    left,      \* the next user whose rows ActiveCounts counts
    seen,      \* the active rows counted so far
    gated      \* history: active attempts admitted by the gate, not reopened

table  == <<status, active, disabled>>
tick   == <<next, todo>>
caller == <<pc, job, srv, moves, left, seen>>
vars   == <<table, tick, caller, gated>>

-----------------------------------------------------------------------------
Pcs == {"idle", "count", "create"}

TypeOK ==
    /\ status \in [Tasks -> TaskStatus]
    /\ active \in SUBSET Attempts
    /\ disabled \in SUBSET Users
    /\ next \in Users
    /\ todo \in SUBSET Tasks
    /\ pc \in [Starters -> Pcs]
    /\ job \in [Starters -> Tasks]
    /\ srv \in [Starters -> Servers \cup {NoServer}]
    /\ moves \in [Starters -> BOOLEAN]
    /\ left \in [Starters -> Users]
    /\ seen \in [Starters -> SUBSET Attempts]
    /\ gated \in SUBSET Attempts

Of(t)     == {a \in Attempts : TaskOf[a] = t}
On(s)     == {a \in Attempts : ServerOf[a] = s}
RowsOf(u) == {a \in active : OwnerOf[TaskOf[a]] = u}

SomeTask == CHOOSE t \in Tasks : TRUE

Init ==
    /\ status = [t \in Tasks |-> "plan"]
    /\ active = {}
    /\ disabled = {}
    /\ next = 1
    /\ todo = {}
    /\ pc = [p \in Starters |-> "idle"]
    /\ job = [p \in Starters |-> SomeTask]
    /\ srv = [p \in Starters |-> NoServer]
    /\ moves = [p \in Starters |-> FALSE]
    /\ left = [p \in Starters |-> 1]
    /\ seen = [p \in Starters |-> {}]
    /\ gated = {}

-----------------------------------------------------------------------------
(* Runner.Start, called by p.                                              *)

(* FindServer for the server asked for, the user's default otherwise.      *)
Resolve(u, wanted) == IF wanted \in Usable[u] THEN wanted ELSE Default[u]

(* Start is called and reads the task; without a server it returns at once.*)
Call(p, t, wanted) ==
    LET s == Resolve(OwnerOf[t], wanted)
    IN  /\ pc[p] = "idle"
        /\ IF s = NoServer
           THEN UNCHANGED <<pc, job, srv, moves>>
           ELSE /\ pc' = [pc EXCEPT ![p] = "count"]
                /\ job' = [job EXCEPT ![p] = t]
                /\ srv' = [srv EXCEPT ![p] = s]
                /\ moves' = [moves EXCEPT ![p] = status[t] # "execute"]
        /\ UNCHANGED <<left, seen>>

Return(p) ==
    /\ pc' = [pc EXCEPT ![p] = "idle"]
    /\ job' = [job EXCEPT ![p] = SomeTask]
    /\ srv' = [srv EXCEPT ![p] = NoServer]
    /\ moves' = [moves EXCEPT ![p] = FALSE]
    /\ left' = [left EXCEPT ![p] = 1]
    /\ seen' = [seen EXCEPT ![p] = {}]

(* CountActive on the next user's database.                                *)
Counted(p) == seen[p] \cup RowsOf(left[p])

CountUser(p) ==
    /\ pc[p] = "count"
    /\ left[p] < NumUsers
    /\ left' = [left EXCEPT ![p] = left[p] + 1]
    /\ seen' = [seen EXCEPT ![p] = Counted(p)]
    /\ UNCHANGED <<table, tick, pc, job, srv, moves, gated>>

(* There is room for one more.                                             *)
Admits(count, cap) == count < cap

(* VARIANT: the cap on all attempts is not checked.                        *)
PassesServerOnly(p) ==
    Admits(Cardinality(Counted(p) \cap On(srv[p])), ServerCap[srv[p]])

(* VARIANT: the cap of the server is not checked.                          *)
PassesGlobalOnly(p) == Admits(Cardinality(Counted(p)), GlobalCap)

(* Both caps leave room.                                                   *)
Passes(p) ==
    /\ Admits(Cardinality(Counted(p)), GlobalCap)
    /\ Admits(Cardinality(Counted(p) \cap On(srv[p])), ServerCap[srv[p]])

(* After the last count the start goes on or ends with a ConcurrencyErr.   *)
Gate(p) ==
    /\ pc[p] = "count"
    /\ left[p] = NumUsers
    /\ IF Passes(p)
       THEN /\ pc' = [pc EXCEPT ![p] = "create"]
            /\ left' = [left EXCEPT ![p] = 1]
            /\ seen' = [seen EXCEPT ![p] = {}]
            /\ UNCHANGED <<job, srv, moves>>
       ELSE Return(p)
    /\ UNCHANGED <<table, tick, gated>>

(* The attempt ids set aside for the task and the server.                  *)
FreeIds(t, s) == {a \in Attempts \ active : TaskOf[a] = t /\ ServerOf[a] = s}

(* CreateAttempt inserts the row, for a new attempt id.                    *)
Insert(p, a) ==
    /\ pc[p] = "create"
    /\ a \in FreeIds(job[p], srv[p])
    /\ active' = active \cup {a}
    /\ gated' = gated \cup {a}
    /\ Return(p)
    /\ UNCHANGED <<disabled, tick>>

(* The task goes to execute, unless it was read there.                     *)
Create(p, a) ==
    /\ Insert(p, a)
    /\ status' = IF moves[p]
                 THEN [status EXCEPT ![job[p]] = Moved(status[job[p]], "execute")]
                 ELSE status

(* The row is inserted and the rest of the start is lost: meta.json cannot *)
(* be saved, or the client is gone and the move is cancelled.              *)
CreateOnly(p, a) == Insert(p, a) /\ UNCHANGED status

(* Bound: the ids set aside are used up, and the insert fails.             *)
CreateFails(p) ==
    /\ pc[p] = "create"
    /\ FreeIds(job[p], srv[p]) = {}
    /\ Return(p)
    /\ UNCHANGED <<table, tick, gated>>

(* A start that could go on ends with an error: the client of the request  *)
(* is gone, a user's database does not open, a count or the insert fails.  *)
StartFails(p) ==
    /\ \/ pc[p] = "count" /\ (left[p] < NumUsers \/ Passes(p))
       \/ pc[p] = "create" /\ FreeIds(job[p], srv[p]) # {}
    /\ Return(p)
    /\ UNCHANGED <<table, tick, gated>>

-----------------------------------------------------------------------------
(* The scheduler's tick: the users in turn, the plan column of each.       *)

(* VARIANT: the last user is never come to.                                *)
NextUserShort == IF next >= NumUsers - 1 THEN 1 ELSE next + 1

(* VARIANT: the tick runs past the last user.                              *)
NextUserPast == next + 1

(* The users are visited round and round, tick after tick.                 *)
NextUser == IF next = NumUsers THEN 1 ELSE next + 1

(* TaskIDs(plan) of the next user; a disabled user is passed over.         *)
PlanColumn(u) == {t \in Tasks : OwnerOf[t] = u /\ status[t] = "plan"}

ListPlan ==
    /\ pc[Scheduler] = "idle"
    /\ todo = {}
    /\ todo' = IF next \in disabled THEN {} ELSE PlanColumn(next)
    /\ next' = NextUser
    /\ UNCHANGED <<table, caller, gated>>

(* What satisfies a dependency on a task in the state required.            *)
Satisfying(required) ==
    IF required = "verify" THEN {"verify", "done", "archive"} ELSE {"done", "archive"}

AllDependenciesDone(t) ==
    \A d \in Deps : d.task = t => status[d.on] \in Satisfying(d.state)

(* tickUser comes to t, in the order of the listing, which is any.         *)
Visit(t) ==
    /\ t \in todo
    /\ pc[Scheduler] = "idle"
    /\ todo' = todo \ {t}
    /\ IF t \in AutoTasks /\ AllDependenciesDone(t)
       THEN Call(Scheduler, t, Preferred[t])
       ELSE UNCHANGED caller
    /\ UNCHANGED <<table, next, gated>>

(* A schedule of t is due: cron starts t whatever its column.              *)
CronFire(t) ==
    /\ t \in Scheduled
    /\ OwnerOf[t] \notin disabled
    /\ Call(Cron, t, Preferred[t])
    /\ UNCHANGED <<table, tick, gated>>

-----------------------------------------------------------------------------
(* Users and administrators.                                               *)

(* hStartAttempt, with a server of the user's choice or none.              *)
StartAttempt(r, t, s) ==
    /\ OwnerOf[t] \notin disabled
    /\ Call(r, t, IF s = NoServer THEN Preferred[t] ELSE s)
    /\ UNCHANGED <<table, tick, gated>>

(* hTransition to execute of a task in plan or draft starts it.            *)
DragToExecute(r, t) ==
    /\ OwnerOf[t] \notin disabled
    /\ status[t] \in {"plan", "draft"}
    /\ Call(r, t, Preferred[t])
    /\ UNCHANGED <<table, tick, gated>>

(* Every other drag moves the task: Transition along the table, MoveTask   *)
(* beside a neighbour, which any column may have.                          *)
Drag(t, to) ==
    /\ OwnerOf[t] \notin disabled
    /\ ~(to = "execute" /\ status[t] \in {"plan", "draft"})
    /\ status' = [status EXCEPT ![t] = to]
    /\ UNCHANGED <<active, disabled, tick, caller, gated>>

(* hUpdateUser: SetDisabled in either direction.                           *)
SetDisabled(u) ==
    /\ u \in Disableable
    /\ disabled' = IF u \in disabled THEN disabled \ {u} ELSE disabled \cup {u}
    /\ UNCHANGED <<status, active, tick, caller, gated>>

-----------------------------------------------------------------------------
(* What AttemptRunner does to the rows.                                    *)

(* The attempt completes, fails or is stopped, and                         *)
(* MaybeAdvanceAfterAttempt looks at its task.                             *)
Settle(a) ==
    /\ a \in active
    /\ active' = active \ {a}
    /\ gated' = gated \ {a}
    /\ status' = IF status[TaskOf[a]] = "execute" /\ Of(TaskOf[a]) \cap active = {a}
                 THEN [status EXCEPT ![TaskOf[a]] = "verify"]
                 ELSE status
    /\ UNCHANGED <<disabled, tick, caller>>

(* A follow-up to a settled attempt queues it again: SendMessage asks no   *)
(* gate.                                                                   *)
Reopen(a) ==
    /\ a \notin active
    /\ OwnerOf[TaskOf[a]] \notin disabled
    /\ active' = active \cup {a}
    /\ status' = [status EXCEPT ![TaskOf[a]] = Moved(status[TaskOf[a]], "execute")]
    /\ UNCHANGED <<disabled, tick, caller, gated>>

-----------------------------------------------------------------------------
StartStep(p) ==
    \/ CountUser(p) \/ Gate(p) \/ CreateFails(p)
    \/ \E a \in Attempts : Create(p, a)

SchedulerStep == ListPlan \/ (\E t \in Tasks : Visit(t)) \/ StartStep(Scheduler)

UserStep ==
    \/ \E r \in Requests, t \in Tasks :
          DragToExecute(r, t) \/ \E s \in Servers \cup {NoServer} : StartAttempt(r, t, s)
    \/ \E t \in Tasks, to \in Drags : Drag(t, to)
    \/ \E a \in Attempts : Reopen(a)
    \/ \E u \in Users : SetDisabled(u)

Next ==
    \/ SchedulerStep
    \/ \E t \in Tasks : CronFire(t)
    \/ \E p \in Starters \ {Scheduler} : StartStep(p)
    \/ \E p \in Starters : StartFails(p) \/ \E a \in Attempts : CreateOnly(p, a)
    \/ \E a \in Attempts : Settle(a)
    \/ UserStep

Spec == Init /\ [][Next]_vars

(* The scheduler's goroutine and timer run. Nothing is assumed of the      *)
(* callers that compete with it for room.                                  *)
FairSpec == Spec /\ WF_vars(SchedulerStep)

-----------------------------------------------------------------------------
(* Properties.                                                             *)

(* The callers the gate has let through and that have not inserted yet.    *)
Admitted == {p \in Starters : pc[p] = "create"}

(* With n callers of Start at most n - 1 attempts ever pass the gate       *)
(* beyond the global cap, those about to be inserted included: every       *)
(* caller may have counted before the others inserted, but a row that is   *)
(* there when a count begins is in it, in whatever order the databases of  *)
(* the users are counted and attempts come and go meanwhile.               *)
GlobalOvershootBounded ==
    Cardinality(gated) + Cardinality(Admitted) <= GlobalCap + Cardinality(Starters) - 1

(* The same for the cap of each server, which all users share.             *)
ServerOvershootBounded ==
    \A s \in Servers :
        Cardinality(gated \cap On(s)) + Cardinality({p \in Admitted : srv[p] = s})
            <= ServerCap[s] + Cardinality(Starters) - 1

(* The gate lets at most scheduler.global_max_concurrent attempts be       *)
(* active at a time (reopened ones, which never pass it, left aside).      *)
GlobalCapKept == Cardinality(gated) <= GlobalCap

(* A task the scheduler has to start, and room for it under both caps.     *)
Waiting(t) ==
    /\ status[t] = "plan" /\ t \in AutoTasks /\ AllDependenciesDone(t)
    /\ OwnerOf[t] \notin disabled

Room(t) ==
    LET s == Resolve(OwnerOf[t], Preferred[t])
    IN  /\ s # NoServer /\ FreeIds(t, s) # {}
        /\ Cardinality(active) < GlobalCap
        /\ Cardinality(active \cap On(s)) < ServerCap[s]

(* A task that waits for ever, with room for it all the time, is passed    *)
(* over only because other attempts come and go without end: the scheduler *)
(* comes to every user and every task, whatever else fails to start, as    *)
(* long as its own statements do not go on failing.                        *)
AutoTaskStarts ==
    <>[][~ StartFails(Scheduler)]_vars =>
        \A t \in Tasks : <>[](Waiting(t) /\ Room(t)) => []<><<TRUE>>_active

=============================================================================

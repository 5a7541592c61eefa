----------------------------- MODULE TaskBoard ------------------------------
(***************************************************************************)
(* Tasks and attempts of one user behind the task cache of internal/store. *)
(* Board.Transition, MaybeAdvanceAfterAttempt, Runner.Start and the PATCH  *)
(* handler decide on a copy of the task that GetTask gave them, from the   *)
(* cache or from three statements, and write in a later transaction; every *)
(* write drops the cached copy after it has committed. The module says     *)
(* when a copy is right, and what holds of decisions made on a right copy. *)
(*                                                                         *)
(* Processes are handlers, goroutines, the scheduler and the cron worker:  *)
(* here they differ only in what they do. A step is one SQL statement, one *)
(* transaction or one critical section of the cache. The order of cards is *)
(* the subject of Columns, the concurrency gate that of Dispatch.          *)
(*                                                                         *)
(* An operator whose comment begins with VARIANT is not used by the model: *)
(* it says what a wrong form of the operator after it would be.            *)
(***************************************************************************)
EXTENDS Integers, FiniteSets, BoardTable

CONSTANTS
    Tasks,
    Attempts,    \* attempt ids
    TaskOf,      \* the task of each attempt
    Titles,      \* what the other columns of a task row hold
    Places,      \* what its column "position" holds
    TagSets,     \* what task_tags holds for a task
    NoTags,      \* ... for a task without rows there
    NoTask,      \* no row, or no copy
    CacheMax,    \* entries the cache may hold
    Processes,
    Drags,       \* bound: the columns users drag tasks to
    NewRows,     \* bound: what each task may be created as
    Slots,       \* bound: the positions a card is moved to
    NewDeps,     \* bound: the dependencies users give a task that exists
    Viewed,      \* bound: the tasks that are only looked at
    Written      \* bound: the tasks that are changed once they exist

(* The rows of a task, and what Go makes of them and of the attempts'.     *)
Row  == [status : TaskStatus, title : Titles, place : Places, tags : TagSets,
         deps : SUBSET Tasks]
Copy == [status : TaskStatus, title : Titles, place : Places, tags : TagSets,
         deps : SUBSET Tasks, total : Nat, live : Nat]

ASSUME TasksAssumption ==
    /\ IsFiniteSet(Tasks)
    /\ Tasks # {}
    /\ TaskOf \in [Attempts -> Tasks]
    /\ IsFiniteSet(Attempts)
    /\ NoTags \in TagSets
    /\ NoTask \notin Row \cup Copy
    /\ Attempts # {}
    /\ Drags \subseteq TaskStatus
    /\ Viewed \subseteq Tasks
    /\ Written \subseteq Tasks
    /\ NewRows \in [Tasks -> SUBSET Row]
    /\ Slots \subseteq Places
    /\ NewDeps \subseteq SUBSET Tasks
ASSUME CacheAssumption == CacheMax \in Nat \ {0}

VARIABLES
    unused,   \* task ids not handed out yet
    row,      \* the rows of a task in tasks, task_tags and task_deps
    att,      \* attempts.state
    cache,    \* Store.tc
    pc,       \* where each process is
    job,      \* the task it works for
    goal,     \* what it has the task for
    to,       \* the column it moves it to
    with,     \* the attempt it works for
    left,     \* the tasks whose copies it has read but not put
    copy,     \* its copies
    raced,    \* history: its copies that were written since, or were cut short
    suspect,  \* history: cached copies that may be out of date
    shifted,  \* history: its copies whose card the move of another renumbered
    misplaced \* history: cached copies whose card the move of another did

db      == <<unused, row, att>>
process == <<pc, job, goal, to, with, left, copy>>
doubts  == <<suspect, misplaced>>
history == <<raced, shifted, doubts>>
vars    == <<db, cache, process, history>>

-----------------------------------------------------------------------------
AttemptStates == {"unused", "active", "settled", "deleted"}
Goals == {"view", "list", "patch", "drag", "dragNear", "move", "start", "advance"}
Pcs   == {"idle", "lookup", "row", "tags", "counts", "fill", "use",
          "drop", "owner", "delete", "invalidate"}

Cached == {t \in Tasks : cache[t] # NoTask}

TypeOK ==
    /\ unused \in SUBSET Tasks
    /\ row \in [Tasks -> Row \cup {NoTask}]
    /\ att \in [Attempts -> AttemptStates]
    /\ cache \in [Tasks -> Copy \cup {NoTask}]
    /\ Cardinality(Cached) <= CacheMax
    /\ pc \in [Processes -> Pcs]
    /\ job \in [Processes -> Tasks]
    /\ goal \in [Processes -> Goals]
    /\ to \in [Processes -> TaskStatus]
    /\ with \in [Processes -> Attempts]
    /\ left \in [Processes -> SUBSET Tasks]
    /\ copy \in [Processes -> [Tasks -> Copy \cup {NoTask}]]
    /\ raced \in [Processes -> SUBSET Tasks]
    /\ suspect \in SUBSET Tasks
    /\ shifted \in [Processes -> SUBSET Tasks]
    /\ misplaced \in SUBSET Tasks

SomeTask == CHOOSE t \in Tasks : TRUE
SomeAttempt == CHOOSE a \in Attempts : TRUE
NoCopies == [t \in Tasks |-> NoTask]

Init ==
    /\ unused = Tasks
    /\ row = [t \in Tasks |-> NoTask]
    /\ att = [a \in Attempts |-> "unused"]
    /\ cache = NoCopies
    /\ pc = [p \in Processes |-> "idle"]
    /\ job = [p \in Processes |-> SomeTask]
    /\ goal = [p \in Processes |-> "view"]
    /\ to = [p \in Processes |-> "draft"]
    /\ with = [p \in Processes |-> SomeAttempt]
    /\ left = [p \in Processes |-> {}]
    /\ copy = [p \in Processes |-> NoCopies]
    /\ raced = [p \in Processes |-> {}]
    /\ suspect = {}
    /\ shifted = [p \in Processes |-> {}]
    /\ misplaced = {}

-----------------------------------------------------------------------------
(* What the four statements of GetTask find in the database.               *)
Exists(t)  == row[t] # NoTask
TagsOf(t)  == IF Exists(t) THEN row[t].tags ELSE NoTags
DepsOf(t)  == IF Exists(t) THEN row[t].deps ELSE {}
RowsOf(t)  == {a \in Attempts : TaskOf[a] = t /\ att[a] \in {"active", "settled"}}
LiveOf(t)  == {a \in RowsOf(t) : att[a] = "active"}
Total(t)   == Cardinality(RowsOf(t))
Live(t)    == Cardinality(LiveOf(t))

Deleted == {t \in Tasks \ unused : ~ Exists(t)}

WithTags(c, tags, deps)   == [c EXCEPT !.tags = tags, !.deps = deps]
WithCounts(c, all, going) == [c EXCEPT !.total = all, !.live = going]

(* A write to t has committed and p has yet to drop the cached copy.       *)
Pending(p, t) == pc[p] \in {"owner", "invalidate"} /\ job[p] = t

(* A process without a job is back in its initial state.                   *)
Done(p) ==
    /\ pc' = [pc EXCEPT ![p] = "idle"]
    /\ job' = [job EXCEPT ![p] = SomeTask]
    /\ goal' = [goal EXCEPT ![p] = "view"]
    /\ to' = [to EXCEPT ![p] = "draft"]
    /\ with' = [with EXCEPT ![p] = SomeAttempt]
    /\ left' = [left EXCEPT ![p] = {}]
    /\ copy' = [copy EXCEPT ![p] = NoCopies]

Fresh(p) ==
    /\ raced' = [raced EXCEPT ![p] = {}]
    /\ shifted' = [shifted EXCEPT ![p] = {}]

Return(p) == Done(p) /\ Fresh(p)

(* p starts an operation for t at the step `at`.                           *)
Begin(p, at, t, for, s, a) ==
    /\ pc[p] = "idle"
    /\ pc' = [pc EXCEPT ![p] = at]
    /\ job' = [job EXCEPT ![p] = t]
    /\ goal' = [goal EXCEPT ![p] = for]
    /\ to' = [to EXCEPT ![p] = s]
    /\ with' = [with EXCEPT ![p] = a]
    /\ UNCHANGED <<left, copy>>

(* p goes to the step `at`, and what it does next is `for`.                *)
Goto(p, at, for, s) ==
    /\ pc' = [pc EXCEPT ![p] = at]
    /\ goal' = [goal EXCEPT ![p] = for]
    /\ to' = [to EXCEPT ![p] = s]
    /\ copy' = [copy EXCEPT ![p] = NoCopies]
    /\ left' = [left EXCEPT ![p] = {}]
    /\ UNCHANGED <<job, with>>

(* A write to t: the copies that others are holding or reading are old.    *)
Overtake(p, t) ==
    /\ raced' = [q \in Processes |->
                    IF q = p THEN {}
                    ELSE IF copy[q][t] # NoTask THEN raced[q] \cup {t} ELSE raced[q]]
    /\ shifted' = [shifted EXCEPT ![p] = {}]

(* A move of t that gives the cards in `others` another position: nothing  *)
(* drops their copies.                                                     *)
Renumber(p, t, others) ==
    /\ raced' = [q \in Processes |->
                    IF q = p THEN {}
                    ELSE IF copy[q][t] # NoTask THEN raced[q] \cup {t} ELSE raced[q]]
    /\ shifted' = [q \in Processes |->
                      IF q = p THEN {}
                      ELSE shifted[q] \cup {x \in others : copy[q][x] # NoTask}]
    /\ misplaced' = misplaced \cup (others \cap Cached)

-----------------------------------------------------------------------------
(* Store.GetTask: the cache is asked first. A copy found there may be one  *)
(* that a writer is just about to drop.                                    *)
Lookup(p) ==
    LET t == job[p]
    IN  /\ pc[p] = "lookup"
        /\ \/ /\ cache[t] = NoTask
              /\ pc' = [pc EXCEPT ![p] = "row"]
              /\ UNCHANGED <<copy, raced, shifted>>
           \/ /\ cache[t] # NoTask
              /\ pc' = [pc EXCEPT ![p] = "use"]
              /\ copy' = [copy EXCEPT ![p][t] = cache[t]]
              /\ raced' = [raced EXCEPT ![p] =
                    IF t \in suspect \/ \E q \in Processes : Pending(q, t)
                    THEN {t} ELSE {}]
              /\ shifted' = [shifted EXCEPT ![p] = misplaced \cap {t}]
        /\ UNCHANGED <<db, cache, doubts, job, goal, to, with, left>>

(* The rows a GetTask or a ListTasks selects; no row is an error.          *)
Selected(p) == {t \in Tasks : Exists(t) /\ (goal[p] = "list" \/ t = job[p])}

ReadRow(p) ==
    /\ pc[p] = "row"
    /\ \/ /\ Selected(p) = {}
          /\ Return(p)
       \/ /\ Selected(p) # {}
          /\ pc' = [pc EXCEPT ![p] = "tags"]
          /\ left' = [left EXCEPT ![p] = Selected(p)]
          /\ copy' = [copy EXCEPT ![p] = [t \in Tasks |->
                IF t \in Selected(p)
                THEN [status |-> row[t].status, title |-> row[t].title,
                      place |-> row[t].place, tags |-> NoTags, deps |-> {},
                      total |-> 0, live |-> 0]
                ELSE NoTask]]
          /\ Fresh(p)
          /\ UNCHANGED <<job, goal, to, with>>
    /\ UNCHANGED <<db, cache, doubts>>

(* Two statements, of two tables that only one write to t changes both of. *)
ReadTags(p) ==
    /\ pc[p] = "tags"
    /\ pc' = [pc EXCEPT ![p] = "counts"]
    /\ copy' = [copy EXCEPT ![p] = [t \in Tasks |->
          IF t \in left[p] THEN WithTags(copy[p][t], TagsOf(t), DepsOf(t)) ELSE copy[p][t]]]
    /\ UNCHANGED <<db, cache, history, job, goal, to, with, left>>

(* The last loop of ListTasks does not ask why its rows ended: when the    *)
(* client is gone, tasks whose counts were not reached yet keep zeros.     *)
ReadCounts(p) ==
    \E cut \in SUBSET {t \in left[p] : goal[p] = "list" /\ RowsOf(t) # {}} :
        /\ pc[p] = "counts"
        /\ pc' = [pc EXCEPT ![p] = "fill"]
        /\ copy' = [copy EXCEPT ![p] = [t \in Tasks |->
              IF t \in left[p] \ cut THEN WithCounts(copy[p][t], Total(t), Live(t))
                                     ELSE copy[p][t]]]
        /\ raced' = [raced EXCEPT ![p] = @ \cup cut]
        /\ UNCHANGED <<db, cache, shifted, doubts, job, goal, to, with, left>>

(* VARIANT: a full cache takes one entry more.                             *)
VictimsLate(t) ==
    IF Cardinality(Cached \cup {t}) > CacheMax + 1 THEN Cached \ {t} ELSE {NoTask}

(* taskCache.put evicts the oldest entry of a full cache: here, any other. *)
Victims(t) ==
    IF Cardinality(Cached \cup {t}) > CacheMax THEN Cached \ {t} ELSE {NoTask}

PutOne(p, t, victim) ==
    /\ cache' = [x \in Tasks |-> IF x = t THEN copy[p][t]
                                 ELSE IF x = victim THEN NoTask
                                 ELSE cache[x]]
    /\ suspect' = (suspect \ {t, victim}) \cup (raced[p] \cap {t})
    /\ misplaced' = (misplaced \ {t, victim}) \cup (shifted[p] \cap {t})
    /\ IF goal[p] # "list"
       THEN /\ pc' = [pc EXCEPT ![p] = "use"]
            /\ left' = [left EXCEPT ![p] = {}]
            /\ UNCHANGED <<job, goal, to, with, copy, raced, shifted>>
       ELSE IF left[p] = {t}
       THEN Return(p)
       ELSE /\ left' = [left EXCEPT ![p] = @ \ {t}]
            /\ copy' = [copy EXCEPT ![p][t] = NoTask]
            /\ UNCHANGED <<pc, job, goal, to, with, raced, shifted>>

Put(p) ==
    /\ pc[p] = "fill"
    /\ \E t \in left[p] : \E victim \in Victims(t) : PutOne(p, t, victim)
    /\ UNCHANGED db

-----------------------------------------------------------------------------
(* A handler that wanted the task has it; a statement of a request whose   *)
(* client is gone fails; the gate of Start refuses.                        *)
Finish(p) ==
    /\ pc[p] \in {"lookup", "row", "tags", "counts", "use", "drop", "delete"}
    /\ Return(p)
    /\ UNCHANGED <<db, cache, doubts>>

(* hPatchTask and Store.UpdateTask: the fields the request does not name   *)
(* are written back as the copy has them. writeDeps skips the task itself. *)
UpdateTask(p) ==
    LET t == job[p]
    IN  /\ pc[p] = "use"
        /\ goal[p] = "patch"
        /\ Exists(t)
        /\ \E title \in Titles \cup {copy[p][t].title},
              tags \in TagSets \cup {copy[p][t].tags},
              deps \in NewDeps \cup {copy[p][t].deps} :
                row' = [row EXCEPT ![t].title = title, ![t].tags = tags,
                                   ![t].deps = deps \ {t}]
        /\ Overtake(p, t)
        /\ Goto(p, "invalidate", "view", "draft")
        /\ UNCHANGED <<unused, att, cache, doubts>>

(* hTransition to Execute: a task that was never started is started, any   *)
(* other is moved to the slot it was dropped on, or transitioned.          *)
Dragged(p) ==
    LET t == job[p]
    IN  /\ pc[p] = "use"
        /\ goal[p] \in {"drag", "dragNear"}
        /\ IF copy[p][t].status \in {"plan", "draft"}
           THEN Goto(p, "lookup", "start", "execute")
           ELSE IF goal[p] = "dragNear"
           THEN Goto(p, "drop", "dragNear", to[p])
           ELSE Goto(p, "lookup", "move", to[p])
        /\ Fresh(p)
        /\ UNCHANGED <<db, cache, doubts>>

(* Store.MoveTask: no legality check. A missing row is an error. When the  *)
(* slot is too narrow, all the cards of the column are renumbered first.   *)
MoveTask(p) ==
    LET t == job[p]
        neighbors == {x \in Tasks \ {t} : Exists(x) /\ row[x].status = to[p]}
    IN  /\ pc[p] = "drop"
        /\ Exists(t)
        /\ \E place \in Slots, new \in [neighbors -> Places] :
              /\ row' = [x \in Tasks |->
                    IF x = t THEN [row[t] EXCEPT !.status = to[p], !.place = place]
                    ELSE IF x \in neighbors THEN [row[x] EXCEPT !.place = new[x]]
                    ELSE row[x]]
              /\ Renumber(p, t, {x \in neighbors : new[x] # row[x].place})
        /\ Goto(p, "invalidate", "view", "draft")
        /\ UNCHANGED <<unused, att, cache, suspect>>

(* VARIANT: the status is written and the cached copy is kept.             *)
SetTaskStatusKept(p) ==
    LET t == job[p]
    IN  /\ pc[p] = "use"
        /\ goal[p] = "move"
        /\ to[p] \in validTransitions[copy[p][t].status]
        /\ Exists(t)
        /\ row' = [row EXCEPT ![t].status = to[p]]
        /\ Overtake(p, t)
        /\ Done(p)
        /\ UNCHANGED <<unused, att, cache, doubts>>

(* Board.Transition: a move the table allows for the copy's status is      *)
(* written by Store.SetTaskStatus, with a position at the column's end.    *)
SetTaskStatus(p) ==
    LET t == job[p]
    IN  /\ pc[p] = "use"
        /\ goal[p] = "move"
        /\ to[p] \in validTransitions[copy[p][t].status]
        /\ Exists(t)
        /\ \E place \in Slots :
              row' = [row EXCEPT ![t].status = to[p], ![t].place = place]
        /\ Overtake(p, t)
        /\ Goto(p, "invalidate", "view", "draft")
        /\ UNCHANGED <<unused, att, cache, doubts>>

(* Runner.Start past its gate: Store.CreateAttempt, then a Transition to   *)
(* Execute if the copy was not there.                                      *)
CreateAttempt(p) ==
    LET t == job[p]
    IN  /\ pc[p] = "use"
        /\ goal[p] = "start"
        /\ \E a \in Attempts :
              /\ TaskOf[a] = t
              /\ att[a] = "unused"
              /\ att' = [att EXCEPT ![a] = "active"]
        /\ Overtake(p, t)
        /\ IF copy[p][t].status # "execute"
           THEN Goto(p, "invalidate", "move", "execute")
           ELSE Goto(p, "invalidate", "view", "draft")
        /\ UNCHANGED <<unused, row, cache, doubts>>

(* Board.MaybeAdvanceAfterAttempt: the copy says Execute, then             *)
(* Store.AllAttemptsTerminal reads the attempts, then a Transition.        *)
MaybeAdvance(p) ==
    LET t == job[p]
    IN  /\ pc[p] = "use"
        /\ goal[p] = "advance"
        /\ copy[p][t].status = "execute"
        /\ RowsOf(t) # {}
        /\ LiveOf(t) = {}
        /\ Goto(p, "lookup", "move", "verify")
        /\ Fresh(p)
        /\ UNCHANGED <<db, cache, doubts>>

-----------------------------------------------------------------------------
(* Store.UpdateAttemptState looks up the task to invalidate after the      *)
(* write; without a row there is none.                                     *)
Owner(p) ==
    /\ pc[p] = "owner"
    /\ IF att[with[p]] \in {"active", "settled"}
       THEN pc' = [pc EXCEPT ![p] = "invalidate"]
       ELSE pc' = [pc EXCEPT ![p] = "lookup"]
    /\ UNCHANGED <<db, cache, history, job, goal, to, with, left, copy>>

(* In Cancel and SendMessage that look-up fails when the client is gone:   *)
(* the copy stays in the cache.                                            *)
OwnerFails(p) ==
    /\ pc[p] = "owner"
    /\ suspect' = suspect \cup ({job[p]} \cap Cached)
    /\ Return(p)
    /\ UNCHANGED <<db, cache, misplaced>>

(* taskCache.invalidate, after which the caller goes on.                   *)
Invalidate(p) ==
    /\ pc[p] = "invalidate"
    /\ cache' = [cache EXCEPT ![job[p]] = NoTask]
    /\ suspect' = suspect \ {job[p]}
    /\ misplaced' = misplaced \ {job[p]}
    /\ \/ goal[p] = "view" /\ Return(p)
       \/ /\ goal[p] # "view"
          /\ pc' = [pc EXCEPT ![p] = "lookup"]
          /\ UNCHANGED <<raced, shifted, job, goal, to, with, left, copy>>
    /\ UNCHANGED db

-----------------------------------------------------------------------------
(* hCreateTask: a new id, in the column the client names.                  *)
CreateTask ==
    /\ \E t \in unused : \E new \in NewRows[t] :
          /\ unused' = unused \ {t}
          /\ row' = [row EXCEPT ![t] = [new EXCEPT !.deps = @ \ {t}]]
    /\ UNCHANGED <<att, cache, process, history>>

(* The requests and calls that read a task first.                          *)
Read(p) ==
    /\ \/ \E t \in Viewed \ unused : Begin(p, "lookup", t, "view", "draft", SomeAttempt)
       \/ Begin(p, "row", SomeTask, "list", "draft", SomeAttempt)
       \/ \E t \in Written \ unused :
             \/ Begin(p, "lookup", t, "patch", "draft", SomeAttempt)
             \/ Begin(p, "lookup", t, "start", "execute", SomeAttempt)
       \/ \E t \in Written \ unused, s \in Drags :
                IF s = "execute"
                THEN \E for \in {"drag", "dragNear"} : Begin(p, "lookup", t, for, s, SomeAttempt)
                ELSE \/ Begin(p, "lookup", t, "move", s, SomeAttempt)
                     \/ Begin(p, "drop", t, "dragNear", s, SomeAttempt)
    /\ UNCHANGED <<db, cache, history>>

(* A loop or a stop settles an attempt and then looks after its task; a    *)
(* follow-up makes it active again and moves the task to Execute.          *)
UpdateAttemptState(p) ==
    /\ \E a \in Attempts :
          /\ att[a] \in {"active", "settled"}
          /\ IF att[a] = "active"
             THEN /\ att' = [att EXCEPT ![a] = "settled"]
                  /\ Begin(p, "owner", TaskOf[a], "advance", "draft", a)
             ELSE /\ att' = [att EXCEPT ![a] = "active"]
                  /\ Begin(p, "owner", TaskOf[a], "move", "execute", a)
          /\ Overtake(p, TaskOf[a])
    /\ UNCHANGED <<unused, row, cache, doubts>>

(* The rows without those of t, and those of task_deps that name it.       *)
RowsWithout(t) ==
    [x \in Tasks |->
        IF x = t \/ ~ Exists(x) THEN NoTask ELSE [row[x] EXCEPT !.deps = @ \ {t}]]

(* VARIANT: the rows are deleted and the cached copy is kept.              *)
DeleteTaskKept(p) ==
    /\ \E t \in Written \ unused :
          /\ pc[p] = "idle"
          /\ row' = RowsWithout(t)
          /\ att' = [a \in Attempts |-> IF a \in RowsOf(t) THEN "deleted" ELSE att[a]]
          /\ Overtake(p, t)
    /\ UNCHANGED <<unused, cache, doubts, process>>

(* hDeleteTask and Store.DeleteTask. Only the copy of t is dropped, so     *)
(* that a copy of a task that depended on it goes on naming it.            *)
DeleteTask(p) ==
    /\ \E t \in Written \ unused :
          /\ row' = RowsWithout(t)
          /\ att' = [a \in Attempts |-> IF a \in RowsOf(t) THEN "deleted" ELSE att[a]]
          /\ Overtake(p, t)
          /\ Begin(p, "invalidate", t, "view", "draft", SomeAttempt)
    /\ UNCHANGED <<unused, cache, doubts>>

(* hDeleteAttempt lets settled attempts pass ...                           *)
RemoveAttempt(p) ==
    /\ \E a \in Attempts :
          /\ att[a] = "settled"
          /\ Begin(p, "delete", TaskOf[a], "view", "draft", a)
    /\ UNCHANGED <<db, cache, history>>

(* VARIANT: the row is deleted and the cached counts are kept.             *)
DeleteAttemptKept(p) ==
    /\ pc[p] = "delete"
    /\ att[with[p]] \in {"active", "settled"}
    /\ att' = [att EXCEPT ![with[p]] = "deleted"]
    /\ Overtake(p, job[p])
    /\ Done(p)
    /\ UNCHANGED <<unused, row, cache, doubts>>

(* ... and Store.DeleteAttempt deletes the row as it finds it.             *)
DeleteAttempt(p) ==
    /\ pc[p] = "delete"
    /\ att[with[p]] \in {"active", "settled"}
    /\ att' = [att EXCEPT ![with[p]] = "deleted"]
    /\ Overtake(p, job[p])
    /\ Goto(p, "invalidate", "view", "draft")
    /\ UNCHANGED <<unused, row, cache, doubts>>

(* The server is restarted: the cache and whoever used it are gone.        *)
Restart ==
    /\ cache' = NoCopies
    /\ pc' = [p \in Processes |-> "idle"]
    /\ job' = [p \in Processes |-> SomeTask]
    /\ goal' = [p \in Processes |-> "view"]
    /\ to' = [p \in Processes |-> "draft"]
    /\ with' = [p \in Processes |-> SomeAttempt]
    /\ left' = [p \in Processes |-> {}]
    /\ copy' = [p \in Processes |-> NoCopies]
    /\ raced' = [p \in Processes |-> {}]
    /\ suspect' = {}
    /\ shifted' = [p \in Processes |-> {}]
    /\ misplaced' = {}
    /\ UNCHANGED db

GetStep(p)   == Lookup(p) \/ ReadRow(p) \/ ReadTags(p) \/ ReadCounts(p) \/ Put(p)
WriteStep(p) == UpdateTask(p) \/ MoveTask(p) \/ SetTaskStatus(p) \/ CreateAttempt(p)
                    \/ UpdateAttemptState(p) \/ DeleteTask(p) \/ DeleteAttempt(p)
OtherStep(p) == Read(p) \/ Finish(p) \/ Dragged(p) \/ MaybeAdvance(p)
                    \/ Owner(p) \/ OwnerFails(p)
                    \/ Invalidate(p) \/ RemoveAttempt(p)

Next ==
    \/ CreateTask
    \/ Restart
    \/ \E p \in Processes : GetStep(p) \/ WriteStep(p) \/ OtherStep(p)

Spec == Init /\ [][Next]_vars

-----------------------------------------------------------------------------
(* A copy says of its task what the database says.                         *)
Same(c, t) ==
    /\ c.status = row[t].status /\ c.title = row[t].title
    /\ c.tags = row[t].tags
    /\ c.total = Total(t) /\ c.live = Live(t)

(* The cache never shows a task as it was before a write to it that is     *)
(* complete: a copy in it is what the database says, unless a writer is    *)
(* about to drop it, or it was put there by a reader that a write had      *)
(* overtaken or that lost its client, or the writer lost its client before *)
(* the drop. What other tasks' writes can do to it is no more than this:   *)
(* it may name deleted tasks among its dependencies, and it may have the   *)
(* position from before a move of another card renumbered the column.      *)
CacheExact ==
    \A t \in Cached \ suspect :
        \/ /\ Exists(t)
           /\ Same(cache[t], t)
           /\ cache[t].deps \ Deleted = row[t].deps \ Deleted
           /\ t \notin misplaced => cache[t].place = row[t].place
        \/ \E p \in Processes : Pending(p, t)

(* cache.go:18 says that MoveTask invalidates on writes so that stale      *)
(* positions never leak into the view of a task. It is not so: the move    *)
(* that renumbers a column drops the copy of the moved card alone.         *)
PlaceFresh ==
    \A t \in Cached \ suspect :
        \/ Exists(t) /\ cache[t].place = row[t].place
        \/ \E p \in Processes : Pending(p, t)

(* CHANGELOG.md:361 says that every write drops the stale copy, so that    *)
(* the next read is fresh. It is not so: a reader puts what it read before *)
(* the write after the writer has dropped the copy, and there it stays.    *)
CacheFresh ==
    \A t \in Cached :
        \/ Exists(t) /\ Same(cache[t], t)
        \/ \E p \in Processes : Pending(p, t)

(* A Transition that no other write overtakes between its read and its     *)
(* write moves the task along the table, whatever was cached.              *)
MovesLegal ==
    [][\A p \in Processes :
          SetTaskStatus(p) /\ job[p] \notin raced[p] =>
              to[p] \in validTransitions[row[job[p]].status]]_vars

(* An attempt is created for a task that exists, unless the task was       *)
(* deleted while Start was under way: no stale copy brings a deleted task  *)
(* back to work.                                                           *)
NoOrphans ==
    [][\A p \in Processes :
          CreateAttempt(p) /\ job[p] \notin raced[p] => Exists(job[p])]_vars

=============================================================================

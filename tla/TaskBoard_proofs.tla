-------------------------- MODULE TaskBoard_proofs --------------------------
(***************************************************************************)
(* Proofs about TaskBoard, for any number of tasks, attempts, processes    *)
(* and cache entries. The invariant (BoardInv) says of every copy that no  *)
(* write has overtaken, whole or half read, cached or held, that it is     *)
(* what the database says.                                                 *)
(***************************************************************************)
EXTENDS TaskBoard, FiniteSetTheorems, TLAPS

-----------------------------------------------------------------------------
(* Types.                                                                  *)
LEMMA Counted ==
  ASSUME NEW t \in Tasks
  PROVE  Total(t) \in Nat /\ Live(t) \in Nat
<1>1. IsFiniteSet(RowsOf(t)) /\ IsFiniteSet(LiveOf(t))
  BY TasksAssumption, FS_Subset DEF RowsOf, LiveOf
<1> QED
  BY <1>1, FS_CardinalityType DEF Total, Live

LEMMA TagsTyped ==
  ASSUME TypeOK, NEW t \in Tasks
  PROVE  TagsOf(t) \in TagSets /\ DepsOf(t) \in SUBSET Tasks
BY TasksAssumption DEF TypeOK, TagsOf, DepsOf, Exists, Row

LEMMA SomeTyped ==
  SomeTask \in Tasks /\ SomeAttempt \in Attempts /\ NoCopies \in [Tasks -> Copy \cup {NoTask}]
BY TasksAssumption DEF SomeTask, SomeAttempt, NoCopies

LEMMA NoTaskIsNone == NoTask \notin Copy /\ NoTask \notin Row
BY TasksAssumption DEF Copy, Row

LEMMA CopyFields ==
  ASSUME NEW c \in Copy
  PROVE  /\ c.status \in TaskStatus /\ c.title \in Titles /\ c.tags \in TagSets
         /\ c.place \in Places /\ c.deps \in SUBSET Tasks
         /\ c.total \in Nat /\ c.live \in Nat
         /\ c # NoTask
BY NoTaskIsNone DEF Copy

LEMMA TagsRead ==
  ASSUME NEW c \in Copy, NEW tags \in TagSets, NEW deps \in SUBSET Tasks
  PROVE  /\ WithTags(c, tags, deps) \in Copy
         /\ WithTags(c, tags, deps).status = c.status
         /\ WithTags(c, tags, deps).title = c.title
         /\ WithTags(c, tags, deps).place = c.place
         /\ WithTags(c, tags, deps).tags = tags
         /\ WithTags(c, tags, deps).deps = deps
BY DEF WithTags, Copy

LEMMA CountsRead ==
  ASSUME NEW c \in Copy, NEW all \in Nat, NEW going \in Nat
  PROVE  /\ WithCounts(c, all, going) \in Copy
         /\ WithCounts(c, all, going).status = c.status
         /\ WithCounts(c, all, going).title = c.title
         /\ WithCounts(c, all, going).place = c.place
         /\ WithCounts(c, all, going).tags = c.tags
         /\ WithCounts(c, all, going).deps = c.deps
         /\ WithCounts(c, all, going).total = all
         /\ WithCounts(c, all, going).live = going
BY DEF WithCounts, Copy

(* The types of what belongs to the processes.                             *)
ProcessTypes ==
    /\ pc \in [Processes -> Pcs]
    /\ job \in [Processes -> Tasks]
    /\ goal \in [Processes -> Goals]
    /\ to \in [Processes -> TaskStatus]
    /\ with \in [Processes -> Attempts]
    /\ left \in [Processes -> SUBSET Tasks]
    /\ copy \in [Processes -> [Tasks -> Copy \cup {NoTask}]]
    /\ raced \in [Processes -> SUBSET Tasks]
    /\ shifted \in [Processes -> SUBSET Tasks]

DbTypes ==
    /\ unused \in SUBSET Tasks
    /\ row \in [Tasks -> Row \cup {NoTask}]
    /\ att \in [Attempts -> AttemptStates]

CacheTypes ==
    /\ cache \in [Tasks -> Copy \cup {NoTask}]
    /\ Cardinality(Cached) <= CacheMax
    /\ suspect \in SUBSET Tasks
    /\ misplaced \in SUBSET Tasks

LEMMA TypeParts ==
  /\ TypeOK <=> DbTypes /\ CacheTypes /\ ProcessTypes
  /\ TypeOK' <=> DbTypes' /\ CacheTypes' /\ ProcessTypes'
BY DEF TypeOK, DbTypes, CacheTypes, ProcessTypes

LEMMA DoneTyped ==
  ASSUME ProcessTypes, NEW p \in Processes, Return(p)
  PROVE  ProcessTypes'
BY SomeTyped DEF ProcessTypes, Return, Done, Fresh, Pcs, Goals, TaskStatus

LEMMA BeginTyped ==
  ASSUME ProcessTypes, NEW p \in Processes, NEW at \in Pcs, NEW t \in Tasks,
         NEW for \in Goals, NEW s \in TaskStatus, NEW a \in Attempts,
         Begin(p, at, t, for, s, a), raced' \in [Processes -> SUBSET Tasks],
         shifted' \in [Processes -> SUBSET Tasks]
  PROVE  ProcessTypes'
BY DEF ProcessTypes, Begin

LEMMA GotoTyped ==
  ASSUME ProcessTypes, NEW p \in Processes, NEW at \in Pcs,
         NEW for \in Goals, NEW s \in TaskStatus,
         Goto(p, at, for, s), raced' \in [Processes -> SUBSET Tasks],
         shifted' \in [Processes -> SUBSET Tasks]
  PROVE  ProcessTypes'
BY SomeTyped DEF ProcessTypes, Goto

LEMMA OvertakeTyped ==
  ASSUME ProcessTypes, NEW p \in Processes, NEW t \in Tasks, Overtake(p, t)
  PROVE  raced' \in [Processes -> SUBSET Tasks] /\ shifted' \in [Processes -> SUBSET Tasks]
BY DEF ProcessTypes, Overtake

LEMMA RenumberTyped ==
  ASSUME TypeOK, NEW p \in Processes, NEW t \in Tasks, NEW others \in SUBSET Tasks,
         Renumber(p, t, others)
  PROVE  /\ raced' \in [Processes -> SUBSET Tasks] /\ shifted' \in [Processes -> SUBSET Tasks]
         /\ misplaced' \in SUBSET Tasks
BY DEF TypeOK, Renumber, Cached

LEMMA CacheSame ==
  ASSUME CacheTypes, UNCHANGED <<cache, suspect, misplaced>>
  PROVE  CacheTypes'
BY DEF CacheTypes, Cached

LEMMA DbSame ==
  ASSUME DbTypes, UNCHANGED db
  PROVE  DbTypes'
BY DEF DbTypes, db

(* Dropping entries keeps the cache within its bound.                      *)
LEMMA Shrunk ==
  ASSUME CacheTypes, cache' \in [Tasks -> Copy \cup {NoTask}],
         Cached' \subseteq Cached, suspect' \in SUBSET Tasks, misplaced' \in SUBSET Tasks
  PROVE  CacheTypes'
<1>1. IsFiniteSet(Cached)
  BY TasksAssumption, FS_Subset DEF Cached
<1>2. Cardinality(Cached') <= Cardinality(Cached) /\ Cardinality(Cached') \in Nat
      /\ Cardinality(Cached) \in Nat
  BY <1>1, FS_Subset, FS_CardinalityType
<1> QED
  BY <1>2, CacheAssumption DEF CacheTypes

(* taskCache.put makes room for what it adds.                              *)
LEMMA PutTyped ==
  ASSUME TypeOK, NEW t \in Tasks, NEW victim \in Victims(t), NEW c \in Copy \cup {NoTask},
         cache' = [x \in Tasks |-> IF x = t THEN c
                                   ELSE IF x = victim THEN NoTask
                                   ELSE cache[x]],
         suspect' \in SUBSET Tasks, misplaced' \in SUBSET Tasks
  PROVE  CacheTypes'
<1>1. cache' \in [Tasks -> Copy \cup {NoTask}]
  BY DEF TypeOK
<1>2. /\ Cached' \subseteq (Cached \cup {t}) \ ({victim} \ {t})
      /\ Cached \subseteq Tasks /\ IsFiniteSet(Cached) /\ IsFiniteSet(Cached \cup {t})
  BY TasksAssumption, FS_Subset DEF Cached
<1>3. Cardinality(Cached \cup {t}) \in Nat /\ Cardinality(Cached) \in Nat
  BY <1>2, FS_CardinalityType
<1>4. CASE Cardinality(Cached \cup {t}) > CacheMax
  <2>1. victim \in Cached \ {t}
    BY <1>4 DEF Victims
  <2>2. t \notin Cached => Cardinality(Cached \cup {t}) = Cardinality(Cached) + 1
    BY <1>2, FS_AddElement
  <2>4. Cardinality(Cached \cup {t}) <= CacheMax + 1
    <3>1. Cardinality(Cached) <= CacheMax
      BY DEF TypeOK
    <3>2. CASE t \in Cached
      <4>1. Cardinality(Cached \cup {t}) = Cardinality(Cached)
        <5>1. Cached \cup {t} = Cached
          BY <3>2
        <5> QED
          BY <5>1
      <4> QED
        BY <4>1, <3>1, <1>3, CacheAssumption
    <3>3. CASE t \notin Cached
      BY <2>2, <3>1, <3>3, <1>3, CacheAssumption
    <3> QED
      BY <3>2, <3>3
  <2>5. /\ IsFiniteSet((Cached \cup {t}) \ {victim})
        /\ Cardinality((Cached \cup {t}) \ {victim}) = Cardinality(Cached \cup {t}) - 1
    BY <1>2, <2>1, FS_RemoveElement
  <2>6. Cached' \subseteq (Cached \cup {t}) \ {victim}
    BY <1>2, <2>1
  <2>7. Cardinality(Cached') <= Cardinality((Cached \cup {t}) \ {victim})
        /\ Cardinality(Cached') \in Nat
    BY <2>5, <2>6, FS_Subset, FS_CardinalityType
  <2> QED
    BY <1>1, <1>3, <2>4, <2>5, <2>7, CacheAssumption DEF CacheTypes
<1>5. CASE ~ (Cardinality(Cached \cup {t}) > CacheMax)
  <2>1. Cached' \subseteq Cached \cup {t}
    BY <1>2
  <2>2. Cardinality(Cached') <= Cardinality(Cached \cup {t}) /\ Cardinality(Cached') \in Nat
    BY <1>2, <2>1, FS_Subset, FS_CardinalityType
  <2> QED
    BY <1>1, <1>3, <1>5, <2>2, CacheAssumption DEF CacheTypes
<1> QED
  BY <1>4, <1>5

-----------------------------------------------------------------------------
(* The invariant. A process that is between the statements of a read holds *)
(* the copies it has begun; one that decides holds the copy of its task.   *)
Reading == {"tags", "counts", "fill"}

Holds(p, t) == \/ pc[p] \in Reading /\ t \in left[p]
               \/ pc[p] = "use" /\ t = job[p]

PlacedAt(p) ==
    /\ \A t \in Tasks : Holds(p, t) => copy[p][t] # NoTask
    /\ pc[p] \in Reading /\ goal[p] # "list" => left[p] = {job[p]}
    /\ pc[p] \in {"owner", "delete"} => TaskOf[with[p]] = job[p] /\ att[with[p]] # "unused"

Placed == \A p \in Processes : PlacedAt(p)

(* What has been read of a copy so far is what the database says.          *)
CopyRight(p, t) ==
    /\ Exists(t)
    /\ copy[p][t].status = row[t].status
    /\ copy[p][t].title = row[t].title
    /\ t \notin shifted[p] => copy[p][t].place = row[t].place
    /\ pc[p] # "tags" => /\ copy[p][t].tags = row[t].tags
                         /\ copy[p][t].deps \ Deleted = row[t].deps \ Deleted
    /\ pc[p] \in {"fill", "use"} => copy[p][t].total = Total(t) /\ copy[p][t].live = Live(t)

RightAt(p) == \A t \in Tasks : Holds(p, t) /\ t \notin raced[p] => CopyRight(p, t)

CopiesRight == \A p \in Processes : RightAt(p)

(* A writer that will drop the cached copy of t: it has its id, or will    *)
(* find the row that names it.                                             *)
WillDrop(p, t) ==
    /\ job[p] = t
    /\ \/ pc[p] = "invalidate"
       \/ pc[p] = "owner" /\ att[with[p]] \in {"active", "settled"}

(* A copy of t that only the writes to other tasks have changed since.     *)
Shown(c, t, moved) ==
    /\ Exists(t)
    /\ Same(c, t)
    /\ c.deps \ Deleted = row[t].deps \ Deleted
    /\ t \notin moved => c.place = row[t].place

CacheRight ==
    \A t \in Cached \ suspect :
        \/ Shown(cache[t], t, misplaced)
        \/ \E p \in Processes : WillDrop(p, t)

NoEarlyRows == \A t \in unused : row[t] = NoTask

BoardInv == TypeOK /\ Placed /\ CopiesRight /\ CacheRight /\ NoEarlyRows

(* A step of p leaves the rest of the processes where they are.            *)
OnlyMoves(p) ==
    \A q \in Processes \ {p} :
        /\ pc'[q] = pc[q] /\ job'[q] = job[q] /\ goal'[q] = goal[q]
        /\ with'[q] = with[q] /\ left'[q] = left[q] /\ copy'[q] = copy[q]

-----------------------------------------------------------------------------
(* The effects of the helpers of the actions.                              *)
LEMMA ReturnEffect ==
  ASSUME ProcessTypes, NEW p \in Processes, Return(p)
  PROVE  /\ OnlyMoves(p) /\ pc'[p] = "idle"
         /\ raced'[p] = {}
         /\ \A q \in Processes \ {p} : raced'[q] = raced[q] /\ shifted'[q] = shifted[q]
BY DEF ProcessTypes, Return, Done, Fresh, OnlyMoves

LEMMA BeginEffect ==
  ASSUME ProcessTypes, NEW p \in Processes, NEW at, NEW t, NEW for, NEW s, NEW a,
         Begin(p, at, t, for, s, a)
  PROVE  /\ OnlyMoves(p) /\ pc[p] = "idle"
         /\ pc'[p] = at /\ job'[p] = t /\ goal'[p] = for /\ with'[p] = a
         /\ left'[p] = left[p] /\ copy'[p] = copy[p]
BY DEF ProcessTypes, Begin, OnlyMoves

LEMMA GotoEffect ==
  ASSUME ProcessTypes, NEW p \in Processes, NEW at, NEW for, NEW s, Goto(p, at, for, s)
  PROVE  /\ OnlyMoves(p)
         /\ pc'[p] = at /\ job'[p] = job[p] /\ goal'[p] = for /\ with'[p] = with[p]
BY DEF ProcessTypes, Goto, OnlyMoves

(* What a write to t by p does to the copies that the others hold.         *)
Overtaken(p, t) ==
    \A q \in Processes \ {p} :
        /\ raced[q] \subseteq raced'[q]
        /\ copy[q][t] # NoTask => t \in raced'[q]
        /\ shifted[q] \subseteq shifted'[q]

LEMMA OvertakeEffect ==
  ASSUME ProcessTypes, NEW p \in Processes, NEW t, Overtake(p, t)
  PROVE  Overtaken(p, t)
BY DEF ProcessTypes, Overtake, Overtaken

LEMMA RenumberEffect ==
  ASSUME ProcessTypes, NEW p \in Processes, NEW t, NEW others, Renumber(p, t, others)
  PROVE  /\ Overtaken(p, t)
         /\ misplaced \subseteq misplaced'
         /\ \A x \in others :
               /\ x \in Cached => x \in misplaced'
               /\ \A q \in Processes \ {p} : copy[q][x] # NoTask => x \in shifted'[q]
BY DEF ProcessTypes, Renumber, Overtaken

LEMMA OneCopy ==
  ASSUME ProcessTypes, NEW p \in Processes, NEW t \in Tasks, NEW c \in Copy \cup {NoTask},
         copy' = [copy EXCEPT ![p][t] = c]
  PROVE  /\ copy' \in [Processes -> [Tasks -> Copy \cup {NoTask}]]
         /\ copy'[p][t] = c
         /\ \A x \in Tasks \ {t} : copy'[p][x] = copy[p][x]
         /\ \A q \in Processes \ {p} : copy'[q] = copy[q]
<1> DEFINE new == [copy[p] EXCEPT ![t] = c]
<1>1. copy' = [copy EXCEPT ![p] = new]
  OBVIOUS
<1>2. copy \in [Processes -> [Tasks -> Copy \cup {NoTask}]]
  BY DEF ProcessTypes
<1>3. /\ new \in [Tasks -> Copy \cup {NoTask}]
      /\ new[t] = c /\ \A x \in Tasks \ {t} : new[x] = copy[p][x]
  BY <1>2
<1> HIDE DEF new
<1> QED
  BY <1>1, <1>2, <1>3

LEMMA AllCopies ==
  ASSUME ProcessTypes, NEW p \in Processes, NEW f \in [Tasks -> Copy \cup {NoTask}],
         copy' = [copy EXCEPT ![p] = f]
  PROVE  /\ copy' \in [Processes -> [Tasks -> Copy \cup {NoTask}]]
         /\ copy'[p] = f
         /\ \A q \in Processes \ {p} : copy'[q] = copy[q]
BY DEF ProcessTypes

(* What ReadRow puts in the copies.                                        *)
RowCopies(p) == [t \in Tasks |->
    IF t \in Selected(p)
    THEN [status |-> row[t].status, title |-> row[t].title,
          place |-> row[t].place, tags |-> NoTags, deps |-> {},
          total |-> 0, live |-> 0]
    ELSE NoTask]

LEMMA RowsCopied ==
  ASSUME TypeOK, NEW p \in Processes
  PROVE  /\ RowCopies(p) \in [Tasks -> Copy \cup {NoTask}]
         /\ \A t \in Selected(p) :
               /\ Exists(t)
               /\ RowCopies(p)[t] # NoTask
               /\ RowCopies(p)[t].status = row[t].status
               /\ RowCopies(p)[t].title = row[t].title
               /\ RowCopies(p)[t].place = row[t].place
<1>1. ASSUME NEW t \in Selected(p)
      PROVE  /\ t \in Tasks /\ Exists(t) /\ RowCopies(p)[t] \in Copy
             /\ RowCopies(p)[t].status = row[t].status
             /\ RowCopies(p)[t].title = row[t].title
             /\ RowCopies(p)[t].place = row[t].place
  <2>1. t \in Tasks /\ Exists(t) /\ row[t] \in Row
    BY DEF TypeOK, Selected, Exists
  <2>2. row[t].status \in TaskStatus /\ row[t].title \in Titles /\ row[t].place \in Places
    BY <2>1 DEF Row
  <2>3. RowCopies(p)[t] = [status |-> row[t].status, title |-> row[t].title,
                           place |-> row[t].place, tags |-> NoTags, deps |-> {},
                           total |-> 0, live |-> 0]
    BY <2>1 DEF RowCopies
  <2>4. RowCopies(p)[t] \in Copy
    BY <2>2, <2>3, TasksAssumption DEF Copy
  <2>5. /\ RowCopies(p)[t].status = row[t].status /\ RowCopies(p)[t].title = row[t].title
        /\ RowCopies(p)[t].place = row[t].place
    BY <2>3
  <2> QED
    BY <2>1, <2>4, <2>5
<1>2. \A t \in Tasks \ Selected(p) : RowCopies(p)[t] = NoTask
  BY DEF RowCopies
<1>3. RowCopies(p) \in [Tasks -> Copy \cup {NoTask}]
  <2> SUFFICES ASSUME NEW t \in Tasks PROVE RowCopies(p)[t] \in Copy \cup {NoTask}
    BY DEF RowCopies
  <2> QED
    BY <1>1, <1>2
<1> QED
  BY <1>1, <1>3, NoTaskIsNone

-----------------------------------------------------------------------------
(* A step that writes nothing.                                             *)
Quiet(p) ==
    /\ OnlyMoves(p)
    /\ UNCHANGED db
    /\ \A q \in Processes \ {p} : raced'[q] = raced[q] /\ shifted'[q] = shifted[q]

LEMMA DbRead ==
  ASSUME UNCHANGED db
  PROVE  /\ \A t \in Tasks : Exists(t)' = Exists(t) /\ Total(t)' = Total(t) /\ Live(t)' = Live(t)
         /\ row' = row /\ att' = att /\ unused' = unused /\ Deleted' = Deleted
<1>1. row' = row /\ att' = att /\ unused' = unused
  BY DEF db
<1> QED
  BY <1>1 DEF Exists, Total, Live, RowsOf, LiveOf, Deleted

(* What the database and its readers show of t when it is left alone.      *)
LEMMA ShownStill ==
  ASSUME UNCHANGED db, NEW t \in Tasks, NEW c, NEW moved, Shown(c, t, moved)
  PROVE  Shown(c, t, moved)'
<1>1. /\ row' = row /\ Exists(t)' = Exists(t) /\ Total(t)' = Total(t) /\ Live(t)' = Live(t)
      /\ Deleted' = Deleted
  BY DbRead
<1> QED
  BY <1>1 DEF Shown, Same

LEMMA QuietKeeps ==
  ASSUME TypeOK, Placed, CopiesRight, NoEarlyRows, NEW p \in Processes, Quiet(p),
         PlacedAt(p)', RightAt(p)'
  PROVE  Placed' /\ CopiesRight' /\ NoEarlyRows'
<1>1. ASSUME NEW q \in Processes \ {p}
      PROVE  PlacedAt(q)' /\ RightAt(q)'
  <2>1. /\ pc'[q] = pc[q] /\ job'[q] = job[q] /\ goal'[q] = goal[q] /\ with'[q] = with[q]
        /\ left'[q] = left[q] /\ copy'[q] = copy[q] /\ raced'[q] = raced[q]
        /\ shifted'[q] = shifted[q]
    BY DEF Quiet, OnlyMoves
  <2>2. PlacedAt(q) /\ RightAt(q)
    BY DEF Placed, CopiesRight
  <2>3. row' = row /\ att' = att
    BY DbRead DEF Quiet
  <2>4. \A t \in Tasks : Holds(q, t)' <=> Holds(q, t)
    BY <2>1 DEF Holds
  <2>5. PlacedAt(q)'
    BY <2>1, <2>2, <2>3, <2>4 DEF PlacedAt
  <2>6. \A t \in Tasks : CopyRight(q, t) => CopyRight(q, t)'
    BY <2>1, <2>3, DbRead DEF CopyRight, Quiet
  <2>7. RightAt(q)'
    BY <2>1, <2>2, <2>4, <2>6 DEF RightAt
  <2> QED
    BY <2>5, <2>7
<1>2. NoEarlyRows'
  BY DbRead DEF Quiet, NoEarlyRows
<1> QED
  BY <1>1, <1>2 DEF Placed, CopiesRight

(* ... and does not touch the cache.                                       *)
LEMMA CacheKeeps ==
  ASSUME TypeOK, CacheRight, NEW p \in Processes, Quiet(p),
         UNCHANGED <<cache, suspect, misplaced>>,
         \A t \in Tasks : WillDrop(p, t) => WillDrop(p, t)'
  PROVE  CacheRight'
<1> SUFFICES ASSUME NEW t \in Tasks, cache'[t] # NoTask, t \notin suspect'
             PROVE  \/ Shown(cache[t], t, misplaced)'
                    \/ \E q \in Processes : WillDrop(q, t)'
  BY DEF CacheRight, Cached
<1>1. t \in Cached \ suspect
  BY DEF Cached
<1>2. CASE Shown(cache[t], t, misplaced)
  <2>1. PICK c, moved : c = cache[t] /\ moved = misplaced
    OBVIOUS
  <2>2. c = cache'[t] /\ moved = misplaced'
    BY <2>1
  <2>3. Shown(c, t, moved)'
    BY <1>2, <2>1, ShownStill DEF Quiet
  <2> QED
    BY <2>2, <2>3
<1>3. ASSUME NEW q \in Processes, WillDrop(q, t)
      PROVE  WillDrop(q, t)'
  <2>1. CASE q = p
    BY <2>1, <1>3
  <2>2. CASE q # p
    BY <2>2, <1>3, DbRead DEF Quiet, OnlyMoves, WillDrop
  <2> QED
    BY <2>1, <2>2
<1> QED
  BY <1>1, <1>2, <1>3 DEF CacheRight

(* ... and leaves p with nothing it has read.                              *)
LEMMA NothingHeld ==
  ASSUME NEW p \in Processes,
         pc'[p] \in Pcs \ (Reading \cup {"use", "owner", "delete"})
  PROVE  PlacedAt(p)' /\ RightAt(p)'
BY DEF PlacedAt, RightAt, Holds, Reading

LEMMA IdleStep ==
  ASSUME BoardInv, NEW p \in Processes, Quiet(p), UNCHANGED <<cache, suspect, misplaced>>,
         pc[p] \notin {"owner", "invalidate"},
         pc'[p] \in Pcs \ (Reading \cup {"use", "owner", "delete"})
  PROVE  Placed' /\ CopiesRight' /\ NoEarlyRows' /\ CacheRight'
<1>1. PlacedAt(p)' /\ RightAt(p)'
  BY NothingHeld
<1>2. Placed' /\ CopiesRight' /\ NoEarlyRows'
  BY <1>1, QuietKeeps DEF BoardInv
<1>3. \A t \in Tasks : ~ WillDrop(p, t)
  BY DEF WillDrop
<1>4. CacheRight'
  BY <1>3, CacheKeeps DEF BoardInv
<1> QED
  BY <1>2, <1>4

-----------------------------------------------------------------------------
(* Store.GetTask and Store.ListTasks.                                      *)
LEMMA LookupKeeps ==
  ASSUME BoardInv, NEW p \in Processes, Lookup(p)
  PROVE  BoardInv'
<1>1. DbTypes /\ CacheTypes /\ ProcessTypes
  BY TypeParts DEF BoardInv
<1>4. PICK t \in Tasks : t = job[p]
  BY <1>1 DEF ProcessTypes
<1>2. CASE cache[t] = NoTask
  <2>1. /\ pc' = [pc EXCEPT ![p] = "row"]
        /\ UNCHANGED <<db, cache, suspect, misplaced, job, goal, to, with, left, copy, raced,
                       shifted>>
    BY <1>2, <1>4 DEF Lookup, doubts
  <2>2. ProcessTypes'
    BY <1>1, <2>1 DEF ProcessTypes, Pcs
  <2>3. Quiet(p) /\ pc'[p] = "row" /\ pc[p] = "lookup"
    BY <1>1, <2>1 DEF Quiet, OnlyMoves, ProcessTypes, Lookup
  <2>4. TypeOK'
    BY <1>1, <2>1, <2>2, TypeParts, DbSame, CacheSame
  <2>5. Placed' /\ CopiesRight' /\ NoEarlyRows' /\ CacheRight'
    BY <2>1, <2>3, IdleStep DEF Pcs, Reading
  <2> QED
    BY <2>4, <2>5 DEF BoardInv
<1>3. CASE cache[t] # NoTask
  <2>1. /\ pc' = [pc EXCEPT ![p] = "use"]
        /\ copy' = [copy EXCEPT ![p][t] = cache[t]]
        /\ raced' = [raced EXCEPT ![p] =
              IF t \in suspect \/ \E q \in Processes : Pending(q, t) THEN {t} ELSE {}]
        /\ shifted' = [shifted EXCEPT ![p] = misplaced \cap {t}]
        /\ UNCHANGED <<db, cache, suspect, misplaced, job, goal, to, with, left>>
        /\ pc[p] = "lookup"
    BY <1>3, <1>4 DEF Lookup, doubts
  <2>2. cache[t] \in Copy
    BY <1>1, <1>3 DEF CacheTypes
  <2>3. /\ copy' \in [Processes -> [Tasks -> Copy \cup {NoTask}]]
        /\ copy'[p][t] = cache[t]
        /\ \A q \in Processes \ {p} : copy'[q] = copy[q]
    BY <1>1, <2>1, <2>2, OneCopy
  <2>4. ProcessTypes'
    <3>1. raced' \in [Processes -> SUBSET Tasks] /\ shifted' \in [Processes -> SUBSET Tasks]
      BY <1>1, <2>1 DEF ProcessTypes
    <3> QED
      BY <1>1, <2>1, <2>3, <3>1 DEF ProcessTypes, Pcs
  <2>5. TypeOK'
    BY <1>1, <2>1, <2>4, TypeParts, DbSame, CacheSame
  <2>6. Quiet(p) /\ pc'[p] = "use" /\ job'[p] = t
    BY <1>1, <1>4, <2>1, <2>3 DEF Quiet, OnlyMoves, ProcessTypes
  <2>7. \A x \in Tasks : Holds(p, x)' <=> x = t
    BY <2>6 DEF Holds, Reading
  <2>8. PlacedAt(p)'
    BY <2>6, <2>7, <2>3, <1>3 DEF PlacedAt, Reading
  <2>9. RightAt(p)'
    <3> SUFFICES ASSUME t \notin raced'[p]
                 PROVE  CopyRight(p, t)'
      BY <2>7 DEF RightAt
    <3>1. t \notin suspect /\ \A q \in Processes : ~ Pending(q, t)
      BY <1>1, <2>1 DEF ProcessTypes
    <3>2. \A q \in Processes : ~ WillDrop(q, t)
      BY <3>1 DEF WillDrop, Pending
    <3>3. Shown(cache[t], t, misplaced)
      BY <1>1, <1>3, <3>1, <3>2 DEF BoardInv, CacheRight, Cached
    <3>4. /\ Exists(t)
          /\ cache[t].status = row[t].status /\ cache[t].title = row[t].title
          /\ cache[t].tags = row[t].tags
          /\ cache[t].deps \ Deleted = row[t].deps \ Deleted
          /\ t \notin misplaced => cache[t].place = row[t].place
          /\ cache[t].total = Total(t) /\ cache[t].live = Live(t)
      BY <3>3 DEF Shown, Same
    <3>5. /\ row' = row /\ Exists(t)' = Exists(t) /\ Total(t)' = Total(t) /\ Live(t)' = Live(t)
          /\ Deleted' = Deleted
      BY <2>6, <1>1, DbRead DEF Quiet
    <3>6. t \notin shifted'[p] => t \notin misplaced
      BY <1>1, <2>1 DEF ProcessTypes
    <3> QED
      BY <2>3, <3>4, <3>5, <3>6 DEF CopyRight
  <2>10. CacheRight'
    <3>1. \A x \in Tasks : ~ WillDrop(p, x)
      BY <2>1 DEF WillDrop
    <3> QED
      BY <2>1, <2>6, <3>1, CacheKeeps DEF BoardInv
  <2> QED
    BY <2>5, <2>6, <2>8, <2>9, <2>10, QuietKeeps DEF BoardInv
<1> QED
  BY <1>2, <1>3

LEMMA ReadRowKeeps ==
  ASSUME BoardInv, NEW p \in Processes, ReadRow(p)
  PROVE  BoardInv'
<1>1. DbTypes /\ CacheTypes /\ ProcessTypes /\ job[p] \in Tasks
  BY TypeParts DEF BoardInv, ProcessTypes
<1>2. pc[p] = "row" /\ UNCHANGED <<db, cache, suspect, misplaced>>
  BY DEF ReadRow, doubts
<1>3. CASE Selected(p) = {}
  <2>1. Return(p)
    BY <1>3 DEF ReadRow
  <2>2. Quiet(p) /\ pc'[p] = "idle"
    BY <1>1, <1>2, <2>1, ReturnEffect DEF Quiet
  <2>3. TypeOK'
    BY <1>1, <1>2, <2>1, DoneTyped, TypeParts, DbSame, CacheSame
  <2>4. Placed' /\ CopiesRight' /\ NoEarlyRows' /\ CacheRight'
    BY <1>2, <2>2, IdleStep DEF Pcs, Reading
  <2> QED
    BY <2>3, <2>4 DEF BoardInv
<1>4. CASE Selected(p) # {}
  <2>1. /\ pc' = [pc EXCEPT ![p] = "tags"]
        /\ left' = [left EXCEPT ![p] = Selected(p)]
        /\ copy' = [copy EXCEPT ![p] = RowCopies(p)]
        /\ raced' = [raced EXCEPT ![p] = {}]
        /\ shifted' = [shifted EXCEPT ![p] = {}]
        /\ UNCHANGED <<job, goal, to, with>>
    BY <1>4 DEF ReadRow, RowCopies, Fresh
  <2>2. /\ copy' \in [Processes -> [Tasks -> Copy \cup {NoTask}]]
        /\ copy'[p] = RowCopies(p)
        /\ \A q \in Processes \ {p} : copy'[q] = copy[q]
    BY <1>1, <2>1, RowsCopied, AllCopies DEF BoardInv
  <2>3. Selected(p) \subseteq Tasks
    BY DEF Selected
  <2>4. ProcessTypes'
    BY <1>1, <2>1, <2>2, <2>3 DEF ProcessTypes, Pcs
  <2>5. TypeOK'
    BY <1>1, <1>2, <2>4, TypeParts, DbSame, CacheSame
  <2>6. /\ Quiet(p) /\ pc'[p] = "tags" /\ left'[p] = Selected(p) /\ raced'[p] = {}
        /\ job'[p] = job[p] /\ goal'[p] = goal[p]
    BY <1>1, <1>2, <2>1, <2>2 DEF Quiet, OnlyMoves, ProcessTypes
  <2>7. \A x \in Tasks : Holds(p, x)' <=> x \in Selected(p)
    BY <2>6 DEF Holds, Reading
  <2>8. PlacedAt(p)'
    <3>1. goal[p] # "list" => Selected(p) = {job[p]}
      BY <1>4 DEF Selected
    <3> QED
      BY <2>2, <2>6, <2>7, <3>1, RowsCopied DEF PlacedAt, BoardInv
  <2>9. RightAt(p)'
    <3> SUFFICES ASSUME NEW t \in Selected(p) PROVE CopyRight(p, t)'
      BY <2>7 DEF RightAt
    <3>1. row' = row /\ Exists(t)' = Exists(t)
      BY <1>2, <2>3, DbRead
    <3> QED
      BY <2>2, <2>6, <3>1, RowsCopied DEF CopyRight, BoardInv
  <2>10. CacheRight'
    <3>1. \A x \in Tasks : ~ WillDrop(p, x)
      BY <1>2 DEF WillDrop
    <3> QED
      BY <1>2, <2>6, <3>1, CacheKeeps DEF BoardInv
  <2> QED
    BY <2>5, <2>6, <2>8, <2>9, <2>10, QuietKeeps DEF BoardInv
<1> QED
  BY <1>3, <1>4

LEMMA HeldCopy ==
  ASSUME TypeOK, Placed, NEW p \in Processes, pc[p] \in Reading, NEW t \in left[p]
  PROVE  t \in Tasks /\ copy[p][t] \in Copy
<1>1. t \in Tasks /\ copy[p] \in [Tasks -> Copy \cup {NoTask}]
  BY DEF TypeOK
<1>2. copy[p][t] # NoTask
  BY <1>1 DEF Placed, PlacedAt, Holds
<1> QED
  BY <1>1, <1>2

LEMMA ReadTagsKeeps ==
  ASSUME BoardInv, NEW p \in Processes, ReadTags(p)
  PROVE  BoardInv'
<1> DEFINE f == [t \in Tasks |->
          IF t \in left[p] THEN WithTags(copy[p][t], TagsOf(t), DepsOf(t)) ELSE copy[p][t]]
<1>1. DbTypes /\ CacheTypes /\ ProcessTypes
  BY TypeParts DEF BoardInv
<1>2. /\ pc[p] = "tags" /\ pc' = [pc EXCEPT ![p] = "counts"]
      /\ copy' = [copy EXCEPT ![p] = f]
      /\ UNCHANGED <<db, cache, raced, shifted, suspect, misplaced, job, goal, to, with, left>>
  BY DEF ReadTags, history, doubts
<1>3. ASSUME NEW t \in left[p]
      PROVE  /\ t \in Tasks /\ f[t] \in Copy
             /\ f[t].status = copy[p][t].status /\ f[t].title = copy[p][t].title
             /\ f[t].place = copy[p][t].place
             /\ f[t].tags = TagsOf(t) /\ f[t].deps = DepsOf(t)
  <2>1. t \in Tasks /\ copy[p][t] \in Copy /\ TagsOf(t) \in TagSets /\ DepsOf(t) \in SUBSET Tasks
    BY <1>2, HeldCopy, TagsTyped DEF BoardInv, Reading
  <2>2. f[t] = WithTags(copy[p][t], TagsOf(t), DepsOf(t))
    BY <2>1
  <2>3. PICK c \in Copy, tags \in TagSets, deps \in SUBSET Tasks :
          c = copy[p][t] /\ tags = TagsOf(t) /\ deps = DepsOf(t)
    BY <2>1
  <2>4. /\ WithTags(c, tags, deps) \in Copy
        /\ WithTags(c, tags, deps).status = c.status /\ WithTags(c, tags, deps).title = c.title
        /\ WithTags(c, tags, deps).place = c.place
        /\ WithTags(c, tags, deps).tags = tags /\ WithTags(c, tags, deps).deps = deps
    BY TagsRead
  <2> QED
    BY <2>1, <2>2, <2>3, <2>4
<1>4. f \in [Tasks -> Copy \cup {NoTask}]
  <2> SUFFICES ASSUME NEW t \in Tasks PROVE f[t] \in Copy \cup {NoTask}
    OBVIOUS
  <2>1. CASE t \in left[p]
    BY <2>1, <1>3
  <2>2. CASE t \notin left[p]
    BY <2>2, <1>1 DEF ProcessTypes
  <2> QED
    BY <2>1, <2>2
<1> HIDE DEF f
<1>5. /\ copy' \in [Processes -> [Tasks -> Copy \cup {NoTask}]]
      /\ copy'[p] = f
      /\ \A q \in Processes \ {p} : copy'[q] = copy[q]
  BY <1>1, <1>2, <1>4, AllCopies
<1>6. ProcessTypes'
  BY <1>1, <1>2, <1>5 DEF ProcessTypes, Pcs
<1>7. TypeOK'
  BY <1>1, <1>2, <1>6, TypeParts, DbSame, CacheSame
<1>8. /\ Quiet(p) /\ pc'[p] = "counts" /\ left'[p] = left[p] /\ raced'[p] = raced[p]
      /\ job'[p] = job[p] /\ goal'[p] = goal[p] /\ shifted'[p] = shifted[p]
  BY <1>1, <1>2, <1>5 DEF Quiet, OnlyMoves, ProcessTypes
<1>9. \A x \in Tasks : (Holds(p, x)' <=> x \in left[p]) /\ (Holds(p, x) <=> x \in left[p])
  BY <1>2, <1>8 DEF Holds, Reading
<1>10. PlacedAt(p)'
  <2>1. goal[p] # "list" => left[p] = {job[p]}
    BY <1>2 DEF BoardInv, Placed, PlacedAt, Reading
  <2> QED
    BY <1>3, <1>5, <1>8, <1>9, <2>1, NoTaskIsNone DEF PlacedAt, BoardInv
<1>11. RightAt(p)'
  <2> SUFFICES ASSUME NEW t \in left[p], t \notin raced[p] PROVE CopyRight(p, t)'
    BY <1>8, <1>9 DEF RightAt
  <2>1. CopyRight(p, t) /\ t \in Tasks
    BY <1>3, <1>9 DEF BoardInv, CopiesRight, RightAt
  <2>2. row' = row /\ Exists(t)' = Exists(t) /\ Deleted' = Deleted
    BY <1>2, <2>1, DbRead
  <2>3. TagsOf(t) = row[t].tags /\ DepsOf(t) = row[t].deps
    BY <2>1 DEF CopyRight, TagsOf, DepsOf
  <2> QED
    BY <1>2, <1>3, <1>5, <1>8, <2>1, <2>2, <2>3 DEF CopyRight
<1>12. CacheRight'
  <2>1. \A x \in Tasks : ~ WillDrop(p, x)
    BY <1>2 DEF WillDrop
  <2> QED
    BY <1>2, <1>8, <2>1, CacheKeeps DEF BoardInv
<1> QED
  BY <1>7, <1>8, <1>10, <1>11, <1>12, QuietKeeps DEF BoardInv

LEMMA ReadCountsKeeps ==
  ASSUME BoardInv, NEW p \in Processes, ReadCounts(p)
  PROVE  BoardInv'
<1>1. DbTypes /\ CacheTypes /\ ProcessTypes
  BY TypeParts DEF BoardInv
<1>13. PICK cut \in SUBSET left[p] :
         /\ pc[p] = "counts" /\ pc' = [pc EXCEPT ![p] = "fill"]
         /\ copy' = [copy EXCEPT ![p] = [t \in Tasks |->
               IF t \in left[p] \ cut THEN WithCounts(copy[p][t], Total(t), Live(t))
                                      ELSE copy[p][t]]]
         /\ raced' = [raced EXCEPT ![p] = @ \cup cut]
         /\ UNCHANGED <<db, cache, shifted, suspect, misplaced, job, goal, to, with, left>>
  BY DEF ReadCounts, doubts
<1> DEFINE f == [t \in Tasks |->
      IF t \in left[p] \ cut THEN WithCounts(copy[p][t], Total(t), Live(t)) ELSE copy[p][t]]
<1>2. /\ pc[p] = "counts" /\ pc' = [pc EXCEPT ![p] = "fill"]
      /\ copy' = [copy EXCEPT ![p] = f]
      /\ raced' = [raced EXCEPT ![p] = @ \cup cut]
      /\ UNCHANGED <<db, cache, shifted, suspect, misplaced, job, goal, to, with, left>>
  BY <1>13
<1>3. ASSUME NEW t \in left[p] \ cut
      PROVE  /\ t \in Tasks /\ f[t] \in Copy
             /\ f[t].status = copy[p][t].status /\ f[t].title = copy[p][t].title
             /\ f[t].place = copy[p][t].place
             /\ f[t].tags = copy[p][t].tags /\ f[t].deps = copy[p][t].deps
             /\ f[t].total = Total(t) /\ f[t].live = Live(t)
  <2>1. t \in Tasks /\ copy[p][t] \in Copy /\ Total(t) \in Nat /\ Live(t) \in Nat
    BY <1>2, HeldCopy, Counted DEF BoardInv, Reading
  <2>2. f[t] = WithCounts(copy[p][t], Total(t), Live(t))
    BY <2>1
  <2> DEFINE c == copy[p][t] n == Total(t) m == Live(t)
  <2>3. c \in Copy /\ n \in Nat /\ m \in Nat
    BY <2>1
  <2> HIDE DEF c, n, m
  <2>4. /\ WithCounts(c, n, m) \in Copy
        /\ WithCounts(c, n, m).status = c.status /\ WithCounts(c, n, m).title = c.title
        /\ WithCounts(c, n, m).place = c.place
        /\ WithCounts(c, n, m).tags = c.tags /\ WithCounts(c, n, m).deps = c.deps
        /\ WithCounts(c, n, m).total = n /\ WithCounts(c, n, m).live = m
    BY <2>3, CountsRead
  <2> QED
    BY <2>1, <2>2, <2>4 DEF c, n, m
<1>4. f \in [Tasks -> Copy \cup {NoTask}]
  <2> SUFFICES ASSUME NEW t \in Tasks PROVE f[t] \in Copy \cup {NoTask}
    OBVIOUS
  <2>1. CASE t \in left[p] \ cut
    BY <2>1, <1>3
  <2>2. CASE t \notin left[p] \ cut
    BY <2>2, <1>1 DEF ProcessTypes
  <2> QED
    BY <2>1, <2>2
<1>14. \A t \in left[p] : f[t] # NoTask
  <2> SUFFICES ASSUME NEW t \in left[p] PROVE f[t] # NoTask
    OBVIOUS
  <2>1. t \in Tasks /\ copy[p][t] # NoTask
    BY <1>2, HeldCopy, NoTaskIsNone DEF BoardInv, Reading
  <2> QED
    BY <1>3, <2>1, NoTaskIsNone
<1> HIDE DEF f
<1>5. /\ copy' \in [Processes -> [Tasks -> Copy \cup {NoTask}]]
      /\ copy'[p] = f
      /\ \A q \in Processes \ {p} : copy'[q] = copy[q]
  BY <1>1, <1>2, <1>4, AllCopies
<1>6. ProcessTypes'
  <2>1. raced' \in [Processes -> SUBSET Tasks]
    BY <1>1, <1>2 DEF ProcessTypes
  <2> QED
    BY <1>1, <1>2, <1>5, <2>1 DEF ProcessTypes, Pcs
<1>7. TypeOK'
  BY <1>1, <1>2, <1>6, TypeParts, DbSame, CacheSame
<1>8. /\ Quiet(p) /\ pc'[p] = "fill" /\ left'[p] = left[p] /\ raced'[p] = raced[p] \cup cut
      /\ job'[p] = job[p] /\ goal'[p] = goal[p] /\ shifted'[p] = shifted[p]
  BY <1>1, <1>2, <1>5 DEF Quiet, OnlyMoves, ProcessTypes
<1>9. \A x \in Tasks : (Holds(p, x)' <=> x \in left[p]) /\ (Holds(p, x) <=> x \in left[p])
  BY <1>2, <1>8 DEF Holds, Reading
<1>10. PlacedAt(p)'
  <2>1. goal[p] # "list" => left[p] = {job[p]}
    BY <1>2 DEF BoardInv, Placed, PlacedAt, Reading
  <2> QED
    BY <1>5, <1>8, <1>9, <1>14, <2>1 DEF PlacedAt
<1>11. RightAt(p)'
  <2> SUFFICES ASSUME NEW t \in left[p] \ cut, t \notin raced[p] PROVE CopyRight(p, t)'
    BY <1>8, <1>9 DEF RightAt
  <2>1. CopyRight(p, t) /\ t \in Tasks
    BY <1>3, <1>9 DEF BoardInv, CopiesRight, RightAt
  <2>2. /\ row' = row /\ Exists(t)' = Exists(t) /\ Total(t)' = Total(t) /\ Live(t)' = Live(t)
        /\ Deleted' = Deleted
    BY <1>2, <2>1, DbRead
  <2> QED
    BY <1>2, <1>3, <1>5, <1>8, <2>1, <2>2 DEF CopyRight
<1>12. CacheRight'
  <2>1. \A x \in Tasks : ~ WillDrop(p, x)
    BY <1>2 DEF WillDrop
  <2> QED
    BY <1>2, <1>8, <2>1, CacheKeeps DEF BoardInv
<1> QED
  BY <1>7, <1>8, <1>10, <1>11, <1>12, QuietKeeps DEF BoardInv


(* The cache after a put.                                                  *)
LEMMA PutRight ==
  ASSUME BoardInv, NEW p \in Processes, pc[p] = "fill", NEW t \in left[p],
         NEW victim \in Victims(t), PutOne(p, t, victim), UNCHANGED db, OnlyMoves(p)
  PROVE  CacheRight'
<1>1. t \in Tasks /\ copy[p][t] \in Copy
  BY HeldCopy DEF BoardInv, Reading
<1> SUFFICES ASSUME NEW x \in Tasks, cache'[x] # NoTask, x \notin suspect'
             PROVE  \/ Shown(cache[x], x, misplaced)'
                    \/ \E q \in Processes : WillDrop(q, x)'
  BY DEF CacheRight, Cached
<1>2. PICK c, moved : c = cache'[x] /\ moved = misplaced'
  OBVIOUS
<1>5. Shown(c, x, moved) => Shown(cache[x], x, misplaced)'
  <2>1. Shown(c, x, moved) => Shown(c, x, moved)'
    BY ShownStill
  <2> QED
    BY <1>2, <2>1
<1>3. CASE x = t
  <2>1. c = copy[p][t] /\ t \notin raced[p] /\ (t \notin misplaced' => t \notin shifted[p])
    BY <1>1, <1>2, <1>3 DEF PutOne
  <2>2. CopyRight(p, t)
    BY <1>1, <2>1 DEF BoardInv, CopiesRight, RightAt, Holds, Reading
  <2>3. Shown(c, x, moved)
    BY <1>2, <1>3, <2>1, <2>2 DEF CopyRight, Shown, Same
  <2> QED
    BY <1>5, <2>3
<1>4. CASE x # t
  <2>1. /\ c = cache[x] /\ cache[x] # NoTask /\ x # victim /\ x \notin suspect
        /\ x \in moved <=> x \in misplaced
    BY <1>2, <1>4 DEF PutOne
  <2>2. ASSUME NEW q \in Processes, WillDrop(q, x)
        PROVE  WillDrop(q, x)'
    <3>1. q # p
      BY <2>2 DEF WillDrop
    <3> QED
      BY <2>2, <3>1, DbRead DEF OnlyMoves, WillDrop
  <2>3. \/ Shown(c, x, moved)
        \/ \E q \in Processes : WillDrop(q, x)
    BY <2>1 DEF BoardInv, CacheRight, Cached, Shown
  <2> QED
    BY <1>5, <2>2, <2>3
<1> QED
  BY <1>3, <1>4

LEMMA PutKeeps ==
  ASSUME BoardInv, NEW p \in Processes, Put(p)
  PROVE  BoardInv'
<1>1. DbTypes /\ CacheTypes /\ ProcessTypes
  BY TypeParts DEF BoardInv
<1>2. pc[p] = "fill" /\ UNCHANGED db
  BY DEF Put
<1>3. PICK t \in left[p] : \E victim \in Victims(t) : PutOne(p, t, victim)
  BY DEF Put
<1>4. PICK victim \in Victims(t) : PutOne(p, t, victim)
  BY <1>3
<1>5. t \in Tasks /\ copy[p][t] \in Copy
  BY <1>2, HeldCopy DEF BoardInv, Reading
<1>6. CacheTypes'
  <2>1. suspect' \in SUBSET Tasks /\ misplaced' \in SUBSET Tasks
    BY <1>1, <1>4, <1>5 DEF PutOne, CacheTypes, ProcessTypes
  <2> QED
    BY <1>4, <1>5, <2>1, PutTyped DEF PutOne, BoardInv
<1>7. Holds(p, t) /\ PlacedAt(p) /\ RightAt(p)
  BY <1>2 DEF Holds, Reading, BoardInv, Placed, CopiesRight
<1>8. \A x \in Tasks : Exists(x)' = Exists(x) /\ Total(x)' = Total(x) /\ Live(x)' = Live(x)
                       /\ row' = row /\ Deleted' = Deleted
  BY <1>2, DbRead
<1>9. CASE goal[p] # "list"
  <2>1. /\ pc' = [pc EXCEPT ![p] = "use"] /\ left' = [left EXCEPT ![p] = {}]
        /\ UNCHANGED <<job, goal, to, with, copy, raced, shifted>>
    BY <1>4, <1>9 DEF PutOne
  <2>2. ProcessTypes'
    BY <1>1, <2>1 DEF ProcessTypes, Pcs
  <2>3. Quiet(p) /\ pc'[p] = "use"
    BY <1>1, <1>2, <2>1 DEF Quiet, OnlyMoves, ProcessTypes
  <2>4. t = job[p]
    BY <1>2, <1>7, <1>9 DEF PlacedAt, Reading
  <2>5. \A x \in Tasks : Holds(p, x)' <=> x = t
    BY <2>1, <2>3, <2>4 DEF Holds, Reading
  <2>6. PlacedAt(p)'
    BY <1>5, <2>1, <2>3, <2>5, NoTaskIsNone DEF PlacedAt, Reading
  <2>7. RightAt(p)'
    <3> SUFFICES ASSUME t \notin raced[p] PROVE CopyRight(p, t)'
      BY <1>5, <2>1, <2>5 DEF RightAt
    <3>1. CopyRight(p, t)
      BY <1>5, <1>7 DEF RightAt
    <3> QED
      BY <1>2, <1>5, <1>8, <2>1, <2>3, <3>1 DEF CopyRight
  <2>8. CacheRight'
    BY <1>2, <1>4, <2>3, PutRight DEF Quiet
  <2> QED
    BY <1>1, <1>2, <1>6, <2>2, <2>3, <2>6, <2>7, <2>8, QuietKeeps, TypeParts, DbSame
       DEF BoardInv
<1>10. CASE goal[p] = "list" /\ left[p] = {t}
  <2>1. Return(p)
    BY <1>4, <1>10 DEF PutOne
  <2>2. Quiet(p) /\ pc'[p] = "idle"
    BY <1>1, <1>2, <2>1, ReturnEffect DEF Quiet
  <2>3. PlacedAt(p)' /\ RightAt(p)'
    BY <2>2, NothingHeld DEF Pcs, Reading
  <2>4. CacheRight'
    BY <1>2, <1>4, <2>2, PutRight DEF Quiet
  <2>5. ProcessTypes'
    BY <1>1, <2>1, DoneTyped
  <2> QED
    BY <1>1, <1>2, <1>6, <2>2, <2>3, <2>4, <2>5, QuietKeeps, TypeParts, DbSame
       DEF BoardInv
<1>11. CASE goal[p] = "list" /\ left[p] # {t}
  <2>1. /\ left' = [left EXCEPT ![p] = @ \ {t}]
        /\ copy' = [copy EXCEPT ![p][t] = NoTask]
        /\ UNCHANGED <<pc, job, goal, to, with, raced, shifted>>
    BY <1>4, <1>11 DEF PutOne
  <2>2. /\ copy' \in [Processes -> [Tasks -> Copy \cup {NoTask}]]
        /\ \A x \in Tasks \ {t} : copy'[p][x] = copy[p][x]
        /\ \A q \in Processes \ {p} : copy'[q] = copy[q]
    BY <1>1, <1>5, <2>1, OneCopy
  <2>3. ProcessTypes'
    BY <1>1, <2>1, <2>2 DEF ProcessTypes
  <2>4. Quiet(p) /\ left'[p] = left[p] \ {t}
    BY <1>1, <1>2, <2>1, <2>2 DEF Quiet, OnlyMoves, ProcessTypes
  <2>5. \A x \in Tasks : Holds(p, x)' => x # t /\ Holds(p, x)
    BY <1>2, <2>1, <2>4 DEF Holds, Reading
  <2>6. PlacedAt(p)'
    BY <1>2, <1>7, <1>11, <2>1, <2>2, <2>5 DEF PlacedAt, Reading
  <2>7. RightAt(p)'
    BY <1>7, <1>8, <2>1, <2>2, <2>5 DEF RightAt, CopyRight
  <2>8. CacheRight'
    BY <1>2, <1>4, <2>4, PutRight DEF Quiet
  <2> QED
    BY <1>1, <1>2, <1>6, <2>3, <2>4, <2>6, <2>7, <2>8, QuietKeeps, TypeParts, DbSame
       DEF BoardInv
<1> QED
  BY <1>9, <1>10, <1>11

-----------------------------------------------------------------------------
(* A write to one task leaves the rest of another's row as it was: only its *)
(* place, when that is recorded, and the deleted tasks it depended on.     *)
RowStays(x) ==
    /\ Exists(x)' <=> Exists(x)
    /\ Exists(x) => /\ row'[x].status = row[x].status
                    /\ row'[x].title = row[x].title
                    /\ row'[x].tags = row[x].tags
                    /\ row'[x].deps \ Deleted' = row[x].deps \ Deleted'

PlaceStays(p, x) ==
    Exists(x) => \/ row'[x].place = row[x].place
                 \/ /\ x \in Cached => x \in misplaced'
                    /\ \A q \in Processes \ {p} : copy[q][x] # NoTask => x \in shifted'[q]

CountsStay(x) == Total(x)' = Total(x) /\ Live(x)' = Live(x)

(* A step of p that commits a write to t and leaves p to drop its copy.    *)
Wrote(p, t) ==
    /\ OnlyMoves(p)
    /\ Overtaken(p, t)
    /\ UNCHANGED <<unused, cache, suspect>>
    /\ misplaced \subseteq misplaced'
    /\ pc[p] \notin {"owner", "invalidate"}
    /\ \A x \in Tasks \ {t} : RowStays(x) /\ PlaceStays(p, x)
    /\ ~ Exists(t) => row'[t] = NoTask
    /\ \A a \in Attempts : TaskOf[a] # t => att'[a] = att[a]
    /\ \A a \in Attempts : att[a] # "unused" => att'[a] # "unused"
    /\ pc'[p] \in {"owner", "invalidate"}
    /\ job'[p] = t
    /\ pc'[p] = "owner" => TaskOf[with'[p]] = t /\ att'[with'[p]] \in {"active", "settled"}

LEMMA DeletedGrows ==
  ASSUME NEW p \in Processes, NEW t \in Tasks, Wrote(p, t)
  PROVE  Deleted \subseteq Deleted'
<1>1. unused' = unused /\ \A x \in Tasks : ~ Exists(x) => ~ Exists(x)'
  BY DEF Wrote, RowStays, Exists
<1> QED
  BY <1>1 DEF Deleted

LEMMA DepsStay ==
  ASSUME NEW A, NEW B, NEW C, NEW D, NEW E, A \ D = B \ D, D \subseteq E, B \ E = C \ E
  PROVE  A \ E = C \ E
OBVIOUS

LEMMA CountsOfOthers ==
  ASSUME NEW p \in Processes, NEW t \in Tasks, Wrote(p, t), NEW x \in Tasks \ {t}
  PROVE  CountsStay(x)
<1>1. RowsOf(x)' = RowsOf(x) /\ LiveOf(x)' = LiveOf(x)
  BY DEF Wrote, RowsOf, LiveOf
<1> QED
  BY <1>1 DEF CountsStay, Total, Live

(* A copy of another task goes on showing what it did.                     *)
LEMMA OthersShown ==
  ASSUME NEW p \in Processes, NEW t \in Tasks, Wrote(p, t), NEW x \in Tasks \ {t}, NEW c,
         NEW moved, NEW later, Shown(c, x, moved),
         x \notin later => x \notin moved /\ row'[x].place = row[x].place
  PROVE  Shown(c, x, later)'
<1>1. RowStays(x) /\ CountsStay(x)
  BY CountsOfOthers DEF Wrote
<1>2. Exists(x)' /\ Same(c, x)'
  BY <1>1 DEF Shown, RowStays, CountsStay, Same
<1>3. c.deps \ Deleted = row[x].deps \ Deleted
  BY DEF Shown
<1>4. row[x].deps \ Deleted' = row'[x].deps \ Deleted'
  BY <1>1 DEF Shown, RowStays
<1>5. PICK A, B, C, D, E : /\ A = c.deps /\ B = row[x].deps /\ C = row'[x].deps
                           /\ D = Deleted /\ E = Deleted'
  OBVIOUS
<1>6. A \ D = B \ D /\ B \ E = C \ E
  BY <1>3, <1>4, <1>5
<1>7. D \subseteq E
  BY <1>5, DeletedGrows
<1>8. A \ E = C \ E
  BY <1>6, <1>7, DepsStay
<1>9. c.deps \ Deleted' = row'[x].deps \ Deleted'
  BY <1>5, <1>8
<1>10. x \notin later => c.place = row'[x].place
  BY DEF Shown
<1> QED
  BY <1>2, <1>9, <1>10 DEF Shown

LEMMA OthersRight ==
  ASSUME NEW p \in Processes, NEW t \in Tasks, Wrote(p, t), NEW q \in Processes \ {p},
         NEW x \in Tasks \ {t}, copy[q][x] # NoTask, CopyRight(q, x)
  PROVE  CopyRight(q, x)'
<1>1. RowStays(x) /\ PlaceStays(p, x) /\ CountsStay(x) /\ Exists(x)
  BY CountsOfOthers DEF Wrote, CopyRight
<1>2. pc'[q] = pc[q] /\ copy'[q] = copy[q] /\ shifted[q] \subseteq shifted'[q]
  BY DEF Wrote, OnlyMoves, Overtaken
<1>3. /\ Exists(x)'
      /\ copy'[q][x].status = row'[x].status /\ copy'[q][x].title = row'[x].title
  BY <1>1, <1>2 DEF CopyRight, RowStays
<1>4. x \notin shifted'[q] => copy'[q][x].place = row'[x].place
  BY <1>1, <1>2 DEF CopyRight, PlaceStays
<1>5. pc'[q] # "tags" => /\ copy'[q][x].tags = row'[x].tags
                         /\ copy'[q][x].deps \ Deleted' = row'[x].deps \ Deleted'
  <2> SUFFICES ASSUME pc[q] # "tags"
               PROVE  /\ copy[q][x].tags = row'[x].tags
                      /\ copy[q][x].deps \ Deleted' = row'[x].deps \ Deleted'
    BY <1>2
  <2>1. /\ copy[q][x].tags = row[x].tags
        /\ copy[q][x].deps \ Deleted = row[x].deps \ Deleted
    BY DEF CopyRight
  <2>2. row'[x].tags = row[x].tags /\ row[x].deps \ Deleted' = row'[x].deps \ Deleted'
    BY <1>1 DEF RowStays
  <2>3. PICK A, B, C, D, E : /\ A = copy[q][x].deps /\ B = row[x].deps /\ C = row'[x].deps
                             /\ D = Deleted /\ E = Deleted'
    OBVIOUS
  <2>4. A \ D = B \ D /\ B \ E = C \ E
    BY <2>1, <2>2, <2>3
  <2>5. D \subseteq E
    BY <2>3, DeletedGrows
  <2>6. A \ E = C \ E
    BY <2>4, <2>5, DepsStay
  <2> QED
    BY <2>1, <2>2, <2>3, <2>6
<1>6. pc'[q] \in {"fill", "use"} =>
        copy'[q][x].total = Total(x)' /\ copy'[q][x].live = Live(x)'
  BY <1>1, <1>2 DEF CopyRight, CountsStay
<1> QED
  BY <1>3, <1>4, <1>5, <1>6 DEF CopyRight

LEMMA WroteKeeps ==
  ASSUME BoardInv, NEW p \in Processes, NEW t \in Tasks, Wrote(p, t)
  PROVE  Placed' /\ CopiesRight' /\ CacheRight' /\ NoEarlyRows'
<1>1. with \in [Processes -> Attempts]
  BY TypeParts DEF BoardInv, ProcessTypes
<1>3. PlacedAt(p)' /\ RightAt(p)'
  BY DEF Wrote, PlacedAt, RightAt, Holds, Reading
<1>4. ASSUME NEW q \in Processes \ {p}
      PROVE  PlacedAt(q)' /\ RightAt(q)'
  <2>1. /\ pc'[q] = pc[q] /\ job'[q] = job[q] /\ goal'[q] = goal[q] /\ with'[q] = with[q]
        /\ left'[q] = left[q] /\ copy'[q] = copy[q]
    BY DEF Wrote, OnlyMoves
  <2>2. PlacedAt(q) /\ RightAt(q)
    BY DEF BoardInv, Placed, CopiesRight
  <2>3. \A x \in Tasks : Holds(q, x)' <=> Holds(q, x)
    BY <2>1 DEF Holds
  <2>4. with[q] \in Attempts
    BY <1>1
  <2>5. PlacedAt(q)'
    BY <2>1, <2>2, <2>3, <2>4 DEF PlacedAt, Wrote
  <2>6. RightAt(q)'
    <3> SUFFICES ASSUME NEW x \in Tasks, Holds(q, x), x \notin raced'[q]
                 PROVE  CopyRight(q, x)'
      BY <2>3 DEF RightAt
    <3>1. copy[q][x] # NoTask
      BY <2>2 DEF PlacedAt
    <3>2. x # t /\ x \notin raced[q]
      BY <3>1 DEF Wrote, Overtaken
    <3>3. CopyRight(q, x)
      BY <2>2, <3>2 DEF RightAt
    <3> QED
      BY <3>1, <3>2, <3>3, OthersRight
  <2> QED
    BY <2>5, <2>6
<1>5. CacheRight'
  <2> SUFFICES ASSUME NEW x \in Tasks, cache'[x] # NoTask, x \notin suspect'
               PROVE  \/ Shown(cache[x], x, misplaced)'
                      \/ \E q \in Processes : WillDrop(q, x)'
    BY DEF CacheRight, Cached
  <2>1. CASE x = t
    <3>1. WillDrop(p, x)'
      BY <2>1 DEF Wrote, WillDrop
    <3> QED
      BY <3>1
  <2>2. CASE x # t
    <3>1. cache'[x] = cache[x] /\ x \in Cached \ suspect
      BY DEF Wrote, Cached
    <3>2. CASE Shown(cache[x], x, misplaced)
      <4>1. PICK c, moved, later :
              c = cache[x] /\ moved = misplaced /\ later = misplaced'
        OBVIOUS
      <4>2. Shown(c, x, moved)
        BY <3>2, <4>1
      <4>3. x \notin later => x \notin moved /\ row'[x].place = row[x].place
        <5>1. PlaceStays(p, x) /\ misplaced \subseteq misplaced' /\ Exists(x)
          BY <2>2, <4>2 DEF Wrote, Shown
        <5> QED
          BY <3>1, <4>1, <5>1 DEF PlaceStays
      <4>4. Shown(c, x, later)'
        BY <2>2, <4>2, <4>3, OthersShown
      <4>5. c = cache'[x] /\ later = misplaced'
        BY <3>1, <4>1
      <4> QED
        BY <4>4, <4>5
    <3>3. ASSUME NEW q \in Processes, WillDrop(q, x)
          PROVE  WillDrop(q, x)'
      <4>1. q # p /\ with[q] \in Attempts
        BY <1>1, <3>3 DEF Wrote, WillDrop
      <4>2. pc'[q] = pc[q] /\ job'[q] = job[q] /\ with'[q] = with[q]
        BY <4>1 DEF Wrote, OnlyMoves
      <4>3. pc[q] = "owner" => TaskOf[with[q]] = x
        BY <3>3 DEF WillDrop, BoardInv, Placed, PlacedAt
      <4> QED
        BY <2>2, <3>3, <4>1, <4>2, <4>3 DEF WillDrop, Wrote
    <3> QED
      BY <3>1, <3>2, <3>3 DEF BoardInv, CacheRight
  <2> QED
    BY <2>1, <2>2
<1>6. NoEarlyRows'
  <2> SUFFICES ASSUME NEW x \in unused PROVE row'[x] = NoTask
    BY DEF NoEarlyRows, Wrote
  <2>1. x \in Tasks /\ ~ Exists(x)
    BY DEF BoardInv, TypeOK, NoEarlyRows, Exists
  <2> QED
    BY <2>1 DEF Wrote, RowStays, Exists
<1> QED
  BY <1>3, <1>4, <1>5, <1>6 DEF Placed, CopiesRight

(* The writes that a GetTask or a check precedes.                          *)
LEMMA GotoWrite ==
  ASSUME BoardInv, NEW p \in Processes, NEW t \in Tasks, t = job[p],
         pc[p] \notin {"owner", "invalidate"}, Overtaken(p, t),
         raced' \in [Processes -> SUBSET Tasks], shifted' \in [Processes -> SUBSET Tasks],
         NEW for \in Goals, NEW s \in TaskStatus, Goto(p, "invalidate", for, s),
         UNCHANGED <<unused, cache, suspect>>,
         misplaced \subseteq misplaced', misplaced' \in SUBSET Tasks, DbTypes',
         \A x \in Tasks \ {t} : RowStays(x) /\ PlaceStays(p, x),
         ~ Exists(t) => row'[t] = NoTask,
         \A a \in Attempts : TaskOf[a] # t => att'[a] = att[a],
         \A a \in Attempts : att[a] # "unused" => att'[a] # "unused"
  PROVE  BoardInv'
<1>1. CacheTypes /\ ProcessTypes
  BY TypeParts DEF BoardInv
<1>2. OnlyMoves(p) /\ pc'[p] = "invalidate" /\ job'[p] = t
  BY <1>1, GotoEffect
<1>3. Wrote(p, t)
  BY <1>2 DEF Wrote
<1>5. ProcessTypes'
  BY <1>1, GotoTyped DEF Pcs
<1>6. CacheTypes'
  BY <1>1 DEF CacheTypes, Cached
<1> QED
  BY <1>3, <1>5, <1>6, WroteKeeps, TypeParts DEF BoardInv

(* The writes that are the first step of their operation.                  *)
LEMMA BeginWrite ==
  ASSUME BoardInv, NEW p \in Processes, NEW t \in Tasks, Overtake(p, t),
         NEW at \in {"owner", "invalidate"}, NEW for \in Goals, NEW s \in TaskStatus,
         NEW a \in Attempts, Begin(p, at, t, for, s, a),
         at = "owner" => TaskOf[a] = t /\ att'[a] \in {"active", "settled"},
         UNCHANGED <<unused, cache, suspect, misplaced>>, DbTypes',
         \A x \in Tasks \ {t} : RowStays(x) /\ PlaceStays(p, x),
         ~ Exists(t) => row'[t] = NoTask,
         \A b \in Attempts : TaskOf[b] # t => att'[b] = att[b],
         \A b \in Attempts : att[b] # "unused" => att'[b] # "unused"
  PROVE  BoardInv'
<1>1. CacheTypes /\ ProcessTypes
  BY TypeParts DEF BoardInv
<1>2. OnlyMoves(p) /\ pc[p] = "idle" /\ pc'[p] = at /\ job'[p] = t /\ with'[p] = a
  BY <1>1, BeginEffect
<1>6. Overtaken(p, t)
  BY <1>1, OvertakeEffect
<1>3. Wrote(p, t)
  BY <1>2, <1>6 DEF Wrote
<1>4. raced' \in [Processes -> SUBSET Tasks] /\ shifted' \in [Processes -> SUBSET Tasks]
  BY <1>1, OvertakeTyped
<1>5. ProcessTypes'
  BY <1>1, <1>4, BeginTyped DEF Pcs
<1> QED
  BY <1>1, <1>3, <1>5, WroteKeeps, CacheSame, TypeParts DEF BoardInv

(* A row that is as it was stays in this sense.                            *)
LEMMA SameStays ==
  ASSUME NEW p \in Processes, NEW x \in Tasks, row'[x] = row[x]
  PROVE  RowStays(x) /\ PlaceStays(p, x)
BY DEF RowStays, PlaceStays, Exists

(* The writes of no row but that of the process's task.                    *)
LEMMA OwnWrite ==
  ASSUME BoardInv, NEW p \in Processes, NEW t \in Tasks, t = job[p],
         pc[p] \notin {"owner", "invalidate"}, Overtake(p, t),
         NEW for \in Goals, NEW s \in TaskStatus, Goto(p, "invalidate", for, s),
         UNCHANGED <<unused, cache, suspect, misplaced>>, DbTypes',
         \A x \in Tasks \ {t} : row'[x] = row[x],
         ~ Exists(t) => row'[t] = NoTask,
         \A a \in Attempts : TaskOf[a] # t => att'[a] = att[a],
         \A a \in Attempts : att[a] # "unused" => att'[a] # "unused"
  PROVE  BoardInv'
<1>1. CacheTypes /\ ProcessTypes
  BY TypeParts DEF BoardInv
<1>2. /\ Overtaken(p, t)
      /\ raced' \in [Processes -> SUBSET Tasks] /\ shifted' \in [Processes -> SUBSET Tasks]
  BY <1>1, OvertakeEffect, OvertakeTyped
<1>3. \A x \in Tasks \ {t} : RowStays(x) /\ PlaceStays(p, x)
  BY SameStays
<1>4. misplaced \subseteq misplaced' /\ misplaced' \in SUBSET Tasks
  BY <1>1 DEF CacheTypes
<1> QED
  BY <1>2, <1>3, <1>4, GotoWrite

(* A changed row is a row.                                                 *)
LEMMA RowTyped ==
  ASSUME DbTypes, NEW t \in Tasks, NEW r \in Row \cup {NoTask},
         row' = [row EXCEPT ![t] = r], UNCHANGED <<unused, att>>
  PROVE  DbTypes' /\ \A x \in Tasks \ {t} : row'[x] = row[x]
BY DEF DbTypes

LEMMA PlaceTyped ==
  ASSUME NEW r \in Row, NEW place \in Places
  PROVE  /\ [r EXCEPT !.place = place] \in Row
         /\ [r EXCEPT !.place = place].status = r.status
         /\ [r EXCEPT !.place = place].title = r.title
         /\ [r EXCEPT !.place = place].tags = r.tags
         /\ [r EXCEPT !.place = place].deps = r.deps
BY DEF Row

LEMMA StatusTyped ==
  ASSUME NEW r \in Row, NEW s \in TaskStatus, NEW place \in Places
  PROVE  [r EXCEPT !.status = s, !.place = place] \in Row
BY DEF Row

LEMMA FieldsTyped ==
  ASSUME NEW r \in Row, NEW title \in Titles, NEW tags \in TagSets, NEW deps \in SUBSET Tasks
  PROVE  [r EXCEPT !.title = title, !.tags = tags, !.deps = deps] \in Row
BY DEF Row

LEMMA DepsTyped ==
  ASSUME NEW r \in Row, NEW t \in Tasks
  PROVE  /\ [r EXCEPT !.deps = @ \ {t}] \in Row
         /\ [r EXCEPT !.deps = @ \ {t}].status = r.status
         /\ [r EXCEPT !.deps = @ \ {t}].title = r.title
         /\ [r EXCEPT !.deps = @ \ {t}].place = r.place
         /\ [r EXCEPT !.deps = @ \ {t}].tags = r.tags
         /\ [r EXCEPT !.deps = @ \ {t}].deps = r.deps \ {t}
BY DEF Row

LEMMA UpdateTaskKeeps ==
  ASSUME BoardInv, NEW p \in Processes, UpdateTask(p)
  PROVE  BoardInv'
<1>1. DbTypes /\ CacheTypes /\ ProcessTypes
  BY TypeParts DEF BoardInv
<1>2. PICK t \in Tasks : t = job[p]
  BY <1>1 DEF ProcessTypes
<1>3. /\ pc[p] = "use" /\ Exists(t) /\ Overtake(p, t)
      /\ Goto(p, "invalidate", "view", "draft")
      /\ UNCHANGED <<unused, att, cache, suspect, misplaced>>
  BY <1>2 DEF UpdateTask, doubts
<1>4. PICK title \in Titles \cup {copy[p][job[p]].title},
           tags \in TagSets \cup {copy[p][job[p]].tags},
           deps \in NewDeps \cup {copy[p][job[p]].deps} :
        row' = [row EXCEPT ![job[p]].title = title, ![job[p]].tags = tags,
                           ![job[p]].deps = deps \ {job[p]}]
  BY DEF UpdateTask
<1>5. copy[p][t] \in Copy
  BY <1>1, <1>2, <1>3 DEF ProcessTypes, BoardInv, Placed, PlacedAt, Holds
<1>6. title \in Titles /\ tags \in TagSets /\ deps \ {t} \in SUBSET Tasks
  BY <1>2, <1>5, CopyFields, TasksAssumption
<1>7. row[t] \in Row
  BY <1>1, <1>3 DEF DbTypes, Exists
<1> DEFINE r == [row[t] EXCEPT !.title = title, !.tags = tags, !.deps = deps \ {t}]
<1>8. r \in Row
  BY <1>6, <1>7, FieldsTyped
<1>9. row' = [row EXCEPT ![t] = r]
  BY <1>1, <1>2, <1>4 DEF DbTypes
<1> HIDE DEF r
<1>10. DbTypes' /\ \A x \in Tasks \ {t} : row'[x] = row[x]
  BY <1>1, <1>3, <1>8, <1>9, RowTyped
<1> QED
  BY <1>2, <1>3, <1>10, OwnWrite DEF Goals, TaskStatus

LEMMA SetTaskStatusKeeps ==
  ASSUME BoardInv, NEW p \in Processes, SetTaskStatus(p)
  PROVE  BoardInv'
<1>1. DbTypes /\ CacheTypes /\ ProcessTypes
  BY TypeParts DEF BoardInv
<1>2. PICK t \in Tasks : t = job[p]
  BY <1>1 DEF ProcessTypes
<1>3. /\ pc[p] = "use" /\ Exists(t) /\ Overtake(p, t)
      /\ Goto(p, "invalidate", "view", "draft")
      /\ UNCHANGED <<unused, att, cache, suspect, misplaced>>
  BY <1>2 DEF SetTaskStatus, doubts
<1>4. PICK place \in Slots :
        row' = [row EXCEPT ![job[p]].status = to[p], ![job[p]].place = place]
  BY DEF SetTaskStatus
<1>5. row[t] \in Row /\ to[p] \in TaskStatus /\ place \in Places
  BY <1>1, <1>3, TasksAssumption DEF DbTypes, ProcessTypes, Exists
<1> DEFINE r == [row[t] EXCEPT !.status = to[p], !.place = place]
<1>6. r \in Row
  BY <1>5, StatusTyped
<1>7. row' = [row EXCEPT ![t] = r]
  BY <1>1, <1>2, <1>4 DEF DbTypes
<1> HIDE DEF r
<1>8. DbTypes' /\ \A x \in Tasks \ {t} : row'[x] = row[x]
  BY <1>1, <1>3, <1>6, <1>7, RowTyped
<1> QED
  BY <1>2, <1>3, <1>8, OwnWrite DEF Goals, TaskStatus

(* A move renumbers the cards of the column it goes to.                    *)
LEMMA MoveTaskKeeps ==
  ASSUME BoardInv, NEW p \in Processes, MoveTask(p)
  PROVE  BoardInv'
<1>1. DbTypes /\ CacheTypes /\ ProcessTypes /\ TypeOK
  BY TypeParts DEF BoardInv
<1>2. PICK t \in Tasks : t = job[p]
  BY <1>1 DEF ProcessTypes
<1> DEFINE neighbors == {x \in Tasks \ {job[p]} : Exists(x) /\ row[x].status = to[p]}
<1>3. /\ pc[p] = "drop" /\ Exists(t)
      /\ Goto(p, "invalidate", "view", "draft")
      /\ UNCHANGED <<unused, att, cache, suspect>>
  BY <1>2 DEF MoveTask
<1>17. PICK place \in Slots, new \in [neighbors -> Places] :
        /\ row' = [x \in Tasks |->
              IF x = job[p] THEN [row[job[p]] EXCEPT !.status = to[p], !.place = place]
              ELSE IF x \in neighbors THEN [row[x] EXCEPT !.place = new[x]]
              ELSE row[x]]
        /\ Renumber(p, job[p], {x \in neighbors : new[x] # row[x].place})
  BY DEF MoveTask
<1>4. /\ row' = [x \in Tasks |->
              IF x = t THEN [row[t] EXCEPT !.status = to[p], !.place = place]
              ELSE IF x \in neighbors THEN [row[x] EXCEPT !.place = new[x]]
              ELSE row[x]]
      /\ Renumber(p, t, {x \in neighbors : new[x] # row[x].place})
  BY <1>2, <1>17
<1> DEFINE others == {x \in neighbors : new[x] # row[x].place}
<1>5. /\ others \in SUBSET Tasks
      /\ Renumber(p, t, others)
  BY <1>4
<1>6. row[t] \in Row /\ to[p] \in TaskStatus /\ place \in Places
  BY <1>1, <1>3, TasksAssumption DEF DbTypes, ProcessTypes, Exists
<1>7. [row[t] EXCEPT !.status = to[p], !.place = place] \in Row
  BY <1>6, StatusTyped
<1>8. \A x \in neighbors : x \in Tasks \ {t} /\ Exists(x) /\ row[x] \in Row /\ new[x] \in Places
  BY <1>1, <1>2 DEF DbTypes, Exists
<1>9. ASSUME NEW x \in neighbors
      PROVE  /\ row'[x] \in Row
             /\ row'[x].status = row[x].status /\ row'[x].title = row[x].title
             /\ row'[x].tags = row[x].tags /\ row'[x].deps = row[x].deps
             /\ row'[x].place = new[x]
  <2>1. PICK r \in Row, v \in Places : r = row[x] /\ v = new[x]
    BY <1>8
  <2>2. row'[x] = [r EXCEPT !.place = v]
    BY <1>4, <1>8, <2>1
  <2>3. [r EXCEPT !.place = v].place = v
    BY DEF Row
  <2> QED
    BY <2>1, <2>2, <2>3, PlaceTyped
<1>10. \A x \in Tasks \ {t} : x \notin neighbors => row'[x] = row[x]
  BY <1>4
<1>11. row'[t] \in Row
  BY <1>4, <1>7
<1> HIDE DEF neighbors
<1>12. \A x \in Tasks : row'[x] \in Row \cup {NoTask}
  BY <1>1, <1>9, <1>10, <1>11 DEF DbTypes
<1>13. DbTypes'
  <2>1. row' = [x \in Tasks |-> row'[x]]
    BY <1>4
  <2> QED
    BY <1>1, <1>3, <1>12, <2>1 DEF DbTypes
<1> HIDE DEF others
<1>14. /\ raced' \in [Processes -> SUBSET Tasks] /\ shifted' \in [Processes -> SUBSET Tasks]
       /\ misplaced' \in SUBSET Tasks
  BY <1>1, <1>5, RenumberTyped
<1>15. /\ Overtaken(p, t) /\ misplaced \subseteq misplaced'
       /\ \A x \in others :
             /\ x \in Cached => x \in misplaced'
             /\ \A q \in Processes \ {p} : copy[q][x] # NoTask => x \in shifted'[q]
  BY <1>1, <1>5, RenumberEffect
<1>16. ASSUME NEW x \in Tasks \ {t}
       PROVE  RowStays(x) /\ PlaceStays(p, x)
  <2>1. CASE x \notin neighbors
    BY <1>10, <2>1, SameStays
  <2>2. CASE x \in neighbors
    <3>1. Exists(x)' /\ Exists(x)
      BY <1>8, <1>9, <2>2, NoTaskIsNone DEF Exists
    <3>2. RowStays(x)
      BY <1>9, <2>2, <3>1 DEF RowStays
    <3>3. CASE x \in others
      BY <1>15, <3>2, <3>3 DEF PlaceStays
    <3>4. CASE x \notin others
      <4>1. row'[x].place = row[x].place
        BY <1>9, <2>2, <3>4 DEF others
      <4> QED
        BY <3>2, <4>1 DEF PlaceStays
    <3> QED
      BY <3>2, <3>3, <3>4
  <2> QED
    BY <2>1, <2>2
<1> QED
  BY <1>2, <1>3, <1>13, <1>14, <1>15, <1>16, GotoWrite DEF Goals, TaskStatus

LEMMA CreateAttemptKeeps ==
  ASSUME BoardInv, NEW p \in Processes, CreateAttempt(p)
  PROVE  BoardInv'
<1>1. DbTypes /\ CacheTypes /\ ProcessTypes
  BY TypeParts DEF BoardInv
<1>2. PICK t \in Tasks : t = job[p]
  BY <1>1 DEF ProcessTypes
<1>3. /\ pc[p] = "use" /\ Overtake(p, t)
      /\ UNCHANGED <<unused, row, cache, suspect, misplaced>>
      /\ \/ Goto(p, "invalidate", "move", "execute")
         \/ Goto(p, "invalidate", "view", "draft")
  BY <1>2 DEF CreateAttempt, doubts
<1>4. PICK a \in Attempts : /\ TaskOf[a] = t /\ att[a] = "unused"
                            /\ att' = [att EXCEPT ![a] = "active"]
  BY <1>2 DEF CreateAttempt
<1>5. /\ DbTypes'
      /\ \A b \in Attempts : TaskOf[b] # t => att'[b] = att[b]
      /\ \A b \in Attempts : att[b] # "unused" => att'[b] # "unused"
  BY <1>1, <1>3, <1>4 DEF DbTypes, AttemptStates
<1>6. (\A x \in Tasks \ {t} : row'[x] = row[x]) /\ (~ Exists(t) => row'[t] = NoTask)
  BY <1>3 DEF Exists
<1> QED
  BY <1>2, <1>3, <1>5, <1>6, OwnWrite DEF Goals, TaskStatus

LEMMA DeleteAttemptKeeps ==
  ASSUME BoardInv, NEW p \in Processes, DeleteAttempt(p)
  PROVE  BoardInv'
<1>1. DbTypes /\ CacheTypes /\ ProcessTypes
  BY TypeParts DEF BoardInv
<1>2. PICK t \in Tasks : t = job[p]
  BY <1>1 DEF ProcessTypes
<1>3. /\ pc[p] = "delete" /\ Overtake(p, t)
      /\ UNCHANGED <<unused, row, cache, suspect, misplaced>>
      /\ Goto(p, "invalidate", "view", "draft")
      /\ att' = [att EXCEPT ![with[p]] = "deleted"]
  BY <1>2 DEF DeleteAttempt, doubts
<1>4. with[p] \in Attempts /\ TaskOf[with[p]] = t
  BY <1>1, <1>2, <1>3 DEF ProcessTypes, BoardInv, Placed, PlacedAt
<1>5. /\ DbTypes'
      /\ \A b \in Attempts : TaskOf[b] # t => att'[b] = att[b]
      /\ \A b \in Attempts : att[b] # "unused" => att'[b] # "unused"
  BY <1>1, <1>3, <1>4 DEF DbTypes, AttemptStates
<1>6. (\A x \in Tasks \ {t} : row'[x] = row[x]) /\ (~ Exists(t) => row'[t] = NoTask)
  BY <1>3 DEF Exists
<1> QED
  BY <1>2, <1>3, <1>5, <1>6, OwnWrite DEF Goals, TaskStatus

LEMMA UpdateAttemptStateKeeps ==
  ASSUME BoardInv, NEW p \in Processes, UpdateAttemptState(p)
  PROVE  BoardInv'
<1>1. DbTypes /\ CacheTypes /\ ProcessTypes
  BY TypeParts DEF BoardInv
<1>2. PICK a \in Attempts :
        /\ att[a] \in {"active", "settled"}
        /\ IF att[a] = "active"
           THEN /\ att' = [att EXCEPT ![a] = "settled"]
                /\ Begin(p, "owner", TaskOf[a], "advance", "draft", a)
           ELSE /\ att' = [att EXCEPT ![a] = "active"]
                /\ Begin(p, "owner", TaskOf[a], "move", "execute", a)
        /\ Overtake(p, TaskOf[a])
  BY DEF UpdateAttemptState
<1>3. UNCHANGED <<unused, row, cache, suspect, misplaced>>
  BY DEF UpdateAttemptState, doubts
<1>4. TaskOf[a] \in Tasks
  BY TasksAssumption
<1>5. /\ DbTypes'
      /\ att'[a] \in {"active", "settled"}
      /\ \A b \in Attempts : TaskOf[b] # TaskOf[a] => att'[b] = att[b]
      /\ \A b \in Attempts : att[b] # "unused" => att'[b] # "unused"
  BY <1>1, <1>2, <1>3 DEF DbTypes, AttemptStates
<1>6. \/ Begin(p, "owner", TaskOf[a], "advance", "draft", a)
      \/ Begin(p, "owner", TaskOf[a], "move", "execute", a)
  BY <1>2
<1>7. PICK t \in Tasks : t = TaskOf[a]
  BY <1>4
<1>8. \A x \in Tasks \ {t} : RowStays(x) /\ PlaceStays(p, x)
  BY <1>3, SameStays
<1>9. ~ Exists(t) => row'[t] = NoTask
  BY <1>3 DEF Exists
<1> QED
  BY <1>2, <1>3, <1>5, <1>6, <1>7, <1>8, <1>9, BeginWrite DEF Goals, TaskStatus

LEMMA DeleteTaskKeeps ==
  ASSUME BoardInv, NEW p \in Processes, DeleteTask(p)
  PROVE  BoardInv'
<1>1. DbTypes /\ CacheTypes /\ ProcessTypes
  BY TypeParts DEF BoardInv
<1>2. PICK t \in Written \ unused :
        /\ row' = RowsWithout(t)
        /\ att' = [a \in Attempts |-> IF a \in RowsOf(t) THEN "deleted" ELSE att[a]]
        /\ Overtake(p, t)
        /\ Begin(p, "invalidate", t, "view", "draft", SomeAttempt)
  BY DEF DeleteTask
<1>3. t \in Tasks /\ t \notin unused /\ UNCHANGED <<unused, cache, suspect, misplaced>>
  BY TasksAssumption DEF DeleteTask, doubts
<1>5. row'[t] = NoTask /\ \A x \in Tasks : ~ Exists(x) => row'[x] = NoTask
  BY <1>2, <1>3 DEF RowsWithout
<1>6. ASSUME NEW x \in Tasks \ {t}, Exists(x)
      PROVE  /\ row'[x] \in Row
             /\ row'[x].status = row[x].status /\ row'[x].title = row[x].title
             /\ row'[x].place = row[x].place /\ row'[x].tags = row[x].tags
             /\ row'[x].deps = row[x].deps \ {t}
  <2>1. PICK r \in Row : r = row[x]
    BY <1>1, <1>6 DEF DbTypes, Exists
  <2>2. row'[x] = [r EXCEPT !.deps = @ \ {t}]
    BY <1>2, <1>6, <2>1 DEF RowsWithout
  <2> QED
    BY <1>3, <2>1, <2>2, DepsTyped
<1>7. DbTypes'
  <2>1. row' = [x \in Tasks |-> row'[x]]
    BY <1>2 DEF RowsWithout
  <2>2. \A x \in Tasks : row'[x] \in Row \cup {NoTask}
    BY <1>5, <1>6
  <2>3. row' \in [Tasks -> Row \cup {NoTask}]
    BY <2>1, <2>2
  <2>4. att' \in [Attempts -> AttemptStates]
    BY <1>1, <1>2 DEF DbTypes, AttemptStates
  <2> QED
    BY <1>1, <1>3, <2>3, <2>4 DEF DbTypes
<1>8. t \in Deleted'
  BY <1>3, <1>5 DEF Deleted, Exists
<1>9. ASSUME NEW x \in Tasks \ {t}
      PROVE  RowStays(x) /\ PlaceStays(p, x)
  <2>1. Exists(x)' <=> Exists(x)
    BY <1>5, <1>6, NoTaskIsNone DEF Exists
  <2>2. CASE Exists(x)
    <3>1. row'[x].deps \ Deleted' = row[x].deps \ Deleted'
      BY <1>6, <1>8, <2>2
    <3> QED
      BY <1>6, <2>1, <2>2, <3>1 DEF RowStays, PlaceStays
  <2>3. CASE ~ Exists(x)
    BY <2>1, <2>3 DEF RowStays, PlaceStays
  <2> QED
    BY <2>2, <2>3
<1>10. /\ \A b \in Attempts : TaskOf[b] # t => att'[b] = att[b]
       /\ \A b \in Attempts : att[b] # "unused" => att'[b] # "unused"
  BY <1>2 DEF RowsOf
<1> QED
  BY <1>2, <1>3, <1>5, <1>7, <1>9, <1>10, SomeTyped, BeginWrite DEF Goals, TaskStatus

LEMMA WriteKeeps ==
  ASSUME BoardInv, NEW p \in Processes, WriteStep(p)
  PROVE  BoardInv'
BY UpdateTaskKeeps, MoveTaskKeeps, SetTaskStatusKeeps, CreateAttemptKeeps,
   UpdateAttemptStateKeeps, DeleteTaskKeeps, DeleteAttemptKeeps DEF WriteStep

-----------------------------------------------------------------------------
(* The steps in between.                                                   *)
LEMMA ReturnKeeps ==
  ASSUME BoardInv, NEW p \in Processes, Return(p), UNCHANGED <<db, cache, suspect, misplaced>>,
         pc[p] \notin {"owner", "invalidate"}
  PROVE  BoardInv'
<1>1. DbTypes /\ CacheTypes /\ ProcessTypes
  BY TypeParts DEF BoardInv
<1>2. Quiet(p) /\ pc'[p] = "idle"
  BY <1>1, ReturnEffect DEF Quiet
<1>3. ProcessTypes'
  BY <1>1, DoneTyped
<1>4. Placed' /\ CopiesRight' /\ NoEarlyRows' /\ CacheRight'
  BY <1>2, IdleStep DEF Pcs, Reading
<1> QED
  BY <1>1, <1>3, <1>4, DbSame, CacheSame, TypeParts DEF BoardInv

LEMMA GotoKeeps ==
  ASSUME BoardInv, NEW p \in Processes, UNCHANGED <<db, cache, suspect, misplaced>>,
         pc[p] \notin {"owner", "invalidate"},
         NEW at \in {"lookup", "drop"}, NEW for \in Goals, NEW s \in TaskStatus,
         Goto(p, at, for, s), Fresh(p)
  PROVE  BoardInv'
<1>1. DbTypes /\ CacheTypes /\ ProcessTypes
  BY TypeParts DEF BoardInv
<1>2. Quiet(p) /\ pc'[p] = at
  BY <1>1, GotoEffect DEF Quiet, ProcessTypes, Fresh
<1>3. raced' \in [Processes -> SUBSET Tasks] /\ shifted' \in [Processes -> SUBSET Tasks]
  BY <1>1 DEF ProcessTypes, Fresh
<1>4. ProcessTypes'
  BY <1>1, <1>3, GotoTyped DEF Pcs
<1>5. Placed' /\ CopiesRight' /\ NoEarlyRows' /\ CacheRight'
  BY <1>2, IdleStep DEF Pcs, Reading
<1> QED
  BY <1>1, <1>4, <1>5, DbSame, CacheSame, TypeParts DEF BoardInv

LEMMA BeginKeeps ==
  ASSUME BoardInv, NEW p \in Processes, UNCHANGED <<db, cache, history>>,
         NEW at \in {"lookup", "row", "drop"}, NEW t \in Tasks, NEW for \in Goals,
         NEW s \in TaskStatus, NEW a \in Attempts, Begin(p, at, t, for, s, a)
  PROVE  BoardInv'
<1>1. DbTypes /\ CacheTypes /\ ProcessTypes
  BY TypeParts DEF BoardInv
<1>2. raced' = raced /\ shifted' = shifted /\ suspect' = suspect /\ misplaced' = misplaced
  BY DEF history, doubts
<1>3. Quiet(p) /\ pc'[p] = at /\ pc[p] = "idle"
  BY <1>1, <1>2, BeginEffect DEF Quiet
<1>4. ProcessTypes'
  <2>1. raced' \in [Processes -> SUBSET Tasks] /\ shifted' \in [Processes -> SUBSET Tasks]
    BY <1>1, <1>2 DEF ProcessTypes
  <2> QED
    BY <1>1, <2>1, BeginTyped DEF Pcs
<1>5. Placed' /\ CopiesRight' /\ NoEarlyRows' /\ CacheRight'
  BY <1>2, <1>3, IdleStep DEF Pcs, Reading
<1> QED
  BY <1>1, <1>2, <1>4, <1>5, DbSame, CacheSame, TypeParts DEF BoardInv

LEMMA ReadKeeps ==
  ASSUME BoardInv, NEW p \in Processes, Read(p)
  PROVE  BoardInv'
<1>1. UNCHANGED <<db, cache, history>>
  BY DEF Read
<1>2. /\ SomeTask \in Tasks /\ SomeAttempt \in Attempts
      /\ Written \subseteq Tasks /\ Viewed \subseteq Tasks /\ Drags \subseteq TaskStatus
  BY SomeTyped, TasksAssumption
<1>3. PICK at \in {"lookup", "row", "drop"}, t \in Tasks, for \in Goals, s \in TaskStatus :
        Begin(p, at, t, for, s, SomeAttempt)
  <2>1. CASE \E t \in Viewed \ unused : Begin(p, "lookup", t, "view", "draft", SomeAttempt)
    BY <1>2, <2>1 DEF Goals, TaskStatus
  <2>2. CASE Begin(p, "row", SomeTask, "list", "draft", SomeAttempt)
    BY <1>2, <2>2 DEF Goals, TaskStatus
  <2>3. CASE \E t \in Written \ unused :
                \/ Begin(p, "lookup", t, "patch", "draft", SomeAttempt)
                \/ Begin(p, "lookup", t, "start", "execute", SomeAttempt)
    BY <1>2, <2>3 DEF Goals, TaskStatus
  <2>4. CASE \E t \in Written \ unused, s \in Drags :
                IF s = "execute"
                THEN \E for \in {"drag", "dragNear"} : Begin(p, "lookup", t, for, s, SomeAttempt)
                ELSE \/ Begin(p, "lookup", t, "move", s, SomeAttempt)
                     \/ Begin(p, "drop", t, "dragNear", s, SomeAttempt)
    BY <1>2, <2>4 DEF Goals, TaskStatus
  <2> QED
    BY <2>1, <2>2, <2>3, <2>4 DEF Read
<1> QED
  BY <1>1, <1>2, <1>3, BeginKeeps

LEMMA DraggedKeeps ==
  ASSUME BoardInv, NEW p \in Processes, Dragged(p)
  PROVE  BoardInv'
<1>1. to[p] \in TaskStatus
  BY DEF BoardInv, TypeOK
<1>2. /\ pc[p] = "use" /\ UNCHANGED <<db, cache, suspect, misplaced>> /\ Fresh(p)
      /\ \/ Goto(p, "lookup", "start", "execute")
         \/ Goto(p, "drop", "dragNear", to[p])
         \/ Goto(p, "lookup", "move", to[p])
  BY DEF Dragged, doubts
<1> QED
  BY <1>1, <1>2, GotoKeeps DEF Goals, TaskStatus

LEMMA AdvanceKeeps ==
  ASSUME BoardInv, NEW p \in Processes, MaybeAdvance(p)
  PROVE  BoardInv'
BY GotoKeeps DEF MaybeAdvance, doubts, Goals, TaskStatus

LEMMA RemoveAttemptKeeps ==
  ASSUME BoardInv, NEW p \in Processes, RemoveAttempt(p)
  PROVE  BoardInv'
<1>1. DbTypes /\ CacheTypes /\ ProcessTypes
  BY TypeParts DEF BoardInv
<1>2. PICK a \in Attempts :
        att[a] = "settled" /\ Begin(p, "delete", TaskOf[a], "view", "draft", a)
  BY DEF RemoveAttempt
<1>3. /\ UNCHANGED <<db, cache>> /\ TaskOf[a] \in Tasks /\ att' = att
      /\ raced' = raced /\ shifted' = shifted /\ suspect' = suspect /\ misplaced' = misplaced
  BY TasksAssumption DEF RemoveAttempt, history, doubts, db
<1>4. /\ OnlyMoves(p) /\ pc[p] = "idle" /\ pc'[p] = "delete"
      /\ job'[p] = TaskOf[a] /\ with'[p] = a
  BY <1>1, <1>2, BeginEffect
<1>5. Quiet(p)
  BY <1>3, <1>4 DEF Quiet
<1>6. ProcessTypes'
  <2>1. raced' \in [Processes -> SUBSET Tasks] /\ shifted' \in [Processes -> SUBSET Tasks]
    BY <1>1, <1>3 DEF ProcessTypes
  <2> QED
    BY <1>1, <1>2, <1>3, <2>1, BeginTyped DEF Pcs, Goals, TaskStatus
<1>7. PlacedAt(p)' /\ RightAt(p)'
  BY <1>2, <1>3, <1>4 DEF PlacedAt, RightAt, Holds, Reading
<1>8. CacheRight'
  <2>1. \A x \in Tasks : ~ WillDrop(p, x)
    BY <1>4 DEF WillDrop
  <2> QED
    BY <1>3, <1>5, <2>1, CacheKeeps DEF BoardInv
<1> QED
  BY <1>1, <1>3, <1>5, <1>6, <1>7, <1>8, QuietKeeps, DbSame, CacheSame, TypeParts
     DEF BoardInv

LEMMA OwnerKeeps ==
  ASSUME BoardInv, NEW p \in Processes, Owner(p)
  PROVE  BoardInv'
<1>1. DbTypes /\ CacheTypes /\ ProcessTypes
  BY TypeParts DEF BoardInv
<1>2. /\ pc[p] = "owner" /\ UNCHANGED <<db, cache, job, goal, to, with, left, copy>>
      /\ raced' = raced /\ shifted' = shifted /\ suspect' = suspect /\ misplaced' = misplaced
      /\ att' = att
      /\ pc' \in {[pc EXCEPT ![p] = "invalidate"], [pc EXCEPT ![p] = "lookup"]}
      /\ att[with[p]] \in {"active", "settled"} => pc' = [pc EXCEPT ![p] = "invalidate"]
  BY DEF Owner, history, doubts, db
<1>3. ProcessTypes'
  BY <1>1, <1>2 DEF ProcessTypes, Pcs
<1>4. Quiet(p) /\ pc'[p] \in {"invalidate", "lookup"}
  BY <1>1, <1>2 DEF Quiet, OnlyMoves, ProcessTypes
<1>5. PlacedAt(p)' /\ RightAt(p)'
  BY <1>4, NothingHeld DEF Pcs, Reading
<1>6. \A t \in Tasks : WillDrop(p, t) => WillDrop(p, t)'
  BY <1>1, <1>2 DEF WillDrop, ProcessTypes
<1>7. CacheRight'
  BY <1>2, <1>4, <1>6, CacheKeeps DEF BoardInv
<1> QED
  BY <1>1, <1>2, <1>3, <1>4, <1>5, <1>7, QuietKeeps, DbSame, CacheSame, TypeParts
     DEF BoardInv

(* A writer leaves the owner or the invalidate step: the copy of its task  *)
(* is dropped or may be old, and the other copies are as they were.        *)
LEMMA CacheDropped ==
  ASSUME BoardInv, NEW p \in Processes, NEW t \in Tasks, t = job[p], Quiet(p),
         \A x \in Tasks \ {t} : /\ cache'[x] = cache[x]
                                /\ x \notin suspect' => x \notin suspect
                                /\ x \in misplaced' <=> x \in misplaced,
         cache'[t] = NoTask \/ t \in suspect'
  PROVE  CacheRight'
<1> SUFFICES ASSUME NEW x \in Tasks, cache'[x] # NoTask, x \notin suspect'
             PROVE  \/ Shown(cache[x], x, misplaced)'
                    \/ \E q \in Processes : WillDrop(q, x)'
  BY DEF CacheRight, Cached
<1>1. /\ x # t /\ cache'[x] = cache[x] /\ x \in Cached \ suspect
      /\ x \in misplaced' <=> x \in misplaced
  BY DEF Cached
<1>2. Shown(cache[x], x, misplaced) => Shown(cache[x], x, misplaced)'
  <2>1. PICK c, moved : c = cache[x] /\ moved = misplaced
    OBVIOUS
  <2>2. c = cache'[x] /\ (x \in moved <=> x \in misplaced')
    BY <1>1, <2>1
  <2>3. Shown(c, x, moved) => Shown(c, x, moved)'
    BY ShownStill DEF Quiet
  <2>4. Shown(c, x, moved)' => Shown(cache[x], x, misplaced)'
    BY <2>2 DEF Shown
  <2> QED
    BY <2>1, <2>3, <2>4
<1>3. ASSUME NEW q \in Processes, WillDrop(q, x)
      PROVE  WillDrop(q, x)'
  <2>1. q # p
    BY <1>1, <1>3 DEF WillDrop
  <2> QED
    BY <1>3, <2>1, DbRead DEF Quiet, OnlyMoves, WillDrop
<1> QED
  BY <1>1, <1>2, <1>3 DEF BoardInv, CacheRight

LEMMA OwnerFailsKeeps ==
  ASSUME BoardInv, NEW p \in Processes, OwnerFails(p)
  PROVE  BoardInv'
<1>1. DbTypes /\ CacheTypes /\ ProcessTypes
  BY TypeParts DEF BoardInv
<1>2. PICK t \in Tasks : t = job[p]
  BY <1>1 DEF ProcessTypes
<1>3. /\ Return(p) /\ UNCHANGED <<db, cache, misplaced>>
      /\ suspect' = suspect \cup ({t} \cap Cached)
  BY <1>2 DEF OwnerFails
<1>4. Quiet(p) /\ pc'[p] = "idle"
  BY <1>1, <1>3, ReturnEffect DEF Quiet
<1>5. PlacedAt(p)' /\ RightAt(p)'
  BY <1>4, NothingHeld DEF Pcs, Reading
<1>6. CacheRight'
  <2>1. cache'[t] = NoTask \/ t \in suspect'
    BY <1>3 DEF Cached
  <2>2. \A x \in Tasks \ {t} : /\ cache'[x] = cache[x]
                               /\ x \notin suspect' => x \notin suspect
                               /\ x \in misplaced' <=> x \in misplaced
    BY <1>3
  <2> QED
    BY <1>2, <1>4, <2>1, <2>2, CacheDropped
<1>7. CacheTypes'
  BY <1>1, <1>3 DEF CacheTypes, Cached
<1>8. ProcessTypes'
  BY <1>1, <1>3, DoneTyped
<1> QED
  BY <1>1, <1>3, <1>4, <1>5, <1>6, <1>7, <1>8, QuietKeeps, DbSame, TypeParts DEF BoardInv

LEMMA InvalidateKeeps ==
  ASSUME BoardInv, NEW p \in Processes, Invalidate(p)
  PROVE  BoardInv'
<1>1. DbTypes /\ CacheTypes /\ ProcessTypes
  BY TypeParts DEF BoardInv
<1>2. PICK t \in Tasks : t = job[p]
  BY <1>1 DEF ProcessTypes
<1>3. /\ cache' = [cache EXCEPT ![t] = NoTask] /\ suspect' = suspect \ {t}
      /\ misplaced' = misplaced \ {t}
      /\ UNCHANGED db
      /\ \/ Return(p)
         \/ /\ pc' = [pc EXCEPT ![p] = "lookup"]
            /\ UNCHANGED <<raced, shifted, job, goal, to, with, left, copy>>
  BY <1>2 DEF Invalidate
<1>4. Quiet(p) /\ pc'[p] \in {"idle", "lookup"} /\ ProcessTypes'
  <2>1. CASE Return(p)
    BY <1>1, <1>3, <2>1, ReturnEffect, DoneTyped DEF Quiet
  <2>2. CASE ~ Return(p)
    BY <1>1, <1>3, <2>2 DEF Quiet, OnlyMoves, ProcessTypes, Pcs
  <2> QED
    BY <2>1, <2>2
<1>5. PlacedAt(p)' /\ RightAt(p)'
  BY <1>4, NothingHeld DEF Pcs, Reading
<1>6. CacheRight'
  <2>1. cache'[t] = NoTask
    BY <1>1, <1>3 DEF CacheTypes
  <2>2. \A x \in Tasks \ {t} : /\ cache'[x] = cache[x]
                               /\ x \notin suspect' => x \notin suspect
                               /\ x \in misplaced' <=> x \in misplaced
    BY <1>1, <1>3 DEF CacheTypes
  <2> QED
    BY <1>2, <1>4, <2>1, <2>2, CacheDropped
<1>7. CacheTypes'
  <2>1. /\ cache' \in [Tasks -> Copy \cup {NoTask}]
        /\ suspect' \in SUBSET Tasks /\ misplaced' \in SUBSET Tasks
    BY <1>1, <1>3 DEF CacheTypes
  <2>2. Cached' \subseteq Cached
    BY <1>1, <1>3 DEF CacheTypes, Cached
  <2> QED
    BY <1>1, <2>1, <2>2, Shrunk
<1> QED
  BY <1>1, <1>3, <1>4, <1>5, <1>6, <1>7, QuietKeeps, DbSame, TypeParts DEF BoardInv

LEMMA OtherKeeps ==
  ASSUME BoardInv, NEW p \in Processes, OtherStep(p)
  PROVE  BoardInv'
<1>1. CASE Finish(p)
  BY <1>1, ReturnKeeps DEF Finish, doubts
<1> QED
  BY <1>1, ReadKeeps, DraggedKeeps, AdvanceKeeps, OwnerKeeps, OwnerFailsKeeps,
     InvalidateKeeps, RemoveAttemptKeeps DEF OtherStep

-----------------------------------------------------------------------------
(* The steps of no process.                                                *)
LEMMA CreateTaskKeeps ==
  ASSUME BoardInv, CreateTask
  PROVE  BoardInv'
<1>1. DbTypes /\ CacheTypes /\ ProcessTypes
  BY TypeParts DEF BoardInv
<1>11. PICK t \in unused : \E new \in NewRows[t] :
         unused' = unused \ {t} /\ row' = [row EXCEPT ![t] = [new EXCEPT !.deps = @ \ {t}]]
  BY DEF CreateTask
<1>12. PICK given \in NewRows[t] :
         unused' = unused \ {t} /\ row' = [row EXCEPT ![t] = [given EXCEPT !.deps = @ \ {t}]]
  BY <1>11
<1>13. t \in Tasks /\ given \in Row
  BY <1>1, TasksAssumption DEF DbTypes
<1>14. PICK new \in Row : unused' = unused \ {t} /\ row' = [row EXCEPT ![t] = new]
  BY <1>12, <1>13, DepsTyped
<1>2. unused' = unused \ {t} /\ row' = [row EXCEPT ![t] = new]
  BY <1>14
<1>3. /\ t \in Tasks /\ new \in Row /\ row[t] = NoTask /\ ~ Exists(t)
      /\ UNCHANGED <<att, cache, suspect, misplaced, raced, shifted,
                     pc, job, goal, to, with, left, copy>>
  BY <1>1, <1>2 DEF CreateTask, process, history, doubts, DbTypes, BoardInv, NoEarlyRows, Exists
<1>4. DbTypes' /\ CacheTypes' /\ ProcessTypes'
  BY <1>1, <1>2, <1>3 DEF DbTypes, CacheTypes, Cached, ProcessTypes
<1>5. \A x \in Tasks \ {t} : row'[x] = row[x] /\ Exists(x)' = Exists(x)
  BY <1>1, <1>2 DEF DbTypes, Exists
<1>6. \A x \in Tasks : Total(x)' = Total(x) /\ Live(x)' = Live(x)
  BY <1>3 DEF Total, Live, RowsOf, LiveOf
<1>15. Deleted' = Deleted
  <2>1. Exists(t)'
    BY <1>1, <1>2, <1>3, NoTaskIsNone DEF DbTypes, Exists
  <2> QED
    BY <1>2, <1>3, <1>5, <2>1 DEF Deleted
<1>7. Placed'
  BY <1>3 DEF BoardInv, Placed, PlacedAt, Holds
<1>8. CopiesRight'
  <2> SUFFICES ASSUME NEW q \in Processes, NEW x \in Tasks, Holds(q, x), x \notin raced[q]
               PROVE  CopyRight(q, x)'
    BY <1>3 DEF CopiesRight, RightAt, Holds
  <2>1. CopyRight(q, x)
    BY DEF BoardInv, CopiesRight, RightAt
  <2>2. x # t
    BY <1>3, <2>1 DEF CopyRight
  <2> QED
    BY <1>3, <1>5, <1>6, <1>15, <2>1, <2>2 DEF CopyRight
<1>9. CacheRight'
  <2> SUFFICES ASSUME NEW x \in Tasks, cache[x] # NoTask, x \notin suspect
               PROVE  \/ Shown(cache[x], x, misplaced)'
                      \/ \E q \in Processes : WillDrop(q, x)'
    BY <1>3 DEF CacheRight, Cached
  <2>1. CASE Shown(cache[x], x, misplaced)
    <3>1. x # t
      BY <1>3, <2>1 DEF Shown
    <3> QED
      BY <1>3, <1>5, <1>6, <1>15, <2>1, <3>1 DEF Shown, Same
  <2>2. CASE \E q \in Processes : WillDrop(q, x)
    BY <1>3, <2>2 DEF WillDrop
  <2> QED
    BY <2>1, <2>2 DEF BoardInv, CacheRight, Cached
<1>10. NoEarlyRows'
  BY <1>1, <1>2 DEF BoardInv, NoEarlyRows, DbTypes
<1> QED
  BY <1>4, <1>7, <1>8, <1>9, <1>10, TypeParts DEF BoardInv

LEMMA NothingCached ==
  ASSUME cache = NoCopies
  PROVE  Cached = {} /\ Cardinality(Cached) = 0
BY FS_EmptySet DEF Cached, NoCopies

LEMMA InitInv == Init => BoardInv
<1> SUFFICES ASSUME Init PROVE BoardInv
  OBVIOUS
<1>1. Cached = {} /\ Cardinality(Cached) = 0
  BY NothingCached DEF Init
<1>2. TypeOK
  BY <1>1, SomeTyped, CacheAssumption DEF Init, TypeOK, AttemptStates, Pcs, Goals, TaskStatus
<1>3. Placed /\ CopiesRight
  BY DEF Init, Placed, PlacedAt, CopiesRight, RightAt, Holds, Reading
<1>4. CacheRight /\ NoEarlyRows
  BY <1>1 DEF Init, CacheRight, NoEarlyRows
<1> QED
  BY <1>2, <1>3, <1>4 DEF BoardInv

LEMMA RestartKeeps ==
  ASSUME BoardInv, Restart
  PROVE  BoardInv'
<1>1. DbTypes
  BY TypeParts DEF BoardInv
<1>2. UNCHANGED db /\ unused' = unused /\ row' = row
  BY DEF Restart, db
<1>3. Cached' = {} /\ Cardinality(Cached') = 0
  <2>1. Cached' = {}
    BY DEF Restart, Cached, NoCopies
  <2> QED
    BY <2>1, FS_EmptySet
<1>4. CacheTypes'
  BY <1>3, SomeTyped, CacheAssumption DEF CacheTypes, Restart
<1>5. ProcessTypes'
  BY SomeTyped DEF ProcessTypes, Restart, Pcs, Goals, TaskStatus
<1>6. Placed' /\ CopiesRight'
  BY DEF Restart, Placed, PlacedAt, CopiesRight, RightAt, Holds, Reading
<1>7. CacheRight' /\ NoEarlyRows'
  BY <1>2, <1>3 DEF CacheRight, NoEarlyRows, BoardInv
<1> QED
  BY <1>1, <1>2, <1>4, <1>5, <1>6, <1>7, DbSame, TypeParts DEF BoardInv

LEMMA StutterKeeps ==
  ASSUME BoardInv, UNCHANGED vars
  PROVE  BoardInv'
<1>1. /\ unused' = unused /\ row' = row /\ att' = att /\ cache' = cache
      /\ pc' = pc /\ job' = job /\ goal' = goal /\ to' = to /\ with' = with
      /\ left' = left /\ copy' = copy /\ raced' = raced /\ suspect' = suspect
      /\ shifted' = shifted /\ misplaced' = misplaced
  BY DEF vars, db, process, history, doubts
<1>2. DbTypes' /\ CacheTypes' /\ ProcessTypes'
  BY <1>1, TypeParts DEF BoardInv, DbTypes, CacheTypes, Cached, ProcessTypes
<1>3. Placed' /\ NoEarlyRows'
  BY <1>1 DEF BoardInv, Placed, PlacedAt, Holds, NoEarlyRows
<1>4. /\ \A x \in Tasks : Exists(x)' = Exists(x) /\ Total(x)' = Total(x) /\ Live(x)' = Live(x)
      /\ Deleted' = Deleted
  BY <1>1, DbRead DEF db
<1>5. CopiesRight'
  BY <1>1, <1>4 DEF BoardInv, CopiesRight, RightAt, CopyRight, Holds
<1>6. CacheRight'
  BY <1>1, <1>4 DEF BoardInv, CacheRight, Cached, Shown, Same, WillDrop
<1> QED
  BY <1>2, <1>3, <1>5, <1>6, TypeParts DEF BoardInv

(* The copies that no write has overtaken are right, in the cache and in   *)
(* the hands of every handler that decides on one.                         *)
THEOREM InvariantCorrect == Spec => []BoardInv
<1>1. BoardInv /\ [Next]_vars => BoardInv'
  <2> SUFFICES ASSUME BoardInv, [Next]_vars
               PROVE  BoardInv'
    OBVIOUS
  <2>1. CASE CreateTask
    BY <2>1, CreateTaskKeeps
  <2>2. CASE Restart
    BY <2>2, RestartKeeps
  <2>3. ASSUME NEW p \in Processes, GetStep(p)
        PROVE  BoardInv'
    BY <2>3, LookupKeeps, ReadRowKeeps, ReadTagsKeeps, ReadCountsKeeps, PutKeeps DEF GetStep
  <2>4. ASSUME NEW p \in Processes, WriteStep(p)
        PROVE  BoardInv'
    BY <2>4, WriteKeeps
  <2>5. ASSUME NEW p \in Processes, OtherStep(p)
        PROVE  BoardInv'
    BY <2>5, OtherKeeps
  <2>6. CASE UNCHANGED vars
    BY <2>6, StutterKeeps
  <2> QED
    BY <2>1, <2>2, <2>3, <2>4, <2>5, <2>6 DEF Next
<1> QED
  BY InitInv, <1>1, PTL DEF Spec

(* Every variable keeps its type, and the cache its bound.                 *)
THEOREM TypeCorrect == Spec => []TypeOK
<1>1. BoardInv => TypeOK
  BY DEF BoardInv
<1> QED
  BY <1>1, InvariantCorrect, PTL

(* What the cache shows of a task is what the database says, but for the   *)
(* deleted tasks it depended on and the place a renumbering gave its card; *)
(* or it is about to be dropped, or was put there by an overtaken reader   *)
(* (cache.go).                                                             *)
THEOREM CacheCorrect == Spec => []CacheExact
<1>1. BoardInv => CacheExact
  BY DEF BoardInv, CacheRight, CacheExact, Shown, WillDrop, Pending
<1> QED
  BY <1>1, InvariantCorrect, PTL

(* Transitions decided on a copy that no write has overtaken are moves of  *)
(* the table, whatever the cache did (board.go).                           *)
THEOREM MovesCorrect == Spec => MovesLegal
<1>1. BoardInv /\ [Next]_vars =>
        [\A p \in Processes :
            SetTaskStatus(p) /\ job[p] \notin raced[p] =>
                to[p] \in validTransitions[row[job[p]].status]]_vars
  <2> SUFFICES ASSUME BoardInv, NEW p \in Processes, SetTaskStatus(p), job[p] \notin raced[p]
               PROVE  to[p] \in validTransitions[row[job[p]].status]
    OBVIOUS
  <2>1. job[p] \in Tasks
    BY DEF BoardInv, TypeOK
  <2>2. CopyRight(p, job[p])
    BY <2>1 DEF BoardInv, CopiesRight, RightAt, Holds, SetTaskStatus
  <2> QED
    BY <2>2 DEF CopyRight, SetTaskStatus
<1> QED
  BY <1>1, InvariantCorrect, PTL DEF Spec, MovesLegal

(* No stale copy starts an attempt for a deleted task: only a deletion     *)
(* during Start itself can (runner.go).                                    *)
THEOREM OrphansCorrect == Spec => NoOrphans
<1>1. BoardInv /\ [Next]_vars =>
        [\A p \in Processes :
            CreateAttempt(p) /\ job[p] \notin raced[p] => Exists(job[p])]_vars
  <2> SUFFICES ASSUME BoardInv, NEW p \in Processes, CreateAttempt(p), job[p] \notin raced[p]
               PROVE  Exists(job[p])
    OBVIOUS
  <2>1. job[p] \in Tasks
    BY DEF BoardInv, TypeOK
  <2>2. CopyRight(p, job[p])
    BY <2>1 DEF BoardInv, CopiesRight, RightAt, Holds, CreateAttempt
  <2> QED
    BY <2>2 DEF CopyRight
<1> QED
  BY <1>1, InvariantCorrect, PTL DEF Spec, NoOrphans
=============================================================================

--------------------------- MODULE Dispatch_proofs --------------------------
(***************************************************************************)
(* What is proved of Dispatch, for any number of users, tasks, servers,    *)
(* attempts and callers of Start: its type invariant, and that n callers   *)
(* take no more than n - 1 attempts past a cap of the gate.                *)
(*                                                                         *)
(* The argument for a cap on a pool of rows. List the active rows of the   *)
(* pool in the order of their insertion, each with the caller that         *)
(* inserted it. A caller's next count sees the row it inserted and all     *)
(* those before it, so the caller of a row from the cap-th on is refused   *)
(* while that row is active: these rows have different callers, and none   *)
(* of them is admitted now.                                                *)
(***************************************************************************)
EXTENDS Dispatch, FiniteSetTheorems, TLAPS

(* What TypeOK leaves open: an admitted attempt is active, a start under   *)
(* way has a server, and a count begins with the first user.               *)
GatedActive == gated \subseteq active
Served      == \A p \in Starters : pc[p] # "idle" => srv[p] \in Servers
CountsAll   == \A p \in Starters : pc[p] = "idle" => left[p] = 1

TypeInv == TypeOK /\ GatedActive /\ Served /\ CountsAll

LEMMA SomeTaskType == SomeTask \in Tasks
  BY TasksAssumption DEF SomeTask

LEMMA TypeInit == Init => TypeInv
  BY SomeTaskType, UsersAssumption
  DEF Init, TypeInv, TypeOK, GatedActive, Served, CountsAll, TaskStatus, Pcs, Users

LEMMA ReturnTypes ==
    ASSUME TypeInv, NEW p \in Starters, Return(p)
    PROVE  /\ pc' \in [Starters -> Pcs]
           /\ job' \in [Starters -> Tasks]
           /\ srv' \in [Starters -> Servers \cup {NoServer}]
           /\ moves' \in [Starters -> BOOLEAN]
           /\ left' \in [Starters -> Users]
           /\ seen' \in [Starters -> SUBSET Attempts]
           /\ Served' /\ CountsAll'
  BY SomeTaskType, UsersAssumption
  DEF TypeInv, TypeOK, Return, Pcs, Users, Served, CountsAll

LEMMA CallTypes ==
    ASSUME TypeInv, NEW p \in Starters, NEW t \in Tasks, NEW w, Call(p, t, w)
    PROVE  /\ pc' \in [Starters -> Pcs]
           /\ job' \in [Starters -> Tasks]
           /\ srv' \in [Starters -> Servers \cup {NoServer}]
           /\ moves' \in [Starters -> BOOLEAN]
           /\ left' \in [Starters -> Users]
           /\ seen' \in [Starters -> SUBSET Attempts]
           /\ Served' /\ CountsAll'
  <1> DEFINE s == Resolve(OwnerOf[t], w)
  <1>1. OwnerOf[t] \in Users
    BY UsersAssumption
  <1>2. s \in Servers \cup {NoServer}
    BY <1>1, ServersAssumption DEF Resolve
  <1>3. CASE s = NoServer
    BY <1>3 DEF Call, TypeInv, TypeOK, Served, CountsAll
  <1>4. CASE s # NoServer
    <2>1. s \in Servers
      BY <1>2, <1>4
    <2>2. pc' = [pc EXCEPT ![p] = "count"] /\ srv' = [srv EXCEPT ![p] = s]
          /\ job' = [job EXCEPT ![p] = t] /\ left' = left /\ seen' = seen
          /\ moves' = [moves EXCEPT ![p] = status[t] # "execute"]
      BY <1>4 DEF Call
    <2> HIDE DEF s
    <2> QED
      BY <2>1, <2>2 DEF TypeInv, TypeOK, Pcs, Served, CountsAll
  <1> QED
    BY <1>3, <1>4

LEMMA MovedType ==
    ASSUME NEW f \in TaskStatus, NEW g \in TaskStatus
    PROVE  Moved(f, g) \in TaskStatus
  BY DEF Moved

LEMMA StarterKinds ==
    /\ Scheduler \in Starters /\ Cron \in Starters
    /\ Requests \subseteq Starters
  BY DEF Starters

(* Every step keeps the types.                                             *)
LEMMA TypeStep == TypeInv /\ [Next]_vars => TypeInv'
  <1> SUFFICES ASSUME TypeInv, [Next]_vars PROVE TypeInv'
    OBVIOUS
  <1> USE DEF TypeInv
  <1>1. ASSUME ListPlan PROVE TypeInv'
    <2>1. next' \in Users
      BY <1>1, UsersAssumption DEF ListPlan, NextUser, TypeOK, Users
    <2> QED
      BY <1>1, <2>1 DEF ListPlan, PlanColumn, TypeOK, table, caller, GatedActive, Served, CountsAll
  <1>2. ASSUME NEW t \in Tasks, Visit(t) PROVE TypeInv'
    <2>1. CASE Call(Scheduler, t, Preferred[t])
      BY <1>2, <2>1, CallTypes, StarterKinds DEF Visit, TypeOK, table, GatedActive
    <2>2. CASE UNCHANGED caller
      BY <1>2, <2>2 DEF Visit, TypeOK, table, caller, GatedActive, Served, CountsAll
    <2> QED
      BY <1>2, <2>1, <2>2 DEF Visit
  <1>3. ASSUME NEW t \in Tasks, CronFire(t) PROVE TypeInv'
    BY <1>3, CallTypes, StarterKinds DEF CronFire, TypeOK, table, tick, GatedActive
  <1>4. ASSUME NEW r \in Requests, NEW t \in Tasks, DragToExecute(r, t) PROVE TypeInv'
    BY <1>4, CallTypes, StarterKinds DEF DragToExecute, TypeOK, table, tick, GatedActive
  <1>5. ASSUME NEW r \in Requests, NEW t \in Tasks, NEW s, StartAttempt(r, t, s) PROVE TypeInv'
    BY <1>5, CallTypes, StarterKinds DEF StartAttempt, TypeOK, table, tick, GatedActive
  <1>6. ASSUME NEW p \in Starters, CountUser(p) PROVE TypeInv'
    <2>1. left[p] + 1 \in Users
      BY <1>6, UsersAssumption DEF CountUser, TypeOK, Users
    <2>2. Counted(p) \in SUBSET Attempts
      BY <1>6 DEF Counted, RowsOf, TypeOK
    <2>3. left' \in [Starters -> Users] /\ seen' \in [Starters -> SUBSET Attempts]
      BY <1>6, <2>1, <2>2 DEF CountUser, TypeOK
    <2>4. CountsAll'
      BY <1>6 DEF CountUser, CountsAll, TypeOK
    <2> QED
      BY <1>6, <2>3, <2>4 DEF CountUser, TypeOK, table, tick, GatedActive, Served
  <1>7. ASSUME NEW p \in Starters, Gate(p) PROVE TypeInv'
    <2>1. CASE Return(p)
      BY <1>7, <2>1, ReturnTypes DEF Gate, TypeOK, table, tick, GatedActive
    <2>2. CASE ~Return(p)
      <3>1. /\ pc' = [pc EXCEPT ![p] = "create"] /\ left' = [left EXCEPT ![p] = 1]
            /\ seen' = [seen EXCEPT ![p] = {}] /\ UNCHANGED <<job, srv, moves>>
            /\ pc[p] = "count"
        BY <1>7, <2>2 DEF Gate
      <3>2. left' \in [Starters -> Users]
        BY <3>1, UsersAssumption DEF TypeOK, Users
      <3>3. Served' /\ CountsAll'
        BY <3>1 DEF Served, CountsAll, TypeOK
      <3> QED
        BY <1>7, <3>1, <3>2, <3>3 DEF Gate, TypeOK, Pcs, table, tick, GatedActive
    <2> QED
      BY <2>1, <2>2
  <1>8. ASSUME NEW p \in Starters, NEW a \in Attempts, Insert(p, a),
               status' \in [Tasks -> TaskStatus]
        PROVE  TypeInv'
    BY <1>8, ReturnTypes DEF Insert, TypeOK, tick, GatedActive
  <1>9. ASSUME NEW p \in Starters, NEW a \in Attempts, Create(p, a) PROVE TypeInv'
    <2>1. status' \in [Tasks -> TaskStatus]
      BY <1>9, MovedType DEF Create, TypeOK, TaskStatus
    <2> QED
      BY <1>8, <1>9, <2>1 DEF Create
  <1>10. ASSUME NEW p \in Starters, NEW a \in Attempts, CreateOnly(p, a) PROVE TypeInv'
    BY <1>8, <1>10 DEF CreateOnly, TypeOK
  <1>11. ASSUME NEW p \in Starters, CreateFails(p) \/ StartFails(p) PROVE TypeInv'
    BY <1>11, ReturnTypes DEF CreateFails, StartFails, TypeOK, table, tick, GatedActive
  <1>12. ASSUME NEW t \in Tasks, NEW c \in Drags, Drag(t, c) PROVE TypeInv'
    BY <1>12, TasksAssumption DEF Drag, TypeOK, tick, caller, GatedActive, Served, CountsAll
  <1>13. ASSUME NEW u \in Users, SetDisabled(u) PROVE TypeInv'
    BY <1>13 DEF SetDisabled, TypeOK, tick, caller, GatedActive, Served, CountsAll
  <1>14. ASSUME NEW a \in Attempts, Settle(a) PROVE TypeInv'
    <2>1. status' \in [Tasks -> TaskStatus]
      BY <1>14, AttemptsAssumption DEF Settle, TypeOK, TaskStatus
    <2> QED
      BY <1>14, <2>1 DEF Settle, TypeOK, tick, caller, GatedActive, Served, CountsAll
  <1>15. ASSUME NEW a \in Attempts, Reopen(a) PROVE TypeInv'
    <2>1. status' \in [Tasks -> TaskStatus]
      BY <1>15, AttemptsAssumption, MovedType DEF Reopen, TypeOK, TaskStatus
    <2> QED
      BY <1>15, <2>1 DEF Reopen, TypeOK, tick, caller, GatedActive, Served, CountsAll
  <1>16. CASE UNCHANGED vars
    BY <1>16 DEF vars, table, tick, caller, TypeOK, GatedActive, Served, CountsAll
  <1> QED
    BY <1>1, <1>2, <1>3, <1>4, <1>5, <1>6, <1>7, <1>9, <1>10, <1>11, <1>12, <1>13,
       <1>14, <1>15, <1>16, StarterKinds
    DEF Next, SchedulerStep, StartStep, UserStep

(* The type invariant: the tick stays within the user directory, and what  *)
(* a caller of Start holds is what it was called for.                      *)
THEOREM TypeCorrect == Spec => []TypeOK
  <1>1. Spec => []TypeInv
    BY TypeInit, TypeStep, PTL DEF Spec
  <1>2. TypeInv => TypeOK
    BY DEF TypeInv
  <1> QED
    BY <1>1, <1>2, PTL

-----------------------------------------------------------------------------
(* The caps. A pool is the rows on some servers; its cap is checked by the *)
(* callers that start on one of them.                                      *)
PoolOf(W)  == {a \in Attempts : ServerOf[a] \in W}
Gated(W)   == gated \cap PoolOf(W)
Into(W)    == {p \in Admitted : srv[p] \in W}

(* A cap the gate keeps a pool under.                                      *)
Guarded(W, cap) ==
    \A p \in Starters : Passes(p) /\ srv[p] \in W =>
        Cardinality(Counted(p) \cap PoolOf(W)) < cap

(* What the count a caller is in, or will begin next, has seen or will see *)
(* of the rows that are active now; adm says what an admitted one saw.     *)
Vis(p, adm) ==
    IF pc[p] = "idle" THEN Attempts
    ELSE IF pc[p] = "count" THEN seen[p] \cup {a \in Attempts : OwnerOf[TaskOf[a]] >= left[p]}
    ELSE adm[p]

(* s lists the active rows of the pool in the order of their insertion, b  *)
(* the callers that inserted them.                                         *)
Lists(W, n, s, b, adm) ==
    /\ n \in Nat
    /\ s \in [1 .. n -> Gated(W)]
    /\ \A i, j \in 1 .. n : s[i] = s[j] => i = j
    /\ \A a \in Gated(W) : \E i \in 1 .. n : s[i] = a
    /\ b \in [1 .. n -> Starters]
    /\ adm \in [Starters -> SUBSET Attempts]

(* Who was admitted saw less than the cap, a caller sees what was there    *)
(* before its last row, and no caller has a second row from the cap on.    *)
SawRoom(W, cap, adm) ==
    \A p \in Into(W) : Cardinality(adm[p] \cap PoolOf(W)) < cap
SeesOlder(n, s, b, adm) ==
    \A i, j \in 1 .. n : i <= j => s[i] \in Vis(b[j], adm)
NewCaller(cap, n, b) ==
    \A i, j \in 1 .. n : i < j /\ b[i] = b[j] => i < cap

OrderedBy(W, cap, n, s, b, adm) ==
    /\ Lists(W, n, s, b, adm)
    /\ SawRoom(W, cap, adm)
    /\ SeesOlder(n, s, b, adm)
    /\ NewCaller(cap, n, b)

Ordered(W, cap) == \E n, s, b, adm : OrderedBy(W, cap, n, s, b, adm)

LEMMA OrderedInit == ASSUME NEW W, NEW cap, Init PROVE Ordered(W, cap)
  <1> DEFINE s == [i \in 1 .. 0 |-> {}]
             b == [i \in 1 .. 0 |-> {}]
             adm == [p \in Starters |-> {}]
  <1>1. 1 .. 0 = {}
    OBVIOUS
  <1>2. Lists(W, 0, s, b, adm)
    BY <1>1 DEF Lists, Init, Gated
  <1>3. SawRoom(W, cap, adm)
    BY DEF SawRoom, Into, Admitted, Init
  <1>4. SeesOlder(0, s, b, adm) /\ NewCaller(cap, 0, b)
    BY <1>1 DEF SeesOlder, NewCaller
  <1> QED
    BY <1>2, <1>3, <1>4 DEF Ordered, OrderedBy

(* A step that leaves the rows of the pool alone, admits nobody to it and  *)
(* lets every caller see as much of them as before keeps the order.        *)
LEMMA OrderKept ==
    ASSUME NEW W, NEW cap, Ordered(W, cap), Gated(W)' = Gated(W),
           \A p \in Starters : p \in Into(W)' => p \in Into(W),
           \A p \in Starters, adm \in [Starters -> SUBSET Attempts] :
               Vis(p, adm) \cap Gated(W) \subseteq Vis(p, adm)'
    PROVE  Ordered(W, cap)'
  <1>1. PICK n, s, b, adm : OrderedBy(W, cap, n, s, b, adm)
    BY DEF Ordered
  <1>2. Lists(W, n, s, b, adm)'
    BY <1>1 DEF OrderedBy, Lists
  <1>3. SawRoom(W, cap, adm)'
    BY <1>1 DEF OrderedBy, SawRoom, Into, Admitted
  <1>4. SeesOlder(n, s, b, adm)'
    <2>1. ASSUME NEW i \in 1 .. n, NEW j \in 1 .. n, i <= j
          PROVE  s[i] \in Vis(b[j], adm)'
      <3>1. s[i] \in Vis(b[j], adm) /\ s[i] \in Gated(W) /\ b[j] \in Starters
            /\ adm \in [Starters -> SUBSET Attempts]
        BY <1>1, <2>1 DEF OrderedBy, Lists, SeesOlder
      <3> QED
        BY <3>1
    <2> QED
      BY <2>1 DEF SeesOlder
  <1>5. NewCaller(cap, n, b)'
    BY <1>1 DEF OrderedBy, NewCaller
  <1> QED
    BY <1>2, <1>3, <1>4, <1>5 DEF Ordered, OrderedBy

(* How the reads of a caller change what it sees: a return and a call see  *)
(* everything that is there, a count moves rows from "will be" to "was".   *)
LEMMA CallSees ==
    ASSUME TypeInv, NEW p \in Starters, NEW t \in Tasks, NEW w, Call(p, t, w),
           NEW q \in Starters, NEW adm
    PROVE  Vis(q, adm) \subseteq Vis(q, adm)'
  <1>1. CASE pc' = pc
    BY <1>1 DEF Call, Vis, TypeInv, TypeOK
  <1>2. CASE pc' = [pc EXCEPT ![p] = "count"]
    <2>1. pc[p] = "idle" /\ left[p] = 1 /\ seen' = seen /\ left' = left
      BY <1>2 DEF Call, TypeInv, CountsAll
    <2>2. \A a \in Attempts : OwnerOf[TaskOf[a]] >= 1
      BY AttemptsAssumption, UsersAssumption DEF Users
    <2> QED
      BY <1>2, <2>1, <2>2 DEF Vis, TypeInv, TypeOK
  <1> QED
    BY <1>1, <1>2 DEF Call

LEMMA ReturnSees ==
    ASSUME TypeInv, NEW p \in Starters, Return(p), NEW q \in Starters,
           NEW adm \in [Starters -> SUBSET Attempts]
    PROVE  Vis(q, adm) \subseteq Vis(q, adm)'
  BY DEF Vis, Return, TypeInv, TypeOK

LEMMA CountSees ==
    ASSUME TypeInv, NEW p \in Starters, CountUser(p), NEW q \in Starters, NEW adm
    PROVE  Vis(q, adm) \cap gated \subseteq Vis(q, adm)'
  <1>1. CASE q # p
    BY <1>1 DEF Vis, CountUser, TypeInv, TypeOK
  <1>2. CASE q = p
    <2>1. /\ pc[p] = "count" /\ pc' = pc /\ left'[p] = left[p] + 1
          /\ seen'[p] = seen[p] \cup RowsOf(left[p])
      BY DEF CountUser, Counted, TypeInv, TypeOK
    <2>2. ASSUME NEW a \in gated, OwnerOf[TaskOf[a]] >= left[p], a \notin RowsOf(left[p])
          PROVE  OwnerOf[TaskOf[a]] >= left[p] + 1
      <3>1. a \in active /\ a \in Attempts
        BY DEF TypeInv, TypeOK, GatedActive
      <3>2. OwnerOf[TaskOf[a]] # left[p]
        BY <2>2, <3>1 DEF RowsOf
      <3>3. OwnerOf[TaskOf[a]] \in Int /\ left[p] \in Int
        BY <3>1, AttemptsAssumption, UsersAssumption DEF Users, TypeInv, TypeOK
      <3> QED
        BY <2>2, <3>2, <3>3
    <2> QED
      BY <1>2, <2>1, <2>2 DEF Vis, TypeInv, TypeOK
  <1> QED
    BY <1>1, <1>2

(* The gate admits a caller that saw room.                                 *)
LEMMA OrderGate ==
    ASSUME TypeInv, NEW W, NEW cap, Guarded(W, cap), Ordered(W, cap),
           NEW p \in Starters, Gate(p), Passes(p)
    PROVE  Ordered(W, cap)'
  <1>1. PICK n, s, b, adm : OrderedBy(W, cap, n, s, b, adm)
    BY DEF Ordered
  <1>0. PICK new : new = [adm EXCEPT ![p] = Counted(p)]
    OBVIOUS
  <1>2. /\ pc[p] = "count" /\ left[p] = NumUsers /\ gated' = gated /\ srv' = srv
        /\ pc' = [pc EXCEPT ![p] = "create"] /\ left' = [left EXCEPT ![p] = 1]
        /\ seen' = [seen EXCEPT ![p] = {}]
    BY DEF Gate
  <1>3. adm \in [Starters -> SUBSET Attempts] /\ Counted(p) \in SUBSET Attempts
    BY <1>1 DEF OrderedBy, Lists, Counted, RowsOf, TypeInv, TypeOK
  <1>4. new \in [Starters -> SUBSET Attempts]
    BY <1>0, <1>3
  <1>5. Lists(W, n, s, b, new)'
    BY <1>1, <1>2, <1>4 DEF OrderedBy, Lists, Gated
  <1>6. SawRoom(W, cap, new)'
    <2>1. ASSUME NEW q \in Starters, pc'[q] = "create", srv[q] \in W
          PROVE  Cardinality(new[q] \cap PoolOf(W)) < cap
      <3>1. CASE q = p
        BY <1>0, <1>3, <2>1, <3>1 DEF Guarded
      <3>2. CASE q # p
        <4>1. q \in Into(W) /\ new[q] = adm[q]
          BY <1>0, <1>2, <1>3, <2>1, <3>2 DEF Into, Admitted, TypeInv, TypeOK
        <4> QED
          BY <1>1, <4>1 DEF OrderedBy, SawRoom
      <3> QED
        BY <3>1, <3>2
    <2> QED
      BY <1>2, <2>1 DEF SawRoom, Into, Admitted
  <1>7. ASSUME NEW q \in Starters, NEW a \in gated, a \in Vis(q, adm)
        PROVE  a \in Vis(q, new)'
    <2>1. CASE q # p
      BY <1>0, <1>2, <1>3, <1>7, <2>1 DEF Vis, TypeInv, TypeOK
    <2>2. CASE q = p
      <3>1. a \in active /\ a \in Attempts
        BY DEF TypeInv, TypeOK, GatedActive
      <3>2. OwnerOf[TaskOf[a]] \in Users
        BY <3>1, AttemptsAssumption, UsersAssumption
      <3>3. OwnerOf[TaskOf[a]] >= left[p] => OwnerOf[TaskOf[a]] = left[p]
        BY <1>2, <3>2, UsersAssumption DEF Users
      <3>4. a \in Counted(p)
        BY <1>2, <1>7, <2>2, <3>1, <3>3 DEF Vis, Counted, RowsOf
      <3>5. Vis(p, new)' = Counted(p)
        BY <1>0, <1>2, <1>3 DEF Vis, TypeInv, TypeOK
      <3> QED
        BY <2>2, <3>4, <3>5
    <2> QED
      BY <2>1, <2>2
  <1>8. SeesOlder(n, s, b, new)'
    <2>1. ASSUME NEW i \in 1 .. n, NEW j \in 1 .. n, i <= j
          PROVE  s[i] \in Vis(b[j], new)'
      <3>1. s[i] \in Vis(b[j], adm) /\ s[i] \in gated /\ b[j] \in Starters
        BY <1>1, <2>1 DEF OrderedBy, Lists, SeesOlder, Gated
      <3> QED
        BY <1>7, <3>1
    <2> QED
      BY <2>1 DEF SeesOlder
  <1>9. NewCaller(cap, n, b)'
    BY <1>1 DEF OrderedBy, NewCaller
  <1> QED
    BY <1>5, <1>6, <1>8, <1>9 DEF Ordered, OrderedBy

(* A one-to-one function goes to at least as many values as it comes from. *)
LEMMA OneToOne ==
    ASSUME NEW S, IsFiniteSet(S), NEW T, IsFiniteSet(T), NEW f \in [S -> T],
           \A x, y \in S : x # y => f[x] # f[y]
    PROVE  Cardinality(S) <= Cardinality(T)
  <1>1. Cardinality(S) \in Nat /\ Cardinality(T) \in Nat
    BY FS_CardinalityType
  <1>2. ~(Cardinality(T) < Cardinality(S))
    BY FS_PigeonHole
  <1> QED
    BY <1>1, <1>2

(* The rows a list begins with are as many as their place says.            *)
LEMMA FirstRows ==
    ASSUME NEW n \in Nat, NEW G, NEW s \in [1 .. n -> G],
           \A i, j \in 1 .. n : s[i] = s[j] => i = j,
           NEW k \in 1 .. n, NEW T, IsFiniteSet(T), \A i \in 1 .. k : s[i] \in T
    PROVE  k <= Cardinality(T)
  <1> DEFINE f == [i \in 1 .. k |-> s[i]]
  <1>1. f \in [1 .. k -> T]
    OBVIOUS
  <1>2. \A i, j \in 1 .. k : f[i] = f[j] => i = j
    OBVIOUS
  <1>3. IsFiniteSet(1 .. k) /\ Cardinality(1 .. k) = k
    BY FS_Interval
  <1> HIDE DEF f
  <1> QED
    BY <1>1, <1>2, <1>3, OneToOne

(* The caller of a row from the cap-th on is not admitted.                 *)
LEMMA LateNotAdmitted ==
    ASSUME NEW W, NEW cap \in Nat, NEW n, NEW s, NEW b, NEW adm,
           OrderedBy(W, cap, n, s, b, adm), NEW j \in 1 .. n, b[j] \in Into(W)
    PROVE  j < cap
  <1>1. n \in Nat /\ s \in [1 .. n -> Gated(W)] /\ b[j] \in Starters
        /\ adm \in [Starters -> SUBSET Attempts]
        /\ \A i, k \in 1 .. n : s[i] = s[k] => i = k
    BY DEF OrderedBy, Lists
  <1> DEFINE T == adm[b[j]] \cap PoolOf(W)
  <1>2. IsFiniteSet(T)
    BY <1>1, AttemptsAssumption, FS_Subset
  <1>3. \A i \in 1 .. j : s[i] \in T
    <2>1. ASSUME NEW i \in 1 .. j PROVE s[i] \in T
      <3>1. i \in 1 .. n /\ i <= j
        BY <1>1
      <3>2. s[i] \in Vis(b[j], adm) /\ s[i] \in PoolOf(W)
        BY <1>1, <3>1 DEF OrderedBy, SeesOlder, Gated
      <3>3. pc[b[j]] = "create"
        BY DEF Into, Admitted
      <3> QED
        BY <3>2, <3>3 DEF Vis
    <2> QED
      BY <2>1
  <1> HIDE DEF T
  <1>4. j <= Cardinality(T)
    BY <1>1, <1>2, <1>3, FirstRows
  <1>5. Cardinality(T) < cap
    BY DEF OrderedBy, SawRoom, T
  <1>6. Cardinality(T) \in Nat
    BY <1>2, FS_CardinalityType
  <1> QED
    BY <1>1, <1>4, <1>5, <1>6

(* A new row of the pool is the last, and its caller sees everything.      *)
LEMMA OrderInsert ==
    ASSUME TypeInv, NEW W, NEW cap \in Nat, Ordered(W, cap),
           NEW p \in Starters, NEW a \in Attempts, Insert(p, a)
    PROVE  Ordered(W, cap)'
  <1>1. /\ pc[p] = "create" /\ Return(p) /\ a \notin gated /\ srv[p] = ServerOf[a]
        /\ gated' = gated \cup {a}
    BY DEF Insert, FreeIds, TypeInv, GatedActive
  <1>2. \A q \in Starters : q \in Into(W)' => q \in Into(W) \ {p}
    BY <1>1 DEF Into, Admitted, Return, TypeInv, TypeOK
  <1>3. \A q \in Starters, adm \in [Starters -> SUBSET Attempts] :
            Vis(q, adm) \subseteq Vis(q, adm)'
    BY <1>1, ReturnSees
  <1>4. CASE a \notin PoolOf(W)
    <2>1. Gated(W)' = Gated(W)
      BY <1>1, <1>4 DEF Gated
    <2> QED
      BY <1>2, <1>3, <2>1, OrderKept
  <1>5. CASE a \in PoolOf(W)
    <2>1. PICK n, s, b, adm : OrderedBy(W, cap, n, s, b, adm)
      BY DEF Ordered
    <2> DEFINE s2 == [i \in 1 .. n + 1 |-> IF i = n + 1 THEN a ELSE s[i]]
               b2 == [i \in 1 .. n + 1 |-> IF i = n + 1 THEN p ELSE b[i]]
    <2>2. /\ n \in Nat /\ s \in [1 .. n -> Gated(W)] /\ b \in [1 .. n -> Starters]
          /\ adm \in [Starters -> SUBSET Attempts]
      BY <2>1 DEF OrderedBy, Lists
    <2>3. Gated(W)' = Gated(W) \cup {a} /\ a \notin Gated(W)
      BY <1>1, <1>5 DEF Gated
    <2>4. Lists(W, n + 1, s2, b2, adm)'
      <3>1. s2 \in [1 .. n + 1 -> Gated(W)'] /\ b2 \in [1 .. n + 1 -> Starters]
        BY <2>2, <2>3
      <3>2. \A i, j \in 1 .. n + 1 : s2[i] = s2[j] => i = j
        BY <2>1, <2>2, <2>3 DEF OrderedBy, Lists
      <3>3. \A c \in Gated(W)' : \E i \in 1 .. n + 1 : s2[i] = c
        <4>1. ASSUME NEW c \in Gated(W) PROVE \E i \in 1 .. n + 1 : s2[i] = c
          <5>1. PICK i \in 1 .. n : s[i] = c
            BY <2>1 DEF OrderedBy, Lists
          <5>2. i \in 1 .. n + 1 /\ s2[i] = c
            BY <2>2, <5>1
          <5> QED
            BY <5>2
        <4>2. n + 1 \in 1 .. n + 1 /\ s2[n + 1] = a
          BY <2>2
        <4> HIDE DEF s2
        <4> QED
          BY <2>3, <4>1, <4>2
      <3> HIDE DEF s2, b2
      <3> QED
        BY <2>2, <3>1, <3>2, <3>3 DEF Lists
    <2>5. SawRoom(W, cap, adm)'
      BY <1>2, <2>1 DEF OrderedBy, SawRoom, Into, Admitted
    <2>6. SeesOlder(n + 1, s2, b2, adm)'
      <3>1. ASSUME NEW i \in 1 .. n + 1, NEW j \in 1 .. n + 1, i <= j
            PROVE  s2[i] \in Vis(b2[j], adm)'
        <4>1. CASE j = n + 1
          <5>1. Vis(p, adm)' = Attempts /\ b2[j] = p
            BY <1>1, <4>1 DEF Vis, Return, TypeInv, TypeOK
          <5>2. s2[i] \in Attempts
            BY <2>2 DEF Gated, PoolOf
          <5> QED
            BY <5>1, <5>2
        <4>2. CASE j # n + 1
          <5>1. i \in 1 .. n /\ j \in 1 .. n /\ s2[i] = s[i] /\ b2[j] = b[j]
            BY <2>2, <3>1, <4>2
          <5>2. s[i] \in Vis(b[j], adm) /\ b[j] \in Starters
            BY <2>1, <2>2, <3>1, <5>1 DEF OrderedBy, SeesOlder
          <5> QED
            BY <1>3, <2>2, <5>1, <5>2
        <4> QED
          BY <4>1, <4>2
      <3> HIDE DEF s2, b2
      <3> QED
        BY <3>1 DEF SeesOlder
    <2>7. NewCaller(cap, n + 1, b2)'
      <3>1. ASSUME NEW i \in 1 .. n + 1, NEW j \in 1 .. n + 1, i < j, b2[i] = b2[j]
            PROVE  i < cap
        <4>1. i \in 1 .. n /\ b2[i] = b[i]
          BY <2>2, <3>1
        <4>2. CASE j = n + 1
          <5>1. b[i] \in Into(W)
            BY <1>1, <1>5, <3>1, <4>1, <4>2 DEF Into, Admitted, PoolOf
          <5> QED
            BY <2>1, <4>1, <5>1, LateNotAdmitted
        <4>3. CASE j # n + 1
          <5>1. j \in 1 .. n /\ b2[j] = b[j]
            BY <2>2, <4>3
          <5> QED
            BY <2>1, <3>1, <4>1, <5>1 DEF OrderedBy, NewCaller
        <4> QED
          BY <4>2, <4>3
      <3> HIDE DEF b2
      <3> QED
        BY <3>1 DEF NewCaller
    <2> HIDE DEF s2, b2
    <2> QED
      BY <2>4, <2>5, <2>6, <2>7 DEF Ordered, OrderedBy
  <1> QED
    BY <1>4, <1>5

(* When a row of the pool settles, the later ones move up one place.       *)
LEMMA OrderSettle ==
    ASSUME TypeInv, NEW W, NEW cap \in Nat, Ordered(W, cap),
           NEW a \in Attempts, Settle(a)
    PROVE  Ordered(W, cap)'
  <1>1. gated' = gated \ {a} /\ UNCHANGED caller
    BY DEF Settle
  <1>2. Into(W)' = Into(W) /\ \A q, adm : Vis(q, adm)' = Vis(q, adm)
    BY <1>1 DEF Into, Admitted, Vis, caller
  <1>3. CASE a \notin Gated(W)
    <2>1. Gated(W)' = Gated(W)
      BY <1>1, <1>3 DEF Gated
    <2> QED
      BY <1>2, <2>1, OrderKept
  <1>4. CASE a \in Gated(W)
    <2>1. PICK n, s, b, adm : OrderedBy(W, cap, n, s, b, adm)
      BY DEF Ordered
    <2>2. /\ n \in Nat /\ s \in [1 .. n -> Gated(W)] /\ b \in [1 .. n -> Starters]
          /\ adm \in [Starters -> SUBSET Attempts]
          /\ \A i, j \in 1 .. n : s[i] = s[j] => i = j
      BY <2>1 DEF OrderedBy, Lists
    <2>3. PICK k \in 1 .. n : s[k] = a
      BY <1>4, <2>1 DEF OrderedBy, Lists
    <2> DEFINE old(i) == IF i < k THEN i ELSE i + 1
               s2 == [i \in 1 .. n - 1 |-> s[old(i)]]
               b2 == [i \in 1 .. n - 1 |-> b[old(i)]]
    <2>4. \A i \in 1 .. n - 1 : old(i) \in 1 .. n /\ old(i) # k /\ i <= old(i)
      BY <2>2, <2>3
    <2>5. \A i, j \in 1 .. n - 1 : /\ i < j => old(i) < old(j)
                                   /\ i <= j => old(i) <= old(j)
                                   /\ old(i) = old(j) => i = j
      BY <2>2, <2>3
    <2>6. \A m \in 1 .. n : m # k => \E i \in 1 .. n - 1 : old(i) = m
      <3>1. ASSUME NEW m \in 1 .. n, m # k PROVE \E i \in 1 .. n - 1 : old(i) = m
        <4>1. CASE m < k
          <5>1. m \in 1 .. n - 1 /\ old(m) = m
            BY <2>2, <2>3, <4>1
          <5> QED
            BY <5>1
        <4>2. CASE m > k
          <5>1. m - 1 \in 1 .. n - 1 /\ old(m - 1) = m
            BY <2>2, <2>3, <4>2
          <5> QED
            BY <5>1
        <4> QED
          BY <2>2, <2>3, <3>1, <4>1, <4>2
      <3> QED
        BY <3>1
    <2>7. n - 1 \in Nat
      BY <2>2, <2>3
    <2>8. Gated(W)' = Gated(W) \ {a}
      BY <1>1 DEF Gated
    <2> HIDE DEF old
    <2>9. Lists(W, n - 1, s2, b2, adm)'
      <3>1. s2 \in [1 .. n - 1 -> Gated(W)'] /\ b2 \in [1 .. n - 1 -> Starters]
        BY <2>2, <2>3, <2>4, <2>8
      <3>2. \A i, j \in 1 .. n - 1 : s2[i] = s2[j] => i = j
        BY <2>2, <2>4, <2>5
      <3>3. \A c \in Gated(W)' : \E i \in 1 .. n - 1 : s2[i] = c
        <4>1. ASSUME NEW c \in Gated(W)' PROVE \E i \in 1 .. n - 1 : s2[i] = c
          <5>1. PICK m \in 1 .. n : s[m] = c
            BY <2>1, <2>8 DEF OrderedBy, Lists
          <5>2. m # k
            BY <2>3, <2>8, <5>1
          <5> QED
            BY <2>6, <5>1, <5>2
        <4> QED
          BY <4>1
      <3> HIDE DEF s2, b2
      <3> QED
        BY <2>2, <2>7, <3>1, <3>2, <3>3 DEF Lists
    <2>10. SawRoom(W, cap, adm)'
      BY <1>2, <2>1 DEF OrderedBy, SawRoom
    <2>11. SeesOlder(n - 1, s2, b2, adm)'
      <3>1. ASSUME NEW i \in 1 .. n - 1, NEW j \in 1 .. n - 1, i <= j
            PROVE  s2[i] \in Vis(b2[j], adm)'
        <4>1. old(i) \in 1 .. n /\ old(j) \in 1 .. n /\ old(i) <= old(j)
          BY <2>4, <2>5, <3>1
        <4>2. s[old(i)] \in Vis(b[old(j)], adm)
          BY <2>1, <4>1 DEF OrderedBy, SeesOlder
        <4> QED
          BY <1>2, <4>2
      <3> HIDE DEF s2, b2
      <3> QED
        BY <3>1 DEF SeesOlder
    <2>12. NewCaller(cap, n - 1, b2)'
      <3>1. ASSUME NEW i \in 1 .. n - 1, NEW j \in 1 .. n - 1, i < j, b2[i] = b2[j]
            PROVE  i < cap
        <4>1. old(i) \in 1 .. n /\ old(j) \in 1 .. n /\ old(i) < old(j) /\ i <= old(i)
          BY <2>4, <2>5, <3>1
        <4>2. old(i) < cap
          BY <2>1, <3>1, <4>1 DEF OrderedBy, NewCaller
        <4> QED
          BY <4>1, <4>2
      <3> HIDE DEF b2
      <3> QED
        BY <3>1 DEF NewCaller
    <2> HIDE DEF s2, b2
    <2> QED
      BY <2>9, <2>10, <2>11, <2>12 DEF Ordered, OrderedBy
  <1> QED
    BY <1>3, <1>4

(* Every step keeps the order of a pool whose cap the gate checks.         *)
LEMMA OrderStep ==
    ASSUME TypeInv, [Next]_vars, NEW W, NEW cap \in Nat, Guarded(W, cap), Ordered(W, cap)
    PROVE  Ordered(W, cap)'
  <1>1. ASSUME gated' = gated, UNCHANGED caller PROVE Ordered(W, cap)'
    BY <1>1, OrderKept DEF Gated, Into, Admitted, Vis, caller
  <1>2. ASSUME NEW p \in Starters, NEW t \in Tasks, NEW w, Call(p, t, w), gated' = gated
        PROVE  Ordered(W, cap)'
    <2>1. \A q \in Starters : q \in Into(W)' => q \in Into(W)
      BY <1>2 DEF Call, Into, Admitted, TypeInv, TypeOK
    <2> QED
      BY <1>2, <2>1, CallSees, OrderKept DEF Gated
  <1>3. ASSUME NEW p \in Starters, Return(p), gated' = gated PROVE Ordered(W, cap)'
    <2>1. \A q \in Starters : q \in Into(W)' => q \in Into(W)
      BY <1>3 DEF Return, Into, Admitted, TypeInv, TypeOK
    <2> QED
      BY <1>3, <2>1, ReturnSees, OrderKept DEF Gated
  <1>4. ASSUME NEW p \in Starters, CountUser(p) PROVE Ordered(W, cap)'
    <2>1. gated' = gated /\ Into(W)' = Into(W)
      BY <1>4 DEF CountUser, Into, Admitted
    <2>2. \A q \in Starters : \A adm : Vis(q, adm) \cap Gated(W) \subseteq Vis(q, adm)'
      BY <1>4, CountSees DEF Gated
    <2> QED
      BY <2>1, <2>2, OrderKept DEF Gated
  <1>5. ASSUME NEW p \in Starters, Gate(p) PROVE Ordered(W, cap)'
    BY <1>3, <1>5, OrderGate DEF Gate
  <1>6. ASSUME NEW p \in Starters, NEW a \in Attempts, Create(p, a) \/ CreateOnly(p, a)
        PROVE  Ordered(W, cap)'
    BY <1>6, OrderInsert DEF Create, CreateOnly
  <1>7. ASSUME NEW p \in Starters, CreateFails(p) \/ StartFails(p) PROVE Ordered(W, cap)'
    BY <1>3, <1>7 DEF CreateFails, StartFails
  <1>8. ASSUME ListPlan PROVE Ordered(W, cap)'
    BY <1>1, <1>8 DEF ListPlan
  <1>9. ASSUME NEW t \in Tasks, Visit(t) PROVE Ordered(W, cap)'
    BY <1>1, <1>2, <1>9, StarterKinds DEF Visit
  <1>10. ASSUME NEW t \in Tasks, CronFire(t) PROVE Ordered(W, cap)'
    BY <1>2, <1>10, StarterKinds DEF CronFire
  <1>11. ASSUME NEW r \in Requests, NEW t \in Tasks, DragToExecute(r, t)
         PROVE  Ordered(W, cap)'
    BY <1>2, <1>11, StarterKinds DEF DragToExecute
  <1>12. ASSUME NEW r \in Requests, NEW t \in Tasks, NEW s, StartAttempt(r, t, s)
         PROVE  Ordered(W, cap)'
    BY <1>2, <1>12, StarterKinds DEF StartAttempt
  <1>13. ASSUME NEW t \in Tasks, NEW c \in Drags, Drag(t, c) PROVE Ordered(W, cap)'
    BY <1>1, <1>13 DEF Drag
  <1>14. ASSUME NEW u \in Users, SetDisabled(u) PROVE Ordered(W, cap)'
    BY <1>1, <1>14 DEF SetDisabled
  <1>15. ASSUME NEW a \in Attempts, Reopen(a) PROVE Ordered(W, cap)'
    BY <1>1, <1>15 DEF Reopen
  <1>16. ASSUME NEW a \in Attempts, Settle(a) PROVE Ordered(W, cap)'
    BY <1>16, OrderSettle
  <1>17. CASE UNCHANGED vars
    BY <1>1, <1>17 DEF vars
  <1> QED
    BY <1>4, <1>5, <1>6, <1>7, <1>8, <1>9, <1>10, <1>11, <1>12, <1>13, <1>14, <1>15,
       <1>16, <1>17, StarterKinds
    DEF Next, SchedulerStep, StartStep, UserStep

(* What the order says of the numbers.                                     *)
LEMMA OrderBounds ==
    ASSUME TypeInv, NEW W, NEW cap \in Nat \ {0}, Ordered(W, cap)
    PROVE  Cardinality(Gated(W)) + Cardinality(Into(W)) <= cap + Cardinality(Starters) - 1
  <1>1. PICK n, s, b, adm : OrderedBy(W, cap, n, s, b, adm)
    BY DEF Ordered
  <1>2. n \in Nat /\ s \in [1 .. n -> Gated(W)] /\ b \in [1 .. n -> Starters]
        /\ \A a \in Gated(W) : \E i \in 1 .. n : s[i] = a
    BY <1>1 DEF OrderedBy, Lists
  <1>3. IsFiniteSet(Starters) /\ Cardinality(Starters) \in Nat
    <2>1. IsFiniteSet({Scheduler, Cron})
      <3>1. IsFiniteSet({Scheduler}) /\ {Scheduler, Cron} = {Scheduler} \cup {Cron}
        BY FS_Singleton
      <3> QED
        BY <3>1, FS_AddElement
    <2> QED
      BY <2>1, StartersAssumption, FS_Union, FS_CardinalityType DEF Starters
  <1>4. IsFiniteSet(Into(W)) /\ Cardinality(Into(W)) \in Nat
        /\ Cardinality(Into(W)) <= Cardinality(Starters)
    BY <1>3, FS_Subset, FS_CardinalityType DEF Into, Admitted
  <1>5. Cardinality(Gated(W)) \in Nat /\ Cardinality(Gated(W)) <= n
    <2>1. IsFiniteSet(Gated(W))
      BY AttemptsAssumption, FS_Subset DEF Gated, TypeInv, TypeOK
    <2>2. s \in Surjection(1 .. n, Gated(W))
      BY <1>2 DEF Surjection
    <2>3. ExistsSurjection(1 .. n, Gated(W))
      BY <2>2 DEF ExistsSurjection
    <2> QED
      BY <1>2, <2>1, <2>3, FS_SurjCardinalityBound, FS_CardinalityType
  <1>6. CASE n < cap
    BY <1>2, <1>3, <1>4, <1>5, <1>6
  <1>7. CASE n >= cap
    <2> DEFINE Free == Starters \ Into(W)
               f == [i \in cap .. n |-> b[i]]
    <2>1. IsFiniteSet(Free) /\ Cardinality(Free) \in Nat
          /\ Cardinality(Free) = Cardinality(Starters) - Cardinality(Into(W))
      <3>1. Starters \cap Into(W) = Into(W)
        BY DEF Into, Admitted
      <3> QED
        BY <1>3, <3>1, FS_Difference, FS_CardinalityType
    <2>2. f \in [cap .. n -> Free]
      <3>1. ASSUME NEW i \in cap .. n PROVE b[i] \in Free
        <4>1. i \in 1 .. n /\ ~(i < cap)
          BY <1>2
        <4> QED
          BY <1>1, <1>2, <4>1, LateNotAdmitted
      <3> QED
        BY <3>1
    <2>3. \A i, j \in cap .. n : i # j => f[i] # f[j]
      <3>1. ASSUME NEW i \in cap .. n, NEW j \in cap .. n, i < j PROVE b[i] # b[j]
        <4>1. i \in 1 .. n /\ j \in 1 .. n /\ ~(i < cap)
          BY <1>2
        <4> QED
          BY <1>1, <3>1, <4>1 DEF OrderedBy, NewCaller
      <3>2. \A i, j \in cap .. n : i # j => i < j \/ j < i
        BY <1>2
      <3> QED
        BY <3>1, <3>2
    <2>4. IsFiniteSet(cap .. n) /\ Cardinality(cap .. n) = n - cap + 1
      BY <1>2, <1>7, FS_Interval
    <2> HIDE DEF f, Free
    <2>5. Cardinality(cap .. n) <= Cardinality(Free)
      BY <2>1, <2>2, <2>3, <2>4, OneToOne
    <2> QED
      BY <1>2, <1>3, <1>4, <1>5, <2>1, <2>4, <2>5
  <1> QED
    BY <1>2, <1>6, <1>7

(* The two caps of the gate.                                               *)
AllServers == Servers \cup {NoServer}

LEMMA GlobalPool ==
    ASSUME TypeInv
    PROVE  /\ Guarded(AllServers, GlobalCap)
           /\ Gated(AllServers) = gated
           /\ Into(AllServers) = Admitted
  <1>1. PoolOf(AllServers) = Attempts
    BY AttemptsAssumption DEF PoolOf, AllServers
  <1>2. \A p \in Starters : Counted(p) \cap Attempts = Counted(p)
    BY DEF Counted, RowsOf, TypeInv, TypeOK
  <1>3. Guarded(AllServers, GlobalCap)
    BY <1>1, <1>2 DEF Guarded, Passes, Admits
  <1> QED
    BY <1>1, <1>3 DEF Gated, Into, Admitted, AllServers, TypeInv, TypeOK

LEMMA ServerPool ==
    ASSUME TypeInv, NEW s \in Servers
    PROVE  /\ Guarded({s}, ServerCap[s])
           /\ Gated({s}) = gated \cap On(s)
           /\ Into({s}) = {p \in Admitted : srv[p] = s}
  <1>1. PoolOf({s}) = On(s)
    BY DEF PoolOf, On
  <1> QED
    BY <1>1 DEF Guarded, Passes, Admits, Gated, Into

OvershootInv ==
    /\ TypeInv
    /\ Ordered(AllServers, GlobalCap)
    /\ \A s \in Servers : Ordered({s}, ServerCap[s])

LEMMA OvershootStep == OvershootInv /\ [Next]_vars => OvershootInv'
  <1> SUFFICES ASSUME OvershootInv, [Next]_vars PROVE OvershootInv'
    OBVIOUS
  <1>1. TypeInv /\ TypeInv'
    BY TypeStep DEF OvershootInv
  <1>2. GlobalCap \in Nat /\ \A s \in Servers : ServerCap[s] \in Nat
    BY ServersAssumption
  <1>3. Ordered(AllServers, GlobalCap)'
    BY <1>1, <1>2, GlobalPool, OrderStep DEF OvershootInv
  <1>4. \A s \in Servers : Ordered({s}, ServerCap[s])'
    BY <1>1, <1>2, ServerPool, OrderStep DEF OvershootInv
  <1> QED
    BY <1>1, <1>3, <1>4 DEF OvershootInv

LEMMA OvershootHolds == Spec => []OvershootInv
  <1>1. Init => OvershootInv
    BY TypeInit, OrderedInit DEF OvershootInv
  <1> QED
    BY <1>1, OvershootStep, PTL DEF Spec

(* The global cap is passed by fewer attempts than there are callers of    *)
(* Start: the scheduler, the cron worker and the handlers under way.       *)
THEOREM GlobalOvershoot == Spec => []GlobalOvershootBounded
  <1>1. OvershootInv => GlobalOvershootBounded
    BY GlobalPool, OrderBounds, ServersAssumption
    DEF OvershootInv, GlobalOvershootBounded
  <1> QED
    BY <1>1, OvershootHolds, PTL

(* So is the cap of every server, by the callers that start on it.         *)
THEOREM ServerOvershoot == Spec => []ServerOvershootBounded
  <1>1. ASSUME OvershootInv, NEW s \in Servers
        PROVE  Cardinality(gated \cap On(s)) + Cardinality({p \in Admitted : srv[p] = s})
                   <= ServerCap[s] + Cardinality(Starters) - 1
    <2>1. ServerCap[s] \in Nat \ {0} /\ Ordered({s}, ServerCap[s]) /\ TypeInv
      BY <1>1, ServersAssumption DEF OvershootInv
    <2>2. Cardinality(Gated({s})) + Cardinality(Into({s}))
              <= ServerCap[s] + Cardinality(Starters) - 1
      BY <2>1, OrderBounds
    <2> QED
      BY <2>1, <2>2, ServerPool
  <1>2. OvershootInv => ServerOvershootBounded
    BY <1>1 DEF ServerOvershootBounded
  <1> QED
    BY <1>2, OvershootHolds, PTL
=============================================================================

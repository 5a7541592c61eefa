------------------------ MODULE AttemptRunner_proofs ------------------------
(***************************************************************************)
(* What is proved of AttemptRunner, for any number of attempts, handlers   *)
(* and goroutines and any bounds:                                          *)
(*   - TypeCorrect: the type invariant, from TypeInv;                      *)
(*   - ActiveCorrect, OneLoopCorrect: Runner.active names exactly the live *)
(*     goroutines, so no attempt has two;                                  *)
(*   - ChainCorrect: what a turn chains to was received to its end;        *)
(*   - NeedsInputCorrect: only the user completes a waiting attempt;       *)
(*   - OrphansCorrect: after a crash no attempt is forgotten.              *)
(* ActiveIsLive is inductive once types are known. ChainsOffCompleted needs*)
(* BufChained (the copies of meta.json that are in flight), NeedsInputKept *)
(* needs ActiveIsLive and SettlesNoWaiting (what a goroutine has read      *)
(* before it settles its attempt). OrphansAdopted needs to know, while the *)
(* server boots, of every attempt the crash caught who takes care of it    *)
(* (Cared), and of every goroutine what it has written down before it      *)
(* leaves (LeavesInOrder).                                                 *)
(***************************************************************************)
EXTENDS AttemptRunner, TLAPS

(* A process that does something does it for an attempt.                   *)
Working == \A p \in Procs : pc[p] # "idle" => att[p] \in Attempts

(* The outcome resumeLoop chose is a terminal state.                       *)
TailSettles ==
    \A p \in Procs : pc[p] = "tailFinish" => snap[p] \in {"completed", "failed"}

TypeInv == TypeOK /\ Working /\ TailSettles

(* The processes that ask for goroutines, and are none.                    *)
Callers == Requests \cup {Resumer, Boot}

-----------------------------------------------------------------------------
(* Types. The edits the code makes to a copy of meta.json keep its type.   *)
LEMMA MetaEdits ==
    ASSUME NEW m \in Meta
    PROVE  /\ \A i \in RunIds : Created(m, i) \in Meta
           /\ \A i \in RunIds : [m EXCEPT !.latest = i] \in Meta
           /\ [m EXCEPT !.latest = 0] \in Meta
           /\ [m EXCEPT !.count = 0] \in Meta
           /\ m.count < MaxRetries => [m EXCEPT !.count = @ + 1] \in Meta
           /\ m.count < MaxRetries =>
                [m EXCEPT !.count = @ + 1, !.reason = "abnormal", !.run = 0] \in Meta
           /\ \A r \in Reasons :
                [m EXCEPT !.run = 0, !.reason = r,
                          !.count = IF r = "completed" THEN 0 ELSE @] \in Meta
  <1>1. 0 \in RunIds /\ 0 \in 0 .. MaxRetries /\ "abnormal" \in Reasons
    BY BoundsAssumption DEF RunIds, Reasons
  <1>2. m.count < MaxRetries => m.count + 1 \in 0 .. MaxRetries
    BY BoundsAssumption DEF Meta
  <1>3. ASSUME NEW i \in RunIds PROVE Created(m, i) \in Meta /\ [m EXCEPT !.latest = i] \in Meta
    BY DEF Meta, Created
  <1>4. [m EXCEPT !.latest = 0] \in Meta /\ [m EXCEPT !.count = 0] \in Meta
    BY <1>1 DEF Meta
  <1>5. ASSUME m.count < MaxRetries
        PROVE  /\ [m EXCEPT !.count = @ + 1] \in Meta
               /\ [m EXCEPT !.count = @ + 1, !.reason = "abnormal", !.run = 0] \in Meta
    BY <1>2, <1>1, <1>5 DEF Meta
  <1>6. ASSUME NEW r \in Reasons
        PROVE  [m EXCEPT !.run = 0, !.reason = r,
                          !.count = IF r = "completed" THEN 0 ELSE @] \in Meta
    BY <1>1 DEF Meta
  <1> QED
    BY <1>3, <1>4, <1>5, <1>6

(* The copies it starts from are well typed.                               *)
LEMMA MetaConstants == NoMeta \in Meta /\ NewMeta \in Meta
  <1>1. NoMeta \in Meta
    BY BoundsAssumption DEF NoMeta, Meta, RunIds, Reasons
  <1>2. NewMeta \in Meta
    BY <1>1 DEF NewMeta, Meta
  <1> QED
    BY <1>1, <1>2

(* The type invariant holds initially, ...                                *)
LEMMA TypeInit == Init => TypeInv
  <1> SUFFICES ASSUME Init PROVE TypeInv
    OBVIOUS
  <1>1. meta \in [Attempts -> Meta]
    BY MetaConstants DEF Init
  <1>2. state \in [Attempts -> AttemptStates]
    BY DEF Init, AttemptStates, Terminal
  <1> QED
    BY <1>1, <1>2, MetaConstants, BoundsAssumption
    DEF Init, TypeInv, TypeOK, Working, TailSettles, AttemptStates,
       TaskStatus, Pcs, RunIds, Procs

(* ... and the pieces the actions share keep it: a push on a queue that    *)
(* may be full, the return of a call, the start of a goroutine.            *)
LEMMA PushTypes ==
    ASSUME TypeInv, NEW g, Push(g)
    PROVE  queue' \in [Goroutines -> 0 .. QueueCap]
  <1>1. queue \in [Goroutines -> 0 .. QueueCap]
    BY DEF TypeInv, TypeOK
  <1>2. CASE g \in Goroutines
    <2>1. (IF queue[g] < QueueCap THEN queue[g] + 1 ELSE queue[g]) \in 0 .. QueueCap
      BY <1>1, <1>2, BoundsAssumption
    <2> QED
      BY <1>1, <2>1 DEF Push
  <1>3. CASE g \notin Goroutines
    BY <1>1, <1>3 DEF Push
  <1> QED
    BY <1>2, <1>3

LEMMA ReturnTypes ==
    ASSUME TypeInv, NEW p \in Procs, pc[p] # "idle", Return(p)
    PROVE  /\ pc' \in [Procs -> Pcs]
           /\ att' \in [Procs -> Attempts \cup {NoAttempt}]
           /\ snap' \in [Procs -> AttemptStates \cup TaskStatus]
           /\ buf' \in [Procs -> Meta]
           /\ cancelled' \in [Procs -> BOOLEAN]
           /\ Working' /\ TailSettles'
  <1> USE DEF TypeInv, Return, Goto, Home
  <1>1. pc' \in [Procs -> Pcs]
    BY DEF TypeOK, Pcs, GoPcs
  <1>2. att' \in [Procs -> Attempts \cup {NoAttempt}]
    BY DEF TypeOK
  <1>3. snap' \in [Procs -> AttemptStates \cup TaskStatus]
    BY DEF TypeOK, AttemptStates
  <1>4. buf' \in [Procs -> Meta]
    BY MetaConstants DEF TypeOK
  <1>5. cancelled' \in [Procs -> BOOLEAN]
    BY DEF TypeOK
  <1>6. Working'
    BY DEF TypeOK, Working
  <1>7. TailSettles'
    BY DEF TypeOK, TailSettles
  <1> QED
    BY <1>1, <1>2, <1>3, <1>4, <1>5, <1>6, <1>7

LEMMA SpawnTypes ==
    ASSUME TypeInv, NEW p \in Callers, NEW g \in Goroutines, pc[p] # "idle",
           NEW step \in {"run", "exit", "stream"}, Spawn(p, g, step)
    PROVE  /\ active' \in [Attempts -> Goroutines \cup {NoGoroutine}]
           /\ pc' \in [Procs -> Pcs]
           /\ att' \in [Procs -> Attempts \cup {NoAttempt}]
           /\ snap' \in [Procs -> AttemptStates \cup TaskStatus]
           /\ buf' \in [Procs -> Meta]
           /\ cancelled' \in [Procs -> BOOLEAN]
           /\ Working' /\ TailSettles'
  <1> USE DEF TypeInv, Spawn, Home
  <1>0. p \in Procs /\ g \in Procs /\ p \notin Goroutines /\ p # g
    BY ProcessesAssumption DEF Procs, Callers
  <1>1. pc' \in [Procs -> Pcs]
    BY <1>0 DEF TypeOK, Pcs, GoPcs
  <1>2. att' \in [Procs -> Attempts \cup {NoAttempt}]
    BY <1>0 DEF TypeOK
  <1>3. snap' \in [Procs -> AttemptStates \cup TaskStatus]
    BY DEF TypeOK, AttemptStates
  <1>4. buf' \in [Procs -> Meta]
    BY MetaConstants DEF TypeOK
  <1>5. cancelled' \in [Procs -> BOOLEAN]
    BY DEF TypeOK
  <1>6. Working'
    BY <1>0 DEF TypeOK, Working
  <1>7. TailSettles'
    BY <1>0 DEF TypeOK, TailSettles
  <1>8. active' \in [Attempts -> Goroutines \cup {NoGoroutine}]
    BY DEF TypeOK
  <1> QED
    BY <1>1, <1>2, <1>3, <1>4, <1>5, <1>6, <1>7, <1>8

(* One lemma per action.                                                   *)
LEMMA TypeStartLoop ==
    ASSUME TypeInv, NEW p \in Callers, StartLoop(p)
    PROVE  TypeInv'
  <1>0. p \in Procs /\ pc[p] # "idle" /\ att[p] \in Attempts
    BY DEF Callers, Procs, StartLoop, TypeInv, Working
  <1>1. CASE Push(active[att[p]]) /\ Return(p) /\ UNCHANGED <<active, failures>>
    <2>1. UNCHANGED <<up, rows, meta, tailing, run, saw, todo, bounds, ghosts>>
      BY DEF StartLoop
    <2>2. queue' \in [Goroutines -> 0 .. QueueCap]
      BY <1>1, PushTypes
    <2> QED
      BY <1>0, <1>1, <2>1, <2>2, ReturnTypes
      DEF TypeInv, TypeOK, rows, loopVars, procVars, bounds, ghosts, failures
  <1>2. CASE \E g \in Goroutines, step \in {"run", "exit"} :
               /\ Spawn(p, g, step)
               /\ UNCHANGED queue
               /\ UNCHANGED failures \/ Miss(att[p])
    <2>1. PICK g \in Goroutines, step \in {"run", "exit"} :
               /\ Spawn(p, g, step)
               /\ UNCHANGED queue
               /\ UNCHANGED failures \/ Miss(att[p])
      BY <1>2
    <2>2. UNCHANGED <<up, rows, meta, tailing, run, saw, todo, bounds, ghosts>>
      BY DEF StartLoop
    <2>3. faults' \in 0 .. MaxFaults /\ missed' \in SUBSET Attempts
      BY <1>0, <2>1, BoundsAssumption DEF TypeInv, TypeOK, failures, Miss, Fault
    <2> QED
      BY <1>0, <2>1, <2>2, <2>3, SpawnTypes
      DEF TypeInv, TypeOK, rows, loopVars, procVars, bounds, ghosts
  <1> QED
    BY <1>1, <1>2 DEF StartLoop

LEMMA TypeAttach ==
    ASSUME TypeInv, NEW p \in Callers, Attach(p)
    PROVE  TypeInv'
  <1>0. p \in Procs /\ pc[p] # "idle"
    BY DEF Callers, Procs, Attach
  <1>1. CASE IsLive(att[p])
    <2>1. Return(p) /\ UNCHANGED <<active, tailing, run, up, rows, meta, queue, saw, todo, bounds, ghosts, failures>>
      BY <1>1 DEF Attach
    <2> QED
      BY <1>0, <2>1, ReturnTypes
      DEF TypeInv, TypeOK, rows, loopVars, procVars, bounds, ghosts, failures
  <1>2. CASE ~IsLive(att[p])
    <2>1. PICK g \in Goroutines : /\ Spawn(p, g, "stream")
                                  /\ tailing' = [tailing EXCEPT ![g] = TRUE]
                                  /\ run' = [run EXCEPT ![g] = buf[p].run]
      BY <1>2 DEF Attach
    <2>2. UNCHANGED <<up, rows, meta, queue, saw, todo, bounds, ghosts, failures>>
      BY DEF Attach
    <2>3. run' \in [Goroutines -> RunIds]
      BY <1>0, <2>1 DEF TypeInv, TypeOK, Meta
    <2>4. tailing' \in [Goroutines -> BOOLEAN]
      BY <2>1 DEF TypeInv, TypeOK
    <2> QED
      BY <1>0, <2>1, <2>2, <2>3, <2>4, SpawnTypes
      DEF TypeInv, TypeOK, rows, loopVars, procVars, bounds, ghosts, failures
  <1> QED
    BY <1>1, <1>2

LEMMA TypeAdvance ==
    ASSUME TypeInv, NEW p \in Procs, Advance(p)
    PROVE  TypeInv'
  <1>1. CASE Return(p)
    BY <1>1, ReturnTypes
    DEF Advance, TypeInv, TypeOK, rows, loopVars, procVars, bounds, ghosts, failures
  <1>2. CASE Goto(p, "toVerify") /\ UNCHANGED <<att, snap, buf, cancelled>>
    BY <1>2
    DEF Advance, Goto, TypeInv, TypeOK, Working, TailSettles, Pcs, rows,
       loopVars, procVars, bounds, ghosts, failures
  <1> QED
    BY <1>1, <1>2 DEF Advance

LEMMA TypeToVerify ==
    ASSUME TypeInv, NEW p \in Procs, ToVerify(p)
    PROVE  TypeInv'
  BY MetaConstants, BoundsAssumption, ProcessesAssumption
  DEF TypeInv, TypeOK, Working, TailSettles, Procs, Pcs, AttemptStates, rows,
     loopVars, procVars, bounds, ghosts, failures, Goto, Return, Home, GoPcs, Moved,
     TaskStatus, ToVerify

LEMMA TypeToExecute ==
    ASSUME TypeInv, NEW p \in Procs, ToExecute(p)
    PROVE  TypeInv'
  BY MetaConstants, BoundsAssumption, ProcessesAssumption
  DEF TypeInv, TypeOK, Working, TailSettles, Procs, Pcs, AttemptStates, rows,
     loopVars, procVars, bounds, ghosts, failures, Goto, ReqPcs, Moved, TaskStatus,
     ToExecute

LEMMA TypeSaveMeta ==
    ASSUME TypeInv, NEW p \in Procs, SaveMeta(p)
    PROVE  TypeInv'
  BY MetaConstants, BoundsAssumption, ProcessesAssumption
  DEF TypeInv, TypeOK, Working, TailSettles, Procs, Pcs, AttemptStates, rows,
     loopVars, procVars, bounds, ghosts, failures, Goto, SaveSteps, AfterSave, ReqPcs,
     GoPcs, SaveMeta, Fault, Lapse, Miss

LEMMA TypeClientGone ==
    ASSUME TypeInv, NEW r \in Requests, ClientGone(r)
    PROVE  TypeInv'
  BY BoundsAssumption, ProcessesAssumption
  DEF TypeInv, TypeOK, Working, TailSettles, Procs, Pcs, AttemptStates, rows,
     loopVars, procVars, bounds, ghosts, failures, Goto, ClientGone

LEMMA TypeStart ==
    ASSUME TypeInv, NEW r \in Requests, NEW a \in Attempts, Start(r, a)
    PROVE  TypeInv'
  <1>1. /\ pc' = [pc EXCEPT ![r] = "create"] /\ att' = [att EXCEPT ![r] = a]
        /\ pc[r] = "idle" /\ requests' = requests + 1 /\ requests < MaxRequests
        /\ snap' = [snap EXCEPT ![r] = task[TaskOf[a]]]
        /\ UNCHANGED <<up, rows, meta, active, loopVars, buf, todo, nextRun, disconnects, crashes, ghosts, failures>>
    BY DEF Start, Accept, Goto
  <1>2. task[TaskOf[a]] \in TaskStatus
    BY TasksAssumption DEF TypeInv, TypeOK
  <1>3. r \in Procs
    BY DEF Procs
  <1> QED
    BY <1>1, <1>2, <1>3, BoundsAssumption
    DEF TypeInv, TypeOK, Working, TailSettles, Pcs, ReqPcs, rows, loopVars,
       ghosts, failures

LEMMA TypeCreateAttempt ==
    ASSUME TypeInv, NEW r \in Requests, CreateAttempt(r)
    PROVE  TypeInv'
  <1>1. r \in Procs /\ pc[r] # "idle"
    BY DEF Procs, CreateAttempt
  <1>2. CASE ContextDone(r)
    BY <1>1, <1>2, ReturnTypes
    DEF CreateAttempt, TypeInv, TypeOK, rows, loopVars, procVars, bounds,
       ghosts, failures
  <1>3. CASE ~ContextDone(r)
    BY <1>1, <1>3
    DEF CreateAttempt, SetState, Goto, TypeInv, TypeOK, Working,
       TailSettles,
        AttemptStates, Active, Pcs, ReqPcs, rows, loopVars, procVars, bounds, ghosts, failures
  <1> QED
    BY <1>2, <1>3

LEMMA TypeSaveNewMeta ==
    ASSUME TypeInv, NEW r \in Requests, SaveNewMeta(r)
    PROVE  TypeInv'
  <1>1. r \in Procs /\ pc[r] # "idle"
    BY DEF Procs, SaveNewMeta
  <1>2. CASE Return(r) /\ UNCHANGED meta
    BY <1>1, <1>2, ReturnTypes
    DEF SaveNewMeta, TypeInv, TypeOK, rows, loopVars, procVars, bounds,
       ghosts, failures
  <1>3. CASE ~(Return(r) /\ UNCHANGED meta)
    BY <1>1, <1>3, MetaConstants
    DEF SaveNewMeta, Goto, TypeInv, TypeOK, Working, TailSettles, Pcs,
       ReqPcs, rows, loopVars, procVars, bounds, ghosts, failures
  <1> QED
    BY <1>2, <1>3

LEMMA TypeSend ==
    ASSUME TypeInv, NEW r \in Requests, NEW a \in Attempts, Send(r, a)
    PROVE  TypeInv'
  <1>0. r \in Procs /\ "saveReset" \in Pcs /\ "sendRoute" \in Pcs
    BY DEF Procs, Pcs, ReqPcs
  <1>1. \E step \in {"saveReset", "sendRoute"} : Accept(r, a, step)
    BY DEF Send
  <1>2. buf' \in [Procs -> Meta]
    <2>1. meta[a] \in Meta
      BY DEF TypeInv, TypeOK
    <2>2. [meta[a] EXCEPT !.count = 0] \in Meta
      BY <2>1, MetaEdits
    <2> QED
      BY <1>0, <2>2 DEF Send, TypeInv, TypeOK
  <1>3. snap' \in [Procs -> AttemptStates \cup TaskStatus]
    BY <1>0 DEF Send, TypeInv, TypeOK
  <1>4. stopped' \in [Attempts -> BOOLEAN]
    BY DEF Send, TypeInv, TypeOK
  <1>5. requests' \in 0 .. MaxRequests
    BY <1>1, BoundsAssumption DEF Accept, TypeInv, TypeOK
  <1>6. /\ pc' \in [Procs -> Pcs] /\ att' \in [Procs -> Attempts \cup {NoAttempt}]
        /\ Working' /\ TailSettles'
    BY <1>0, <1>1 DEF Accept, Goto, Send, TypeInv, TypeOK, Working, TailSettles
  <1> QED
    BY <1>2, <1>3, <1>4, <1>5, <1>6
    DEF Send, TypeInv, TypeOK, rows, loopVars, procVars, bounds, ghosts, failures

LEMMA TypeSendRoute ==
    ASSUME TypeInv, NEW r \in Requests, SendRoute(r)
    PROVE  TypeInv'
  <1>1. r \in Procs /\ pc[r] # "idle"
    BY DEF Procs, SendRoute
  <1>2. queue' \in [Goroutines -> 0 .. QueueCap]
    BY PushTypes DEF SendRoute, TypeInv, TypeOK
  <1>3. state' \in [Attempts -> AttemptStates]
    BY DEF SendRoute, SetState, TypeInv, TypeOK, AttemptStates, Active
  <1>4. CASE Return(r)
    BY <1>1, <1>2, <1>3, <1>4, ReturnTypes
    DEF SendRoute, TypeInv, TypeOK, rows, loopVars, procVars, bounds,
       ghosts, failures
  <1>5. CASE ~Return(r)
    <2>1. (Goto(r, "toExecute") \/ Goto(r, "startLoop")) /\ UNCHANGED <<att, snap, buf, cancelled>>
      BY <1>5 DEF SendRoute
    <2> QED
      BY <1>1, <1>2, <1>3, <2>1
      DEF SendRoute, Goto, TypeInv, TypeOK, Working, TailSettles, Pcs,
         ReqPcs, rows, loopVars, procVars, bounds, ghosts, failures
  <1> QED
    BY <1>4, <1>5

LEMMA TypeCancel ==
    ASSUME TypeInv, NEW r \in Requests, NEW a \in Attempts, Cancel(r, a)
    PROVE  TypeInv'
  BY BoundsAssumption, ProcessesAssumption
  DEF TypeInv, TypeOK, Working, TailSettles, Procs, Pcs, AttemptStates, rows,
     loopVars, procVars, bounds, ghosts, failures, Goto, Accept, ReqPcs, IsLive, Cancel

LEMMA TypeCancelWrite ==
    ASSUME TypeInv, NEW r \in Requests, CancelWrite(r)
    PROVE  TypeInv'
  <1>1. r \in Procs /\ pc[r] # "idle"
    BY DEF Procs, CancelWrite
  <1>2. CASE ContextDone(r)
    BY <1>1, <1>2, ReturnTypes
    DEF CancelWrite, TypeInv, TypeOK, rows, loopVars, procVars, bounds,
       ghosts, failures
  <1>3. CASE ~ContextDone(r)
    BY <1>1, <1>3 DEF CancelWrite, SetState, Goto, TypeInv, TypeOK, Working, TailSettles,
        AttemptStates, Terminal, Pcs, rows, loopVars, procVars, bounds, ghosts, failures
  <1> QED
    BY <1>2, <1>3

LEMMA TypeTryReconnect ==
    ASSUME TypeInv, NEW r \in Requests, NEW a \in Attempts, TryReconnect(r, a)
    PROVE  TypeInv'
  BY BoundsAssumption, ProcessesAssumption
  DEF TypeInv, TypeOK, Working, TailSettles, Procs, Pcs, AttemptStates, rows,
     loopVars, procVars, bounds, ghosts, failures, Goto, Accept, ReqPcs, IsLive,
     TryReconnect

LEMMA TypeRunOnce ==
    ASSUME TypeInv, NEW g \in Goroutines, RunOnce(g)
    PROVE  TypeInv'
  BY BoundsAssumption, ProcessesAssumption
  DEF TypeInv, TypeOK, Working, TailSettles, Procs, Pcs, AttemptStates, rows,
     loopVars, procVars, bounds, ghosts, failures, Goto, GoPcs, Active, RunOnce, Fault, Lapse, Miss, SetState

LEMMA TypeCreateResponse ==
    ASSUME TypeInv, NEW g \in Goroutines, CreateResponse(g)
    PROVE  TypeInv'
  BY BoundsAssumption, ProcessesAssumption
  DEF TypeInv, TypeOK, Working, TailSettles, Procs, Pcs, AttemptStates, rows,
     loopVars, procVars, bounds, ghosts, failures, Goto, GoPcs, RunIds, CreateResponse

LEMMA TypePreviousResponseNotFound ==
    ASSUME TypeInv, NEW g \in Goroutines, PreviousResponseNotFound(g)
    PROVE  TypeInv'
  BY MetaEdits, MetaConstants, BoundsAssumption, ProcessesAssumption
  DEF TypeInv, TypeOK, Working, TailSettles, Procs, Pcs, AttemptStates, rows,
     loopVars, procVars, bounds, ghosts, failures, Goto, GoPcs,
     PreviousResponseNotFound

LEMMA TypeCallFails ==
    ASSUME TypeInv, NEW g \in Goroutines, CallFails(g)
    PROVE  TypeInv'
  BY BoundsAssumption, ProcessesAssumption
  DEF TypeInv, TypeOK, Working, TailSettles, Procs, Pcs, AttemptStates, rows,
     loopVars, procVars, bounds, ghosts, failures, Goto, GoPcs, CallFails

LEMMA TypeEventCreated ==
    ASSUME TypeInv, NEW g \in Goroutines, EventCreated(g)
    PROVE  TypeInv'
  BY MetaEdits, MetaConstants, BoundsAssumption, ProcessesAssumption
  DEF TypeInv, TypeOK, Working, TailSettles, Procs, Pcs, AttemptStates, rows,
     loopVars, procVars, bounds, ghosts, failures, Goto, GoPcs, EventCreated

LEMMA TypeEventInputRequired ==
    ASSUME TypeInv, NEW g \in Goroutines, EventInputRequired(g)
    PROVE  TypeInv'
  BY BoundsAssumption, ProcessesAssumption
  DEF TypeInv, TypeOK, Working, TailSettles, Procs, Pcs, AttemptStates, rows,
     loopVars, procVars, bounds, ghosts, failures, Goto, SetState, Active,
     EventInputRequired

LEMMA TypeEventCompleted ==
    ASSUME TypeInv, NEW g \in Goroutines, EventCompleted(g)
    PROVE  TypeInv'
  <1>1. g \in Procs /\ att[g] \in Attempts /\ meta[att[g]] \in Meta
    BY DEF EventCompleted, TypeInv, TypeOK, Working, Procs
  <1>2. run[g] \in RunIds
    BY DEF TypeInv, TypeOK
  <1>3. buf' \in [Procs -> Meta]
    <2>1. [meta[att[g]] EXCEPT !.latest = run[g]] \in Meta
      BY <1>1, <1>2, MetaEdits
    <2> QED
      BY <1>1, <2>1 DEF EventCompleted, TypeInv, TypeOK
  <1>4. completed' \in [Attempts -> SUBSET RunIds]
    BY <1>1, <1>2 DEF EventCompleted, TypeInv, TypeOK
  <1>5. pc' \in [Procs -> Pcs] /\ Working' /\ TailSettles'
    BY <1>1 DEF EventCompleted, Goto, TypeInv, TypeOK, Working, TailSettles, Pcs, GoPcs
  <1> QED
    BY <1>3, <1>4, <1>5
    DEF EventCompleted, TypeInv, TypeOK, rows, loopVars, procVars, bounds,
       ghosts, failures

LEMMA TypeStreamEnd ==
    ASSUME TypeInv, NEW g \in Goroutines, StreamEnd(g)
    PROVE  TypeInv'
  <1>1. g \in Procs /\ att[g] \in Attempts /\ meta[att[g]] \in Meta
    BY DEF StreamEnd, TypeInv, TypeOK, Working, Procs
  <1>2. PICK reason \in Reasons :
           buf' = [buf EXCEPT ![g] =
                     [meta[att[g]] EXCEPT !.run = 0, !.reason = reason,
                                          !.count = IF reason = "completed" THEN 0 ELSE @]]
    <2>1. PICK err \in BOOLEAN :
             LET reason == CASE cancelled[g]      -> "cancelled"
                             [] ~err /\ saw[g]    -> "completed"
                             [] OTHER             -> "abnormal"
             IN  buf' = [buf EXCEPT ![g] =
                     [meta[att[g]] EXCEPT !.run = 0, !.reason = reason,
                                          !.count = IF reason = "completed" THEN 0 ELSE @]]
      BY DEF StreamEnd
    <2> DEFINE reason == CASE cancelled[g]      -> "cancelled"
                           [] ~err /\ saw[g]    -> "completed"
                           [] OTHER             -> "abnormal"
    <2>2. reason \in Reasons
      BY DEF Reasons
    <2> HIDE DEF reason
    <2> QED
      BY <2>1, <2>2 DEF reason
  <1>3. buf' \in [Procs -> Meta]
    BY <1>1, <1>2, MetaEdits DEF TypeInv, TypeOK
  <1>4. pc' \in [Procs -> Pcs] /\ Working' /\ TailSettles'
    BY <1>1 DEF StreamEnd, Goto, TypeInv, TypeOK, Working, TailSettles, Pcs, GoPcs
  <1> QED
    BY <1>3, <1>4 DEF StreamEnd, TypeInv, TypeOK, rows, loopVars, procVars, bounds, ghosts, failures

LEMMA TypeTailEnd ==
    ASSUME TypeInv, NEW g \in Goroutines, TailEnd(g)
    PROVE  TypeInv'
  BY BoundsAssumption, ProcessesAssumption
  DEF TypeInv, TypeOK, Working, TailSettles, Procs, Pcs, AttemptStates, rows,
     loopVars, procVars, bounds, ghosts, failures, Goto, GoPcs, Terminal, TailEnd, Fault, Lapse, Miss

LEMMA TypeTailFinish ==
    ASSUME TypeInv, NEW g \in Goroutines, TailFinish(g)
    PROVE  TypeInv'
  BY BoundsAssumption, ProcessesAssumption
  DEF TypeInv, TypeOK, Working, TailSettles, Procs, Pcs, AttemptStates, rows,
     loopVars, procVars, bounds, ghosts, failures, Goto, SetState, Terminal, TailFinish, Fault, Lapse, Miss, TrySetState

LEMMA TypeSelectDone ==
    ASSUME TypeInv, NEW g \in Goroutines, SelectDone(g)
    PROVE  TypeInv'
  BY BoundsAssumption, ProcessesAssumption
  DEF TypeInv, TypeOK, Working, TailSettles, Procs, Pcs, AttemptStates, rows,
     loopVars, procVars, bounds, ghosts, failures, Goto, GoPcs, SelectDone

LEMMA TypeSelectInput ==
    ASSUME TypeInv, NEW g \in Goroutines, SelectInput(g)
    PROVE  TypeInv'
  BY BoundsAssumption, ProcessesAssumption
  DEF TypeInv, TypeOK, Working, TailSettles, Procs, Pcs, AttemptStates, rows,
     loopVars, procVars, bounds, ghosts, failures, Goto, GoPcs, SelectInput

LEMMA TypeSelectTimeout ==
    ASSUME TypeInv, NEW g \in Goroutines, SelectTimeout(g)
    PROVE  TypeInv'
  BY BoundsAssumption, ProcessesAssumption
  DEF TypeInv, TypeOK, Working, TailSettles, Procs, Pcs, AttemptStates, rows,
     loopVars, procVars, bounds, ghosts, failures, Goto, GoPcs, SelectTimeout

LEMMA TypeFinish ==
    ASSUME TypeInv, NEW g \in Goroutines, Finish(g)
    PROVE  TypeInv'
  BY BoundsAssumption, ProcessesAssumption
  DEF TypeInv, TypeOK, Working, TailSettles, Procs, Pcs, AttemptStates, rows,
     loopVars, procVars, bounds, ghosts, failures, Goto, Terminal, Finish, Fault, Lapse, Miss, TrySetState, SetState

LEMMA TypeFail ==
    ASSUME TypeInv, NEW g \in Goroutines, Fail(g)
    PROVE  TypeInv'
  BY BoundsAssumption, ProcessesAssumption
  DEF TypeInv, TypeOK, Working, TailSettles, Procs, Pcs, AttemptStates, rows,
     loopVars, procVars, bounds, ghosts, failures, Goto, Terminal, Fail, Fault, Lapse, Miss, TrySetState, SetState

LEMMA TypeExit ==
    ASSUME TypeInv, NEW g \in Goroutines, Exit(g)
    PROVE  TypeInv'
  BY MetaConstants, BoundsAssumption, ProcessesAssumption
  DEF TypeInv, TypeOK, Working, TailSettles, Procs, Pcs, AttemptStates, rows,
     loopVars, procVars, bounds, ghosts, failures, Goto, RunIds, Exit

LEMMA TypeTick ==
    ASSUME TypeInv, Tick
    PROVE  TypeInv'
  BY BoundsAssumption, ProcessesAssumption
  DEF TypeInv, TypeOK, Working, TailSettles, Procs, Pcs, AttemptStates, rows,
     loopVars, procVars, bounds, ghosts, failures, Goto, ActiveAttempts, Tick

LEMMA TypeRetry ==
    ASSUME TypeInv, NEW a \in Attempts, Retry(a)
    PROVE  TypeInv'
  BY MetaEdits, MetaConstants, BoundsAssumption, ProcessesAssumption
  DEF TypeInv, TypeOK, Working, TailSettles, Procs, Pcs, AttemptStates, rows,
     loopVars, procVars, bounds, ghosts, failures, Goto, MayRetry, HasBudget, Retry

LEMMA TypeSkip ==
    ASSUME TypeInv, NEW a \in Attempts, Skip(a)
    PROVE  TypeInv'
  BY BoundsAssumption, ProcessesAssumption
  DEF TypeInv, TypeOK, Working, TailSettles, Procs, Pcs, AttemptStates, rows,
     loopVars, procVars, bounds, ghosts, failures, Goto, Skip

LEMMA TypeCrash ==
    ASSUME TypeInv, Crash
    PROVE  TypeInv'
  BY MetaConstants, BoundsAssumption, ProcessesAssumption
  DEF TypeInv, TypeOK, Working, TailSettles, Procs, Pcs, AttemptStates, rows,
     loopVars, procVars, bounds, ghosts, failures, Goto, Orphans, RunIds, Crash, Fault, Lapse, Miss

LEMMA TypeBootAttach ==
    ASSUME TypeInv, NEW a \in Attempts, BootAttach(a)
    PROVE  TypeInv'
  BY BoundsAssumption, ProcessesAssumption
  DEF TypeInv, TypeOK, Working, TailSettles, Procs, Pcs, AttemptStates, rows,
     loopVars, procVars, bounds, ghosts, failures, Goto, ReqPcs, BootAttach

LEMMA TypeBootContinue ==
    ASSUME TypeInv, NEW a \in Attempts, BootContinue(a)
    PROVE  TypeInv'
  <1>1. meta[a] \in Meta /\ meta[a].count < MaxRetries
    BY DEF BootContinue, HasBudget, TypeInv, TypeOK
  <1>2. meta' \in [Attempts -> Meta]
    <2>1. [meta[a] EXCEPT !.count = @ + 1, !.reason = "abnormal", !.run = 0] \in Meta
      BY <1>1, MetaEdits
    <2>2. \/ UNCHANGED meta
          \/ meta' = [meta EXCEPT ![a] =
                       [meta[a] EXCEPT !.count = @ + 1, !.reason = "abnormal", !.run = 0]]
      BY DEF BootContinue
    <2> QED
      BY <2>1, <2>2 DEF TypeInv, TypeOK
  <1>3. pc' \in [Procs -> Pcs] /\ Working' /\ TailSettles'
    BY DEF BootContinue, Goto, TypeInv, TypeOK, Working, TailSettles, Pcs, ReqPcs
  <1>4. att' \in [Procs -> Attempts \cup {NoAttempt}] /\ todo' \in SUBSET Attempts
    BY DEF BootContinue, TypeInv, TypeOK
  <1>5. faults' \in 0 .. MaxFaults /\ missed' \in SUBSET Attempts
    BY BoundsAssumption DEF BootContinue, TypeInv, TypeOK, failures, Lapse, Fault
  <1> QED
    BY <1>2, <1>3, <1>4, <1>5
    DEF BootContinue, TypeInv, TypeOK, rows, loopVars, procVars, bounds, ghosts

LEMMA TypeBootSkip ==
    ASSUME TypeInv, NEW a \in Attempts, BootSkip(a)
    PROVE  TypeInv'
  BY BoundsAssumption, ProcessesAssumption
  DEF TypeInv, TypeOK, Working, TailSettles, rows, loopVars, procVars, bounds,
     ghosts, BootSkip, Fault, Miss

LEMMA TypeBootFail ==
    ASSUME TypeInv, NEW a \in Attempts, BootFail(a)
    PROVE  TypeInv'
  BY BoundsAssumption, ProcessesAssumption
  DEF TypeInv, TypeOK, Working, TailSettles, Procs, Pcs, AttemptStates, rows,
     loopVars, procVars, bounds, ghosts, failures, Goto, SetState, Terminal, BootFail, Fault, Lapse, Miss

LEMMA TypeServe ==
    ASSUME TypeInv, Serve
    PROVE  TypeInv'
  BY BoundsAssumption, ProcessesAssumption
  DEF TypeInv, TypeOK, Working, TailSettles, Procs, Pcs, AttemptStates, rows,
     loopVars, procVars, bounds, ghosts, failures, Goto, Serve

(* Every step keeps the type invariant.                                    *)
LEMMA TypeNext ==
    ASSUME TypeInv, [Next]_vars
    PROVE  TypeInv'
  <1>1. ASSUME NEW g \in Goroutines, GoroutineStep(g)
        PROVE  TypeInv'
    <2>1. g \in Procs
      BY DEF Procs
    <2> QED
      BY <1>1, <2>1, TypeRunOnce, TypeCreateResponse,
         TypePreviousResponseNotFound, TypeCallFails,
         TypeEventCreated, TypeEventInputRequired, TypeEventCompleted, TypeStreamEnd,
         TypeTailEnd, TypeTailFinish, TypeSelectDone, TypeSelectInput, TypeSelectTimeout,
         TypeFinish, TypeFail, TypeExit, TypeSaveMeta, TypeAdvance, TypeToVerify
      DEF GoroutineStep
  <1>2. ASSUME NEW r \in Requests, RequestStep(r)
        PROVE  TypeInv'
    <2>1. r \in Procs /\ r \in Callers
      BY DEF Procs, Callers
    <2> QED
      BY <1>2, <2>1, TypeCreateAttempt, TypeSaveNewMeta, TypeSendRoute,
         TypeCancelWrite, TypeSaveMeta,
         TypeToExecute, TypeStartLoop, TypeAttach, TypeAdvance, TypeToVerify
      DEF RequestStep
  <1>3. ASSUME NEW r \in Requests, ClientGone(r)
        PROVE  TypeInv'
    BY <1>3, TypeClientGone
  <1>4. ASSUME NEW r \in Requests, NEW a \in Attempts, Request(r, a)
        PROVE  TypeInv'
    BY <1>4, TypeStart, TypeSend, TypeCancel, TypeTryReconnect DEF Request
  <1>5. ASSUME Tick \/ ResumerStep
        PROVE  TypeInv'
    <2>1. Resumer \in Procs /\ Resumer \in Callers
      BY DEF Procs, Callers
    <2> QED
      BY <1>5, <2>1, TypeTick, TypeRetry, TypeSkip, TypeSaveMeta,
         TypeStartLoop
      DEF ResumerStep
  <1>6. ASSUME BootStep
        PROVE  TypeInv'
    <2>1. Boot \in Procs /\ Boot \in Callers
      BY DEF Procs, Callers
    <2> QED
      BY <1>6, <2>1, TypeBootSkip, TypeBootAttach, TypeBootContinue, TypeBootFail,
         TypeServe, TypeAttach,
         TypeStartLoop, TypeAdvance, TypeToVerify
      DEF BootStep
  <1>7. CASE UNCHANGED vars
    BY <1>7
    DEF vars, rows, loopVars, procVars, ghosts, failures, bounds, TypeInv, TypeOK,
       Working, TailSettles
  <1> QED
    BY <1>1, <1>2, <1>3, <1>4, <1>5, <1>6, <1>7, TypeCrash DEF Next

(* Every reachable state of the runner is well typed: in particular every  *)
(* counter kept in meta.json stays within AutoResumeMaxRetries.            *)
THEOREM TypeCorrect == Spec => []TypeOK
  <1>1. Init => TypeInv
    BY TypeInit
  <1>2. TypeInv /\ [Next]_vars => TypeInv'
    BY TypeNext
  <1>3. TypeInv => TypeOK
    BY DEF TypeInv
  <1> QED
    BY <1>1, <1>2, <1>3, PTL DEF Spec

-----------------------------------------------------------------------------
(* Live goroutines. A step that starts and ends none keeps ActiveIsLive.   *)
LEMMA LoopsKept ==
    ASSUME TypeInv, ActiveIsLive, UNCHANGED active,
           \A g \in Goroutines : att'[g] = att[g] /\ (Live(g)' <=> Live(g))
    PROVE  ActiveIsLive'
  BY DEF ActiveIsLive, Live, TypeInv, TypeOK

(* The return of a call is such a step.                                    *)
LEMMA ReturnKeepsLoops ==
    ASSUME TypeInv, NEW p \in Procs, pc[p] # "idle", Return(p)
    PROVE  \A g \in Goroutines : att'[g] = att[g] /\ (Live(g)' <=> Live(g))
  BY ProcessesAssumption DEF TypeInv, TypeOK, Return, Goto, Home, Live, Procs

(* A goroutine is started only for an attempt that has none.               *)
LEMMA SpawnKeepsActive ==
    ASSUME TypeInv, ActiveIsLive, NEW p \in Callers, NEW g \in Goroutines, pc[p] # "idle",
           NEW step \in {"run", "exit", "stream"}, ~IsLive(att[p]), Spawn(p, g, step)
    PROVE  ActiveIsLive'
  <1>1. /\ p \in Procs /\ g \in Procs /\ p \notin Goroutines
        /\ att[p] \in Attempts /\ active[att[p]] = NoGoroutine
    BY ProcessesAssumption DEF Callers, Procs, TypeInv, Working, IsLive
  <1>2. /\ \A h \in Goroutines \ {g} : att'[h] = att[h] /\ (Live(h)' <=> Live(h))
        /\ ~Live(g) /\ Live(g)' /\ att'[g] = att[p]
        /\ active'[att[p]] = g /\ \A a \in Attempts \ {att[p]} : active'[a] = active[a]
    BY <1>1 DEF TypeInv, TypeOK, Spawn, Live, Procs
  <1>3. ASSUME NEW a \in Attempts, active'[a] # NoGoroutine
        PROVE  Live(active[a])' /\ att'[active'[a]] = a
    BY <1>1, <1>2, <1>3 DEF ActiveIsLive, TypeInv, TypeOK
  <1>4. ASSUME NEW h \in Goroutines, Live(h)'
        PROVE  att'[h] \in Attempts /\ active'[att'[h]] = h
    BY <1>1, <1>2, <1>4, ProcessesAssumption DEF ActiveIsLive
  <1> QED
    BY <1>3, <1>4 DEF ActiveIsLive

(* So startLoop and resumeAttempt, which check under Runner.mu, keep it.   *)
LEMMA StartLoopKeepsActive ==
    ASSUME TypeInv, ActiveIsLive, NEW p \in Callers, StartLoop(p)
    PROVE  ActiveIsLive'
  <1>1. p \in Procs /\ pc[p] # "idle"
    BY DEF Callers, Procs, StartLoop
  <1>2. CASE IsLive(att[p])
    BY <1>1, <1>2, LoopsKept, ReturnKeepsLoops DEF StartLoop
  <1>3. CASE ~IsLive(att[p])
    BY <1>1, <1>3, SpawnKeepsActive DEF StartLoop
  <1> QED
    BY <1>2, <1>3

LEMMA AttachKeepsActive ==
    ASSUME TypeInv, ActiveIsLive, NEW p \in Callers, Attach(p)
    PROVE  ActiveIsLive'
  <1>1. p \in Procs /\ pc[p] # "idle"
    BY DEF Callers, Procs, Attach
  <1>2. CASE IsLive(att[p])
    BY <1>1, <1>2, LoopsKept, ReturnKeepsLoops DEF Attach
  <1>3. CASE ~IsLive(att[p])
    BY <1>1, <1>3, SpawnKeepsActive DEF Attach
  <1> QED
    BY <1>2, <1>3

(* The deferred delete removes the goroutine's own entry.                  *)
LEMMA ExitKeepsActive ==
    ASSUME TypeInv, ActiveIsLive, NEW g \in Goroutines, Exit(g)
    PROVE  ActiveIsLive'
  <1>1. /\ Live(g) /\ g \in Procs /\ att[g] \in Attempts /\ active[att[g]] = g
        /\ ~Live(g)' /\ \A h \in Goroutines \ {g} : att'[h] = att[h] /\ (Live(h)' <=> Live(h))
        /\ active' = [active EXCEPT ![att[g]] = NoGoroutine]
    BY DEF ActiveIsLive, TypeInv, TypeOK, Live, Exit, Goto, Procs
  <1>2. ASSUME NEW a \in Attempts, active'[a] # NoGoroutine
        PROVE  Live(active[a])' /\ att'[active'[a]] = a
    BY <1>1, <1>2 DEF ActiveIsLive, TypeInv, TypeOK
  <1>3. ASSUME NEW h \in Goroutines, Live(h)'
        PROVE  att'[h] \in Attempts /\ active'[att'[h]] = h
    BY <1>1, <1>3 DEF ActiveIsLive, TypeInv, TypeOK
  <1> QED
    BY <1>2, <1>3 DEF ActiveIsLive

(* No step but the creation and the end of a goroutine changes who is live. *)
LEMMA OthersKeepLoops ==
    ASSUME TypeInv, NEW p \in Procs,
           \/ Advance(p) \/ ToVerify(p) \/ ToExecute(p) \/ SaveMeta(p)
           \/ p \in Requests /\ (CreateAttempt(p) \/ SaveNewMeta(p) \/ SendRoute(p) \/ CancelWrite(p))
    PROVE  UNCHANGED active /\ \A g \in Goroutines : att'[g] = att[g] /\ (Live(g)' <=> Live(g))
  <1>1. pc[p] # "idle" /\ UNCHANGED active
    BY
    DEF Advance, ToVerify, ToExecute, SaveMeta, SaveSteps, CreateAttempt,
       SaveNewMeta, SendRoute, CancelWrite
  <1>2. CASE Return(p)
    BY <1>1, <1>2, ReturnKeepsLoops
  <1>3. CASE ~Return(p)
    <2>1. att' = att /\ \E step \in Pcs \ {"idle"} : Goto(p, step)
      BY <1>3
      DEF Advance, ToVerify, ToExecute, SaveMeta, SaveSteps, AfterSave,
         CreateAttempt, SaveNewMeta,
         SendRoute, CancelWrite, Goto, Pcs, GoPcs, ReqPcs, procVars
    <2> QED
      BY <1>1, <2>1 DEF Goto, Live, TypeInv, TypeOK, Procs
  <1> QED
    BY <1>2, <1>3

LEMMA GoroutineKeepsLoops ==
    ASSUME TypeInv, NEW g \in Goroutines,
           \/ RunOnce(g) \/ CreateResponse(g) \/ PreviousResponseNotFound(g) \/ CallFails(g)
           \/ EventCreated(g) \/ EventInputRequired(g) \/ EventCompleted(g)
           \/ StreamEnd(g) \/ TailEnd(g) \/ TailFinish(g)
           \/ SelectDone(g) \/ SelectInput(g) \/ SelectTimeout(g) \/ Finish(g) \/ Fail(g)
    PROVE  /\ UNCHANGED <<active, att>>
           /\ \A h \in Goroutines : Live(h)' <=> Live(h)
  <1>1. pc[g] # "idle" /\ UNCHANGED <<active, att>>
    BY
    DEF RunOnce, CreateResponse, PreviousResponseNotFound, CallFails,
       EventCreated, EventInputRequired,
       EventCompleted, StreamEnd, TailEnd, TailFinish, SelectDone, SelectInput, SelectTimeout, Finish, Fail, procVars
  <1>2. UNCHANGED pc \/ \E step \in Pcs \ {"idle"} : Goto(g, step)
    BY
    DEF RunOnce, CreateResponse, PreviousResponseNotFound, CallFails,
       EventCreated, EventInputRequired,
       EventCompleted, StreamEnd, TailEnd, TailFinish, SelectDone, SelectInput, SelectTimeout, Finish, Fail, procVars,
       Pcs, GoPcs
  <1> QED
    BY <1>1, <1>2 DEF Goto, Live, TypeInv, TypeOK, Procs

LEMMA RequestKeepsLoops ==
    ASSUME TypeInv, NEW r \in Requests, NEW a \in Attempts, Request(r, a)
    PROVE  UNCHANGED active /\ \A g \in Goroutines : att'[g] = att[g] /\ (Live(g)' <=> Live(g))
  <1>1. /\ UNCHANGED active
        /\ \E step \in Pcs : Accept(r, a, step)
    BY DEF Request, Start, Send, Cancel, TryReconnect, Pcs, ReqPcs
  <1> QED
    BY <1>1, ProcessesAssumption DEF Accept, Goto, Live, TypeInv, TypeOK, Procs

LEMMA BackgroundKeepsLoops ==
    ASSUME TypeInv, NEW a \in Attempts,
           \/ Tick \/ Retry(a) \/ Skip(a) \/ BootSkip(a)
           \/ BootAttach(a) \/ BootContinue(a) \/ BootFail(a) \/ Serve
    PROVE  UNCHANGED active /\ \A g \in Goroutines : att'[g] = att[g] /\ (Live(g)' <=> Live(g))
  <1>1. Resumer \notin Goroutines /\ Boot \notin Goroutines
    BY ProcessesAssumption
  <1>2. CASE Tick \/ Skip(a) \/ BootSkip(a) \/ Serve
    BY <1>2 DEF Tick, Skip, BootSkip, Serve, procVars, Live
  <1>3. CASE Retry(a)
    BY <1>1, <1>3 DEF Retry, Goto, Live, TypeInv, TypeOK, Procs
  <1>4. CASE BootAttach(a) \/ BootContinue(a) \/ BootFail(a)
    BY <1>1, <1>4
    DEF BootAttach, BootContinue, BootFail, Goto, Live, TypeInv, TypeOK,
       Procs
  <1> QED
    BY <1>2, <1>3, <1>4

(* Every step keeps ActiveIsLive.                                          *)
LEMMA ActiveNext ==
    ASSUME TypeInv, ActiveIsLive, [Next]_vars
    PROVE  ActiveIsLive'
  <1>1. ASSUME NEW g \in Goroutines, GoroutineStep(g)
        PROVE  ActiveIsLive'
    <2>1. g \in Procs
      BY DEF Procs
    <2> QED
      BY <1>1, <2>1, LoopsKept, GoroutineKeepsLoops, OthersKeepLoops,
         ExitKeepsActive
      DEF GoroutineStep
  <1>2. ASSUME NEW r \in Requests, RequestStep(r)
        PROVE  ActiveIsLive'
    <2>1. r \in Procs /\ r \in Callers
      BY DEF Procs, Callers
    <2> QED
      BY <1>2, <2>1, LoopsKept, OthersKeepLoops, StartLoopKeepsActive,
         AttachKeepsActive
      DEF RequestStep
  <1>3. ASSUME NEW r \in Requests, ClientGone(r)
        PROVE  ActiveIsLive'
    BY <1>3, LoopsKept DEF ClientGone, procVars, Live
  <1>4. ASSUME NEW r \in Requests, NEW a \in Attempts, Request(r, a)
        PROVE  ActiveIsLive'
    BY <1>4, LoopsKept, RequestKeepsLoops
  <1>5. ASSUME Tick \/ Serve
        PROVE  ActiveIsLive'
    BY <1>5, LoopsKept DEF Tick, Serve, procVars, Live
  <1>6. ASSUME ResumerStep
        PROVE  ActiveIsLive'
    <2>1. Resumer \in Procs /\ Resumer \in Callers
      BY DEF Procs, Callers
    <2> QED
      BY <1>6, <2>1, LoopsKept, BackgroundKeepsLoops, OthersKeepLoops,
         StartLoopKeepsActive
      DEF ResumerStep
  <1>7. ASSUME BootStep
        PROVE  ActiveIsLive'
    <2>1. Boot \in Procs /\ Boot \in Callers
      BY DEF Procs, Callers
    <2> QED
      BY <1>5, <1>7, <2>1, LoopsKept, BackgroundKeepsLoops,
         OthersKeepLoops, StartLoopKeepsActive,
         AttachKeepsActive
      DEF BootStep
  <1>8. CASE Crash
    BY <1>8, ProcessesAssumption DEF Crash, ActiveIsLive, Live, Procs
  <1>9. CASE UNCHANGED vars
    BY <1>9, LoopsKept DEF vars, procVars, Live
  <1> QED
    BY <1>1, <1>2, <1>3, <1>4, <1>5, <1>6, <1>7, <1>8, <1>9 DEF Next

(* Runner.active names exactly the goroutines that run, whatever the       *)
(* number of attempts, handlers and crashes.                               *)
THEOREM ActiveCorrect == Spec => []ActiveIsLive
  <1>1. Init => ActiveIsLive
    BY DEF Init, ActiveIsLive, Live, Procs
  <1>2. TypeInv /\ ActiveIsLive /\ [Next]_vars => (TypeInv /\ ActiveIsLive)'
    BY TypeNext, ActiveNext
  <1> QED
    BY TypeInit, <1>1, <1>2, PTL DEF Spec

(* Two goroutines never drive one attempt.                                 *)
THEOREM OneLoopCorrect == Spec => []OneLoopPerAttempt
  <1>1. ActiveIsLive => OneLoopPerAttempt
    BY DEF ActiveIsLive, OneLoopPerAttempt
  <1> QED
    BY ActiveCorrect, <1>1, PTL

-----------------------------------------------------------------------------
(* Chaining. The copy of meta.json a process holds may be old, but it      *)
(* never names a response that was not received to its end.                *)
BufChained ==
    \A p \in Procs :
        buf[p].latest # 0 => pc[p] # "idle" /\ buf[p].latest \in completed[att[p]]

ChainInv == TypeInv /\ ChainsOffCompleted /\ BufChained

(* What a step may do to the copy of p: drop it, keep it, or read it from  *)
(* the file of the attempt p works on.                                     *)
CopyKept(p) ==
    \/ buf'[p].latest = 0
    \/ buf'[p] = buf[p] /\ att'[p] = att[p] /\ pc'[p] # "idle"
    \/ att'[p] \in Attempts /\ pc'[p] # "idle" /\ buf'[p].latest = meta[att'[p]].latest

(* Which edits of a copy leave its response id alone.                      *)
LEMMA LatestEdits ==
    ASSUME NEW m \in Meta
    PROVE  /\ [m EXCEPT !.latest = 0].latest = 0
           /\ [m EXCEPT !.count = 0].latest = m.latest
           /\ [m EXCEPT !.count = @ + 1].latest = m.latest
           /\ \A i : Created(m, i).latest = m.latest
           /\ \A i, k, n : [m EXCEPT !.run = i, !.reason = k, !.count = n].latest = m.latest
  BY DEF Meta, Created

(* A step that writes no file and moves every copy so keeps the invariant. *)
LEMMA CopiesKept ==
    ASSUME ChainInv, UNCHANGED <<meta, completed>>, \A p \in Procs : CopyKept(p)
    PROVE  ChainsOffCompleted' /\ BufChained'
  BY DEF ChainInv, ChainsOffCompleted, BufChained, CopyKept

(* A call that returns and a caller that spawns drop their copies.         *)
LEMMA ReturnCopies ==
    ASSUME ChainInv, NEW p \in Procs, pc[p] # "idle", Return(p)
    PROVE  \A q \in Procs : CopyKept(q)
  <1>1. buf'[p].latest = 0
    BY DEF ChainInv, TypeInv, TypeOK, Return, NoMeta
  <1>2. ASSUME NEW q \in Procs, q # p
        PROVE  CopyKept(q)
    BY <1>2 DEF ChainInv, BufChained, TypeInv, TypeOK, Return, Goto, Home, CopyKept
  <1> QED
    BY <1>1, <1>2 DEF CopyKept

LEMMA SpawnCopies ==
    ASSUME ChainInv, NEW p \in Callers, NEW g \in Goroutines, pc[p] # "idle",
           NEW step \in {"run", "exit", "stream"}, Spawn(p, g, step)
    PROVE  \A q \in Procs : CopyKept(q)
  <1>1. p \in Procs /\ g \in Procs /\ p # g
    BY ProcessesAssumption DEF Callers, Procs
  <1>2. buf'[p].latest = 0 /\ buf'[g].latest = 0
    BY <1>1 DEF ChainInv, BufChained, TypeInv, TypeOK, Spawn, NoMeta
  <1>3. ASSUME NEW q \in Procs, q # p, q # g
        PROVE  CopyKept(q)
    BY <1>3 DEF ChainInv, BufChained, TypeInv, TypeOK, Spawn, CopyKept
  <1> QED
    BY <1>2, <1>3 DEF CopyKept

(* A process that goes on with its copy as it is.                          *)
LEMMA GotoCopies ==
    ASSUME ChainInv, NEW p \in Procs, NEW step \in Pcs \ {"idle"}, Goto(p, step), UNCHANGED <<att, buf>>
    PROVE  \A q \in Procs : CopyKept(q)
  BY DEF ChainInv, BufChained, TypeInv, TypeOK, Goto, CopyKept

(* A process that turns to an attempt, with or without a copy of its file. *)
LEMMA ReadCopies ==
    ASSUME ChainInv, NEW p \in Procs, NEW a \in Attempts, NEW step \in Pcs \ {"idle"},
           Goto(p, step), att' = [att EXCEPT ![p] = a],
           \/ buf' = buf /\ pc[p] = "idle"
           \/ /\ buf'[p].latest \in {0, meta[a].latest}
              /\ \A q \in Procs \ {p} : buf'[q] = buf[q]
    PROVE  \A q \in Procs : CopyKept(q)
  <1>1. CopyKept(p)
    BY DEF ChainInv, BufChained, TypeInv, TypeOK, Goto, CopyKept
  <1>2. ASSUME NEW q \in Procs, q # p
        PROVE  CopyKept(q)
    BY <1>2 DEF ChainInv, BufChained, TypeInv, TypeOK, Goto, CopyKept
  <1> QED
    BY <1>1, <1>2

(* The write of a copy: the file now names what the copy named.            *)
LEMMA ChainSaveMeta ==
    ASSUME ChainInv, NEW p \in Procs, SaveMeta(p)
    PROVE  ChainsOffCompleted' /\ BufChained'
  <1>1. att[p] \in Attempts /\ att' = att /\ completed' = completed
    BY DEF ChainInv, TypeInv, Working, SaveMeta, SaveSteps, ghosts, failures
  <1>2. ChainsOffCompleted'
    BY <1>1 DEF ChainInv, ChainsOffCompleted, BufChained, TypeInv, TypeOK, SaveMeta
  <1>3. buf'[p].latest = 0 /\ \A q \in Procs \ {p} : buf'[q] = buf[q] /\ pc'[q] = pc[q]
    BY DEF ChainInv, TypeInv, TypeOK, SaveMeta, Goto, NoMeta
  <1> QED
    BY <1>1, <1>2, <1>3 DEF ChainInv, BufChained

LEMMA ChainSaveNewMeta ==
    ASSUME ChainInv, NEW r \in Requests, SaveNewMeta(r)
    PROVE  ChainsOffCompleted' /\ BufChained'
  <1>1. r \in Procs /\ pc[r] # "idle" /\ completed' = completed
    BY DEF Procs, SaveNewMeta, ghosts, failures
  <1>2. \A q \in Procs : CopyKept(q)
    <2>1. CASE Return(r)
      BY <1>1, <2>1, ReturnCopies
    <2>2. CASE ~Return(r)
      BY <1>1, <2>2, GotoCopies DEF SaveNewMeta, Pcs, ReqPcs
    <2> QED
      BY <2>1, <2>2
  <1>3. \A a \in Attempts : meta'[a].latest \in {0, meta[a].latest}
    BY DEF ChainInv, TypeInv, TypeOK, SaveNewMeta, NewMeta, NoMeta
  <1>4. ChainsOffCompleted'
    BY <1>1, <1>3 DEF ChainInv, ChainsOffCompleted
  <1>5. BufChained'
    BY <1>1, <1>2 DEF ChainInv, ChainsOffCompleted, BufChained, CopyKept
  <1> QED
    BY <1>4, <1>5

LEMMA ChainBootContinue ==
    ASSUME ChainInv, NEW a \in Attempts, BootContinue(a)
    PROVE  ChainsOffCompleted' /\ BufChained'
  <1>1. Boot \in Procs /\ completed' = completed
    BY DEF Procs, BootContinue, ghosts, failures
  <1>2. \A q \in Procs : CopyKept(q)
    BY <1>1, ReadCopies DEF BootContinue, Pcs, ReqPcs
  <1>3. \A b \in Attempts : meta'[b].latest = meta[b].latest
    <2>1. CASE meta' = meta
      BY <2>1
    <2>2. CASE meta' = [meta EXCEPT ![a] = [meta[a] EXCEPT !.count = @ + 1,
                                                !.reason = "abnormal", !.run = 0]]
      BY <2>2 DEF ChainInv, TypeInv, TypeOK, Meta
    <2> QED
      BY <2>1, <2>2 DEF BootContinue
  <1>4. ChainsOffCompleted'
    BY <1>1, <1>3 DEF ChainInv, ChainsOffCompleted
  <1>5. BufChained'
    BY <1>1, <1>2 DEF ChainInv, ChainsOffCompleted, BufChained, CopyKept
  <1> QED
    BY <1>4, <1>5

(* response.completed: the new response is one received to its end.        *)
LEMMA ChainEventCompleted ==
    ASSUME ChainInv, NEW g \in Goroutines, EventCompleted(g)
    PROVE  ChainsOffCompleted' /\ BufChained'
  <1>1. /\ g \in Procs /\ pc[g] # "idle" /\ att[g] \in Attempts /\ UNCHANGED <<meta, att>>
        /\ completed' = [completed EXCEPT ![att[g]] = @ \cup {run[g]}]
    BY DEF Procs, EventCompleted, ChainInv, TypeInv, Working
  <1>2. \A a \in Attempts : completed[a] \subseteq completed'[a]
    BY <1>1 DEF ChainInv, TypeInv, TypeOK
  <1>3. ChainsOffCompleted'
    BY <1>1, <1>2 DEF ChainInv, ChainsOffCompleted
  <1>4. ASSUME NEW q \in Procs, buf'[q].latest # 0, q # g
        PROVE  pc'[q] # "idle" /\ buf'[q].latest \in completed'[att'[q]]
    <2>1. buf'[q] = buf[q] /\ pc'[q] = pc[q]
      BY <1>4 DEF EventCompleted, Goto, ChainInv, TypeInv, TypeOK
    <2>2. att[q] \in Attempts
      BY <1>4, <2>1 DEF ChainInv, BufChained, TypeInv, Working
    <2> QED
      BY <1>1, <1>2, <1>4, <2>1, <2>2 DEF ChainInv, BufChained
  <1>5. ASSUME buf'[g].latest # 0
        PROVE  pc'[g] # "idle" /\ buf'[g].latest \in completed'[att'[g]]
    <2>1. run[g] \in completed'[att[g]]
      BY <1>1 DEF ChainInv, TypeInv, TypeOK
    <2>2. CASE meta[att[g]].has
      <3>1. buf'[g] = [meta[att[g]] EXCEPT !.latest = run[g]]
        BY <1>1, <2>2 DEF EventCompleted, ChainInv, TypeInv, TypeOK
      <3>2. buf'[g].latest = run[g]
        BY <1>1, <3>1 DEF ChainInv, TypeInv, TypeOK, Meta
      <3>3. pc'[g] = "saveEvent"
        BY <1>1, <2>2 DEF EventCompleted, Goto, ChainInv, TypeInv, TypeOK
      <3> QED
        BY <1>1, <2>1, <3>2, <3>3
    <2>3. CASE ~meta[att[g]].has
      BY <1>1, <1>2, <1>5, <2>3 DEF EventCompleted, ChainInv, BufChained
    <2> QED
      BY <2>2, <2>3
  <1> QED
    BY <1>3, <1>4, <1>5 DEF BufChained

(* The other events edit the copy without naming a new response.           *)
LEMMA ChainCreated ==
    ASSUME ChainInv, NEW g \in Goroutines,
           PreviousResponseNotFound(g) \/ EventCreated(g) \/ StreamEnd(g)
    PROVE  \A q \in Procs : CopyKept(q)
  <1>1. g \in Procs /\ att[g] \in Attempts /\ meta[att[g]] \in Meta
    BY
    DEF Procs, PreviousResponseNotFound, EventCreated, StreamEnd, ChainInv,
       TypeInv, TypeOK, Working
  <1>2. att' = [att EXCEPT ![g] = att[g]]
    BY <1>1
    DEF PreviousResponseNotFound, EventCreated, StreamEnd, ChainInv,
       TypeInv, TypeOK
  <1>3. PICK step \in {"saveCold", "saveEvent", "saveEnd"} : Goto(g, step)
    BY DEF PreviousResponseNotFound, EventCreated, StreamEnd
  <1>4. /\ buf'[g].latest \in {0, meta[att[g]].latest}
        /\ \A q \in Procs \ {g} : buf'[q] = buf[q]
    <2>1. CASE PreviousResponseNotFound(g)
      BY <1>1, <2>1, LatestEdits DEF PreviousResponseNotFound, ChainInv, TypeInv, TypeOK
    <2>2. CASE EventCreated(g)
      BY <1>1, <2>2, LatestEdits DEF EventCreated, ChainInv, TypeInv, TypeOK
    <2>3. CASE StreamEnd(g)
      <3>1. PICK err \in BOOLEAN :
               LET reason == CASE cancelled[g]      -> "cancelled"
                               [] ~err /\ saw[g]    -> "completed"
                               [] OTHER             -> "abnormal"
               IN  buf' = [buf EXCEPT ![g] =
                       [meta[att[g]] EXCEPT !.run = 0, !.reason = reason,
                                            !.count = IF reason = "completed" THEN 0 ELSE @]]
        BY <2>3 DEF StreamEnd
      <3> DEFINE reason == CASE cancelled[g]      -> "cancelled"
                             [] ~err /\ saw[g]    -> "completed"
                             [] OTHER             -> "abnormal"
                 n      == IF reason = "completed" THEN 0 ELSE meta[att[g]].count
      <3>2. buf' = [buf EXCEPT ![g] = [meta[att[g]] EXCEPT !.run = 0, !.reason = reason, !.count = n]]
        BY <3>1
      <3> HIDE DEF reason, n
      <3> QED
        BY <1>1, <3>2, LatestEdits DEF ChainInv, TypeInv, TypeOK
    <2> QED
      BY <2>1, <2>2, <2>3
  <1>5. step \in Pcs \ {"idle"}
    BY DEF Pcs, GoPcs
  <1> QED
    BY <1>1, <1>2, <1>3, <1>4, <1>5, ReadCopies

(* Every step keeps ChainsOffCompleted and BufChained.                     *)
LEMMA ChainNext ==
    ASSUME ChainInv, [Next]_vars
    PROVE  ChainsOffCompleted' /\ BufChained'
  <1> DEFINE Goal == ChainsOffCompleted' /\ BufChained'
  <1>0. ASSUME NEW p \in Procs, Advance(p) \/ ToVerify(p) \/ ToExecute(p) \/ SaveMeta(p)
        PROVE  Goal
    <2>1. CASE SaveMeta(p)
      BY <2>1, ChainSaveMeta
    <2>2. CASE Return(p) /\ (Advance(p) \/ ToVerify(p))
      BY <2>2, ReturnCopies, CopiesKept DEF Advance, ToVerify, ghosts, failures
    <2>3. CASE ToExecute(p)
      BY <2>3, GotoCopies, CopiesKept DEF ToExecute, Pcs, ReqPcs, ghosts, failures
    <2>4. CASE Advance(p) /\ ~Return(p)
      BY <2>4, GotoCopies, CopiesKept DEF Advance, Pcs, ghosts, failures
    <2> QED
      BY <1>0, <2>1, <2>2, <2>3, <2>4 DEF ToVerify
  <1>1. ASSUME NEW p \in Callers, StartLoop(p) \/ Attach(p)
        PROVE  Goal
    <2>1. p \in Procs /\ pc[p] # "idle" /\ UNCHANGED <<meta, completed>>
      BY <1>1 DEF StartLoop, Attach, Callers, Procs, ghosts, failures
    <2>2. \/ Return(p)
          \/ \E g \in Goroutines, step \in {"run", "exit", "stream"} : Spawn(p, g, step)
      BY <1>1 DEF StartLoop, Attach
    <2> QED
      BY <2>1, <2>2, ReturnCopies, SpawnCopies, CopiesKept
  <1>2. ASSUME NEW g \in Goroutines, GoroutineStep(g)
        PROVE  Goal
    <2>0. g \in Procs
      BY DEF Procs
    <2>1. CASE EventCompleted(g)
      BY <2>1, ChainEventCompleted
    <2>2. CASE PreviousResponseNotFound(g) \/ EventCreated(g) \/ StreamEnd(g)
      BY <2>2, ChainCreated, CopiesKept
      DEF PreviousResponseNotFound, EventCreated, StreamEnd, ghosts, failures
    <2>3. CASE Exit(g)
      <3>1. buf'[g].latest = 0
        BY <2>0, <2>3 DEF Exit, NoMeta, ChainInv, TypeInv, TypeOK
      <3>2. ASSUME NEW q \in Procs, q # g
            PROVE  CopyKept(q)
        BY <2>3, <3>2 DEF Exit, Goto, ChainInv, BufChained, TypeInv, TypeOK, CopyKept
      <3> QED
        BY <2>3, <3>1, <3>2, CopiesKept DEF Exit, ghosts, failures, CopyKept
    <2>4. CASE EventInputRequired(g)
      BY <2>4
      DEF EventInputRequired, procVars, ghosts, failures, ChainInv,
         ChainsOffCompleted, BufChained
    <2>5. CASE \/ RunOnce(g) \/ CreateResponse(g) \/ CallFails(g) \/ TailEnd(g) \/ TailFinish(g)
               \/ SelectDone(g) \/ SelectInput(g) \/ SelectTimeout(g) \/ Finish(g) \/ Fail(g)
      <3>1. UNCHANGED <<meta, completed, att, buf>> /\ \E step \in Pcs \ {"idle"} : Goto(g, step)
        BY <2>5
        DEF RunOnce, CreateResponse, CallFails, TailEnd, TailFinish,
           SelectDone, SelectInput,
           SelectTimeout, Finish, Fail, ghosts, failures, Pcs, GoPcs
      <3> QED
        BY <2>0, <3>1, GotoCopies, CopiesKept
    <2> QED
      BY <1>0, <1>2, <2>0, <2>1, <2>2, <2>3, <2>4, <2>5 DEF GoroutineStep
  <1>3. ASSUME NEW r \in Requests, RequestStep(r)
        PROVE  Goal
    <2>0. r \in Procs /\ r \in Callers
      BY DEF Procs, Callers
    <2>1. CASE SaveNewMeta(r)
      BY <2>1, ChainSaveNewMeta
    <2>2. CASE CreateAttempt(r) \/ SendRoute(r) \/ CancelWrite(r)
      <3>1. pc[r] # "idle" /\ UNCHANGED <<meta, completed>>
        BY <2>2 DEF CreateAttempt, SendRoute, CancelWrite, ghosts, failures
      <3>2. \/ Return(r)
            \/ UNCHANGED <<att, buf>> /\ \E step \in Pcs \ {"idle"} : Goto(r, step)
        BY <2>2 DEF CreateAttempt, SendRoute, CancelWrite, Pcs, ReqPcs
      <3> QED
        BY <2>0, <3>1, <3>2, ReturnCopies, GotoCopies, CopiesKept
    <2> QED
      BY <1>0, <1>1, <1>3, <2>0, <2>1, <2>2 DEF RequestStep
  <1>4. ASSUME NEW r \in Requests, NEW a \in Attempts, Request(r, a)
        PROVE  Goal
    <2>1. /\ r \in Procs /\ meta[a] \in Meta
          /\ UNCHANGED <<meta, completed>>
          /\ pc[r] = "idle" /\ att' = [att EXCEPT ![r] = a]
          /\ \E step \in Pcs \ {"idle"} : Goto(r, step)
      BY <1>4
      DEF Request, Start, Send, Cancel, TryReconnect, Accept, Pcs,
         ReqPcs, ghosts, failures, Procs,
         ChainInv, TypeInv, TypeOK
    <2>2. CASE buf' = buf
      BY <2>1, <2>2, ReadCopies, CopiesKept
    <2>3. CASE buf' # buf
      <3>1. \/ buf' = [buf EXCEPT ![r] = [meta[a] EXCEPT !.count = 0]]
            \/ buf' = [buf EXCEPT ![r] = meta[a]]
        BY <1>4, <2>3 DEF Request, Start, Send, Cancel, TryReconnect
      <3>2. /\ buf'[r].latest \in {0, meta[a].latest}
            /\ \A q \in Procs \ {r} : buf'[q] = buf[q]
        BY <2>1, <3>1, LatestEdits DEF ChainInv, TypeInv, TypeOK
      <3> QED
        BY <2>1, <3>2, ReadCopies, CopiesKept
    <2> QED
      BY <2>2, <2>3
  <1>5. ASSUME ResumerStep
        PROVE  Goal
    <2>0. Resumer \in Procs /\ Resumer \in Callers
      BY DEF Procs, Callers
    <2>1. ASSUME NEW a \in Attempts, Retry(a)
          PROVE  Goal
      <3>1. /\ buf'[Resumer].latest \in {0, meta[a].latest}
            /\ \A q \in Procs \ {Resumer} : buf'[q] = buf[q]
        BY <2>0, <2>1, LatestEdits DEF Retry, ChainInv, TypeInv, TypeOK
      <3> QED
        BY <2>0, <2>1, <3>1, ReadCopies, CopiesKept DEF Retry, Pcs, ghosts, failures
    <2>2. ASSUME NEW a \in Attempts, Skip(a)
          PROVE  Goal
      BY <2>2 DEF Skip, procVars, ghosts, failures, ChainInv, ChainsOffCompleted, BufChained
    <2> QED
      BY <1>0, <1>1, <1>5, <2>0, <2>1, <2>2 DEF ResumerStep
  <1>6. ASSUME BootStep
        PROVE  Goal
    <2>0. Boot \in Procs /\ Boot \in Callers
      BY DEF Procs, Callers
    <2>1. ASSUME NEW a \in Attempts, BootAttach(a)
          PROVE  Goal
      <3>1. /\ buf'[Boot].latest \in {0, meta[a].latest}
            /\ \A q \in Procs \ {Boot} : buf'[q] = buf[q]
        BY <2>0, <2>1 DEF BootAttach, ChainInv, TypeInv, TypeOK
      <3> QED
        BY <2>0, <2>1, <3>1, ReadCopies, CopiesKept DEF BootAttach, Pcs, ReqPcs, ghosts, failures
    <2>2. ASSUME NEW a \in Attempts, BootFail(a)
          PROVE  Goal
      BY <2>0, <2>2, ReadCopies, CopiesKept DEF BootFail, Pcs, ghosts, failures
    <2>3. CASE Serve \/ \E a \in Attempts : BootSkip(a)
      BY <2>3 DEF Serve, BootSkip, procVars, ghosts, ChainInv, ChainsOffCompleted, BufChained
    <2> QED
      BY <1>0, <1>1, <1>6, <2>0, <2>1, <2>2, <2>3, ChainBootContinue DEF BootStep
  <1>7. CASE Tick \/ Crash \/ (\E r \in Requests : ClientGone(r)) \/ UNCHANGED vars
    <2>1. UNCHANGED <<meta, completed>>
      BY <1>7 DEF Tick, Crash, ClientGone, vars, ghosts, failures
    <2>2. \A p \in Procs : CopyKept(p)
      <3>1. CASE Crash
        BY <3>1 DEF Crash, NoMeta, CopyKept
      <3>2. CASE UNCHANGED procVars
        BY <3>2 DEF procVars, ChainInv, BufChained, CopyKept
      <3> QED
        BY <1>7, <3>1, <3>2 DEF Tick, ClientGone, vars
    <2> QED
      BY <2>1, <2>2, CopiesKept
  <1> QED
    BY <1>2, <1>3, <1>4, <1>5, <1>6, <1>7 DEF Next

(* A turn that was cancelled or broke off never becomes the response a     *)
(* later turn chains to, however stale the copies of meta.json that are    *)
(* written back.                                                           *)
THEOREM ChainCorrect == Spec => []ChainsOffCompleted
  <1>1. Init => ChainInv
    <2>1. NoMeta.latest = 0 /\ NewMeta.latest = 0
      BY DEF NoMeta, NewMeta
    <2> QED
      BY <2>1, TypeInit DEF Init, ChainInv, ChainsOffCompleted, BufChained
  <1>2. ChainInv /\ [Next]_vars => ChainInv'
    BY TypeNext, ChainNext DEF ChainInv
  <1>3. ChainInv => ChainsOffCompleted
    BY DEF ChainInv
  <1> QED
    BY <1>1, <1>2, <1>3, PTL DEF Spec

-----------------------------------------------------------------------------
(* Waiting for the user. A goroutine about to settle its attempt has seen  *)
(* it not waiting; only the stream of the same goroutine could change      *)
(* that, because no other goroutine drives the attempt.                    *)
SettlesNoWaiting ==
    \A g \in Goroutines :
        pc[g] \in {"finish", "tailFinish"} => state[att[g]] # "needs_input"

WaitInv == TypeInv /\ ActiveIsLive /\ SettlesNoWaiting

(* A step that neither starts to settle an attempt nor makes one wait.     *)
LEMMA NotWaitingKept ==
    ASSUME SettlesNoWaiting,
           \A g \in Goroutines : pc'[g] \in {"finish", "tailFinish"} => pc'[g] = pc[g] /\ att'[g] = att[g],
           \A a \in Attempts : state'[a] = "needs_input" => state[a] = "needs_input",
           Working
    PROVE  SettlesNoWaiting'
  BY DEF SettlesNoWaiting, Working, Procs

(* input_required comes on the stream of the only goroutine there is.      *)
LEMMA SettlesInputRequired ==
    ASSUME WaitInv, NEW g \in Goroutines, EventInputRequired(g)
    PROVE  SettlesNoWaiting'
  <1>1. /\ pc[g] = "stream" /\ att[g] \in Attempts /\ UNCHANGED <<pc, att>>
        /\ state' = [state EXCEPT ![att[g]] = "needs_input"]
    BY DEF EventInputRequired, SetState, procVars, WaitInv, TypeInv, Working, Procs
  <1>2. ASSUME NEW h \in Goroutines, pc[h] \in {"finish", "tailFinish"}
        PROVE  state'[att[h]] # "needs_input"
    <2>1. att[h] \in Attempts /\ att[h] # att[g]
      BY <1>1, <1>2 DEF WaitInv, ActiveIsLive, Live
    <2> QED
      BY <1>1, <1>2, <2>1 DEF WaitInv, SettlesNoWaiting, TypeInv, TypeOK
  <1> QED
    BY <1>1, <1>2 DEF SettlesNoWaiting

(* The idle timeout and the end of a tail look before they settle.         *)
LEMMA SettlesTimeout ==
    ASSUME WaitInv, NEW g \in Goroutines, SelectTimeout(g) \/ TailEnd(g)
    PROVE  SettlesNoWaiting'
  <1>1. /\ UNCHANGED <<state, att>> /\ \A h \in Goroutines \ {g} : pc'[h] = pc[h]
    BY DEF SelectTimeout, TailEnd, Goto, rows, WaitInv, TypeInv, TypeOK, Procs
  <1>2. pc'[g] \in {"finish", "tailFinish"} => state[att[g]] # "needs_input"
    BY DEF SelectTimeout, TailEnd, Patient, Goto, WaitInv, TypeInv, TypeOK, Procs
  <1> QED
    BY <1>1, <1>2 DEF WaitInv, SettlesNoWaiting

(* No step of a goroutine breaks it, ...                                   *)
LEMMA SettlesGoroutine ==
    ASSUME WaitInv, NEW g \in Goroutines, GoroutineStep(g)
    PROVE  SettlesNoWaiting'
  <1>0. g \in Procs
    BY DEF Procs
  <1>1. CASE EventInputRequired(g) \/ SelectTimeout(g) \/ TailEnd(g)
    BY <1>1, SettlesInputRequired, SettlesTimeout
  <1>2. CASE ~(EventInputRequired(g) \/ SelectTimeout(g) \/ TailEnd(g))
    <2>1. \A h \in Goroutines \ {g} : pc'[h] = pc[h] /\ att'[h] = att[h]
      BY <1>0, <1>2
      DEF GoroutineStep, RunOnce, CreateResponse,
         PreviousResponseNotFound, CallFails,
         EventCreated, EventCompleted, StreamEnd, TailFinish, SelectDone, SelectInput, Finish, Fail, Exit,
         SaveMeta, Advance, ToVerify, Return, Goto, Home, WaitInv, TypeInv, TypeOK, Procs
    <2>2. pc'[g] \notin {"finish", "tailFinish"}
      <3>1. CASE SaveMeta(g)
        BY <1>0, <3>1 DEF SaveMeta, SaveSteps, AfterSave, Goto, WaitInv, TypeInv, TypeOK
      <3>2. CASE ~SaveMeta(g)
        BY <1>0, <1>2, <3>2
        DEF GoroutineStep, RunOnce, CreateResponse,
           PreviousResponseNotFound,
           CallFails, EventCreated, EventCompleted, StreamEnd, TailFinish, SelectDone, SelectInput, Finish, Fail,
           Exit, Advance, ToVerify, Return, Goto, Home, WaitInv, TypeInv, TypeOK
      <3> QED
        BY <3>1, <3>2
    <2>3. \A a \in Attempts : state'[a] = "needs_input" => state[a] = "needs_input"
      BY <1>0, <1>2
      DEF GoroutineStep, RunOnce, CreateResponse,
         PreviousResponseNotFound, CallFails,
         EventCreated, EventCompleted, StreamEnd, TailFinish, SelectDone, SelectInput, Finish, Fail, Exit,
         SaveMeta, Advance, ToVerify, SetState, TrySetState, WaitInv, TypeInv, TypeOK, TailSettles, rows
    <2> QED
      BY <2>1, <2>2, <2>3 DEF WaitInv, SettlesNoWaiting, TypeInv, Working, Procs
  <1> QED
    BY <1>1, <1>2

(* Handlers, the Resumer and the boot code settle nothing at this point    *)
(* and make no attempt wait.                                               *)
LEMMA SettlesOthers ==
    ASSUME WaitInv, NEW p \in Callers,
           \/ StartLoop(p) \/ Attach(p) \/ Advance(p) \/ ToVerify(p) \/ ToExecute(p) \/ SaveMeta(p)
           \/ p \in Requests /\ (CreateAttempt(p) \/ SaveNewMeta(p) \/ SendRoute(p) \/ CancelWrite(p))
    PROVE  SettlesNoWaiting'
  <1>0. p \in Procs /\ p \notin Goroutines
    BY ProcessesAssumption DEF Callers, Procs
  <1>1. \A a \in Attempts : state'[a] = "needs_input" => state[a] = "needs_input"
    BY <1>0
    DEF StartLoop, Attach, Advance, ToVerify, ToExecute, SaveMeta,
       CreateAttempt, SaveNewMeta,
       SendRoute, CancelWrite, SetState, WaitInv, TypeInv, TypeOK, rows
  <1>2. CASE \E g \in Goroutines, step \in {"run", "exit", "stream"} : Spawn(p, g, step)
    <2>1. PICK g \in Goroutines, step \in {"run", "exit", "stream"} : Spawn(p, g, step)
      BY <1>2
    <2>2. \A h \in Goroutines : pc'[h] \in {"finish", "tailFinish"} => pc'[h] = pc[h] /\ att'[h] = att[h]
      BY <1>0, <2>1 DEF Spawn, WaitInv, TypeInv, TypeOK, Procs
    <2> QED
      BY <1>1, <2>2, NotWaitingKept DEF WaitInv, TypeInv
  <1>3. CASE ~ \E g \in Goroutines, step \in {"run", "exit", "stream"} : Spawn(p, g, step)
    <2>1. \A h \in Goroutines : pc'[h] = pc[h] /\ att'[h] = att[h]
      BY <1>0, <1>3
      DEF StartLoop, Attach, Advance, ToVerify, ToExecute, SaveMeta,
         CreateAttempt, SaveNewMeta,
         SendRoute, CancelWrite, Return, Goto, WaitInv, TypeInv, TypeOK, Procs
    <2> QED
      BY <1>1, <2>1, NotWaitingKept DEF WaitInv, TypeInv
  <1> QED
    BY <1>2, <1>3

(* Every step keeps SettlesNoWaiting.                                      *)
LEMMA SettlesNext ==
    ASSUME WaitInv, [Next]_vars
    PROVE  SettlesNoWaiting'
  <1>1. ASSUME NEW r \in Requests, RequestStep(r)
        PROVE  SettlesNoWaiting'
    BY <1>1, SettlesOthers DEF RequestStep, Callers
  <1>2. ASSUME NEW r \in Requests, NEW a \in Attempts, Request(r, a)
        PROVE  SettlesNoWaiting'
    <2>1. UNCHANGED state /\ \E step \in Pcs : Accept(r, a, step)
      BY <1>2 DEF Request, Start, Send, Cancel, TryReconnect, Pcs, ReqPcs, rows
    <2>2. \A g \in Goroutines : pc'[g] = pc[g] /\ att'[g] = att[g]
      BY <2>1, ProcessesAssumption DEF Accept, Goto, WaitInv, TypeInv, TypeOK, Procs
    <2> QED
      BY <2>1, <2>2, NotWaitingKept DEF WaitInv, TypeInv
  <1>3. ASSUME NEW a \in Attempts,
               Retry(a) \/ BootAttach(a) \/ BootContinue(a) \/ BootFail(a)
        PROVE  SettlesNoWaiting'
    <2>1. \A g \in Goroutines : pc'[g] = pc[g] /\ att'[g] = att[g]
      BY <1>3, ProcessesAssumption DEF Retry, BootAttach, BootContinue, BootFail, Goto,
         WaitInv, TypeInv, TypeOK, Procs
    <2>2. \A b \in Attempts : state'[b] = "needs_input" => state[b] = "needs_input"
      BY <1>3
      DEF Retry, BootAttach, BootContinue, BootFail, SetState, WaitInv,
         TypeInv, TypeOK, rows
    <2> QED
      BY <2>1, <2>2, NotWaitingKept DEF WaitInv, TypeInv
  <1>4. ASSUME \/ Tick \/ Serve \/ (\E a \in Attempts : Skip(a) \/ BootSkip(a))
               \/ (\E r \in Requests : ClientGone(r)) \/ UNCHANGED vars
        PROVE  SettlesNoWaiting'
    <2>1. UNCHANGED <<pc, att, state>>
      BY <1>4 DEF Tick, Serve, Skip, BootSkip, ClientGone, vars, rows, procVars
    <2> QED
      BY <2>1 DEF WaitInv, SettlesNoWaiting
  <1>5. CASE ResumerStep
    BY <1>3, <1>4, <1>5, SettlesOthers DEF ResumerStep, Callers
  <1>6. CASE BootStep
    BY <1>3, <1>4, <1>6, SettlesOthers DEF BootStep, Callers
  <1>7. CASE Crash
    BY <1>7 DEF Crash, SettlesNoWaiting, Procs
  <1> QED
    BY <1>1, <1>2, <1>4, <1>5, <1>6, <1>7, SettlesGoroutine DEF Next

(* The steps that complete an attempt: the loop's, the tail's and Cancel's.*)
LEMMA CompletedByUser ==
    ASSUME WaitInv, [Next]_vars, NEW a \in Attempts,
           state[a] = "needs_input", state'[a] = "completed"
    PROVE  \E r \in Requests : att[r] = a /\ pc[r] = "cancelWrite"
  <1>1. ASSUME NEW g \in Goroutines, GoroutineStep(g)
        PROVE  FALSE
    <2>1. CASE Finish(g) \/ TailFinish(g)
      BY <2>1 DEF Finish, TailFinish, SetState, TrySetState, WaitInv, SettlesNoWaiting, TypeInv, TypeOK
    <2>2. CASE ~(Finish(g) \/ TailFinish(g))
      BY <1>1, <2>2
      DEF GoroutineStep, RunOnce, CreateResponse,
         PreviousResponseNotFound, CallFails,
         EventCreated, EventInputRequired, EventCompleted, StreamEnd, TailEnd, SelectDone, SelectInput,
         SelectTimeout, Fail, Exit, SaveMeta, Advance, ToVerify, SetState, TrySetState, rows,
         WaitInv, TypeInv, TypeOK
    <2> QED
      BY <2>1, <2>2
  <1>2. ASSUME NEW r \in Requests, RequestStep(r)
        PROVE  att[r] = a /\ pc[r] = "cancelWrite"
    BY <1>2
    DEF RequestStep, CreateAttempt, SaveNewMeta, SendRoute, CancelWrite,
       SaveMeta, ToExecute, StartLoop,
       Attach, Advance, ToVerify, SetState, rows, WaitInv, TypeInv, TypeOK
  <1>3. CASE \E r \in Requests, b \in Attempts : Request(r, b)
    BY <1>3 DEF Request, Start, Send, Cancel, TryReconnect, rows
  <1>4. CASE Tick \/ ResumerStep \/ BootStep \/ Crash \/ (\E r \in Requests : ClientGone(r)) \/ UNCHANGED vars
    BY <1>4
    DEF Tick, ResumerStep, Retry, Skip, BootStep, BootSkip, BootAttach, BootContinue,
       BootFail, Serve, Crash,
       ClientGone, StartLoop, Attach, Advance, ToVerify, SaveMeta, SetState, vars, rows, WaitInv, TypeInv, TypeOK
  <1> QED
    BY <1>1, <1>2, <1>3, <1>4 DEF Next

(* An attempt that waits for the user is completed only by a handler that  *)
(* carries out the user's stop.                                            *)
THEOREM NeedsInputCorrect == Spec => NeedsInputKept
  <1>1. Init => WaitInv
    BY TypeInit DEF Init, WaitInv, ActiveIsLive, Live, SettlesNoWaiting, Procs
  <1>2. WaitInv /\ [Next]_vars => WaitInv'
    BY TypeNext, ActiveNext, SettlesNext DEF WaitInv
  <1>3. WaitInv /\ [Next]_vars =>
            [\A a \in Attempts :
                state[a] = "needs_input" /\ state'[a] = "completed" =>
                    \E r \in Requests : att[r] = a /\ pc[r] = "cancelWrite"]_vars
    BY CompletedByUser
  <1> QED
    BY <1>1, <1>2, <1>3, PTL DEF Spec, NeedsInputKept

-----------------------------------------------------------------------------
(* Booting. ResumeOrphans visits the attempts the crash caught while the   *)
(* goroutines it has started already run, and end. What it has visited has *)
(* a goroutine, or is settled, or its broken turn is on record.            *)
Caught == {"queued", "running"}

Adopting(a) == att[Boot] = a /\ pc[Boot] \in {"attach", "startLoop"}

Cared(a) ==
    \/ a \in todo
    \/ active[a] # NoGoroutine
    \/ meta[a].reason = "abnormal"
    \/ Adopting(a)
    \/ a \in missed

(* A goroutine that works has a meta.json to write to; one that leaves has *)
(* settled its attempt, or written down that the turn broke off, unless a  *)
(* read or write of the attempt failed.                                    *)
LeavesInOrder(g) ==
    /\ pc[g] \notin {"idle", "advance", "toVerify", "exit"} => meta[att[g]].has
    /\ pc[g] \in SaveSteps => buf[g].has
    /\ pc[g] \in {"advance", "toVerify"} => state[att[g]] \notin Caught \/ att[g] \in missed
    /\ pc[g] = "exit" =>
           state[att[g]] \notin Caught \/ meta[att[g]].reason = "abnormal" \/ att[g] \in missed

Booting ==
    /\ \A p \in Procs : ~cancelled[p]
    /\ \A p \in Requests \cup {Resumer} : pc[p] = "idle"
    /\ pc[Boot] \in {"idle", "attach", "startLoop", "advance", "toVerify"}
    /\ pc[Boot] \in {"attach", "startLoop"} => meta[att[Boot]].has
    /\ \A g \in Goroutines : LeavesInOrder(g)
    /\ \A a \in Attempts : state[a] \in Caught => Cared(a)

(* A run is on record only in a file that exists.                          *)
RunRecorded == \A a \in Attempts : meta[a].run # 0 => meta[a].has

OrphanInv ==
    /\ TypeInv /\ ActiveIsLive
    /\ RunRecorded
    /\ up = "booting" => Booting

(* Only a crash begins to boot, and only Serve ends it.                    *)
LEMMA UpKept ==
    ASSUME [Next]_vars
    PROVE  up' = up \/ Crash \/ Serve
  <1>1. ASSUME NEW g \in Goroutines, GoroutineStep(g)
        PROVE  up' = up
    BY <1>1
    DEF GoroutineStep, RunOnce, CreateResponse, PreviousResponseNotFound, CallFails,
       EventCreated, EventInputRequired, EventCompleted, StreamEnd, TailEnd, TailFinish,
       SelectDone, SelectInput, SelectTimeout, Finish, Fail, Exit, SaveMeta, Advance, ToVerify
  <1>2. ASSUME NEW r \in Requests, RequestStep(r) \/ ClientGone(r)
        PROVE  up' = up
    BY <1>2
    DEF RequestStep, ClientGone, CreateAttempt, SaveNewMeta, SendRoute, CancelWrite, SaveMeta,
       ToExecute, StartLoop, Attach, Advance, ToVerify
  <1>3. ASSUME NEW r \in Requests, NEW a \in Attempts, Request(r, a)
        PROVE  up' = up
    BY <1>3 DEF Request, Start, Send, Cancel, TryReconnect
  <1>4. CASE Tick \/ ResumerStep
    BY <1>4 DEF Tick, ResumerStep, Retry, Skip, SaveMeta, StartLoop
  <1>5. CASE BootStep
    BY <1>5
    DEF BootStep, BootSkip, BootAttach, BootContinue, BootFail, Attach, StartLoop, Advance, ToVerify
  <1>6. CASE UNCHANGED vars
    BY <1>6 DEF vars
  <1> QED
    BY <1>1, <1>2, <1>3, <1>4, <1>5, <1>6 DEF Next

(* Every write of meta.json writes a whole file.                           *)
LEMMA RecordKept ==
    ASSUME TypeInv, RunRecorded, [Next]_vars
    PROVE  RunRecorded'
  <1>1. ASSUME UNCHANGED meta
        PROVE  RunRecorded'
    BY <1>1 DEF RunRecorded
  <1>2. ASSUME NEW p \in Procs, SaveMeta(p)
        PROVE  RunRecorded'
    <2>1. att[p] \in Attempts
      BY <1>2 DEF SaveMeta, SaveSteps, TypeInv, Working
    <2>2. meta' = meta \/ (buf[p].has /\ meta' = [meta EXCEPT ![att[p]] = buf[p]])
      BY <1>2 DEF SaveMeta
    <2> QED
      BY <2>1, <2>2 DEF RunRecorded, TypeInv, TypeOK
  <1>3. ASSUME NEW r \in Requests, SaveNewMeta(r)
        PROVE  RunRecorded'
    <2>1. NewMeta.run = 0
      BY DEF NewMeta, NoMeta
    <2>2. meta' = meta \/ meta' = [meta EXCEPT ![att[r]] = NewMeta]
      BY <1>3 DEF SaveNewMeta
    <2> QED
      BY <2>1, <2>2 DEF RunRecorded, TypeInv, TypeOK
  <1>4. ASSUME NEW a \in Attempts, BootContinue(a)
        PROVE  RunRecorded'
    <2>1. CASE meta' = meta
      BY <1>1, <2>1
    <2>2. CASE meta' # meta
      <3> DEFINE m == [meta[a] EXCEPT !.count = @ + 1, !.reason = "abnormal", !.run = 0]
      <3>1. meta' = [meta EXCEPT ![a] = m]
        BY <1>4, <2>2 DEF BootContinue
      <3>2. m.run = 0
        BY DEF TypeInv, TypeOK, Meta
      <3> HIDE DEF m
      <3> QED
        BY <3>1, <3>2 DEF RunRecorded, TypeInv, TypeOK
    <2> QED
      BY <2>1, <2>2
  <1>5. ASSUME NEW g \in Goroutines, GoroutineStep(g)
        PROVE  RunRecorded'
    <2>1. UNCHANGED meta \/ SaveMeta(g)
      BY <1>5
      DEF GoroutineStep, RunOnce, CreateResponse, PreviousResponseNotFound, CallFails,
         EventCreated, EventInputRequired, EventCompleted, StreamEnd, TailEnd, TailFinish,
         SelectDone, SelectInput, SelectTimeout, Finish, Fail, Exit, Advance, ToVerify
    <2> QED
      BY <1>1, <1>2, <2>1 DEF Procs
  <1>6. ASSUME NEW r \in Requests, RequestStep(r) \/ ClientGone(r)
        PROVE  RunRecorded'
    <2>1. UNCHANGED meta \/ SaveMeta(r) \/ SaveNewMeta(r)
      BY <1>6
      DEF RequestStep, ClientGone, CreateAttempt, SendRoute, CancelWrite,
         ToExecute, StartLoop, Attach, Advance, ToVerify
    <2> QED
      BY <1>1, <1>2, <1>3, <2>1 DEF Procs
  <1>7. ASSUME NEW r \in Requests, NEW a \in Attempts, Request(r, a)
        PROVE  RunRecorded'
    BY <1>1, <1>7 DEF Request, Start, Send, Cancel, TryReconnect
  <1>8. CASE Tick \/ ResumerStep
    <2>1. UNCHANGED meta \/ SaveMeta(Resumer)
      BY <1>8 DEF Tick, ResumerStep, Retry, Skip, StartLoop
    <2> QED
      BY <1>1, <1>2, <2>1 DEF Procs
  <1>9. CASE BootStep \/ Crash \/ UNCHANGED vars
    <2>1. UNCHANGED meta \/ \E a \in Attempts : BootContinue(a)
      BY <1>9 DEF BootStep, BootSkip, BootAttach, BootFail, Serve, Attach, StartLoop, Advance,
         ToVerify, Crash, vars
    <2> QED
      BY <1>1, <1>4, <2>1
  <1> QED
    BY <1>5, <1>6, <1>7, <1>8, <1>9 DEF Next

(* While the server boots, a goroutine changes its own attempt only.       *)
LEMMA GoroutineAlone ==
    ASSUME OrphanInv, up = "booting", NEW g \in Goroutines, GoroutineStep(g)
    PROVE  /\ \A p \in Procs \ {g} : pc'[p] = pc[p] /\ att'[p] = att[p] /\ buf'[p] = buf[p]
           /\ \A p \in Procs : ~cancelled'[p]
           /\ \A a \in Attempts \ {att[g]} :
                  state'[a] = state[a] /\ meta'[a] = meta[a] /\ active'[a] = active[a]
           /\ todo' = todo /\ missed \subseteq missed'
           /\ Exit(g) \/ UNCHANGED <<active, att>>
           /\ att[g] \in Attempts /\ (meta[att[g]].has => meta'[att[g]].has)
  <1>0. g \in Procs /\ pc[g] # "idle" /\ att[g] \in Attempts /\ TypeOK /\ TailSettles
    <2>1. g \in Procs /\ pc[g] # "idle"
      BY
      DEF Procs, GoroutineStep, RunOnce, CreateResponse, PreviousResponseNotFound, CallFails,
         EventCreated, EventInputRequired, EventCompleted, StreamEnd, TailEnd, TailFinish,
         SelectDone, SelectInput, SelectTimeout, Finish, Fail, Exit, SaveMeta, SaveSteps, Advance,
         ToVerify
    <2> QED
      BY <2>1 DEF OrphanInv, TypeInv, Working
  <1>1. \A p \in Procs \ {g} : pc'[p] = pc[p] /\ att'[p] = att[p] /\ buf'[p] = buf[p]
    <2>1. CASE Advance(g) \/ ToVerify(g) \/ SaveMeta(g) \/ Exit(g)
      BY <1>0, <2>1 DEF Advance, ToVerify, SaveMeta, Exit, Return, Goto, TypeOK
    <2>2. CASE ~(Advance(g) \/ ToVerify(g) \/ SaveMeta(g) \/ Exit(g))
      BY <1>0, <2>2
      DEF GoroutineStep, RunOnce, CreateResponse, PreviousResponseNotFound, CallFails,
         EventCreated, EventInputRequired, EventCompleted, StreamEnd, TailEnd, TailFinish,
         SelectDone, SelectInput, SelectTimeout, Finish, Fail, Goto, TypeOK, procVars
    <2> QED
      BY <2>1, <2>2
  <1>2. cancelled' = cancelled \/ cancelled' = [cancelled EXCEPT ![g] = FALSE]
    BY
    DEF GoroutineStep, RunOnce, CreateResponse, PreviousResponseNotFound, CallFails,
       EventCreated, EventInputRequired, EventCompleted, StreamEnd, TailEnd, TailFinish,
       SelectDone, SelectInput, SelectTimeout, Finish, Fail, Exit, SaveMeta, Advance, ToVerify,
       Return, loopVars
  <1>3. \A p \in Procs : ~cancelled'[p]
    BY <1>0, <1>2 DEF OrphanInv, Booting, TypeOK
  <1>4. /\ \A a \in Attempts \ {att[g]} : state'[a] = state[a]
        /\ UNCHANGED <<meta, active, todo, att>> \/ Exit(g) \/ SaveMeta(g) \/ Advance(g) \/ ToVerify(g)
    BY <1>0
    DEF GoroutineStep, RunOnce, CreateResponse, PreviousResponseNotFound, CallFails,
       EventCreated, EventInputRequired, EventCompleted, StreamEnd, TailEnd, TailFinish,
       SelectDone, SelectInput, SelectTimeout, Finish, Fail, Exit, SaveMeta, Advance, ToVerify,
       SetState, TrySetState, TypeOK, rows, procVars
  <1>a. missed \subseteq missed'
    BY
    DEF GoroutineStep, RunOnce, CreateResponse, PreviousResponseNotFound, CallFails,
       EventCreated, EventInputRequired, EventCompleted, StreamEnd, TailEnd, TailFinish,
       SelectDone, SelectInput, SelectTimeout, Finish, Fail, Exit, SaveMeta, Advance, ToVerify,
       TrySetState, Miss, Lapse, failures
  <1>5. CASE Exit(g)
    BY <1>0, <1>1, <1>3, <1>4, <1>a, <1>5 DEF Exit, TypeOK
  <1>6. CASE SaveMeta(g)
    <2>1. meta' = meta \/ (buf[g].has /\ meta' = [meta EXCEPT ![att[g]] = buf[g]])
      BY <1>6 DEF SaveMeta
    <2>2. UNCHANGED <<active, todo, att>>
      BY <1>6 DEF SaveMeta
    <2> QED
      BY <1>0, <1>1, <1>3, <1>4, <1>a, <2>1, <2>2 DEF TypeOK
  <1>7. CASE Advance(g) \/ ToVerify(g)
    <2>1. UNCHANGED <<meta, active, todo, att>>
      BY <1>7 DEF Advance, ToVerify, Return
    <2> QED
      BY <1>0, <1>1, <1>3, <1>4, <1>a, <2>1
  <1> QED
    BY <1>0, <1>1, <1>3, <1>4, <1>a, <1>5, <1>6, <1>7

(* Settling the attempt, or failing to, before MaybeAdvanceAfterAttempt.   *)
LEMMA LeavesBySetting ==
    ASSUME TypeOK, up = "booting", NEW g \in Goroutines, g \in Procs, att[g] \in Attempts,
           ~ContextDone(g), NEW s, s \notin Caught, TrySetState(g, att[g], s),
           Goto(g, "advance"), UNCHANGED att
    PROVE  LeavesInOrder(g)'
  <1>1. pc'[g] = "advance" /\ att'[g] = att[g]
    BY DEF Goto, TypeOK
  <1>2. state'[att[g]] \notin Caught \/ att[g] \in missed'
    BY DEF TrySetState, SetState, Miss, TypeOK
  <1> QED
    BY <1>1, <1>2 DEF LeavesInOrder, SaveSteps

(* The goroutine itself leaves in order.                                   *)
LEMMA GoroutineLeaves ==
    ASSUME OrphanInv, up = "booting", NEW g \in Goroutines, GoroutineStep(g)
    PROVE  LeavesInOrder(g)'
  <1>0. /\ g \in Procs /\ TypeOK /\ TailSettles /\ ~cancelled[g] /\ ~ContextDone(g)
        /\ LeavesInOrder(g)
        /\ pc[g] # "idle" => att[g] \in Attempts
    BY DEF Procs, OrphanInv, TypeInv, Booting, ContextDone, Working
  <1>1. CASE RunOnce(g) \/ CreateResponse(g) \/ CallFails(g)
    BY <1>0, <1>1
    DEF RunOnce, CreateResponse, CallFails, LeavesInOrder, SaveSteps, Goto, TypeOK
  <1>2. CASE PreviousResponseNotFound(g) \/ EventCreated(g)
    <2>1. /\ att' = att /\ meta' = meta
          /\ pc'[g] \in {"saveCold", "saveEvent"}
          /\ meta[att[g]].has /\ meta[att[g]] \in Meta
          /\ \/ buf'[g] = [meta[att[g]] EXCEPT !.latest = 0]
             \/ buf'[g] = [meta[att[g]] EXCEPT !.run = run[g]]
      BY <1>0, <1>2 DEF PreviousResponseNotFound, EventCreated, Created, Goto, TypeOK
    <2>2. buf'[g].has
      BY <2>1 DEF Meta
    <2> QED
      BY <2>1, <2>2 DEF LeavesInOrder
  <1>3. CASE EventInputRequired(g)
    BY <1>0, <1>3 DEF EventInputRequired, LeavesInOrder, SaveSteps, SetState, Caught, procVars, TypeOK
  <1>4. CASE EventCompleted(g)
    <2>1. CASE meta[att[g]].has
      <3>1. /\ att' = att /\ meta' = meta /\ pc'[g] = "saveEvent" /\ meta[att[g]] \in Meta
            /\ buf'[g] = [meta[att[g]] EXCEPT !.latest = run[g]]
        BY <1>0, <1>4, <2>1 DEF EventCompleted, Goto, TypeOK
      <3>2. buf'[g].has
        BY <2>1, <3>1 DEF Meta
      <3> QED
        BY <2>1, <3>1, <3>2 DEF LeavesInOrder
    <2>2. CASE ~meta[att[g]].has
      BY <1>0, <1>4, <2>2 DEF EventCompleted, LeavesInOrder
    <2> QED
      BY <2>1, <2>2
  <1>5. CASE StreamEnd(g)
    <2>1. /\ att' = att /\ meta' = meta /\ pc'[g] = "saveEnd" /\ pc[g] = "stream"
          /\ meta[att[g]] \in Meta /\ meta[att[g]].has
      BY <1>0, <1>5 DEF StreamEnd, Goto, TypeOK, LeavesInOrder
    <2>2. PICK reason \in Reasons :
              buf' = [buf EXCEPT ![g] =
                         [meta[att[g]] EXCEPT !.run = 0, !.reason = reason,
                                              !.count = IF reason = "completed" THEN 0 ELSE @]]
      <3>1. PICK err \in BOOLEAN :
               LET reason == CASE cancelled[g]      -> "cancelled"
                               [] ~err /\ saw[g]    -> "completed"
                               [] OTHER             -> "abnormal"
               IN  buf' = [buf EXCEPT ![g] =
                       [meta[att[g]] EXCEPT !.run = 0, !.reason = reason,
                                            !.count = IF reason = "completed" THEN 0 ELSE @]]
        BY <1>5 DEF StreamEnd
      <3> DEFINE reason == CASE cancelled[g]      -> "cancelled"
                             [] ~err /\ saw[g]    -> "completed"
                             [] OTHER             -> "abnormal"
      <3>2. reason \in Reasons
        BY DEF Reasons
      <3> HIDE DEF reason
      <3> QED
        BY <3>1, <3>2 DEF reason
    <2> DEFINE m == [meta[att[g]] EXCEPT !.run = 0, !.reason = reason,
                                         !.count = IF reason = "completed" THEN 0 ELSE @]
    <2>3. m.has
      BY <2>1 DEF Meta
    <2>4. buf'[g] = m
      BY <1>0, <2>2 DEF TypeOK
    <2> QED
      BY <2>1, <2>3, <2>4 DEF LeavesInOrder
  <1>6. CASE TailEnd(g) \/ TailFinish(g)
    <2>1. CASE TailEnd(g)
      BY <1>0, <2>1
      DEF TailEnd, LeavesInOrder, SaveSteps, Caught, Goto, TypeOK, Miss, rows
    <2>2. CASE TailFinish(g)
      <3>1. pc[g] = "tailFinish" /\ att[g] \in Attempts /\ snap[g] \notin Caught
        BY <1>0, <2>2 DEF TailFinish, TailSettles, Caught
      <3> QED
        BY <1>0, <2>2, <3>1, LeavesBySetting DEF TailFinish
    <2> QED
      BY <1>6, <2>1, <2>2
  <1>7. CASE SelectInput(g) \/ SelectDone(g) \/ SelectTimeout(g)
    BY <1>0, <1>7
    DEF SelectInput, SelectDone, SelectTimeout, Active, Caught, LeavesInOrder, SaveSteps, Goto, TypeOK, rows
  <1>8. CASE Finish(g) \/ Fail(g)
    BY <1>0, <1>8, LeavesBySetting DEF Finish, Fail, Caught
  <1>9. CASE Exit(g)
    BY <1>0, <1>9 DEF Exit, LeavesInOrder, SaveSteps, Goto, TypeOK
  <1>10. CASE SaveMeta(g)
    <2>1. /\ pc[g] \in SaveSteps /\ pc[g] \notin {"idle", "advance", "toVerify", "exit"}
          /\ buf[g].has /\ meta[att[g]].has
          /\ att' = att /\ state' = state /\ att[g] \in Attempts
          /\ pc'[g] \in AfterSave(g)
      BY <1>0, <1>10 DEF SaveMeta, SaveSteps, LeavesInOrder, Goto, TypeOK, rows
    <2>2. /\ pc'[g] \in {"coldCall", "stream", "sendRoute", "startLoop", "select", "fail", "exit"}
          /\ pc'[g] = "exit" => pc[g] = "saveEnd" /\ buf[g].reason = "abnormal"
      BY <2>1 DEF AfterSave, SaveSteps
    <2>3. CASE meta' = [meta EXCEPT ![att[g]] = buf[g]]
      <3>1. meta'[att[g]] = buf[g]
        BY <1>0, <2>1, <2>3 DEF TypeOK
      <3> QED
        BY <2>1, <2>2, <3>1 DEF LeavesInOrder, SaveSteps
    <2>4. CASE meta' = meta /\ (pc[g] = "saveEnd" /\ buf[g].reason = "abnormal" => Miss(att[g]))
      BY <2>1, <2>2, <2>4 DEF LeavesInOrder, SaveSteps, Miss
    <2> QED
      BY <1>10, <2>1, <2>3, <2>4 DEF SaveMeta
  <1>11. CASE Advance(g) \/ ToVerify(g)
    <2>1. /\ att' = att /\ state' = state /\ meta' = meta /\ missed' = missed
          /\ pc[g] \in {"advance", "toVerify"} /\ pc'[g] \in {"toVerify", "exit"}
      BY <1>0, <1>11 DEF Advance, ToVerify, Return, Goto, Home, TypeOK, rows, failures
    <2> QED
      BY <1>0, <2>1 DEF LeavesInOrder, SaveSteps
  <1> QED
    BY <1>1, <1>2, <1>3, <1>4, <1>5, <1>6, <1>7, <1>8, <1>9, <1>10, <1>11 DEF GoroutineStep

(* So a step of a goroutine keeps what has been said of the boot.          *)
LEMMA BootingGoroutine ==
    ASSUME OrphanInv, up = "booting", NEW g \in Goroutines, GoroutineStep(g)
    PROVE  Booting'
  <1>1. /\ \A p \in Procs \ {g} : pc'[p] = pc[p] /\ att'[p] = att[p] /\ buf'[p] = buf[p]
        /\ \A p \in Procs : ~cancelled'[p]
        /\ \A a \in Attempts \ {att[g]} :
               state'[a] = state[a] /\ meta'[a] = meta[a] /\ active'[a] = active[a]
        /\ todo' = todo /\ missed \subseteq missed'
        /\ Exit(g) \/ UNCHANGED <<active, att>>
        /\ att[g] \in Attempts /\ (meta[att[g]].has => meta'[att[g]].has)
    BY GoroutineAlone
  <1>2. Booting /\ ActiveIsLive /\ TypeOK /\ Working
    BY DEF OrphanInv, TypeInv
  <1>3. pc[g] # "idle"
    BY
    DEF GoroutineStep, RunOnce, CreateResponse, PreviousResponseNotFound, CallFails,
       EventCreated, EventInputRequired, EventCompleted, StreamEnd, TailEnd, TailFinish,
       SelectDone, SelectInput, SelectTimeout, Finish, Fail, Exit, SaveMeta, SaveSteps, Advance,
       ToVerify
  <1>4. /\ Boot \in Procs \ {g} /\ Resumer \in Procs \ {g}
        /\ \A r \in Requests : r \in Procs \ {g}
    BY ProcessesAssumption DEF Procs
  <1>5. /\ \A p \in Requests \cup {Resumer} : pc'[p] = "idle"
        /\ pc'[Boot] \in {"idle", "attach", "startLoop", "advance", "toVerify"}
        /\ pc'[Boot] \in {"attach", "startLoop"} => meta'[att'[Boot]].has
    <2>1. pc[Boot] # "idle" => att[Boot] \in Attempts
      BY <1>2, <1>4 DEF Working
    <2> QED
      BY <1>1, <1>2, <1>4, <2>1 DEF Booting
  <1>6. ASSUME NEW h \in Goroutines
        PROVE  LeavesInOrder(h)'
    <2>1. CASE h = g
      BY <2>1, GoroutineLeaves
    <2>2. CASE h # g
      <3>1. pc'[h] = pc[h] /\ att'[h] = att[h] /\ buf'[h] = buf[h] /\ LeavesInOrder(h)
        BY <1>1, <1>2, <2>2 DEF Procs, Booting
      <3>2. CASE pc[h] = "idle"
        BY <3>1, <3>2 DEF LeavesInOrder, SaveSteps
      <3>3. CASE pc[h] # "idle"
        <4>1. att[h] \in Attempts \ {att[g]}
          BY <1>2, <1>3, <2>2, <3>3 DEF ActiveIsLive, Live
        <4>2. state'[att[h]] = state[att[h]] /\ meta'[att[h]] = meta[att[h]]
          BY <1>1, <4>1
        <4> QED
          BY <1>1, <3>1, <4>2 DEF LeavesInOrder
      <3> QED
        BY <3>2, <3>3
    <2> QED
      BY <2>1, <2>2
  <1>7. ASSUME NEW a \in Attempts, state'[a] \in Caught
        PROVE  Cared(a)'
    <2>1. CASE a # att[g]
      <3>1. Cared(a)
        BY <1>1, <1>2, <1>7, <2>1 DEF Booting
      <3> QED
        BY <1>1, <1>4, <2>1, <3>1 DEF Cared, Adopting
    <2>2. CASE a = att[g] /\ Exit(g)
      <3>1. pc[g] = "exit" /\ state' = state /\ meta' = meta
        BY <2>2 DEF Exit, rows
      <3>2. meta[att[g]].reason = "abnormal" \/ att[g] \in missed
        BY <1>2, <1>7, <2>2, <3>1 DEF Booting, LeavesInOrder
      <3> QED
        BY <1>1, <2>2, <3>1, <3>2 DEF Cared
    <2>3. CASE a = att[g] /\ ~Exit(g)
      <3>1. active'[a] = g
        BY <1>1, <1>2, <1>3, <2>3 DEF ActiveIsLive, Live
      <3> QED
        BY <3>1, ProcessesAssumption DEF Cared
    <2> QED
      BY <2>1, <2>2, <2>3
  <1> QED
    BY <1>1, <1>5, <1>6, <1>7 DEF Booting

(* The boot code starts a goroutine for the attempt it has read, or finds  *)
(* one that lives.                                                         *)
LEMMA BootingStarts ==
    ASSUME OrphanInv, up = "booting", Attach(Boot) \/ StartLoop(Boot)
    PROVE  Booting'
  <1>0. /\ Booting /\ TypeOK /\ Boot \in Procs /\ Boot \notin Goroutines
        /\ pc[Boot] \in {"attach", "startLoop"} /\ att[Boot] \in Attempts
        /\ meta[att[Boot]].has
        /\ \A p \in Requests \cup {Resumer} : p \in Procs /\ p # Boot /\ p \notin Goroutines
        /\ \A g \in Goroutines : g \in Procs /\ g # Boot
    BY ProcessesAssumption DEF Procs, OrphanInv, TypeInv, Working, Attach, StartLoop, Booting
  <1>1. UNCHANGED <<state, meta, todo>> /\ missed \subseteq missed'
    BY DEF Attach, StartLoop, Miss, rows, failures
  <1>2. CASE IsLive(att[Boot]) /\ Return(Boot) /\ UNCHANGED active
    <2>1. /\ \A p \in Procs \ {Boot} : pc'[p] = pc[p] /\ att'[p] = att[p] /\ buf'[p] = buf[p]
          /\ pc'[Boot] = "idle"
          /\ \A p \in Procs : ~cancelled'[p]
      BY <1>0, <1>2 DEF Return, Goto, Home, TypeOK, Booting
    <2>2. \A g \in Goroutines : LeavesInOrder(g)'
      BY <1>0, <1>1, <2>1 DEF Booting, LeavesInOrder
    <2>3. \A a \in Attempts : state'[a] \in Caught => Cared(a)'
      BY <1>0, <1>1, <1>2 DEF Booting, Cared, Adopting, IsLive
    <2> QED
      BY <1>0, <2>1, <2>2, <2>3 DEF Booting
  <1>3. CASE \E g \in Goroutines, step \in {"run", "exit", "stream"} :
                Spawn(Boot, g, step) /\ (step = "exit" => Miss(att[Boot]))
    <2>1. PICK g \in Goroutines, step \in {"run", "exit", "stream"} :
              Spawn(Boot, g, step) /\ (step = "exit" => Miss(att[Boot]))
      BY <1>3
    <2>2. /\ \A p \in Procs \ {Boot, g} : pc'[p] = pc[p] /\ att'[p] = att[p] /\ buf'[p] = buf[p]
          /\ pc'[Boot] = "idle" /\ pc'[g] = step /\ att'[g] = att[Boot]
          /\ \A p \in Procs : ~cancelled'[p]
          /\ active' = [active EXCEPT ![att[Boot]] = g]
      BY <1>0, <2>1 DEF Spawn, Home, TypeOK, Booting
    <2>3. LeavesInOrder(g)'
      <3>1. step = "exit" => att[Boot] \in missed'
        BY <2>1 DEF Miss
      <3> QED
        BY <1>0, <1>1, <2>2, <3>1 DEF LeavesInOrder, SaveSteps
    <2>4. \A h \in Goroutines : LeavesInOrder(h)'
      BY <1>0, <1>1, <2>2, <2>3 DEF Booting, LeavesInOrder
    <2>5. \A a \in Attempts : state'[a] \in Caught => Cared(a)'
      <3>1. active'[att[Boot]] # NoGoroutine
            /\ \A a \in Attempts : active[a] # NoGoroutine => active'[a] # NoGoroutine
        BY <1>0, <2>2, ProcessesAssumption DEF TypeOK
      <3> QED
        BY <1>0, <1>1, <3>1 DEF Booting, Cared, Adopting
    <2> QED
      BY <1>0, <2>2, <2>4, <2>5 DEF Booting
  <1> QED
    BY <1>2, <1>3 DEF Attach, StartLoop

(* The visits of the boot code, and its call of MaybeAdvanceAfterAttempt.  *)
LEMMA BootingVisits ==
    ASSUME OrphanInv, up = "booting", NEW a \in Attempts,
           BootAttach(a) \/ BootContinue(a) \/ BootFail(a)
    PROVE  Booting'
  <1>a. missed \subseteq missed'
    BY DEF BootAttach, BootContinue, BootFail, Miss, Lapse, failures
  <1>0. /\ Booting /\ TypeOK /\ Boot \in Procs /\ Boot \notin Goroutines
        /\ \A p \in Requests \cup {Resumer} : p \in Procs /\ p # Boot
        /\ \A g \in Goroutines : g \in Procs /\ g # Boot
        /\ \A g \in Goroutines : pc[g] # "idle" => att[g] \in Attempts
    BY ProcessesAssumption DEF Procs, OrphanInv, TypeInv, Booting, Working
  <1>1. /\ \A p \in Procs \ {Boot} : pc'[p] = pc[p] /\ att'[p] = att[p] /\ buf'[p] = buf[p]
        /\ pc'[Boot] \in {"attach", "startLoop", "advance"} /\ att'[Boot] = a
        /\ cancelled' = cancelled /\ active' = active /\ todo' = todo \ {a}
    BY <1>0 DEF BootAttach, BootContinue, BootFail, Goto, TypeOK, loopVars
  <1>2. /\ \A b \in Attempts \ {a} : state'[b] = state[b] /\ meta'[b] = meta[b]
        /\ state'[a] = state[a] \/ state'[a] \notin Caught
        /\ meta'[a] = meta[a] \/ (meta'[a].reason = "abnormal" /\ meta'[a].has)
        /\ pc'[Boot] = "advance" => state'[a] \notin Caught \/ a \in missed'
        /\ pc'[Boot] \in {"attach", "startLoop"} => meta'[a].has
    <2>1. meta[a] \in Meta
      BY <1>0 DEF TypeOK
    <2>2. CASE BootAttach(a)
      BY <1>0, <1>1, <2>2 DEF BootAttach, Goto, OrphanInv, RunRecorded, TypeOK, rows
    <2>3. CASE BootContinue(a)
      <3>1. /\ state' = state /\ meta[a].has /\ pc'[Boot] = "startLoop"
            /\ \/ meta' = meta
               \/ meta' = [meta EXCEPT ![a] = [meta[a] EXCEPT !.count = @ + 1,
                                                 !.reason = "abnormal", !.run = 0]]
        BY <1>0, <2>3 DEF BootContinue, HasBudget, Goto, TypeOK, rows
      <3> DEFINE m == [meta[a] EXCEPT !.count = @ + 1, !.reason = "abnormal", !.run = 0]
      <3>2. m.has /\ m.reason = "abnormal"
        BY <2>1, <3>1 DEF Meta
      <3>3. meta'[a] \in {m, meta[a]} /\ \A b \in Attempts \ {a} : meta'[b] = meta[b]
        BY <1>0, <3>1 DEF TypeOK
      <3> QED
        BY <3>1, <3>2, <3>3
    <2>4. CASE BootFail(a)
      BY <1>0, <1>1, <2>4 DEF BootFail, SetState, Caught, Miss, Goto, TypeOK, rows
    <2> QED
      BY <2>2, <2>3, <2>4
  <1>3. \A g \in Goroutines : LeavesInOrder(g)'
    <2>1. SUFFICES ASSUME NEW g \in Goroutines PROVE LeavesInOrder(g)'
      OBVIOUS
    <2>2. /\ LeavesInOrder(g) /\ pc'[g] = pc[g] /\ att'[g] = att[g] /\ buf'[g] = buf[g]
          /\ pc[g] # "idle" => att[g] \in Attempts
      BY <1>0, <1>1 DEF Booting
    <2> QED
      BY <1>2, <1>a, <2>2 DEF LeavesInOrder, SaveSteps
  <1>4. \A b \in Attempts : state'[b] \in Caught => Cared(b)'
    <2>1. SUFFICES ASSUME NEW b \in Attempts, state'[b] \in Caught PROVE Cared(b)'
      OBVIOUS
    <2>2. CASE b = a
      BY <1>1, <1>2, <2>1, <2>2 DEF Cared, Adopting
    <2>3. CASE b # a
      <3>1. Cared(b) /\ ~Adopting(b)
        BY <1>0, <1>2, <2>1, <2>3 DEF Booting, Adopting, BootAttach, BootContinue, BootFail
      <3> QED
        BY <1>1, <1>2, <1>a, <2>3, <3>1 DEF Cared
    <2> QED
      BY <2>2, <2>3
  <1> QED
    BY <1>0, <1>1, <1>2, <1>3, <1>4 DEF Booting

(* An orphan that is skipped is one of the missed.                         *)
LEMMA BootingSkips ==
    ASSUME OrphanInv, up = "booting", NEW a \in Attempts, BootSkip(a)
    PROVE  Booting'
  <1>1. /\ UNCHANGED <<state, meta, active, cancelled, pc, att, buf>>
        /\ todo' = todo \ {a} /\ missed' = missed \cup {a}
    BY DEF BootSkip, Miss, rows, loopVars, procVars
  <1>2. Booting
    BY DEF OrphanInv
  <1>3. \A g \in Goroutines : LeavesInOrder(g)'
    BY <1>1, <1>2 DEF Booting, LeavesInOrder
  <1>4. \A b \in Attempts : state'[b] \in Caught => Cared(b)'
    BY <1>1, <1>2 DEF Booting, Cared, Adopting
  <1> QED
    BY <1>1, <1>2, <1>3, <1>4 DEF Booting

LEMMA BootingAdvances ==
    ASSUME OrphanInv, up = "booting", Advance(Boot) \/ ToVerify(Boot)
    PROVE  Booting'
  <1>0. /\ Booting /\ TypeOK /\ Boot \in Procs /\ Boot \notin Goroutines
        /\ pc[Boot] \in {"advance", "toVerify"}
        /\ \A p \in Requests \cup {Resumer} : p \in Procs /\ p # Boot
        /\ \A g \in Goroutines : g \in Procs /\ g # Boot
    BY ProcessesAssumption DEF Procs, OrphanInv, TypeInv, Booting, Advance, ToVerify
  <1>1. UNCHANGED <<state, meta, active, todo, missed>>
    BY DEF Advance, ToVerify, rows, failures
  <1>2. /\ \A p \in Procs \ {Boot} : pc'[p] = pc[p] /\ att'[p] = att[p] /\ buf'[p] = buf[p]
        /\ pc'[Boot] \in {"idle", "toVerify"}
        /\ \A p \in Procs : ~cancelled'[p]
    BY <1>0 DEF Advance, ToVerify, Return, Goto, Home, TypeOK, Booting
  <1>3. \A g \in Goroutines : LeavesInOrder(g)'
    BY <1>0, <1>1, <1>2 DEF Booting, LeavesInOrder
  <1>4. \A a \in Attempts : state'[a] \in Caught => Cared(a)'
    BY <1>0, <1>1 DEF Booting, Cared, Adopting
  <1> QED
    BY <1>0, <1>2, <1>3, <1>4 DEF Booting

(* While it boots nobody else does anything.                               *)
LEMMA BootingNext ==
    ASSUME OrphanInv, up = "booting", up' = "booting", [Next]_vars, ~Crash
    PROVE  Booting'
  <1>0. /\ Booting
        /\ \A p \in Requests \cup {Resumer} : pc[p] = "idle"
    BY DEF OrphanInv, Booting
  <1>1. ASSUME NEW r \in Requests, RequestStep(r) \/ ClientGone(r)
        PROVE  FALSE
    BY <1>0, <1>1
    DEF RequestStep, ClientGone, CreateAttempt, SaveNewMeta, SendRoute, CancelWrite, SaveMeta,
       SaveSteps, ToExecute, StartLoop, Attach, Advance, ToVerify
  <1>2. ~ \E r \in Requests, a \in Attempts : Request(r, a)
    BY DEF Request, Start, Send, Cancel, TryReconnect, Accept
  <1>3. ~Tick /\ ~ResumerStep
    BY <1>0 DEF Tick, ResumerStep, Retry, Skip, SaveMeta, SaveSteps, StartLoop
  <1>4. CASE BootStep
    BY <1>4, BootingVisits, BootingSkips, BootingStarts, BootingAdvances DEF BootStep, Serve
  <1>5. CASE UNCHANGED vars
    BY <1>0, <1>5
    DEF vars, rows, loopVars, procVars, failures, Booting, LeavesInOrder, Cared, Adopting
  <1> QED
    BY <1>1, <1>2, <1>3, <1>4, <1>5, BootingGoroutine DEF Next

LEMMA OrphansNext ==
    ASSUME OrphanInv, [Next]_vars
    PROVE  OrphanInv'
  <1>1. TypeInv' /\ ActiveIsLive' /\ RunRecorded'
    BY TypeNext, ActiveNext, RecordKept DEF OrphanInv
  <1>2. CASE up' = up /\ ~Crash
    BY <1>1, <1>2, BootingNext DEF OrphanInv
  <1>3. CASE Serve
    BY <1>1, <1>3 DEF Serve, OrphanInv
  <1>4. CASE Crash
    <2>1. /\ UNCHANGED <<state, meta>> /\ (todo' = Orphans \/ missed' = Orphans)
          /\ \A p \in Procs : pc'[p] = "idle" /\ ~cancelled'[p]
      BY <1>4 DEF Crash, rows
    <2>2. Boot \in Procs /\ Requests \cup {Resumer} \subseteq Procs /\ Goroutines \subseteq Procs
      BY DEF Procs
    <2>3. \A a \in Attempts : state'[a] \in Caught => Cared(a)'
      BY <2>1 DEF Orphans, Caught, Cared
    <2>4. \A g \in Goroutines : LeavesInOrder(g)'
      BY <2>1, <2>2 DEF LeavesInOrder, SaveSteps
    <2>5. Booting'
      BY <2>1, <2>2, <2>3, <2>4 DEF Booting
    <2> QED
      BY <1>1, <2>5 DEF OrphanInv
  <1> QED
    BY <1>2, <1>3, <1>4, UpKept

(* When ResumeOrphans is done and the server begins to serve, no attempt   *)
(* that the crash caught queued or running is forgotten: it has a loop, or *)
(* the Resumer will find its broken turn on record, however many crashes   *)
(* and failed reads and writes there were and whatever the goroutines did  *)
(* meanwhile; unless the rescue of this very attempt met one of the        *)
(* failures that ResumeOrphans and its loop only log.                      *)
THEOREM OrphansCorrect == Spec => OrphansAdopted
  <1>1. Init => OrphanInv
    <2>1. NoMeta.run = 0 /\ NewMeta.run = 0
      BY DEF NoMeta, NewMeta
    <2>2. Init => ActiveIsLive
      BY DEF Init, ActiveIsLive, Live, Procs
    <2>3. Init => RunRecorded /\ up # "booting"
      BY <2>1 DEF Init, RunRecorded
    <2> QED
      BY TypeInit, <2>2, <2>3 DEF OrphanInv
  <1>2. OrphanInv /\ [Next]_vars => OrphanInv'
    BY OrphansNext
  <1>3. OrphanInv /\ [Next]_vars =>
            [up = "booting" /\ up' = "up" =>
                \A a \in Attempts \ missed : state[a] \in {"queued", "running"} =>
                    active[a] # NoGoroutine \/ meta[a].reason = "abnormal"]_vars
    <2>1. SUFFICES ASSUME OrphanInv, [Next]_vars, up = "booting", up' = "up"
                   PROVE  \A a \in Attempts \ missed : state[a] \in {"queued", "running"} =>
                              active[a] # NoGoroutine \/ meta[a].reason = "abnormal"
      OBVIOUS
    <2>2. Serve
      BY <2>1, UpKept DEF Crash
    <2>3. todo = {} /\ pc[Boot] = "idle" /\ Booting
      BY <2>1, <2>2 DEF Serve, OrphanInv
    <2> QED
      BY <2>3 DEF Booting, Caught, Cared, Adopting
  <1> QED
    BY <1>1, <1>2, <1>3, PTL DEF Spec, OrphansAdopted

=============================================================================

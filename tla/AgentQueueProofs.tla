--------------------------- MODULE AgentQueueProofs ---------------------------
(***************************************************************************)
(* Proofs about the fleet's work queue, for any set of agents, any number  *)
(* of rows, any lease TTL and every combination of failures.               *)
(***************************************************************************)
EXTENDS AgentQueue, FiniteSetTheorems, TLAPS

\* The rows an agent holds are finitely many, so that counting them counts.
LEMMA HeldCount ==
    ASSUME NEW a
    PROVE  Cardinality(Held(a)) \in Nat
<1>1. IsFiniteSet(TaskId)
  BY FS_Interval, QueueAssumption DEF TaskId
<1>2. Held(a) \subseteq TaskId
  BY DEF Held
<1>3. QED
  BY <1>1, <1>2, FS_Subset, FS_CardinalityType

\* A lease that has just been granted or renewed has age 0.
LEMMA AgeZero == 0 \in Ages
BY QueueAssumption DEF Ages

\* The clock of a lease stays in its range.
LEMMA OlderType ==
    ASSUME NEW n \in Ages
    PROVE  Older(n) \in Ages /\ n <= Older(n)
BY QueueAssumption DEF Ages, Older

\* Reclaiming, renewing and annotating a row keep it a row of its shape.
LEMMA ReclaimType ==
    ASSUME NEW row \in Row, RowShape(row)
    PROVE  ReclaimRow(row) \in Row /\ RowShape(ReclaimRow(row))
<1>1. CASE ~Stale(row)
  BY <1>1 DEF ReclaimRow
<1>2. CASE Stale(row)
  <2>1. ReclaimRow(row) = [row EXCEPT !.state = "queued", !.holder = NoAgent, !.age = 0]
    BY <1>2 DEF ReclaimRow
  <2>2. ReclaimRow(row) \in Row
    BY <2>1, AgeZero DEF Row, States
  <2>3. RowShape(ReclaimRow(row))
    BY <1>2, <2>1 DEF RowShape, Stale, Row
  <2>4. QED
    BY <2>2, <2>3
<1>3. QED
  BY <1>1, <1>2

LEMMA RenewType ==
    ASSUME NEW row \in Row, RowShape(row), NEW a
    PROVE  RenewRow(row, a) \in Row /\ RowShape(RenewRow(row, a))
BY AgeZero DEF RenewRow, RowShape, Row

LEMMA RecordType ==
    ASSUME NEW row \in Row, RowShape(row), NEW a \in Agents
    PROVE  RecordTaskProgress(row, a) \in Row /\ RowShape(RecordTaskProgress(row, a))
BY QueueAssumption DEF RecordTaskProgress, RowShape, Row, States, NoRow

LEMMA CloseType ==
    ASSUME NEW row \in Row, RowShape(row), NEW a, NEW ok \in BOOLEAN
    PROVE  CloseRow(row, a, ok) \in Row /\ RowShape(CloseRow(row, a, ok))
BY QueueAssumption DEF CloseRow, RowShape, Row, States, NoRow

-----------------------------------------------------------------------------
(***************************************************************************)
(* Type correctness: one step per action.                                  *)
(***************************************************************************)
\* Writing one handler's record leaves the table of handlers well typed.
LEMMA PollUpdate ==
    ASSUME poll \in [Agents -> [PollSlots -> PollRec]],
           NEW a \in Agents, NEW s \in PollSlots, NEW p \in PollRec
    PROVE  [poll EXCEPT ![a][s] = p] \in [Agents -> [PollSlots -> PollRec]]
<1>1. [poll[a] EXCEPT ![s] = p] \in [PollSlots -> PollRec]
  OBVIOUS
<1>2. QED
  BY <1>1

LEMMA DispatchType == ASSUME TypeOK, NEW o \in Offers, Dispatch(o) PROVE TypeOK'
<1> DEFINE row == [NoRow EXCEPT !.state = "queued", !.hash = DispatchKey(o)]
<1>1. row \in Row /\ RowShape(row)
  BY AgeZero, QueueAssumption DEF Dispatch, DispatchKey, Row, RowShape, NoRow, States
<1>2. nextId' \in 1 .. MaxTasks + 1
  BY QueueAssumption DEF Dispatch, TypeOK, TaskId
<1>3. task' = [task EXCEPT ![nextId] = row] /\ nextId \in TaskId
  BY DEF Dispatch
<1>4. task' \in [TaskId -> Row] /\ \A t \in TaskId : RowShape(task'[t])
  BY <1>1, <1>3 DEF TypeOK
<1>5. QED
  BY <1>2, <1>4 DEF Dispatch, TypeOK

LEMMA DeleteTaskType == ASSUME TypeOK, NEW t \in TaskId, DeleteTask(t) PROVE TypeOK'
<1>1. NoRow \in Row /\ RowShape(NoRow)
  BY AgeZero DEF Row, RowShape, NoRow, States
<1>2. QED
  BY <1>1 DEF DeleteTask, TypeOK

LEMMA agentPollType ==
    ASSUME TypeOK, NEW a \in Agents, NEW s \in PollSlots, agentPoll(a, s)
    PROVE  TypeOK'
<1>1. task' \in [TaskId -> Row] /\ \A t \in TaskId : RowShape(task'[t])
  BY ReclaimType DEF agentPoll, TypeOK
<1>2. PICK p \in PollRec : poll' = [poll EXCEPT ![a][s] = p]
  <2>1. [IdlePoll EXCEPT !.pc = "count", !.conn = TRUE, !.cap = agent[a].cap] \in PollRec
    BY QueueAssumption DEF IdlePoll, PollRec, TypeOK
  <2>2. QED
    BY <2>1 DEF agentPoll
<1>3. poll' \in [Agents -> [PollSlots -> PollRec]]
  BY <1>2, PollUpdate DEF TypeOK
<1>4. QED
  BY <1>1, <1>3 DEF agentPoll, TypeOK

LEMMA LeaseSnapshotType ==
    ASSUME TypeOK, NEW a \in Agents, NEW s \in PollSlots, LeaseSnapshot(a, s)
    PROVE  TypeOK'
<1>1. Queued \subseteq TaskId
  BY DEF Queued
<1>2. [poll[a][s] EXCEPT !.pc = "take", !.held = Cardinality(Held(a)), !.seen = Queued] \in PollRec
  <2>1. poll[a][s] \in PollRec
    BY DEF TypeOK
  <2>2. Cardinality(Held(a)) \in Nat
    BY HeldCount
  <2>3. QED
    BY <1>1, <2>1, <2>2 DEF PollRec
<1>3. poll' \in [Agents -> [PollSlots -> PollRec]]
  BY <1>2, PollUpdate DEF LeaseSnapshot, TypeOK
<1>4. QED
  BY <1>3 DEF LeaseSnapshot, TypeOK

\* An answered request leaves its slot idle.
LEMMA IdlePollType == IdlePoll \in PollRec
BY DEF IdlePoll, PollRec

\* An answer only tells the worker locks of rows that exist in the table.
LEMMA DeliverType ==
    ASSUME TypeOK, NEW a \in Agents, NEW conn, NEW locks \in SUBSET TaskId,
           Deliver(a, conn, locks)
    PROVE  known' \in [Agents -> SUBSET TaskId]
BY DEF Deliver, TypeOK

\* The row a poll takes was queued in its snapshot and still is.
LEMMA OldestTakeable ==
    ASSUME TypeOK, NEW a \in Agents, NEW s \in PollSlots,
           NEW t \in Oldest(Takeable(poll[a][s]))
    PROVE  t \in TaskId /\ task[t].state = "queued"
BY DEF Oldest, Takeable, TypeOK, PollRec

LEMMA LeaseTakeType ==
    ASSUME TypeOK, NEW a \in Agents, NEW s \in PollSlots, LeaseTake(a, s)
    PROVE  TypeOK'
<1>1. poll' \in [Agents -> [PollSlots -> PollRec]]
  BY IdlePollType, PollUpdate DEF LeaseTake, TypeOK
<1>2. CASE UNCHANGED <<task, grants, known>>
  BY <1>1, <1>2 DEF LeaseTake, TypeOK
<1>3. CASE ~UNCHANGED <<task, grants, known>>
  <2>1. PICK t \in Oldest(Takeable(poll[a][s])) :
          /\ task' = [task EXCEPT ![t].state = "leased", ![t].holder = a, ![t].age = 0]
          /\ grants' = [grants EXCEPT ![a] = IF @ < MaxCompleted THEN @ + 1 ELSE @]
          /\ Deliver(a, poll[a][s].conn, known[a] \cup {t})
    BY <1>3 DEF LeaseTake
  <2>2. t \in TaskId /\ task[t].state = "queued"
    BY OldestTakeable
  <2>3. task' \in [TaskId -> Row] /\ \A u \in TaskId : RowShape(task'[u])
    <3> DEFINE row == [task[t] EXCEPT !.state = "leased", !.holder = a, !.age = 0]
    <3>1. task[t] \in Row /\ RowShape(task[t])
      BY <2>2 DEF TypeOK
    <3>2. row \in Row /\ RowShape(row)
      BY <2>2, <3>1, AgeZero DEF Row, RowShape, States
    <3>3. task' = [task EXCEPT ![t] = row]
      BY <2>1, <2>2 DEF TypeOK
    <3>4. QED
      BY <3>2, <3>3 DEF TypeOK
  <2>4. grants' \in [Agents -> 0 .. MaxCompleted]
    BY <2>1, QueueAssumption DEF TypeOK
  <2>5. known' \in [Agents -> SUBSET TaskId]
    BY <2>1, <2>2, DeliverType DEF TypeOK
  <2>6. QED
    BY <1>1, <2>3, <2>4, <2>5 DEF LeaseTake, TypeOK
<1>4. QED
  BY <1>2, <1>3

LEMMA LeaseErrorType ==
    ASSUME TypeOK, NEW a \in Agents, NEW s \in PollSlots, LeaseError(a, s)
    PROVE  TypeOK'
<1>1. poll' \in [Agents -> [PollSlots -> PollRec]]
  BY IdlePollType, PollUpdate DEF LeaseError, TypeOK
<1>2. QED
  BY <1>1 DEF LeaseError, TypeOK

LEMMA ReportType ==
    ASSUME TypeOK, NEW a \in Agents, NEW lock, Report(a, lock)
    PROVE  TypeOK'
<1>1. PICK renews \in BOOLEAN :
        /\ task' = [t \in TaskId |->
                      LET row == IF renews THEN RenewRow(task[t], a) ELSE task[t] IN
                      IF t = lock THEN RecordTaskProgress(row, a) ELSE row]
        /\ silence' = IF renews THEN [silence EXCEPT ![a] = 0] ELSE silence
  BY DEF Report
<1>2. ASSUME NEW t \in TaskId
      PROVE  task'[t] \in Row /\ RowShape(task'[t])
  <2> DEFINE row == IF renews THEN RenewRow(task[t], a) ELSE task[t]
  <2>1. row \in Row /\ RowShape(row)
    BY RenewType DEF TypeOK
  <2>2. RecordTaskProgress(row, a) \in Row /\ RowShape(RecordTaskProgress(row, a))
    BY <2>1, RecordType
  <2>3. task'[t] = IF t = lock THEN RecordTaskProgress(row, a) ELSE row
    BY <1>1
  <2>4. QED
    BY <2>1, <2>2, <2>3
<1>3. task' \in [TaskId -> Row]
  <2>1. DOMAIN task' = TaskId /\ task' = [t \in TaskId |-> task'[t]]
    BY <1>1
  <2>2. QED
    BY <1>2, <2>1
<1>4. silence' \in [Agents -> Ages]
  BY <1>1, AgeZero DEF TypeOK
<1>5. QED
  BY <1>2, <1>3, <1>4 DEF Report, TypeOK

LEMMA agentCompleteType ==
    ASSUME TypeOK, NEW a \in Agents, NEW lock \in known[a], NEW ok \in BOOLEAN,
           agentComplete(a, lock, ok)
    PROVE  TypeOK'
<1>1. lock \in TaskId
  BY DEF TypeOK
<1>2. task' \in [TaskId -> Row] /\ \A t \in TaskId : RowShape(task'[t])
  <2>1. CloseRow(task[lock], a, ok) \in Row /\ RowShape(CloseRow(task[lock], a, ok))
    BY <1>1, CloseType DEF TypeOK
  <2>2. QED
    BY <1>1, <2>1 DEF agentComplete, TypeOK
<1>3. comp' \in [Agents -> CompRec]
  <2>1. [pc |-> "bump", conn |-> TRUE, lock |-> lock] \in CompRec
    BY <1>1 DEF CompRec
  <2>2. QED
    BY <2>1 DEF agentComplete, TypeOK
<1>4. known' \in [Agents -> SUBSET TaskId]
  <2>1. known[a] \ {lock} \in SUBSET TaskId
    BY DEF TypeOK
  <2>2. QED
    BY <2>1, DeliverType DEF agentComplete, TypeOK
<1>5. QED
  BY <1>2, <1>3, <1>4 DEF agentComplete, TypeOK

LEMMA CompleteTaskType ==
    ASSUME TypeOK, NEW a \in Agents, CompleteTask(a)
    PROVE  TypeOK'
<1>1. agent' \in [Agents -> [row : {"new", "live", "gone"}, cap : Caps, completed : Nat]]
  <2>1. agent[a].completed + Bump(a) \in Nat
    BY DEF Bump, TypeOK
  <2>2. [agent[a] EXCEPT !.completed = @ + Bump(a)]
          \in [row : {"new", "live", "gone"}, cap : Caps, completed : Nat]
    <3>1. agent[a] \in [row : {"new", "live", "gone"}, cap : Caps, completed : Nat]
      BY DEF TypeOK
    <3>2. QED
      BY <2>1, <3>1
  <2>3. \/ agent' = [agent EXCEPT ![a] = [agent[a] EXCEPT !.completed = @ + Bump(a)]]
        \/ agent' = agent
    BY DEF CompleteTask, TypeOK
  <2>4. QED
    BY <2>2, <2>3 DEF TypeOK
<1>2. known' \in [Agents -> SUBSET TaskId]
  <2>1. known[a] \ {comp[a].lock} \in SUBSET TaskId
    BY DEF TypeOK
  <2>2. QED
    BY <2>1, DeliverType DEF CompleteTask
<1>3. comp' \in [Agents -> CompRec]
  BY DEF CompleteTask, TypeOK, CompRec, IdleComp, NoLock
<1>4. QED
  BY <1>1, <1>2, <1>3 DEF CompleteTask, TypeOK

LEMMA CrashType == ASSUME TypeOK, NEW a \in Agents, Crash(a) PROVE TypeOK'
<1>1. [s \in PollSlots |-> [poll[a][s] EXCEPT !.conn = FALSE]] \in [PollSlots -> PollRec]
  <2>1. ASSUME NEW s \in PollSlots PROVE [poll[a][s] EXCEPT !.conn = FALSE] \in PollRec
    <3>1. poll[a][s] \in PollRec
      BY DEF TypeOK
    <3>2. QED
      BY <3>1 DEF PollRec
  <2>2. QED
    BY <2>1
<1>2. poll' \in [Agents -> [PollSlots -> PollRec]]
  BY <1>1 DEF Crash, TypeOK
<1>3. comp' \in [Agents -> CompRec]
  BY DEF Crash, TypeOK, CompRec
<1>4. QED
  BY <1>2, <1>3 DEF Crash, TypeOK

LEMMA TickType == ASSUME TypeOK, Tick PROVE TypeOK'
<1>1. ASSUME NEW t \in TaskId
      PROVE  task'[t] \in Row /\ RowShape(task'[t])
  <2>1. task[t] \in Row /\ RowShape(task[t]) /\ Older(task[t].age) \in Ages
    BY OlderType DEF TypeOK, Row
  <2>2. task'[t] = IF task[t].state = "leased"
                   THEN [task[t] EXCEPT !.age = Older(task[t].age)] ELSE task[t]
    BY DEF Tick
  <2>3. QED
    BY <2>1, <2>2 DEF Row, RowShape
<1>2. task' \in [TaskId -> Row]
  <2>1. task' = [t \in TaskId |-> task'[t]]
    BY DEF Tick
  <2>2. QED
    BY <1>1, <2>1
<1>3. silence' \in [Agents -> Ages]
  BY OlderType DEF Tick, TypeOK
<1>4. QED
  BY <1>1, <1>2, <1>3 DEF Tick, TypeOK

\* The actions that touch agent rows or handlers alone.
LEMMA SetCapType ==
    ASSUME TypeOK, NEW a \in Agents, NEW n \in Caps, SetAgentMaxConcurrent(a, n)
    PROVE  TypeOK'
BY DEF SetAgentMaxConcurrent, TypeOK

LEMMA DeleteAgentType == ASSUME TypeOK, NEW a \in Agents, DeleteAgent(a) PROVE TypeOK'
BY DEF DeleteAgent, TypeOK

LEMMA RegisterType == ASSUME TypeOK, NEW a \in Agents, Register(a) PROVE TypeOK'
BY DEF Register, TypeOK

LEMMA UnparsedType == ASSUME TypeOK, NEW a \in Agents, agentCompleteUnparsed(a) PROVE TypeOK'
<1>1. [pc |-> "bump", conn |-> TRUE, lock |-> NoLock] \in CompRec
  BY DEF CompRec
<1>2. QED
  BY <1>1 DEF agentCompleteUnparsed, TypeOK

LEMMA InitType == Init => TypeOK
<1>1. NoRow \in Row /\ RowShape(NoRow)
  BY AgeZero DEF Row, RowShape, NoRow, States
<1>2. IdleComp \in CompRec
  BY DEF IdleComp, CompRec
<1>3. 0 \in 0 .. MaxCompleted /\ 1 \in 1 .. MaxTasks + 1 /\ DefaultCap \in Caps
  BY QueueAssumption
<1>4. QED
  BY <1>1, <1>2, <1>3, AgeZero, IdlePollType DEF Init, TypeOK

LEMMA NextType == TypeOK /\ [Next]_vars => TypeOK'
<1> SUFFICES ASSUME TypeOK, [Next]_vars PROVE TypeOK'
  OBVIOUS
<1>1. CASE Site
  BY <1>1, DispatchType, DeleteTaskType, SetCapType, DeleteAgentType DEF Site
<1>2. ASSUME NEW a \in Agents, Worker(a) PROVE TypeOK'
  <2>1. CASE Restart(a)
    BY <2>1 DEF Restart, TypeOK
  <2>2. QED
    BY <1>2, <2>1, RegisterType, CrashType DEF Worker
<1>3. ASSUME NEW a \in Agents, NEW s \in PollSlots,
             agentPoll(a, s) \/ Lease(a, s) \/ LeaseError(a, s)
      PROVE  TypeOK'
  BY <1>3, agentPollType, LeaseSnapshotType, LeaseTakeType, LeaseErrorType DEF Lease
<1>4. ASSUME NEW a \in Agents, NEW lock \in known[a] \cup {NoLock}, Report(a, lock)
      PROVE  TypeOK'
  BY <1>4, ReportType
<1>5. ASSUME NEW a \in Agents, NEW lock \in known[a], NEW ok \in BOOLEAN,
             agentComplete(a, lock, ok)
      PROVE  TypeOK'
  BY <1>5, agentCompleteType
<1>6. ASSUME NEW a \in Agents, agentCompleteUnparsed(a) \/ CompleteTask(a)
      PROVE  TypeOK'
  BY <1>6, UnparsedType, CompleteTaskType
<1>7. CASE Tick
  BY <1>7, TickType
<1>8. CASE UNCHANGED vars
  BY <1>8 DEF vars, TypeOK
<1>9. QED
  BY <1>1, <1>2, <1>3, <1>4, <1>5, <1>6, <1>7, <1>8 DEF Next

\* Every reachable state of the queue is well typed, and every row has the
\* shape of its state: no holder while it is queued, an agent from the lease
\* on (LeaseNextTask and its reclaim write the two columns together).
THEOREM TypeCorrect == Spec => []TypeOK
<1>1. Init => TypeOK
  BY InitType
<1>2. TypeOK /\ [Next]_vars => TypeOK'
  BY NextType
<1>3. QED
  BY <1>1, <1>2, PTL DEF Spec

-----------------------------------------------------------------------------
(***************************************************************************)
(* The moves of one row.  Every step of the system, whatever else it does, *)
(* is one of seven moves for each row of the table; the action properties  *)
(* are read off this list.                                                 *)
(***************************************************************************)

\* Rows are below the sequence: Dispatch never writes over one.
RowsBelowNext == \A t \in Rows : t < nextId

Keeps(t) == task'[t] = task[t]
Enqueued(t) ==
    /\ t = nextId /\ nextId' = nextId + 1
    /\ task[t] = NoRow /\ task'[t].state = "queued" /\ task'[t].author = NoAgent
    /\ \E o \in Offers : /\ InfoHash[o] # NoHash /\ task'[t].hash = InfoHash[o]
                         /\ \A u \in Rows : task[u].hash # InfoHash[o]
Retired(t) == task'[t] = NoRow
Reclaimed(t) == /\ Stale(task[t])
                /\ task'[t] = [task[t] EXCEPT !.state = "queued", !.holder = NoAgent, !.age = 0]
Leased(t) == /\ task[t].state = "queued" /\ task'[t].state = "leased"
             /\ task'[t].author = task[t].author /\ task'[t].hash = task[t].hash
             /\ task'[t].age = 0
             /\ \E a \in Agents, s \in PollSlots : LeaseTake(a, s) /\ task'[t].holder = a
Reported(t) == /\ task[t].state = "leased" /\ task'[t].state = "leased"
               /\ task'[t].holder = task[t].holder /\ task'[t].hash = task[t].hash
               /\ task'[t].author \in {task[t].author, task[t].holder}
Closed(t) == /\ task[t].state = "leased" /\ task'[t].state \in Finished
             /\ task'[t].holder = task[t].holder /\ task'[t].author = task[t].author
             /\ task'[t].hash = task[t].hash
             /\ \E ok \in BOOLEAN : agentComplete(task[t].holder, t, ok)

RowMoves == \A t \in TaskId : \/ Keeps(t) \/ Enqueued(t) \/ Retired(t) \/ Reclaimed(t)
                              \/ Leased(t) \/ Reported(t) \/ Closed(t)

\* The moves that neither open a job nor end one.
Stirs == \A t \in TaskId : Keeps(t) \/ Reclaimed(t) \/ Leased(t) \/ Reported(t)

LEMMA DispatchMoves ==
    ASSUME TypeOK, RowsBelowNext, NEW o \in Offers, Dispatch(o)
    PROVE  RowMoves
<1> SUFFICES ASSUME NEW t \in TaskId PROVE Keeps(t) \/ Enqueued(t)
  BY DEF RowMoves
<1>1. CASE t # nextId
  BY <1>1 DEF Dispatch, TypeOK, Keeps
<1>2. CASE t = nextId
  <2>1. task[t] = NoRow
    BY <1>2 DEF RowsBelowNext, Rows, TypeOK, RowShape, TaskId
  <2>2. task'[t] = [NoRow EXCEPT !.state = "queued", !.hash = DispatchKey(o)]
    BY <1>2 DEF Dispatch, TypeOK
  <2>3. /\ task'[t].state = "queued" /\ task'[t].author = NoAgent
        /\ task'[t].hash = DispatchKey(o)
    BY <2>2 DEF NoRow
  <2>4. /\ nextId' = nextId + 1 /\ InfoHash[o] # NoHash
        /\ \A u \in Rows : task[u].hash # DispatchKey(o)
    BY DEF Dispatch
  <2>5. QED
    BY <1>2, <2>1, <2>3, <2>4 DEF Enqueued, DispatchKey
<1>3. QED
  BY <1>1, <1>2

LEMMA agentPollMoves ==
    ASSUME TypeOK, NEW a \in Agents, NEW s \in PollSlots, agentPoll(a, s)
    PROVE  Stirs
<1> SUFFICES ASSUME NEW t \in TaskId PROVE Keeps(t) \/ Reclaimed(t)
  BY DEF Stirs
<1>1. task'[t] = ReclaimRow(task[t])
  BY DEF agentPoll
<1>2. QED
  BY <1>1 DEF ReclaimRow, Keeps, Reclaimed

LEMMA LeaseTakeMoves ==
    ASSUME TypeOK, NEW a \in Agents, NEW s \in PollSlots, LeaseTake(a, s)
    PROVE  Stirs
<1> SUFFICES ASSUME NEW t \in TaskId PROVE Keeps(t) \/ Leased(t)
  BY DEF Stirs
<1>1. CASE UNCHANGED task
  BY <1>1 DEF Keeps
<1>2. CASE ~UNCHANGED task
  <2>1. PICK u \in Oldest(Takeable(poll[a][s])) :
          task' = [task EXCEPT ![u].state = "leased", ![u].holder = a, ![u].age = 0]
    BY <1>2 DEF LeaseTake
  <2>2. u \in TaskId /\ task[u].state = "queued"
    BY OldestTakeable
  <2>3. CASE t # u
    BY <2>1, <2>3 DEF TypeOK, Keeps
  <2>4. CASE t = u
    <3>1. task[t] \in Row
      BY DEF TypeOK
    <3>2. task'[t] = [task[t] EXCEPT !.state = "leased", !.holder = a, !.age = 0]
      BY <2>1, <2>2, <2>4 DEF TypeOK
    <3>3. QED
      BY <2>2, <2>4, <3>1, <3>2 DEF Leased, Row
  <2>5. QED
    BY <2>3, <2>4
<1>3. QED
  BY <1>1, <1>2

LEMMA ReportMoves ==
    ASSUME TypeOK, NEW a \in Agents, NEW lock, Report(a, lock)
    PROVE  Stirs
<1> SUFFICES ASSUME NEW t \in TaskId PROVE Keeps(t) \/ Reported(t)
  BY DEF Stirs
<1>1. PICK renews \in BOOLEAN :
        task' = [u \in TaskId |->
                   LET row == IF renews THEN RenewRow(task[u], a) ELSE task[u] IN
                   IF u = lock THEN RecordTaskProgress(row, a) ELSE row]
  BY DEF Report
<1> DEFINE row == IF renews THEN RenewRow(task[t], a) ELSE task[t]
<1>2. task[t] \in Row
  BY DEF TypeOK
<1>3. task'[t] = IF t = lock THEN RecordTaskProgress(row, a) ELSE row
  BY <1>1
<1>4. CASE HeldBy(t, a)
  <2>1. /\ row \in Row /\ row.state = "leased" /\ row.holder = a
        /\ row.author = task[t].author /\ row.hash = task[t].hash
    BY <1>2, <1>4, AgeZero DEF HeldBy, RenewRow, Row
  <2>2. RecordTaskProgress(row, a) = [row EXCEPT !.author = a]
    BY <2>1 DEF RecordTaskProgress
  <2>3. QED
    BY <1>3, <1>4, <2>1, <2>2 DEF Reported, HeldBy, Row
<1>5. CASE ~HeldBy(t, a)
  BY <1>3, <1>5 DEF HeldBy, RenewRow, RecordTaskProgress, Keeps
<1>6. QED
  BY <1>4, <1>5

LEMMA agentCompleteMoves ==
    ASSUME TypeOK, NEW a \in Agents, NEW lock \in known[a], NEW ok \in BOOLEAN,
           agentComplete(a, lock, ok)
    PROVE  RowMoves
<1> SUFFICES ASSUME NEW t \in TaskId PROVE Keeps(t) \/ Closed(t)
  BY DEF RowMoves
<1>1. CASE UNCHANGED task
  BY <1>1 DEF Keeps
<1>2. CASE ~UNCHANGED task
  <2>1. lock \in TaskId
    BY DEF TypeOK
  <2>2. task' = [task EXCEPT ![lock] = CloseRow(task[lock], a, ok)]
    BY <1>2 DEF agentComplete
  <2>3. CASE t # lock
    BY <2>2, <2>3 DEF TypeOK, Keeps
  <2>4. CASE t = lock /\ ~HeldBy(t, a)
    BY <2>1, <2>2, <2>4 DEF TypeOK, Keeps, CloseRow, HeldBy
  <2>5. CASE t = lock /\ HeldBy(t, a)
    <3>1. task[t] \in Row
      BY DEF TypeOK
    <3>2. task'[t] = [task[t] EXCEPT !.state = IF ok THEN "completed" ELSE "failed"]
      BY <2>1, <2>2, <2>5 DEF TypeOK, CloseRow, HeldBy
    <3>3. task'[t].state \in Finished
      BY <3>1, <3>2 DEF Finished, Row
    <3>4. QED
      BY <2>5, <3>1, <3>2, <3>3 DEF Closed, HeldBy, Row
  <2>6. QED
    BY <2>3, <2>4, <2>5
<1>3. QED
  BY <1>1, <1>2

LEMMA TickMoves == ASSUME TypeOK, Tick PROVE Stirs
<1> SUFFICES ASSUME NEW t \in TaskId PROVE Keeps(t) \/ Reported(t)
  BY DEF Stirs
<1>1. task[t] \in Row
  BY DEF TypeOK
<1>2. task'[t] = IF task[t].state = "leased"
                 THEN [task[t] EXCEPT !.age = Older(task[t].age)] ELSE task[t]
  BY DEF Tick
<1>3. QED
  BY <1>1, <1>2 DEF Keeps, Reported, Row

\* A step opens one job, retires one, is a completion, or stirs.
LEMMA NextStirs ==
    ASSUME TypeOK, [Next]_vars
    PROVE  \/ \E o \in Offers : Dispatch(o)
           \/ \E t \in TaskId : DeleteTask(t)
           \/ \E a \in Agents : \E lock \in known[a], ok \in BOOLEAN : agentComplete(a, lock, ok)
           \/ Stirs
<1>1. UNCHANGED task => Stirs
  BY DEF Stirs, Keeps
<1>2. CASE Site
  BY <1>1, <1>2 DEF Site, SetAgentMaxConcurrent, DeleteAgent
<1>3. ASSUME NEW a \in Agents, Worker(a) PROVE Stirs
  BY <1>1, <1>3 DEF Worker, Register, Crash, Restart
<1>4. ASSUME NEW a \in Agents, NEW s \in PollSlots,
             agentPoll(a, s) \/ Lease(a, s) \/ LeaseError(a, s)
      PROVE  Stirs
  BY <1>1, <1>4, agentPollMoves, LeaseTakeMoves DEF Lease, LeaseSnapshot, LeaseError
<1>5. ASSUME NEW a \in Agents, NEW lock \in known[a] \cup {NoLock}, Report(a, lock)
      PROVE  Stirs
  BY <1>5, ReportMoves
<1>6. ASSUME NEW a \in Agents, agentCompleteUnparsed(a) \/ CompleteTask(a)
      PROVE  Stirs
  BY <1>1, <1>6 DEF agentCompleteUnparsed, CompleteTask
<1>7. CASE Tick
  BY <1>7, TickMoves
<1>8. QED
  BY <1>1, <1>2, <1>3, <1>4, <1>5, <1>6, <1>7 DEF Next, vars

LEMMA NextMoves == TypeOK /\ RowsBelowNext /\ [Next]_vars => RowMoves
<1> SUFFICES ASSUME TypeOK, RowsBelowNext, [Next]_vars PROVE RowMoves
  OBVIOUS
<1>1. ASSUME NEW u \in TaskId, DeleteTask(u) PROVE RowMoves
  BY <1>1 DEF DeleteTask, TypeOK, RowMoves, Keeps, Retired
<1>2. Stirs => RowMoves
  BY DEF Stirs, RowMoves
<1>3. QED
  BY <1>1, <1>2, NextStirs, DispatchMoves, agentCompleteMoves

-----------------------------------------------------------------------------
(***************************************************************************)
(* The inductive invariant.  That a lease is no older than its holder's    *)
(* silence is inductive by itself; that a torrent has one row needs that   *)
(* the rows lie below the sequence and that their keys are normal forms.   *)
(***************************************************************************)
KeysNormal == \A t \in Rows : InfoHash[task[t].hash] = task[t].hash

IInv == TypeOK /\ RowsBelowNext /\ KeysNormal /\ OneRowPerTorrent /\ LeaseNotOlderThanSilence

LEMMA InitIInv == Init => IInv
<1> SUFFICES ASSUME Init PROVE IInv
  OBVIOUS
<1>1. TypeOK
  BY InitType
<1>2. Rows = {}
  BY DEF Init, Rows, NoRow
<1>3. LeaseNotOlderThanSilence
  BY DEF Init, NoRow, LeaseNotOlderThanSilence
<1>4. QED
  BY <1>1, <1>2, <1>3 DEF IInv, RowsBelowNext, KeysNormal, OneRowPerTorrent

\* A row is new, or it was there with the same key.
LEMMA RowsKeepTheirKey ==
    ASSUME TypeOK, RowMoves, NEW t \in Rows'
    PROVE  t \in TaskId /\ (Enqueued(t) \/ (t \in Rows /\ task'[t].hash = task[t].hash))
<1>1. t \in TaskId /\ task[t] \in Row /\ task'[t].state # "none"
  BY DEF Rows, TypeOK
<1>2. CASE Keeps(t) \/ Retired(t) \/ Enqueued(t)
  BY <1>1, <1>2 DEF Keeps, Retired, Rows, NoRow
<1>3. CASE Reclaimed(t)
  BY <1>1, <1>3 DEF Reclaimed, Rows, Row, Stale
<1>4. CASE Leased(t) \/ Reported(t) \/ Closed(t)
  BY <1>1, <1>4 DEF Leased, Reported, Closed, Rows
<1>5. QED
  BY <1>1, <1>2, <1>3, <1>4 DEF RowMoves

\* The sequence never goes back.
LEMMA NextIdGrows == TypeOK /\ [Next]_vars => nextId <= nextId'
<1> SUFFICES ASSUME TypeOK, [Next]_vars PROVE nextId' \in {nextId, nextId + 1}
  BY DEF TypeOK
<1> QED
  BY DEF Next, vars, Site, Worker, Lease, Dispatch, DeleteTask, SetAgentMaxConcurrent,
         DeleteAgent, Register, Crash, Restart, agentPoll, LeaseSnapshot, LeaseTake,
         LeaseError, Report, agentComplete, agentCompleteUnparsed, CompleteTask, Tick

LEMMA NextRowsBelow == TypeOK /\ RowsBelowNext /\ [Next]_vars => RowsBelowNext'
<1> SUFFICES ASSUME TypeOK, RowsBelowNext, [Next]_vars, NEW t \in Rows' PROVE t < nextId'
  BY DEF RowsBelowNext
<1>1. t \in TaskId /\ (Enqueued(t) \/ t \in Rows)
  BY NextMoves, RowsKeepTheirKey
<1>2. nextId \in Nat /\ nextId' \in Nat /\ t \in Nat /\ nextId <= nextId'
  BY <1>1, NextIdGrows, NextType, QueueAssumption DEF TypeOK, TaskId
<1>3. QED
  BY <1>1, <1>2 DEF Enqueued, RowsBelowNext

LEMMA NextKeys ==
    TypeOK /\ RowsBelowNext /\ KeysNormal /\ OneRowPerTorrent /\ [Next]_vars
      => KeysNormal' /\ OneRowPerTorrent'
<1> SUFFICES ASSUME TypeOK, RowsBelowNext, KeysNormal, OneRowPerTorrent, [Next]_vars
             PROVE  KeysNormal' /\ OneRowPerTorrent'
  OBVIOUS
<1>1. \A t \in Rows' : /\ t \in TaskId
                       /\ Enqueued(t) \/ (t \in Rows /\ task'[t].hash = task[t].hash)
  BY NextMoves, RowsKeepTheirKey
<1>2. ASSUME NEW t \in Rows' PROVE InfoHash[task'[t].hash] = task'[t].hash
  BY <1>1, QueueAssumption DEF Enqueued, KeysNormal
<1>3. ASSUME NEW t \in Rows', NEW u \in Rows', task'[t].hash = task'[u].hash PROVE t = u
  <2>1. CASE Enqueued(t) /\ Enqueued(u)
    BY <2>1 DEF Enqueued
  <2>2. CASE Enqueued(t) /\ u \in Rows /\ task'[u].hash = task[u].hash
    BY <1>3, <2>2 DEF Enqueued
  <2>3. CASE Enqueued(u) /\ t \in Rows /\ task'[t].hash = task[t].hash
    BY <1>3, <2>3 DEF Enqueued
  <2>4. CASE t \in Rows /\ u \in Rows /\ task'[t].hash = task[t].hash
                                      /\ task'[u].hash = task[u].hash
    BY <1>3, <2>4 DEF OneRowPerTorrent
  <2>5. QED
    BY <1>1, <2>1, <2>2, <2>3, <2>4
<1>4. QED
  BY <1>2, <1>3 DEF KeysNormal, OneRowPerTorrent

LEMMA NextSilence == TypeOK /\ LeaseNotOlderThanSilence /\ [Next]_vars => LeaseNotOlderThanSilence'
<1> SUFFICES ASSUME TypeOK, LeaseNotOlderThanSilence, [Next]_vars,
                    NEW t \in TaskId, task'[t].state = "leased"
             PROVE  task'[t].age <= silence'[task'[t].holder]
  BY DEF LeaseNotOlderThanSilence
<1>0. /\ task[t] \in Row /\ \A a \in Agents : silence[a] \in Ages
      /\ \A n \in Ages : n \in Nat
      /\ task[t].state = "leased" => task[t].holder \in Agents
                                     /\ task[t].age <= silence[task[t].holder]
  BY QueueAssumption DEF TypeOK, RowShape, LeaseNotOlderThanSilence, Ages
<1>1. CASE UNCHANGED <<task, silence>>
  BY <1>0, <1>1
<1>2. ASSUME NEW o \in Offers, Dispatch(o) PROVE task'[t].age <= silence'[task'[t].holder]
  <2>1. CASE t = nextId
    BY <1>2, <2>1 DEF Dispatch, TypeOK, NoRow
  <2>2. CASE t # nextId
    BY <1>0, <1>2, <2>2 DEF Dispatch, TypeOK
  <2>3. QED
    BY <2>1, <2>2
<1>3. ASSUME NEW u \in TaskId, DeleteTask(u) PROVE task'[t].age <= silence'[task'[t].holder]
  BY <1>0, <1>3 DEF DeleteTask, TypeOK, NoRow
<1>4. ASSUME NEW a \in Agents, NEW s \in PollSlots, agentPoll(a, s)
      PROVE  task'[t].age <= silence'[task'[t].holder]
  <2>1. task'[t] = ReclaimRow(task[t]) /\ silence' = silence
    BY <1>4 DEF agentPoll
  <2>2. task'[t] = task[t]
    BY <1>0, <2>1 DEF ReclaimRow, Row
  <2>3. QED
    BY <1>0, <2>1, <2>2
<1>5. ASSUME NEW a \in Agents, NEW s \in PollSlots, LeaseTake(a, s)
      PROVE  task'[t].age <= silence'[task'[t].holder]
  <2>1. silence' = silence
    BY <1>5 DEF LeaseTake
  <2>2. CASE UNCHANGED task
    BY <1>0, <2>1, <2>2
  <2>3. CASE ~UNCHANGED task
    <3>1. PICK u \in Oldest(Takeable(poll[a][s])) :
            task' = [task EXCEPT ![u].state = "leased", ![u].holder = a, ![u].age = 0]
      BY <1>5, <2>3 DEF LeaseTake
    <3>2. CASE t = u
      <4>1. task'[t] = [task[t] EXCEPT !.state = "leased", !.holder = a, !.age = 0]
        BY <3>1, <3>2 DEF TypeOK
      <4>2. task'[t].age = 0 /\ task'[t].holder = a
        BY <1>0, <4>1 DEF Row
      <4>3. QED
        BY <1>0, <2>1, <4>2
    <3>3. CASE t # u
      BY <1>0, <2>1, <3>1, <3>3 DEF TypeOK
    <3>4. QED
      BY <3>2, <3>3
  <2>4. QED
    BY <2>2, <2>3
<1>6. ASSUME NEW a \in Agents, NEW lock, Report(a, lock)
      PROVE  task'[t].age <= silence'[task'[t].holder]
  <2>1. PICK renews \in BOOLEAN :
          /\ task' = [u \in TaskId |->
                        LET row == IF renews THEN RenewRow(task[u], a) ELSE task[u] IN
                        IF u = lock THEN RecordTaskProgress(row, a) ELSE row]
          /\ silence' = IF renews THEN [silence EXCEPT ![a] = 0] ELSE silence
    BY <1>6 DEF Report
  <2> DEFINE row == IF renews THEN RenewRow(task[t], a) ELSE task[t]
  <2>2. /\ row \in Row /\ task'[t].age = row.age
        /\ task'[t].holder = row.holder /\ row.state = "leased"
    <3>1. row \in Row
      BY <1>0, AgeZero DEF RenewRow, Row
    <3>2. task'[t] = IF t = lock THEN RecordTaskProgress(row, a) ELSE row
      BY <2>1
    <3>3. QED
      BY <3>1, <3>2 DEF RecordTaskProgress, Row
  <2>3. /\ task[t].state = "leased" /\ row.holder = task[t].holder
        /\ row.age = IF renews /\ task[t].holder = a THEN 0 ELSE task[t].age
    BY <1>0, <2>2 DEF RenewRow, Row
  <2>4. silence'[task[t].holder] =
          IF renews /\ task[t].holder = a THEN 0 ELSE silence[task[t].holder]
    BY <1>0, <2>1, <2>3 DEF TypeOK
  <2>5. QED
    BY <1>0, <2>2, <2>3, <2>4
<1>7. ASSUME NEW a \in Agents, NEW lock \in known[a], NEW ok \in BOOLEAN,
             agentComplete(a, lock, ok)
      PROVE  task'[t].age <= silence'[task'[t].holder]
  <2>1. task'[t] = task[t] \/ task'[t] = CloseRow(task[t], a, ok)
    BY <1>7 DEF agentComplete, TypeOK
  <2>2. task'[t] = task[t]
    BY <1>0, <2>1 DEF CloseRow, Row
  <2>3. QED
    BY <1>0, <1>7, <2>2 DEF agentComplete
<1>8. CASE Tick
  <2>1. task'[t] = IF task[t].state = "leased"
                   THEN [task[t] EXCEPT !.age = Older(task[t].age)] ELSE task[t]
    BY <1>8 DEF Tick
  <2>2. /\ task[t].state = "leased" /\ task'[t].holder = task[t].holder
        /\ task'[t].age = Older(task[t].age)
    BY <1>0, <2>1 DEF Row
  <2>3. silence'[task[t].holder] = Older(silence[task[t].holder])
    BY <1>0, <1>8, <2>2 DEF Tick
  <2>4. task[t].age \in Ages /\ silence[task[t].holder] \in Ages
    BY <1>0, <2>2 DEF Row
  <2>5. QED
    BY <1>0, <2>2, <2>3, <2>4, QueueAssumption DEF Older, Ages
<1>9. QED
  <2>1. CASE Site
    BY <1>1, <1>2, <1>3, <2>1 DEF Site, SetAgentMaxConcurrent, DeleteAgent
  <2>2. ASSUME NEW a \in Agents, Worker(a) PROVE UNCHANGED <<task, silence>>
    BY <2>2 DEF Worker, Register, Crash, Restart
  <2>3. ASSUME NEW a \in Agents, NEW s \in PollSlots,
               agentPoll(a, s) \/ Lease(a, s) \/ LeaseError(a, s)
        PROVE  task'[t].age <= silence'[task'[t].holder]
    BY <1>1, <1>4, <1>5, <2>3 DEF Lease, LeaseSnapshot, LeaseError
  <2>4. ASSUME NEW a \in Agents, agentCompleteUnparsed(a) \/ CompleteTask(a)
        PROVE  UNCHANGED <<task, silence>>
    BY <2>4 DEF agentCompleteUnparsed, CompleteTask
  <2>5. UNCHANGED vars => UNCHANGED <<task, silence>>
    BY DEF vars
  <2>6. QED
    BY <1>1, <1>6, <1>7, <1>8, <2>1, <2>2, <2>3, <2>4, <2>5 DEF Next

LEMMA NextIInv == IInv /\ [Next]_vars => IInv'
BY NextType, NextRowsBelow, NextKeys, NextSilence DEF IInv

\* The inductive invariant holds throughout.
THEOREM Inductive == Spec => []IInv
<1>1. Init => IInv
  BY InitIInv
<1>2. IInv /\ [Next]_vars => IInv'
  BY NextIInv
<1>3. QED
  BY <1>1, <1>2, PTL DEF Spec

\* No torrent ever has two rows, however its hash is spelled and whatever its
\* row's state: EnqueueTask and the dispatcher's lowercase, trimmed key.
THEOREM DedupHolds == Spec => []OneRowPerTorrent
<1>1. IInv => OneRowPerTorrent
  BY DEF IInv
<1>2. QED
  BY <1>1, Inductive, PTL

\* RenewAgentLeases covers every lease: none is older than the silence of the
\* agent that holds it.
THEOREM SilenceHolds == Spec => []LeaseNotOlderThanSilence
<1>1. IInv => LeaseNotOlderThanSilence
  BY DEF IInv
<1>2. QED
  BY <1>1, Inductive, PTL

-----------------------------------------------------------------------------
(***************************************************************************)
(* The action properties, each read off the moves of a row.                *)
(***************************************************************************)
LEMMA MovesOfARow ==
    ASSUME IInv, [Next]_vars, NEW t \in TaskId
    PROVE  /\ RowMoves /\ task[t] \in Row /\ RowShape(task[t])
           /\ NoRow.state = "none" /\ NoRow.holder = NoAgent
BY NextMoves DEF IInv, TypeOK, NoRow

\* Work is taken from a holder only after it was silent for longer than the
\* TTL, so never from one that is only taking long.
THEOREM HealthyHolds == Spec => HealthyAgentKeepsLease
<1>1. IInv /\ [Next]_vars =>
        \A t \in TaskId, a \in Agents :
           HeldBy(t, a) /\ task'[t].state = "queued" => silence[a] > TTL
  <2> SUFFICES ASSUME IInv, [Next]_vars, NEW t \in TaskId, NEW a \in Agents,
                      HeldBy(t, a), task'[t].state = "queued"
               PROVE  silence[a] > TTL
    OBVIOUS
  <2>1. task[t].state = "leased" /\ task[t].holder = a
    BY DEF HeldBy
  <2>2. Reclaimed(t)
    BY <2>1, MovesOfARow
       DEF RowMoves, Keeps, Enqueued, Retired, Leased, Reported, Closed, Finished
  <2>3. task[t].age > TTL /\ task[t].age <= silence[a]
    BY <2>1, <2>2 DEF Reclaimed, Stale, IInv, LeaseNotOlderThanSilence
  <2>4. task[t].age \in Nat /\ silence[a] \in Nat
    BY QueueAssumption DEF IInv, TypeOK, Row, Ages
  <2>5. QED
    BY <2>3, <2>4, QueueAssumption
<1>2. QED
  BY <1>1, Inductive, PTL DEF Spec, HealthyAgentKeepsLease

\* A lease moves from one agent to another only by way of the queue.
THEOREM QueueBetweenHolders == Spec => LeaseMovesThroughQueue
<1>1. IInv /\ [Next]_vars =>
        \A t \in TaskId, a \in Agents :
           HeldBy(t, a) => task'[t].holder \in {a, NoAgent}
  <2> SUFFICES ASSUME IInv, [Next]_vars, NEW t \in TaskId, NEW a \in Agents, HeldBy(t, a)
               PROVE  task'[t].holder \in {a, NoAgent}
    OBVIOUS
  <2>1. task[t].state = "leased" /\ task[t].holder = a
    BY DEF HeldBy
  <2>2. Reclaimed(t) => task'[t].holder = NoAgent
    BY MovesOfARow DEF Reclaimed, Row
  <2>3. QED
    BY <2>1, <2>2, MovesOfARow
       DEF RowMoves, Keeps, Enqueued, Retired, Leased, Reported, Closed
<1>2. QED
  BY <1>1, Inductive, PTL DEF Spec, LeaseMovesThroughQueue

\* A finished row changes no more until the operator retires it.
THEOREM FinishedStays == Spec => FinishedIsFinal
<1>1. IInv /\ [Next]_vars =>
        \A t \in TaskId : task[t].state \in Finished => task'[t] = task[t] \/ task'[t] = NoRow
  BY MovesOfARow DEF RowMoves, Keeps, Enqueued, Retired, Reclaimed, Stale, Leased, Reported,
                     Closed, Finished
<1>2. QED
  BY <1>1, Inductive, PTL DEF Spec, FinishedIsFinal

\* A leased row is finished by its holder's own completion, by nobody else's.
THEOREM HolderCloses == Spec => OnlyHolderCloses
<1>1. IInv /\ [Next]_vars =>
        \A t \in TaskId, a \in Agents :
           HeldBy(t, a) /\ task'[t].state \in Finished =>
              \E ok \in BOOLEAN : agentComplete(a, t, ok)
  <2> SUFFICES ASSUME IInv, [Next]_vars, NEW t \in TaskId, NEW a \in Agents,
                      HeldBy(t, a), task'[t].state \in Finished
               PROVE  \E ok \in BOOLEAN : agentComplete(a, t, ok)
    OBVIOUS
  <2>1. task[t].state = "leased" /\ task[t].holder = a
    BY DEF HeldBy
  <2>2. ~Reclaimed(t)
    BY MovesOfARow DEF Reclaimed, Row, Finished
  <2>3. Closed(t)
    BY <2>1, <2>2, MovesOfARow
       DEF RowMoves, Keeps, Enqueued, Retired, Leased, Reported, Finished
  <2>4. QED
    BY <2>1, <2>3 DEF Closed
<1>2. QED
  BY <1>1, Inductive, PTL DEF Spec, OnlyHolderCloses

\* A progress line that appears on a row is its holder's.
THEOREM HolderReports == Spec => OnlyHolderReports
<1>1. IInv /\ [Next]_vars =>
        \A t \in TaskId :
           task'[t].author # task[t].author /\ task'[t].state # "none" =>
              task'[t].author = task[t].holder
  <2> SUFFICES ASSUME IInv, [Next]_vars, NEW t \in TaskId,
                      task'[t].author # task[t].author, task'[t].state # "none"
               PROVE  task'[t].author = task[t].holder
    OBVIOUS
  <2>1. ~Reclaimed(t)
    BY MovesOfARow DEF Reclaimed, Row
  <2>2. ~Enqueued(t)
    BY DEF Enqueued, NoRow
  <2>3. Reported(t)
    BY <2>1, <2>2, MovesOfARow DEF RowMoves, Keeps, Retired, Leased, Closed
  <2>4. QED
    BY <2>3 DEF Reported
<1>2. QED
  BY <1>1, Inductive, PTL DEF Spec, OnlyHolderReports

-----------------------------------------------------------------------------
(***************************************************************************)
(* The refinement.  A row that waits or is worked on is an open job, one   *)
(* that is finished was dealt with; since a torrent has one row (IInv),    *)
(* what becomes of the ledger is read off that row.                        *)
(***************************************************************************)
Standing(row) == IF row.state \in Finished THEN "dealt" ELSE "open"

LedgerReads ==
    /\ \A t \in Rows : task[t].hash \in Known /\ Ledger[task[t].hash] = Standing(task[t])
    /\ \A h \in Known : (\A t \in Rows : task[t].hash # h) => Ledger[h] = "unknown"

LEMMA LedgerIsRead == IInv => LedgerReads
<1> SUFFICES ASSUME IInv PROVE LedgerReads
  OBVIOUS
<1>1. ASSUME NEW t \in Rows
      PROVE  task[t].hash \in Known /\ Ledger[task[t].hash] = Standing(task[t])
  <2>1. /\ task[t].hash \in Offers
        /\ InfoHash[task[t].hash] = task[t].hash
        /\ task[t].hash # NoHash
    BY DEF IInv, TypeOK, KeysNormal, Rows, RowShape, Row
  <2>2. task[t].hash \in Known
    BY <2>1 DEF Known
  <2>3. \A u \in Rows : task[u].hash = task[t].hash => u = t
    BY DEF IInv, OneRowPerTorrent
  <2>4. QED
    BY <2>2, <2>3 DEF Ledger, Standing
<1>2. ASSUME NEW h \in Known, \A t \in Rows : task[t].hash # h PROVE Ledger[h] = "unknown"
  BY <1>2 DEF Ledger
<1>3. QED
  BY <1>1, <1>2 DEF LedgerReads

\* The rows of a step that are the same torrent's and of the same standing
\* leave its entry alone.
SameEntry(h) ==
    /\ \A t \in Rows : task[t].hash = h =>
          t \in Rows' /\ task'[t].hash = h /\ Standing(task'[t]) = Standing(task[t])
    /\ \A t \in Rows' : task'[t].hash = h => t \in Rows /\ task[t].hash = h

LEMMA EntryStays ==
    ASSUME IInv, IInv', NEW h \in Known, SameEntry(h)
    PROVE  Ledger'[h] = Ledger[h]
<1>1. LedgerReads /\ LedgerReads'
  BY LedgerIsRead, PTL
<1>2. CASE \E t \in Rows : task[t].hash = h
  BY <1>1, <1>2 DEF LedgerReads, SameEntry
<1>3. CASE \A t \in Rows : task[t].hash # h
  BY <1>1, <1>3 DEF LedgerReads, SameEntry
<1>4. QED
  BY <1>2, <1>3

LEMMA StirsKeepsLedger == ASSUME IInv, IInv', Stirs PROVE UNCHANGED Ledger
<1>1. ASSUME NEW t \in TaskId
      PROVE  /\ t \in Rows' <=> t \in Rows
             /\ t \in Rows => task'[t].hash = task[t].hash
             /\ t \in Rows => Standing(task'[t]) = Standing(task[t])
  <2>1. task[t] \in Row
    BY DEF IInv, TypeOK
  <2>2. CASE Keeps(t)
    BY <2>2 DEF Keeps, Rows
  <2>3. CASE Reclaimed(t)
    <3>1. /\ task'[t].state = "queued"
          /\ task'[t].hash = task[t].hash
          /\ task[t].state = "leased"
      BY <2>1, <2>3 DEF Reclaimed, Stale, Row
    <3>2. QED
      BY <3>1 DEF Rows, Standing, Finished
  <2>4. CASE Leased(t) \/ Reported(t)
    BY <2>4 DEF Leased, Reported, Rows, Standing, Finished
  <2>5. QED
    BY <2>2, <2>3, <2>4 DEF Stirs
<1>2. \A h \in Known : SameEntry(h)
  BY <1>1 DEF SameEntry, Rows
<1>3. \A h \in Known : Ledger'[h] = Ledger[h]
  BY <1>2, EntryStays
<1>4. QED
  BY <1>3 DEF Ledger, Known

\* Where one torrent's entry changes, the ledger is the old one but for it.
LEMMA FunctionChange ==
    ASSUME NEW S, NEW V, NEW f \in [S -> V], NEW g \in [S -> V], NEW h \in S,
           \A k \in S : k # h => g[k] = f[k]
    PROVE  g = [f EXCEPT ![h] = g[h]]
OBVIOUS

LEMMA LedgerType == Ledger \in [Known -> {"unknown", "open", "dealt"}]
BY DEF Ledger

LEMMA EntryChanges ==
    ASSUME NEW h \in Known, \A g \in Known : g # h => Ledger'[g] = Ledger[g]
    PROVE  Ledger' = [Ledger EXCEPT ![h] = Ledger'[h]]
<1>1. Known' = Known
  BY DEF Known
<1>2. Ledger' \in [Known -> {"unknown", "open", "dealt"}]
  <2>1. (Ledger \in [Known -> {"unknown", "open", "dealt"}])'
    BY LedgerType, PTL
  <2>2. QED
    BY <1>1, <2>1
<1>3. QED
  BY <1>2, LedgerType, FunctionChange

\* A dispatched torrent the table does not know is taken up.
LEMMA DispatchTakesUp ==
    ASSUME IInv, IInv', NEW o \in Offers, Dispatch(o)
    PROVE  InfoHash[o] \in Known /\ Abstract!TakeUp(InfoHash[o])
<1> DEFINE h == InfoHash[o]
<1>1. /\ h \in Known
      /\ nextId \in TaskId
      /\ \A t \in Rows : task[t].hash # h
  BY DEF Dispatch, DispatchKey, Known
<1>2. /\ \A t \in TaskId : t # nextId => task'[t] = task[t]
      /\ task'[nextId].state = "queued"
      /\ task'[nextId].hash = h
  BY <1>1 DEF Dispatch, DispatchKey, IInv, TypeOK, NoRow
<1>3. nextId \notin Rows
  BY <1>1 DEF IInv, RowsBelowNext, TypeOK
<1>4. LedgerReads /\ LedgerReads'
  BY LedgerIsRead, PTL
<1>5. Ledger[h] = "unknown"
  BY <1>1, <1>4 DEF LedgerReads
<1>6. Ledger'[h] = "open"
  <2>1. nextId \in Rows'
    BY <1>1, <1>2 DEF Rows
  <2>2. Ledger'[h] = Standing(task'[nextId])
    BY <1>2, <1>4, <2>1 DEF LedgerReads
  <2>3. QED
    BY <1>2, <2>2 DEF Standing, Finished
<1>7. ASSUME NEW g \in Known, g # h PROVE Ledger'[g] = Ledger[g]
  <2>1. SameEntry(g)
    BY <1>2, <1>3, <1>7 DEF SameEntry, Rows
  <2>2. QED
    BY <2>1, EntryStays
<1>8. Ledger' = [Ledger EXCEPT ![h] = "open"]
  BY <1>1, <1>6, <1>7, EntryChanges
<1>9. QED
  BY <1>1, <1>5, <1>8 DEF Abstract!TakeUp

\* A deleted row's torrent is forgotten.
LEMMA DeleteRetires ==
    ASSUME IInv, IInv', NEW t \in TaskId, DeleteTask(t)
    PROVE  task[t].hash \in Known /\ Abstract!Retire(task[t].hash)
<1> DEFINE h == task[t].hash
<1>1. LedgerReads /\ LedgerReads'
  BY LedgerIsRead, PTL
<1>2. /\ RetireTasks
      /\ t \in Rows
      /\ h \in Known
      /\ Ledger[h] = Standing(task[t])
  BY <1>1 DEF DeleteTask, LedgerReads
<1>3. /\ \A u \in TaskId : u # t => task'[u] = task[u]
      /\ task'[t].state = "none"
  BY DEF DeleteTask, IInv, TypeOK, NoRow
<1>4. \A u \in Rows : task[u].hash = h => u = t
  BY <1>2 DEF IInv, OneRowPerTorrent
<1>5. Ledger'[h] = "unknown"
  <2>1. \A u \in Rows' : task'[u].hash # h
    BY <1>3, <1>4 DEF Rows
  <2>2. h \in Known'
    BY <1>2 DEF Known
  <2>3. QED
    BY <1>1, <2>1, <2>2 DEF LedgerReads
<1>6. ASSUME NEW g \in Known, g # h PROVE Ledger'[g] = Ledger[g]
  <2>1. SameEntry(g)
    BY <1>3, <1>6 DEF SameEntry, Rows
  <2>2. QED
    BY <2>1, EntryStays
<1>7. Ledger' = [Ledger EXCEPT ![h] = "unknown"]
  BY <1>2, <1>5, <1>6, EntryChanges
<1>8. QED
  BY <1>2, <1>7 DEF Abstract!Retire, Standing

\* A completion deals with the job of the row it closes, or changes nothing.
LEMMA CompletionDeals ==
    ASSUME IInv, IInv', NEW a \in Agents, NEW lock \in known[a], NEW ok \in BOOLEAN,
           agentComplete(a, lock, ok)
    PROVE  UNCHANGED Ledger \/ \E h \in Known : Abstract!Deal(h)
<1>1. lock \in TaskId /\ task[lock] \in Row
  BY DEF IInv, TypeOK
<1>2. CASE UNCHANGED task
  BY <1>2, StirsKeepsLedger DEF Stirs, Keeps
<1>3. CASE task' = [task EXCEPT ![lock] = CloseRow(task[lock], a, ok)] /\ ~HeldBy(lock, a)
  <2>1. \A t \in TaskId : task'[t] = task[t]
    BY <1>1, <1>3 DEF CloseRow, HeldBy, IInv, TypeOK
  <2>2. QED
    BY <2>1, StirsKeepsLedger DEF Stirs, Keeps
<1>4. CASE task' = [task EXCEPT ![lock] = CloseRow(task[lock], a, ok)] /\ HeldBy(lock, a)
  <2> DEFINE h == task[lock].hash
  <2>1. /\ \A t \in TaskId : t # lock => task'[t] = task[t]
        /\ task'[lock] = CloseRow(task[lock], a, ok)
    BY <1>1, <1>4 DEF IInv, TypeOK
  <2>2. /\ task[lock].state = "leased"
        /\ task'[lock].state \in Finished
        /\ task'[lock].hash = h
    BY <1>1, <1>4, <2>1 DEF CloseRow, HeldBy, Row, Finished
  <2>3. LedgerReads /\ LedgerReads'
    BY LedgerIsRead, PTL
  <2>4. lock \in Rows /\ lock \in Rows'
    BY <1>1, <2>2 DEF Rows, Finished
  <2>5. h \in Known /\ Ledger[h] = "open" /\ Ledger'[h] = "dealt"
    BY <2>2, <2>3, <2>4 DEF LedgerReads, Standing, Finished
  <2>6. ASSUME NEW g \in Known, g # h PROVE Ledger'[g] = Ledger[g]
    <3>1. SameEntry(g)
      BY <2>1, <2>2, <2>6 DEF SameEntry, Rows
    <3>2. QED
      BY <3>1, EntryStays
  <2>7. Ledger' = [Ledger EXCEPT ![h] = "dealt"]
    BY <2>5, <2>6, EntryChanges
  <2>8. QED
    BY <2>5, <2>7 DEF Abstract!Deal
<1>5. QED
  BY <1>2, <1>3, <1>4 DEF agentComplete

\* The queue implements the ledger: whatever agents, leases, crashes, lost
\* answers and failed statements do, a torrent is taken up once, dealt with
\* once, and taken up again only after the operator retired its row.
THEOREM QueueImplementsLedger == Spec => DealtWithOnce
<1>1. Init => Abstract!Init
  BY DEF Init, Abstract!Init, Ledger, Rows, NoRow
<1>2. IInv /\ IInv' /\ [Next]_vars => [Abstract!Next]_Ledger
  <2> SUFFICES ASSUME IInv, IInv', [Next]_vars PROVE [Abstract!Next]_Ledger
    OBVIOUS
  <2>1. ASSUME NEW o \in Offers, Dispatch(o) PROVE Abstract!Next
    BY <2>1, DispatchTakesUp DEF Abstract!Next
  <2>2. ASSUME NEW t \in TaskId, DeleteTask(t) PROVE Abstract!Next
    BY <2>2, DeleteRetires DEF Abstract!Next
  <2>3. ASSUME NEW a \in Agents, NEW lock \in known[a], NEW ok \in BOOLEAN,
               agentComplete(a, lock, ok)
        PROVE  [Abstract!Next]_Ledger
    BY <2>3, CompletionDeals DEF Abstract!Next
  <2>4. CASE Stirs
    BY <2>4, StirsKeepsLedger
  <2>5. QED
    BY <2>1, <2>2, <2>3, <2>4, NextStirs DEF IInv
<1>3. QED
  BY <1>1, <1>2, Inductive, PTL DEF Spec, DealtWithOnce, Abstract!Spec

-----------------------------------------------------------------------------
(***************************************************************************)
(* The caps and the counters, where a worker asks for one task at a time   *)
(* and no statement fails.  The count a poll's snapshot took stays an      *)
(* upper bound of what the agent holds, since only a poll of the agent's   *)
(* own raises it; and a completed row is in the counter, or its bump is    *)
(* under way.                                                              *)
(***************************************************************************)
OnePollAtATime == \A s, u \in PollSlots : s = u

CompletedBy(a) == {t \in TaskId : task[t].state = "completed" /\ task[t].holder = a}
BumpDue(a) == IF comp[a].pc = "bump" THEN 1 ELSE 0

SnapshotsCover ==
    \A a \in Agents, s \in PollSlots :
        poll[a][s].pc = "take" => Cardinality(Held(a)) <= poll[a][s].held

CountersCover ==
    \A a \in Agents : agent[a].row # "gone" =>
        Cardinality(CompletedBy(a)) <= agent[a].completed + BumpDue(a)

BumpsAreKnown == \A a \in Agents : comp[a].pc = "bump" => agent[a].row # "new"

CountInv == IInv /\ SnapshotsCover /\ CountersCover /\ BumpsAreKnown

LEMMA RowsAreFinite ==
    ASSUME NEW S \in SUBSET TaskId
    PROVE  IsFiniteSet(S) /\ Cardinality(S) \in Nat
<1>1. IsFiniteSet(TaskId)
  BY FS_Interval, QueueAssumption DEF TaskId
<1>2. QED
  BY <1>1, FS_Subset, FS_CardinalityType

LEMMA FewerRows ==
    ASSUME NEW S \in SUBSET TaskId, NEW T \in SUBSET TaskId, S \subseteq T
    PROVE  Cardinality(S) <= Cardinality(T)
BY RowsAreFinite, FS_Subset

LEMMA OneRowMore ==
    ASSUME NEW S \in SUBSET TaskId, NEW T \in SUBSET TaskId, NEW t, S \subseteq T \cup {t}
    PROVE  Cardinality(S) <= Cardinality(T) + 1
<1>1. IsFiniteSet(T) /\ Cardinality(T) \in Nat
  BY RowsAreFinite
<1>2. /\ IsFiniteSet(T \cup {t})
      /\ Cardinality(T \cup {t}) \in {Cardinality(T), Cardinality(T) + 1}
  BY <1>1, FS_AddElement
<1>3. Cardinality(S) <= Cardinality(T \cup {t})
  BY <1>2, FS_Subset
<1>4. Cardinality(S) \in Nat
  BY RowsAreFinite
<1>5. QED
  BY <1>1, <1>2, <1>3, <1>4

\* Only a poll of its own gives an agent a row.
LEMMA HeldMoves ==
    ASSUME IInv, [Next]_vars, NEW a \in Agents, \A s \in PollSlots : ~LeaseTake(a, s)
    PROVE  Held(a)' \subseteq Held(a)
<1> SUFFICES ASSUME NEW t \in TaskId, task'[t].state = "leased", task'[t].holder = a
             PROVE  task[t].state = "leased" /\ task[t].holder = a
  BY DEF Held
<1>1. ~Retired(t) /\ ~Enqueued(t) /\ ~Closed(t) /\ ~Leased(t)
  BY MovesOfARow DEF Retired, Enqueued, Closed, Leased, Finished
<1>2. ~Reclaimed(t)
  BY MovesOfARow DEF Reclaimed, Row
<1>3. Keeps(t) \/ Reported(t)
  BY <1>1, <1>2, MovesOfARow DEF RowMoves
<1>4. QED
  BY <1>3 DEF Keeps, Reported

\* A poll about to take a row was about to before, or has just counted.
LEMMA PollMoves ==
    ASSUME TypeOK, [Next]_vars, NEW a \in Agents, NEW s \in PollSlots,
           poll'[a][s].pc = "take"
    PROVE  \/ poll[a][s].pc = "take" /\ poll'[a][s].held = poll[a][s].held
           \/ LeaseSnapshot(a, s)
<1> DEFINE Goal == \/ poll[a][s].pc = "take" /\ poll'[a][s].held = poll[a][s].held
                   \/ LeaseSnapshot(a, s)
<1>0. poll[a][s] \in PollRec /\ poll \in [Agents -> [PollSlots -> PollRec]]
  BY DEF TypeOK
<1>1. UNCHANGED poll => Goal
  OBVIOUS
<1>2. ASSUME NEW b \in Agents, NEW u \in PollSlots, b # a \/ u # s,
             NEW p, poll' = [poll EXCEPT ![b][u] = p]
      PROVE  Goal
  BY <1>0, <1>2
<1>3. ASSUME NEW b \in Agents, Crash(b) PROVE Goal
  <2>1. CASE b = a
    <3>1. poll'[a][s] = [poll[a][s] EXCEPT !.conn = FALSE]
      BY <1>0, <1>3, <2>1 DEF Crash
    <3>2. QED
      BY <1>0, <3>1 DEF PollRec
  <2>2. CASE b # a
    BY <1>0, <1>3, <2>2 DEF Crash
  <2>3. QED
    BY <2>1, <2>2
<1>4. ASSUME NEW b \in Agents, NEW u \in PollSlots,
             agentPoll(b, u) \/ Lease(b, u) \/ LeaseError(b, u)
      PROVE  Goal
  <2>0. (LeaseTake(b, u) \/ LeaseError(b, u)) => poll' = [poll EXCEPT ![b][u] = IdlePoll]
    BY DEF LeaseTake, LeaseError
  <2>1. CASE b # a \/ u # s
    <3>1. CASE agentPoll(b, u)
      BY <1>2, <2>1, <3>1 DEF agentPoll
    <3>2. CASE LeaseSnapshot(b, u)
      BY <1>0, <2>1, <3>2 DEF LeaseSnapshot
    <3>3. CASE LeaseTake(b, u) \/ LeaseError(b, u)
      BY <1>2, <2>0, <2>1, <3>3
    <3>4. QED
      BY <1>4, <3>1, <3>2, <3>3 DEF Lease
  <2>2. CASE b = a /\ u = s
    <3>1. CASE agentPoll(a, s)
      BY <1>0, <3>1 DEF agentPoll, IdlePoll
    <3>2. CASE LeaseTake(a, s) \/ LeaseError(a, s)
      <4>1. poll'[a][s] = IdlePoll
        BY <1>0, <2>0, <2>2, <3>2
      <4>2. QED
        BY <4>1 DEF IdlePoll
    <3>3. QED
      BY <1>4, <2>2, <3>1, <3>2 DEF Lease
  <2>3. QED
    BY <2>1, <2>2
<1>5. QED
  BY <1>1, <1>3, <1>4
     DEF Next, vars, Site, Worker, Dispatch, DeleteTask, SetAgentMaxConcurrent, DeleteAgent,
         Register, Restart, Report, agentComplete, agentCompleteUnparsed, CompleteTask, Tick

LEMMA NextSnapshots ==
    ASSUME OnePollAtATime
    PROVE  IInv /\ SnapshotsCover /\ [Next]_vars => SnapshotsCover'
<1> SUFFICES ASSUME IInv, SnapshotsCover, [Next]_vars, NEW a \in Agents, NEW s \in PollSlots,
                    poll'[a][s].pc = "take"
             PROVE  Cardinality(Held(a)') <= poll'[a][s].held
  BY DEF SnapshotsCover
<1>0. /\ TypeOK
      /\ poll[a][s] \in PollRec
      /\ poll \in [Agents -> [PollSlots -> PollRec]]
  BY DEF IInv, TypeOK
<1>1. CASE LeaseSnapshot(a, s)
  <2>1. poll'[a][s].held = Cardinality(Held(a)) /\ Held(a)' = Held(a)
    BY <1>0, <1>1 DEF LeaseSnapshot, Held, PollRec
  <2>2. Cardinality(Held(a)) \in Nat
    BY HeldCount
  <2>3. QED
    BY <2>1, <2>2
<1>2. CASE poll[a][s].pc = "take" /\ poll'[a][s].held = poll[a][s].held
  <2>1. \A u \in PollSlots : ~LeaseTake(a, u)
    <3> SUFFICES ASSUME LeaseTake(a, s) PROVE FALSE
      BY DEF OnePollAtATime
    <3>1. poll' = [poll EXCEPT ![a][s] = IdlePoll]
      BY DEF LeaseTake
    <3>2. poll'[a][s] = IdlePoll
      BY <1>0, <3>1
    <3>3. QED
      BY <3>2 DEF IdlePoll
  <2>2. Held(a)' \subseteq Held(a)
    BY <2>1, HeldMoves
  <2>3. Cardinality(Held(a)') <= Cardinality(Held(a))
    BY <2>2, FewerRows DEF Held
  <2>4. Cardinality(Held(a)) <= poll[a][s].held
    BY <1>2 DEF SnapshotsCover
  <2>5. /\ Cardinality(Held(a)) \in Nat
        /\ Cardinality(Held(a)') \in Nat
        /\ poll[a][s].held \in Nat
    BY <1>0, HeldCount, <2>2, RowsAreFinite DEF PollRec, Held
  <2>6. QED
    BY <1>2, <2>3, <2>4, <2>5
<1>3. QED
  BY <1>0, <1>1, <1>2, PollMoves

\* Only a completion of its own adds to what an agent completed.
LEMMA CompletedMoves ==
    ASSUME IInv, [Next]_vars, NEW a \in Agents, NEW t \in CompletedBy(a)'
    PROVE  /\ t \in TaskId
           /\ t \in CompletedBy(a) \/ \E ok \in BOOLEAN : agentComplete(a, t, ok)
<1>1. t \in TaskId /\ task'[t].state = "completed" /\ task'[t].holder = a
  BY DEF CompletedBy
<1>2. CASE Keeps(t)
  BY <1>1, <1>2 DEF Keeps, CompletedBy
<1>3. CASE Closed(t)
  BY <1>1, <1>3 DEF Closed
<1>4. CASE Reclaimed(t)
  BY <1>1, <1>4, MovesOfARow DEF Reclaimed, Row
<1>5. ~Retired(t) /\ ~Enqueued(t) /\ ~Leased(t) /\ ~Reported(t)
  BY <1>1, MovesOfARow DEF Retired, Enqueued, Leased, Reported
<1>6. QED
  BY <1>1, <1>2, <1>3, <1>4, <1>5, MovesOfARow DEF RowMoves

\* What a step does to one agent's counter and to its completion in flight.
AgentStays(a) ==
    /\ agent'[a].completed = agent[a].completed
    /\ agent'[a].row # "gone" => agent[a].row # "gone"
    /\ comp'[a].pc = comp[a].pc
    /\ agent'[a].row = "new" => agent[a].row = "new"

LEMMA AgentMoves ==
    ASSUME TypeOK, [Next]_vars, ~Faults, NEW a \in Agents
    PROVE  \/ AgentStays(a)
           \/ CompleteTask(a)
           \/ \E lock \in known[a] : agentComplete(a, lock, TRUE)
<1>0. /\ agent \in [Agents -> [row : {"new", "live", "gone"}, cap : Caps, completed : Nat]]
      /\ comp \in [Agents -> CompRec]
      /\ agent[a] \in [row : {"new", "live", "gone"}, cap : Caps, completed : Nat]
  BY DEF TypeOK
<1>1. UNCHANGED <<agent, comp>> => AgentStays(a)
  BY DEF AgentStays
<1>2. ASSUME NEW b \in Agents, NEW n \in Caps, SetAgentMaxConcurrent(b, n) PROVE AgentStays(a)
  BY <1>0, <1>2 DEF SetAgentMaxConcurrent, AgentStays
<1>3. ASSUME NEW b \in Agents, DeleteAgent(b) PROVE AgentStays(a)
  BY <1>0, <1>3 DEF DeleteAgent, AgentStays
<1>4. ASSUME NEW b \in Agents, Worker(b) PROVE AgentStays(a)
  <2>1. CASE Register(b)
    BY <1>0, <2>1 DEF Register, AgentStays
  <2>2. CASE Crash(b)
    <3>1. comp'[a].pc = comp[a].pc
      BY <1>0, <2>2 DEF Crash, CompRec
    <3>2. QED
      BY <2>2, <3>1 DEF Crash, AgentStays
  <2>3. CASE Restart(b)
    BY <1>1, <2>3 DEF Restart
  <2>4. QED
    BY <1>4, <2>1, <2>2, <2>3 DEF Worker
<1>5. ASSUME NEW b \in Agents, b # a, CompleteTask(b) PROVE AgentStays(a)
  BY <1>0, <1>5 DEF CompleteTask, AgentStays
<1>6. ASSUME NEW b \in Agents, NEW lock \in known[b], NEW ok \in BOOLEAN,
             agentComplete(b, lock, ok), b # a \/ ~ok
      PROVE  AgentStays(a)
  BY <1>0, <1>6 DEF agentComplete, AgentStays
<1>7. \A b \in Agents : ~agentCompleteUnparsed(b)
  BY DEF agentCompleteUnparsed
<1>8. CASE UNCHANGED <<agent, comp>>
  BY <1>1, <1>8
<1>9. CASE ~UNCHANGED <<agent, comp>>
  <2>1. \/ \E b \in Agents, n \in Caps : SetAgentMaxConcurrent(b, n)
        \/ \E b \in Agents : DeleteAgent(b) \/ Worker(b) \/ CompleteTask(b)
        \/ \E b \in Agents : \E lock \in known[b], ok \in BOOLEAN : agentComplete(b, lock, ok)
    BY <1>7, <1>9
       DEF Next, vars, Site, Dispatch, DeleteTask, agentPoll, Lease, LeaseSnapshot, LeaseTake,
           LeaseError, Report, Tick
  <2>2. QED
    BY <1>2, <1>3, <1>4, <1>5, <1>6, <2>1
<1>10. QED
  BY <1>8, <1>9

LEMMA NextCounters ==
    ASSUME ~Faults
    PROVE  IInv /\ CountersCover /\ BumpsAreKnown /\ [Next]_vars => CountersCover' /\ BumpsAreKnown'
<1> SUFFICES ASSUME IInv, CountersCover, BumpsAreKnown, [Next]_vars, NEW a \in Agents
             PROVE  /\ agent'[a].row # "gone" =>
                          Cardinality(CompletedBy(a)') <= agent'[a].completed + BumpDue(a)'
                    /\ comp'[a].pc = "bump" => agent'[a].row # "new"
  BY DEF CountersCover, BumpsAreKnown
<1>0. /\ TypeOK
      /\ TypeOK'
      /\ CompletedBy(a) \in SUBSET TaskId
      /\ CompletedBy(a)' \in SUBSET TaskId
      /\ agent[a].completed \in Nat
      /\ agent'[a].completed \in Nat
      /\ agent \in [Agents -> [row : {"new", "live", "gone"}, cap : Caps, completed : Nat]]
      /\ comp \in [Agents -> CompRec]
  BY NextType DEF IInv, TypeOK, CompletedBy
<1>1. Cardinality(CompletedBy(a)) \in Nat /\ Cardinality(CompletedBy(a)') \in Nat
  BY <1>0, RowsAreFinite
<1>2. /\ agent[a].row # "gone" => Cardinality(CompletedBy(a)) <= agent[a].completed + BumpDue(a)
      /\ comp[a].pc = "bump" => agent[a].row # "new"
  BY DEF CountersCover, BumpsAreKnown
<1>3. ASSUME \A lock \in known[a] : ~agentComplete(a, lock, TRUE)
      PROVE  Cardinality(CompletedBy(a)') <= Cardinality(CompletedBy(a))
  <2>1. CompletedBy(a)' \subseteq CompletedBy(a)
    <3> SUFFICES ASSUME NEW t \in CompletedBy(a)', t \notin CompletedBy(a) PROVE FALSE
      OBVIOUS
    <3>1. t \in TaskId /\ agentComplete(a, t, FALSE)
      BY <1>3, CompletedMoves DEF agentComplete
    <3>2. task'[t] = task[t] \/ task'[t] = CloseRow(task[t], a, FALSE)
      BY <1>0, <3>1 DEF agentComplete, TypeOK
    <3>3. task[t] \in Row
      BY <1>0, <3>1 DEF TypeOK
    <3>4. QED
      BY <3>1, <3>2, <3>3 DEF CloseRow, CompletedBy, Row
  <2>2. QED
    BY <1>0, <2>1, FewerRows
<1>4. CASE AgentStays(a) /\ \A lock \in known[a] : ~agentComplete(a, lock, TRUE)
  <2>1. BumpDue(a)' = BumpDue(a) /\ BumpDue(a) \in Nat
    BY <1>4 DEF AgentStays, BumpDue
  <2>2. Cardinality(CompletedBy(a)') <= Cardinality(CompletedBy(a))
    BY <1>3, <1>4
  <2>3. comp'[a].pc = "bump" => agent'[a].row # "new"
    BY <1>2, <1>4 DEF AgentStays
  <2>4. ASSUME agent'[a].row # "gone"
        PROVE  Cardinality(CompletedBy(a)') <= agent'[a].completed + BumpDue(a)'
    <3>1. Cardinality(CompletedBy(a)) <= agent'[a].completed + BumpDue(a)'
      BY <1>2, <1>4, <2>1, <2>4 DEF AgentStays
    <3>2. QED
      BY <1>0, <1>1, <2>1, <2>2, <3>1
  <2>5. QED
    BY <2>3, <2>4
<1>5. CASE CompleteTask(a)
  <2>1. Cardinality(CompletedBy(a)') <= Cardinality(CompletedBy(a))
    BY <1>3, <1>5 DEF CompleteTask, agentComplete, CanComplete
  <2>2. comp[a].pc = "bump" /\ comp'[a] = IdleComp
    BY <1>0, <1>5 DEF CompleteTask
  <2>3. agent' = [agent EXCEPT ![a].completed = @ + Bump(a)]
    BY <1>5 DEF CompleteTask
  <2>4. /\ agent'[a].row = agent[a].row
        /\ agent'[a].completed = agent[a].completed + Bump(a)
    BY <1>0, <2>3
  <2>5. agent'[a].row # "gone" => Bump(a) = 1
    BY <1>0, <1>2, <2>2, <2>4 DEF Bump
  <2>6. BumpDue(a) = 1 /\ BumpDue(a)' = 0 /\ comp'[a].pc # "bump"
    BY <2>2 DEF BumpDue, IdleComp
  <2>7. QED
    BY <1>0, <1>1, <1>2, <2>1, <2>4, <2>5, <2>6
<1>6. ASSUME NEW lock \in known[a], agentComplete(a, lock, TRUE)
      PROVE  /\ agent'[a].row # "gone" =>
                   Cardinality(CompletedBy(a)') <= agent'[a].completed + BumpDue(a)'
             /\ comp'[a].pc = "bump" => agent'[a].row # "new"
  <2>1. /\ agent' = agent
        /\ agent[a].row = "live"
        /\ comp[a].pc = "idle"
        /\ comp'[a].pc = "bump"
    BY <1>0, <1>6 DEF agentComplete, CanComplete, Running
  <2>2. CompletedBy(a)' \subseteq CompletedBy(a) \cup {lock}
    <3> SUFFICES ASSUME NEW t \in CompletedBy(a)', t # lock PROVE t \in CompletedBy(a)
      OBVIOUS
    <3>1. t \in TaskId /\ task'[t] = task[t]
      BY <1>0, <1>6 DEF agentComplete, TypeOK, CompletedBy
    <3>2. QED
      BY <3>1 DEF CompletedBy
  <2>3. Cardinality(CompletedBy(a)') <= Cardinality(CompletedBy(a)) + 1
    BY <1>0, <2>2, OneRowMore
  <2>4. BumpDue(a) = 0 /\ BumpDue(a)' = 1
    BY <2>1 DEF BumpDue
  <2>5. QED
    BY <1>0, <1>1, <1>2, <2>1, <2>3, <2>4
<1>7. QED
  BY <1>0, <1>4, <1>5, <1>6, AgentMoves

LEMMA InitCount == Init => CountInv
<1> SUFFICES ASSUME Init PROVE CountInv
  OBVIOUS
<1>1. IInv
  BY InitIInv
<1>2. SnapshotsCover /\ BumpsAreKnown
  BY DEF Init, SnapshotsCover, BumpsAreKnown, IdlePoll, IdleComp
<1>3. ASSUME NEW a \in Agents
      PROVE  Cardinality(CompletedBy(a)) <= agent[a].completed + BumpDue(a)
  <2>1. CompletedBy(a) = {}
    BY DEF Init, CompletedBy, NoRow
  <2>2. Cardinality(CompletedBy(a)) = 0
    BY <2>1, FS_EmptySet
  <2>3. agent[a].completed = 0 /\ BumpDue(a) = 0
    BY DEF Init, BumpDue, IdleComp
  <2>4. QED
    BY <2>2, <2>3
<1>4. QED
  BY <1>1, <1>2, <1>3 DEF CountInv, CountersCover

LEMMA CountInductive ==
    ASSUME OnePollAtATime, ~Faults
    PROVE  Spec => []CountInv
<1>1. Init => CountInv
  BY InitCount
<1>2. CountInv /\ [Next]_vars => CountInv'
  BY NextIInv, NextSnapshots, NextCounters DEF CountInv
<1>3. QED
  BY <1>1, <1>2, PTL DEF Spec

\* LeaseNextTask's count over the leased rows keeps an agent within the cap its
\* poll was answered under, and every row an agent completed is in its lifetime
\* counter or about to be: for workers that ask for one task at a time, of a
\* site whose statements do not fail.
THEOREM CapsAndCountersHold ==
    ASSUME OnePollAtATime, ~Faults
    PROVE  Spec => CappedAndCounted
<1>1. CountInv => CompletionsAreCounted
  BY DEF CountInv, CountersCover, CompletionsAreCounted, CompletedBy, BumpDue
<1>2. CountInv /\ [Next]_vars =>
        \A a \in Agents, s \in PollSlots :
           LeaseTake(a, s) /\ task' # task => Cardinality(Held(a)') <= poll[a][s].cap
  <2> SUFFICES ASSUME CountInv, [Next]_vars, NEW a \in Agents, NEW s \in PollSlots,
                      LeaseTake(a, s), task' # task
               PROVE  Cardinality(Held(a)') <= poll[a][s].cap
    OBVIOUS
  <2>0. TypeOK /\ poll[a][s] \in PollRec
    BY DEF CountInv, IInv, TypeOK
  <2>1. poll[a][s].pc = "take" /\ CanTake(poll[a][s])
    BY DEF LeaseTake
  <2>2. PICK t \in Oldest(Takeable(poll[a][s])) :
          task' = [task EXCEPT ![t].state = "leased", ![t].holder = a, ![t].age = 0]
    BY DEF LeaseTake
  <2>3. Held(a)' \subseteq Held(a) \cup {t}
    BY <2>0, <2>2 DEF Held, TypeOK
  <2>4. Cardinality(Held(a)') <= Cardinality(Held(a)) + 1
    BY <2>3, OneRowMore DEF Held
  <2>5. Cardinality(Held(a)) <= poll[a][s].held /\ poll[a][s].held < poll[a][s].cap
    BY <2>1 DEF CountInv, SnapshotsCover, CanTake
  <2>6. /\ Cardinality(Held(a)) \in Nat
        /\ Cardinality(Held(a)') \in Nat
        /\ poll[a][s].held \in Nat
        /\ poll[a][s].cap \in Nat
    BY <2>0, RowsAreFinite DEF PollRec, Held
  <2>7. QED
    BY <2>4, <2>5, <2>6
<1>3. QED
  BY <1>1, <1>2, CountInductive, PTL DEF Spec, CappedAndCounted, GrantWithinCap
=============================================================================

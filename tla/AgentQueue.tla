------------------------------ MODULE AgentQueue ------------------------------
(***************************************************************************)
(* The fleet's work queue: table agent_task and the verbs of /api/agent    *)
(* that move a row through it.  The schedule job DISPATCHes a grab, an     *)
(* agent's poll LEASEs a row, reports RENEW its leases, a completion       *)
(* CLOSEs it, and the next poll of anybody RECLAIMs what went stale.       *)
(*                                                                         *)
(* A step is one SQL statement with the code around it; a handler that     *)
(* writes with several statements takes several steps, which interleave    *)
(* with everybody else's (agentProgress, whose second statement re-checks  *)
(* the lease by itself, is one).  The lease statement is itself two steps: *)
(* under READ COMMITTED it counts and lists rows on the snapshot taken     *)
(* when it starts, and locks and writes a row later.                       *)
(*                                                                         *)
(* leased_at is kept as the AGE of the lease, a clock that stops at TTL+1: *)
(* a row is stale exactly when leased_at < now() - taskLeaseTTL.           *)
(***************************************************************************)
EXTENDS Naturals, FiniteSets

CONSTANTS
    Agents,        \* ids of table agent; an id is never reused
    NoAgent,       \* SQL NULL in leased_agent_id
    PollSlots,     \* polls one worker may have outstanding at once
    Offers,        \* torrents as the trackers spell them
    InfoHash,      \* the lowercased, trimmed spelling of an offer
    NoHash,        \* the empty info hash
    MaxTasks,      \* bound: rows ever inserted (BIGSERIAL ids 1..MaxTasks)
    Caps,          \* values of agent.max_concurrent
    DefaultCap,    \* its column default
    TTL,           \* taskLeaseTTL, in ticks
    MaxCompleted,  \* bound: completions one worker reports
    MaxInFlight,   \* bound: polls and completions the site serves at once
    Prompt,        \* agents that report at least once per TTL while they run
    Mortal,        \* agents whose process may crash
    Restarts,      \* whether a crashed worker may come back under its name
    Lossy,         \* whether a response may be lost on its way to the worker
    ProgressLines, \* whether workers file progress lines besides statuses
    Faults,        \* whether a statement may fail, or a body fail to parse
    RetireAgents,  \* agents the operator or their owner may delete
    RetireTasks    \* whether the operator may delete queue rows

TaskId == 1 .. MaxTasks
NoLock == 0

ASSUME QueueAssumption ==
    /\ NoAgent \notin Agents
    /\ MaxTasks \in Nat /\ TTL \in Nat /\ MaxCompleted \in Nat /\ MaxInFlight \in Nat
    /\ Caps \subseteq Nat \ {0} /\ DefaultCap \in Caps
    /\ NoHash \notin Offers /\ InfoHash \in [Offers -> Offers \cup {NoHash}]
    /\ \A o \in Offers : InfoHash[o] # NoHash => InfoHash[InfoHash[o]] = InfoHash[o]
    /\ Prompt \subseteq Agents /\ Mortal \subseteq Agents /\ RetireAgents \subseteq Agents
    /\ Restarts \in BOOLEAN /\ Lossy \in BOOLEAN /\ Faults \in BOOLEAN /\ RetireTasks \in BOOLEAN
    /\ ProgressLines \in BOOLEAN
    /\ PollSlots # {}

VARIABLES
    task,     \* agent_task: [TaskId -> Row], state "none" where there is no row
    nextId,   \* the id sequence
    agent,    \* agent: is there a row, its cap, its lifetime counter
    worker,   \* the process behind each agent row (loon-agent, external)
    known,    \* lock ids the worker has been told it holds (external)
    poll,     \* agentPoll handlers in flight, per agent and slot
    comp,     \* agentComplete handlers in flight, one per agent
    silence,  \* history: ticks since the agent's leases were last renewed
    grants    \* history: leases the agent was given, counted up to MaxCompleted

vars == <<task, nextId, agent, worker, known, poll, comp, silence, grants>>

(***************************************************************************)
(* Types.                                                                  *)
(***************************************************************************)
States == {"none", "queued", "leased", "completed", "failed"}
Finished == {"completed", "failed"}
Ages == 0 .. TTL + 1

Row == [state : States, hash : Offers \cup {NoHash}, holder : Agents \cup {NoAgent},
        age : Ages, author : Agents \cup {NoAgent}]
NoRow == [state |-> "none", hash |-> NoHash, holder |-> NoAgent,
          age |-> 0, author |-> NoAgent]

\* leased_agent_id is NULL in the queue and names the holder from the lease on.
RowShape(row) ==
    /\ IF row.state = "none" THEN row = NoRow ELSE row.hash # NoHash
    /\ row.state = "queued" => row.holder = NoAgent
    /\ row.state \in {"leased", "completed", "failed"} => row.holder \in Agents

PollRec == [pc : {"idle", "count", "take"}, conn : BOOLEAN, cap : Nat,
            held : Nat, seen : SUBSET TaskId]
IdlePoll == [pc |-> "idle", conn |-> FALSE, cap |-> 0, held |-> 0, seen |-> {}]

CompRec == [pc : {"idle", "bump"}, conn : BOOLEAN, lock : TaskId \cup {NoLock}]
IdleComp == [pc |-> "idle", conn |-> FALSE, lock |-> NoLock]

\* The type invariant, with the shape of a row in each of its states.
TypeOK ==
    /\ task \in [TaskId -> Row]
    /\ nextId \in 1 .. MaxTasks + 1
    /\ agent \in [Agents -> [row : {"new", "live", "gone"}, cap : Caps,
                             completed : Nat]]
    /\ worker \in [Agents -> {"off", "on", "crashed", "again"}]
    /\ known \in [Agents -> SUBSET TaskId]
    /\ poll \in [Agents -> [PollSlots -> PollRec]]
    /\ comp \in [Agents -> CompRec]
    /\ silence \in [Agents -> Ages]
    /\ grants \in [Agents -> 0 .. MaxCompleted]
    /\ \A t \in TaskId : RowShape(task[t])

Init ==
    /\ task = [t \in TaskId |-> NoRow]
    /\ nextId = 1
    /\ agent = [a \in Agents |-> [row |-> "new", cap |-> DefaultCap, completed |-> 0]]
    /\ worker = [a \in Agents |-> "off"]
    /\ known = [a \in Agents |-> {}]
    /\ poll = [a \in Agents |-> [s \in PollSlots |-> IdlePoll]]
    /\ comp = [a \in Agents |-> IdleComp]
    /\ silence = [a \in Agents |-> 0]
    /\ grants = [a \in Agents |-> 0]

Rows == {t \in TaskId : task[t].state # "none"}
Queued == {t \in TaskId : task[t].state = "queued"}
Held(a) == {t \in TaskId : task[t].state = "leased" /\ task[t].holder = a}
HeldBy(t, a) == task[t].state = "leased" /\ task[t].holder = a
Stale(row) == row.state = "leased" /\ row.age > TTL
Older(n) == IF n > TTL THEN n ELSE n + 1
Oldest(S) == {t \in S : \A u \in S : t <= u}
InFlight == {c \in Agents \X PollSlots : poll[c[1]][c[2]].pc # "idle"}
            \cup {a \in Agents : comp[a].pc # "idle"}
CanServe == Cardinality(InFlight) < MaxInFlight
Running(a) == agent[a].row = "live" /\ worker[a] \in {"on", "again"}

(***************************************************************************)
(* The site's side of the queue.                                           *)
(***************************************************************************)

\* agentDispatcher.Dispatch and EnqueueTask: the key is the lowercased,
\* trimmed hash; an empty one is refused, and one the table knows, in ANY
\* state, is not queued again (ON CONFLICT DO NOTHING).
DispatchKeyAsSpelled(o) == o
DispatchKey(o) == InfoHash[o]

DispatchPastFinished(o) ==
    /\ InfoHash[o] # NoHash
    /\ \A t \in Rows : task[t].hash = DispatchKey(o) => task[t].state \in Finished
    /\ nextId \in TaskId
    /\ task' = [task EXCEPT ![nextId] =
                   [NoRow EXCEPT !.state = "queued", !.hash = DispatchKey(o)]]
    /\ nextId' = nextId + 1
    /\ UNCHANGED <<agent, worker, known, poll, comp, silence, grants>>

Dispatch(o) ==
    /\ InfoHash[o] # NoHash
    /\ \A t \in Rows : task[t].hash # DispatchKey(o)
    /\ nextId \in TaskId
    /\ task' = [task EXCEPT ![nextId] =
                   [NoRow EXCEPT !.state = "queued", !.hash = DispatchKey(o)]]
    /\ nextId' = nextId + 1
    /\ UNCHANGED <<agent, worker, known, poll, comp, silence, grants>>

\* adminTaskDelete: the operator retires a row, whatever its state.
DeleteTask(t) ==
    /\ RetireTasks /\ t \in Rows
    /\ task' = [task EXCEPT ![t] = NoRow]
    /\ UNCHANGED <<nextId, agent, worker, known, poll, comp, silence, grants>>

\* adminAgentConcurrent.
SetAgentMaxConcurrent(a, n) ==
    /\ agent[a].row = "live" /\ agent[a].cap # n
    /\ agent' = [agent EXCEPT ![a].cap = n]
    /\ UNCHANGED <<task, nextId, worker, known, poll, comp, silence, grants>>

\* adminAgentDelete (and the owner's own delete): the row goes, its leases
\* stay behind under an id nobody answers to.
DeleteAgent(a) ==
    /\ a \in RetireAgents /\ agent[a].row = "live"
    /\ agent' = [agent EXCEPT ![a].row = "gone"]
    /\ UNCHANGED <<task, nextId, worker, known, poll, comp, silence, grants>>

(***************************************************************************)
(* The worker process (external: the loon-agent binary).  It registers,    *)
(* crashes (at most once: a bound) and forgets what it held, and may come  *)
(* back under the same name -- EnsureAgent re-mints its token but keeps    *)
(* the row and its id.                                                     *)
(***************************************************************************)
Register(a) ==
    /\ agent[a].row = "new"
    /\ agent' = [agent EXCEPT ![a].row = "live"]
    /\ worker' = [worker EXCEPT ![a] = "on"]
    /\ UNCHANGED <<task, nextId, known, poll, comp, silence, grants>>

Crash(a) ==
    /\ a \in Mortal /\ worker[a] = "on"
    /\ worker' = [worker EXCEPT ![a] = "crashed"]
    /\ known' = [known EXCEPT ![a] = {}]
    /\ poll' = [poll EXCEPT ![a] = [s \in PollSlots |-> [@[s] EXCEPT !.conn = FALSE]]]
    /\ comp' = [comp EXCEPT ![a].conn = FALSE]
    /\ UNCHANGED <<task, nextId, agent, silence, grants>>

Restart(a) ==
    /\ Restarts /\ worker[a] = "crashed" /\ agent[a].row = "live"
    /\ worker' = [worker EXCEPT ![a] = "again"]
    /\ UNCHANGED <<task, nextId, agent, known, poll, comp, silence, grants>>

(***************************************************************************)
(* agentPoll: authenticate (the cap is read here), reclaim, lease, answer. *)
(* An answer reaches the worker that asked, unless it is lost on the way   *)
(* or the process that asked is gone.                                      *)
(***************************************************************************)
Deliver(a, conn, locks) ==
    \/ conn /\ known' = [known EXCEPT ![a] = locks]
    \/ (Lossy \/ ~conn) /\ UNCHANGED known

\* LeaseNextTask, first statement: every stale lease, anybody's, goes back.
ReclaimRowHeldTooLong(row) ==
    IF row.state = "leased" /\ row.age >= TTL
    THEN [row EXCEPT !.state = "queued", !.holder = NoAgent, !.age = 0] ELSE row
ReclaimRowNever(row) == row
ReclaimRowKeepsHolder(row) ==
    IF Stale(row) THEN [row EXCEPT !.state = "queued", !.age = 0] ELSE row
ReclaimRow(row) ==
    IF Stale(row)
    THEN [row EXCEPT !.state = "queued", !.holder = NoAgent, !.age = 0] ELSE row

agentPoll(a, s) ==
    /\ Running(a) /\ CanServe /\ poll[a][s].pc = "idle"
    /\ task' = [t \in TaskId |-> ReclaimRow(task[t])]
    /\ poll' = [poll EXCEPT ![a][s] = [IdlePoll EXCEPT !.pc = "count", !.conn = TRUE,
                                                       !.cap = agent[a].cap]]
    /\ UNCHANGED <<nextId, agent, worker, known, comp, silence, grants>>

\* LeaseNextTask, second statement, as it starts: its snapshot fixes how many
\* leases the agent holds and which rows are queued.
LeaseSnapshot(a, s) ==
    /\ poll[a][s].pc = "count"
    /\ poll' = [poll EXCEPT ![a][s] = [@ EXCEPT !.pc = "take", !.held = Cardinality(Held(a)),
                                               !.seen = Queued]]
    /\ UNCHANGED <<task, nextId, agent, worker, known, comp, silence, grants>>

\* ... and as it locks and writes a row: rows that have moved since the
\* snapshot fail the re-check and are passed over, as locked ones are.
CanTakeOneMore(p) == p.held <= p.cap
CanTake(p) == p.held < p.cap
TakeableUnchecked(p) == p.seen \cap Rows
Takeable(p) == {t \in p.seen : task[t].state = "queued"}

LeaseTake(a, s) ==
    LET p == poll[a][s] IN
    /\ p.pc = "take"
    /\ IF CanTake(p) /\ Takeable(p) # {}
       THEN \E t \in Oldest(Takeable(p)) :
            /\ task' = [task EXCEPT ![t].state = "leased", ![t].holder = a, ![t].age = 0]
            /\ grants' = [grants EXCEPT ![a] = IF @ < MaxCompleted THEN @ + 1 ELSE @]
            /\ Deliver(a, p.conn, known[a] \cup {t})
       ELSE UNCHANGED <<task, grants, known>>
    /\ poll' = [poll EXCEPT ![a][s] = IdlePoll]
    /\ UNCHANGED <<nextId, agent, worker, comp, silence>>

\* A failed statement answers 204: the worker sees an idle queue.
LeaseError(a, s) ==
    /\ Faults /\ poll[a][s].pc \in {"count", "take"}
    /\ poll' = [poll EXCEPT ![a][s] = IdlePoll]
    /\ UNCHANGED <<task, nextId, agent, worker, known, comp, silence, grants>>

(***************************************************************************)
(* agentStatus and agentProgress: RenewAgentLeases, then (progress only)   *)
(* RecordTaskProgress against the reporting agent's own lease.             *)
(***************************************************************************)
RenewRow(row, a) ==
    IF row.state = "leased" /\ row.holder = a THEN [row EXCEPT !.age = 0] ELSE row

RecordTaskProgress(row, a) ==
    IF row.state = "leased" /\ row.holder = a THEN [row EXCEPT !.author = a] ELSE row

\* A renewal that fails is logged, and the progress line is filed all the same.
Report(a, lock) ==
    /\ Running(a) /\ (ProgressLines \/ lock = NoLock)
    /\ \E renews \in {TRUE} \cup (IF Faults THEN {FALSE} ELSE {}) :
         /\ task' = [t \in TaskId |->
                       LET row == IF renews THEN RenewRow(task[t], a) ELSE task[t] IN
                       IF t = lock THEN RecordTaskProgress(row, a) ELSE row]
         /\ silence' = IF renews THEN [silence EXCEPT ![a] = 0] ELSE silence
    /\ UNCHANGED <<nextId, agent, worker, known, poll, comp, grants>>

(***************************************************************************)
(* agentComplete: CloseTask, then (on success) CompleteTask's counter, then*)
(* the answer.  An error of either statement is logged and passed over.  A *)
(* body that does not parse arrives as lock 0 with an empty status, and an *)
(* empty status is the success verdict.  A worker that never hears the     *)
(* answer keeps the lock and tries again.                                  *)
(***************************************************************************)
CloseRowAnyState(row, a, ok) ==
    IF row.holder = a
    THEN [row EXCEPT !.state = IF ok THEN "completed" ELSE "failed"] ELSE row
CloseRowAnyHolder(row, a, ok) ==
    IF row.state = "leased"
    THEN [row EXCEPT !.state = IF ok THEN "completed" ELSE "failed"] ELSE row
CloseRow(row, a, ok) ==
    IF row.state = "leased" /\ row.holder = a
    THEN [row EXCEPT !.state = IF ok THEN "completed" ELSE "failed"] ELSE row

CanComplete(a) ==
    Running(a) /\ CanServe /\ comp[a].pc = "idle" /\ agent[a].completed < MaxCompleted

agentComplete(a, lock, ok) ==
    /\ CanComplete(a) /\ lock \in known[a]
    /\ \/ task' = [task EXCEPT ![lock] = CloseRow(@, a, ok)]
       \/ Faults /\ UNCHANGED task
    /\ IF ok
       THEN /\ comp' = [comp EXCEPT ![a] = [pc |-> "bump", conn |-> TRUE, lock |-> lock]]
            /\ UNCHANGED known
       ELSE /\ Deliver(a, TRUE, known[a] \ {lock})
            /\ UNCHANGED comp
    /\ UNCHANGED <<nextId, agent, worker, poll, silence, grants>>

agentCompleteUnparsed(a) ==
    /\ Faults /\ CanComplete(a)
    /\ comp' = [comp EXCEPT ![a] = [pc |-> "bump", conn |-> TRUE, lock |-> NoLock]]
    /\ UNCHANGED <<task, nextId, agent, worker, known, poll, silence, grants>>

\* completed + 1, where the agent row still exists.
Bump(a) == IF agent[a].row = "live" THEN 1 ELSE 0

CompleteTask(a) ==
    /\ comp[a].pc = "bump"
    /\ \/ agent' = [agent EXCEPT ![a].completed = @ + Bump(a)]
       \/ Faults /\ UNCHANGED agent
    /\ Deliver(a, comp[a].conn, known[a] \ {comp[a].lock})
    /\ comp' = [comp EXCEPT ![a] = IdleComp]
    /\ UNCHANGED <<task, nextId, worker, poll, silence, grants>>

(***************************************************************************)
(* Time.  A Prompt agent, while it runs, posts a status before TTL passes. *)
(***************************************************************************)
Tick ==
    /\ \A a \in Prompt : Running(a) => silence[a] < TTL
    /\ task' = [t \in TaskId |-> IF task[t].state = "leased"
                                 THEN [task[t] EXCEPT !.age = Older(@)] ELSE task[t]]
    /\ silence' = [a \in Agents |-> Older(silence[a])]
    /\ UNCHANGED <<nextId, agent, worker, known, poll, comp, grants>>

Site ==
    \/ \E o \in Offers : Dispatch(o)
    \/ \E t \in TaskId : DeleteTask(t)
    \/ \E a \in Agents, n \in Caps : SetAgentMaxConcurrent(a, n)
    \/ \E a \in Agents : DeleteAgent(a)

Worker(a) == Register(a) \/ Crash(a) \/ Restart(a)

Lease(a, s) == LeaseSnapshot(a, s) \/ LeaseTake(a, s)

Next ==
    \/ Site
    \/ \E a \in Agents : Worker(a)
    \/ \E a \in Agents, s \in PollSlots : agentPoll(a, s) \/ Lease(a, s) \/ LeaseError(a, s)
    \/ \E a \in Agents : \E lock \in known[a] \cup {NoLock} : Report(a, lock)
    \/ \E a \in Agents : \E lock \in known[a], ok \in BOOLEAN : agentComplete(a, lock, ok)
    \/ \E a \in Agents : agentCompleteUnparsed(a) \/ CompleteTask(a)
    \/ Tick

Spec == Init /\ [][Next]_vars

(***************************************************************************)
(* Fairness.  The site finishes the requests it has begun and time passes; *)
(* a worker, while its process runs, keeps polling, reporting and          *)
(* completing what it holds, which is the loop the protocol prescribes.    *)
(***************************************************************************)
Fairness ==
    /\ WF_vars(Tick)
    /\ \A a \in Agents : \A s \in PollSlots : WF_vars(Lease(a, s))
    /\ \A a \in Agents :
         /\ WF_vars(CompleteTask(a))
         /\ WF_vars(Register(a))
         /\ \A s \in PollSlots : WF_vars(agentPoll(a, s))
         /\ WF_vars(Report(a, NoLock))
         /\ WF_vars(\E lock \in known[a], ok \in BOOLEAN : agentComplete(a, lock, ok))

FairSpec == Spec /\ Fairness

-----------------------------------------------------------------------------
(***************************************************************************)
(* Properties.                                                             *)
(***************************************************************************)

\* One row per torrent, however its hash was spelled and whatever became of
\* the row: EnqueueTask's dedup reaches across every state.
OneRowPerTorrent ==
    \A t, u \in Rows : InfoHash[task[t].hash] = InfoHash[task[u].hash] => t = u

\* The queue implements the ledger its dispatcher promises.
Known == {InfoHash[o] : o \in Offers} \ {NoHash}
Ledger ==
    [h \in Known |->
        IF \A t \in Rows : task[t].hash # h THEN "unknown"
        ELSE IF \E t \in Rows : task[t].hash = h /\ task[t].state \notin Finished
             THEN "open" ELSE "dealt"]
Abstract == INSTANCE GrabLedger WITH Grabs <- Known, Retirable <- RetireTasks, ledger <- Ledger
DealtWithOnce == Abstract!Spec

\* A lease is never older than its holder's silence: renewal is per agent and
\* reaches every lease the agent holds (RenewAgentLeases).
LeaseNotOlderThanSilence ==
    \A t \in TaskId : task[t].state = "leased" => task[t].age <= silence[task[t].holder]

\* Work is torn away only from an agent that has been silent for longer than
\* the TTL, never from one that is merely taking long (taskLeaseTTL).
HealthyAgentKeepsLease ==
    [][\A t \in TaskId, a \in Agents :
          HeldBy(t, a) /\ task'[t].state = "queued" => silence[a] > TTL]_vars

\* A lease changes hands only by way of the queue: of two polls that saw the
\* same queued row, the second must not take it (SKIP LOCKED and the re-check).
LeaseMovesThroughQueue ==
    [][\A t \in TaskId, a \in Agents :
          HeldBy(t, a) => task'[t].holder \in {a, NoAgent}]_vars

\* A finished row stays as it is until the operator retires it: a repeated or
\* late completion changes nothing (CloseTask's WHERE state = 'leased').
FinishedIsFinal ==
    [][\A t \in TaskId : task[t].state \in Finished =>
          task'[t] = task[t] \/ task'[t] = NoRow]_vars

\* Only the current holder's completion finishes a row; a worker whose lease
\* was reclaimed and handed on cannot close its successor's job.
OnlyHolderCloses ==
    [][\A t \in TaskId, a \in Agents :
          HeldBy(t, a) /\ task'[t].state \in Finished =>
             \E ok \in BOOLEAN : agentComplete(a, t, ok)]_vars

\* "A progress report about somebody else's task is not a thing an agent gets
\* to file": a new progress line is its holder's.
OnlyHolderReports ==
    [][\A t \in TaskId :
          task'[t].author # task[t].author /\ task'[t].state # "none" =>
             task'[t].author = task[t].holder]_vars

\* A poll grants no lease beyond the cap it was answered under.
GrantWithinCap ==
    [][\A a \in Agents, s \in PollSlots :
          LeaseTake(a, s) /\ task' # task =>
             Cardinality(Held(a)') <= poll[a][s].cap]_vars

\* Every row an agent completed is in its lifetime counter, or about to be.
CompletionsAreCounted ==
    \A a \in Agents : agent[a].row = "live" =>
        Cardinality({t \in TaskId : task[t].state = "completed" /\ task[t].holder = a})
          <= agent[a].completed + (IF comp[a].pc = "bump" THEN 1 ELSE 0)

\* However the operator moves the cap under its polls, an agent is never given
\* more than it was answered under, and loses no completion from its counter.
CappedAndCounted == []CompletionsAreCounted /\ GrantWithinCap

\* The counter counts uploads: never more of them than leases ever granted.
CounterWithinGrants == \A a \in Agents : agent[a].completed <= grants[a]

\* Whatever is queued is finished or retired in the end, though workers crash.
QueueDrains ==
    \A t \in TaskId : task[t].state = "queued" ~> task[t].state \in Finished \cup {"none"}

\* What a crashed worker held leaves its hands.
CrashedWorkReturns ==
    \A t \in TaskId, a \in Agents :
        (HeldBy(t, a) /\ worker[a] = "crashed") ~> ~HeldBy(t, a)
=============================================================================

---------------------------- MODULE WorkerRuntime ----------------------------
(***************************************************************************)
(* The scheduler of crates/iris-subagent-runtime (runtime.rs): the threads *)
(* that hold a RuntimeHandle (spawn, spawn_group, cancel, shutdown), the   *)
(* one scheduler thread (scheduler_loop, launch_ready, next_eligible) and  *)
(* the executors it runs on its LocalSet.                                  *)
(*                                                                         *)
(* An action is what a thread does between two points at which another     *)
(* thread can observe it: the lock of a worker's cell, the lock of the     *)
(* worker map, the command channel, the shutdown flag.  Executors share    *)
(* the scheduler's thread, so they move only while it awaits its select!.  *)
(* Time is abstracted to "the cancellation grace of w has elapsed".        *)
(***************************************************************************)
EXTENDS Integers, Sequences, FiniteSets

CONSTANTS
  Workers,              \* worker ids; each is accepted at most once
  Groups,               \* group ids
  NoGroup,              \* GroupOf[w] of a worker made by spawn
  None,                 \* Option::None
  Batches,              \* calls of spawn and spawn_group, one thread each
  Members,              \* [Batches -> Seq(Workers)]: the ids of each call
  GroupOf,              \* [Workers -> Groups \cup {NoGroup}]
  UrgentWorkers,        \* workers of WorkerPriority::InternalUrgent
  Cancellers,           \* threads that call cancel once
  Stoppers,             \* threads that call shutdown once
  CommandCapacity,      \* RuntimeConfig::command_capacity
  QueueCapacity,        \* RuntimeConfig::queue_capacity
  GlobalConcurrency,    \* RuntimeConfig::global_concurrency
  PerGroupConcurrency,  \* RuntimeConfig::per_group_concurrency
  MaxUrgentStreak,      \* RuntimeConfig::max_urgent_streak
  HandlesMayDrop,       \* whether every RuntimeHandle may be dropped
  JournalFaults         \* whether an append to the journal may fail

\* validate_config, runtime.rs: every capacity and limit is non-zero.
ASSUME ConfigAssumption ==
  /\ CommandCapacity \in Nat \ {0}
  /\ QueueCapacity \in Nat \ {0}
  /\ GlobalConcurrency \in Nat \ {0}
  /\ PerGroupConcurrency \in Nat \ {0}
  /\ MaxUrgentStreak \in Nat \ {0}

\* WorkerId::new never repeats an id: no worker is in two calls, or twice in one.
ASSUME WorkloadAssumption ==
  /\ IsFiniteSet(Workers)
  /\ None \notin Workers \cup {"Completed", "Failed", "Cancelled"}
  /\ NoGroup \notin Groups
  /\ GroupOf \in [Workers -> Groups \cup {NoGroup}]
  /\ UrgentWorkers \subseteq Workers
  /\ Members \in [Batches -> Seq(Workers)]
  /\ \A b \in Batches : Members[b] # <<>>
  /\ \A b, c \in Batches : \A i \in DOMAIN Members[b], j \in DOMAIN Members[c] :
       Members[b][i] = Members[c][j] => b = c /\ i = j
  /\ HandlesMayDrop \in BOOLEAN
  /\ JournalFaults \in BOOLEAN

VARIABLES
  status,       \* WorkerState::status; "Absent" before the id is in the map
  result,       \* WorkerState::result, by its status
  token,        \* WorkerCell::token has been cancelled
  commands,     \* the bounded mpsc channel of Command
  shutdown,     \* Shared::shutdown
  handles,      \* some RuntimeHandle is alive
  thread,       \* Shared::thread has not been taken
  spawnPc,      \* where each call of spawn or spawn_group stands
  cancelPc,     \* where each call of cancel stands
  cancelOf,     \* the worker a call of cancel is about
  stopPc,       \* where each call of shutdown stands
  sched,        \* where the scheduler thread stands
  current,      \* the id launch_ready holds
  batch,        \* ids of the StartBatch branch still to be queued
  ticking,      \* ids the interval branch has still to visit
  normal, urgent,  \* the two VecDeques of scheduler_loop
  running,      \* keys of the map of RunningTask
  deadline,     \* RunningTask::cancel_deadline
  groupRunning, \* group_running
  urgentStreak, \* urgent_streak
  stopping,     \* scheduler_loop's flag
  task,         \* the future spawned for each worker
  completed,    \* the channel of outcomes from tasks to the scheduler
  urgentRun     \* history: urgent launches in a row past a waiting normal job

cells == <<status, result, token>>
clients == <<spawnPc, cancelPc, cancelOf, stopPc, handles, thread, shutdown>>
queues == <<normal, urgent, urgentStreak, urgentRun>>
tasks == <<task, completed>>
slots == <<running, deadline, groupRunning>>
scheduler == <<sched, current, batch, ticking, stopping, queues, tasks, slots>>
vars == <<cells, clients, commands, scheduler>>

Terminal == {"Completed", "Failed", "Cancelled"}
Active == {"Initializing", "Running", "WaitingForApproval"}
Statuses == {"Absent", "Queued"} \cup Active \cup Terminal

\* What an executor's future resolves to, by how shape_result and finish
\* tell outcomes apart: output, output over a budget (or one the artifact
\* store refuses), an error, an error that reports cancellation.
Outcomes == {"output", "overBudget", "error", "cancelled"}

\* enum Command: StartBatch(ids), Cancel(id) as one id, Shutdown as none.
Commands == [op : {"StartBatch", "Cancel", "Shutdown"}, ids : Seq(Workers)]

-----------------------------------------------------------------------------
Init ==
  /\ status = [w \in Workers |-> "Absent"]
  /\ result = [w \in Workers |-> None]
  /\ token = [w \in Workers |-> FALSE]
  /\ commands = <<>>
  /\ shutdown = FALSE /\ handles = TRUE /\ thread = TRUE
  /\ spawnPc = [b \in Batches |-> "idle"]
  /\ cancelPc = [c \in Cancellers |-> "idle"]
  /\ cancelOf = [c \in Cancellers |-> None]
  /\ stopPc = [s \in Stoppers |-> "idle"]
  /\ sched = "pick" /\ current = None /\ batch = <<>> /\ ticking = {} /\ stopping = FALSE
  /\ normal = <<>> /\ urgent = <<>> /\ urgentStreak = 0 /\ urgentRun = 0
  /\ running = {} /\ deadline = [w \in Workers |-> "none"]
  /\ groupRunning = [g \in Groups |-> 0]
  /\ task = [w \in Workers |-> "none"] /\ completed = <<>>

-----------------------------------------------------------------------------
(* The worker's cell: emit and finish.                                     *)

IsTerminal(w) == status[w] \in Terminal

JournalOutcomes == IF JournalFaults THEN BOOLEAN ELSE {TRUE}

\* Faulty variants (names in Faulty...) are what the mutation runs put in
\* the place of the definition that follows them.
FaultyEmitAfterEnd(w, st) == status' = [status EXCEPT ![w] = st]

\* emit changes the status before it appends to the journal, and does
\* nothing once the worker is terminal.
Emit(w, st) == status' = [status EXCEPT ![w] = IF IsTerminal(w) THEN @ ELSE st]

EmitReturnsOk(w, ok) == IsTerminal(w) \/ ok

\* The status finish and shape_result settle on for an executor's outcome.
FinalStatus(w, outcome) ==
  IF outcome = "cancelled" THEN "Cancelled"
  ELSE IF outcome = "overBudget" THEN "Failed"
  ELSE IF token[w] THEN "Cancelled"
  ELSE IF outcome = "output" THEN "Completed" ELSE "Failed"

FaultyFinishEarly(w, st, ok) ==
  IF result[w] = None /\ ok
  THEN /\ status' = [status EXCEPT ![w] = st]
       /\ result' = [result EXCEPT ![w] = status[w]]
  ELSE UNCHANGED <<status, result>>

\* The first result stays; the journal record precedes the change of state.
\* A call with a forced message settles on "Cancelled".
Finish(w, st, ok) ==
  IF result[w] = None /\ ok
  THEN /\ status' = [status EXCEPT ![w] = st]
       /\ result' = [result EXCEPT ![w] = st]
  ELSE UNCHANGED <<status, result>>

FinishReturnsOk(w, ok) == result[w] # None \/ ok

-----------------------------------------------------------------------------
(* RuntimeHandle: the calling threads.                                     *)

\* The scheduler dropped its receiver: the channel is closed.
Closed == sched \in {"stopped", "failed"}

\* The scheduler is stuck holding the lock of Shared::workers.
MapUnlocked == sched # "deadlocked"

Holding == {b \in Batches : spawnPc[b] \in {"reserved", "admitted", "inserted"}}

\* try_reserve and try_send: a slot is free; permits in hand count as taken.
HasSlot == ~Closed /\ Len(commands) + Cardinality(Holding) < CommandCapacity

Ids(b) == {Members[b][i] : i \in DOMAIN Members[b]}

ActiveWorkers == {w \in Workers : status[w] \in {"Queued"} \cup Active}

\* ensure_running.
SpawnCheck(b) ==
  /\ spawnPc[b] = "idle" /\ handles
  /\ spawnPc' = [spawnPc EXCEPT ![b] = IF shutdown \/ Closed THEN "error" ELSE "checked"]
  /\ UNCHANGED <<cells, cancelPc, cancelOf, stopPc, handles, thread, shutdown,
                 commands, scheduler>>

\* commands.try_reserve.
SpawnReserve(b) ==
  /\ spawnPc[b] = "checked"
  /\ spawnPc' = [spawnPc EXCEPT ![b] = IF HasSlot THEN "reserved" ELSE "error"]
  /\ UNCHANGED <<cells, cancelPc, cancelOf, stopPc, handles, thread, shutdown,
                 commands, scheduler>>

FaultySendBeforeInsert(b) ==
  /\ spawnPc[b] = "reserved" /\ MapUnlocked
  /\ spawnPc' = [spawnPc EXCEPT ![b] =
        IF Cardinality(ActiveWorkers) + Len(Members[b]) > QueueCapacity
        THEN "error" ELSE "inserted"]
  /\ UNCHANGED <<cells, cancelPc, cancelOf, stopPc, handles, thread, shutdown,
                 commands, scheduler>>

\* ensure_worker_capacity, under the map's lock; an error drops the permit.
SpawnAdmit(b) ==
  /\ spawnPc[b] = "reserved" /\ MapUnlocked
  /\ spawnPc' = [spawnPc EXCEPT ![b] =
        IF Cardinality(ActiveWorkers) + Len(Members[b]) > QueueCapacity
        THEN "error" ELSE "admitted"]
  /\ UNCHANGED <<cells, cancelPc, cancelOf, stopPc, handles, thread, shutdown,
                 commands, scheduler>>

\* accept_worker for every id, then one insertion into the map.  An append
\* that fails returns before anything is inserted.
SpawnInsert(b) ==
  /\ spawnPc[b] = "admitted" /\ MapUnlocked
  /\ \E ok \in JournalOutcomes :
       /\ spawnPc' = [spawnPc EXCEPT ![b] = IF ok THEN "inserted" ELSE "error"]
       /\ status' = [w \in Workers |->
                       IF ok /\ w \in Ids(b) THEN "Queued" ELSE status[w]]
  /\ UNCHANGED <<result, token, cancelPc, cancelOf, stopPc, handles, thread,
                 shutdown, commands, scheduler>>

\* permit.send; on a closed channel the batch is dropped.
SpawnSend(b) ==
  /\ spawnPc[b] = "inserted"
  /\ spawnPc' = [spawnPc EXCEPT ![b] = "ok"]
  /\ commands' = IF Closed THEN commands
                 ELSE Append(commands, [op |-> "StartBatch", ids |-> Members[b]])
  /\ UNCHANGED <<cells, cancelPc, cancelOf, stopPc, handles, thread, shutdown,
                 scheduler>>

\* cancel looks the cell up and reads the status, then releases the lock.
CancelRead(c, w) ==
  /\ cancelPc[c] = "idle" /\ handles /\ MapUnlocked
  /\ status[w] # "Absent"
  /\ cancelOf' = [cancelOf EXCEPT ![c] = w]
  /\ cancelPc' = [cancelPc EXCEPT ![c] =
        IF IsTerminal(w) THEN "ok"
        ELSE IF status[w] = "Queued" THEN "sawQueued" ELSE "sawActive"]
  /\ UNCHANGED <<cells, spawnPc, stopPc, handles, thread, shutdown, commands,
                 scheduler>>

\* A worker seen queued: its token first ...
CancelQueuedToken(c) ==
  /\ cancelPc[c] = "sawQueued"
  /\ cancelPc' = [cancelPc EXCEPT ![c] = "finishing"]
  /\ token' = [token EXCEPT ![cancelOf[c]] = TRUE]
  /\ UNCHANGED <<status, result, spawnPc, cancelOf, stopPc, handles, thread,
                 shutdown, commands, scheduler>>

\* ... then finish, from the caller's thread.
CancelQueuedFinish(c) ==
  /\ cancelPc[c] = "finishing" /\ MapUnlocked
  /\ \E ok \in JournalOutcomes :
       /\ Finish(cancelOf[c], "Cancelled", ok)
       /\ cancelPc' = [cancelPc EXCEPT ![c] =
            IF FinishReturnsOk(cancelOf[c], ok) THEN "ok" ELSE "error"]
  /\ UNCHANGED <<token, spawnPc, cancelOf, stopPc, handles, thread, shutdown,
                 commands, scheduler>>

\* A worker seen past the queue: the permit, the token and the command.
CancelActive(c) ==
  /\ cancelPc[c] = "sawActive"
  /\ cancelPc' = [cancelPc EXCEPT ![c] = IF HasSlot THEN "ok" ELSE "error"]
  /\ IF HasSlot
     THEN /\ token' = [token EXCEPT ![cancelOf[c]] = TRUE]
          /\ commands' = Append(commands, [op |-> "Cancel", ids |-> <<cancelOf[c]>>])
     ELSE UNCHANGED <<token, commands>>
  /\ UNCHANGED <<status, result, spawnPc, cancelOf, stopPc, handles, thread,
                 shutdown, scheduler>>

\* shutdown: the swap of the flag; only the first caller sends the command.
StopSwap(s) ==
  /\ stopPc[s] = "idle" /\ handles
  /\ stopPc' = [stopPc EXCEPT ![s] = IF shutdown THEN "take" ELSE "send"]
  /\ shutdown' = TRUE
  /\ UNCHANGED <<cells, spawnPc, cancelPc, cancelOf, handles, thread, commands,
                 scheduler>>

\* try_send, retried while the channel is full, given up when it is closed.
StopSend(s) ==
  /\ stopPc[s] = "send" /\ (HasSlot \/ Closed)
  /\ stopPc' = [stopPc EXCEPT ![s] = "take"]
  /\ commands' = IF Closed THEN commands ELSE Append(commands, [op |-> "Shutdown", ids |-> <<>>])
  /\ UNCHANGED <<cells, spawnPc, cancelPc, cancelOf, handles, thread, shutdown,
                 scheduler>>

\* thread.take: one caller joins, any other returns at once.
StopTake(s) ==
  /\ stopPc[s] = "take"
  /\ stopPc' = [stopPc EXCEPT ![s] = IF thread THEN "join" ELSE "ok"]
  /\ thread' = FALSE
  /\ UNCHANGED <<cells, spawnPc, cancelPc, cancelOf, handles, shutdown,
                 commands, scheduler>>

\* join returns once the scheduler thread has ended, with its result.
StopJoin(s) ==
  /\ stopPc[s] = "join" /\ Closed
  /\ stopPc' = [stopPc EXCEPT ![s] = IF sched = "stopped" THEN "ok" ELSE "error"]
  /\ UNCHANGED <<cells, spawnPc, cancelPc, cancelOf, handles, thread, shutdown,
                 commands, scheduler>>

\* The last clone of the handle is dropped, when no call is in progress.
DropHandles ==
  /\ HandlesMayDrop /\ handles
  /\ \A b \in Batches : spawnPc[b] \in {"idle", "ok", "error"}
  /\ \A c \in Cancellers : cancelPc[c] \in {"idle", "ok", "error"}
  /\ \A s \in Stoppers : stopPc[s] \in {"idle", "ok", "error"}
  /\ handles' = FALSE
  /\ UNCHANGED <<cells, spawnPc, cancelPc, cancelOf, stopPc, thread, shutdown,
                 commands, scheduler>>

Client ==
  \/ \E b \in Batches : SpawnCheck(b) \/ SpawnReserve(b) \/ SpawnAdmit(b)
                          \/ SpawnInsert(b) \/ SpawnSend(b)
  \/ \E c \in Cancellers : \/ \E w \in Workers : CancelRead(c, w)
                           \/ CancelQueuedToken(c) \/ CancelQueuedFinish(c)
                           \/ CancelActive(c)
  \/ \E s \in Stoppers : StopSwap(s) \/ StopSend(s) \/ StopTake(s) \/ StopJoin(s)
  \/ DropHandles

-----------------------------------------------------------------------------
(* launch_ready and next_eligible.                                         *)

FaultyEligible(w) ==
  GroupOf[w] # NoGroup => groupRunning[GroupOf[w]] <= PerGroupConcurrency

Eligible(w) ==
  GroupOf[w] # NoGroup => groupRunning[GroupOf[w]] < PerGroupConcurrency

EligibleIn(q) == \E i \in DOMAIN q : Eligible(q[i])

FirstEligible(q, i) == Eligible(q[i]) /\ \A j \in 1..(i - 1) : ~Eligible(q[j])

FaultyRotatedLoses(q, i) == SubSeq(q, i + 1, Len(q))

FaultyRotatedKeeps(q, i) == SubSeq(q, i + 1, Len(q)) \o SubSeq(q, 1, i)

\* Position i is taken; the ids passed over go to the back, in order.
Rotated(q, i) == SubSeq(q, i + 1, Len(q)) \o SubSeq(q, 1, i - 1)

FaultyPreferUrgent ==
  urgent # <<>> /\ (normal = <<>> \/ urgentStreak <= MaxUrgentStreak)

PreferUrgent ==
  urgent # <<>> /\ (normal = <<>> \/ urgentStreak < MaxUrgentStreak)

UseUrgent == IF PreferUrgent THEN EligibleIn(urgent) ELSE ~EligibleIn(normal)

HasSpare == Cardinality(running) < GlobalConcurrency

CanLaunch == HasSpare /\ (EligibleIn(normal) \/ EligibleIn(urgent))

FaultyPoppedSkipsInit(w) ==
  /\ current' = IF IsTerminal(w) THEN None ELSE w
  /\ sched' = IF IsTerminal(w) THEN "pick" ELSE "create"

\* The popped id is dropped when its worker is already terminal.
Popped(w) ==
  /\ current' = IF IsTerminal(w) THEN None ELSE w
  /\ sched' = IF IsTerminal(w) THEN "pick" ELSE "init"

\* A normal job that could run is in the queue.
NormalWaiting == \E i \in DOMAIN normal : Eligible(normal[i]) /\ ~IsTerminal(normal[i])

PickUrgent ==
  /\ sched = "pick" /\ CanLaunch /\ UseUrgent
  /\ \E i \in DOMAIN urgent :
       /\ FirstEligible(urgent, i)
       /\ Popped(urgent[i])
       /\ urgent' = Rotated(urgent, i)
       /\ urgentRun' = IF IsTerminal(urgent[i]) THEN urgentRun
                       ELSE IF NormalWaiting THEN urgentRun + 1 ELSE 0
  /\ urgentStreak' = urgentStreak + 1
  /\ UNCHANGED <<cells, clients, commands, batch, ticking, stopping, normal,
                 tasks, slots>>

PickNormal ==
  /\ sched = "pick" /\ CanLaunch /\ ~UseUrgent
  /\ \E i \in DOMAIN normal :
       /\ FirstEligible(normal, i)
       /\ Popped(normal[i])
       /\ normal' = Rotated(normal, i)
       /\ urgentRun' = IF IsTerminal(normal[i]) THEN urgentRun ELSE 0
  /\ urgentStreak' = 0
  /\ UNCHANGED <<cells, clients, commands, batch, ticking, stopping, urgent,
                 tasks, slots>>

\* No capacity or no eligible id: leave the loop when stopping, else await.
PickNone ==
  /\ sched = "pick" /\ ~CanLaunch
  /\ sched' = IF stopping /\ running = {} THEN "stopped" ELSE "select"
  /\ UNCHANGED <<cells, clients, commands, current, ticking, batch, stopping,
                 queues, tasks, slots>>

\* An error leaves scheduler_loop; the LocalSet and its futures are dropped.
FailOr(next, ok) ==
  /\ sched' = IF ok THEN next ELSE "failed"
  /\ task' = [w \in Workers |->
                IF ~ok /\ task[w] = "live" THEN "aborted" ELSE task[w]]

LaunchInit ==
  /\ sched = "init"
  /\ Emit(current, "Initializing")
  /\ \E ok \in JournalOutcomes : FailOr("create", EmitReturnsOk(current, ok))
  /\ UNCHANGED <<result, token, clients, commands, current, ticking, batch,
                 stopping, queues, completed, slots>>

\* factory.create fails: the worker is finished and the loop continues.
LaunchCreateError ==
  /\ sched = "create"
  /\ \E ok \in JournalOutcomes :
       /\ Finish(current, FinalStatus(current, "error"), ok)
       /\ FailOr("pick", FinishReturnsOk(current, ok))
  /\ current' = None
  /\ UNCHANGED <<token, clients, commands, ticking, batch, stopping, queues,
                 completed, slots>>

\* The executor exists: Running is emitted and its future is spawned.
LaunchRun ==
  /\ sched = "create"
  /\ Emit(current, "Running")
  /\ \E ok \in JournalOutcomes :
       IF EmitReturnsOk(current, ok)
       THEN /\ sched' = "pick"
            /\ task' = [task EXCEPT ![current] = "live"]
            /\ running' = running \cup {current}
            /\ deadline' = [deadline EXCEPT ![current] = "none"]
            /\ groupRunning' = IF GroupOf[current] = NoGroup THEN groupRunning
                               ELSE [groupRunning EXCEPT ![GroupOf[current]] = @ + 1]
       ELSE FailOr("pick", FALSE) /\ UNCHANGED slots
  /\ current' = None
  /\ UNCHANGED <<result, token, clients, commands, ticking, batch, stopping,
                 queues, completed>>

-----------------------------------------------------------------------------
(* scheduler_loop: the branches of select!.                                *)

FaultyReleaseKeepsCount(w) ==
  /\ running' = running \ {w}
  /\ deadline' = [deadline EXCEPT ![w] = "none"]
  /\ UNCHANGED groupRunning

FaultyReleaseLeaks(w) ==
  /\ deadline' = [deadline EXCEPT ![w] = "none"]
  /\ UNCHANGED <<running, groupRunning>>

\* decrement_group and the removal from the map of running tasks.
Release(w) ==
  /\ running' = running \ {w}
  /\ deadline' = [deadline EXCEPT ![w] = "none"]
  /\ groupRunning' =
       IF GroupOf[w] = NoGroup \/ groupRunning[GroupOf[w]] = 0 THEN groupRunning
       ELSE [groupRunning EXCEPT ![GroupOf[w]] = @ - 1]

Receives(op) ==
  /\ sched = "select" /\ ~stopping
  /\ commands # <<>> /\ Head(commands).op = op
  /\ commands' = Tail(commands)

ReceiveStartBatch ==
  /\ Receives("StartBatch")
  /\ batch' = Head(commands).ids
  /\ sched' = "enqueue"
  /\ UNCHANGED <<cells, clients, current, ticking, stopping, queues, tasks, slots>>

\* One turn of the loop over the batch: its cell is looked up for the
\* priority.
Enqueue ==
  /\ sched = "enqueue"
  /\ LET w == Head(batch) IN
       IF w \in UrgentWorkers
       THEN urgent' = Append(urgent, w) /\ UNCHANGED normal
       ELSE normal' = Append(normal, w) /\ UNCHANGED urgent
  /\ batch' = Tail(batch)
  /\ sched' = IF Tail(batch) = <<>> THEN "pick" ELSE "enqueue"
  /\ UNCHANGED <<cells, clients, commands, current, ticking, stopping,
                 urgentStreak, urgentRun, tasks, slots>>

ReceiveCancel ==
  /\ Receives("Cancel")
  /\ LET w == Head(Head(commands).ids) IN
       deadline' = [deadline EXCEPT ![w] = IF w \in running THEN "armed" ELSE @]
  /\ sched' = "pick"
  /\ UNCHANGED <<cells, clients, current, ticking, batch, stopping, queues,
                 tasks, running, groupRunning>>

FaultyStopIgnoresRunning ==
  /\ stopping' = TRUE
  /\ normal' = <<>> /\ urgent' = <<>>
  /\ sched' = IF \E w \in Workers : status[w] = "Queued" THEN "deadlocked" ELSE "pick"
  /\ UNCHANGED <<cells, clients, batch, current, ticking, urgentStreak, urgentRun, tasks, slots>>

\* The body of the Shutdown branch: the queues are emptied, running tasks
\* are cancelled and given a deadline, and the map is walked with its lock
\* held.  finish takes that lock again, so the first queued worker met
\* leaves the thread waiting for itself.
StopScheduling ==
  /\ stopping' = TRUE
  /\ normal' = <<>> /\ urgent' = <<>>
  /\ token' = [w \in Workers |-> token[w] \/ w \in running]
  /\ deadline' = [w \in Workers |-> IF w \in running THEN "armed" ELSE deadline[w]]
  /\ sched' = IF \E w \in Workers : status[w] = "Queued" THEN "deadlocked" ELSE "pick"
  /\ UNCHANGED <<status, result, clients, batch, current, ticking,
                 urgentStreak, urgentRun, tasks, running, groupRunning>>

ReceiveShutdown == Receives("Shutdown") /\ StopScheduling

\* recv returns None: every sender is gone and the channel is empty.
ReceiveNone ==
  /\ sched = "select" /\ ~stopping
  /\ ~handles /\ commands = <<>>
  /\ StopScheduling
  /\ UNCHANGED commands

\* The outcome of a task that is no longer in the map is ignored.
ReceiveCompleted ==
  /\ sched = "select" /\ completed # <<>>
  /\ completed' = Tail(completed)
  /\ LET w == Head(completed)[1] IN
       IF w \in running
       THEN \E ok \in JournalOutcomes :
              /\ Release(w)
              /\ Finish(w, FinalStatus(w, Head(completed)[2]), ok)
              /\ FailOr("pick", FinishReturnsOk(w, ok))
       ELSE sched' = "pick" /\ UNCHANGED <<status, result, task, slots>>
  /\ UNCHANGED <<token, clients, commands, current, ticking, batch, stopping,
                 queues>>

\* interval.tick: the keys of running are copied, then visited one by one.
TickBegin ==
  /\ sched = "select" /\ running # {}
  /\ sched' = "tick" /\ ticking' = running
  /\ UNCHANGED <<cells, clients, commands, current, batch, stopping, queues,
                 tasks, slots>>

FaultyTickAbort(w) ==
  /\ sched = "tick" /\ w \in ticking /\ deadline[w] = "due"
  /\ ticking' = ticking \ {w}
  /\ Release(w)
  /\ task' = [task EXCEPT ![w] = "aborted"]
  /\ UNCHANGED <<cells, clients, commands, sched, current, batch, stopping,
                 queues, completed>>

\* Past its deadline: the task is aborted and the worker forced to Cancelled.
TickAbort(w) ==
  /\ sched = "tick" /\ w \in ticking /\ deadline[w] = "due"
  /\ ticking' = ticking \ {w}
  /\ \E ok \in JournalOutcomes :
       /\ Release(w)
       /\ Finish(w, "Cancelled", ok)
       /\ LET returned == FinishReturnsOk(w, ok) IN
            /\ sched' = IF returned THEN "tick" ELSE "failed"
            /\ task' = [v \in Workers |->
                 IF task[v] = "live" /\ (v = w \/ ~returned) THEN "aborted" ELSE task[v]]
  /\ UNCHANGED <<token, clients, commands, current, batch, stopping, queues,
                 completed>>

\* A cancelled token without a deadline is given one.
TickArm(w) ==
  /\ sched = "tick" /\ w \in ticking /\ deadline[w] # "due"
  /\ ticking' = ticking \ {w}
  /\ deadline' = [deadline EXCEPT ![w] =
                    IF token[w] /\ @ = "none" THEN "armed" ELSE @]
  /\ UNCHANGED <<cells, clients, commands, sched, current, batch, stopping,
                 queues, tasks, running, groupRunning>>

TickEnd ==
  /\ sched = "tick" /\ ticking = {}
  /\ sched' = "pick"
  /\ UNCHANGED <<cells, clients, commands, current, ticking, batch, stopping,
                 queues, tasks, slots>>

Scheduler ==
  \/ PickUrgent \/ PickNormal \/ PickNone
  \/ LaunchInit \/ LaunchCreateError \/ LaunchRun
  \/ ReceiveStartBatch \/ Enqueue \/ ReceiveCancel \/ ReceiveShutdown \/ ReceiveNone
  \/ ReceiveCompleted
  \/ TickBegin \/ TickEnd \/ \E w \in Workers : TickAbort(w) \/ TickArm(w)

-----------------------------------------------------------------------------
(* Executors (host code behind ExecutorFactory) and the clock.             *)

\* The grace set by Instant::now() + cancellation_grace has elapsed.
GraceElapses(w) ==
  /\ deadline[w] = "armed"
  /\ deadline' = [deadline EXCEPT ![w] = "due"]
  /\ UNCHANGED <<cells, clients, commands, sched, current, ticking, batch,
                 stopping, queues, tasks, running, groupRunning>>

Executing(w) == sched = "select" /\ task[w] = "live"

\* WorkerContext::waiting_for_approval.
ExecutorWaits(w) ==
  /\ Executing(w)
  /\ Emit(w, "WaitingForApproval")
  /\ UNCHANGED <<result, token, clients, commands, scheduler>>

\* WorkerContext::progress, host_event and usage: a worker that waited for
\* approval runs again, unless that event cannot be appended; usage over the
\* budget cancels the token.
ExecutorEmits(w, overUsage) ==
  /\ Executing(w) /\ ~IsTerminal(w)
  /\ \/ Emit(w, "Running") /\ token' = [token EXCEPT ![w] = @ \/ overUsage]
     \/ JournalFaults /\ status[w] = "WaitingForApproval" /\ UNCHANGED <<status, token>>
  /\ UNCHANGED <<result, clients, commands, scheduler>>

\* The future resolves (or its wall-clock limit does, with an error).
ExecutorEnds(w, outcome) ==
  /\ Executing(w)
  /\ task' = [task EXCEPT ![w] = "done"]
  /\ completed' = Append(completed, <<w, outcome>>)
  /\ UNCHANGED <<cells, clients, commands, sched, current, ticking, batch,
                 stopping, queues, slots>>

Environment ==
  \E w \in Workers :
    \/ GraceElapses(w)
    \/ ExecutorWaits(w)
    \/ \E over \in BOOLEAN : ExecutorEmits(w, over)
    \/ \E outcome \in Outcomes : ExecutorEnds(w, outcome)

Next == Client \/ Scheduler \/ Environment

Spec == Init /\ [][Next]_vars

-----------------------------------------------------------------------------
(* Fairness.  Threads and the scheduler's straight-line code make progress *)
(* (WF); select! polls its branches from a random start, so a branch that  *)
(* is ready again and again is taken (SF).  Nothing obliges an executor to *)
(* end: that is ExecutorFairness, for workers that have a wall-clock       *)
(* budget or a host that always answers.                                   *)
SchedulerFairness ==
  /\ WF_vars(PickUrgent \/ PickNormal \/ PickNone)
  /\ WF_vars(Enqueue)
  /\ WF_vars(LaunchInit \/ LaunchCreateError \/ LaunchRun)
  /\ WF_vars(TickEnd \/ \E w \in Workers : TickAbort(w) \/ TickArm(w))
  /\ SF_vars(ReceiveStartBatch \/ ReceiveCancel \/ ReceiveShutdown \/ ReceiveNone)
  /\ SF_vars(ReceiveCompleted)
  /\ SF_vars(TickBegin)
  /\ \A w \in Workers : WF_vars(GraceElapses(w))

CallFairness ==
  /\ \A b \in Batches :
       WF_vars(SpawnReserve(b) \/ SpawnAdmit(b) \/ SpawnInsert(b) \/ SpawnSend(b))
  /\ \A c \in Cancellers :
       WF_vars(CancelQueuedToken(c) \/ CancelQueuedFinish(c) \/ CancelActive(c))
  /\ \A s \in Stoppers : WF_vars(StopSend(s) \/ StopTake(s) \/ StopJoin(s))

ExecutorFairness ==
  \A w \in Workers : SF_vars(\E outcome \in Outcomes : ExecutorEnds(w, outcome))

FairSpec == Spec /\ SchedulerFairness /\ CallFairness

FairExecutorSpec == FairSpec /\ ExecutorFairness

-----------------------------------------------------------------------------
(* Properties.                                                             *)

TypeOK ==
  /\ status \in [Workers -> Statuses]
  /\ result \in [Workers -> Terminal \cup {None}]
  /\ token \in [Workers -> BOOLEAN]
  /\ commands \in Seq(Commands)
  /\ shutdown \in BOOLEAN /\ handles \in BOOLEAN /\ thread \in BOOLEAN
  /\ spawnPc \in [Batches ->
       {"idle", "checked", "reserved", "admitted", "inserted", "ok", "error"}]
  /\ cancelPc \in [Cancellers ->
       {"idle", "sawQueued", "finishing", "sawActive", "ok", "error"}]
  /\ cancelOf \in [Cancellers -> Workers \cup {None}]
  /\ stopPc \in [Stoppers -> {"idle", "send", "take", "join", "ok", "error"}]
  /\ sched \in {"pick", "init", "create", "select", "enqueue", "tick",
                "stopped", "failed", "deadlocked"}
  /\ current \in Workers \cup {None}
  /\ batch \in Seq(Workers)
  /\ ticking \subseteq Workers
  /\ stopping \in BOOLEAN
  /\ normal \in Seq(Workers) /\ urgent \in Seq(Workers)
  /\ urgentStreak \in Nat /\ urgentRun \in Nat
  /\ running \subseteq Workers
  /\ deadline \in [Workers -> {"none", "armed", "due"}]
  /\ groupRunning \in [Groups -> Nat]
  /\ task \in [Workers -> {"none", "live", "done", "aborted"}]
  /\ completed \in Seq(Workers \X Outcomes)

\* finish keeps the first result: a worker is given a result at most once,
\* its status never moves again, and the two agree, whichever of a caller's
\* cancel, the scheduler's outcome, the abort and late events come after.
ResultStable ==
  [][\A w \in Workers : result[w] # None =>
       result'[w] = result[w] /\ status'[w] = result[w]]_vars

\* The runtime implements WorkerLifecycle: cells move as that module says.
Phase(st) ==
  IF st = "Absent" THEN "absent"
  ELSE IF st = "Queued" THEN "queued"
  ELSE IF st \in Active THEN "active" ELSE "settled"

Lifecycle == INSTANCE WorkerLifecycle
               WITH phase <- [w \in Workers |-> Phase(status[w])], outcome <- result

ImplementsLifecycle == Lifecycle!Spec

\* The limits of launch_ready and next_eligible hold of the futures that
\* really run, not only of the scheduler's own counters.
Live(w) == task[w] = "live"
ConcurrencyBounded ==
  /\ Cardinality({w \in Workers : Live(w)}) <= GlobalConcurrency
  /\ \A g \in Groups :
       Cardinality({w \in Workers : Live(w) /\ GroupOf[w] = g}) <= PerGroupConcurrency

\* Every live future holds a slot, through which cancel, shutdown and the
\* grace period reach it; a slot is held only by a live future or by one
\* whose outcome is still to be received; group counters count the slots.
SlotsTracked ==
  sched # "failed" =>
    /\ \A w \in Workers : Live(w) => w \in running
    /\ \A w \in running : Live(w) \/ \E i \in DOMAIN completed : completed[i][1] = w
    /\ \A g \in Groups :
         groupRunning[g] = Cardinality({w \in running : GroupOf[w] = g})

Launching == sched \in {"init", "create"}

\* launch_ready creates at most one future per worker: the id it holds was
\* popped once and has not been in a slot before.
LaunchedOnce == Launching => task[current] = "none"

InBatch(w, cmd) == cmd.op = "StartBatch" /\ \E i \in DOMAIN cmd.ids : cmd.ids[i] = w
InQueue(w, q) == \E i \in DOMAIN q : q[i] = w

\* Until shutdown, a worker that is not settled is somewhere the scheduler
\* will come across it: in a call about to send it, in the channel, in a
\* queue, being launched, or in a slot.
NothingForgotten ==
  ~stopping /\ sched # "failed" =>
    \A w \in ActiveWorkers :
      \/ \E b \in Batches : spawnPc[b] = "inserted" /\ w \in Ids(b)
      \/ \E i \in DOMAIN commands : InBatch(w, commands[i])
      \/ InQueue(w, batch) \/ InQueue(w, normal) \/ InQueue(w, urgent)
      \/ w = current
      \/ w \in running

\* max_urgent_streak: "Maximum consecutive urgent jobs while normal jobs are
\* queued" (model.rs), for normal jobs that could have been launched.  It
\* holds without cancel: a cancelled normal job that is popped and dropped
\* resets urgent_streak although nothing normal was launched.
UrgentBounded == urgentRun <= MaxUrgentStreak

\* cancel: "Requests cooperative cancellation and bounded hard abort": once
\* the call returns Ok its worker is settled, even when its executor is
\* stuck, unless the runtime is shut down.
CancelSettles ==
  \A c \in Cancellers : \A w \in Workers :
    (cancelPc[c] = "ok" /\ cancelOf[c] = w) ~> (result[w] # None \/ shutdown)

\* spawn and spawn_group: if executors end, then once the call returns Ok
\* wait and wait_group return, unless the runtime is shut down.
SpawnSettles ==
  ExecutorFairness =>
    \A b \in Batches : \A w \in Ids(b) :
      (spawnPc[b] = "ok") ~> (result[w] # None \/ shutdown)

\* Once the Shutdown branch has returned to the loop, stuck executors are
\* aborted and the thread ends.
StoppingStops == (stopping /\ sched = "pick") ~> Closed

\* shutdown: "Cancels, joins, and stops all scheduler-owned work".
ShutdownReturns == \A s \in Stoppers : stopPc[s] = "send" ~> stopPc[s] \in {"ok", "error"}

-----------------------------------------------------------------------------
(* The inductive invariant behind the theorems of WorkerRuntimeProofs.     *)

Known(w) == status[w] # "Absent"
Started(w) == status[w] \notin {"Absent", "Queued"}

\* A cell's result is its terminal status.
CellsAgree ==
  \A w \in Workers : result[w] = IF IsTerminal(w) THEN status[w] ELSE None

\* A call's workers are in the map from its insertion on, and not before.
CallsKnown ==
  /\ \A b \in Batches : \A i \in DOMAIN Members[b] :
       Known(Members[b][i]) <=> spawnPc[b] \in {"inserted", "ok"}
  /\ \A c \in Cancellers : cancelPc[c] # "idle" =>
       cancelOf[c] \in Workers /\ Known(cancelOf[c])

\* The scheduler only ever handles ids that are in the map.
QueuedKnown ==
  /\ \A i \in DOMAIN commands : commands[i].op = "StartBatch" =>
       /\ commands[i].ids # <<>>
       /\ \A j \in DOMAIN commands[i].ids : Known(commands[i].ids[j])
  /\ \A i \in DOMAIN batch : Known(batch[i])
  /\ \A i \in DOMAIN normal : Known(normal[i])
  /\ \A i \in DOMAIN urgent : Known(urgent[i])
  /\ sched = "enqueue" => batch # <<>>

\* A worker that holds a slot, or is about to, is past the queue.
StartedKnown ==
  /\ Launching => current \in Workers /\ Known(current)
  /\ sched = "create" => Started(current)
  /\ \A w \in Workers : w \in running \cup ticking \/ task[w] # "none" => Started(w)

LifecycleInv == CellsAgree /\ CallsKnown /\ QueuedKnown /\ StartedKnown
=============================================================================

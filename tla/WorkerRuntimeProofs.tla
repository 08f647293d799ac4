------------------------- MODULE WorkerRuntimeProofs -------------------------
(* Theorems about WorkerRuntime, for every workload and every limit.       *)
EXTENDS WorkerRuntime, TLAPS, FiniteSetTheorems, SequenceTheorems

USE DEF Terminal, Active, Statuses, Outcomes

IInv == TypeOK /\ LifecycleInv

LEMMA FinalStatusType == \A w, o : FinalStatus(w, o) \in Terminal
BY DEF FinalStatus

LEMMA AppendCommand ==
  ASSUME TypeOK, NEW cmd \in Commands
  PROVE  Append(commands, cmd) \in Seq(Commands)
BY AppendProperties DEF TypeOK

LEMMA AppendWorker ==
  ASSUME NEW q \in Seq(Workers), NEW w \in Workers
  PROVE  Append(q, w) \in Seq(Workers)
BY AppendProperties

LEMMA FinishType ==
  ASSUME TypeOK, NEW w, NEW st \in Terminal, NEW ok, Finish(w, st, ok)
  PROVE  /\ status' \in [Workers -> Statuses]
         /\ result' \in [Workers -> Terminal \cup {None}]
<1>1. CASE result[w] = None /\ ok
  BY <1>1 DEF Finish, TypeOK
<1>2. CASE ~(result[w] = None /\ ok)
  BY <1>2 DEF Finish, TypeOK
<1> QED BY <1>1, <1>2

LEMMA EmitType ==
  ASSUME TypeOK, NEW w, NEW st \in Active, Emit(w, st)
  PROVE  status' \in [Workers -> Statuses]
BY DEF Emit, TypeOK

LEMMA TypeClient ==
  ASSUME TypeOK, CallsKnown, Client
  PROVE  TypeOK'
<1> USE DEF TypeOK, cells, clients, scheduler, queues, tasks, slots
<1>1. ASSUME NEW b \in Batches, SpawnCheck(b) PROVE TypeOK'
  BY <1>1 DEF SpawnCheck
<1>2. ASSUME NEW b \in Batches, SpawnReserve(b) PROVE TypeOK'
  BY <1>2 DEF SpawnReserve
<1>3. ASSUME NEW b \in Batches, SpawnAdmit(b) PROVE TypeOK'
  BY <1>3 DEF SpawnAdmit
<1>4. ASSUME NEW b \in Batches, SpawnInsert(b) PROVE TypeOK'
  BY <1>4 DEF SpawnInsert
<1>5. ASSUME NEW b \in Batches, SpawnSend(b) PROVE TypeOK'
  <2>1. [op |-> "StartBatch", ids |-> Members[b]] \in Commands
    BY WorkloadAssumption DEF Commands
  <2>2. commands' \in Seq(Commands)
    BY <1>5, <2>1, AppendCommand DEF SpawnSend
  <2> QED
    BY <1>5, <2>2 DEF SpawnSend
<1>6. ASSUME NEW c \in Cancellers, NEW w \in Workers, CancelRead(c, w) PROVE TypeOK'
  BY <1>6 DEF CancelRead
<1>7. ASSUME NEW c \in Cancellers, CancelQueuedToken(c) PROVE TypeOK'
  BY <1>7 DEF CancelQueuedToken
<1>8. ASSUME NEW c \in Cancellers, CancelQueuedFinish(c) PROVE TypeOK'
  <2>1. PICK ok \in JournalOutcomes :
          /\ Finish(cancelOf[c], "Cancelled", ok)
          /\ cancelPc' = [cancelPc EXCEPT ![c] =
               IF FinishReturnsOk(cancelOf[c], ok) THEN "ok" ELSE "error"]
    BY <1>8 DEF CancelQueuedFinish
  <2>2. status' \in [Workers -> Statuses] /\ result' \in [Workers -> Terminal \cup {None}]
    BY <2>1, FinishType
  <2> QED
    BY <1>8, <2>1, <2>2 DEF CancelQueuedFinish
<1>9. ASSUME NEW c \in Cancellers, CancelActive(c) PROVE TypeOK'
  <2>1. cancelOf[c] \in Workers
    BY <1>9 DEF CancelActive, CallsKnown
  <2>2. [op |-> "Cancel", ids |-> <<cancelOf[c]>>] \in Commands
    BY <2>1 DEF Commands
  <2>3. commands' \in Seq(Commands) /\ token' \in [Workers -> BOOLEAN]
    <3>1. CASE HasSlot
      BY <1>9, <2>2, <3>1, AppendCommand DEF CancelActive
    <3>2. CASE ~HasSlot
      BY <1>9, <3>2 DEF CancelActive
    <3> QED BY <3>1, <3>2
  <2> QED
    BY <1>9, <2>3 DEF CancelActive
<1>10. ASSUME NEW s \in Stoppers, StopSwap(s) PROVE TypeOK'
  BY <1>10 DEF StopSwap
<1>11. ASSUME NEW s \in Stoppers, StopSend(s) PROVE TypeOK'
  <2>1. [op |-> "Shutdown", ids |-> <<>>] \in Commands
    BY DEF Commands
  <2>2. commands' \in Seq(Commands)
    BY <1>11, <2>1, AppendCommand DEF StopSend
  <2> QED
    BY <1>11, <2>2 DEF StopSend
<1>12. ASSUME NEW s \in Stoppers, StopTake(s) PROVE TypeOK'
  BY <1>12 DEF StopTake
<1>13. ASSUME NEW s \in Stoppers, StopJoin(s) PROVE TypeOK'
  BY <1>13 DEF StopJoin
<1>14. ASSUME DropHandles PROVE TypeOK'
  BY <1>14 DEF DropHandles
<1> QED
  BY <1>1, <1>2, <1>3, <1>4, <1>5, <1>6, <1>7, <1>8, <1>9, <1>10, <1>11, <1>12,
     <1>13, <1>14 DEF Client

LEMMA RotatedType ==
  ASSUME NEW S, NEW q \in Seq(S), NEW i \in DOMAIN q
  PROVE  /\ Rotated(q, i) \in Seq(S)
         /\ \A j \in DOMAIN Rotated(q, i) : \E k \in DOMAIN q : Rotated(q, i)[j] = q[k]
<1> DEFINE back == SubSeq(q, i + 1, Len(q))
           front == SubSeq(q, 1, i - 1)
<1>1. i \in 1..Len(q) /\ Len(q) \in Nat /\ \A j \in 1..Len(q) : q[j] \in S
  OBVIOUS
<1>2. /\ back \in Seq(S) /\ Len(back) = Len(q) - i
      /\ \A j \in 1..Len(back) : back[j] = q[i + j]
  BY <1>1, SubSeqProperties
<1>3. /\ front \in Seq(S) /\ Len(front) = i - 1
      /\ \A j \in 1..Len(front) : front[j] = q[j]
  BY <1>1, SubSeqProperties
<1> HIDE DEF back, front
<1>4. /\ back \o front \in Seq(S)
      /\ Len(back \o front) = Len(back) + Len(front)
      /\ \A j \in 1..(Len(back) + Len(front)) : (back \o front)[j] =
            IF j <= Len(back) THEN back[j] ELSE front[j - Len(back)]
  BY <1>2, <1>3, ConcatProperties
<1>5. ASSUME NEW j \in 1..Len(back \o front)
      PROVE  \E k \in 1..Len(q) : (back \o front)[j] = q[k]
  <2>1. CASE j <= Len(back)
    <3>1. (back \o front)[j] = back[j] /\ j \in 1..Len(back)
      BY <1>1, <1>2, <1>3, <1>4, <2>1
    <3>2. back[j] = q[i + j] /\ i + j \in 1..Len(q)
      BY <1>1, <1>2, <3>1
    <3> QED BY <3>1, <3>2
  <2>2. CASE ~(j <= Len(back))
    <3>1. j - Len(back) \in 1..Len(front) /\ j \in 1..(Len(back) + Len(front))
      <4>1. Len(back) \in Nat /\ Len(front) \in Nat
        BY <1>2, <1>3, LenProperties
      <4>2. j \in 1..(Len(back) + Len(front)) /\ j > Len(back)
        BY <1>4, <2>2, <4>1
      <4> QED BY <4>1, <4>2
    <3>3. (back \o front)[j] = front[j - Len(back)]
      BY <1>4, <2>2, <3>1
    <3>2. front[j - Len(back)] = q[j - Len(back)] /\ j - Len(back) \in 1..Len(q)
      BY <1>1, <1>3, <3>1
    <3> QED BY <3>2, <3>3
  <2> QED BY <2>1, <2>2
<1>6. Rotated(q, i) = back \o front
  BY DEF Rotated, back, front
<1>7. DOMAIN (back \o front) = 1..Len(back \o front) /\ DOMAIN q = 1..Len(q)
  BY <1>4
<1> QED BY <1>4, <1>5, <1>6, <1>7

LEMMA ReleaseType ==
  ASSUME TypeOK, NEW w \in Workers, Release(w)
  PROVE  /\ running' \subseteq Workers
         /\ deadline' \in [Workers -> {"none", "armed", "due"}]
         /\ groupRunning' \in [Groups -> Nat]
<1>1. CASE GroupOf[w] = NoGroup \/ groupRunning[GroupOf[w]] = 0
  BY <1>1 DEF Release, TypeOK
<1>2. CASE ~(GroupOf[w] = NoGroup \/ groupRunning[GroupOf[w]] = 0)
  <2>1. GroupOf[w] \in Groups
    BY <1>2, WorkloadAssumption
  <2>2. groupRunning[GroupOf[w]] - 1 \in Nat
    BY <1>2, <2>1 DEF TypeOK
  <2> QED
    BY <1>2, <2>2 DEF Release, TypeOK
<1> QED BY <1>1, <1>2

LEMMA TypeScheduler ==
  ASSUME TypeOK, QueuedKnown, StartedKnown, Scheduler
  PROVE  TypeOK'
<1> USE DEF TypeOK, cells, clients, scheduler, queues, tasks, slots
<1>1. CASE PickUrgent
  BY <1>1, RotatedType DEF PickUrgent, Popped
<1>2. CASE PickNormal
  BY <1>2, RotatedType DEF PickNormal, Popped
<1>3. CASE PickNone
  BY <1>3 DEF PickNone
<1>4. CASE LaunchInit
  BY <1>4, EmitType DEF LaunchInit, FailOr
<1>5. CASE LaunchCreateError
  <2>1. PICK ok \in JournalOutcomes :
          /\ Finish(current, FinalStatus(current, "error"), ok)
          /\ FailOr("pick", FinishReturnsOk(current, ok))
    BY <1>5 DEF LaunchCreateError
  <2>2. /\ status' \in [Workers -> Statuses]
        /\ result' \in [Workers -> Terminal \cup {None}]
    <3>1. FinalStatus(current, "error") \in Terminal
      BY FinalStatusType
    <3> HIDE DEF TypeOK
    <3> QED BY <2>1, <3>1, FinishType
  <2> QED
    BY <1>5, <2>1, <2>2 DEF LaunchCreateError, FailOr
<1>6. CASE LaunchRun
  <2>1. status' \in [Workers -> Statuses]
    BY <1>6, EmitType DEF LaunchRun
  <2>2. current \in Workers
    BY <1>6 DEF LaunchRun, StartedKnown, Launching
  <2>3. PICK ok \in JournalOutcomes :
          IF EmitReturnsOk(current, ok)
          THEN /\ sched' = "pick"
               /\ task' = [task EXCEPT ![current] = "live"]
               /\ running' = running \cup {current}
               /\ deadline' = [deadline EXCEPT ![current] = "none"]
               /\ groupRunning' = IF GroupOf[current] = NoGroup THEN groupRunning
                    ELSE [groupRunning EXCEPT ![GroupOf[current]] = @ + 1]
          ELSE FailOr("pick", FALSE) /\ UNCHANGED slots
    BY <1>6 DEF LaunchRun
  <2>4. CASE EmitReturnsOk(current, ok)
    <3>1. groupRunning' \in [Groups -> Nat]
      <4>1. CASE GroupOf[current] = NoGroup
        BY <2>3, <2>4, <4>1
      <4>2. CASE GroupOf[current] # NoGroup
        <5>1. GroupOf[current] \in Groups
          BY <2>2, <4>2, WorkloadAssumption
        <5> QED BY <2>3, <2>4, <4>2, <5>1
      <4> QED BY <4>1, <4>2
    <3>3. /\ running' = running \cup {current}
          /\ deadline' = [deadline EXCEPT ![current] = "none"]
          /\ task' = [task EXCEPT ![current] = "live"]
          /\ sched' = "pick"
      BY <2>3, <2>4
    <3>2. /\ running' \subseteq Workers
          /\ deadline' \in [Workers -> {"none", "armed", "due"}]
          /\ task' \in [Workers -> {"none", "live", "done", "aborted"}]
          /\ sched' = "pick"
      BY <2>2, <3>3
    <3> QED
      BY <1>6, <2>1, <3>1, <3>2 DEF LaunchRun
  <2>5. CASE ~EmitReturnsOk(current, ok)
    BY <1>6, <2>1, <2>3, <2>5 DEF LaunchRun, FailOr
  <2> QED BY <2>4, <2>5
<1>7. CASE ReceiveStartBatch
  <2>1. commands # <<>> /\ Head(commands) \in Commands /\ Tail(commands) \in Seq(Commands)
    BY <1>7, HeadTailProperties DEF ReceiveStartBatch, Receives
  <2>2. Head(commands).ids \in Seq(Workers)
    BY <2>1 DEF Commands
  <2> QED
    BY <1>7, <2>1, <2>2 DEF ReceiveStartBatch, Receives
<1>8. CASE Enqueue
  <2>1. Head(batch) \in Workers /\ Tail(batch) \in Seq(Workers)
    BY <1>8, HeadTailProperties DEF Enqueue, QueuedKnown
  <2>2. normal' \in Seq(Workers) /\ urgent' \in Seq(Workers)
    <3>1. /\ Append(normal, Head(batch)) \in Seq(Workers)
          /\ Append(urgent, Head(batch)) \in Seq(Workers)
      BY <2>1, AppendWorker
    <3> QED BY <1>8, <3>1 DEF Enqueue
  <2> QED
    BY <1>8, <2>1, <2>2 DEF Enqueue
<1>9. CASE ReceiveCancel
  <2>1. Tail(commands) \in Seq(Commands)
    BY <1>9, HeadTailProperties DEF ReceiveCancel, Receives
  <2>2. deadline' \in [Workers -> {"none", "armed", "due"}]
    BY <1>9 DEF ReceiveCancel
  <2> QED
    BY <1>9, <2>1, <2>2 DEF ReceiveCancel, Receives
<1>10. CASE ReceiveShutdown
  BY <1>10 DEF ReceiveShutdown, Receives, StopScheduling
<1>11. CASE ReceiveNone
  BY <1>11 DEF ReceiveNone, StopScheduling
<1>12. CASE ReceiveCompleted
  <2> DEFINE w == Head(completed)[1]
  <2>1. /\ w \in Workers /\ Head(completed)[2] \in Outcomes
        /\ Tail(completed) \in Seq(Workers \X Outcomes)
    <3>1. completed # <<>> /\ completed \in Seq(Workers \X Outcomes)
      BY <1>12 DEF ReceiveCompleted
    <3>2. Head(completed) \in Workers \X Outcomes /\ Tail(completed) \in Seq(Workers \X Outcomes)
      BY <3>1, HeadTailProperties
    <3> QED BY <3>2
  <2>2. CASE w \in running
    <3>1. PICK ok \in JournalOutcomes :
            /\ Release(w)
            /\ Finish(w, FinalStatus(w, Head(completed)[2]), ok)
            /\ FailOr("pick", FinishReturnsOk(w, ok))
      BY <1>12, <2>2 DEF ReceiveCompleted
    <3>2. /\ status' \in [Workers -> Statuses]
          /\ result' \in [Workers -> Terminal \cup {None}]
      <4>1. FinalStatus(w, Head(completed)[2]) \in Terminal
        BY FinalStatusType
      <4> HIDE DEF TypeOK, w
      <4> QED BY <3>1, <4>1, FinishType
    <3>3. /\ running' \subseteq Workers
          /\ deadline' \in [Workers -> {"none", "armed", "due"}]
          /\ groupRunning' \in [Groups -> Nat]
      BY <2>1, <3>1, ReleaseType
    <3>4. /\ sched' \in {"pick", "failed"}
          /\ task' \in [Workers -> {"none", "live", "done", "aborted"}]
      BY <3>1 DEF FailOr
    <3> QED
      BY <1>12, <2>1, <3>2, <3>3, <3>4 DEF ReceiveCompleted
  <2>3. CASE w \notin running
    BY <1>12, <2>1, <2>3 DEF ReceiveCompleted
  <2> QED BY <2>2, <2>3
<1>13. CASE TickBegin \/ TickEnd
  BY <1>13 DEF TickBegin, TickEnd
<1>14. ASSUME NEW w \in Workers, TickAbort(w) PROVE TypeOK'
  <2>1. PICK ok \in JournalOutcomes :
          /\ Release(w)
          /\ Finish(w, "Cancelled", ok)
          /\ sched' = IF FinishReturnsOk(w, ok) THEN "tick" ELSE "failed"
          /\ task' = [v \in Workers |->
               IF task[v] = "live" /\ (v = w \/ ~FinishReturnsOk(w, ok))
               THEN "aborted" ELSE task[v]]
    BY <1>14 DEF TickAbort
  <2>2. /\ status' \in [Workers -> Statuses]
        /\ result' \in [Workers -> Terminal \cup {None}]
    BY <2>1, FinishType
  <2>3. /\ running' \subseteq Workers
        /\ deadline' \in [Workers -> {"none", "armed", "due"}]
        /\ groupRunning' \in [Groups -> Nat]
    BY <2>1, ReleaseType
  <2>4. /\ sched' \in {"tick", "failed"}
        /\ task' \in [Workers -> {"none", "live", "done", "aborted"}]
    BY <2>1
  <2> QED
    BY <1>14, <2>2, <2>3, <2>4 DEF TickAbort
<1>15. ASSUME NEW w \in Workers, TickArm(w) PROVE TypeOK'
  BY <1>15 DEF TickArm
<1> QED
  BY <1>1, <1>2, <1>3, <1>4, <1>5, <1>6, <1>7, <1>8, <1>9, <1>10, <1>11, <1>12,
     <1>13, <1>14, <1>15 DEF Scheduler

LEMMA TypeEnvironment ==
  ASSUME TypeOK, Environment
  PROVE  TypeOK'
<1> USE DEF TypeOK, cells, clients, scheduler, queues, tasks, slots
<1>1. ASSUME NEW w \in Workers, GraceElapses(w) PROVE TypeOK'
  BY <1>1 DEF GraceElapses
<1>2. ASSUME NEW w \in Workers, ExecutorWaits(w) PROVE TypeOK'
  BY <1>2, EmitType DEF ExecutorWaits
<1>3. ASSUME NEW w \in Workers, NEW over \in BOOLEAN, ExecutorEmits(w, over) PROVE TypeOK'
  BY <1>3, EmitType DEF ExecutorEmits
<1>4. ASSUME NEW w \in Workers, NEW outcome \in Outcomes, ExecutorEnds(w, outcome) PROVE TypeOK'
  BY <1>4 DEF ExecutorEnds
<1> QED
  BY <1>1, <1>2, <1>3, <1>4 DEF Environment

-----------------------------------------------------------------------------
(* The lifecycle invariant.                                                *)

\* No worker leaves the map or goes back to the queue ...
KeepsMap ==
  \A w \in Workers : (Known(w) => Known(w)') /\ (Started(w) => Started(w)')

\* ... and none enters the map.
SameMap == KeepsMap /\ \A w \in Workers : Known(w)' => Known(w)

LEMMA EmitMap ==
  ASSUME TypeOK, CellsAgree, NEW w \in Workers, Known(w), NEW st \in Active,
         Emit(w, st), UNCHANGED result
  PROVE  CellsAgree' /\ SameMap /\ Started(w)'
BY DEF TypeOK, CellsAgree, SameMap, KeepsMap, Emit, Known, Started, IsTerminal

LEMMA FinishMap ==
  ASSUME TypeOK, CellsAgree, NEW w \in Workers, Known(w), NEW st \in Terminal,
         NEW ok, Finish(w, st, ok)
  PROVE  CellsAgree' /\ SameMap
<1>1. CASE result[w] = None /\ ok
  <2>1. /\ status' = [status EXCEPT ![w] = st]
        /\ result' = [result EXCEPT ![w] = st]
    BY <1>1 DEF Finish
  <2>2. CellsAgree'
    BY <2>1 DEF TypeOK, CellsAgree, IsTerminal
  <2>3. SameMap
    BY <2>1 DEF TypeOK, SameMap, KeepsMap, Known, Started
  <2> QED BY <2>2, <2>3
<1>2. CASE ~(result[w] = None /\ ok)
  BY <1>2 DEF CellsAgree, SameMap, KeepsMap, Finish, Known, Started, IsTerminal
<1> QED BY <1>1, <1>2

LEMMA IdleMap ==
  ASSUME CellsAgree, UNCHANGED <<status, result>>
  PROVE  CellsAgree' /\ SameMap
BY DEF CellsAgree, SameMap, KeepsMap, Known, Started, IsTerminal

LEMMA CallsFrame ==
  ASSUME TypeOK, CallsKnown, SameMap, UNCHANGED <<spawnPc, cancelPc, cancelOf>>
  PROVE  CallsKnown'
BY WorkloadAssumption DEF TypeOK, CallsKnown, SameMap, KeepsMap

LEMMA QueuesFrame ==
  ASSUME TypeOK, QueuedKnown, KeepsMap, UNCHANGED <<commands, batch, normal, urgent>>,
         sched' = "enqueue" => sched = "enqueue"
  PROVE  QueuedKnown'
<1>1. ASSUME NEW i \in DOMAIN commands, commands[i].op = "StartBatch",
             NEW j \in DOMAIN commands[i].ids
      PROVE  Known(commands[i].ids[j])'
  <2>1. commands[i] \in Commands
    BY DEF TypeOK
  <2>2. commands[i].ids[j] \in Workers
    BY <2>1 DEF Commands
  <2> QED BY <1>1, <2>2 DEF QueuedKnown, KeepsMap
<1>2. /\ \A i \in DOMAIN batch : Known(batch[i])'
      /\ \A i \in DOMAIN normal : Known(normal[i])'
      /\ \A i \in DOMAIN urgent : Known(urgent[i])'
  BY DEF TypeOK, QueuedKnown, KeepsMap
<1> QED BY <1>1, <1>2 DEF QueuedKnown, Known

\* A command appended to the channel, its ids known if it starts them.
LEMMA SentKnown ==
  ASSUME TypeOK, QueuedKnown, NEW cmd \in Commands,
         cmd.op = "StartBatch" =>
           cmd.ids # <<>> /\ \A j \in DOMAIN cmd.ids : Known(cmd.ids[j]),
         commands' = commands \/ commands' = Append(commands, cmd),
         UNCHANGED <<status, batch, normal, urgent, sched>>
  PROVE  QueuedKnown'
<1>1. ASSUME NEW i \in DOMAIN commands', commands'[i].op = "StartBatch"
      PROVE  /\ commands'[i].ids # <<>>
             /\ \A j \in DOMAIN commands'[i].ids : Known(commands'[i].ids[j])
  <2>1. CASE commands' = commands
    BY <1>1, <2>1 DEF QueuedKnown
  <2>2. CASE commands' = Append(commands, cmd)
    <3>1. /\ DOMAIN Append(commands, cmd) = 1..(Len(commands) + 1)
          /\ \A k \in 1..Len(commands) : Append(commands, cmd)[k] = commands[k]
          /\ Append(commands, cmd)[Len(commands) + 1] = cmd
          /\ DOMAIN commands = 1..Len(commands) /\ Len(commands) \in Nat
      BY AppendProperties, LenProperties DEF TypeOK
    <3>2. CASE i \in 1..Len(commands)
      BY <1>1, <2>2, <3>1, <3>2 DEF QueuedKnown
    <3>3. CASE i = Len(commands) + 1
      BY <1>1, <2>2, <3>1, <3>3
    <3> QED BY <2>2, <3>1, <3>2, <3>3
  <2> QED BY <2>1, <2>2
<1> QED BY <1>1 DEF QueuedKnown, Known

LEMMA StartedFrame ==
  ASSUME TypeOK, StartedKnown, KeepsMap, UNCHANGED <<sched, current, running, ticking, task>>
  PROVE  StartedKnown'
BY DEF TypeOK, StartedKnown, KeepsMap, Launching

LEMMA LifecycleClient ==
  ASSUME TypeOK, LifecycleInv, Client
  PROVE  LifecycleInv'
<1> USE DEF LifecycleInv, cells, clients, scheduler, queues, tasks, slots, SameMap
<1>1. ASSUME NEW b \in Batches, SpawnCheck(b) \/ SpawnReserve(b) \/ SpawnAdmit(b)
      PROVE  LifecycleInv'
  <2>1. /\ UNCHANGED <<cells, commands, scheduler, cancelPc, cancelOf>>
        /\ spawnPc[b] \notin {"inserted", "ok"}
        /\ \E pc \in {"checked", "reserved", "admitted", "error"} :
             spawnPc' = [spawnPc EXCEPT ![b] = pc]
    BY <1>1 DEF SpawnCheck, SpawnReserve, SpawnAdmit
  <2>2. CellsAgree' /\ SameMap
    BY <2>1, IdleMap
  <2>3. CallsKnown'
    BY <2>1 DEF CallsKnown, TypeOK, Known
  <2> QED BY <2>1, <2>2, <2>3, QueuesFrame, StartedFrame
<1>2. ASSUME NEW b \in Batches, SpawnInsert(b) PROVE LifecycleInv'
  <2>1. PICK ok \in JournalOutcomes :
          /\ spawnPc' = [spawnPc EXCEPT ![b] = IF ok THEN "inserted" ELSE "error"]
          /\ status' = [w \in Workers |->
                          IF ok /\ w \in Ids(b) THEN "Queued" ELSE status[w]]
    BY <1>2 DEF SpawnInsert
  <2>2. CASE ok
    <3>1. \A w \in Ids(b) : w \in Workers /\ ~Known(w)
      BY <1>2, WorkloadAssumption DEF CallsKnown, Ids, SpawnInsert
    <3>2. \A w \in Workers : /\ w \in Ids(b) => status'[w] = "Queued"
                             /\ w \notin Ids(b) => status'[w] = status[w]
      BY <2>1, <2>2
    <3>3. \A w \in Workers : Known(w) => status'[w] = status[w]
      BY <3>1, <3>2
    <3>4. CellsAgree'
      BY <1>2, <3>1, <3>2 DEF CellsAgree, IsTerminal, SpawnInsert, Known
    <3>5. CallsKnown'
      <4>1. ASSUME NEW c \in Batches, NEW i \in DOMAIN Members[c]
            PROVE  Known(Members[c][i])' <=> spawnPc'[c] \in {"inserted", "ok"}
        <5>1. Members[c][i] \in Workers
          BY WorkloadAssumption
        <5>2. CASE c = b
          BY <2>1, <2>2, <3>2, <5>1, <5>2 DEF TypeOK, Ids, Known
        <5>3. CASE c # b
          <6>1. Members[c][i] \notin Ids(b)
            BY <5>3, WorkloadAssumption DEF Ids
          <6>2. spawnPc'[c] = spawnPc[c]
            BY <2>1, <5>3 DEF TypeOK
          <6> QED BY <3>2, <5>1, <6>1, <6>2 DEF CallsKnown, Known
        <5> QED BY <5>2, <5>3
      <4>2. \A c \in Cancellers : cancelPc'[c] # "idle" =>
               cancelOf'[c] \in Workers /\ Known(cancelOf[c])'
        BY <1>2, <3>3 DEF SpawnInsert, CallsKnown, Known
      <4> QED BY <1>2, <4>1, <4>2 DEF SpawnInsert, CallsKnown, Known
    <3>6. KeepsMap
      BY <3>3 DEF KeepsMap, Known, Started
    <3> QED BY <1>2, <3>4, <3>5, <3>6, QueuesFrame, StartedFrame DEF SpawnInsert
  <2>3. CASE ~ok
    <3>1. UNCHANGED <<status, result>>
      BY <1>2, <2>1, <2>3 DEF SpawnInsert, TypeOK
    <3>2. CellsAgree' /\ SameMap
      BY <3>1, IdleMap
    <3>3. spawnPc' = [spawnPc EXCEPT ![b] = "error"]
      BY <2>1, <2>3
    <3>4. /\ spawnPc[b] = "admitted" /\ UNCHANGED <<cancelPc, cancelOf>>
          /\ \A w \in Workers : Known(w)' <=> Known(w)
      BY <1>2, <3>1 DEF SpawnInsert, Known
    <3>5. CallsKnown'
      BY <3>1, <3>3, <3>4 DEF CallsKnown, Known, TypeOK
    <3> QED BY <1>2, <3>2, <3>5, QueuesFrame, StartedFrame DEF SpawnInsert
  <2> QED BY <2>2, <2>3
<1>3. ASSUME NEW b \in Batches, SpawnSend(b) PROVE LifecycleInv'
  <2>1. CellsAgree' /\ SameMap
    BY <1>3, IdleMap DEF SpawnSend
  <2>2. CallsKnown'
    BY <1>3 DEF SpawnSend, CallsKnown, Known, TypeOK
  <2>3. QueuedKnown'
    <3>1. \A i \in DOMAIN Members[b] : Known(Members[b][i])
      BY <1>3 DEF SpawnSend, CallsKnown
    <3>2. [op |-> "StartBatch", ids |-> Members[b]] \in Commands
      BY WorkloadAssumption DEF Commands
    <3>3. Members[b] # <<>>
      BY WorkloadAssumption
    <3> QED BY <1>3, <3>1, <3>2, <3>3, SentKnown DEF SpawnSend
  <2> QED BY <1>3, <2>1, <2>2, <2>3, StartedFrame DEF SpawnSend
<1>4. ASSUME NEW c \in Cancellers, NEW w \in Workers, CancelRead(c, w) PROVE LifecycleInv'
  <2>1. CellsAgree' /\ SameMap
    BY <1>4, IdleMap DEF CancelRead
  <2>2. CallsKnown'
    BY <1>4 DEF CancelRead, CallsKnown, Known, TypeOK
  <2> QED BY <1>4, <2>1, <2>2, QueuesFrame, StartedFrame DEF CancelRead
<1>5. ASSUME NEW c \in Cancellers, CancelQueuedToken(c) PROVE LifecycleInv'
  <2>1. CellsAgree' /\ SameMap
    BY <1>5, IdleMap DEF CancelQueuedToken
  <2>2. CallsKnown'
    BY <1>5 DEF CancelQueuedToken, CallsKnown, Known, TypeOK
  <2> QED BY <1>5, <2>1, <2>2, QueuesFrame, StartedFrame DEF CancelQueuedToken
<1>6. ASSUME NEW c \in Cancellers, CancelQueuedFinish(c) PROVE LifecycleInv'
  <2>1. cancelOf[c] \in Workers /\ Known(cancelOf[c])
    BY <1>6 DEF CancelQueuedFinish, CallsKnown
  <2>2. PICK ok \in JournalOutcomes : Finish(cancelOf[c], "Cancelled", ok)
    BY <1>6 DEF CancelQueuedFinish
  <2>3. CellsAgree' /\ SameMap
    BY <2>1, <2>2, FinishMap
  <2>4. CallsKnown'
    BY <1>6, <2>3, WorkloadAssumption DEF CancelQueuedFinish, CallsKnown, KeepsMap, TypeOK
  <2> QED BY <1>6, <2>3, <2>4, QueuesFrame, StartedFrame DEF CancelQueuedFinish
<1>7. ASSUME NEW c \in Cancellers, CancelActive(c) PROVE LifecycleInv'
  <2>1. CellsAgree' /\ SameMap
    BY <1>7, IdleMap DEF CancelActive
  <2>2. CallsKnown'
    BY <1>7 DEF CancelActive, CallsKnown, Known, TypeOK
  <2>3. QueuedKnown'
    <3>1. CASE HasSlot
      <4>1. [op |-> "Cancel", ids |-> <<cancelOf[c]>>] \in Commands
        BY <1>7 DEF CancelActive, CallsKnown, Commands
      <4> QED BY <1>7, <3>1, <4>1, SentKnown DEF CancelActive
    <3>2. CASE ~HasSlot
      BY <1>7, <2>1, <3>2, QueuesFrame DEF CancelActive
    <3> QED BY <3>1, <3>2
  <2> QED BY <1>7, <2>1, <2>2, <2>3, StartedFrame DEF CancelActive
<1>8. ASSUME NEW s \in Stoppers, StopSend(s) PROVE LifecycleInv'
  <2>1. CellsAgree' /\ SameMap
    BY <1>8, IdleMap DEF StopSend
  <2>2. QueuedKnown'
    <3>1. [op |-> "Shutdown", ids |-> <<>>] \in Commands
      BY DEF Commands
    <3> QED BY <1>8, <3>1, SentKnown DEF StopSend
  <2> QED BY <1>8, <2>1, <2>2, CallsFrame, StartedFrame DEF StopSend
<1>9. ASSUME NEW s \in Stoppers, StopSwap(s) \/ StopTake(s) \/ StopJoin(s)
      PROVE  LifecycleInv'
  <2>1. UNCHANGED <<cells, commands, scheduler, spawnPc, cancelPc, cancelOf>>
    BY <1>9 DEF StopSwap, StopTake, StopJoin
  <2> QED BY <2>1, IdleMap, CallsFrame, QueuesFrame, StartedFrame
<1>10. ASSUME DropHandles PROVE LifecycleInv'
  BY <1>10, IdleMap, CallsFrame, QueuesFrame, StartedFrame DEF DropHandles
<1> QED
  BY <1>1, <1>2, <1>3, <1>4, <1>5, <1>6, <1>7, <1>8, <1>9, <1>10 DEF Client

\* Cells untouched, queues shortened or rearranged by the scheduler.
LEMMA QueuesShrink ==
  ASSUME TypeOK, QueuedKnown, UNCHANGED status,
         \A i \in DOMAIN commands' : \E k \in DOMAIN commands : commands'[i] = commands[k],
         \A i \in DOMAIN normal' : \E k \in DOMAIN normal : normal'[i] = normal[k],
         \A i \in DOMAIN urgent' : \E k \in DOMAIN urgent : urgent'[i] = urgent[k],
         UNCHANGED batch, sched' = "enqueue" => sched = "enqueue"
  PROVE  QueuedKnown'
BY DEF QueuedKnown, Known

LEMMA TailElements ==
  ASSUME NEW S, NEW q \in Seq(S), q # <<>>
  PROVE  /\ \A i \in DOMAIN Tail(q) : \E k \in DOMAIN q : Tail(q)[i] = q[k]
         /\ 1 \in DOMAIN q /\ Head(q) = q[1]
<1>1. /\ Len(Tail(q)) = Len(q) - 1
      /\ \A i \in 1..Len(Tail(q)) : Tail(q)[i] = q[i + 1]
      /\ Tail(q) \in Seq(S) /\ Len(q) \in Nat \ {0} /\ Head(q) = q[1]
  BY HeadTailProperties, EmptySeq, LenProperties
<1>2. DOMAIN Tail(q) = 1..Len(Tail(q)) /\ DOMAIN q = 1..Len(q)
  BY <1>1
<1> QED BY <1>1, <1>2

LEMMA LifecyclePick ==
  ASSUME TypeOK, LifecycleInv, PickUrgent \/ PickNormal \/ PickNone
  PROVE  LifecycleInv'
<1> USE DEF LifecycleInv, cells, clients, queues, tasks, slots, SameMap
<1>1. CASE PickUrgent
  <2>1. PICK i \in DOMAIN urgent : Popped(urgent[i]) /\ urgent' = Rotated(urgent, i)
    BY <1>1 DEF PickUrgent
  <2>2. CellsAgree' /\ SameMap
    BY <1>1, IdleMap DEF PickUrgent
  <2>3. \A j \in DOMAIN urgent' : \E k \in DOMAIN urgent : urgent'[j] = urgent[k]
    BY <2>1, RotatedType DEF TypeOK
  <2>4. QueuedKnown'
    BY <1>1, <2>1, <2>3, QueuesShrink DEF PickUrgent, Popped
  <2>5. urgent[i] \in Workers /\ Known(urgent[i])
    BY <2>1 DEF TypeOK, QueuedKnown
  <2>6. StartedKnown'
    BY <1>1, <2>1, <2>5 DEF PickUrgent, Popped, StartedKnown, Launching, Known, Started
  <2> QED BY <1>1, <2>2, <2>4, <2>6, CallsFrame DEF PickUrgent
<1>2. CASE PickNormal
  <2>1. PICK i \in DOMAIN normal : Popped(normal[i]) /\ normal' = Rotated(normal, i)
    BY <1>2 DEF PickNormal
  <2>2. CellsAgree' /\ SameMap
    BY <1>2, IdleMap DEF PickNormal
  <2>3. \A j \in DOMAIN normal' : \E k \in DOMAIN normal : normal'[j] = normal[k]
    BY <2>1, RotatedType DEF TypeOK
  <2>4. QueuedKnown'
    BY <1>2, <2>1, <2>3, QueuesShrink DEF PickNormal, Popped
  <2>5. normal[i] \in Workers /\ Known(normal[i])
    BY <2>1 DEF TypeOK, QueuedKnown
  <2>6. StartedKnown'
    BY <1>2, <2>1, <2>5 DEF PickNormal, Popped, StartedKnown, Launching, Known, Started
  <2> QED BY <1>2, <2>2, <2>4, <2>6, CallsFrame DEF PickNormal
<1>3. CASE PickNone
  <2>1. CellsAgree' /\ SameMap
    BY <1>3, IdleMap DEF PickNone
  <2>2. QueuedKnown'
    BY <1>3, <2>1, QueuesFrame DEF PickNone
  <2>3. StartedKnown'
    BY <1>3 DEF PickNone, StartedKnown, Launching, Known, Started
  <2> QED BY <1>3, <2>1, <2>2, <2>3, CallsFrame DEF PickNone
<1> QED BY <1>1, <1>2, <1>3

LEMMA LifecycleLaunch ==
  ASSUME TypeOK, LifecycleInv, LaunchInit \/ LaunchCreateError \/ LaunchRun
  PROVE  LifecycleInv'
<1> USE DEF LifecycleInv, cells, clients, queues, tasks, slots, SameMap
<1>1. CASE LaunchInit
  <2>1. current \in Workers /\ Known(current)
    BY <1>1 DEF LaunchInit, StartedKnown, Launching
  <2>2. CellsAgree' /\ SameMap /\ Started(current)'
    BY <1>1, <2>1, EmitMap DEF LaunchInit
  <2>3. PICK ok \in JournalOutcomes : FailOr("create", EmitReturnsOk(current, ok))
    BY <1>1 DEF LaunchInit
  <2>4. sched' \in {"create", "failed"} /\ \A w \in Workers : task'[w] # "none" => task[w] # "none"
    BY <2>3 DEF FailOr, TypeOK
  <2>5. QueuedKnown'
    BY <1>1, <2>2, <2>4, QueuesFrame DEF LaunchInit
  <2>6. UNCHANGED <<current, running, ticking>> /\ KeepsMap
    BY <1>1, <2>2 DEF LaunchInit
  <2>7. Known(current)'
    BY <2>1, <2>6 DEF KeepsMap
  <2>8. StartedKnown'
    BY <2>1, <2>2, <2>4, <2>6, <2>7 DEF StartedKnown, Launching, KeepsMap
  <2> QED BY <1>1, <2>2, <2>5, <2>8, CallsFrame DEF LaunchInit
<1>2. CASE LaunchCreateError
  <2>1. current \in Workers /\ Known(current)
    BY <1>2 DEF LaunchCreateError, StartedKnown, Launching
  <2>2. PICK ok \in JournalOutcomes :
          /\ Finish(current, FinalStatus(current, "error"), ok)
          /\ FailOr("pick", FinishReturnsOk(current, ok))
    BY <1>2 DEF LaunchCreateError
  <2>3. CellsAgree' /\ SameMap
    <3>1. FinalStatus(current, "error") \in Terminal
      BY FinalStatusType
    <3> QED BY <2>1, <2>2, <3>1, FinishMap
  <2>4. sched' \in {"pick", "failed"} /\ \A w \in Workers : task'[w] # "none" => task[w] # "none"
    BY <2>2 DEF FailOr, TypeOK
  <2>5. QueuedKnown'
    BY <1>2, <2>3, <2>4, QueuesFrame DEF LaunchCreateError
  <2>6. UNCHANGED <<running, ticking>> /\ KeepsMap
    BY <1>2, <2>3 DEF LaunchCreateError
  <2>7. StartedKnown'
    BY <2>4, <2>6 DEF StartedKnown, Launching, KeepsMap
  <2> QED BY <1>2, <2>3, <2>5, <2>7, CallsFrame DEF LaunchCreateError
<1>3. CASE LaunchRun
  <2>1. current \in Workers /\ Known(current)
    BY <1>3 DEF LaunchRun, StartedKnown, Launching
  <2>2. PICK c \in Workers : c = current
    BY <2>1
  <2>3. CellsAgree' /\ SameMap /\ Started(c)'
    <3>1. Known(c) /\ Emit(c, "Running") /\ UNCHANGED result
      BY <1>3, <2>1, <2>2 DEF LaunchRun, Known, Emit, IsTerminal
    <3> QED BY <3>1, EmitMap
  <2>4. /\ sched' \in {"pick", "failed"}
        /\ \A w \in Workers : task'[w] # "none" => task[w] # "none" \/ w = current
        /\ running' \subseteq running \cup {current} /\ UNCHANGED ticking
    <3>1. PICK ok \in JournalOutcomes :
            IF EmitReturnsOk(current, ok)
            THEN /\ sched' = "pick"
                 /\ task' = [task EXCEPT ![current] = "live"]
                 /\ running' = running \cup {current}
            ELSE FailOr("pick", FALSE) /\ UNCHANGED slots
      BY <1>3 DEF LaunchRun
    <3>2. CASE EmitReturnsOk(current, ok)
      BY <1>3, <2>1, <3>1, <3>2 DEF TypeOK, LaunchRun
    <3>3. CASE ~EmitReturnsOk(current, ok)
      BY <1>3, <3>1, <3>3 DEF TypeOK, FailOr, LaunchRun
    <3> QED BY <3>2, <3>3
  <2>5. QueuedKnown'
    BY <1>3, <2>4, <2>3, QueuesFrame DEF LaunchRun
  <2>6. StartedKnown'
    <3>1. \A w \in Workers : Started(w) => Started(w)'
      BY <2>3 DEF KeepsMap
    <3>2. ASSUME NEW w \in Workers, w \in (running \cup ticking)' \/ task'[w] # "none"
          PROVE  Started(w)'
      <4>1. CASE w = current
        BY <2>2, <2>3, <4>1
      <4>2. CASE w # current
        BY <2>4, <3>1, <3>2, <4>2 DEF StartedKnown
      <4> QED BY <4>1, <4>2
    <3> QED BY <2>4, <3>2 DEF StartedKnown, Launching
  <2> QED BY <1>3, <2>5, <2>6, <2>3, CallsFrame DEF LaunchRun
<1> QED BY <1>1, <1>2, <1>3

LEMMA LifecycleReceive ==
  ASSUME TypeOK, LifecycleInv,
         \/ ReceiveStartBatch \/ Enqueue \/ ReceiveCancel
         \/ ReceiveShutdown \/ ReceiveNone
  PROVE  LifecycleInv'
<1> USE DEF LifecycleInv, cells, clients, queues, tasks, slots, SameMap
<1>1. ASSUME NEW op, Receives(op)
      PROVE  /\ \A i \in DOMAIN commands' : \E k \in DOMAIN commands : commands'[i] = commands[k]
             /\ 1 \in DOMAIN commands /\ Head(commands) = commands[1] /\ commands[1].op = op
  BY <1>1, TailElements DEF Receives, TypeOK
<1>2. CASE ReceiveStartBatch
  <2>1. CellsAgree' /\ SameMap
    BY <1>2, IdleMap DEF ReceiveStartBatch
  <2>2. /\ \A i \in DOMAIN commands' : \E k \in DOMAIN commands : commands'[i] = commands[k]
        /\ 1 \in DOMAIN commands /\ Head(commands) = commands[1]
        /\ commands[1].op = "StartBatch"
    BY <1>1, <1>2 DEF ReceiveStartBatch
  <2>3. \A i \in DOMAIN batch' : Known(batch'[i])
    BY <1>2, <2>2 DEF ReceiveStartBatch, QueuedKnown
  <2>4. batch' # <<>>
    BY <1>2, <2>2 DEF ReceiveStartBatch, QueuedKnown
  <2>5. QueuedKnown'
    BY <1>2, <2>2, <2>3, <2>4 DEF ReceiveStartBatch, QueuedKnown, Known
  <2>6. StartedKnown'
    BY <1>2 DEF ReceiveStartBatch, StartedKnown, Launching, Started
  <2> QED BY <1>2, <2>1, <2>5, <2>6, CallsFrame DEF ReceiveStartBatch
<1>3. CASE Enqueue
  <2>1. CellsAgree' /\ SameMap
    BY <1>3, IdleMap DEF Enqueue
  <2>2. batch # <<>> /\ batch \in Seq(Workers)
    BY <1>3 DEF Enqueue, QueuedKnown, TypeOK
  <2>3. /\ \A i \in DOMAIN Tail(batch) : \E k \in DOMAIN batch : Tail(batch)[i] = batch[k]
        /\ 1 \in DOMAIN batch /\ Head(batch) = batch[1]
    BY <2>2, TailElements
  <2>4. Head(batch) \in Workers /\ Known(Head(batch))
    BY <2>2, <2>3 DEF QueuedKnown
  <2>5. ASSUME NEW q \in Seq(Workers), \A i \in DOMAIN q : Known(q[i])
        PROVE  \A i \in DOMAIN Append(q, Head(batch)) : Known(Append(q, Head(batch))[i])
    <3>1. /\ DOMAIN Append(q, Head(batch)) = 1..(Len(q) + 1)
          /\ \A k \in 1..Len(q) : Append(q, Head(batch))[k] = q[k]
          /\ Append(q, Head(batch))[Len(q) + 1] = Head(batch)
          /\ DOMAIN q = 1..Len(q) /\ Len(q) \in Nat
      BY <2>4, AppendProperties, LenProperties
    <3> QED BY <2>4, <2>5, <3>1
  <2>6. /\ \A i \in DOMAIN normal' : Known(normal'[i])
        /\ \A i \in DOMAIN urgent' : Known(urgent'[i])
    <3>1. CASE Head(batch) \in UrgentWorkers
      BY <1>3, <2>5, <3>1 DEF Enqueue, QueuedKnown, TypeOK
    <3>2. CASE Head(batch) \notin UrgentWorkers
      BY <1>3, <2>5, <3>2 DEF Enqueue, QueuedKnown, TypeOK
    <3> QED BY <3>1, <3>2
  <2>7. QueuedKnown'
    BY <1>3, <2>3, <2>6 DEF Enqueue, QueuedKnown, Known
  <2>8. StartedKnown'
    BY <1>3 DEF Enqueue, StartedKnown, Launching, Started
  <2> QED BY <1>3, <2>1, <2>7, <2>8, CallsFrame DEF Enqueue
<1>4. CASE ReceiveCancel
  <2>1. CellsAgree' /\ SameMap
    BY <1>4, IdleMap DEF ReceiveCancel
  <2>2. QueuedKnown'
    BY <1>1, <1>4, QueuesShrink DEF ReceiveCancel
  <2>3. StartedKnown'
    BY <1>4 DEF ReceiveCancel, StartedKnown, Launching, Started
  <2> QED BY <1>4, <2>1, <2>2, <2>3, CallsFrame DEF ReceiveCancel
<1>5. CASE ReceiveShutdown \/ ReceiveNone
  <2>1. /\ StopScheduling
        /\ \A i \in DOMAIN commands' : \E k \in DOMAIN commands : commands'[i] = commands[k]
    BY <1>1, <1>5 DEF ReceiveShutdown, ReceiveNone
  <2>2. CellsAgree' /\ SameMap
    BY <2>1, IdleMap DEF StopScheduling
  <2>3. QueuedKnown'
    BY <2>1, QueuesShrink DEF StopScheduling
  <2>4. StartedKnown'
    BY <2>1 DEF StopScheduling, StartedKnown, Launching, Started
  <2> QED BY <2>1, <2>2, <2>3, <2>4, CallsFrame DEF StopScheduling
<1> QED BY <1>2, <1>3, <1>4, <1>5

LEMMA LifecycleSettle ==
  ASSUME TypeOK, LifecycleInv,
         ReceiveCompleted \/ TickBegin \/ TickEnd \/ \E w \in Workers : TickAbort(w) \/ TickArm(w)
  PROVE  LifecycleInv'
<1> USE DEF LifecycleInv, cells, clients, queues, tasks, slots, SameMap
<1>1. CASE ReceiveCompleted
  <2>1. PICK w : w = Head(completed)[1]
    OBVIOUS
  <2>2. CASE w \in running
    <3>1. PICK ok \in JournalOutcomes :
            /\ Release(w)
            /\ Finish(w, FinalStatus(w, Head(completed)[2]), ok)
            /\ FailOr("pick", FinishReturnsOk(w, ok))
      BY <1>1, <2>1, <2>2 DEF ReceiveCompleted
    <3>2. w \in Workers /\ Known(w)
      BY <2>2 DEF TypeOK, StartedKnown, Started, Known
    <3>3. CellsAgree' /\ SameMap
      <4>1. FinalStatus(w, Head(completed)[2]) \in Terminal
        BY FinalStatusType
      <4> QED BY <3>1, <3>2, <4>1, FinishMap
    <3>4. /\ sched' \in {"pick", "failed"}
          /\ \A v \in Workers : task'[v] # "none" => task[v] # "none"
          /\ running' \subseteq running /\ UNCHANGED ticking
      BY <1>1, <3>1 DEF ReceiveCompleted, FailOr, Release, TypeOK
    <3>5. QueuedKnown'
      BY <1>1, <3>3, <3>4, QueuesFrame DEF ReceiveCompleted
    <3>6. StartedKnown'
      BY <3>3, <3>4 DEF StartedKnown, Launching, KeepsMap
    <3> QED BY <1>1, <3>3, <3>5, <3>6, CallsFrame DEF ReceiveCompleted
  <2>3. CASE w \notin running
    <3>1. sched' = "pick" /\ UNCHANGED <<status, result, task, slots>>
      BY <1>1, <2>1, <2>3 DEF ReceiveCompleted
    <3>2. CellsAgree' /\ SameMap
      BY <3>1, IdleMap
    <3>3. QueuedKnown'
      BY <1>1, <3>1, <3>2, QueuesFrame DEF ReceiveCompleted
    <3>4. StartedKnown'
      BY <1>1, <3>1 DEF ReceiveCompleted, StartedKnown, Launching, Started
    <3> QED BY <1>1, <3>2, <3>3, <3>4, CallsFrame DEF ReceiveCompleted
  <2> QED BY <2>2, <2>3
<1>2. CASE TickBegin \/ TickEnd
  <2>1. CellsAgree' /\ SameMap
    BY <1>2, IdleMap DEF TickBegin, TickEnd
  <2>2. QueuedKnown'
    BY <1>2, <2>1, QueuesFrame DEF TickBegin, TickEnd
  <2>3. StartedKnown'
    BY <1>2 DEF TickBegin, TickEnd, StartedKnown, Launching, Started
  <2> QED BY <1>2, <2>1, <2>2, <2>3, CallsFrame DEF TickBegin, TickEnd
<1>3. ASSUME NEW w \in Workers, TickAbort(w) PROVE LifecycleInv'
  <2>1. PICK ok \in JournalOutcomes :
          /\ Release(w)
          /\ Finish(w, "Cancelled", ok)
          /\ sched' = IF FinishReturnsOk(w, ok) THEN "tick" ELSE "failed"
          /\ task' = [v \in Workers |->
               IF task[v] = "live" /\ (v = w \/ ~FinishReturnsOk(w, ok))
               THEN "aborted" ELSE task[v]]
    BY <1>3 DEF TickAbort
  <2>2. Known(w)
    BY <1>3 DEF TickAbort, StartedKnown, Started, Known
  <2>3. CellsAgree' /\ SameMap
    BY <2>1, <2>2, FinishMap
  <2>4. /\ sched' \in {"tick", "failed"}
        /\ \A v \in Workers : task'[v] # "none" => task[v] # "none"
        /\ running' \subseteq running /\ ticking' \subseteq ticking
    BY <1>3, <2>1 DEF TickAbort, Release, TypeOK
  <2>5. QueuedKnown'
    BY <1>3, <2>3, <2>4, QueuesFrame DEF TickAbort
  <2>6. StartedKnown'
    BY <2>3, <2>4 DEF StartedKnown, Launching, KeepsMap
  <2> QED BY <1>3, <2>3, <2>5, <2>6, CallsFrame DEF TickAbort
<1>4. ASSUME NEW w \in Workers, TickArm(w) PROVE LifecycleInv'
  <2>1. CellsAgree' /\ SameMap
    BY <1>4, IdleMap DEF TickArm
  <2>2. StartedKnown'
    BY <1>4 DEF TickArm, StartedKnown, Launching, Started, Known
  <2> QED BY <1>4, <2>1, <2>2, CallsFrame, QueuesFrame DEF TickArm
<1> QED BY <1>1, <1>2, <1>3, <1>4

LEMMA LifecycleEnvironment ==
  ASSUME TypeOK, LifecycleInv, Environment
  PROVE  LifecycleInv'
<1> USE DEF LifecycleInv, cells, clients, scheduler, queues, tasks, slots, SameMap
<1>1. ASSUME NEW w \in Workers, GraceElapses(w) PROVE LifecycleInv'
  BY <1>1, IdleMap, CallsFrame, QueuesFrame, StartedFrame DEF GraceElapses
<1>2. ASSUME NEW w \in Workers, Executing(w) PROVE Known(w)
  BY <1>2 DEF Executing, StartedKnown, Started, Known
<1>3. ASSUME NEW w \in Workers, ExecutorWaits(w) PROVE LifecycleInv'
  <2>1. CellsAgree' /\ SameMap
    BY <1>2, <1>3, EmitMap DEF ExecutorWaits
  <2> QED BY <1>3, <2>1, CallsFrame, QueuesFrame, StartedFrame DEF ExecutorWaits
<1>4. ASSUME NEW w \in Workers, NEW over \in BOOLEAN, ExecutorEmits(w, over)
      PROVE  LifecycleInv'
  <2>1. CellsAgree' /\ SameMap
    <3>1. CASE Emit(w, "Running")
      BY <1>2, <1>4, <3>1, EmitMap DEF ExecutorEmits
    <3>2. CASE UNCHANGED status
      BY <1>4, <3>2, IdleMap DEF ExecutorEmits
    <3> QED BY <1>4, <3>1, <3>2 DEF ExecutorEmits
  <2> QED BY <1>4, <2>1, CallsFrame, QueuesFrame, StartedFrame DEF ExecutorEmits
<1>5. ASSUME NEW w \in Workers, NEW outcome \in Outcomes, ExecutorEnds(w, outcome)
      PROVE  LifecycleInv'
  <2>1. CellsAgree' /\ SameMap
    BY <1>5, IdleMap DEF ExecutorEnds
  <2>2. QueuedKnown'
    BY <1>5, <2>1, QueuesFrame DEF ExecutorEnds
  <2>3. StartedKnown'
    BY <1>5 DEF ExecutorEnds, Executing, StartedKnown, Launching, Started, TypeOK
  <2> QED BY <1>5, <2>1, <2>2, <2>3, CallsFrame DEF ExecutorEnds
<1> QED BY <1>1, <1>3, <1>4, <1>5 DEF Environment

-----------------------------------------------------------------------------
(* What one step may do to the cells, whichever thread takes it.           *)

Accepts(b) ==
  /\ \A w \in Ids(b) : ~Known(w)
  /\ status' = [w \in Workers |-> IF w \in Ids(b) THEN "Queued" ELSE status[w]]
  /\ UNCHANGED result

Moves(w) ==
  /\ Known(w) /\ ~IsTerminal(w)
  /\ \E st \in Active : status' = [status EXCEPT ![w] = st]
  /\ UNCHANGED result

Settles(w, st) ==
  /\ Known(w) /\ ~IsTerminal(w)
  /\ Started(w) \/ st = "Cancelled"
  /\ status' = [status EXCEPT ![w] = st]
  /\ result' = [result EXCEPT ![w] = st]

CellStep ==
  \/ UNCHANGED <<status, result>>
  \/ \E b \in Batches : Accepts(b)
  \/ \E w \in Workers : Moves(w) \/ \E st \in Terminal : Settles(w, st)

LEMMA EmitStep ==
  ASSUME TypeOK, NEW w \in Workers, Known(w), NEW st \in Active, Emit(w, st),
         UNCHANGED result
  PROVE  CellStep
<1>1. CASE IsTerminal(w)
  BY <1>1 DEF Emit, TypeOK, CellStep
<1>2. CASE ~IsTerminal(w)
  <2>1. status' = [status EXCEPT ![w] = st]
    BY <1>2 DEF Emit
  <2> QED BY <1>2, <2>1 DEF CellStep, Moves
<1> QED BY <1>1, <1>2

LEMMA FinishStep ==
  ASSUME CellsAgree, NEW w \in Workers, Known(w), NEW st \in Terminal, NEW ok,
         Started(w) \/ st = "Cancelled", Finish(w, st, ok)
  PROVE  CellStep
<1>1. CASE result[w] = None /\ ok
  <2>1. /\ status' = [status EXCEPT ![w] = st]
        /\ result' = [result EXCEPT ![w] = st]
    BY <1>1 DEF Finish
  <2>2. ~IsTerminal(w)
    BY <1>1, WorkloadAssumption DEF CellsAgree, IsTerminal
  <2>3. Settles(w, st)
    BY <2>1, <2>2 DEF Settles
  <2> QED BY <2>3 DEF CellStep
<1>2. CASE ~(result[w] = None /\ ok)
  BY <1>2 DEF Finish, CellStep
<1> QED BY <1>1, <1>2

LEMMA NextCellStep ==
  ASSUME TypeOK, LifecycleInv, [Next]_vars
  PROVE  CellStep
<1> USE DEF LifecycleInv, cells
<1>1. CASE UNCHANGED vars
  BY <1>1 DEF vars, CellStep
<1>2. CASE Client
  <2>1. ASSUME NEW b \in Batches, SpawnInsert(b) PROVE CellStep
    <3>1. PICK ok \in JournalOutcomes :
            status' = [w \in Workers |-> IF ok /\ w \in Ids(b) THEN "Queued" ELSE status[w]]
      BY <2>1 DEF SpawnInsert
    <3>2. \A w \in Ids(b) : ~Known(w)
      BY <2>1 DEF SpawnInsert, CallsKnown, Ids
    <3>3. CASE ok
      BY <2>1, <3>1, <3>2, <3>3 DEF CellStep, Accepts, SpawnInsert
    <3>4. CASE ~ok
      BY <2>1, <3>1, <3>4 DEF CellStep, SpawnInsert, TypeOK
    <3> QED BY <3>3, <3>4
  <2>2. ASSUME NEW c \in Cancellers, CancelQueuedFinish(c) PROVE CellStep
    <3>1. cancelOf[c] \in Workers /\ Known(cancelOf[c])
      BY <2>2 DEF CancelQueuedFinish, CallsKnown
    <3>2. PICK ok \in JournalOutcomes : Finish(cancelOf[c], "Cancelled", ok)
      BY <2>2 DEF CancelQueuedFinish
    <3> QED BY <3>1, <3>2, FinishStep
  <2>3. \/ UNCHANGED <<status, result>>
        \/ \E b \in Batches : SpawnInsert(b)
        \/ \E c \in Cancellers : CancelQueuedFinish(c)
    BY <1>2 DEF Client, SpawnCheck, SpawnReserve, SpawnAdmit, SpawnSend, CancelRead,
       CancelQueuedToken, CancelActive, StopSwap, StopSend, StopTake, StopJoin, DropHandles
  <2> QED BY <2>1, <2>2, <2>3 DEF CellStep
<1>3. CASE Scheduler
  <2>1. CASE LaunchInit
    BY <2>1, EmitStep DEF LaunchInit, StartedKnown, Launching
  <2>2. CASE LaunchRun
    BY <2>2, EmitStep DEF LaunchRun, StartedKnown, Launching
  <2>3. CASE LaunchCreateError
    <3>1. current \in Workers /\ Known(current) /\ Started(current)
      BY <2>3 DEF LaunchCreateError, StartedKnown, Launching
    <3>2. PICK ok \in JournalOutcomes : Finish(current, FinalStatus(current, "error"), ok)
      BY <2>3 DEF LaunchCreateError
    <3>3. FinalStatus(current, "error") \in Terminal
      BY FinalStatusType
    <3> QED BY <3>1, <3>2, <3>3, FinishStep
  <2>4. CASE ReceiveCompleted
    <3>1. PICK w : w = Head(completed)[1]
      OBVIOUS
    <3>2. CASE w \in running
      <4>1. w \in Workers /\ Known(w) /\ Started(w)
        BY <3>2 DEF TypeOK, StartedKnown, Started, Known
      <4>2. PICK ok \in JournalOutcomes : Finish(w, FinalStatus(w, Head(completed)[2]), ok)
        BY <2>4, <3>1, <3>2 DEF ReceiveCompleted
      <4>3. FinalStatus(w, Head(completed)[2]) \in Terminal
        BY FinalStatusType
      <4> QED BY <4>1, <4>2, <4>3, FinishStep
    <3>3. CASE w \notin running
      BY <2>4, <3>1, <3>3 DEF ReceiveCompleted, CellStep
    <3> QED BY <3>2, <3>3
  <2>5. ASSUME NEW w \in Workers, TickAbort(w) PROVE CellStep
    <3>1. PICK ok \in JournalOutcomes : Finish(w, "Cancelled", ok)
      BY <2>5 DEF TickAbort
    <3>2. Known(w)
      BY <2>5 DEF TickAbort, StartedKnown, Started, Known
    <3> QED BY <3>1, <3>2, FinishStep
  <2>6. \/ UNCHANGED <<status, result>>
        \/ LaunchInit \/ LaunchRun \/ LaunchCreateError \/ ReceiveCompleted
        \/ \E w \in Workers : TickAbort(w)
    BY <1>3 DEF Scheduler, PickUrgent, PickNormal, PickNone, ReceiveStartBatch, Enqueue,
       ReceiveCancel, ReceiveShutdown, ReceiveNone, StopScheduling, TickBegin, TickEnd, TickArm
  <2> QED BY <2>1, <2>2, <2>3, <2>4, <2>5, <2>6 DEF CellStep
<1>4. CASE Environment
  <2>1. ASSUME NEW w \in Workers, Executing(w) PROVE Known(w)
    BY <2>1 DEF Executing, StartedKnown, Started, Known
  <2>2. ASSUME NEW w \in Workers, ExecutorWaits(w) PROVE CellStep
    BY <2>1, <2>2, EmitStep DEF ExecutorWaits
  <2>3. ASSUME NEW w \in Workers, NEW over \in BOOLEAN, ExecutorEmits(w, over)
        PROVE  CellStep
    <3>1. CASE Emit(w, "Running")
      BY <2>1, <2>3, <3>1, EmitStep DEF ExecutorEmits
    <3>2. CASE UNCHANGED status
      BY <2>3, <3>2 DEF ExecutorEmits, CellStep
    <3> QED BY <2>3, <3>1, <3>2 DEF ExecutorEmits
  <2> QED BY <1>4, <2>2, <2>3 DEF Environment, GraceElapses, ExecutorEnds, CellStep
<1> QED BY <1>1, <1>2, <1>3, <1>4 DEF Next

-----------------------------------------------------------------------------
(* Theorems.                                                               *)

LEMMA InitIInv == Init => IInv
<1> SUFFICES ASSUME Init PROVE IInv
  OBVIOUS
<1>1. TypeOK
  <2>1. /\ commands \in Seq(Commands) /\ batch \in Seq(Workers)
        /\ normal \in Seq(Workers) /\ urgent \in Seq(Workers)
        /\ completed \in Seq(Workers \X Outcomes)
    BY DEF Init
  <2> QED BY <2>1 DEF Init, TypeOK
<1>2. CellsAgree /\ QueuedKnown /\ StartedKnown
  BY DEF Init, CellsAgree, QueuedKnown, StartedKnown, IsTerminal, Launching
<1>3. CallsKnown
  BY WorkloadAssumption DEF Init, CallsKnown, Known
<1> QED BY <1>1, <1>2, <1>3 DEF IInv, LifecycleInv

LEMMA NextIInv == IInv /\ [Next]_vars => IInv'
<1> SUFFICES ASSUME IInv, [Next]_vars PROVE IInv'
  OBVIOUS
<1>1. TypeOK /\ LifecycleInv /\ CallsKnown /\ QueuedKnown /\ StartedKnown
  BY DEF IInv, LifecycleInv
<1>2. CASE Client
  BY <1>1, <1>2, TypeClient, LifecycleClient DEF IInv
<1>3. CASE Scheduler
  <2>1. TypeOK'
    BY <1>1, <1>3, TypeScheduler
  <2>2. LifecycleInv'
    BY <1>1, <1>3, LifecyclePick, LifecycleLaunch, LifecycleReceive, LifecycleSettle DEF Scheduler
  <2> QED BY <2>1, <2>2 DEF IInv
<1>4. CASE Environment
  BY <1>1, <1>4, TypeEnvironment, LifecycleEnvironment DEF IInv
<1>5. CASE UNCHANGED vars
  <2>1. TypeOK'
    BY <1>1, <1>5 DEF TypeOK, vars, cells, clients, scheduler, queues, tasks, slots
  <2>2. LifecycleInv'
    BY <1>1, <1>5 DEF LifecycleInv, CellsAgree, CallsKnown, QueuedKnown, StartedKnown, Known,
       Started, Launching, IsTerminal, vars, cells, clients, scheduler, queues, tasks, slots
  <2> QED BY <2>1, <2>2 DEF IInv
<1> QED BY <1>2, <1>3, <1>4, <1>5 DEF Next

\* In every reachable state of runtime.rs's scheduler, with any number of
\* callers, shutdowns and journal errors, each variable has its type: no
\* group counter wraps below zero and no id leaves the set of accepted ones.
THEOREM TypeCorrect == Spec => []TypeOK
<1>1. IInv => TypeOK
  BY DEF IInv
<1> QED BY <1>1, InitIInv, NextIInv, PTL DEF Spec

\* The scheduler only handles ids it can look up (cell() never returns
\* UnknownWorker inside scheduler_loop), workers in slots are past the
\* queue, and a worker's result agrees with its status.
THEOREM LifecycleInvariant == Spec => []LifecycleInv
<1>1. IInv => LifecycleInv
  BY DEF IInv
<1> QED BY <1>1, InitIInv, NextIInv, PTL DEF Spec

\* finish and emit, called from any thread in any order, never change a
\* result once it is there, nor the status that goes with it.
THEOREM ResultStableTheorem == Spec => ResultStable
<1>1. IInv /\ [Next]_vars =>
        [\A w \in Workers : result[w] # None =>
           result'[w] = result[w] /\ status'[w] = result[w]]_vars
  <2> SUFFICES ASSUME IInv, [Next]_vars, NEW w \in Workers, result[w] # None
               PROVE  result'[w] = result[w] /\ status'[w] = result[w]
    OBVIOUS
  <2>1. TypeOK /\ LifecycleInv /\ CellStep
    BY NextCellStep DEF IInv
  <2>2. IsTerminal(w) /\ status[w] = result[w]
    BY <2>1 DEF LifecycleInv, CellsAgree
  <2>3. CASE UNCHANGED <<status, result>>
    BY <2>2, <2>3
  <2>4. ASSUME NEW b \in Batches, Accepts(b)
        PROVE  result'[w] = result[w] /\ status'[w] = result[w]
    BY <2>2, <2>4 DEF Accepts, Known, IsTerminal
  <2>5. ASSUME NEW v \in Workers, Moves(v)
        PROVE  result'[w] = result[w] /\ status'[w] = result[w]
    BY <2>1, <2>2, <2>5 DEF Moves, TypeOK
  <2>6. ASSUME NEW v \in Workers, NEW st \in Terminal, Settles(v, st)
        PROVE  result'[w] = result[w] /\ status'[w] = result[w]
    BY <2>1, <2>2, <2>6 DEF Settles, TypeOK
  <2> QED BY <2>1, <2>3, <2>4, <2>5, <2>6 DEF CellStep
<1> QED BY <1>1, InitIInv, NextIInv, PTL DEF Spec, ResultStable

\* The runtime implements WorkerLifecycle: accepted once, started at most
\* once, settled at most once, and only as Cancelled when never started.
THEOREM Refinement == Spec => ImplementsLifecycle
<1>1. Init => Lifecycle!Init
  BY DEF Init, Lifecycle!Init, Phase
<1>2. IInv /\ [Next]_vars =>
        [Lifecycle!Next]_<<[w \in Workers |-> Phase(status[w])], result>>
  <2> SUFFICES ASSUME IInv, [Next]_vars
               PROVE  [Lifecycle!Next]_<<[w \in Workers |-> Phase(status[w])], result>>
    OBVIOUS
  <2>1. TypeOK /\ CellStep
    BY NextCellStep DEF IInv
  <2>2. CASE UNCHANGED <<status, result>>
    BY <2>2
  <2>3. ASSUME NEW b \in Batches, Accepts(b) PROVE Lifecycle!Next
    <3>1. Ids(b) \in SUBSET Workers
      BY WorkloadAssumption DEF Ids
    <3>2. Lifecycle!Accept(Ids(b))
      BY <2>3, <3>1 DEF Lifecycle!Accept, Accepts, Phase, Known
    <3> QED BY <3>1, <3>2 DEF Lifecycle!Next
  <2>4. ASSUME NEW v \in Workers, Moves(v)
        PROVE  [Lifecycle!Next]_<<[w \in Workers |-> Phase(status[w])], result>>
    <3>1. CASE status[v] = "Queued"
      <4>1. Lifecycle!Start(v)
        <5>1. PICK st \in Active : status' = [status EXCEPT ![v] = st]
          BY <2>4 DEF Moves
        <5>2. \A w \in Workers : status'[w] = IF w = v THEN st ELSE status[w]
          BY <2>1, <5>1 DEF TypeOK
        <5>3. [w \in Workers |-> Phase(status'[w])] =
                [[w \in Workers |-> Phase(status[w])] EXCEPT ![v] = "active"]
          BY <5>2 DEF Phase
        <5> QED BY <2>4, <3>1, <5>3 DEF Lifecycle!Start, Moves, Phase
      <4> QED BY <4>1 DEF Lifecycle!Next
    <3>2. CASE status[v] # "Queued"
      BY <2>1, <2>4, <3>2 DEF Moves, Phase, TypeOK, Known, IsTerminal
    <3> QED BY <3>1, <3>2
  <2>5. ASSUME NEW v \in Workers, NEW st \in Terminal, Settles(v, st) PROVE Lifecycle!Next
    <3>1. Lifecycle!Settle(v, st)
      BY <2>1, <2>5 DEF Lifecycle!Settle, Settles, Phase, TypeOK, Known, Started, IsTerminal
    <3> QED BY <3>1 DEF Lifecycle!Next, Lifecycle!Results
  <2> QED BY <2>1, <2>2, <2>3, <2>4, <2>5 DEF CellStep
<1> QED BY <1>1, <1>2, InitIInv, NextIInv, PTL DEF Spec, ImplementsLifecycle, Lifecycle!Spec
=============================================================================

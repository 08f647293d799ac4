--------------------------- MODULE WorkerSlotProofs ---------------------------
(* The limits of the scheduler, and where its jobs are: theorems about      *)
(* WorkerRuntime, for every workload and every limit.                       *)
EXTENDS WorkerRuntimeProofs

USE DEF Terminal, Active, Statuses, Outcomes

-----------------------------------------------------------------------------
(* The inductive invariant.                                                *)

Items(q) == {q[i] : i \in DOMAIN q}
Distinct(q) == \A i, j \in DOMAIN q : q[i] = q[j] => i = j

\* The places in which a job waits for its launch.
Starts(i) == commands[i].op = "StartBatch"
InChannel == {w \in Workers : \E i \in DOMAIN commands : InBatch(w, commands[i])}
InHand == {w \in Workers : Launching /\ w = current}
Queues == Items(batch) \cup Items(normal) \cup Items(urgent)
Waiting == InChannel \cup Queues \cup InHand

\* The channel holds no job twice.
ChannelOnce ==
  /\ \A i \in DOMAIN commands : Starts(i) => Distinct(commands[i].ids)
  /\ \A i, j \in DOMAIN commands : i # j /\ Starts(i) /\ Starts(j) =>
       Items(commands[i].ids) \cap Items(commands[j].ids) = {}

\* No job waits twice in one place, nor in two places; while it waits it has
\* no future, and it does not wait before its call has sent it.
Placement ==
  /\ ChannelOnce /\ Distinct(batch) /\ Distinct(normal) /\ Distinct(urgent)
  /\ InChannel \cap (Queues \cup InHand) = {}
  /\ Items(batch) \cap (Items(normal) \cup Items(urgent)) = {}
  /\ Items(normal) \cap Items(urgent) = {}
  /\ Queues \cap InHand = {}
  /\ \A w \in Waiting : task[w] = "none"
  /\ \A b \in Batches : spawnPc[b] # "ok" =>
       \A w \in Ids(b) : w \notin Waiting /\ task[w] = "none"

InGroup(g) == {w \in running : GroupOf[w] = g}

\* Slots and counters respect the limits, with room for the job in hand.
Limits ==
  /\ Cardinality(running) <= GlobalConcurrency
  /\ \A g \in Groups : /\ groupRunning[g] = Cardinality(InGroup(g))
                       /\ groupRunning[g] <= PerGroupConcurrency
  /\ Launching => Cardinality(running) < GlobalConcurrency /\ Eligible(current)
  /\ ticking \subseteq running
  /\ sched \notin {"tick", "failed"} => ticking = {}

\* A future holds a slot while it lives and until its outcome is received.
Futures ==
  /\ \A w \in Workers : Live(w) => w \in running
  /\ \A w \in running : task[w] # "none"
  /\ \A i \in DOMAIN completed : task[completed[i][1]] = "done"
  /\ sched # "failed" =>
       \A w \in running : Live(w) \/ \E i \in DOMAIN completed : completed[i][1] = w

\* Until shutdown, a worker that is not settled is about to be sent, waits,
\* or holds a slot; the loop leaves nothing behind in its local batch.
Sending == {w \in Workers : \E b \in Batches : spawnPc[b] = "inserted" /\ w \in Ids(b)}
Found ==
  /\ ~stopping /\ sched # "failed" => ActiveWorkers \subseteq Sending \cup Waiting \cup running
  /\ sched # "enqueue" => batch = <<>>
  /\ sched \in {"stopped", "deadlocked"} => stopping

\* Without cancel nothing that waits is settled, and urgent_streak counts
\* every urgent launch since a normal job was launched.
Streak ==
  Cancellers = {} =>
    /\ \A w \in Sending \cup InChannel \cup Queues : ~IsTerminal(w)
    /\ urgentRun <= urgentStreak /\ urgentRun <= MaxUrgentStreak

SInv == IInv /\ Placement /\ Limits /\ Futures /\ Found /\ Streak

-----------------------------------------------------------------------------
(* Sequences without repetition.                                           *)

LEMMA AppendItems ==
  ASSUME NEW S, NEW q \in Seq(S), NEW w \in S
  PROVE  /\ Items(Append(q, w)) = Items(q) \cup {w}
         /\ Distinct(q) /\ w \notin Items(q) => Distinct(Append(q, w))
<1>1. /\ DOMAIN Append(q, w) = DOMAIN q \cup {Len(q) + 1} /\ Len(q) + 1 \notin DOMAIN q
      /\ \A i \in DOMAIN q : Append(q, w)[i] = q[i]
      /\ Append(q, w)[Len(q) + 1] = w
  BY AppendProperties, LenProperties
<1>2. Items(Append(q, w)) = Items(q) \cup {w}
  BY <1>1 DEF Items
<1>3. Distinct(q) /\ w \notin Items(q) => Distinct(Append(q, w))
  BY <1>1 DEF Items, Distinct
<1> QED BY <1>2, <1>3

LEMMA TailItems ==
  ASSUME NEW S, NEW q \in Seq(S), q # <<>>
  PROVE  /\ Head(q) \in Items(q) /\ Items(q) = Items(Tail(q)) \cup {Head(q)}
         /\ Distinct(q) => Distinct(Tail(q)) /\ Head(q) \notin Items(Tail(q))
<1>1. /\ \A i \in DOMAIN Tail(q) : i + 1 \in DOMAIN q /\ Tail(q)[i] = q[i + 1]
      /\ \A j \in DOMAIN q \ {1} : j - 1 \in DOMAIN Tail(q) /\ j = (j - 1) + 1
      /\ 1 \in DOMAIN q /\ Head(q) = q[1]
      /\ \A i \in DOMAIN Tail(q) : i \in Nat \ {0}
  BY HeadTailProperties, LenProperties, EmptySeq
<1>2. Items(q) = Items(Tail(q)) \cup {Head(q)}
  <2>1. ASSUME NEW j \in DOMAIN q \ {1} PROVE q[j] \in Items(Tail(q))
    BY <1>1 DEF Items
  <2>2. \A i \in DOMAIN Tail(q) : Tail(q)[i] \in Items(q)
    BY <1>1 DEF Items
  <2> QED BY <1>1, <2>1, <2>2 DEF Items
<1>3. ASSUME Distinct(q) PROVE Distinct(Tail(q)) /\ Head(q) \notin Items(Tail(q))
  <2>1. Distinct(Tail(q))
    BY <1>1, <1>3 DEF Distinct
  <2>2. ASSUME NEW i \in DOMAIN Tail(q), Tail(q)[i] = Head(q) PROVE FALSE
    BY <1>1, <1>3, <2>2 DEF Distinct
  <2> QED BY <2>1, <2>2 DEF Items
<1> QED BY <1>1, <1>2, <1>3 DEF Items

LEMMA RotatedItems ==
  ASSUME NEW q \in Seq(Workers), NEW i \in DOMAIN q, Distinct(q)
  PROVE  /\ Items(Rotated(q, i)) = Items(q) \ {q[i]}
         /\ Distinct(Rotated(q, i))
<1> DEFINE n == Len(q)
           r == Rotated(q, i)
           From(k) == IF k <= n - i THEN i + k ELSE k - (n - i)
<1>1. /\ n \in Nat /\ i \in 1 .. n /\ DOMAIN q = 1 .. n
  BY LenProperties
<1>2. /\ r \in Seq(Workers) /\ DOMAIN r = 1 .. (n - 1)
      /\ \A k \in 1 .. (n - 1) : r[k] = q[From(k)]
  <2> DEFINE back == SubSeq(q, i + 1, n)
             front == SubSeq(q, 1, i - 1)
  <2>1. /\ back \in Seq(Workers) /\ Len(back) = n - i
        /\ \A k \in 1 .. (n - i) : back[k] = q[i + k]
    <3>1. /\ i + 1 \in 1 .. (Len(q) + 1) /\ n \in (i + 1) - 1 .. Len(q)
      BY <1>1
    <3>2. /\ back \in Seq(Workers) /\ Len(back) = n - (i + 1) + 1
          /\ \A k \in 1 .. n - (i + 1) + 1 : back[k] = q[(i + 1) + k - 1]
      BY <1>1, SubSeqProperties
    <3> QED BY <1>1, <3>2
  <2>2. /\ front \in Seq(Workers) /\ Len(front) = i - 1
        /\ \A k \in 1 .. (i - 1) : front[k] = q[k]
    BY <1>1, SubSeqProperties
  <2> HIDE DEF back, front
  <2>3. /\ back \o front \in Seq(Workers) /\ Len(back \o front) = Len(back) + Len(front)
        /\ \A k \in 1 .. Len(back) + Len(front) : (back \o front)[k] =
             IF k <= Len(back) THEN back[k] ELSE front[k - Len(back)]
    BY <2>1, <2>2, ConcatProperties
  <2>4. r = back \o front
    BY DEF Rotated, back, front
  <2>5. Len(back) + Len(front) = n - 1
    BY <1>1, <2>1, <2>2
  <2>6. ASSUME NEW k \in 1 .. (n - 1) PROVE r[k] = q[From(k)]
    <3>1. CASE k <= n - i
      BY <1>1, <2>1, <2>3, <2>4, <2>5, <3>1
    <3>2. CASE ~(k <= n - i)
      <4>1. k - (n - i) \in 1 .. (i - 1)
        BY <1>1, <3>2
      <4> QED BY <1>1, <2>1, <2>2, <2>3, <2>4, <2>5, <3>2, <4>1
    <3> QED BY <3>1, <3>2
  <2> QED BY <2>3, <2>4, <2>5, <2>6, LenProperties
<1>3. \A k \in 1 .. (n - 1) : From(k) \in 1 .. n /\ From(k) # i
  BY <1>1
<1>4. \A k, l \in 1 .. (n - 1) : From(k) = From(l) => k = l
  BY <1>1
<1>5. \A j \in (1 .. n) \ {i} : \E k \in 1 .. (n - 1) : From(k) = j
  <2> SUFFICES ASSUME NEW j \in (1 .. n) \ {i} PROVE \E k \in 1 .. (n - 1) : From(k) = j
    OBVIOUS
  <2>1. CASE j > i
    <3>1. j - i \in 1 .. (n - 1) /\ From(j - i) = j
      BY <1>1, <2>1
    <3> QED BY <3>1
  <2>2. CASE j < i
    <3>1. j + (n - i) \in 1 .. (n - 1) /\ From(j + (n - i)) = j
      BY <1>1, <2>2
    <3> QED BY <3>1
  <2> QED BY <1>1, <2>1, <2>2
<1> HIDE DEF n, r, From
<1>6. Distinct(r)
  BY <1>1, <1>2, <1>3, <1>4 DEF Distinct
<1>7. ASSUME NEW w \in Items(r) PROVE w \in Items(q) /\ w # q[i]
  <2>1. PICK k \in 1 .. (n - 1) : w = q[From(k)]
    BY <1>2 DEF Items
  <2> QED BY <1>1, <1>3, <2>1 DEF Items, Distinct
<1>8. ASSUME NEW w \in Items(q), w # q[i] PROVE w \in Items(r)
  <2>1. PICK j \in (1 .. n) \ {i} : w = q[j]
    BY <1>1, <1>8 DEF Items
  <2>2. PICK k \in 1 .. (n - 1) : From(k) = j
    BY <1>5
  <2> QED BY <1>2, <2>1, <2>2 DEF Items
<1>9. Items(r) = Items(q) \ {q[i]}
  BY <1>7, <1>8
<1> QED BY <1>6, <1>9 DEF r

-----------------------------------------------------------------------------
(* The channel.                                                            *)

Sent(cmd) == IF cmd.op = "StartBatch" THEN Items(cmd.ids) ELSE {}

LEMMA ChannelAppend ==
  ASSUME TypeOK, ChannelOnce, NEW cmd \in Commands, commands' = Append(commands, cmd),
         cmd.op = "StartBatch" => Distinct(cmd.ids), Sent(cmd) \cap InChannel = {}
  PROVE  ChannelOnce' /\ InChannel' = InChannel \cup Sent(cmd)
<1>1. /\ DOMAIN commands' = DOMAIN commands \cup {Len(commands) + 1}
      /\ Len(commands) + 1 \notin DOMAIN commands
      /\ \A i \in DOMAIN commands : commands'[i] = commands[i]
      /\ commands'[Len(commands) + 1] = cmd
  BY AppendProperties, LenProperties DEF TypeOK
<1>2. Sent(cmd) \subseteq Workers
  BY DEF Sent, Items, Commands
<1>3. \A w : InBatch(w, cmd) <=> w \in Sent(cmd)
  BY DEF InBatch, Sent, Items
<1>4. \A i \in DOMAIN commands : Starts(i) => Items(commands[i].ids) \subseteq InChannel
  <2> SUFFICES ASSUME NEW i \in DOMAIN commands, Starts(i), NEW w \in Items(commands[i].ids)
               PROVE  w \in InChannel
    OBVIOUS
  <2>1. commands[i] \in Commands /\ InBatch(w, commands[i])
    BY DEF TypeOK, InBatch, Items, Starts
  <2>2. w \in Workers
    BY <2>1 DEF Items, Commands
  <2> QED BY <2>1, <2>2 DEF InChannel
<1>5. InChannel' = InChannel \cup Sent(cmd)
  BY <1>1, <1>2, <1>3 DEF InChannel
<1>6. ChannelOnce'
  <2>1. \A i \in DOMAIN commands' : Starts(i)' => Distinct(commands'[i].ids)
    BY <1>1 DEF ChannelOnce, Starts
  <2>2. ASSUME NEW i \in DOMAIN commands, Starts(i), cmd.op = "StartBatch"
        PROVE  Items(commands[i].ids) \cap Items(cmd.ids) = {}
    BY <1>4, <2>2 DEF Sent
  <2>3. ASSUME NEW i \in DOMAIN commands', NEW j \in DOMAIN commands', i # j, Starts(i)', Starts(j)'
        PROVE  Items(commands'[i].ids) \cap Items(commands'[j].ids) = {}
    <3>1. CASE i \in DOMAIN commands /\ j \in DOMAIN commands
      BY <1>1, <2>3, <3>1 DEF ChannelOnce, Starts
    <3>2. CASE i \in DOMAIN commands /\ j = Len(commands) + 1
      BY <1>1, <2>2, <2>3, <3>2 DEF Starts
    <3>3. CASE i = Len(commands) + 1 /\ j \in DOMAIN commands
      BY <1>1, <2>2, <2>3, <3>3 DEF Starts
    <3> QED BY <1>1, <2>3, <3>1, <3>2, <3>3
  <2> QED BY <2>1, <2>3 DEF ChannelOnce
<1> QED BY <1>5, <1>6

LEMMA ChannelTail ==
  ASSUME TypeOK, ChannelOnce, commands # <<>>, commands' = Tail(commands)
  PROVE  /\ ChannelOnce' /\ Head(commands) \in Commands
         /\ InChannel = InChannel' \cup Sent(Head(commands))
         /\ InChannel' \cap Sent(Head(commands)) = {}
         /\ Head(commands).op = "StartBatch" => Distinct(Head(commands).ids)
<1>1. /\ \A i \in DOMAIN commands' : i + 1 \in DOMAIN commands /\ commands'[i] = commands[i + 1]
      /\ \A j \in DOMAIN commands \ {1} : j - 1 \in DOMAIN commands' /\ commands'[j - 1] = commands[j]
      /\ 1 \in DOMAIN commands /\ Head(commands) = commands[1] /\ Head(commands) \in Commands
      /\ \A i \in DOMAIN commands' : i \in Nat \ {0}
  <2>1. commands \in Seq(Commands)
    BY DEF TypeOK
  <2> QED BY <2>1, HeadTailProperties, LenProperties, EmptySeq
<1>2. \A w : InBatch(w, commands[1]) <=> w \in Sent(Head(commands))
  BY <1>1 DEF InBatch, Sent, Items
<1>3. Sent(Head(commands)) \subseteq Workers
  BY <1>1 DEF Sent, Items, Commands
<1>4. InChannel = InChannel' \cup Sent(Head(commands))
  <2>1. ASSUME NEW w \in InChannel PROVE w \in InChannel' \cup Sent(Head(commands))
    <3>1. PICK j \in DOMAIN commands : InBatch(w, commands[j])
      BY DEF InChannel
    <3>2. CASE j = 1
      BY <1>2, <3>1, <3>2
    <3>3. CASE j # 1
      BY <1>1, <3>1, <3>3 DEF InChannel
    <3> QED BY <3>2, <3>3
  <2>2. \A w \in InChannel' : w \in InChannel
    BY <1>1 DEF InChannel
  <2>3. \A w \in Sent(Head(commands)) : w \in InChannel
    BY <1>1, <1>2, <1>3 DEF InChannel
  <2> QED BY <2>1, <2>2, <2>3
<1>5. ChannelOnce'
  <2>1. \A i \in DOMAIN commands' : Starts(i)' => Distinct(commands'[i].ids)
    BY <1>1 DEF ChannelOnce, Starts
  <2>2. ASSUME NEW i \in DOMAIN commands', NEW j \in DOMAIN commands', i # j, Starts(i)', Starts(j)'
        PROVE  Items(commands'[i].ids) \cap Items(commands'[j].ids) = {}
    <3>1. i + 1 # j + 1 /\ Starts(i + 1) /\ Starts(j + 1)
      BY <1>1, <2>2 DEF Starts
    <3>2. /\ commands'[i] = commands[i + 1] /\ commands'[j] = commands[j + 1]
          /\ i + 1 \in DOMAIN commands /\ j + 1 \in DOMAIN commands
      BY <1>1
    <3>3. Items(commands[i + 1].ids) \cap Items(commands[j + 1].ids) = {}
      BY <3>1, <3>2 DEF ChannelOnce
    <3> QED BY <3>2, <3>3
  <2> QED BY <2>1, <2>2 DEF ChannelOnce
<1>6. InChannel' \cap Sent(Head(commands)) = {}
  <2> SUFFICES ASSUME NEW w \in InChannel', w \in Sent(Head(commands)) PROVE FALSE
    OBVIOUS
  <2>1. PICK i \in DOMAIN commands' : InBatch(w, commands'[i])
    BY DEF InChannel
  <2>2. i + 1 # 1 /\ Starts(i + 1) /\ Starts(1) /\ w \in Items(commands[i + 1].ids) /\ w \in Items(commands[1].ids)
    BY <1>1, <1>2, <2>1 DEF InBatch, Starts, Items
  <2> QED BY <1>1, <2>2 DEF ChannelOnce
<1>7. Head(commands).op = "StartBatch" => Distinct(Head(commands).ids)
  BY <1>1 DEF ChannelOnce, Starts
<1> QED BY <1>1, <1>4, <1>5, <1>6, <1>7

-----------------------------------------------------------------------------
(* Steps that bring nothing to a place.                                    *)

LEMMA PlacesKnown ==
  ASSUME TypeOK
  PROVE  Waiting \subseteq Workers /\ \A b \in Batches : Ids(b) \subseteq Workers
BY WorkloadAssumption DEF TypeOK, Waiting, Queues, InChannel, InHand, Items, Ids

LEMMA PlacesShrink ==
  ASSUME TypeOK, Placement,
         ChannelOnce', Distinct(batch)', Distinct(normal)', Distinct(urgent)',
         InChannel' \subseteq InChannel, Items(batch)' \subseteq Items(batch),
         Items(normal)' \subseteq Items(normal), Items(urgent)' \subseteq Items(urgent),
         InHand' \subseteq InHand,
         \A w \in Workers : task[w] = "none" /\ (w \in InHand => w \in InHand') => task'[w] = "none",
         \A b \in Batches : spawnPc'[b] # "ok" => spawnPc[b] # "ok"
  PROVE  Placement'
<1>1. Waiting' \subseteq Waiting /\ Queues' \subseteq Queues
  BY DEF Waiting, Queues
<1>2. /\ InChannel' \cap (Queues' \cup InHand') = {}
      /\ Items(batch)' \cap (Items(normal)' \cup Items(urgent)') = {}
      /\ Items(normal)' \cap Items(urgent)' = {}
      /\ Queues' \cap InHand' = {}
  BY <1>1 DEF Placement
<1>3. ASSUME NEW w \in Waiting' PROVE task'[w] = "none"
  <2>1. w \in Workers /\ task[w] = "none" /\ (w \in InHand => w \in InHand')
    BY <1>1, PlacesKnown DEF Placement, Waiting, Queues
  <2> QED BY <2>1
<1>4. ASSUME NEW b \in Batches, spawnPc'[b] # "ok", NEW w \in Ids(b)
      PROVE  w \notin Waiting' /\ task'[w] = "none"
  <2>1. w \in Workers /\ w \notin Waiting /\ task[w] = "none"
    BY <1>4, PlacesKnown DEF Placement
  <2> QED BY <1>1, <2>1 DEF Waiting
<1>5. \A b \in Batches : Ids(b)' = Ids(b)
  BY DEF Ids
<1> QED BY <1>2, <1>3, <1>4, <1>5 DEF Placement

LEMMA PlacesFrame ==
  ASSUME TypeOK, Placement, UNCHANGED <<commands, batch, normal, urgent>>,
         InHand' \subseteq InHand,
         \A w \in Workers : task[w] = "none" /\ (w \in InHand => w \in InHand') => task'[w] = "none",
         \A b \in Batches : spawnPc'[b] # "ok" => spawnPc[b] # "ok"
  PROVE  Placement' /\ InChannel' = InChannel /\ Queues' = Queues
<1>1. /\ ChannelOnce' /\ Distinct(batch)' /\ Distinct(normal)' /\ Distinct(urgent)'
      /\ InChannel' = InChannel /\ Items(batch)' = Items(batch)
      /\ Items(normal)' = Items(normal) /\ Items(urgent)' = Items(urgent)
  BY DEF Placement, ChannelOnce, Starts, InChannel
<1>2. Placement'
  BY <1>1, PlacesShrink
<1> QED BY <1>1, <1>2 DEF Queues

\* The cell under finish and emit: nobody else's, and no worker comes back.
LEMMA FinishActive ==
  ASSUME IInv, NEW w \in Workers, NEW st \in Terminal, NEW ok, Finish(w, st, ok)
  PROVE  /\ \A v \in Workers \ {w} : status'[v] = status[v]
         /\ FinishReturnsOk(w, ok) => status'[w] \in Terminal
         /\ ActiveWorkers' \subseteq ActiveWorkers
         /\ FinishReturnsOk(w, ok) => w \notin ActiveWorkers'
<1>1. /\ TypeOK /\ result[w] = IF IsTerminal(w) THEN status[w] ELSE None
  BY DEF IInv, LifecycleInv, CellsAgree
<1>2. CASE result[w] = None /\ ok
  <2>1. status' = [status EXCEPT ![w] = st] /\ status'[w] = st
    BY <1>1, <1>2 DEF Finish, TypeOK
  <2> QED BY <1>1, <2>1 DEF TypeOK, ActiveWorkers
<1>3. CASE ~(result[w] = None /\ ok)
  <2>1. status' = status
    BY <1>3 DEF Finish
  <2>2. FinishReturnsOk(w, ok) => status[w] \in Terminal
    BY <1>1, <1>3 DEF FinishReturnsOk, IsTerminal
  <2> QED BY <2>1, <2>2 DEF ActiveWorkers
<1> QED BY <1>2, <1>3

LEMMA EmitActive ==
  ASSUME TypeOK, NEW w \in Workers, Known(w), NEW st \in Active, Emit(w, st)
  PROVE  /\ ActiveWorkers' = ActiveWorkers
         /\ \A v \in Workers : IsTerminal(v)' <=> IsTerminal(v)
BY DEF TypeOK, Known, Emit, IsTerminal, ActiveWorkers

-----------------------------------------------------------------------------
(* Callers.                                                                *)

Rest == Placement /\ Limits /\ Futures /\ Found /\ Streak

LEMMA SchedulerFrame ==
  ASSUME TypeOK, Limits, Futures, UNCHANGED scheduler
  PROVE  Limits' /\ Futures'
BY DEF Limits, Futures, Live, Launching, Eligible, InGroup, scheduler, tasks, slots

\* A call that sends nothing.
LEMMA QuietCall ==
  ASSUME SInv, UNCHANGED <<commands, scheduler>>,
         \A b \in Batches : spawnPc'[b] # "ok" => spawnPc[b] # "ok",
         Sending \subseteq Sending', ActiveWorkers' \subseteq ActiveWorkers \cup Sending',
         Cancellers = {} => \A w \in Workers : w \in Sending' \/ ~IsTerminal(w) => ~IsTerminal(w)'
  PROVE  Rest'
<1>1. TypeOK /\ Placement /\ Limits /\ Futures /\ Found /\ Streak
  BY DEF SInv, IInv
<1>2. /\ UNCHANGED <<commands, batch, normal, urgent, task, sched, current, running, stopping>>
      /\ UNCHANGED <<urgentStreak, urgentRun>> /\ InHand' = InHand
  BY DEF scheduler, queues, tasks, slots, InHand, Launching
<1>3. Placement' /\ InChannel' = InChannel /\ Queues' = Queues
  BY <1>1, <1>2, PlacesFrame
<1>4. Limits' /\ Futures'
  BY <1>1, SchedulerFrame
<1>5. Found'
  BY <1>1, <1>2, <1>3 DEF Found, Waiting
<1>6. Streak'
  <2>1. InChannel \cup Queues \subseteq Workers
    BY <1>1, PlacesKnown DEF Waiting
  <2>2. Sending' \subseteq Workers
    BY DEF Sending
  <2> QED BY <1>1, <1>2, <1>3, <2>1, <2>2 DEF Streak
<1> QED BY <1>3, <1>4, <1>5, <1>6 DEF Rest

LEMMA IdleCall ==
  ASSUME SInv, UNCHANGED <<commands, scheduler, status>>, Sending' = Sending,
         \A b \in Batches : spawnPc'[b] # "ok" => spawnPc[b] # "ok"
  PROVE  Rest'
<1>1. ActiveWorkers' = ActiveWorkers /\ \A w : IsTerminal(w)' = IsTerminal(w)
  BY DEF ActiveWorkers, IsTerminal
<1>2. Cancellers = {} => \A w \in Sending : ~IsTerminal(w)
  BY DEF SInv, Streak
<1> QED BY <1>1, <1>2, QuietCall

LEMMA SpawnRest ==
  ASSUME SInv, NEW b \in Batches,
         SpawnCheck(b) \/ SpawnReserve(b) \/ SpawnAdmit(b) \/ SpawnInsert(b)
  PROVE  Rest'
<1>0. TypeOK /\ CallsKnown
  BY DEF SInv, IInv, LifecycleInv
<1>1. CASE SpawnCheck(b) \/ SpawnReserve(b) \/ SpawnAdmit(b)
  <2>1. /\ UNCHANGED <<commands, scheduler, status>>
        /\ \E x \in {"checked", "reserved", "admitted", "error"} : spawnPc' = [spawnPc EXCEPT ![b] = x]
        /\ spawnPc[b] \in {"idle", "checked", "reserved"}
    BY <1>1 DEF SpawnCheck, SpawnReserve, SpawnAdmit, cells
  <2>2. /\ \A c \in Batches \ {b} : spawnPc'[c] = spawnPc[c]
        /\ spawnPc'[b] \in {"checked", "reserved", "admitted", "error"}
    BY <1>0, <2>1 DEF TypeOK
  <2>3. Sending = Sending'
    BY <2>1, <2>2 DEF Sending, Ids
  <2> QED BY <2>1, <2>2, <2>3, IdleCall
<1>2. CASE SpawnInsert(b)
  <2>1. PICK ok \in JournalOutcomes :
          /\ spawnPc' = [spawnPc EXCEPT ![b] = IF ok THEN "inserted" ELSE "error"]
          /\ status' = [w \in Workers |-> IF ok /\ w \in Ids(b) THEN "Queued" ELSE status[w]]
    BY <1>2 DEF SpawnInsert
  <2>2. UNCHANGED <<commands, scheduler>> /\ spawnPc[b] = "admitted"
    BY <1>2 DEF SpawnInsert
  <2>3. \A c \in Batches \ {b} : spawnPc'[c] = spawnPc[c]
    BY <1>0, <2>1 DEF TypeOK
  <2>4. Sending \subseteq Sending' /\ (ok => Ids(b) \subseteq Sending')
    BY <1>0, <2>1, <2>2, <2>3, PlacesKnown DEF Sending, Ids, TypeOK
  <2>5. ActiveWorkers' \subseteq ActiveWorkers \cup Sending'
    BY <2>1, <2>4 DEF ActiveWorkers
  <2>6. Cancellers = {} => \A w \in Workers : w \in Sending' \/ ~IsTerminal(w) => ~IsTerminal(w)'
    <3>1. ASSUME Cancellers = {}, NEW w \in Workers, w \in Sending', w \notin Ids(b) \/ ~ok
          PROVE  ~IsTerminal(w)
      <4>1. w \in Sending
        BY <2>1, <2>3, <3>1, <1>0 DEF Sending, Ids, TypeOK
      <4> QED BY <3>1, <4>1 DEF SInv, Streak
    <3>2. \A w \in Workers : status'[w] = IF ok /\ w \in Ids(b) THEN "Queued" ELSE status[w]
      BY <2>1
    <3> QED BY <3>1, <3>2 DEF IsTerminal
  <2> QED BY <2>2, <2>3, <2>4, <2>5, <2>6, QuietCall
<1> QED BY <1>1, <1>2

LEMMA SpawnSendRest ==
  ASSUME SInv, NEW b \in Batches, SpawnSend(b)
  PROVE  Rest'
<1>1. TypeOK /\ Placement /\ Limits /\ Futures /\ Found /\ Streak
  BY DEF SInv, IInv
<1>2. /\ spawnPc[b] = "inserted" /\ spawnPc' = [spawnPc EXCEPT ![b] = "ok"]
      /\ spawnPc'[b] = "ok" /\ \A c \in Batches \ {b} : spawnPc'[c] = spawnPc[c]
      /\ UNCHANGED <<status, batch, normal, urgent, task, sched, current, running, stopping>>
      /\ UNCHANGED <<urgentStreak, urgentRun, scheduler>>
  BY <1>1 DEF SpawnSend, TypeOK, cells, scheduler, queues, tasks, slots
<1>3. /\ InHand' = InHand /\ Queues' = Queues /\ ActiveWorkers' = ActiveWorkers
      /\ Ids(b) \subseteq Workers /\ Ids(b) \subseteq Sending
      /\ \A c \in Batches \ {b} : Ids(b) \cap Ids(c) = {}
  BY <1>1, <1>2, PlacesKnown, WorkloadAssumption
     DEF InHand, Queues, Launching, ActiveWorkers, Sending, Ids
<1>4. Limits' /\ Futures'
  BY <1>1, <1>2, SchedulerFrame
<1>5. CASE Closed
  <2>1. commands' = commands
    BY <1>5 DEF SpawnSend
  <2>2. Placement' /\ InChannel' = InChannel
    BY <1>1, <1>2, <1>3, <2>1, PlacesFrame
  <2>3. Found'
    BY <1>1, <1>2, <1>5 DEF Found, Closed
  <2>4. Sending' \subseteq Sending
    BY <1>2 DEF Sending, Ids
  <2>5. Streak'
    BY <1>1, <1>2, <1>3, <2>2, <2>4 DEF Streak, IsTerminal
  <2> QED BY <1>4, <2>2, <2>3, <2>5 DEF Rest
<1>6. CASE ~Closed
  <2> DEFINE cmd == [op |-> "StartBatch", ids |-> Members[b]]
  <2>1. /\ commands' = Append(commands, cmd) /\ cmd \in Commands /\ Sent(cmd) = Ids(b)
        /\ Distinct(cmd.ids) /\ cmd.op = "StartBatch"
    BY <1>6, WorkloadAssumption DEF SpawnSend, Commands, Sent, Items, Ids, Distinct
  <2> HIDE DEF cmd
  <2>2. \A w \in Ids(b) : w \notin Waiting /\ task[w] = "none"
    BY <1>1, <1>2 DEF Placement
  <2>3. ChannelOnce' /\ InChannel' = InChannel \cup Ids(b)
    BY <1>1, <2>1, <2>2, ChannelAppend DEF Placement, Waiting
  <2>4. Waiting' = Waiting \cup Ids(b)
    BY <1>3, <2>3 DEF Waiting
  <2>5. Placement'
    <3>1. /\ Distinct(batch)' /\ Distinct(normal)' /\ Distinct(urgent)'
          /\ Items(batch)' \cap (Items(normal)' \cup Items(urgent)') = {}
          /\ Items(normal)' \cap Items(urgent)' = {}
      BY <1>1, <1>2 DEF Placement
    <3>2. InChannel' \cap (Queues' \cup InHand') = {} /\ Queues' \cap InHand' = {}
      BY <1>1, <1>3, <2>2, <2>3 DEF Placement, Waiting
    <3>3. \A w \in Waiting' : task'[w] = "none"
      BY <1>1, <1>2, <2>2, <2>4 DEF Placement
    <3>4. ASSUME NEW c \in Batches, spawnPc'[c] # "ok", NEW w \in Ids(c)
          PROVE  w \notin Waiting' /\ task'[w] = "none"
      BY <1>1, <1>2, <1>3, <2>4, <3>4 DEF Placement
    <3>5. \A c \in Batches : Ids(c)' = Ids(c)
      BY DEF Ids
    <3> QED BY <2>3, <3>1, <3>2, <3>3, <3>4, <3>5 DEF Placement
  <2>6. Sending \subseteq Sending' \cup Ids(b) /\ Sending' \subseteq Sending
    BY <1>2 DEF Sending, Ids
  <2>7. Found'
    BY <1>1, <1>2, <1>3, <2>4, <2>6 DEF Found
  <2>8. Streak'
    BY <1>1, <1>2, <1>3, <2>3, <2>6 DEF Streak, IsTerminal
  <2> QED BY <1>4, <2>5, <2>7, <2>8 DEF Rest
<1> QED BY <1>5, <1>6

LEMMA OtherCommand ==
  ASSUME SInv, UNCHANGED <<scheduler, status, spawnPc>>, NEW cmd \in Commands, cmd.op # "StartBatch",
         commands' = commands \/ commands' = Append(commands, cmd)
  PROVE  Rest'
<1>1. TypeOK /\ Placement /\ Limits /\ Futures /\ Found /\ Streak
  BY DEF SInv, IInv
<1>2. UNCHANGED <<batch, normal, urgent, task, sched, current, running, stopping, urgentStreak, urgentRun>>
  BY DEF scheduler, queues, tasks, slots
<1>3. /\ InHand' = InHand /\ Queues' = Queues /\ ActiveWorkers' = ActiveWorkers /\ Sending' = Sending
  BY <1>2 DEF InHand, Queues, Launching, ActiveWorkers, Sending, Ids
<1>4. ChannelOnce' /\ InChannel' = InChannel
  <2>1. CASE commands' = commands
    BY <1>1, <2>1 DEF Placement, ChannelOnce, Starts, InChannel
  <2>2. CASE commands' = Append(commands, cmd)
    BY <1>1, <2>2, ChannelAppend DEF Placement, Sent
  <2> QED BY <2>1, <2>2
<1>5. Placement'
  BY <1>1, <1>2, <1>3, <1>4, PlacesShrink DEF Placement
<1>6. Limits' /\ Futures'
  BY <1>1, SchedulerFrame
<1>7. Found' /\ Streak'
  BY <1>1, <1>2, <1>3, <1>4 DEF Found, Streak, Waiting, IsTerminal
<1> QED BY <1>5, <1>6, <1>7 DEF Rest

LEMMA CallerRest ==
  ASSUME SInv, Client
  PROVE  Rest'
<1>0. TypeOK /\ CallsKnown /\ IInv
  BY DEF SInv, IInv, LifecycleInv
<1>1. ASSUME NEW b \in Batches, \/ SpawnCheck(b) \/ SpawnReserve(b) \/ SpawnAdmit(b)
                                \/ SpawnInsert(b) \/ SpawnSend(b)
      PROVE  Rest'
  BY <1>1, SpawnRest, SpawnSendRest
<1>2. ASSUME NEW c \in Cancellers, NEW w \in Workers, CancelRead(c, w) PROVE Rest'
  <2>1. UNCHANGED <<commands, scheduler, status, spawnPc>>
    BY <1>2 DEF CancelRead, cells
  <2> QED BY <2>1, IdleCall DEF Sending, Ids
<1>3. ASSUME NEW c \in Cancellers, CancelQueuedToken(c) PROVE Rest'
  <2>1. UNCHANGED <<commands, scheduler, status, spawnPc>>
    BY <1>3 DEF CancelQueuedToken
  <2> QED BY <2>1, IdleCall DEF Sending, Ids
<1>4. ASSUME NEW c \in Cancellers, CancelQueuedFinish(c) PROVE Rest'
  <2>1. UNCHANGED <<commands, scheduler, spawnPc>> /\ Cancellers # {} /\ cancelOf[c] \in Workers
    BY <1>0, <1>4 DEF CancelQueuedFinish, CallsKnown
  <2>2. PICK ok \in JournalOutcomes : Finish(cancelOf[c], "Cancelled", ok)
    BY <1>4 DEF CancelQueuedFinish
  <2>3. ActiveWorkers' \subseteq ActiveWorkers
    <3>1. PICK w \in Workers : w = cancelOf[c]
      BY <2>1
    <3>2. Finish(w, "Cancelled", ok)
      BY <2>2, <3>1
    <3> QED BY <1>0, <3>2, FinishActive
  <2> QED BY <2>1, <2>3, QuietCall DEF Sending, Ids
<1>5. ASSUME NEW c \in Cancellers, CancelActive(c) PROVE Rest'
  <2>1. cancelOf[c] \in Workers
    BY <1>0, <1>5 DEF CancelActive, CallsKnown
  <2> DEFINE cmd == [op |-> "Cancel", ids |-> <<cancelOf[c]>>]
  <2>2. cmd \in Commands /\ cmd.op # "StartBatch"
    BY <2>1 DEF Commands
  <2>3. commands' = commands \/ commands' = Append(commands, cmd)
    BY <1>5 DEF CancelActive
  <2> HIDE DEF cmd
  <2> QED BY <1>5, <2>2, <2>3, OtherCommand DEF CancelActive
<1>6. ASSUME NEW s \in Stoppers, StopSwap(s) \/ StopTake(s) \/ StopJoin(s) PROVE Rest'
  <2>1. UNCHANGED <<commands, scheduler, status, spawnPc>>
    BY <1>6 DEF StopSwap, StopTake, StopJoin, cells
  <2> QED BY <2>1, IdleCall DEF Sending, Ids
<1>7. ASSUME NEW s \in Stoppers, StopSend(s) PROVE Rest'
  <2> DEFINE cmd == [op |-> "Shutdown", ids |-> <<>>]
  <2>1. cmd \in Commands /\ cmd.op # "StartBatch"
    BY DEF Commands
  <2>2. commands' = commands \/ commands' = Append(commands, cmd)
    BY <1>7 DEF StopSend
  <2> HIDE DEF cmd
  <2> QED BY <1>7, <2>1, <2>2, OtherCommand DEF StopSend, cells
<1>8. CASE DropHandles
  <2>1. UNCHANGED <<commands, scheduler, status, spawnPc>>
    BY <1>8 DEF DropHandles, cells
  <2> QED BY <2>1, IdleCall DEF Sending, Ids
<1> QED BY <1>1, <1>2, <1>3, <1>4, <1>5, <1>6, <1>7, <1>8 DEF Client

-----------------------------------------------------------------------------
(* launch_ready.                                                           *)

\* A failed journal append drops the futures and changes nothing else here.
LEMMA FailFutures ==
  ASSUME TypeOK, Futures, sched # "failed", NEW next, NEW ok \in BOOLEAN, FailOr(next, ok),
         UNCHANGED <<running, completed>>
  PROVE  Futures' /\ \A w \in Workers : task[w] = "none" => task'[w] = "none"
<1>1. \A w \in Workers : task'[w] = IF ~ok /\ task[w] = "live" THEN "aborted" ELSE task[w]
  BY DEF FailOr
<1>2. ok => task' = task
  BY <1>1 DEF FailOr, TypeOK
<1>3. ~ok => sched' = "failed"
  BY DEF FailOr
<1>4. \A i \in DOMAIN completed : completed[i][1] \in Workers
  BY DEF TypeOK
<1>5. Futures'
  BY <1>1, <1>2, <1>3, <1>4 DEF TypeOK, Futures, Live
<1> QED BY <1>1, <1>5

LEMMA LimitsFrame ==
  ASSUME Limits, UNCHANGED <<running, groupRunning, ticking>>,
         Launching' => Launching /\ current' = current,
         sched' \notin {"tick", "failed"} => ticking = {}
  PROVE  Limits'
BY DEF Limits, InGroup, Eligible

LEMMA PickNoneRest ==
  ASSUME SInv, PickNone
  PROVE  Rest'
<1>1. TypeOK /\ Placement /\ Limits /\ Futures /\ Found /\ Streak
  BY DEF SInv, IInv
<1>2. /\ sched = "pick" /\ sched' = IF stopping /\ running = {} THEN "stopped" ELSE "select"
      /\ UNCHANGED <<status, spawnPc, commands, batch, normal, urgent, task, current, running>>
      /\ UNCHANGED <<stopping, urgentStreak, urgentRun, completed, groupRunning, ticking>>
  BY DEF PickNone, cells, clients, queues, tasks, slots
<1>3. InHand = {} /\ InHand' = {} /\ Sending' = Sending /\ ActiveWorkers' = ActiveWorkers
  BY <1>2 DEF InHand, Launching, Sending, Ids, ActiveWorkers
<1>4. Placement' /\ InChannel' = InChannel /\ Queues' = Queues
  BY <1>1, <1>2, <1>3, PlacesFrame
<1>5. Limits'
  BY <1>1, <1>2, LimitsFrame DEF Limits, Launching
<1>6. Futures'
  BY <1>1, <1>2 DEF Futures, Live
<1>7. Found' /\ Streak'
  BY <1>1, <1>2, <1>3, <1>4 DEF Found, Streak, Waiting, IsTerminal
<1> QED BY <1>4, <1>5, <1>6, <1>7 DEF Rest

\* What next_eligible takes from a queue goes to hand, or is dropped when it
\* is settled already.
LEMMA PickRest ==
  ASSUME SInv, PickUrgent \/ PickNormal
  PROVE  Rest'
<1>1. TypeOK /\ Placement /\ Limits /\ Futures /\ Found /\ Streak
  BY DEF SInv, IInv
<1>2. /\ sched = "pick" /\ CanLaunch
      /\ UNCHANGED <<status, spawnPc, commands, batch, task, running>>
      /\ UNCHANGED <<stopping, completed, groupRunning, ticking>>
  BY DEF PickUrgent, PickNormal, cells, clients, queues, tasks, slots
<1>3. PICK w \in Items(normal) \cup Items(urgent) :
        /\ Popped(w) /\ Eligible(w)
        /\ Items(normal)' = Items(normal) \ {w} /\ Items(urgent)' = Items(urgent) \ {w}
        /\ Distinct(normal)' /\ Distinct(urgent)'
  <2>0. /\ normal \in Seq(Workers) /\ urgent \in Seq(Workers) /\ Distinct(normal) /\ Distinct(urgent)
        /\ Items(normal) \cap Items(urgent) = {}
    BY <1>1 DEF TypeOK, Placement
  <2>1. CASE PickUrgent
    <3>1. PICK i \in DOMAIN urgent : FirstEligible(urgent, i) /\ Popped(urgent[i])
                                     /\ urgent' = Rotated(urgent, i) /\ normal' = normal
      BY <2>1 DEF PickUrgent
    <3>2. Items(urgent)' = Items(urgent) \ {urgent[i]} /\ Distinct(urgent)'
      BY <2>0, <3>1, RotatedItems
    <3>3. urgent[i] \in Items(urgent) /\ urgent[i] \notin Items(normal)
      BY <2>0 DEF Items
    <3> QED BY <2>0, <3>1, <3>2, <3>3 DEF FirstEligible
  <2>2. CASE PickNormal
    <3>1. PICK i \in DOMAIN normal : FirstEligible(normal, i) /\ Popped(normal[i])
                                     /\ normal' = Rotated(normal, i) /\ urgent' = urgent
      BY <2>2 DEF PickNormal
    <3>2. Items(normal)' = Items(normal) \ {normal[i]} /\ Distinct(normal)'
      BY <2>0, <3>1, RotatedItems
    <3>3. normal[i] \in Items(normal) /\ normal[i] \notin Items(urgent)
      BY <2>0 DEF Items
    <3> QED BY <2>0, <3>1, <3>2, <3>3 DEF FirstEligible
  <2> QED BY <2>1, <2>2
<1>4. /\ w \in Workers /\ w \in Queues /\ w \in Waiting /\ w \notin Items(batch) /\ w \notin InChannel
      /\ task[w] = "none"
  BY <1>1, <1>3, PlacesKnown DEF Queues, Waiting, Placement
<1>5. InHand = {} /\ InHand' = (IF IsTerminal(w) THEN {} ELSE {w})
  BY <1>2, <1>3, <1>4 DEF InHand, Launching, Popped
<1>6. /\ InChannel' = InChannel /\ Queues' = Queues \ {w}
      /\ Waiting' = IF IsTerminal(w) THEN Waiting \ {w} ELSE Waiting
      /\ Items(batch)' = Items(batch)
  <2>1. InChannel' = InChannel /\ Items(batch)' = Items(batch)
    BY <1>2 DEF InChannel
  <2>2. Queues' = Queues \ {w}
    BY <1>3, <1>4, <2>1 DEF Queues
  <2> QED BY <1>4, <1>5, <2>1, <2>2 DEF Waiting
<1>7. Placement'
  <2>1. ChannelOnce' /\ Distinct(batch)'
    BY <1>1, <1>2 DEF Placement, ChannelOnce, Starts
  <2>2. /\ InChannel' \cap (Queues' \cup InHand') = {}
        /\ Items(batch)' \cap (Items(normal)' \cup Items(urgent)') = {}
        /\ Items(normal)' \cap Items(urgent)' = {}
        /\ Queues' \cap InHand' = {}
    BY <1>1, <1>3, <1>4, <1>5, <1>6 DEF Placement
  <2>3. Waiting' \subseteq Waiting
    BY <1>4, <1>6
  <2>4. \A v \in Waiting' : task'[v] = "none"
    BY <1>1, <1>2, <2>3 DEF Placement
  <2>5. \A b \in Batches : spawnPc'[b] # "ok" => \A v \in Ids(b)' : v \notin Waiting' /\ task'[v] = "none"
    BY <1>1, <1>2, <2>3 DEF Placement, Ids
  <2> QED BY <1>3, <2>1, <2>2, <2>4, <2>5 DEF Placement
<1>8. Limits'
  <2>1. Launching' => current' = w
    BY <1>3 DEF Popped, Launching
  <2> QED BY <1>1, <1>2, <1>3, <2>1 DEF Limits, InGroup, Eligible, CanLaunch, HasSpare
<1>9. Futures'
  BY <1>1, <1>2, <1>3 DEF Futures, Live, Popped
<1>10. Found'
  <2>1. ActiveWorkers' = ActiveWorkers /\ Sending' = Sending
    BY <1>2 DEF ActiveWorkers, Sending, Ids
  <2>2. IsTerminal(w) => w \notin ActiveWorkers
    BY <1>4 DEF IsTerminal, ActiveWorkers
  <2>3. sched' \in {"pick", "init"}
    BY <1>3 DEF Popped
  <2> QED BY <1>1, <1>2, <1>6, <2>1, <2>2, <2>3 DEF Found
<1>11. Streak'
  <2> SUFFICES ASSUME Cancellers = {}
               PROVE  /\ \A v \in (Sending \cup InChannel \cup Queues)' : ~IsTerminal(v)'
                      /\ (urgentRun <= urgentStreak /\ urgentRun <= MaxUrgentStreak)'
    BY DEF Streak
  <2>1. Sending' = Sending /\ \A v : IsTerminal(v)' = IsTerminal(v)
    BY <1>2 DEF Sending, Ids, IsTerminal
  <2>2. \A v \in (Sending \cup InChannel \cup Queues)' : ~IsTerminal(v)'
    BY <1>1, <1>6, <2>1 DEF Streak
  <2>3. /\ urgentRun \in Nat /\ urgentStreak \in Nat /\ MaxUrgentStreak \in Nat
        /\ urgentRun <= urgentStreak /\ urgentRun <= MaxUrgentStreak
    BY <1>1, ConfigAssumption DEF TypeOK, Streak
  <2>4. \A v \in Items(normal) \cup Items(urgent) : ~IsTerminal(v)
    BY <1>1 DEF Streak, Queues
  <2>5. CASE PickUrgent
    <3>1. urgentStreak' = urgentStreak + 1 /\ urgentRun' = IF NormalWaiting THEN urgentRun + 1 ELSE 0
      BY <2>4, <2>5 DEF PickUrgent, Items
    <3>2. NormalWaiting => urgentStreak < MaxUrgentStreak
      <4>1. NormalWaiting => EligibleIn(normal) /\ normal # <<>>
        BY DEF NormalWaiting, EligibleIn
      <4>2. UseUrgent
        BY <2>5 DEF PickUrgent
      <4> QED BY <4>1, <4>2 DEF UseUrgent, PreferUrgent
    <3> QED BY <2>2, <2>3, <3>1, <3>2
  <2>6. CASE PickNormal
    <3>1. urgentStreak' = 0 /\ urgentRun' = 0
      BY <2>4, <2>6 DEF PickNormal, Items
    <3> QED BY <2>2, <2>3, <3>1
  <2> QED BY <2>5, <2>6
<1> QED BY <1>7, <1>8, <1>9, <1>10, <1>11 DEF Rest

LEMMA SlotsFinite ==
  ASSUME TypeOK
  PROVE  /\ IsFiniteSet(running) /\ Cardinality(running) \in Nat
         /\ \A g : IsFiniteSet(InGroup(g)) /\ Cardinality(InGroup(g)) \in Nat
<1>1. IsFiniteSet(running)
  BY WorkloadAssumption, FS_Subset DEF TypeOK
<1>2. \A g : InGroup(g) \in SUBSET running
  BY DEF InGroup
<1>3. \A g : IsFiniteSet(InGroup(g))
  BY <1>1, <1>2, FS_Subset
<1> QED BY <1>1, <1>3, FS_CardinalityType

LEMMA LaunchInitRest ==
  ASSUME SInv, LaunchInit
  PROVE  Rest'
<1>1. /\ TypeOK /\ Placement /\ Limits /\ Futures /\ Found /\ Streak
      /\ current \in Workers /\ Known(current)
  BY DEF SInv, IInv, LifecycleInv, StartedKnown, LaunchInit, Launching
<1>2. /\ sched = "init" /\ Emit(current, "Initializing")
      /\ UNCHANGED <<spawnPc, commands, batch, normal, urgent, current, running>>
      /\ UNCHANGED <<stopping, urgentStreak, urgentRun, completed, groupRunning, ticking>>
  BY DEF LaunchInit, clients, queues, slots
<1>3. PICK ok \in JournalOutcomes : FailOr("create", EmitReturnsOk(current, ok))
  BY DEF LaunchInit
<1>4. Futures' /\ \A w \in Workers : task[w] = "none" => task'[w] = "none"
  <2>1. EmitReturnsOk(current, ok) \in BOOLEAN
    BY DEF EmitReturnsOk, IsTerminal, JournalOutcomes
  <2> QED BY <1>1, <1>2, <1>3, <2>1, FailFutures
<1>5. InHand' \subseteq InHand /\ sched' \in {"create", "failed"} /\ (sched' # "failed" => InHand' = InHand)
  BY <1>2, <1>3 DEF FailOr, InHand, Launching
<1>6. Placement' /\ InChannel' = InChannel /\ Queues' = Queues
  BY <1>1, <1>2, <1>4, <1>5, PlacesFrame
<1>7. Limits'
  BY <1>1, <1>2, <1>5, LimitsFrame DEF Limits, Launching
<1>8. ActiveWorkers' = ActiveWorkers /\ \A v \in Workers : IsTerminal(v)' <=> IsTerminal(v)
  BY <1>1, <1>2, EmitActive
<1>9. Sending' = Sending /\ Sending \cup InChannel \cup Queues \subseteq Workers
  BY <1>1, <1>2, PlacesKnown DEF Sending, Ids, Waiting
<1>10. Found' /\ Streak'
  BY <1>1, <1>2, <1>5, <1>6, <1>8, <1>9 DEF Found, Streak, Waiting
<1> QED BY <1>4, <1>6, <1>7, <1>10 DEF Rest

LEMMA LaunchCreateErrorRest ==
  ASSUME SInv, LaunchCreateError
  PROVE  Rest'
<1>1. /\ TypeOK /\ IInv /\ Placement /\ Limits /\ Futures /\ Found /\ Streak /\ current \in Workers
  BY DEF SInv, IInv, LifecycleInv, StartedKnown, LaunchCreateError, Launching
<1>2. /\ sched = "create" /\ InHand = {current}
      /\ UNCHANGED <<spawnPc, commands, batch, normal, urgent, running>>
      /\ UNCHANGED <<stopping, urgentStreak, urgentRun, completed, groupRunning, ticking>>
  BY <1>1 DEF LaunchCreateError, clients, queues, slots, InHand, Launching
<1>3. PICK ok \in JournalOutcomes : /\ Finish(current, FinalStatus(current, "error"), ok)
                                    /\ FailOr("pick", FinishReturnsOk(current, ok))
  BY DEF LaunchCreateError
<1>4. Futures' /\ \A w \in Workers : task[w] = "none" => task'[w] = "none"
  <2>1. FinishReturnsOk(current, ok) \in BOOLEAN
    BY DEF FinishReturnsOk, JournalOutcomes
  <2> QED BY <1>1, <1>2, <1>3, <2>1, FailFutures
<1>5. InHand' = {} /\ sched' \in {"pick", "failed"} /\ (~FinishReturnsOk(current, ok) => sched' = "failed")
  BY <1>3 DEF FailOr, InHand, Launching
<1>6. Placement' /\ InChannel' = InChannel /\ Queues' = Queues
  BY <1>1, <1>2, <1>4, <1>5, PlacesFrame
<1>7. Limits'
  BY <1>1, <1>2, <1>5, LimitsFrame DEF Limits, Launching
<1>8. /\ \A v \in Workers \ {current} : status'[v] = status[v]
      /\ ActiveWorkers' \subseteq ActiveWorkers
      /\ FinishReturnsOk(current, ok) => current \notin ActiveWorkers'
  <2>1. PICK w \in Workers : w = current
    BY <1>1
  <2>2. Finish(w, FinalStatus(w, "error"), ok) /\ FinalStatus(w, "error") \in Terminal
    BY <1>3, <2>1, FinalStatusType
  <2> QED BY <1>1, <2>1, <2>2, FinishActive
<1>9. /\ Sending' = Sending /\ Sending \cup InChannel \cup Queues \subseteq Workers
      /\ current \notin Sending \cup InChannel \cup Queues
  <2>1. current \notin InChannel \cup Queues /\ current \in Waiting
    BY <1>1, <1>2 DEF Placement, Waiting
  <2>2. current \notin Sending
    BY <1>1, <2>1 DEF Placement, Sending
  <2> QED BY <1>1, <1>2, <2>1, <2>2, PlacesKnown DEF Sending, Ids, Waiting
<1>10. Found'
  BY <1>1, <1>2, <1>5, <1>6, <1>8, <1>9 DEF Found, Waiting
<1>11. Streak'
  BY <1>1, <1>2, <1>6, <1>8, <1>9 DEF Streak, IsTerminal
<1> QED BY <1>4, <1>6, <1>7, <1>10, <1>11 DEF Rest

LEMMA LaunchRunRest ==
  ASSUME SInv, LaunchRun
  PROVE  Rest'
<1>1. /\ TypeOK /\ Placement /\ Limits /\ Futures /\ Found /\ Streak
      /\ current \in Workers /\ Known(current)
  BY DEF SInv, IInv, LifecycleInv, StartedKnown, LaunchRun, Launching
<1>2. /\ sched = "create" /\ Launching /\ InHand = {current} /\ Emit(current, "Running")
      /\ UNCHANGED <<spawnPc, commands, batch, normal, urgent>>
      /\ UNCHANGED <<stopping, urgentStreak, urgentRun, completed, ticking>>
  BY <1>1 DEF LaunchRun, clients, queues, InHand, Launching
<1>3. task[current] = "none" /\ current \notin running /\ ticking = {}
  BY <1>1, <1>2 DEF Placement, Waiting, Futures, Limits
<1>4. ActiveWorkers' = ActiveWorkers /\ \A v \in Workers : IsTerminal(v)' <=> IsTerminal(v)
  BY <1>1, <1>2, EmitActive
<1>5. Sending' = Sending /\ Sending \cup InChannel \cup Queues \subseteq Workers
  BY <1>1, <1>2, PlacesKnown DEF Sending, Ids, Waiting
<1>6. PICK ok \in JournalOutcomes :
        IF EmitReturnsOk(current, ok)
        THEN /\ sched' = "pick"
             /\ task' = [task EXCEPT ![current] = "live"]
             /\ running' = running \cup {current}
             /\ groupRunning' = IF GroupOf[current] = NoGroup THEN groupRunning
                                ELSE [groupRunning EXCEPT ![GroupOf[current]] = @ + 1]
        ELSE FailOr("pick", FALSE) /\ UNCHANGED slots
  BY DEF LaunchRun
<1>7. CASE ~EmitReturnsOk(current, ok)
  <2>1. FailOr("pick", FALSE) /\ UNCHANGED <<running, groupRunning>> /\ sched' = "failed" /\ InHand' = {}
    BY <1>6, <1>7 DEF slots, FailOr, InHand, Launching
  <2>2. Futures' /\ \A w \in Workers : task[w] = "none" => task'[w] = "none"
    BY <1>1, <1>2, <2>1, FailFutures
  <2>3. Placement' /\ InChannel' = InChannel /\ Queues' = Queues
    BY <1>1, <1>2, <2>1, <2>2, PlacesFrame
  <2>4. Limits'
    BY <1>1, <1>2, <2>1, LimitsFrame DEF Launching
  <2>5. Found' /\ Streak'
    BY <1>1, <1>2, <1>4, <1>5, <2>1, <2>3 DEF Found, Streak
  <2> QED BY <2>2, <2>3, <2>4, <2>5 DEF Rest
<1>8. CASE EmitReturnsOk(current, ok)
  <2>1. /\ sched' = "pick" /\ running' = running \cup {current}
        /\ groupRunning' = IF GroupOf[current] = NoGroup THEN groupRunning
                           ELSE [groupRunning EXCEPT ![GroupOf[current]] = @ + 1]
        /\ task'[current] = "live" /\ \A w \in Workers \ {current} : task'[w] = task[w]
        /\ InHand' = {} /\ ~Launching'
    BY <1>1, <1>6, <1>8 DEF TypeOK, InHand, Launching
  <2>2. Placement' /\ InChannel' = InChannel /\ Queues' = Queues
    BY <1>1, <1>2, <2>1, PlacesFrame
  <2>3. Limits'
    <3>1. Cardinality(running') <= GlobalConcurrency
      <4>1. Cardinality(running') = Cardinality(running) + 1 /\ Cardinality(running) < GlobalConcurrency
        BY <1>1, <1>2, <1>3, <2>1, SlotsFinite, FS_AddElement DEF Limits
      <4> QED BY <1>1, <4>1, SlotsFinite, ConfigAssumption
    <3>2. ASSUME NEW g \in Groups
          PROVE  groupRunning'[g] = Cardinality(InGroup(g)') /\ groupRunning'[g] <= PerGroupConcurrency
      <4>0. /\ groupRunning[g] = Cardinality(InGroup(g)) /\ groupRunning[g] <= PerGroupConcurrency
            /\ Eligible(current)
        BY <1>1, <1>2 DEF Limits
      <4>1. CASE GroupOf[current] = g
        <5>1. InGroup(g)' = InGroup(g) \cup {current} /\ current \notin InGroup(g)
          BY <1>3, <2>1, <4>1 DEF InGroup
        <5>2. Cardinality(InGroup(g)') = Cardinality(InGroup(g)) + 1
          BY <1>1, <5>1, SlotsFinite, FS_AddElement
        <5>3. groupRunning'[g] = groupRunning[g] + 1 /\ groupRunning[g] < PerGroupConcurrency
          BY <1>1, <2>1, <4>0, <4>1, WorkloadAssumption DEF TypeOK, Eligible
        <5> QED BY <1>1, <4>0, <5>2, <5>3, ConfigAssumption DEF TypeOK
      <4>2. CASE GroupOf[current] # g
        <5>1. InGroup(g)' = InGroup(g)
          BY <2>1, <4>2 DEF InGroup
        <5>2. groupRunning'[g] = groupRunning[g]
          BY <1>1, <2>1, <4>2, WorkloadAssumption DEF TypeOK
        <5> QED BY <4>0, <5>1, <5>2
      <4> QED BY <4>1, <4>2
    <3> QED BY <1>2, <1>3, <2>1, <3>1, <3>2 DEF Limits
  <2>4. Futures'
    <3>1. \A i \in DOMAIN completed : completed[i][1] \in Workers \ {current}
      BY <1>1, <1>3 DEF TypeOK, Futures
    <3> QED BY <1>1, <1>2, <2>1, <3>1 DEF TypeOK, Futures, Live
  <2>5. Found'
    BY <1>1, <1>2, <1>4, <1>5, <2>1, <2>2 DEF Found, Waiting
  <2>6. Streak'
    BY <1>1, <1>2, <1>4, <1>5, <2>2 DEF Streak
  <2> QED BY <2>2, <2>3, <2>4, <2>5, <2>6 DEF Rest
<1> QED BY <1>7, <1>8

-----------------------------------------------------------------------------
(* scheduler_loop: commands.                                               *)

LEMMA ReceiveStartBatchRest ==
  ASSUME SInv, ReceiveStartBatch
  PROVE  Rest'
<1>1. /\ TypeOK /\ Placement /\ Limits /\ Futures /\ Found /\ Streak
  BY DEF SInv, IInv
<1>2. /\ sched = "select" /\ sched' = "enqueue" /\ commands # <<>> /\ commands' = Tail(commands)
      /\ Head(commands).op = "StartBatch" /\ batch' = Head(commands).ids
      /\ UNCHANGED <<status, spawnPc, normal, urgent, task, current, running>>
      /\ UNCHANGED <<stopping, urgentStreak, urgentRun, completed, groupRunning, ticking>>
  BY DEF ReceiveStartBatch, Receives, cells, clients, queues, tasks, slots
<1>3. /\ ChannelOnce' /\ InChannel = InChannel' \cup Items(batch)' /\ InChannel' \cap Items(batch)' = {}
      /\ Distinct(batch)'
  BY <1>1, <1>2, ChannelTail DEF Placement, Sent
<1>4. InHand = {} /\ InHand' = {} /\ Sending' = Sending /\ ActiveWorkers' = ActiveWorkers
  BY <1>2 DEF InHand, Launching, Sending, Ids, ActiveWorkers
<1>5. /\ Items(batch) = {} /\ Items(normal)' = Items(normal) /\ Items(urgent)' = Items(urgent)
      /\ Queues = Items(normal) \cup Items(urgent)
      /\ Queues' = Items(batch)' \cup Items(normal) \cup Items(urgent)
  BY <1>1, <1>2 DEF Found, Items, Queues
<1>6. Waiting' = Waiting
  BY <1>3, <1>4, <1>5 DEF Waiting
<1>7. Placement'
  <2>1. /\ InChannel' \cap (Queues' \cup InHand') = {} /\ Queues' \cap InHand' = {}
        /\ Items(batch)' \cap (Items(normal)' \cup Items(urgent)') = {}
        /\ Items(normal)' \cap Items(urgent)' = {}
    BY <1>1, <1>3, <1>4, <1>5 DEF Placement
  <2>2. Distinct(normal)' /\ Distinct(urgent)'
    BY <1>1, <1>2 DEF Placement
  <2>3. /\ \A w \in Waiting' : task'[w] = "none"
        /\ \A b \in Batches : spawnPc'[b] # "ok" => \A w \in Ids(b)' : w \notin Waiting' /\ task'[w] = "none"
    BY <1>1, <1>2, <1>6 DEF Placement, Ids
  <2> QED BY <1>3, <2>1, <2>2, <2>3 DEF Placement
<1>8. Limits'
  BY <1>1, <1>2, LimitsFrame DEF Limits, Launching
<1>9. Futures'
  BY <1>1, <1>2 DEF Futures, Live
<1>10. Found'
  BY <1>1, <1>2, <1>4, <1>6 DEF Found
<1>11. Streak'
  BY <1>1, <1>2, <1>3, <1>4, <1>5 DEF Streak, IsTerminal
<1> QED BY <1>7, <1>8, <1>9, <1>10, <1>11 DEF Rest

LEMMA EnqueueRest ==
  ASSUME SInv, Enqueue
  PROVE  Rest'
<1>1. /\ TypeOK /\ Placement /\ Limits /\ Futures /\ Found /\ Streak /\ batch # <<>>
  BY DEF SInv, IInv, LifecycleInv, QueuedKnown, Enqueue
<1>2. /\ sched = "enqueue" /\ batch' = Tail(batch)
      /\ sched' = IF Tail(batch) = <<>> THEN "pick" ELSE "enqueue"
      /\ UNCHANGED <<status, spawnPc, commands, task, current, running>>
      /\ UNCHANGED <<stopping, urgentStreak, urgentRun, completed, groupRunning, ticking>>
  BY DEF Enqueue, cells, clients, tasks, slots
<1>3. /\ batch \in Seq(Workers) /\ normal \in Seq(Workers) /\ urgent \in Seq(Workers)
      /\ Distinct(batch) /\ Distinct(normal) /\ Distinct(urgent) /\ Head(batch) \in Workers
      /\ Items(batch) \cap (Items(normal) \cup Items(urgent)) = {} /\ Items(normal) \cap Items(urgent) = {}
  BY <1>1, HeadTailProperties DEF TypeOK, Placement
<1>4. /\ Items(batch) = Items(batch)' \cup {Head(batch)} /\ Head(batch) \notin Items(batch)'
      /\ Distinct(batch)' /\ Head(batch) \in Items(batch)
  BY <1>1, <1>2, <1>3, TailItems
<1>5. /\ Distinct(normal)' /\ Distinct(urgent)'
      /\ \/ Items(normal)' = Items(normal) \cup {Head(batch)} /\ Items(urgent)' = Items(urgent)
         \/ Items(normal)' = Items(normal) /\ Items(urgent)' = Items(urgent) \cup {Head(batch)}
  <2>1. CASE Head(batch) \in UrgentWorkers
    <3>1. urgent' = Append(urgent, Head(batch)) /\ normal' = normal
      BY <2>1 DEF Enqueue
    <3> QED BY <1>3, <1>4, <3>1, AppendItems
  <2>2. CASE Head(batch) \notin UrgentWorkers
    <3>1. normal' = Append(normal, Head(batch)) /\ urgent' = urgent
      BY <2>2 DEF Enqueue
    <3> QED BY <1>3, <1>4, <3>1, AppendItems
  <2> QED BY <2>1, <2>2
<1>6. /\ InHand = {} /\ InHand' = {} /\ Sending' = Sending /\ ActiveWorkers' = ActiveWorkers
      /\ InChannel' = InChannel /\ ChannelOnce'
  BY <1>1, <1>2 DEF InHand, Launching, Sending, Ids, ActiveWorkers, InChannel, Placement, ChannelOnce, Starts
<1>7. Queues' = Queues /\ Waiting' = Waiting
  BY <1>4, <1>5, <1>6 DEF Queues, Waiting
<1>8. Placement'
  <2>1. /\ InChannel' \cap (Queues' \cup InHand') = {} /\ Queues' \cap InHand' = {}
    BY <1>1, <1>6, <1>7 DEF Placement
  <2>2. /\ Items(batch)' \cap (Items(normal)' \cup Items(urgent)') = {}
        /\ Items(normal)' \cap Items(urgent)' = {}
    BY <1>3, <1>4, <1>5
  <2>3. /\ \A w \in Waiting' : task'[w] = "none"
        /\ \A b \in Batches : spawnPc'[b] # "ok" => \A w \in Ids(b)' : w \notin Waiting' /\ task'[w] = "none"
    BY <1>1, <1>2, <1>7 DEF Placement, Ids
  <2> QED BY <1>4, <1>5, <1>6, <2>1, <2>2, <2>3 DEF Placement
<1>9. Limits'
  BY <1>1, <1>2, LimitsFrame DEF Limits, Launching
<1>10. Futures'
  BY <1>1, <1>2 DEF Futures, Live
<1>11. Found' /\ Streak'
  BY <1>1, <1>2, <1>6, <1>7 DEF Found, Streak, IsTerminal
<1> QED BY <1>8, <1>9, <1>10, <1>11 DEF Rest

LEMMA ReceiveCancelRest ==
  ASSUME SInv, ReceiveCancel
  PROVE  Rest'
<1>1. /\ TypeOK /\ Placement /\ Limits /\ Futures /\ Found /\ Streak
  BY DEF SInv, IInv
<1>2. /\ sched = "select" /\ sched' = "pick" /\ commands # <<>> /\ commands' = Tail(commands)
      /\ Head(commands).op = "Cancel"
      /\ UNCHANGED <<status, spawnPc, batch, normal, urgent, task, current, running>>
      /\ UNCHANGED <<stopping, urgentStreak, urgentRun, completed, groupRunning, ticking>>
  BY DEF ReceiveCancel, Receives, cells, clients, queues, tasks
<1>3. ChannelOnce' /\ InChannel = InChannel'
  BY <1>1, <1>2, ChannelTail DEF Placement, Sent
<1>4. /\ InHand = {} /\ InHand' = {} /\ Sending' = Sending /\ ActiveWorkers' = ActiveWorkers
      /\ Queues' = Queues
  BY <1>2 DEF InHand, Launching, Sending, Ids, ActiveWorkers, Queues
<1>5. Placement'
  BY <1>1, <1>2, <1>3, <1>4, PlacesShrink DEF Placement
<1>6. Limits'
  BY <1>1, <1>2, LimitsFrame DEF Limits, Launching
<1>7. Futures'
  BY <1>1, <1>2 DEF Futures, Live
<1>8. Found' /\ Streak'
  BY <1>1, <1>2, <1>3, <1>4 DEF Found, Streak, IsTerminal, Waiting
<1> QED BY <1>5, <1>6, <1>7, <1>8 DEF Rest

LEMMA StopRest ==
  ASSUME SInv, ReceiveShutdown \/ ReceiveNone
  PROVE  Rest'
<1>1. /\ TypeOK /\ Placement /\ Limits /\ Futures /\ Found /\ Streak
  BY DEF SInv, IInv
<1>2. /\ sched = "select" /\ sched' \in {"pick", "deadlocked"} /\ stopping'
      /\ normal' = <<>> /\ urgent' = <<>>
      /\ UNCHANGED <<status, spawnPc, batch, task, current, running>>
      /\ UNCHANGED <<urgentStreak, urgentRun, completed, groupRunning, ticking>>
  BY DEF ReceiveShutdown, ReceiveNone, Receives, StopScheduling, clients, tasks
<1>3. ChannelOnce' /\ InChannel' \subseteq InChannel
  <2>1. CASE ReceiveShutdown
    BY <1>1, <2>1, ChannelTail DEF ReceiveShutdown, Receives, Placement
  <2>2. CASE ReceiveNone
    BY <1>1, <2>2 DEF ReceiveNone, Placement, ChannelOnce, InChannel, Starts
  <2> QED BY <2>1, <2>2
<1>4. /\ InHand = {} /\ InHand' = {} /\ Sending' = Sending
      /\ Items(batch)' = Items(batch) /\ Items(normal)' = {} /\ Items(urgent)' = {}
      /\ Distinct(normal)' /\ Distinct(urgent)' /\ Queues' \subseteq Queues
  BY <1>2 DEF InHand, Launching, Sending, Ids, Queues, Items, Distinct
<1>5. Placement'
  BY <1>1, <1>2, <1>3, <1>4, PlacesShrink DEF Placement
<1>6. Limits'
  BY <1>1, <1>2, LimitsFrame DEF Limits, Launching
<1>7. Futures'
  BY <1>1, <1>2 DEF Futures, Live
<1>8. Found'
  BY <1>1, <1>2 DEF Found
<1>9. Streak'
  BY <1>1, <1>2, <1>3, <1>4 DEF Streak, IsTerminal
<1> QED BY <1>5, <1>6, <1>7, <1>8, <1>9 DEF Rest

-----------------------------------------------------------------------------
(* scheduler_loop: outcomes, the interval.                                 *)

\* A slot is given back: its group's counter goes down by the one it counted.
LEMMA ReleaseLimits ==
  ASSUME TypeOK, Limits, NEW w \in running, Release(w)
  PROVE  /\ running' = running \ {w}
         /\ Cardinality(running') <= GlobalConcurrency
         /\ \A g \in Groups : /\ groupRunning'[g] = Cardinality(InGroup(g)')
                              /\ groupRunning'[g] <= PerGroupConcurrency
<1>1. running' = running \ {w} /\ w \in Workers
  BY DEF Release, TypeOK
<1>2. Cardinality(running') <= GlobalConcurrency
  <2>1. Cardinality(running') = Cardinality(running) - 1 /\ Cardinality(running) <= GlobalConcurrency
    BY <1>1, SlotsFinite, FS_RemoveElement DEF Limits
  <2> QED BY <2>1, SlotsFinite, ConfigAssumption
<1>3. ASSUME NEW g \in Groups
      PROVE  groupRunning'[g] = Cardinality(InGroup(g)') /\ groupRunning'[g] <= PerGroupConcurrency
  <2>0. groupRunning[g] = Cardinality(InGroup(g)) /\ groupRunning[g] <= PerGroupConcurrency
        /\ groupRunning[g] \in Nat
    BY DEF Limits, TypeOK
  <2>1. CASE GroupOf[w] = g
    <3>1. InGroup(g)' = InGroup(g) \ {w} /\ w \in InGroup(g)
      BY <1>1, <2>1 DEF InGroup
    <3>2. Cardinality(InGroup(g)') = Cardinality(InGroup(g)) - 1 /\ Cardinality(InGroup(g)) # 0
      BY <3>1, SlotsFinite, FS_RemoveElement, FS_EmptySet
    <3>3. groupRunning'[g] = groupRunning[g] - 1
      BY <2>0, <2>1, <3>2, WorkloadAssumption DEF Release, TypeOK
    <3> QED BY <2>0, <3>2, <3>3, ConfigAssumption
  <2>2. CASE GroupOf[w] # g
    <3>1. InGroup(g)' = InGroup(g)
      BY <1>1, <2>2 DEF InGroup
    <3>2. groupRunning'[g] = groupRunning[g]
      BY <1>1, <2>2, WorkloadAssumption DEF Release, TypeOK
    <3> QED BY <2>0, <3>1, <3>2
  <2> QED BY <2>1, <2>2
<1> QED BY <1>1, <1>2, <1>3

\* A worker that has a future waits nowhere.
LEMMA FutureNotWaiting ==
  ASSUME Placement, NEW w, task[w] # "none"
  PROVE  w \notin Waiting /\ w \notin Sending
BY DEF Placement, Sending

LEMMA ReceiveCompletedRest ==
  ASSUME SInv, ReceiveCompleted
  PROVE  Rest'
<1>1. /\ TypeOK /\ IInv /\ Placement /\ Limits /\ Futures /\ Found /\ Streak
  BY DEF SInv, IInv
<1>2. /\ sched = "select" /\ completed # <<>> /\ completed' = Tail(completed)
      /\ UNCHANGED <<spawnPc, commands, batch, normal, urgent, current>>
      /\ UNCHANGED <<stopping, urgentStreak, urgentRun, ticking>>
  BY DEF ReceiveCompleted, clients, queues
<1>3. /\ \A i \in DOMAIN completed' : \E k \in DOMAIN completed : completed'[i] = completed[k]
      /\ \A k \in DOMAIN completed \ {1} : k - 1 \in DOMAIN completed' /\ completed'[k - 1] = completed[k]
      /\ 1 \in DOMAIN completed /\ Head(completed) = completed[1]
      /\ completed[1] \in Workers \X Outcomes
  <2>1. completed \in Seq(Workers \X Outcomes)
    BY <1>1 DEF TypeOK
  <2>2. /\ Len(completed) \in Nat \ {0} /\ DOMAIN completed = 1 .. Len(completed)
        /\ Tail(completed) \in Seq(Workers \X Outcomes) /\ Len(Tail(completed)) = Len(completed) - 1
        /\ DOMAIN Tail(completed) = 1 .. (Len(completed) - 1)
        /\ \A i \in 1 .. (Len(completed) - 1) : Tail(completed)[i] = completed[i + 1]
        /\ Head(completed) = completed[1]
    BY <1>2, <2>1, HeadTailProperties, LenProperties, EmptySeq
  <2>3. \A i \in DOMAIN completed' : i + 1 \in DOMAIN completed /\ completed'[i] = completed[i + 1]
    BY <1>2, <2>2
  <2>4. \A k \in DOMAIN completed \ {1} :
          k - 1 \in DOMAIN completed' /\ completed'[k - 1] = completed[k]
    <3>1. ASSUME NEW k \in DOMAIN completed \ {1}
          PROVE  k - 1 \in 1 .. (Len(completed) - 1) /\ k = (k - 1) + 1
      BY <2>2
    <3> QED BY <1>2, <2>2, <3>1
  <2>5. 1 \in DOMAIN completed
    BY <2>2
  <2>6. completed[1] \in Workers \X Outcomes
    BY <2>1, <2>5, ElementOfSeq, LenProperties
  <2> QED BY <2>2, <2>3, <2>4, <2>5, <2>6
<1>4. PICK w \in Workers : w = Head(completed)[1] /\ task[w] = "done"
  BY <1>1, <1>3 DEF Futures
<1>5. w \notin Waiting /\ w \notin Sending /\ Sending' = Sending /\ InHand = {} /\ ticking = {}
  BY <1>1, <1>2, <1>4, FutureNotWaiting DEF Sending, Ids, InHand, Launching, Limits
<1>6. \A v \in running \ {w} : Live(v) \/ \E i \in DOMAIN completed' : completed'[i][1] = v
  BY <1>1, <1>2, <1>3, <1>4 DEF Futures
<1>7. CASE w \notin running
  <2>1. sched' = "pick" /\ UNCHANGED <<status, task, running, groupRunning>>
    BY <1>4, <1>7 DEF ReceiveCompleted, slots
  <2>2. InHand' = {} /\ ActiveWorkers' = ActiveWorkers
    BY <2>1 DEF InHand, Launching, ActiveWorkers
  <2>3. Placement' /\ InChannel' = InChannel /\ Queues' = Queues
    BY <1>1, <1>2, <1>5, <2>1, <2>2, PlacesFrame
  <2>4. Limits'
    BY <1>1, <1>2, <1>5, <2>1, LimitsFrame DEF Launching
  <2>5. Futures'
    BY <1>1, <1>3, <1>6, <1>7, <2>1 DEF Futures, Live
  <2>6. Found' /\ Streak'
    BY <1>1, <1>2, <1>5, <2>1, <2>2, <2>3 DEF Found, Streak, Waiting, IsTerminal
  <2> QED BY <2>3, <2>4, <2>5, <2>6 DEF Rest
<1>8. CASE w \in running
  <2>1. PICK ok \in JournalOutcomes :
          /\ Release(w) /\ Finish(w, FinalStatus(w, Head(completed)[2]), ok)
          /\ FailOr("pick", FinishReturnsOk(w, ok))
    BY <1>4, <1>8 DEF ReceiveCompleted
  <2>2. /\ \A v \in Workers : task'[v] = IF ~FinishReturnsOk(w, ok) /\ task[v] = "live" THEN "aborted" ELSE task[v]
        /\ sched' = IF FinishReturnsOk(w, ok) THEN "pick" ELSE "failed"
        /\ InHand' = {}
    BY <2>1 DEF FailOr, InHand, Launching
  <2>3. /\ running' = running \ {w} /\ Cardinality(running') <= GlobalConcurrency
        /\ \A g \in Groups : /\ groupRunning'[g] = Cardinality(InGroup(g)')
                             /\ groupRunning'[g] <= PerGroupConcurrency
    BY <1>1, <1>8, <2>1, ReleaseLimits
  <2>4. /\ \A v \in Workers \ {w} : status'[v] = status[v]
        /\ ActiveWorkers' \subseteq ActiveWorkers
        /\ FinishReturnsOk(w, ok) => w \notin ActiveWorkers'
    BY <1>1, <2>1, FinalStatusType, FinishActive
  <2>5. Placement' /\ InChannel' = InChannel /\ Queues' = Queues
    BY <1>1, <1>2, <1>5, <2>2, PlacesFrame
  <2>6. Limits'
    BY <1>2, <1>5, <2>2, <2>3 DEF Limits, Launching
  <2>7. Futures'
    <3>1. \A v \in Workers : /\ task'[v] = "live" => task[v] = "live"
                             /\ task[v] = "done" => task'[v] = "done"
                             /\ task[v] # "none" => task'[v] # "none"
                             /\ sched' # "failed" => task'[v] = task[v]
      BY <2>2
    <3>2. \A i \in DOMAIN completed' : completed'[i][1] \in Workers /\ task[completed'[i][1]] = "done"
      BY <1>1, <1>3 DEF TypeOK, Futures
    <3>3. running \subseteq Workers
      BY <1>1 DEF TypeOK
    <3>4. /\ \A v \in Workers : Live(v)' => v \in running'
          /\ \A v \in running' : task'[v] # "none"
      BY <1>1, <1>4, <2>3, <3>1, <3>3 DEF Futures, Live
    <3>5. sched' # "failed" =>
            \A v \in running' : Live(v)' \/ \E i \in DOMAIN completed' : completed'[i][1] = v
      BY <1>6, <2>3, <3>1, <3>3 DEF Live
    <3> QED BY <3>1, <3>2, <3>4, <3>5 DEF Futures
  <2>8. Found'
    BY <1>1, <1>2, <1>5, <2>2, <2>3, <2>4, <2>5 DEF Found, Waiting
  <2>9. Streak'
    <3>1. Sending \cup InChannel \cup Queues \subseteq Workers \ {w}
      BY <1>1, <1>5, PlacesKnown DEF Sending, Waiting
    <3> QED BY <1>1, <1>2, <1>5, <2>4, <2>5, <3>1 DEF Streak, IsTerminal
  <2> QED BY <2>5, <2>6, <2>7, <2>8, <2>9 DEF Rest
<1> QED BY <1>7, <1>8

LEMMA TickRest ==
  ASSUME SInv, TickBegin \/ TickEnd \/ \E w \in Workers : TickArm(w)
  PROVE  Rest'
<1>1. /\ TypeOK /\ Placement /\ Limits /\ Futures /\ Found /\ Streak
  BY DEF SInv, IInv
<1>2. /\ sched \in {"select", "tick"} /\ sched' \in {"tick", "pick"} /\ ticking' \subseteq running
      /\ sched' = "pick" => ticking' = {}
      /\ UNCHANGED <<status, spawnPc, commands, batch, normal, urgent, task, current, running>>
      /\ UNCHANGED <<stopping, urgentStreak, urgentRun, completed, groupRunning>>
  BY <1>1 DEF TickBegin, TickEnd, TickArm, Limits, cells, clients, queues, tasks, slots
<1>3. InHand = {} /\ InHand' = {} /\ Sending' = Sending /\ ActiveWorkers' = ActiveWorkers
  BY <1>2 DEF InHand, Launching, Sending, Ids, ActiveWorkers
<1>4. Placement' /\ InChannel' = InChannel /\ Queues' = Queues
  BY <1>1, <1>2, <1>3, PlacesFrame
<1>5. Limits'
  BY <1>1, <1>2 DEF Limits, Launching, InGroup
<1>6. Futures'
  BY <1>1, <1>2 DEF Futures, Live
<1>7. Found' /\ Streak'
  BY <1>1, <1>2, <1>3, <1>4 DEF Found, Streak, Waiting, IsTerminal
<1> QED BY <1>4, <1>5, <1>6, <1>7 DEF Rest

LEMMA TickAbortRest ==
  ASSUME SInv, NEW w \in Workers, TickAbort(w)
  PROVE  Rest'
<1>1. /\ TypeOK /\ IInv /\ Placement /\ Limits /\ Futures /\ Found /\ Streak
  BY DEF SInv, IInv
<1>2. /\ sched = "tick" /\ w \in ticking /\ ticking' = ticking \ {w} /\ w \in running
      /\ UNCHANGED <<spawnPc, commands, batch, normal, urgent, current, completed>>
      /\ UNCHANGED <<stopping, urgentStreak, urgentRun>>
  BY <1>1 DEF TickAbort, clients, queues, Limits
<1>3. PICK ok \in JournalOutcomes :
        /\ Release(w) /\ Finish(w, "Cancelled", ok)
        /\ sched' = IF FinishReturnsOk(w, ok) THEN "tick" ELSE "failed"
        /\ task' = [v \in Workers |->
             IF task[v] = "live" /\ (v = w \/ ~FinishReturnsOk(w, ok)) THEN "aborted" ELSE task[v]]
  BY DEF TickAbort
<1>4. /\ w \notin Waiting /\ w \notin Sending /\ Sending' = Sending /\ InHand = {} /\ InHand' = {}
  BY <1>1, <1>2, <1>3, FutureNotWaiting DEF Sending, Ids, InHand, Launching, Futures
<1>5. /\ running' = running \ {w} /\ Cardinality(running') <= GlobalConcurrency
      /\ \A g \in Groups : /\ groupRunning'[g] = Cardinality(InGroup(g)')
                           /\ groupRunning'[g] <= PerGroupConcurrency
  BY <1>1, <1>2, <1>3, ReleaseLimits
<1>6. /\ \A v \in Workers \ {w} : status'[v] = status[v]
      /\ ActiveWorkers' \subseteq ActiveWorkers
      /\ FinishReturnsOk(w, ok) => w \notin ActiveWorkers'
  BY <1>1, <1>3, FinishActive
<1>7. Placement' /\ InChannel' = InChannel /\ Queues' = Queues
  BY <1>1, <1>2, <1>3, <1>4, PlacesFrame
<1>8. Limits'
  BY <1>1, <1>2, <1>3, <1>5 DEF Limits, Launching
<1>9. Futures'
  <2>1. \A v \in Workers : /\ task'[v] = "live" => task[v] = "live" /\ v # w
                           /\ task[v] = "done" => task'[v] = "done"
                           /\ task[v] # "none" => task'[v] # "none"
                           /\ sched' # "failed" /\ v # w => task'[v] = task[v]
    BY <1>3
  <2>2. \A i \in DOMAIN completed : completed[i][1] \in Workers
    BY <1>1 DEF TypeOK
  <2>3. running \subseteq Workers
    BY <1>1 DEF TypeOK
  <2> QED BY <1>1, <1>2, <1>5, <2>1, <2>2, <2>3 DEF Futures, Live
<1>10. Found'
  BY <1>1, <1>2, <1>3, <1>4, <1>5, <1>6, <1>7 DEF Found, Waiting
<1>11. Streak'
  <2>1. Sending \cup InChannel \cup Queues \subseteq Workers \ {w}
    BY <1>1, <1>4, PlacesKnown DEF Sending, Waiting
  <2> QED BY <1>1, <1>2, <1>4, <1>6, <1>7, <2>1 DEF Streak, IsTerminal
<1> QED BY <1>7, <1>8, <1>9, <1>10, <1>11 DEF Rest

-----------------------------------------------------------------------------
(* Executors and the clock.                                                *)

LEMMA EnvironmentRest ==
  ASSUME SInv, Environment
  PROVE  Rest'
<1>1. /\ TypeOK /\ Placement /\ Limits /\ Futures /\ Found /\ Streak /\ StartedKnown
  BY DEF SInv, IInv, LifecycleInv
<1>2. /\ UNCHANGED <<spawnPc, commands, batch, normal, urgent, current, running, sched>>
      /\ UNCHANGED <<stopping, urgentStreak, urgentRun, groupRunning, ticking>>
  BY DEF Environment, GraceElapses, ExecutorWaits, ExecutorEmits, ExecutorEnds, clients, scheduler,
     queues, slots
<1>3. InHand' = InHand /\ Sending' = Sending
  BY <1>2 DEF InHand, Launching, Sending, Ids
<1>4. /\ ActiveWorkers' = ActiveWorkers
      /\ \A v \in Workers : IsTerminal(v)' <=> IsTerminal(v)
  <2>1. ASSUME NEW w \in Workers, GraceElapses(w) \/ \E outcome \in Outcomes : ExecutorEnds(w, outcome)
        PROVE  status' = status
    BY <2>1 DEF GraceElapses, ExecutorEnds, cells
  <2>2. ASSUME NEW w \in Workers, ExecutorWaits(w) \/ \E over \in BOOLEAN : ExecutorEmits(w, over)
        PROVE  Known(w) /\ (status' = status \/ \E st \in Active : Emit(w, st))
    BY <1>1, <2>2 DEF ExecutorWaits, ExecutorEmits, Executing, StartedKnown, Started, Known
  <2>3. status' = status => /\ ActiveWorkers' = ActiveWorkers
                            /\ \A v \in Workers : IsTerminal(v)' <=> IsTerminal(v)
    BY DEF ActiveWorkers, IsTerminal
  <2> QED BY <1>1, <2>1, <2>2, <2>3, EmitActive DEF Environment
<1>5. Futures' /\ \A w \in Workers : task[w] = "none" => task'[w] = "none"
  <2>1. CASE UNCHANGED <<task, completed>>
    BY <1>1, <1>2, <2>1 DEF Futures, Live
  <2>2. ASSUME NEW w \in Workers, NEW outcome \in Outcomes, ExecutorEnds(w, outcome)
        PROVE  Futures' /\ \A v \in Workers : task[v] = "none" => task'[v] = "none"
    <3>1. /\ task[w] = "live" /\ task'[w] = "done" /\ \A v \in Workers \ {w} : task'[v] = task[v]
          /\ completed' = Append(completed, <<w, outcome>>)
      BY <1>1, <2>2 DEF ExecutorEnds, Executing, TypeOK
    <3>2. /\ DOMAIN completed' = DOMAIN completed \cup {Len(completed) + 1}
          /\ \A i \in DOMAIN completed : completed'[i] = completed[i]
          /\ completed'[Len(completed) + 1] = <<w, outcome>>
          /\ \A i \in DOMAIN completed : completed[i][1] \in Workers
      <4>1. completed \in Seq(Workers \X Outcomes) /\ <<w, outcome>> \in Workers \X Outcomes
        BY <1>1 DEF TypeOK
      <4> QED BY <3>1, <4>1, AppendProperties, LenProperties
    <3>3. running \subseteq Workers
      BY <1>1 DEF TypeOK
    <3>4. /\ \A v \in Workers : Live(v)' => v \in running'
          /\ \A v \in running' : task'[v] # "none"
      BY <1>1, <1>2, <3>1, <3>3 DEF Futures, Live
    <3>5. \A i \in DOMAIN completed' : task'[completed'[i][1]] = "done"
      BY <1>1, <3>1, <3>2 DEF Futures
    <3>6. sched' # "failed" =>
            \A v \in running' : Live(v)' \/ \E i \in DOMAIN completed' : completed'[i][1] = v
      BY <1>1, <1>2, <3>1, <3>2, <3>3 DEF Futures, Live
    <3> QED BY <3>1, <3>4, <3>5, <3>6 DEF Futures
  <2> QED BY <2>1, <2>2 DEF Environment, GraceElapses, ExecutorWaits, ExecutorEmits, scheduler, tasks
<1>6. Placement' /\ InChannel' = InChannel /\ Queues' = Queues
  BY <1>1, <1>2, <1>3, <1>5, PlacesFrame
<1>7. Limits'
  BY <1>1, <1>2, LimitsFrame DEF Limits, Launching
<1>8. Found'
  BY <1>1, <1>2, <1>3, <1>4, <1>6 DEF Found, Waiting
<1>9. Streak'
  <2>1. Sending \cup InChannel \cup Queues \subseteq Workers
    BY <1>1, PlacesKnown DEF Sending, Waiting
  <2> QED BY <1>1, <1>2, <1>3, <1>4, <1>6, <2>1 DEF Streak
<1> QED BY <1>5, <1>6, <1>7, <1>8, <1>9 DEF Rest

-----------------------------------------------------------------------------
(* The theorems.                                                           *)

LEMMA InitSInv == Init => SInv
<1> SUFFICES ASSUME Init PROVE SInv
  OBVIOUS
<1>1. IInv
  BY InitIInv
<1>2. Waiting = {} /\ Sending = {} /\ InChannel = {} /\ Queues = {} /\ InHand = {} /\ ActiveWorkers = {}
  BY DEF Init, Waiting, InChannel, Queues, InHand, Items, Sending, Launching, ActiveWorkers
<1>3. Placement
  <2>1. Items(batch) = {} /\ Items(normal) = {} /\ Items(urgent) = {}
    BY DEF Init, Items
  <2>2. ChannelOnce /\ Distinct(batch) /\ Distinct(normal) /\ Distinct(urgent)
    BY DEF Init, ChannelOnce, Distinct
  <2>3. \A b \in Batches : \A w \in Ids(b) : task[w] = "none"
    BY <1>1, PlacesKnown DEF Init, IInv
  <2> QED BY <1>2, <2>1, <2>2, <2>3 DEF Placement
<1>4. Limits
  <2>1. running = {} /\ ticking = {} /\ ~Launching /\ \A g \in Groups : groupRunning[g] = 0
    BY DEF Init, Launching
  <2>2. Cardinality(running) = 0 /\ \A g \in Groups : Cardinality(InGroup(g)) = 0
    BY <2>1, FS_EmptySet DEF InGroup
  <2>3. 0 <= GlobalConcurrency /\ 0 <= PerGroupConcurrency
    BY ConfigAssumption
  <2> QED BY <2>1, <2>2, <2>3 DEF Limits
<1>5. Futures /\ Found /\ Streak
  BY <1>2, ConfigAssumption DEF Init, Futures, Live, Found, Streak
<1> QED BY <1>1, <1>3, <1>4, <1>5 DEF SInv

LEMMA NextSInv == SInv /\ [Next]_vars => SInv'
<1> SUFFICES ASSUME SInv, [Next]_vars PROVE SInv'
  OBVIOUS
<1>1. IInv'
  BY NextIInv DEF SInv
<1>2. Rest'
  <2>1. CASE Client
    BY <2>1, CallerRest
  <2>2. CASE Scheduler
    BY <2>2, PickRest, PickNoneRest, LaunchInitRest, LaunchCreateErrorRest, LaunchRunRest,
       ReceiveStartBatchRest, EnqueueRest, ReceiveCancelRest, StopRest, ReceiveCompletedRest,
       TickRest, TickAbortRest DEF Scheduler
  <2>3. CASE Environment
    BY <2>3, EnvironmentRest
  <2>4. CASE UNCHANGED vars
    <3>1. UNCHANGED <<commands, scheduler, status, spawnPc>>
      BY <2>4 DEF vars, cells, clients
    <3> QED BY <3>1, IdleCall DEF Sending, Ids
  <2> QED BY <2>1, <2>2, <2>3, <2>4 DEF Next
<1> QED BY <1>1, <1>2 DEF SInv, Rest

\* Every live future holds a slot and every slot is held by a live future or
\* one whose outcome is on its way, and the group counters count the slots,
\* unless the loop has ended on a journal error: no slot leaks and
\* decrement_group's early return on zero is never taken by mistake.
THEOREM SlotsTrackedTheorem == Spec => []SlotsTracked
<1>1. SInv => SlotsTracked
  BY DEF SInv, Futures, Limits, InGroup, SlotsTracked
<1> QED BY <1>1, InitSInv, NextSInv, PTL DEF Spec

\* global_concurrency and per_group_concurrency bound the futures that run,
\* whatever is cancelled, aborted or dropped on an error in between.
THEOREM ConcurrencyBoundedTheorem == Spec => []ConcurrencyBounded
<1>1. ASSUME SInv PROVE ConcurrencyBounded
  <2>1. /\ TypeOK /\ Limits /\ Futures
    BY <1>1 DEF SInv, IInv
  <2>2. {w \in Workers : Live(w)} \in SUBSET running
    BY <2>1 DEF Futures
  <2>3. Cardinality({w \in Workers : Live(w)}) <= Cardinality(running)
    BY <2>1, <2>2, SlotsFinite, FS_Subset
  <2>4. ASSUME NEW g \in Groups
        PROVE  Cardinality({w \in Workers : Live(w) /\ GroupOf[w] = g}) <= PerGroupConcurrency
    <3> DEFINE L == {w \in Workers : Live(w) /\ GroupOf[w] = g}
    <3>1. L \in SUBSET InGroup(g)
      BY <2>1 DEF Futures, InGroup
    <3>2. Cardinality(L) <= Cardinality(InGroup(g)) /\ IsFiniteSet(L)
      BY <2>1, <3>1, SlotsFinite, FS_Subset
    <3>3. Cardinality(L) \in Nat
      BY <3>2, FS_CardinalityType
    <3>4. Cardinality(InGroup(g)) \in Nat /\ Cardinality(InGroup(g)) <= PerGroupConcurrency
      BY <2>1, SlotsFinite DEF Limits
    <3> QED BY <3>2, <3>3, <3>4, ConfigAssumption
  <2>5. Cardinality({w \in Workers : Live(w)}) <= GlobalConcurrency
    <3>1. IsFiniteSet({w \in Workers : Live(w)})
      BY <2>1, <2>2, SlotsFinite, FS_Subset
    <3>2. Cardinality({w \in Workers : Live(w)}) \in Nat
      BY <3>1, FS_CardinalityType
    <3>3. Cardinality(running) \in Nat /\ Cardinality(running) <= GlobalConcurrency
      BY <2>1, SlotsFinite DEF Limits
    <3> QED BY <2>3, <3>2, <3>3, ConfigAssumption
  <2> QED BY <2>4, <2>5 DEF ConcurrencyBounded
<1> QED BY <1>1, InitSInv, NextSInv, PTL DEF Spec

\* launch_ready never creates a second future for a worker: an id is in one
\* place at a time, from the call that sends it to the pop that takes it.
THEOREM LaunchedOnceTheorem == Spec => []LaunchedOnce
<1>1. SInv => LaunchedOnce
  BY DEF SInv, IInv, LifecycleInv, StartedKnown, Placement, Waiting, InHand, LaunchedOnce
<1> QED BY <1>1, InitSInv, NextSInv, PTL DEF Spec

\* Until shutdown every accepted worker that is not settled is where the
\* scheduler will come across it: no pop, rotation, failed launch, abort or
\* late outcome loses one.
THEOREM NothingForgottenTheorem == Spec => []NothingForgotten
<1>1. SInv => NothingForgotten
  BY DEF SInv, Found, Sending, Waiting, InChannel, Queues, InHand, Items, InQueue, NothingForgotten
<1> QED BY <1>1, InitSInv, NextSInv, PTL DEF Spec

\* Without cancel, at most max_urgent_streak urgent jobs are launched in a
\* row past a normal one that could run, for every workload.
THEOREM UrgentBoundedTheorem ==
  ASSUME Cancellers = {}
  PROVE  Spec => []UrgentBounded
<1>1. SInv => UrgentBounded
  BY DEF SInv, Streak, UrgentBounded
<1> QED BY <1>1, InitSInv, NextSInv, PTL DEF Spec
=============================================================================

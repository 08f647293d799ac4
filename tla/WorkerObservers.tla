--------------------------- MODULE WorkerObservers ---------------------------
(***************************************************************************)
(* The observers of one worker in crates/iris-subagent-runtime: wait,      *)
(* wait_blocking_timeout, subscribe and EventSubscription::recv, against   *)
(* the threads that emit events and settle the worker (runtime.rs).        *)
(*                                                                         *)
(* emit and finish change the cell and send to the broadcast channel with  *)
(* the cell locked, then notify without the lock.  tokio's Notify and      *)
(* broadcast channel are external: notified() registers its future before  *)
(* it is polled; a receiver that is more than Capacity messages behind     *)
(* loses the oldest ones (Lagged).                                         *)
(***************************************************************************)
EXTENDS Integers, Sequences

CONSTANTS
  Waiters,      \* tasks that call wait once
  Blockers,     \* threads that call wait_blocking_timeout once
  Subscribers,  \* tasks that call subscribe once and recv until Closed
  Capacity,     \* RuntimeConfig::event_channel_capacity
  MaxEvents,    \* bound: events of the worker
  MaxOthers     \* bound: events of other workers

ASSUME ObserversAssumption ==
  Capacity \in Nat \ {0} /\ MaxEvents \in Nat /\ MaxOthers \in Nat

VARIABLES
  last,       \* sequence of the last event in WorkerState::events
  settled,    \* WorkerState::result is present
  owed,       \* emit or finish has unlocked the cell and not notified yet
  wakeups,    \* calls of notify_waiters so far
  channel,    \* messages sent: the worker's sequences, 0 for another worker
  closed,     \* the sender is dropped with the runtime
  waitPc,     \* where each call of wait stands
  armed,      \* wakeups when the Notified future was made
  blockPc,    \* where each call of wait_blocking_timeout stands
  subPc,      \* where each subscription stands
  replay,     \* EventSubscription::replay
  position,   \* messages the subscription's receiver has consumed
  delivered   \* history: what recv has returned

cell == <<last, settled, owed, wakeups, channel, closed>>
waits == <<waitPc, armed, blockPc>>
subs == <<subPc, replay, position, delivered>>
vars == <<cell, waits, subs>>

Init ==
  /\ last = 1 /\ settled = FALSE /\ owed = 0 /\ wakeups = 0
  /\ channel = <<1>> /\ closed = FALSE
  /\ waitPc = [a \in Waiters |-> "idle"] /\ armed = [a \in Waiters |-> 0]
  /\ blockPc = [b \in Blockers |-> "idle"]
  /\ subPc = [s \in Subscribers |-> "idle"]
  /\ replay = [s \in Subscribers |-> <<>>]
  /\ position = [s \in Subscribers |-> 0]
  /\ delivered = [s \in Subscribers |-> <<>>]

-----------------------------------------------------------------------------
(* The emitting threads.                                                   *)

Emit ==
  /\ ~closed /\ ~settled /\ last < MaxEvents
  /\ last' = last + 1
  /\ channel' = Append(channel, last + 1)
  /\ owed' = owed + 1
  /\ UNCHANGED <<settled, wakeups, closed, waits, subs>>

\* Faulty variants (names in Faulty...) are what the mutation runs put in
\* the place of the definition that follows them.
FaultyFinishSilent ==
  /\ ~closed /\ ~settled
  /\ settled' = TRUE
  /\ last' = last + 2
  /\ channel' = channel \o <<last + 1, last + 2>>
  /\ UNCHANGED <<owed, wakeups, closed, waits, subs>>

\* finish: the result and its two events.
Finish ==
  /\ ~closed /\ ~settled
  /\ settled' = TRUE
  /\ last' = last + 2
  /\ channel' = channel \o <<last + 1, last + 2>>
  /\ owed' = owed + 1
  /\ UNCHANGED <<wakeups, closed, waits, subs>>

FaultyNotifyTasksOnly ==
  /\ owed > 0
  /\ owed' = owed - 1
  /\ wakeups' = wakeups + 1
  /\ UNCHANGED <<last, settled, channel, closed, waits, subs>>

\* notify_all and notify_waiters, after the cell is unlocked.
Notify ==
  /\ owed > 0
  /\ owed' = owed - 1
  /\ wakeups' = wakeups + 1
  /\ blockPc' = [b \in Blockers |-> IF blockPc[b] = "asleep" THEN "awake" ELSE blockPc[b]]
  /\ UNCHANGED <<last, settled, channel, closed, waitPc, armed, subs>>

\* An event of another worker, on the same channel.
EmitOther ==
  /\ ~closed /\ Len(SelectSeq(channel, LAMBDA m : m = 0)) < MaxOthers
  /\ channel' = Append(channel, 0)
  /\ UNCHANGED <<last, settled, owed, wakeups, closed, waits, subs>>

\* The runtime is dropped once nobody is inside it.
Close ==
  /\ settled /\ owed = 0 /\ ~closed
  /\ \A a \in Waiters : waitPc[a] \in {"idle", "ok"}
  /\ \A b \in Blockers : blockPc[b] \in {"idle", "ok", "timeout"}
  /\ \A s \in Subscribers : subPc[s] # "replayed"
  /\ closed' = TRUE
  /\ UNCHANGED <<last, settled, owed, wakeups, channel, waits, subs>>

-----------------------------------------------------------------------------
(* wait: the future is registered before the result is looked at.          *)

WaitArm(a) ==
  /\ waitPc[a] \in {"idle", "woken"} /\ ~closed
  /\ waitPc' = [waitPc EXCEPT ![a] = "armed"]
  /\ armed' = [armed EXCEPT ![a] = wakeups]
  /\ UNCHANGED <<cell, blockPc, subs>>

WaitCheck(a) ==
  /\ waitPc[a] = "armed"
  /\ waitPc' = [waitPc EXCEPT ![a] = IF settled THEN "ok" ELSE "awaiting"]
  /\ UNCHANGED <<cell, armed, blockPc, subs>>

FaultyWaitWokenReturns(a) ==
  /\ waitPc[a] = "awaiting" /\ wakeups > armed[a]
  /\ waitPc' = [waitPc EXCEPT ![a] = "ok"]
  /\ UNCHANGED <<cell, armed, blockPc, subs>>

\* The loop starts again: any event of the worker wakes its waiters.
WaitWoken(a) ==
  /\ waitPc[a] = "awaiting" /\ wakeups > armed[a]
  /\ waitPc' = [waitPc EXCEPT ![a] = "woken"]
  /\ UNCHANGED <<cell, armed, blockPc, subs>>

\* wait_blocking_timeout: the check and the sleep are one critical section.
BlockCheck(b) ==
  /\ blockPc[b] \in {"idle", "awake"} /\ ~closed
  /\ blockPc' = [blockPc EXCEPT ![b] = IF settled THEN "ok" ELSE "asleep"]
  /\ UNCHANGED <<cell, waitPc, armed, subs>>

\* The deadline passes: the result is looked at once more.
BlockTimeout(b) ==
  /\ blockPc[b] = "asleep"
  /\ blockPc' = [blockPc EXCEPT ![b] = IF settled THEN "awake" ELSE "timeout"]
  /\ UNCHANGED <<cell, waitPc, armed, subs>>

-----------------------------------------------------------------------------
(* subscribe and recv.                                                     *)

\* replay_events, under the cell's lock; after_sequence is the caller's.
SubscribeReplay(s, after) ==
  /\ subPc[s] = "idle" /\ ~closed
  /\ subPc' = [subPc EXCEPT ![s] = "replayed"]
  /\ replay' = [replay EXCEPT ![s] = [i \in 1..(last - after) |-> after + i]]
  /\ UNCHANGED <<cell, waits, position, delivered>>

FaultySubscribeFromStart(s) ==
  /\ subPc[s] = "replayed"
  /\ subPc' = [subPc EXCEPT ![s] = "live"]
  /\ position' = [position EXCEPT ![s] = 0]
  /\ UNCHANGED <<cell, waits, replay, delivered>>

\* events.subscribe: the receiver starts at the next message.
SubscribeLive(s) ==
  /\ subPc[s] = "replayed"
  /\ subPc' = [subPc EXCEPT ![s] = "live"]
  /\ position' = [position EXCEPT ![s] = Len(channel)]
  /\ UNCHANGED <<cell, waits, replay, delivered>>

Deliver(s, n) == delivered' = [delivered EXCEPT ![s] = Append(@, n)]

RecvReplay(s) ==
  /\ subPc[s] = "live" /\ replay[s] # <<>>
  /\ Deliver(s, Head(replay[s]))
  /\ replay' = [replay EXCEPT ![s] = Tail(@)]
  /\ UNCHANGED <<cell, waits, subPc, position>>

Behind(s) == Len(channel) - position[s]

\* A message still in the channel: of this worker, or skipped.
RecvLive(s) ==
  /\ subPc[s] = "live" /\ replay[s] = <<>>
  /\ Behind(s) \in 1..Capacity
  /\ position' = [position EXCEPT ![s] = @ + 1]
  /\ IF channel[position[s] + 1] = 0 THEN UNCHANGED delivered
     ELSE Deliver(s, channel[position[s] + 1])
  /\ UNCHANGED <<cell, waits, subPc, replay>>

\* Lagged: recv goes on with the oldest message that is left.
RecvLagged(s) ==
  /\ subPc[s] = "live" /\ replay[s] = <<>> /\ Behind(s) > Capacity
  /\ position' = [position EXCEPT ![s] = Len(channel) - Capacity]
  /\ UNCHANGED <<cell, waits, subPc, replay, delivered>>

RecvClosed(s) ==
  /\ subPc[s] = "live" /\ replay[s] = <<>> /\ Behind(s) = 0 /\ closed
  /\ subPc' = [subPc EXCEPT ![s] = "closed"]
  /\ UNCHANGED <<cell, waits, replay, position, delivered>>

Wait(a) == WaitArm(a) \/ WaitCheck(a) \/ WaitWoken(a)
Receive(s) == SubscribeLive(s) \/ RecvReplay(s) \/ RecvLive(s) \/ RecvLagged(s) \/ RecvClosed(s)

Next ==
  \/ Emit \/ Finish \/ Notify \/ EmitOther \/ Close
  \/ \E a \in Waiters : Wait(a)
  \/ \E b \in Blockers : BlockCheck(b) \/ BlockTimeout(b)
  \/ \E s \in Subscribers : Receive(s) \/ \E n \in 0..last : SubscribeReplay(s, n)

Spec == Init /\ [][Next]_vars

\* Threads run: whoever emitted notifies, callers take their next step.  The
\* deadline of a blocking wait need not exist (timeout None): no fairness.
FairSpec ==
  /\ Spec
  /\ WF_vars(Notify)
  /\ \A a \in Waiters : WF_vars(WaitCheck(a) \/ WaitWoken(a) \/ (waitPc[a] = "woken" /\ WaitArm(a)))
  /\ \A b \in Blockers : WF_vars(blockPc[b] = "awake" /\ BlockCheck(b))
  /\ \A s \in Subscribers : WF_vars(Receive(s))

-----------------------------------------------------------------------------
(* Properties.                                                             *)

\* The values of the variables; wait and wait_blocking_timeout return Ok
\* only with a result to give.
TypeOK ==
  /\ last \in Nat /\ settled \in BOOLEAN /\ closed \in BOOLEAN
  /\ owed \in Nat /\ wakeups \in Nat
  /\ channel \in Seq(Nat)
  /\ waitPc \in [Waiters -> {"idle", "armed", "awaiting", "woken", "ok"}]
  /\ armed \in [Waiters -> Nat]
  /\ blockPc \in [Blockers -> {"idle", "asleep", "awake", "ok", "timeout"}]
  /\ \A a \in Waiters : waitPc[a] = "ok" => settled
  /\ \A b \in Blockers : blockPc[b] = "ok" => settled
  /\ subPc \in [Subscribers -> {"idle", "replayed", "live", "closed"}]
  /\ replay \in [Subscribers -> Seq(Nat)]
  /\ position \in [Subscribers -> Nat]
  /\ delivered \in [Subscribers -> Seq(Nat)]

\* wait loses no wake-up: a caller that is in wait when the worker settles,
\* or later, returns, although finish notifies after it unlocks the cell.
WaitReturns == \A a \in Waiters : (settled /\ waitPc[a] # "idle") ~> waitPc[a] = "ok"

\* Nor does wait_blocking without a deadline.
BlockReturns ==
  \A b \in Blockers : (settled /\ blockPc[b] # "idle") ~> blockPc[b] \in {"ok", "timeout"}

\* recv never returns an event twice, nor an older one after a newer one,
\* across the change from replay to the live channel and across lags.
DeliveredOnce ==
  \A s \in Subscribers : \A i, j \in DOMAIN delivered[s] :
    i < j => delivered[s][i] < delivered[s][j]
=============================================================================

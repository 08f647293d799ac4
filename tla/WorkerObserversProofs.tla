------------------------ MODULE WorkerObserversProofs ------------------------
(* Theorems about WorkerObservers, for any number of callers and messages. *)
EXTENDS WorkerObservers, TLAPS, SequenceTheorems

-----------------------------------------------------------------------------
(* The inductive invariant.                                                *)

Sorted(q) == \A i, j \in DOMAIN q : i < j => q[i] < q[j]
AtMost(q, n) == \A i \in DOMAIN q : q[i] <= n
Before(q, n) == \A i \in DOMAIN q : q[i] < n

\* The worker's sequences are in the channel in order, the last one newest.
ChannelOrdered ==
  /\ AtMost(channel, last)
  /\ \A i, j \in DOMAIN channel :
       i < j /\ channel[i] # 0 /\ channel[j] # 0 => channel[i] < channel[j]

\* What recv has returned comes before what is left of the replay, and both
\* come before what the receiver has still to take from the channel.  Between
\* the replay and events.subscribe nothing has been returned.
SubOrdered(s) ==
  /\ Sorted(delivered[s]) /\ AtMost(delivered[s], last)
  /\ Sorted(replay[s]) /\ AtMost(replay[s], last)
  /\ \A i \in DOMAIN replay[s] : Before(delivered[s], replay[s][i])
  /\ position[s] <= Len(channel)
  /\ subPc[s] \in {"idle", "replayed"} => delivered[s] = <<>>
  /\ subPc[s] \in {"live", "closed"} =>
       \A k \in position[s] + 1 .. Len(channel) : channel[k] # 0 =>
         Before(delivered[s], channel[k]) /\ Before(replay[s], channel[k])

IInv == TypeOK /\ ChannelOrdered /\ \A s \in Subscribers : SubOrdered(s)

-----------------------------------------------------------------------------
(* Sequences.                                                              *)

\* An element larger than all keeps a sequence sorted.
LEMMA AppendSorted ==
  ASSUME NEW q \in Seq(Nat), NEW n \in Nat, Sorted(q), Before(q, n)
  PROVE  Sorted(Append(q, n))
BY AppendProperties DEF Sorted, Before

LEMMA AppendAtMost ==
  ASSUME NEW q \in Seq(Nat), NEW n \in Nat, NEW m \in Nat, AtMost(q, m), n <= m
  PROVE  AtMost(Append(q, n), m)
BY AppendProperties DEF AtMost

LEMMA AtMostMore ==
  ASSUME NEW q \in Seq(Nat), NEW m \in Nat, NEW n \in Nat, AtMost(q, m), m <= n
  PROVE  AtMost(q, n)
<1> SUFFICES ASSUME NEW i \in DOMAIN q PROVE q[i] <= n
  BY DEF AtMost
<1>1. q[i] \in Nat /\ q[i] <= m
  BY LenProperties DEF AtMost
<1> QED BY <1>1

LEMMA AtMostBefore ==
  ASSUME NEW q \in Seq(Nat), NEW m \in Nat, NEW n \in Nat, AtMost(q, m), m < n
  PROVE  Before(q, n)
BY DEF AtMost, Before

\* After an element is appended, all come before what came after both.
LEMMA AppendBefore ==
  ASSUME NEW q \in Seq(Nat), NEW n \in Nat, NEW m \in Nat, Before(q, m), n < m
  PROVE  Before(Append(q, n), m)
BY AppendProperties DEF Before

\* The head of a sorted sequence comes before its tail.
LEMMA TailSorted ==
  ASSUME NEW q \in Seq(Nat), q # <<>>, Sorted(q)
  PROVE  /\ Sorted(Tail(q)) /\ Head(q) \in Nat /\ Tail(q) \in Seq(Nat)
         /\ \A i \in DOMAIN Tail(q) : i + 1 \in DOMAIN q /\ Tail(q)[i] = q[i + 1] /\ Head(q) < Tail(q)[i]
BY HeadTailProperties DEF Sorted

-----------------------------------------------------------------------------
(* The cell: the worker's events, and those of others.                     *)

\* A longer channel, whose new entries are 0 or newer than last, keeps every
\* subscription in order.
LEMMA ChannelGrows ==
  ASSUME IInv, NEW s \in Subscribers, channel' \in Seq(Nat), last' \in Nat, last <= last',
         Len(channel) <= Len(channel'),
         \A k \in 1 .. Len(channel) : channel'[k] = channel[k],
         \A k \in Len(channel) + 1 .. Len(channel') : channel'[k] = 0 \/ last < channel'[k],
         UNCHANGED subs
  PROVE  SubOrdered(s)'
<1>1. /\ delivered' = delivered /\ replay' = replay /\ position' = position /\ subPc' = subPc
      /\ delivered[s] \in Seq(Nat) /\ replay[s] \in Seq(Nat) /\ position[s] \in Nat
      /\ last \in Nat /\ channel \in Seq(Nat) /\ SubOrdered(s)
      /\ Len(channel) \in Nat /\ Len(channel') \in Nat
  BY LenProperties DEF IInv, TypeOK, subs
<1>2. AtMost(delivered[s], last') /\ AtMost(replay[s], last')
  <2>1. AtMost(delivered[s], last) /\ AtMost(replay[s], last)
    BY <1>1 DEF SubOrdered
  <2> QED BY <1>1, <2>1, AtMostMore
<1>3. ASSUME subPc[s] \in {"live", "closed"}, NEW k \in position[s] + 1 .. Len(channel'),
             channel'[k] # 0
      PROVE  Before(delivered[s], channel'[k]) /\ Before(replay[s], channel'[k])
  <2>1. CASE k <= Len(channel)
    <3>1. k \in position[s] + 1 .. Len(channel) /\ channel'[k] = channel[k]
      BY <1>1, <2>1
    <3> QED BY <1>1, <1>3, <3>1 DEF SubOrdered
  <2>2. CASE k > Len(channel)
    <3>1. last < channel'[k] /\ channel'[k] \in Nat
      BY <1>1, <1>3, <2>2
    <3> QED BY <1>1, <3>1, AtMostBefore DEF SubOrdered
  <2> QED BY <1>1, <2>1, <2>2
<1> QED BY <1>1, <1>2, <1>3 DEF SubOrdered

LEMMA CellStep ==
  ASSUME IInv, Emit \/ Finish \/ EmitOther
  PROVE  IInv'
<1> USE DEF IInv
<1>1. CASE Emit
  <2>1. /\ last \in Nat /\ channel \in Seq(Nat) /\ last + 1 \in Nat
        /\ last' = last + 1 /\ channel' = Append(channel, last + 1) /\ UNCHANGED subs
    BY <1>1 DEF Emit, TypeOK
  <2>2. /\ channel' \in Seq(Nat) /\ Len(channel') = Len(channel) + 1
        /\ \A k \in 1 .. Len(channel) : channel'[k] = channel[k]
        /\ channel'[Len(channel) + 1] = last + 1
    BY <2>1, AppendProperties
  <2>3. TypeOK'
    BY <1>1, <2>1, <2>2 DEF Emit, TypeOK, waits, subs
  <2>4. ChannelOrdered'
    BY <2>1, <2>2 DEF ChannelOrdered, AtMost
  <2>5. \A s \in Subscribers : SubOrdered(s)'
    BY <2>1, <2>2, ChannelGrows
  <2> QED BY <2>3, <2>4, <2>5
<1>2. CASE Finish
  <2>1. /\ last \in Nat /\ channel \in Seq(Nat) /\ <<last + 1, last + 2>> \in Seq(Nat)
        /\ last' = last + 2 /\ channel' = channel \o <<last + 1, last + 2>> /\ UNCHANGED subs
    BY <1>2 DEF Finish, TypeOK
  <2>2. /\ channel' \in Seq(Nat) /\ Len(channel') = Len(channel) + 2
        /\ \A k \in 1 .. Len(channel) : channel'[k] = channel[k]
        /\ channel'[Len(channel) + 1] = last + 1 /\ channel'[Len(channel) + 2] = last + 2
    BY <2>1, ConcatProperties
  <2>3. TypeOK'
    BY <1>2, <2>1, <2>2 DEF Finish, TypeOK, waits, subs
  <2>4. ChannelOrdered'
    <3>1. /\ DOMAIN channel = 1 .. Len(channel) /\ Len(channel) \in Nat
          /\ DOMAIN channel' = DOMAIN channel \cup {Len(channel) + 1, Len(channel) + 2}
          /\ \A i \in DOMAIN channel : channel[i] \in Nat /\ channel[i] <= last
      BY <2>1, <2>2, LenProperties DEF ChannelOrdered, AtMost
    <3>2. AtMost(channel', last')
      BY <2>1, <2>2, <3>1 DEF AtMost
    <3>3. ASSUME NEW i \in DOMAIN channel', NEW j \in DOMAIN channel', i < j,
                 channel'[i] # 0, channel'[j] # 0
          PROVE  channel'[i] < channel'[j]
      <4>1. CASE j \in DOMAIN channel
        <5>1. i \in DOMAIN channel /\ channel'[i] = channel[i] /\ channel'[j] = channel[j]
          BY <2>2, <3>1, <3>3, <4>1
        <5> QED BY <3>3, <4>1, <5>1 DEF ChannelOrdered
      <4>2. CASE j = Len(channel) + 1
        <5>1. i \in DOMAIN channel /\ channel'[i] = channel[i] /\ channel'[j] = last + 1
          BY <2>2, <3>1, <3>3, <4>2
        <5>2. last \in Nat /\ channel[i] \in Nat /\ channel[i] <= last
          BY <2>1, <3>1, <5>1
        <5> QED BY <5>1, <5>2
      <4>3. CASE j = Len(channel) + 2
        <5>0. last \in Nat
          BY <2>1
        <5>1. channel'[j] = last + 2
          BY <2>2, <4>3
        <5>2. channel'[i] \in Nat /\ channel'[i] <= last + 1
          <6>1. CASE i \in DOMAIN channel
            <7>1. channel'[i] = channel[i] /\ channel[i] \in Nat /\ channel[i] <= last
              BY <2>2, <3>1, <6>1
            <7> QED BY <2>1, <7>1
          <6>2. CASE i = Len(channel) + 1
            BY <2>1, <2>2, <6>2
          <6> QED BY <3>1, <3>3, <4>3, <6>1, <6>2
        <5> QED BY <5>0, <5>1, <5>2
      <4> QED BY <3>1, <4>1, <4>2, <4>3
    <3> QED BY <3>2, <3>3 DEF ChannelOrdered
  <2>5. \A s \in Subscribers : SubOrdered(s)'
    BY <2>1, <2>2, ChannelGrows
  <2> QED BY <2>3, <2>4, <2>5
<1>3. CASE EmitOther
  <2>1. /\ last \in Nat /\ channel \in Seq(Nat) /\ last' = last
        /\ channel' = Append(channel, 0) /\ UNCHANGED subs
    BY <1>3 DEF EmitOther, TypeOK
  <2>2. /\ channel' \in Seq(Nat) /\ Len(channel') = Len(channel) + 1
        /\ \A k \in 1 .. Len(channel) : channel'[k] = channel[k]
        /\ channel'[Len(channel) + 1] = 0
    BY <2>1, AppendProperties
  <2>3. TypeOK'
    BY <1>3, <2>1, <2>2 DEF EmitOther, TypeOK, waits, subs
  <2>4. ChannelOrdered'
    BY <2>1, <2>2 DEF ChannelOrdered, AtMost
  <2>5. \A s \in Subscribers : SubOrdered(s)'
    BY <2>1, <2>2, ChannelGrows
  <2> QED BY <2>3, <2>4, <2>5
<1> QED BY <1>1, <1>2, <1>3

-----------------------------------------------------------------------------
(* Steps that leave the subscriptions and the channel alone.               *)

LEMMA WaitStep ==
  ASSUME IInv,
         \/ Notify \/ Close \/ (\E a \in Waiters : Wait(a))
         \/ \E b \in Blockers : BlockCheck(b) \/ BlockTimeout(b)
  PROVE  IInv'
<1>1. UNCHANGED <<last, channel, subPc, replay, position, delivered>>
  BY DEF Notify, Close, Wait, WaitArm, WaitCheck, WaitWoken, BlockCheck, BlockTimeout, cell, subs
<1>2. TypeOK'
  <2> USE DEF IInv, TypeOK, cell, waits, subs
  <2>1. CASE Notify
    BY <2>1 DEF Notify
  <2>2. CASE Close
    BY <2>2 DEF Close
  <2>3. ASSUME NEW a \in Waiters, Wait(a) PROVE TypeOK'
    <3>1. /\ UNCHANGED <<cell, blockPc, subs>>
          /\ waitPc' \in [Waiters -> {"idle", "armed", "awaiting", "woken", "ok"}]
          /\ armed' \in [Waiters -> Nat]
      BY <2>3 DEF Wait, WaitArm, WaitCheck, WaitWoken
    <3>2. \A x \in Waiters : waitPc'[x] = "ok" => settled
      BY <2>3 DEF Wait, WaitArm, WaitCheck, WaitWoken
    <3> QED BY <3>1, <3>2
  <2>4. ASSUME NEW b \in Blockers, BlockCheck(b) \/ BlockTimeout(b) PROVE TypeOK'
    <3>1. /\ UNCHANGED <<cell, waitPc, armed, subs>>
          /\ blockPc' \in [Blockers -> {"idle", "asleep", "awake", "ok", "timeout"}]
      BY <2>4 DEF BlockCheck, BlockTimeout
    <3>2. \A x \in Blockers : blockPc'[x] = "ok" => settled
      BY <2>4 DEF BlockCheck, BlockTimeout
    <3> QED BY <3>1, <3>2
  <2> QED BY <2>1, <2>2, <2>3, <2>4
<1>3. ChannelOrdered' /\ \A s \in Subscribers : SubOrdered(s)'
  BY <1>1 DEF IInv, ChannelOrdered, SubOrdered
<1> QED BY <1>2, <1>3 DEF IInv

-----------------------------------------------------------------------------
(* subscribe and recv.                                                     *)

\* A step of one subscription leaves the others in order.
LEMMA OthersOrdered ==
  ASSUME IInv, NEW s \in Subscribers, UNCHANGED <<cell, waits>>, TypeOK', SubOrdered(s)',
         \A r \in Subscribers \ {s} : /\ subPc'[r] = subPc[r] /\ replay'[r] = replay[r]
                                      /\ position'[r] = position[r] /\ delivered'[r] = delivered[r]
  PROVE  IInv'
BY DEF IInv, ChannelOrdered, SubOrdered, cell

LEMMA SubscribeStep ==
  ASSUME IInv, NEW s \in Subscribers,
         SubscribeLive(s) \/ \E n \in 0 .. last : SubscribeReplay(s, n)
  PROVE  IInv'
<1> USE DEF IInv
<1>1. ASSUME NEW n \in 0 .. last, SubscribeReplay(s, n) PROVE IInv'
  <2> DEFINE q == [i \in 1 .. (last - n) |-> n + i]
  <2>1. last \in Nat /\ last - n \in Nat /\ n \in Nat
    BY DEF TypeOK
  <2>2. q \in Seq(Nat) /\ DOMAIN q = 1 .. (last - n) /\ \A i \in DOMAIN q : q[i] = n + i
    BY <2>1
  <2>3. Sorted(q) /\ AtMost(q, last)
    BY <2>1, <2>2 DEF Sorted, AtMost
  <2> HIDE DEF q
  <2>4. /\ subPc' = [subPc EXCEPT ![s] = "replayed"] /\ replay' = [replay EXCEPT ![s] = q]
        /\ UNCHANGED <<cell, waits, position, delivered>> /\ subPc[s] = "idle"
    BY <1>1 DEF SubscribeReplay, q
  <2>5. TypeOK'
    BY <2>2, <2>4 DEF TypeOK, cell, waits
  <2>6. SubOrdered(s)'
    BY <2>3, <2>4 DEF TypeOK, SubOrdered, Before, cell
  <2> QED BY <2>4, <2>5, <2>6, OthersOrdered DEF TypeOK
<1>2. CASE SubscribeLive(s)
  <2>1. TypeOK'
    BY <1>2 DEF SubscribeLive, TypeOK, cell, waits
  <2>2. SubOrdered(s)'
    BY <1>2 DEF SubscribeLive, TypeOK, SubOrdered, Before, cell
  <2> QED BY <1>2, <2>1, <2>2, OthersOrdered DEF SubscribeLive, TypeOK
<1> QED BY <1>1, <1>2

LEMMA RecvReplayStep ==
  ASSUME IInv, NEW s \in Subscribers, RecvReplay(s)
  PROVE  IInv'
<1> DEFINE d == delivered[s]  q == replay[s]
<1>1. /\ d \in Seq(Nat) /\ q \in Seq(Nat) /\ q # <<>> /\ last \in Nat /\ subPc[s] = "live"
      /\ Sorted(d) /\ Sorted(q) /\ AtMost(d, last) /\ AtMost(q, last)
      /\ \A i \in DOMAIN q : Before(d, q[i])
      /\ \A k \in position[s] + 1 .. Len(channel) : channel[k] # 0 =>
           Before(d, channel[k]) /\ Before(q, channel[k])
      /\ delivered' = [delivered EXCEPT ![s] = Append(d, Head(q))]
      /\ replay' = [replay EXCEPT ![s] = Tail(q)]
      /\ UNCHANGED <<cell, waits, subPc, position>>
  BY DEF IInv, TypeOK, SubOrdered, RecvReplay, Deliver
<1>2. delivered[s]' = Append(d, Head(q)) /\ replay[s]' = Tail(q)
  BY <1>1 DEF IInv, TypeOK
<1>3. /\ Sorted(Tail(q)) /\ Head(q) \in Nat /\ Tail(q) \in Seq(Nat)
      /\ Head(q) = q[1] /\ 1 \in DOMAIN q
      /\ \A i \in DOMAIN Tail(q) :
           i + 1 \in DOMAIN q /\ Tail(q)[i] = q[i + 1] /\ Head(q) < Tail(q)[i]
  BY <1>1, TailSorted, HeadTailProperties
<1> HIDE DEF d, q
<1>4. /\ Append(d, Head(q)) \in Seq(Nat) /\ DOMAIN d = 1 .. Len(d) /\ Len(d) \in Nat
      /\ DOMAIN Append(d, Head(q)) = 1 .. Len(d) + 1
      /\ \A i \in 1 .. Len(d) : Append(d, Head(q))[i] = d[i]
      /\ Append(d, Head(q))[Len(d) + 1] = Head(q)
  BY <1>1, <1>3, AppendProperties
<1>5. Sorted(Append(d, Head(q))) /\ AtMost(Append(d, Head(q)), last)
  BY <1>1, <1>3, AppendSorted, AppendAtMost DEF AtMost
<1>6. AtMost(Tail(q), last)
  BY <1>1, <1>3 DEF AtMost
<1>7. \A i \in DOMAIN Tail(q) : Before(Append(d, Head(q)), Tail(q)[i])
  <2> SUFFICES ASSUME NEW i \in DOMAIN Tail(q) PROVE Before(Append(d, Head(q)), Tail(q)[i])
    OBVIOUS
  <2>1. i + 1 \in DOMAIN q /\ Tail(q)[i] = q[i + 1] /\ Head(q) < Tail(q)[i]
    BY <1>3
  <2>2. Tail(q)[i] \in Nat
    BY <1>3
  <2>3. Before(d, Tail(q)[i])
    BY <1>1, <2>1
  <2> QED BY <1>1, <1>3, <2>1, <2>2, <2>3, AppendBefore
<1>8. \A k \in position[s] + 1 .. Len(channel) : channel[k] # 0 =>
        Before(Append(d, Head(q)), channel[k]) /\ Before(Tail(q), channel[k])
  <2> SUFFICES ASSUME NEW k \in position[s] + 1 .. Len(channel), channel[k] # 0
               PROVE  Before(Append(d, Head(q)), channel[k]) /\ Before(Tail(q), channel[k])
    OBVIOUS
  <2>1. channel[k] \in Nat
    BY LenProperties DEF IInv, TypeOK
  <2>2. Before(d, channel[k]) /\ Before(q, channel[k])
    BY <1>1
  <2>3. Head(q) < channel[k] /\ Before(Tail(q), channel[k])
    BY <1>3, <2>2 DEF Before
  <2> QED BY <1>1, <1>3, <2>1, <2>2, <2>3, AppendBefore
<1>9. TypeOK'
  BY <1>1, <1>3, <1>4 DEF IInv, TypeOK, cell, waits
<1>10. SubOrdered(s)'
  <2>1. /\ UNCHANGED <<last, channel>> /\ position[s]' = position[s] /\ subPc[s]' = "live"
        /\ position[s] <= Len(channel)
    BY <1>1 DEF IInv, SubOrdered, cell
  <2> QED BY <1>2, <1>3, <1>5, <1>6, <1>7, <1>8, <2>1 DEF SubOrdered
<1> QED BY <1>1, <1>9, <1>10, OthersOrdered DEF IInv, TypeOK

LEMMA RecvLiveStep ==
  ASSUME IInv, NEW s \in Subscribers, RecvLive(s) \/ RecvLagged(s) \/ RecvClosed(s)
  PROVE  IInv'
<1> USE DEF IInv
<1>1. CASE RecvLive(s)
  <2> DEFINE d == delivered[s]  k == position[s] + 1
  <2>1. /\ subPc[s] = "live" /\ replay[s] = <<>> /\ d \in Seq(Nat) /\ channel \in Seq(Nat)
        /\ position[s] \in Nat /\ last \in Nat /\ k \in position[s] + 1 .. Len(channel)
        /\ k \in DOMAIN channel /\ channel[k] \in Nat
        /\ position' = [position EXCEPT ![s] = k]
        /\ delivered' = IF channel[k] = 0 THEN delivered ELSE [delivered EXCEPT ![s] = Append(d, channel[k])]
        /\ UNCHANGED <<cell, waits, subPc, replay>>
    <3>1. /\ Behind(s) \in 1 .. Capacity /\ Len(channel) \in Nat /\ position[s] \in Nat
          /\ channel \in Seq(Nat) /\ Capacity \in Nat
      BY <1>1, LenProperties, ObserversAssumption DEF RecvLive, TypeOK
    <3>2. k \in position[s] + 1 .. Len(channel) /\ k \in DOMAIN channel /\ channel[k] \in Nat
      BY <3>1, LenProperties DEF Behind
    <3> QED BY <1>1, <3>1, <3>2 DEF RecvLive, Deliver, TypeOK
  <2>2. TypeOK'
    <3>1. Append(d, channel[k]) \in Seq(Nat) /\ k \in Nat
      BY <2>1, AppendProperties
    <3>2. delivered' \in [Subscribers -> Seq(Nat)] /\ position' \in [Subscribers -> Nat]
      BY <2>1, <3>1 DEF TypeOK
    <3> QED BY <2>1, <3>2 DEF TypeOK, cell, waits
  <2>3. CASE channel[k] = 0
    <3>1. SubOrdered(s)'
      BY <2>1, <2>3 DEF TypeOK, SubOrdered, cell
    <3> QED BY <2>1, <2>2, <3>1, OthersOrdered DEF TypeOK
  <2>4. CASE channel[k] # 0
    <3> DEFINE e == Append(d, channel[k])
    <3>1. Before(d, channel[k]) /\ Sorted(d) /\ AtMost(d, last) /\ channel[k] <= last
      BY <2>1, <2>4 DEF SubOrdered, ChannelOrdered, AtMost
    <3>2. Sorted(e) /\ AtMost(e, last) /\ e \in Seq(Nat)
      BY <2>1, <3>1, AppendSorted, AppendAtMost, AppendProperties
    <3>3. ASSUME NEW j \in k + 1 .. Len(channel), channel[j] # 0 PROVE Before(e, channel[j])
      <4>1. channel[k] < channel[j] /\ Before(d, channel[j]) /\ channel[j] \in Nat
        <5>1. /\ j \in position[s] + 1 .. Len(channel) /\ j \in DOMAIN channel /\ k < j
              /\ channel[j] \in Nat
          <6>1. DOMAIN channel = 1 .. Len(channel) /\ Len(channel) \in Nat
            BY <2>1, LenProperties
          <6>2. j \in Int /\ k < j /\ j <= Len(channel) /\ position[s] < j
            BY <2>1, <6>1
          <6> QED BY <2>1, <6>1, <6>2
        <5> QED BY <2>1, <2>4, <3>3, <5>1 DEF ChannelOrdered, SubOrdered
      <4> QED BY <2>1, <4>1, AppendBefore
    <3>4. delivered'[s] = e /\ position'[s] = k /\ replay'[s] = <<>> /\ subPc'[s] = "live"
      BY <2>1, <2>4 DEF TypeOK
    <3> HIDE DEF e, k
    <3>5. SubOrdered(s)'
      <4>1. UNCHANGED <<last, channel>> /\ k <= Len(channel)
        BY <2>1, LenProperties DEF cell
      <4>2. /\ Sorted(<<>>) /\ AtMost(<<>>, last)
            /\ \A n : Before(<<>>, n)
        BY DEF Sorted, AtMost, Before
      <4> QED BY <3>2, <3>3, <3>4, <4>1, <4>2 DEF SubOrdered
    <3> QED BY <2>1, <2>2, <2>4, <3>5, OthersOrdered DEF TypeOK, k
  <2> QED BY <2>3, <2>4
<1>2. CASE RecvLagged(s)
  <2>1. /\ subPc[s] = "live" /\ channel \in Seq(Nat) /\ position[s] \in Nat
        /\ position' = [position EXCEPT ![s] = Len(channel) - Capacity]
        /\ Len(channel) - Capacity \in Nat /\ position[s] < Len(channel) - Capacity
        /\ Len(channel) - Capacity <= Len(channel)
        /\ UNCHANGED <<cell, waits, subPc, replay, delivered>>
    BY <1>2, ObserversAssumption DEF RecvLagged, Behind, TypeOK
  <2>2. TypeOK'
    BY <2>1 DEF TypeOK, cell, waits
  <2>3. SubOrdered(s)'
    BY <2>1 DEF TypeOK, SubOrdered, cell
  <2> QED BY <2>1, <2>2, <2>3, OthersOrdered DEF TypeOK
<1>3. CASE RecvClosed(s)
  <2>1. TypeOK'
    BY <1>3 DEF RecvClosed, TypeOK, cell, waits
  <2>2. SubOrdered(s)'
    BY <1>3 DEF RecvClosed, TypeOK, SubOrdered, cell
  <2> QED BY <1>3, <2>1, <2>2, OthersOrdered DEF RecvClosed, TypeOK
<1> QED BY <1>1, <1>2, <1>3

-----------------------------------------------------------------------------
(* The theorems.                                                           *)

LEMMA InitIInv == Init => IInv
<1> SUFFICES ASSUME Init PROVE IInv
  OBVIOUS
<1>1. TypeOK
  <2>1. <<1>> \in Seq(Nat) /\ <<>> \in Seq(Nat)
    OBVIOUS
  <2> QED BY <2>1 DEF Init, TypeOK
<1>2. ChannelOrdered
  BY DEF Init, ChannelOrdered, AtMost
<1>3. \A s \in Subscribers : SubOrdered(s)
  BY DEF Init, SubOrdered, Sorted, AtMost, Before
<1> QED BY <1>1, <1>2, <1>3 DEF IInv

LEMMA NextIInv == IInv /\ [Next]_vars => IInv'
<1> SUFFICES ASSUME IInv, [Next]_vars PROVE IInv'
  OBVIOUS
<1>1. CASE UNCHANGED vars
  BY <1>1 DEF IInv, TypeOK, ChannelOrdered, SubOrdered, vars, cell, waits, subs
<1>2. CASE Next
  BY <1>2, CellStep, WaitStep, SubscribeStep, RecvReplayStep, RecvLiveStep DEF Next, Receive
<1> QED BY <1>1, <1>2

\* The cell, the calls of wait and the subscriptions keep their types; a
\* receiver's position stays a natural number across every lag.
THEOREM TypeCorrect == Spec => []TypeOK
<1>1. IInv => TypeOK
  BY DEF IInv
<1> QED BY <1>1, InitIInv, NextIInv, PTL DEF Spec

\* recv returns every event at most once and in order, however the replay,
\* the subscription to the live channel and the emitting threads interleave
\* and however far the receiver lags behind.
THEOREM DeliveredOnceTheorem == Spec => []DeliveredOnce
<1>1. IInv => DeliveredOnce
  BY DEF IInv, SubOrdered, Sorted, DeliveredOnce
<1> QED BY <1>1, InitIInv, NextIInv, PTL DEF Spec
=============================================================================

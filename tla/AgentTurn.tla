------------------------------- MODULE AgentTurn -------------------------------
(***************************************************************************)
(* One session of the agent: the loop of Nexus that answers a prompt       *)
(* (complete_turn), the context governor of Wayland that rewrites the      *)
(* transcript between two provider requests, and the session log from      *)
(* which a later process rebuilds it.                                      *)
(*                                                                         *)
(* Three copies of the conversation must agree: what the next request will *)
(* send (messages), what the compaction engine believes is on disk         *)
(* (entryIds, whose length is its cursor `persisted`), and the log.  A     *)
(* cancellation may come from another thread between any two steps; the    *)
(* steps below end where the code awaits, or where it reads the token.     *)
(***************************************************************************)
EXTENDS Integers, Sequences, SequencesExt, FiniteSets

CONSTANTS
    Hosts,       \* the hosts a session may run under: does it queue messages?
    Contexts,    \* the sequences of roles run_turn may put before a prompt
    MaxInputs,   \* bound: prompts and queued messages of the user
    MaxCalls,    \* bound: tool calls of the model
    MaxCrashes,  \* bound: crashes of the process
    MaxRoundtrips,  \* max_tool_roundtrips, 0 when it is not set
    MaxFaults,   \* bound: appends to the log that fail
    MaxCompactions  \* bound: compaction entries of the log

ASSUME AgentTurnAssumption ==
    /\ Hosts \subseteq BOOLEAN
    /\ Contexts \subseteq Seq({"developer", "user"})
    /\ MaxInputs \in Nat /\ MaxCalls \in Nat /\ MaxCrashes \in Nat
    /\ MaxRoundtrips \in Nat /\ MaxFaults \in Nat /\ MaxCompactions \in Nat

VARIABLES
    messages,   \* Agent::messages, the context of the next request
    entryIds,   \* CompactionEngine::entry_ids: a position of the log, 0 for None
    log,        \* the lines of the session file; an entry's id is its position
    job,        \* CompactionEngine::background: the ids of the range it covers
    pc,         \* where the turn is
    turn,       \* the locals of complete_turn
    governor,   \* the locals of govern and recover_overflow
    steering, followUp,  \* SteeringQueue: the newest message queued, 0 if empty
    cancelled,  \* the turn's CancellationToken
    steerable,  \* is there a SteeringQueue?  (the host is the terminal)
    inputs, calls, crashes, faults,  \* counters behind the bounds
    diverged    \* history: the live context has parted from the log

vars == <<messages, entryIds, log, job, pc, turn, governor, steering, followUp,
          cancelled, steerable, inputs, calls, crashes, faults, diverged>>

--------------------------------------------------------------------------------
(* Messages.  `key` stands for the content: the newest input merged into a  *)
(* user message, the call that a call or a result belongs to, the entry     *)
(* that holds a summary.  A summary is a user message to the providers.     *)

Message(role, key) == [role |-> role, key |-> key]

IsUser(m) == m.role \in {"user", "summary"}

\* Message entries and compaction entries of the log.
MessageEntry(m) == [role |-> m.role, key |-> m.key, from |-> 0, to |-> 0]
CompactionEntry(from, to) == [role |-> "compaction", key |-> 0, from |-> from, to |-> to]

NoJob == [from |-> 0, to |-> 0]

NoTurn == [unanswered |-> 0, pending |-> <<>>, injecting |-> 0,
           roundtrip |-> 0, attempted |-> FALSE]

NoGovernor == [current |-> <<>>, changed |-> FALSE, second |-> FALSE,
               excerpts |-> 0, overflow |-> FALSE]

Truncated(msgs, start) == IF start = 0 THEN msgs ELSE SubSeq(msgs, 1, start - 1)

LastUser(msgs) == LET users == {i \in DOMAIN msgs : IsUser(msgs[i])}
                  IN IF users = {} THEN 0 ELSE Max(users)

--------------------------------------------------------------------------------
(* The session log: what a resume rebuilds.                                 *)

Compactions(l) == {c \in DOMAIN l : l[c].role = "compaction"}
CoveredBy(l, p) == {c \in Compactions(l) : l[c].from <= p /\ p <= l[c].to}

\* rebuild_with_compactions refuses a range that names no message, runs
\* backwards or overlaps another.
Readable(l) ==
    /\ \A c \in Compactions(l) :
          /\ {l[c].from, l[c].to} \subseteq DOMAIN l \ Compactions(l)
          /\ l[c].from <= l[c].to
    /\ \A p \in DOMAIN l \ Compactions(l) : Cardinality(CoveredBy(l, p)) <= 1

\* The positions in S, in ascending order.
Ascending(S) ==
    [i \in 1 .. Cardinality(S) |-> CHOOSE p \in S : Cardinality({q \in S : q <= p}) = i]

\* The positions that stay: a message no range covers, and the first of each
\* range, where its summary is put.
Kept(l) ==
    {p \in DOMAIN l \ Compactions(l) : \A c \in CoveredBy(l, p) : l[c].from = p}

MessageAt(l, p) ==
    IF CoveredBy(l, p) = {} THEN Message(l[p].role, l[p].key)
    ELSE Message("summary", CHOOSE c \in CoveredBy(l, p) : TRUE)

RebuiltMessages(l) ==
    LET kept == Ascending(Kept(l)) IN [i \in DOMAIN kept |-> MessageAt(l, kept[i])]

\* Mutant: a summary is given the id of the message it stands at.
FaultyIdForSummary(l) == Ascending(Kept(l))

RebuiltIds(l) ==
    LET kept == Ascending(Kept(l))
    IN [i \in DOMAIN kept |-> IF CoveredBy(l, kept[i]) = {} THEN kept[i] ELSE 0]

\* repair_dangling_tool_call: a synthetic result, at the end, for every call
\* that has none.
Unanswered(msgs) ==
    {i \in DOMAIN msgs : /\ msgs[i].role = "call"
                         /\ ~Contains(msgs, Message("tool", msgs[i].key))}

Dangling(msgs) ==
    LET open == Ascending(Unanswered(msgs)) IN [i \in DOMAIN open |-> msgs[open[i]]]

\* Mutant: only the last dangling call gets a result.
FaultyRepairsOne(msgs) ==
    IF Dangling(msgs) = <<>> THEN msgs
    ELSE Append(msgs, Message("tool", Last(Dangling(msgs)).key))

Repaired(msgs) ==
    msgs \o [i \in DOMAIN Dangling(msgs) |-> Message("tool", Dangling(msgs)[i].key)]

--------------------------------------------------------------------------------
(* Compaction: the ranges the planner may choose, and their replacement.    *)

Persisted(msgs) == Min({Len(entryIds), Len(msgs)})

\* valid_compaction_range: no half of a pair at either end.
ValidRange(msgs, s, e) ==
    /\ msgs[s].role # "tool"
    /\ s > 1 => msgs[s - 1].role # "call"
    /\ msgs[e].role # "call"
    /\ e < Len(msgs) => msgs[e + 1].role # "tool"

\* And splits_pair_by_id: no pair is cut at all.
PairSafe(msgs, s, e) ==
    /\ ValidRange(msgs, s, e)
    /\ \A i, j \in DOMAIN msgs :
          (msgs[i].role = "call" /\ msgs[j] = Message("tool", msgs[i].key))
             => (i \in s .. e <=> j \in s .. e)

\* A run of messages with an id starts at s, but for the results at its start
\* whose calls are not in it.
StartsRun(msgs, s) ==
    \E r \in 1 .. s :
        /\ r = 1 \/ entryIds[r - 1] = 0
        /\ \A i \in r .. s - 1 : entryIds[i] # 0 /\ msgs[i].role = "tool"

\* plan_with_mode in HardCurrentTurn mode: how much of the tail is kept, and
\* which run weighs most, is left open.
HardPlans(msgs) ==
    {p \in (1 .. Persisted(msgs)) \X (1 .. Persisted(msgs)) :
        /\ p[1] <= p[2]
        /\ \A i \in p[1] .. p[2] : entryIds[i] # 0
        /\ StartsRun(msgs, p[1])
        /\ PairSafe(msgs, p[1], p[2])}

\* plan_with_mode in Respect mode: the cut is at a user message, or behind one.
RespectPlans(msgs) ==
    {p \in HardPlans(msgs) :
        \/ p[2] = Len(msgs)
        \/ IsUser(msgs[p[2]]) \/ IsUser(msgs[p[2] + 1])}

RangeOf(p) == [from |-> entryIds[p[1]], to |-> entryIds[p[2]]]

\* revalidate: where the range of the job now is, if it may still be replaced.
JobPlans(msgs) ==
    {p \in (1 .. Persisted(msgs)) \X (1 .. Persisted(msgs)) :
        /\ job # NoJob /\ RangeOf(p) = job
        /\ p[1] <= p[2] /\ \A i \in p[1] .. p[2] : entryIds[i] # 0
        /\ ValidRange(msgs, p[1], p[2])}

\* Mutant: the id map has no place for the summary.
FaultyApplyNoSlot(msgs, p) ==
    /\ Cardinality(Compactions(log)) < MaxCompactions
    /\ log' = Append(log, CompactionEntry(entryIds[p[1]], entryIds[p[2]]))
    /\ entryIds' = SubSeq(entryIds, 1, p[1] - 1)
                      \o SubSeq(entryIds, p[2] + 1, Persisted(msgs))

\* apply_summary: the entry is durable and the id map is moved before the new
\* messages are returned to whoever installs them.
ApplySummary(msgs, p) ==
    /\ Cardinality(Compactions(log)) < MaxCompactions
    /\ log' = Append(log, CompactionEntry(entryIds[p[1]], entryIds[p[2]]))
    /\ entryIds' = SubSeq(entryIds, 1, p[1] - 1) \o <<0>>
                      \o SubSeq(entryIds, p[2] + 1, Persisted(msgs))

Replacement(msgs, p) ==
    SubSeq(msgs, 1, p[1] - 1) \o <<Message("summary", Len(log) + 1)>>
       \o SubSeq(msgs, p[2] + 1, Len(msgs))

Faults(n) == faults + n <= MaxFaults /\ faults' = faults + n

\* persist_messages: an append that fails leaves the cursor at its message.
PersistMessages(msgs) ==
    LET unwritten == Max({0, Len(msgs) - Len(entryIds)})
    IN \E n \in 0 .. unwritten :
          /\ Faults(IF n < unwritten THEN 1 ELSE 0)
          /\ log' = log \o [i \in 1 .. n |-> MessageEntry(msgs[Len(entryIds) + i])]
          /\ entryIds' = entryIds \o [i \in 1 .. n |-> Len(log) + i]

--------------------------------------------------------------------------------
Init ==
    /\ messages = <<>> /\ entryIds = <<>> /\ log = <<>>
    /\ job = NoJob
    /\ pc = "idle" /\ turn = NoTurn /\ governor = NoGovernor
    /\ steering = 0 /\ followUp = 0 /\ cancelled = FALSE
    /\ steerable \in Hosts
    /\ inputs = 0 /\ calls = 0 /\ crashes = 0 /\ faults = 0
    /\ diverged = FALSE

\* The turn returns, with or without an error: run_turn persists what it left,
\* and the actor empties the queues if the token was cancelled.
EndTurn(msgs) ==
    /\ messages' = msgs
    /\ PersistMessages(msgs)
    /\ pc' = "idle" /\ turn' = NoTurn /\ governor' = NoGovernor
    /\ cancelled' = FALSE
    /\ steering' = IF cancelled THEN 0 ELSE steering
    /\ followUp' = IF cancelled THEN 0 ELSE followUp
    /\ UNCHANGED <<steerable, inputs, calls, crashes>>

\* The unanswered input is dropped and the turn returns.
EndUnanswered == EndTurn(Truncated(messages, turn.unanswered))

--------------------------------------------------------------------------------
(* The loop of complete_turn.                                               *)

SubmitTurn(context) ==
    /\ pc = "idle" /\ inputs < MaxInputs
    /\ messages' = messages \o [i \in DOMAIN context |-> Message(context[i], 0)]
                      \o <<Message("user", inputs + 1)>>
    /\ turn' = [NoTurn EXCEPT !.unanswered = Len(messages) + 1]
    /\ pc' = "top" /\ inputs' = inputs + 1
    /\ UNCHANGED <<entryIds, log, job, governor, steering, followUp, cancelled,
                   steerable, calls, crashes, faults, diverged>>

AtCap == MaxRoundtrips # 0 /\ turn.roundtrip >= MaxRoundtrips

TopCapReached ==
    /\ pc = "top" /\ AtCap
    /\ EndTurn(messages)
    /\ UNCHANGED <<job, diverged>>

TopCancelled ==
    /\ pc = "top" /\ ~AtCap /\ cancelled
    /\ EndUnanswered
    /\ UNCHANGED <<job, diverged>>

\* inject_user: the text is merged into a trailing user message.  (Merged into
\* one that the log already holds, it parts the two.)
Injected(msgs, text) ==
    IF text = 0 THEN msgs
    ELSE IF msgs # <<>> /\ IsUser(Last(msgs))
    THEN [msgs EXCEPT ![Len(msgs)] = Message("user", text)]
    ELSE Append(msgs, Message("user", text))

UnansweredAfter(msgs, text, start) ==
    IF text = 0 \/ start # 0 THEN start ELSE Len(Injected(msgs, text))

ExtendsPersisted(msgs, text) ==
    text # 0 /\ msgs # <<>> /\ IsUser(Last(msgs)) /\ Len(msgs) <= Len(entryIds)

\* The request is sent: queued steering goes before it.
TopRequests ==
    /\ pc = "top" /\ ~AtCap /\ ~cancelled
    /\ messages' = Injected(messages, steering)
    /\ turn' = [turn EXCEPT !.unanswered = UnansweredAfter(messages, steering, @)]
    /\ diverged' = (diverged \/ ExtendsPersisted(messages, steering))
    /\ steering' = 0
    /\ pc' = "stream"
    /\ UNCHANGED <<entryIds, log, job, governor, followUp, cancelled, steerable,
                   inputs, calls, crashes, faults>>

StreamCancelled(partial) ==
    /\ pc = "stream" /\ cancelled
    /\ IF partial THEN EndTurn(Append(messages, Message("assistant", 0)))
       ELSE EndUnanswered
    /\ UNCHANGED <<job, diverged>>

\* The provider fails, or the context overflows and nothing may be tried.
StreamFails ==
    /\ pc = "stream"
    /\ EndUnanswered
    /\ UNCHANGED <<job, diverged>>

\* Mutant: tool calls do not count as an answer.
FaultyCallsKeepStart(n) ==
    /\ pc = "stream" /\ calls + n <= MaxCalls
    /\ messages' = messages \o [i \in 1 .. n |-> Message("call", calls + i)]
    /\ turn' = [turn EXCEPT !.attempted = FALSE,
                            !.pending = [i \in 1 .. n |-> calls + i]]
    /\ calls' = calls + n
    /\ pc' = "tools"
    /\ UNCHANGED <<entryIds, log, job, governor, steering, followUp, cancelled,
                   steerable, inputs, crashes, faults, diverged>>

\* The provider answers with n tool calls (the text before them is left out).
StreamCallsTools(n) ==
    /\ pc = "stream" /\ calls + n <= MaxCalls
    /\ messages' = messages \o [i \in 1 .. n |-> Message("call", calls + i)]
    /\ turn' = [turn EXCEPT !.unanswered = 0, !.attempted = FALSE,
                            !.pending = [i \in 1 .. n |-> calls + i]]
    /\ calls' = calls + n
    /\ pc' = "tools"
    /\ UNCHANGED <<entryIds, log, job, governor, steering, followUp, cancelled,
                   steerable, inputs, crashes, faults, diverged>>

\* An answer without calls has some text, or nothing: it still counts as one.
Answered(text) == IF text THEN Append(messages, Message("assistant", 0)) ELSE messages

\* Without calls the turn is over, unless messages are queued.
StreamCompletes(text) ==
    /\ pc = "stream" /\ steering = 0 /\ followUp = 0
    /\ EndTurn(Answered(text))
    /\ UNCHANGED <<job, diverged>>

StreamContinues(text) ==
    /\ pc = "stream" /\ (steering # 0 \/ followUp # 0)
    /\ messages' = Answered(text)
    /\ PersistMessages(Answered(text))
    /\ turn' = [turn EXCEPT !.unanswered = 0, !.attempted = FALSE,
                            !.injecting = IF steering # 0 THEN steering ELSE followUp]
    /\ steering' = 0
    /\ followUp' = IF steering # 0 THEN followUp ELSE 0
    /\ pc' = "boundary"
    /\ UNCHANGED <<job, governor, cancelled, steerable, inputs, calls, crashes, diverged>>

\* run_tools: a batch of parallel calls, or one call alone, is answered.
RunTools(k) ==
    /\ pc = "tools" /\ k \in 1 .. Len(turn.pending)
    /\ messages' = messages \o [i \in 1 .. k |-> Message("tool", turn.pending[i])]
    /\ turn' = [turn EXCEPT !.pending = SubSeq(@, k + 1, Len(@))]
    /\ UNCHANGED <<entryIds, log, job, pc, governor, steering, followUp, cancelled,
                   steerable, inputs, calls, crashes, faults, diverged>>

\* Cancelled between two batches: the calls left get a synthetic result.
CancelledResults ==
    messages \o [i \in DOMAIN turn.pending |-> Message("tool", turn.pending[i])]

CancelTools ==
    /\ pc = "tools" /\ turn.pending # <<>> /\ cancelled
    /\ EndTurn(CancelledResults)
    /\ UNCHANGED <<job, diverged>>

CommitTools ==
    /\ pc = "tools" /\ turn.pending = <<>>
    /\ PersistMessages(messages)
    /\ pc' = "boundary"
    /\ UNCHANGED <<messages, job, turn, governor, steering, followUp, cancelled,
                   steerable, inputs, calls, crashes, diverged>>

--------------------------------------------------------------------------------
(* govern_at_boundary, and the governor it polls.                           *)

\* The boundary is passed with the context msgs: what was drained from the
\* queues is injected, or a tool round-trip has been made.
Proceed(msgs) ==
    /\ messages' = Injected(msgs, turn.injecting)
    /\ turn' = [turn EXCEPT
                   !.unanswered = UnansweredAfter(msgs, turn.injecting, @),
                   !.injecting = 0,
                   !.roundtrip = IF turn.injecting = 0 /\ MaxRoundtrips # 0
                                 THEN @ + 1 ELSE @]
    /\ governor' = NoGovernor
    /\ pc' = "top"
    /\ UNCHANGED <<steering, followUp, cancelled, steerable, inputs, calls, crashes, faults>>

Diverges(lost, msgs) ==
    diverged' = (diverged \/ lost \/ ExtendsPersisted(msgs, turn.injecting))

\* Mutant: the token is not looked at when a message waits to be injected.
FaultyBoundaryCancelled ==
    /\ pc = "boundary" /\ cancelled /\ turn.injecting = 0
    /\ EndTurn(messages)
    /\ UNCHANGED <<job, diverged>>

\* The select is biased to the token: no governor runs once it is cancelled,
\* and the turn returns without a truncation.
BoundaryCancelled ==
    /\ pc = "boundary" /\ cancelled
    /\ EndTurn(messages)
    /\ UNCHANGED <<job, diverged>>

GovernProceeds ==
    /\ pc = "boundary" /\ ~cancelled
    /\ Proceed(messages) /\ Diverges(FALSE, messages)
    /\ UNCHANGED <<entryIds, log, job>>

\* Start tier: a job for the background, which this boundary does not wait for.
GovernStartsJob ==
    /\ pc = "boundary" /\ ~cancelled /\ job = NoJob
    /\ \E p \in RespectPlans(messages) : job' = RangeOf(p)
    /\ Proceed(messages) /\ Diverges(FALSE, messages)
    /\ UNCHANGED <<entryIds, log>>

\* Hard tier: wait for the job there is, or start one and wait for it.
GovernWaits ==
    /\ pc = "boundary" /\ ~cancelled
    /\ \/ job # NoJob /\ UNCHANGED job
       \/ /\ job = NoJob
          /\ \E p \in HardPlans(messages) : job' = RangeOf(p)
    /\ governor' = [NoGovernor EXCEPT !.current = messages, !.second = (job = NoJob)]
    /\ pc' = "wait"
    /\ UNCHANGED <<messages, entryIds, log, turn, steering, followUp, cancelled,
                   steerable, inputs, calls, crashes, faults, diverged>>

\* No worker can be used (none is configured, the cap of the turn is reached,
\* too many have failed): excerpts are applied at once.
GovernRelieves ==
    /\ pc = "boundary" /\ ~cancelled /\ job = NoJob
    /\ governor' = [NoGovernor EXCEPT !.current = messages]
    /\ pc' = "relieve"
    /\ UNCHANGED <<messages, entryIds, log, job, turn, steering, followUp,
                   cancelled, steerable, inputs, calls, crashes, faults, diverged>>

\* resolve_hard_at_boundary: the job's summary, or the excerpts that stand in
\* for it, replace its range.
JobApplies ==
    /\ pc = "wait"
    /\ \E p \in JobPlans(governor.current) :
          /\ ApplySummary(governor.current, p)
          /\ governor' = [governor EXCEPT !.current = Replacement(@, p), !.changed = TRUE]
    /\ job' = NoJob
    /\ pc' = "resolved"
    /\ UNCHANGED <<messages, turn, steering, followUp, cancelled, steerable, inputs,
                   calls, crashes, faults, diverged>>

\* Nothing is applied: the job was cancelled, is stale or does not shrink.
JobDiscarded ==
    /\ pc = "wait"
    /\ job' = NoJob
    /\ pc' = "resolved"
    /\ UNCHANGED <<messages, entryIds, log, turn, governor, steering, followUp,
                   cancelled, steerable, inputs, calls, crashes, faults, diverged>>

\* The turn is cancelled while the governor waits: its future is dropped, with
\* the job it had taken and the messages it would have returned.
WaitCancelled ==
    /\ pc = "wait" /\ cancelled
    /\ EndTurn(messages)
    /\ job' = NoJob
    /\ diverged' = (diverged \/ governor.changed)

\* The append of an apply fails: the error is reported and the turn goes on as it was.
GovernorFails ==
    /\ \/ pc = "wait" /\ JobPlans(governor.current) # {}
       \/ pc = "relieve" /\ ~governor.overflow /\ governor.excerpts < 2
            /\ HardPlans(governor.current) # {}
    /\ faults < MaxFaults
    /\ job' = NoJob
    /\ Proceed(messages) /\ Diverges(governor.changed, messages)
    /\ UNCHANGED <<entryIds, log>>

\* The token is read again after the wait; what was applied is returned.
ResolvedCancelled ==
    /\ pc = "resolved" /\ cancelled
    /\ Proceed(governor.current) /\ Diverges(FALSE, governor.current)
    /\ UNCHANGED <<entryIds, log, job>>

ResolvedStartsJob ==
    /\ pc = "resolved" /\ ~cancelled /\ ~governor.second
    /\ \E p \in HardPlans(governor.current) : job' = RangeOf(p)
    /\ governor' = [governor EXCEPT !.second = TRUE]
    /\ pc' = "wait"
    /\ UNCHANGED <<messages, entryIds, log, turn, steering, followUp, cancelled,
                   steerable, inputs, calls, crashes, faults, diverged>>

ResolvedRelieves ==
    /\ pc = "resolved" /\ ~cancelled
    /\ pc' = "relieve"
    /\ UNCHANGED <<messages, entryIds, log, job, turn, governor, steering, followUp,
                   cancelled, steerable, inputs, calls, crashes, faults, diverged>>

\* One of the two deterministic passes.
Relieve ==
    /\ pc = "relieve" /\ governor.excerpts < 2
    /\ \E p \in HardPlans(governor.current) :
          /\ ApplySummary(governor.current, p)
          /\ governor' = [governor EXCEPT !.current = Replacement(@, p),
                             !.changed = TRUE, !.excerpts = @ + 1]
    /\ UNCHANGED <<messages, job, pc, turn, steering, followUp, cancelled, steerable,
                   inputs, calls, crashes, faults, diverged>>

RelieveEnds ==
    /\ pc = "relieve" /\ ~governor.overflow
    /\ Proceed(governor.current) /\ Diverges(FALSE, governor.current)
    /\ UNCHANGED <<entryIds, log, job>>

--------------------------------------------------------------------------------
(* recover_context_overflow: one attempt per request, in one poll.          *)

Overflows ==
    /\ pc = "stream" /\ ~turn.attempted /\ ~cancelled
    /\ governor' = [NoGovernor EXCEPT !.current = messages, !.overflow = TRUE]
    /\ job' = NoJob
    /\ pc' = "relieve"
    /\ UNCHANGED <<messages, entryIds, log, turn, steering, followUp, cancelled,
                   steerable, inputs, calls, crashes, faults, diverged>>

\* Cancelled before the recovery is polled: the turn returns as it is.
OverflowCancelled ==
    /\ pc = "stream" /\ ~turn.attempted /\ cancelled
    /\ EndTurn(messages)
    /\ UNCHANGED <<job, diverged>>

\* Mutant: the start of the unanswered input is not looked up again.
FaultyResend ==
    /\ pc = "relieve" /\ governor.overflow /\ governor.changed
    /\ messages' = governor.current
    /\ turn' = [turn EXCEPT !.attempted = TRUE]
    /\ governor' = NoGovernor
    /\ pc' = "top"
    /\ UNCHANGED <<entryIds, log, job, steering, followUp, cancelled, steerable,
                   inputs, calls, crashes, faults, diverged>>

\* The request is sent again; the unanswered input is now the last user message.
Resend ==
    /\ pc = "relieve" /\ governor.overflow /\ governor.changed
    /\ messages' = governor.current
    /\ turn' = [turn EXCEPT !.attempted = TRUE,
                   !.unanswered = IF @ = 0 THEN 0 ELSE LastUser(governor.current)]
    /\ governor' = NoGovernor
    /\ pc' = "top"
    /\ UNCHANGED <<entryIds, log, job, steering, followUp, cancelled, steerable, inputs,
                   calls, crashes, faults, diverged>>

\* Nothing was covered, or the append of a pass failed.
Unrecoverable ==
    /\ pc = "relieve" /\ governor.overflow
    /\ governor.changed => faults < MaxFaults /\ governor.excerpts < 2
    /\ EndUnanswered
    /\ diverged' = (diverged \/ governor.changed)
    /\ UNCHANGED job

--------------------------------------------------------------------------------
(* Around the loop.                                                         *)

Awaiting == pc \in {"stream", "tools", "wait"}

\* The actor queues what the user types while the turn awaits.
QueueSteering ==
    /\ steerable /\ Awaiting /\ inputs < MaxInputs
    /\ steering' = inputs + 1 /\ inputs' = inputs + 1
    /\ UNCHANGED <<messages, entryIds, log, job, pc, turn, governor, followUp,
                   cancelled, steerable, calls, crashes, faults, diverged>>

QueueFollowUp ==
    /\ steerable /\ Awaiting /\ inputs < MaxInputs
    /\ followUp' = inputs + 1 /\ inputs' = inputs + 1
    /\ UNCHANGED <<messages, entryIds, log, job, pc, turn, governor, steering,
                   cancelled, steerable, calls, crashes, faults, diverged>>

\* The thread that reads the keyboard cancels the token of the running turn.
CancelToken ==
    /\ pc \notin {"idle", "down"} /\ ~cancelled
    /\ cancelled' = TRUE
    /\ UNCHANGED <<messages, entryIds, log, job, pc, turn, governor, steering,
                   followUp, steerable, inputs, calls, crashes, faults, diverged>>

\* stop_active_operation: the actor empties the queues, then cancels.
StopActive ==
    /\ steerable /\ Awaiting
    /\ steering' = 0 /\ followUp' = 0 /\ cancelled' = TRUE
    /\ UNCHANGED <<messages, entryIds, log, job, pc, turn, governor, steerable, inputs,
                   calls, crashes, faults, diverged>>

\* Between two turns: /compact, or pressure at the edge of a turn.
EdgeStartsJob ==
    /\ pc = "idle" /\ job = NoJob
    /\ \E p \in HardPlans(messages) : job' = RangeOf(p)
    /\ UNCHANGED <<messages, entryIds, log, pc, turn, governor, steering, followUp,
                   cancelled, steerable, inputs, calls, crashes, faults, diverged>>

EdgeCompacts ==
    /\ pc = "idle"
    /\ \E p \in IF job = NoJob THEN HardPlans(messages) ELSE JobPlans(messages) :
          /\ ApplySummary(messages, p)
          /\ messages' = Replacement(messages, p)
    /\ job' = NoJob
    /\ UNCHANGED <<pc, turn, governor, steering, followUp, cancelled, steerable, inputs,
                   calls, crashes, faults, diverged>>

EdgeDiscards ==
    /\ pc = "idle" /\ job # NoJob
    /\ job' = NoJob
    /\ UNCHANGED <<messages, entryIds, log, pc, turn, governor, steering, followUp,
                   cancelled, steerable, inputs, calls, crashes, faults, diverged>>

\* The process is gone: only the log is left.
Gone ==
    /\ pc' = "down" /\ messages' = <<>> /\ job' = NoJob
    /\ turn' = NoTurn /\ governor' = NoGovernor
    /\ steering' = 0 /\ followUp' = 0 /\ cancelled' = FALSE
    /\ UNCHANGED <<steerable, inputs, calls, faults>>

\* The observer of a host without queues fails to write its output: the turn
\* returns where it is, what it left is persisted and the process ends.
ObserverFails ==
    /\ ~steerable /\ pc \in {"top", "stream", "tools"} /\ crashes < MaxCrashes
    /\ LET unwritten == SubSeq(messages, Len(entryIds) + 1, Len(messages))
       IN \E n \in 0 .. Len(unwritten) :
             /\ n < Len(unwritten) => faults < MaxFaults
             /\ log' = log \o [i \in 1 .. n |-> MessageEntry(unwritten[i])]
    /\ entryIds' = <<>>
    /\ crashes' = crashes + 1
    /\ Gone /\ UNCHANGED diverged

Crash ==
    /\ pc # "down" /\ crashes < MaxCrashes
    /\ entryIds' = <<>>
    /\ crashes' = crashes + 1
    /\ Gone /\ UNCHANGED <<log, diverged>>

\* The session is opened again; a log that cannot be read is an error.
Resume ==
    /\ pc = "down" /\ Readable(log)
    /\ messages' = Repaired(RebuiltMessages(log))
    /\ entryIds' = RebuiltIds(log)
    /\ pc' = "idle"
    /\ UNCHANGED <<log, job, turn, governor, steering, followUp, cancelled, steerable,
                   inputs, calls, crashes, faults, diverged>>

\* The steps the turn takes by itself.
TopStep == TopCapReached \/ TopCancelled \/ TopRequests

StreamStep ==
    \/ \E partial \in BOOLEAN : StreamCancelled(partial)
    \/ StreamFails \/ Overflows \/ OverflowCancelled
    \/ \E text \in BOOLEAN : StreamCompletes(text) \/ StreamContinues(text)
    \/ \E n \in 1 .. MaxCalls : StreamCallsTools(n)

ToolStep == (\E k \in 1 .. MaxCalls : RunTools(k)) \/ CancelTools \/ CommitTools

GovernStep ==
    \/ BoundaryCancelled \/ GovernProceeds \/ GovernStartsJob \/ GovernWaits
    \/ GovernRelieves \/ JobApplies \/ JobDiscarded \/ WaitCancelled
    \/ GovernorFails \/ ResolvedCancelled \/ ResolvedStartsJob
    \/ ResolvedRelieves \/ Relieve \/ RelieveEnds \/ Resend \/ Unrecoverable

Next ==
    \/ \E context \in Contexts : SubmitTurn(context)
    \/ TopStep \/ StreamStep \/ ToolStep \/ GovernStep
    \/ QueueSteering \/ QueueFollowUp \/ CancelToken \/ StopActive
    \/ EdgeStartsJob \/ EdgeCompacts \/ EdgeDiscards
    \/ ObserverFails \/ Crash \/ Resume

Spec == Init /\ [][Next]_vars

\* The code between two awaits runs to its end; every await of a cancelled turn
\* races the token, the tools' and the gate's included.  Nothing is assumed of a
\* provider, a tool or a job whose turn is not cancelled.
Fairness ==
    /\ WF_vars(TopStep)
    /\ WF_vars(\E partial \in BOOLEAN : StreamCancelled(partial))
    /\ WF_vars(cancelled /\ ToolStep)
    /\ WF_vars(BoundaryCancelled)
    /\ WF_vars(WaitCancelled)
    /\ WF_vars(pc \in {"resolved", "relieve"} /\ GovernStep)

FairSpec == Spec /\ Fairness

--------------------------------------------------------------------------------
(* Properties.                                                              *)

MessageRoles == {"developer", "user", "assistant", "call", "tool", "summary"}

\* The variables have their types; the cursors stay within what they index:
\* the unanswered run starts inside the transcript, and the queues hold inputs.
TypeOK ==
    /\ \A i \in DOMAIN messages : messages[i].role \in MessageRoles
    /\ \A i \in DOMAIN entryIds : entryIds[i] \in 0 .. Len(log)
    /\ pc \in {"idle", "top", "stream", "tools", "boundary", "wait", "resolved",
               "relieve", "down"}
    /\ turn.unanswered \in 0 .. Len(messages)
    /\ pc \notin {"tools"} => turn.pending = <<>>
    /\ {steering, followUp, turn.injecting} \subseteq 0 .. inputs
    /\ governor.excerpts \in 0 .. 2
    /\ pc \in {"idle", "down"} => turn = NoTurn /\ governor = NoGovernor /\ ~cancelled

\* Calls and results are paired: each call has one result, which follows it
\* with nothing but calls and results in between, and each result has a call.
Paired(msgs) ==
    /\ \A i \in DOMAIN msgs : msgs[i].role = "call" =>
          LET results == {j \in DOMAIN msgs : msgs[j] = Message("tool", msgs[i].key)}
          IN /\ Cardinality(results) = 1
             /\ \A j \in results : /\ i < j
                                   /\ \A k \in i .. j : msgs[k].role \in {"call", "tool"}
    /\ \A j \in DOMAIN msgs : msgs[j].role = "tool" =>
          \E i \in 1 .. j : msgs[i] = Message("call", msgs[j].key)

\* No provider is ever sent an unpaired tool call or result, whatever was
\* cancelled, compacted, lost by a crash or repaired on the way.
RequestsPaired == (pc = "stream" /\ ~diverged) => Paired(messages)

\* What the running process holds, while the governor works: its local copy.
LiveContext == IF pc \in {"wait", "resolved", "relieve"} THEN governor.current ELSE messages

\* The log and the live context agree: rebuilt now, the log gives exactly the
\* first `persisted` messages and the engine's ids for them.
LogAgrees ==
    (pc # "down" /\ ~diverged) =>
        /\ Len(entryIds) <= Len(LiveContext)
        /\ RebuiltMessages(log) = SubSeq(LiveContext, 1, Len(entryIds))
        /\ RebuiltIds(log) = entryIds

\* A session that has not diverged can always be opened again: no sequence of
\* boundary, overflow, background and manual compactions, resumes and lost
\* appends writes ranges that rebuild_with_compactions refuses.
LogReopens == ~diverged => Readable(log)

\* What the end of a turn drops from the transcript is input of the user: no
\* message the provider or a tool produced is ever truncated away.
OnlyInputDropped ==
    [][ (pc \notin {"idle", "down"} /\ pc' = "idle" /\ ~diverged') =>
          \A i \in DOMAIN messages :
             i <= Len(messages') \/ messages[i].role \in {"user", "developer"} ]_vars

\* A cancelled turn ends.
CancelEnds == cancelled ~> (pc \in {"idle", "down"})
================================================================================

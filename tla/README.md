# Iris agent: TLA+ models and proofs

This directory holds the formal models of the Iris agent, the TLC
configurations that check them and the TLAPS proofs about them.  The code is
the reference: every definition that models code is listed, with the lines it
stands for, in the `map` of `PROJECT.json`.

## 1. The system and its parts

Iris is a terminal coding agent.  A *front end* (TUI, one-shot print) drives a
*harness* (Wayland), which owns the session, its log, its compaction and its
safety nets; the harness runs turns of the *agent loop* (Nexus), which talks to
a model provider (*Mimir*) and executes tools.  Delegated work runs in the
*subagent runtime*, a crate of its own.

| part | state it keeps | operations | interacts with |
|---|---|---|---|
| subagent scheduler (`crates/iris-subagent-runtime/src/runtime.rs`) | a cell per worker (status, result, events, token), the command channel, two queues, slots, group counters, the shutdown flag | `spawn`, `spawn_group`, `cancel`, `cancel_group`, `shutdown`; the scheduler's `select!` loop, `launch_ready`, `next_eligible` | callers in any thread; executors on its `LocalSet`; the journal |
| worker journal (`persistence.rs`) | a JSONL file | `accept`, `append_event`, `finish`, `recover` | the scheduler and its callers |
| observers (`runtime.rs`) | `Notify`, `Condvar`, broadcast channel, replay | `wait`, `wait_blocking_timeout`, `subscribe`, `recv` | cells |
| artifacts (`artifact.rs`), candidate selection (`orchestration.rs`) | files by digest; none | put, read; select | scheduler, hosts |
| worktree leases, apply, restore (`worktree/`) | registry file of records, a control file per worktree, apply plans and receipts, owner leases, the settlement lock | create, adopt, ignore, collect, remove, rebuild; select a candidate, plan, apply; restore | git, other processes, the parent checkout the user works in |
| Nexus agent loop (`src/nexus.rs`) | transcript, budgets, steering buffer | `complete_turn`, `run_tools`, repair, injection | provider, tools, approvals, harness |
| Wayland harness (`src/wayland/`) | session, working context, compaction jobs, checkpoints | submit, persist, resume, compact, restore | everything below |
| compaction, background compaction | folds, triggers, one job slot | plan, start, apply, discard | agent loop, session log |
| git safety (`src/wayland/git_safety/`) | the task (baseline, approvals, ledger, checkpoint chain), its record, refs, lease and mutation lock | gate, snapshot, compare, restore; checkpoint, rollback, accept; expire, sweep, list, adopt | the loop around each mutating call, the user's files, other processes |
| session log (`session.rs`), handles | JSONL of a session | append, branch, resume | harness |
| goal tracking, approvals, trust | goal record, decisions | set, tick, pause; ask, remember | loop, UI |
| shell sessions (`tools/bash`), process groups | children, buffers | start, poll, kill | loop, signals |
| credentials (`mimir/auth`), providers, retry | token file | refresh, login; stream | loop |
| harness actor, steering (`src/ui/`) | channels, queue | submit, steer, interrupt | TUI, loop |
| TUI, CLI, config, skills, prompt, metrics, benches | | | |

What is hard in it: the scheduler is shared by an open number of threads and
decides on values read under locks it has released; executors are host code
that may never end; shutdown, cancellation and outcomes race; the journal may
fail or be cut at any line; recovery may itself be interrupted; observers sleep
on conditions that are signalled outside the lock; above that, turns can be
interrupted between any two messages of a transcript that must stay valid for
the provider, and background jobs apply results to state that moved on.  The
safety nets write where the user writes: files change while a tool runs, between
review and apply, between a checkpoint and its rollback; and several processes
share registry, records, refs and lock files, each of which a crash may leave
half done.

Properties that make each part correct: a worker is accepted durably, started
at most once, settled exactly once and for good; limits hold of what really
runs; every call returns; a journal gives back what callers saw; a wait returns
and a subscription is ordered; tool calls and results stay paired whatever
interrupts a turn, a summary replaces exactly the range it was made from, a
resumed session is the one that was written; the user's uncommitted work
survives every tool call, a rollback restores what was there when the task
opened, unsettled tasks stay recoverable and have one owner, a failed apply
leaves the checkout as it was and one candidate of a group is applied (all
stated below, with the exceptions the code has).  For the parts still to be modelled: a refreshed token is never
replaced by an older one, a goal's budget is charged once, a killed shell leaves
no process behind.

## 2. Modules

| module | models |
|---|---|
| `WorkerRuntime` | `RuntimeHandle`'s calls, the scheduler thread, executors, the clock of the cancellation grace |
| `WorkerLifecycle` | the abstract promise per worker: absent, queued, active, settled |
| `WorkerRuntimeProofs`, `WorkerSlotProofs` | theorems about `WorkerRuntime`: types, lifecycle, refinement; limits, queues, slots |
| `WorkerJournal` | the journal file, appends line by line, crashes, errors, recovery |
| `WorkerObservers` | waits and subscriptions against emitting threads |
| `AgentTurn` | one session: the agent loop, the context governor, compaction, steering, the session log and its resumption |
| `DirtyGuard` | the dirty-tree guard and the durable task of one process: gate, snapshots, attribution, checkpoints, rollback, settlement, recovery |
| `TaskLease` | the records, refs, leases and mutation lock that the processes of one repository share |
| `WorktreeApply` | the registry of managed worktrees, the choice of a candidate, its reviewed apply |
| `WorkerJournalProofs`, `WorkerObserversProofs`, `AgentTurnProofs`, `DirtyGuardProofs`, `TaskLeaseProofs`, `WorktreeApplyProofs` | theorems about the module each is named after |
| `MC...` | the instances for TLC |

**WorkerRuntime.**  An action is what one thread does between two points at
which another can observe it.  `spawn` and `spawn_group` are five actions
(`SpawnCheck`, `SpawnReserve`, `SpawnAdmit`, `SpawnInsert`, `SpawnSend`), since
the flag, the channel, the capacity check and the insertion are separate
critical sections.  `cancel` reads the status and releases the lock
(`CancelRead`) before it acts (`CancelQueued...`, `CancelActive`).  `shutdown`
is the swap of the flag, the send, the taking of the thread handle and the
join.  The scheduler's program counter `sched` is in `pick` (the loop of
`launch_ready`), `init` and `create` (a launch), `select` (the await), `enqueue`
(the loop over a batch), `tick` (the visit of running tasks) or has ended.
Executors run on the scheduler's thread and therefore step only in `select`.
Their outcomes are reduced to what `shape_result` and `finish` tell apart.
Time is reduced to `deadline[w]`: none, armed, due.  `JournalFaults` lets every
append fail.  The `Shutdown` branch calls `finish` with the worker map locked:
with a queued worker the thread waits for itself, `sched = "deadlocked"`.

**WorkerJournal.**  The file is its complete lines and a tail.  One append is in
progress at a time (the file lock), its records are written one by one, and
`Crash`, `AppendFails` or `WritePart` may come between any two.  `Start` is
`Journal::recover` and the first half of `recover_workers`; the rest is one
append per unsettled worker.

**WorkerObservers.**  One worker, any number of observers.  `owed` counts
emitters that have released the cell and not notified yet.  The broadcast
channel is external and modelled by its contract: a receiver more than
`Capacity` messages behind loses the oldest.

**AgentTurn.**  Three copies of a conversation must agree: `messages` (what the
next request sends), `entryIds` (what the compaction engine believes is on disk;
its length is the cursor `persisted`) and `log` (what a resume rebuilds).  `pc`
says where the turn is: `top` of the loop, `stream`, `tools`, `boundary` (before
the governor is polled), `wait` (the governor awaits a job), `resolved` (after
that await), `relieve` (the deterministic passes, at a boundary or after an
overflow), `idle`, `down`.  Steps end where the code awaits or reads the token,
since the input thread may cancel it there.  A message is a role and a `key`
that stands for its content: the newest input merged into it, the call it
belongs to, the entry that holds the summary.  Token counts are left open: every
tier, every length of the kept tail and every availability of a worker may
occur, so a plan is any pair-safe range that starts where a run of ids starts.
Reasoning blocks, and the text before tool calls, are left out: like text they
are assistant messages that no cut or pairing rule looks at.  A host without a
queue (one-shot print) ends the process when its observer fails
(`ObserverFails`); the terminal's observer sends on a channel and does not fail.

`diverged` is a history variable: it becomes true when the live context parts
from the log in one of the two known ways (section 5: a dropped governor, or an
error after an apply; a message merged into a written one).  `RequestsPaired`,
`LogAgrees`, `LogReopens` and `OnlyInputDropped` are stated for sessions in which that
has not happened; `TypeOK` and `CancelEnds` for all.

What a resume rebuilds is written by rank: `Ascending(S)` is the set of positions
`S` as a sequence, `Kept` the positions that stay and `MessageAt` what stands there,
so that lemmas about sets and cardinality apply to logs of any length.

**DirtyGuard.**  `disk` is what the files hold, `committed` what git has for them
(index and HEAD are one), and bytes are told apart by who wrote them: the
repository, the user's n-th step or Iris's n-th call.  `task` is `State::task`,
`record` the persisted record; the refs are the `before` and `points` of `task` and
survive a crash in it.  One mutating call is `StartCall` (`note_mutation` and
`unapproved_protected`), `Allow` or `Deny`, `BeforeExec`, `RunTool`, `AfterExec`
and, for violations, `Restore`, since the user acts between any two of them.  The
attribution scan is a thread (`ScanRun`) that is joined by the next call, barrier
or turn end.  A command may write, revert and commit any files in one call: after
it a file, and git for that file, holds what the file or git held before or bytes
of the command.  `Outcomes` bounds the combinations per file.  `Rollback`, `Accept`, `CheckpointNow`, `Barrier` and
`DiscardApprovals` are the operations between turns.  `past` is history: what
the files were when the task opened, what the user allowed and touched since,
and the files for which the guard's promises fail (section 5): changed by a call
that a crash cut off (`cut`); kept from the record by a crash (`lost`); committed by
a command before the guard knew them (`escaped`); looking as if the user had
edited them although Iris did (`skewed`), so that a rollback leaves them.

**TaskLease.**  A task is an id here; what matters is which files exist.  A lock
is on the file that was opened (`held` has pairs of task and file) and not on
its name (`path`), because the code unlinks lease files that are locked.  Each
operation is split where another process can look: a teardown is
`DestroyRefs`, `RemoveRecord`, `RemoveLease`, `DropLease`; a sweep is `SweepList`,
`SweepRecords`, then per namespace `SweepClaim`, `SweepRefs`, `SweepUnlink`.

**WorktreeApply.**  `registry` and `control` are the two copies of each record.
Every call that ends in `update_record` writes back whole records, as it read
them when it began: `Mark` (the markers), then `Append` (the registry).
`Select`, `PlanApply` and `Apply` take the settlement lock, the other calls do
not.  `Apply` is the preflight; then `Write` per file in path order, and `Undo` in
reverse after an error or a cancellation; `Finish` is the receipt and the
update of the record, `ReceiptFails` the error of the receipt, which leaves the
parent written.  `MarkFails` has written the control file before it fails.  A call that fails a check changes nothing and is no step.  A
crashed process is replaced by one with a new instance id, so its records have
the owner `None`.  `lapsed` is history: a completed apply is no longer marked in
the registry.

Operators named `Faulty...` are plausible bugs, used only as mutations: each
stands before the definition it replaces in a mutation run.

## 3. Runs

| run | question | bounds |
|---|---|---|
| `runtime_slots` | limits, queues and priorities | spawn_group of 3, two of them urgent, and spawn of 1, urgent; room for 3 workers, 2 slots, 1 per group, a streak of 1, no cancellation: either call may find no room, a group is full while a slot is free, jobs are passed over and rotated, urgent ones come again |
| `runtime_races` | cancel, shutdown, drop and journal faults at any point | a group of 2, two cancels, one shutdown, a command channel of 1 so that it is full |
| `runtime_live` | every promise to return or settle | a group of 2 in one slot, one cancel, one shutdown |
| `journal_crash` | crashes and errors | a group of 2, two crashes, one failing append, torn writes |
| `observers` | wake-ups and event order | one caller of each kind, a channel of 2 that lags |
| `turn_transcript` | one session, interrupted anywhere | both hosts, 2 inputs (prompt or queued), 2 tool calls, 2 round-trips, 2 compactions, 1 failing append, 1 crash |
| `guard_rollback` | is the user's work safe from calls, and a rollback exact | 2 interchangeable files, committed, absent or dirty at first; 2 calls, each a write or a command with six of the nine outcomes per file; 1 edit or commit, 1 crash |
| `task_lease` | do processes keep off each other's tasks, and does every operation end | 2 processes, 2 tasks, 1 crash |
| `worktree_settle` | one candidate, applied as reviewed or not at all | 2 processes, 2 candidates, 2 files, 2 plans, 6 events (calls, edits, commits, errors; a crash with its restart is two) from any set of spawned candidates |
| `runtime_shutdown_hang`, `journal_torn`, `guard_user_edit` | sentences of the docs, comments and tests the code does not keep (section 5) | the smallest instance that shows it |

Two workers are enough for every race between a worker and what holds its slot
or its command slot; the run about queues uses four.  Two crashes are
enough to interrupt recovery and to recover after that.  In `turn_transcript` two
calls make a parallel batch or two batches, with a cancellation between them and
a crash that leaves both dangling; two compactions make a summary behind a
summary, a background job that has become stale and a range that could overlap;
two inputs make a prompt with a queued message, or a second turn after a resume.
`MaxFaults` bounds the failing appends of messages; the failing append of a
compaction entry is possible while that bound is not reached.  In
`guard_rollback` the second call meets what the first one left (a ledger, a scan in
flight, a restore point that another overlays), and the second file tells the
target from the file beside it.  The six outcomes (`SixOutcomes`) are nothing, a
write, a revert, a commit of what was there, a write that is committed, and one that
is committed and taken back on disk; 5.7 million states in two and a half
minutes.  In `task_lease` two tasks make a sweep with a rest
to do, and one crash orphans a task in any state.  Six events are what it takes
to work in two worktrees, select, plan and apply one and try the other, or to
plan, edit, apply, fail and retry.

Larger instances were checked by hand and pass: `DirtyGuard` with all nine
outcomes, with three calls and no user or crash, and with three calls, all outcomes and one
file; `TaskLease` with three processes
and one task, and with two crashes; `WorktreeApply` with seven events;
`AgentTurn` with the catalogue of skills before each prompt and one tool call.
`CHECK_DEADLOCK FALSE` everywhere: each caller makes one call, or the inputs are
used up, and the system then rests.

*Fairness.*  `FairSpec`: threads in the middle of a call and the scheduler's
straight-line code progress (WF); branches of `select!` are polled from a random
start, so a branch that is ready again and again is taken (SF); the grace period
elapses (WF).  No executor is assumed to end, except in `SpawnSettles`, which
says so itself (`ExecutorFairness =>`), and in the specification of
`runtime_shutdown_hang`, so that its counterexample is not a stuck executor.
In `WorkerObservers` whoever emitted notifies and callers take their next step;
the deadline of a blocking wait is not assumed to exist.  In `AgentTurn` the code
between two awaits runs on, and every await of a cancelled turn (stream, tools,
governor) races the token and is therefore left; nothing is assumed of a
provider, a tool or a job whose turn is not cancelled.  In `TaskLease` a process
goes on with the operation it is in; this is strong fairness, because the mutation
lock is a blocking `flock` that the kernel grants to its waiters and frees when
its holder dies.  Nothing is assumed about beginning an operation.

## 4. Proofs

A theorem holds for every value of the constants that satisfies the module's
assumption: any number of workers, callers, processes, files, calls, events and
crashes.  The assumptions are what the code itself checks or ensures
(`ConfigAssumption` is `validate_config`; `WorkloadAssumption` and
`JournalAssumption` say that ids are fresh), or only say that a bound is a number
and a set of files or processes finite.  One theorem, `UrgentBoundedTheorem`, has a
hypothesis of its own: that no `cancel` is called, since a cancelled job that is
popped resets the streak (section 5).

Every proof has the same shape.  The property is not inductive, so an `IInv` is
stated next to the proof as a conjunction of named parts; TLC checked it as an
invariant of the component's run before it was proved.  Lemmas about the operators come first, then one
lemma per action that it preserves `IInv`, then the theorems, each a consequence
of `IInv`.

| module | theorems | inductive invariant |
|---|---|---|
| `WorkerRuntimeProofs` | `TypeCorrect`, `LifecycleInvariant`, `ResultStableTheorem`, `Refinement` | `TypeOK`, `LifecycleInv` |
| `WorkerSlotProofs` | `SlotsTrackedTheorem`, `ConcurrencyBoundedTheorem`, `LaunchedOnceTheorem`, `NothingForgottenTheorem`, `UrgentBoundedTheorem` | the one above, `Placement`, `Limits`, `Futures`, `Found`, `Streak` |
| `WorkerJournalProofs` | `TypeCorrect`, `AcceptedDurableTheorem`, `ResultDurableTheorem`, `RecoveredSettledTheorem`, `SequenceIncreasesTheorem`, `ResultFinalTheorem` | `Types`, `Stages`, `Writes`, `Unsent`, `Saved`, `Shown`, `Settled`, `Numbered` |
| `WorkerObserversProofs` | `TypeCorrect`, `DeliveredOnceTheorem` | `TypeOK`, `ChannelOrdered`, `SubOrdered` |
| `AgentTurnProofs` | `TurnInvariant`, `TurnTypeCorrect`, `RequestsPairedTheorem`, `LogAgreesTheorem`, `LogReopensTheorem`, `OnlyInputDroppedTheorem` | `Types`, `Stages` and, until the session diverges, `Faithful`: `Regular`, `Agree`, `Input`, `Rounds` |
| `DirtyGuardProofs` | `TypeCorrect`, `ProtectedRestoredTheorem`, `RollbackExactTheorem`, `ExternalByUserTheorem` | `Types`, `Stages`, `Recorded`, `Guarded`, `Intact`, `Observed`, `Noted`, `Restorable`, `Adoptable`, `RollbackExact` |
| `TaskLeaseProofs` | `TypeCorrect`, `UnsettledKeptTheorem`, `SoleOwnerTheorem` | `Types`, `Exclusive`, `Current`, `Leased`, `Fresh`, `Mutation`, `Decided`, `UnsettledKept` |
| `WorktreeApplyProofs` | `TypeCorrect`, `ParentAccountedTheorem`, `GroupFinalTheorem`, `ReviewedOverwritesTheorem` | `Types`, `Locked`, `Half`, `ParentAccounted`, `Final` |

Each theorem `XTheorem` says that the specification has the property `X` of the
runs, `TypeCorrect` and `TurnTypeCorrect` are `TypeOK`, `Refinement` is
`ImplementsLifecycle`, `TurnInvariant` is the `IInv` of `AgentTurnProofs`.

*Scheduler.*  `ResultStable` is not inductive: `finish` is guarded by the absence of
a result and `emit` by a terminal status, so the two must be known to agree
(`CellsAgree`).  For the refinement, launching must find its worker accepted and
not beyond the queue, which is a fact about where ids travel: from a call that
inserted them (`CallsKnown`) through channel, batch and queues (`QueuedKnown`) to
slots and futures (`StartedKnown`).  Both theorems follow from `NextCellStep`: every
step changes every cell as one step of the lifecycle does, or not at all.  The
limits need more: the counters are right only if a job is never in two places
and has no future while it waits (`Placement`), if a future keeps its slot until
its outcome is received (`Futures`), and if the job in hand has been given its
room (`Limits`).  `Found` is the converse of `Placement`: until shutdown every
unsettled worker is somewhere.

*Journal.*  What callers were told must be what a later start reads.  The argument
follows an append through its lines: `Writes` says what is left of it, `Unsent` that
a worker is not in the file before its turn, `Saved` that what a call has appended
is there if the file can be read, `Shown` that nobody has seen a result of a
worker that may still get one.  `Numbered` bounds the sequences in the file by
the counter in memory, and by what the append in progress is about to add.

*Observers.*  What `recv` has returned, what is left of the replay and what is
ahead in the channel are in this order, and the channel is sorted.

*Agent turn.*  The properties are about whole sequences, so the proof first says what
the operators do to them, position by position.  `AscendingUnique`: an increasing
sequence that lists a set is `Ascending` of it.  With that, appended messages are
rebuilt behind what there was (`MoreMessages`), and a compaction entry over messages
that stand for themselves is rebuilt as a summary in their place, the rest
unmoved (`MoreCompaction`); `Regular` is `Readable` without counting.  `Agree` ties the
three copies together and is kept by `persist_messages`, cut short or not
(`AgreePersist`), and by `apply_summary` with the replacement as the new context
(`AgreeCut`).  `LogAgrees` alone is not inductive: a truncation keeps it only if the
unanswered input is not persisted yet (`Input`), and a range may be replaced only
because the ids in it are those of the log.  `RequestsPaired` is not inductive since
requests are sent from one stage only: `Rounds` says of every stage, and of a log
that has lost its process, that no call or result comes twice, that a result follows its
call in one block of calls and results, that open calls are in the last block, and
that they are the pending ones while tools run.  `ValidRange` looks at the
ends of a range only; `SoundCut` shows that in a sound context this is enough to cut no
round in two, so a job that is revalidated without `splits_pair_by_id` is safe too;
`SoundRepaired` is the repair of a resume.  `Stages` keeps the start of the unanswered
input inside a transcript that the recovery from an overflow replaces.
`OnlyInputDropped` follows from `Input`, step by step.

`LogReopens` was first stated of every session and passed its run.  Its proof does
not go through for a session that has diverged, and for a good reason: TLC,
led along a script, then found a behaviour of 68 states whose log cannot be read
(section 5).  It is now stated, checked and proved for sessions that have not.

*Guard.*  `ProtectedRestored` rests on `Guarded` (the baseline covers what was
dirty, approvals are the user's) and `Intact` (the bytes are on disk, or in the
snapshot of the call that changed them, unless a crash has cut that call off).
`RollbackExact` is about the chain of
restore points: `Noted` (the content before the task is right, and git still has
it for files that are not noted, unless they escaped), `Restorable` (the newest point has what is on
disk, unless a join is still to find it) and `Adoptable` (the same of the record
and the refs after a crash).  `ExternalByUser` rests on `Observed`: if nobody but
Iris acted, clean ledger paths block settlement or the turn's end is still to
be observed.  The attempt to prove `RollbackExact` failed at first for a
good reason: there are further ways in which a file of Iris's comes to look like
the user's edit, which TLC then confirmed.  They are recorded in `skewed` and
described in section 5; TLC finds a violation when any one of the exceptions
`cut`, `lost`, `escaped` and `skewed` is dropped.

*Leases.*  `SoleOwner` needs more than an exclusive `flock`: a lock is on a file,
and the name may have been unlinked and created again.  `Current` says that a
lock is on the file the path names until its owner has unlinked it, which only
happens after a decision that ended the task (`Decided`): in a teardown under the
mutation lock (`Mutation`), in a sweep with the claimed lease alone, for a
namespace that has no record.

*Worktrees.*  The settlement lock is held exactly by the calls that select or
apply (`Locked`), so in the middle of an apply the parent is the review up to
one file and the candidate before it (`Half`).  `ParentAccounted` excuses the files
of an apply that crashed, whose rollback failed or whose receipt could not be written
(it has no rollback), and files the user edited during an apply.  With `Final` the group's choice is
final while the registry keeps its mark.

Only model-checked:

* the liveness properties `CancelSettles`, `SpawnSettles`, `StoppingStops`,
  `WaitReturns`, `BlockReturns`, `OperationsEnd`, `CancelEnds`, since fairness and `ENABLED`
  are out of the prover's reach.

## 5. Where the code and its documentation disagree

The violation runs, one counterexample each (quotations in `PROJECT.json`):

* `shutdown` hangs if a worker is queued: the scheduler locks the worker map and
  `finish` locks it again (`runtime.rs:703`).
* a partial last line is skipped by `recover` but stays in the file, and the next
  record runs into it: the start after that fails with `CorruptRecord`.
* a user's edit of a file Iris wrote earlier is taken into the newest restore point
  by Iris's next checkpoint of another file; it no longer counts as diverged, and
  a rollback overwrites it (`checkpoint.rs:345`).

Also met, and not kept as runs.

*Subagent runtime.*  A `spawn` that passed `ensure_running` before `shutdown` may
return `Ok` for a worker nobody will run, and `wait` on it never returns
("shutdown cancels and joins owned work", the crate's README); two concurrent `spawn`
calls exceed `queue_capacity`, since the check and the insertion are apart; a
crash within `spawn_group` recovers a group whose members cannot be found; an
event sent between replay and subscription reaches no one; a second concurrent
`shutdown` returns `Ok` while the scheduler still runs; a cancelled normal job
that is popped and dropped resets `urgent_streak`; an append that fails after its
line is written is followed by an event with the same sequence (hence the
conditions on `UrgentBounded` and `SequenceIncreases`).

*Agent.*  A cancellation while the governor waits for its second job drops the
future that holds the first, already durable, replacement: the agent keeps the
old messages against the new ids, and the next append and the next plan work on
positions that are off (`nexus.rs:2548`, against the comment at
`compaction_governor.rs:420`).  A message queued while the provider answers with
nothing is merged into a user message that is already in the log, which keeps
the shorter text; a cancellation then truncates below the persisted cursor
(`nexus.rs:2670`, against the comment at `nexus.rs:2646`).  These two are what sets
`diverged`.  An error after a durable apply (the `?` of `govern` and `recover_overflow`) parts the live
context from the log as the dropped future does.  The damage can reach the file: after
a lost replacement the ids are those of other messages, and after a merge
and a cancellation a plan may drop the place of a trailing summary from the id
map; with both, before and after a resume, a later range covers entries an earlier
one covers, and `rebuild_with_compactions` refuses the session (68 states, with one
answer of three calls and one crash; hence the condition on `LogReopens`).

Further: a cancellation of the overflow recovery returns
without truncating, so that the unanswered user message stays; the comment that
at most one call can dangle after a crash is stale, and the repair rightly
handles several; messages queued after the turn has returned are dropped; a
dropped governor leaves its worker running to the end of its job.

*Git safety.*  ADR-0028 claims that "every touch of a pre-existing change is either
blocked, explicitly approved, or restorable from a snapshot"
(`docs/adr/0028-git-workflow-dirty-tree-safety-and-task-checkpointing.md:155`).
The snapshot of a call is in memory only (`snapshot.rs:38`): when the process dies
after a command has overwritten a dirty file and before `after_exec` has restored it, the
user's bytes are gone, and the next start takes the command's for the user's
(hence `cut` in `ProtectedRestored`).  A command that changes and commits a
clean file (`sed -i ... && git commit -am ...`) escapes: the file is not in the
snapshot (`git_safety/mod.rs:1455`), it is clean for `attribution_scan`
(`mod.rs:1131`), so ledger and chain never hear of it and a rollback leaves
Iris's bytes; if the file is dirty again, what the command committed is taken for its pre-task
content (hence `escaped` in `RollbackExact`).  `after_exec` makes its checkpoint
before the loop restores violating files, so the newest point holds their
violating bytes, they look edited by the user and a rollback leaves them; so it
does a file of the chain that a command leaves clean with bytes the newest point does not
have (the scan does not find it), and a file that a call cut off by a crash
took back to what the record expects (hence `skewed`); a restore after
a violation overwrites what the user wrote to that file during the call, and the
scan attributes the user's edits of clean files to Iris, both as ADR-0028 says; a
turn whose only calls failed is not observed at its end, so a commit it made
closes the task as if by the user (hence `unseen` in `ExternalByUser`); after an
adoption the ledger is empty and the next `persist_task` forgets the earlier
paths; a rollback of a task without a checkpoint fails after the task has been taken out
of the state.  A crash of an `accept` between the refs and the record lets
the next start adopt a task without refs, whose chain then counts the accepted
files as created by the task: a rollback after the next checkpoint can delete
them.  `destroy_settled_task`
says that no other process can adopt the task while the lease is held, but the
lease file is unlinked before it is released; `adopt_task` does not read the record
again after its claim and can revive a settled task; an expiry may be decided
on a record that has changed before the claim (hence `ended` in `TaskLease`).

*Worktrees.*  `gc`, `adopt` and `remove` write back records they read before, without
the settlement lock, and can clear `selected` and `applied_to_parent` or bring a
removed record back; the same loss follows from a crash or an error between
the receipt and the record, and from a rebuild after the winner was removed.
Another candidate can then be selected and applied, although "a completed group
apply is final" (`service.rs:459`): `GroupFinal` holds while the mark is kept, and
without that condition TLC finds a behaviour of 17 states that applies both.  A
retried apply does not repair the record.  A failing write of the receipt returns
an error although the parent is written, without rollback, receipt or record
(`apply.rs:447`; hence `ReceiptFails` and the exception of `ParentAccounted`); a crash in the loop of writes leaves a
half-applied parent without a trace; an edit of the user during an apply may be
overwritten.  Two instances can adopt one worktree, capacity is checked without
a lock, and a crash in `create` leaves a worktree nobody knows.

## 6. Plan

In this order, each with its MC module, run and, where stated, theorem:

1. Folds of tool results and the verification loop as further actions of
   `AgentTurn`; an abstract append-only transcript that the session implements while
   `diverged` is false.
2. `restore.rs`; a composition of `DirtyGuard` and `TaskLease` for a crash within a
   settlement.
3. `SessionLog`: torn lines, branches and locks of the session file, below the
   entries of `AgentTurn`; `Goal`, `BashSessions`, `AuthStore`, the approvals and
   settings of the harness actor.

## 7. Not modelled

Rendering, parsing, prompts, wire formats and text tools, which keep no
concurrent state; loss of data the operating system had accepted (`sync_data`
is taken at its word, a kill loses nothing written); two processes on one
journal or one session; memory exhaustion; panics other than the ones an action
models.  Of the modelled parts: folds, verification retries, the approval of a
single call, usage accounting, branches and torn lines of the session file; the
jj, degraded and guard-only modes of git safety, linked worktrees that vanish,
file modes, and failing writes of refs and of the record, which `after_exec` logs before it
goes on (`git_safety/mod.rs:1610`); the pool of prewarmed worktrees and a forced `gc` (Iris calls
neither), `restore.rs`, btrfs snapshots, gitlinks and symlinks, worktrees outside
a group.

The mapped lines are a small part of the repository: most of it is the terminal
interface, wire formats, text tools and tests, whose state is local to one call.

------------------------------ MODULE DirtyGuard ------------------------------
(***************************************************************************)
(* The dirty-tree guard of one process and one Git workspace, with the     *)
(* durable task workflow on (src/wayland/git_safety): a task opens at the  *)
(* first mutating call and protects what was dirty then; each call is      *)
(* snapshotted before and compared after; confirmed changes extend a       *)
(* checkpoint chain that a rollback restores from.  The user edits and     *)
(* commits at any time, also while a tool runs.                            *)
(*                                                                         *)
(* Contents are told apart by who wrote them.  The index and HEAD are one  *)
(* (committed); a hash is the content.  Git itself is external.            *)
(***************************************************************************)
EXTENDS Integers, Sequences, FiniteSets, Functions

CONSTANTS
  Paths,          \* files of the workspace
  Tools,          \* subset of {"write", "bash"}
  Outcomes,       \* bound: what a command may leave in a file and in git
  MaxCalls,       \* bound: tool calls
  MaxUserSteps,   \* bound: edits and commits of the user
  MaxCrashes      \* bound: crashes of the process

Versions == {"disk", "git", "own"}

ASSUME GuardAssumption ==
  /\ IsFiniteSet(Paths) /\ Tools \subseteq {"write", "bash"}
  /\ Outcomes \subseteq [disk : Versions, git : Versions]
  /\ MaxCalls \in Nat /\ MaxUserSteps \in Nat /\ MaxCrashes \in Nat

VARIABLES
  disk,       \* content of every path
  committed,  \* content git has for every path
  task,       \* State::task
  record,     \* the persisted record: what disk must hold, by ledger path
  snapshot,   \* Task::snapshot, of the call in flight
  call,       \* the tool call in flight
  scan,       \* the attribution scan in flight
  turn,       \* a turn runs, and mutated_this_turn
  user,       \* steps of the user so far
  calls,      \* tool calls so far
  crashes,    \* crashes so far
  past        \* history: what the properties compare with

vars == <<disk, committed, task, record, snapshot, call, scan, turn, user, calls,
          crashes, past>>

Absent == <<"absent", 0>>
Repo == <<"repo", 0>>
ByUser(n) == <<"user", n>>
ByIris(n) == <<"iris", n>>
Content ==
  {Absent, Repo} \cup {ByUser(n) : n \in 0..MaxUserSteps} \cup {ByIris(n) : n \in 1..MaxCalls}

NoCall == [phase |-> "none"]
NoScan == [state |-> "none"]
NoRecord == [exists |-> FALSE]
Empty == [p \in {} |-> Absent]

\* Task: the baseline's protected paths, the approvals, the ledger (the last
\* content recorded for each path), the block on external settlement, and the
\* checkpoint chain: pre-task contents and the trees of the restore points.
NoTask ==
  [open |-> FALSE, protected |-> {}, approved |-> {}, allDirty |-> FALSE,
   ledger |-> Empty, blocked |-> FALSE, before |-> Empty, points |-> <<>>]

Dirty == {p \in Paths : disk[p] # committed[p]}

\* ledger_paths_clean_in_git: no path at all is not clean.
Clean(S) == S # {} /\ S \cap Dirty = {}

\* The history of a task that opens now.
NewPast ==
  [atOpen |-> disk,      \* the files then
   openUser |-> user,    \* the user's steps until then
   dirty |-> Dirty,      \* the files that were dirty then
   allowed |-> {},       \* those the user let Iris change
   cut |-> {},           \* those a call cut off by a crash had changed
   touched |-> {},       \* files the user touched since
   lost |-> {},          \* changes that a crash left out of the record
   escaped |-> {},       \* files a command committed before the guard knew them
   skewed |-> {},        \* files that only Iris changed and the newest point has otherwise
   closed |-> "no",      \* how the task ended
   marked |-> FALSE,     \* the user asked for a checkpoint
   acted |-> TRUE,       \* since the last observed end of a turn: the user acted
   unseen |-> FALSE]     \* since then: a call ended without a success

Init ==
  /\ committed \in [Paths -> {Repo, Absent}]
  /\ disk \in [Paths -> {Repo, Absent, ByUser(0)}]
  /\ \A p \in Paths : disk[p] \in {committed[p], ByUser(0)}
  /\ task = NoTask /\ record = NoRecord /\ snapshot = Empty
  /\ call = NoCall /\ scan = NoScan
  /\ turn = [runs |-> FALSE, mutated |-> FALSE]
  /\ user = 0 /\ calls = 0 /\ crashes = 0
  /\ past = [NewPast EXCEPT !.dirty = {}]

-----------------------------------------------------------------------------
(* The task's operators: a task before and after one of its operations.    *)

\* The function f, and g where f is not defined.
Over(f, g) == [p \in DOMAIN f \cup DOMAIN g |-> IF p \in DOMAIN f THEN f[p] ELSE g[p]]

\* CheckpointChain::note_before: the first content noted for a path stays.
NoteBefore(t, pre) == [t EXCEPT !.before = Over(@, pre)]

\* The newest restore point.
Newest(t) == t.points[Len(t.points)]

\* CheckpointChain::checkpoint: the disk content of every noted path.
Checkpoint(t) == [t EXCEPT !.points = Append(@, Restrict(disk, DOMAIN t.before))]

\* Ledger::record: later entries win.
Ledgered(t, after) == [t EXCEPT !.ledger = Over(after, @)]

\* persist_task: the record holds what the in-memory ledger holds.
Persisted(t) == [exists |-> TRUE, expected |-> t.ledger]

\* What the scan found or, when it has not run yet, finds now: join waits.
ScanResult ==
  IF scan.state = "done" THEN scan.found ELSE Restrict(disk, Dirty \ scan.baseline)

\* join_attribution_scan: every path found is Iris's; its pre-task content is
\* what git has now.
Joined(t) ==
  IF scan = NoScan \/ ~t.open THEN t
  ELSE LET found == ScanResult
           noted == NoteBefore(Ledgered(t, found), Restrict(committed, DOMAIN found))
       IN IF DOMAIN found = {} THEN t ELSE Checkpoint(noted)

JoinedRecord(t) == IF scan = NoScan \/ ~t.open THEN record ELSE Persisted(Joined(t))

\* Faulty variants (names in Faulty...) are what the mutation runs put in
\* the place of the definition that follows them.
FaultySettleUnblocked(t) ==
  IF t.open /\ Clean(DOMAIN t.ledger) THEN NoTask ELSE t

\* settle_external_if_clean: the ledger's paths became clean in git, not by
\* Iris's own execution.  destroy_settled_task removes refs and record.
SettledIfClean(t) ==
  IF ~t.open \/ DOMAIN t.ledger = {} THEN t
  ELSE IF ~Clean(DOMAIN t.ledger) THEN [t EXCEPT !.blocked = FALSE]
  ELSE IF t.blocked THEN t ELSE NoTask

\* sync_barrier
Synced == SettledIfClean(Joined(task))

\* The record and the history after a barrier that may have closed the task.
SyncedRecord == IF task.open /\ ~Synced.open THEN NoRecord ELSE JoinedRecord(task)
SyncedPast == IF task.open /\ ~Synced.open THEN [past EXCEPT !.closed = "external"] ELSE past

Boundary == ~turn.runs /\ call = NoCall

-----------------------------------------------------------------------------
(* One mutating call: run_gated_single around the guard.                   *)

BeginTurn ==
  /\ Boundary /\ calls < MaxCalls /\ past.closed # "crashed"
  /\ turn' = [runs |-> TRUE, mutated |-> FALSE]
  /\ UNCHANGED <<disk, committed, task, record, snapshot, call, scan, user, calls, crashes, past>>

\* note_mutation and unapproved_protected.  A new task captures its baseline.
StartCall(tool, targets) ==
  /\ turn.runs /\ call = NoCall /\ calls < MaxCalls
  /\ tool \in Tools /\ (tool = "bash") = (targets = {})
  /\ calls' = calls + 1
  /\ LET joined == Joined(task)
         opened == IF joined.open THEN joined
                   ELSE [NoTask EXCEPT !.open = TRUE, !.protected = Dirty]
         gated == IF opened.allDirty THEN {}
                  ELSE (targets \cap opened.protected) \ opened.approved
     IN /\ task' = opened
        /\ record' = IF task.open THEN JoinedRecord(task) ELSE Persisted(opened)
        /\ past' = IF task.open THEN past
                   ELSE [NewPast EXCEPT !.acted = past.acted, !.unseen = past.unseen]
        /\ call' = [phase |-> IF gated = {} THEN "ready" ELSE "gate", tool |-> tool,
                    targets |-> targets, gated |-> gated]
  /\ scan' = NoScan
  /\ UNCHANGED <<disk, committed, snapshot, turn, user, crashes>>

\* The approval gate: this file, or every dirty file of the task.
Allow(all) ==
  /\ call.phase = "gate"
  /\ call' = [call EXCEPT !.phase = "ready"]
  /\ task' = IF all THEN [task EXCEPT !.allDirty = TRUE]
                    ELSE [task EXCEPT !.approved = @ \cup call.gated]
  /\ past' = [past EXCEPT !.allowed = @ \cup (IF all THEN past.dirty ELSE call.gated)]
  /\ UNCHANGED <<disk, committed, record, snapshot, scan, turn, user, calls, crashes>>

Deny ==
  /\ call.phase = "gate"
  /\ call' = NoCall
  /\ UNCHANGED <<disk, committed, task, record, snapshot, scan, turn, user, calls, crashes, past>>

FaultyCaptureTargets == IF call.targets = {} THEN {} ELSE task.protected \cup call.targets

\* The paths before_exec snapshots.
Captured == task.protected \cup call.targets

BeforeExec ==
  /\ call.phase = "ready"
  /\ snapshot' = Restrict(disk, Captured)
  /\ call' = [call EXCEPT !.phase = "exec"]
  /\ UNCHANGED <<disk, committed, task, record, scan, turn, user, calls, crashes, past>>

\* What a file or git holds after a command: what the file or git held, or
\* bytes of the command.
Version(p, v) ==
  CASE v = "disk" -> disk[p] [] v = "git" -> committed[p] [] OTHER -> ByIris(calls)

\* A command writes, reverts and commits any files, in any order, in one call.
Command(left) ==
  /\ disk' = [p \in Paths |-> Version(p, left[p].disk)]
  /\ committed' = [p \in Paths |-> Version(p, left[p].git)]

\* History: files the guard knows nothing of, for which the command left other
\* bytes in git than the task began with.  They are clean and no scan finds
\* them, or the scan takes these bytes for the pre-task content.
Escaped == {p \in Paths \ (task.protected \cup DOMAIN task.before) :
              committed'[p] # past.atOpen[p]}

\* History: files of the chain that the command left clean, so that no scan
\* finds them, with neither the pre-task content nor that of the newest point.
Missed == {p \in DOMAIN task.before \ task.protected :
             /\ disk'[p] = committed'[p]
             /\ disk'[p] \notin {past.atOpen[p], Newest(task)[p]}}

\* run_tool.  A write changes its target.  A call may fail or be cancelled
\* after it has changed something.
RunTool(ok) ==
  /\ call.phase = "exec"
  /\ \/ /\ call.tool = "write"
        /\ \E written \in {call.targets} \cup (IF ok THEN {} ELSE {{}}) :
             disk' = [p \in Paths |-> IF p \in written THEN ByIris(calls) ELSE disk[p]]
        /\ UNCHANGED <<committed, past>>
     \/ /\ call.tool = "bash"
        /\ \E left \in [Paths -> Outcomes] : Command(left)
        /\ past' = [past EXCEPT !.escaped = @ \cup Escaped, !.skewed = @ \cup Missed]
  /\ call' = [phase |-> "after", tool |-> call.tool, targets |-> call.targets, ok |-> ok]
  /\ UNCHANGED <<task, record, snapshot, scan, turn, user, calls, crashes>>

\* Snapshot::changed_paths
Changed == {p \in DOMAIN snapshot : disk[p] # snapshot[p]}

\* A target whose bytes are the ones the tool reported, or a path approved
\* for a command.
Confirmed ==
  {p \in Changed :
     \/ call.tool = "write" /\ p \in call.targets /\ call.ok /\ disk[p] = ByIris(calls)
     \/ call.tool = "bash" /\ (task.allDirty \/ p \in task.approved)}

\* after_exec: confirmed changes go to ledger, baseline and chain; the others
\* are violations.  A command starts the next attribution scan, after the
\* previous one is joined.  The writes of refs and record succeed here; the
\* code logs a failure and goes on.
AfterExec ==
  /\ call.phase = "after"
  /\ LET noted == NoteBefore(Ledgered(task, Restrict(disk, Confirmed)),
                             Restrict(snapshot, Confirmed))
         advanced == IF Confirmed = {} THEN task
                     ELSE Checkpoint([noted EXCEPT !.protected = @ \cup Confirmed])
         saved == IF Confirmed = {} THEN record ELSE Persisted(advanced)
     IN /\ task' = advanced
        /\ record' = saved
        /\ scan' = IF call.tool = "bash"
                   THEN [state |-> "running", baseline |-> advanced.protected] ELSE scan
  /\ call' = IF Changed = Confirmed THEN NoCall
             ELSE [phase |-> "restore", paths |-> Changed \ Confirmed]
  /\ turn' = [turn EXCEPT !.mutated = @ \/ (call.ok /\ Changed = Confirmed)]
  /\ past' = [past EXCEPT !.unseen = @ \/ ~(call.ok /\ Changed = Confirmed),
                           !.skewed = IF Confirmed = {} THEN @ ELSE Changed \ Confirmed]
  /\ UNCHANGED <<disk, committed, snapshot, user, calls, crashes>>

\* restore, for the violating paths: the bytes from before the call.
Restore ==
  /\ call.phase = "restore"
  /\ disk' = [p \in Paths |-> IF p \in call.paths THEN snapshot[p] ELSE disk[p]]
  /\ call' = NoCall
  /\ UNCHANGED <<committed, task, record, snapshot, scan, turn, user, calls, crashes, past>>

\* The scan thread looks at git status, at some moment before it is joined.
ScanRun ==
  /\ scan.state = "running"
  /\ scan' = [state |-> "done", found |-> Restrict(disk, Dirty \ scan.baseline)]
  /\ UNCHANGED <<disk, committed, task, record, snapshot, call, turn, user, calls, crashes, past>>

FaultyEndTurnEarly ==
  /\ turn.runs
  /\ turn' = [turn EXCEPT !.runs = FALSE]
  /\ UNCHANGED <<disk, committed, task, record, scan, snapshot, call, user, calls, crashes, past>>

\* The end of a turn: observe_iris_execution_boundary, if a call succeeded.
EndTurn ==
  /\ turn.runs /\ call = NoCall
  /\ turn' = [turn EXCEPT !.runs = FALSE]
  /\ IF ~turn.mutated THEN UNCHANGED <<task, record, scan, past>>
     ELSE LET joined == Joined(task) IN
          /\ task' = IF joined.open /\ DOMAIN joined.ledger # {}
                     THEN [joined EXCEPT !.blocked = Clean(DOMAIN joined.ledger)] ELSE joined
          /\ record' = JoinedRecord(task)
          /\ scan' = NoScan
          /\ past' = [past EXCEPT !.acted = FALSE, !.unseen = FALSE]
  /\ UNCHANGED <<disk, committed, snapshot, call, user, calls, crashes>>

-----------------------------------------------------------------------------
(* Settlement, between turns.                                              *)

\* restore_points, mutation_paths, task_diff, drain_external_settlements.
Barrier ==
  /\ Boundary /\ task.open
  /\ task' = Synced /\ record' = SyncedRecord /\ past' = SyncedPast
  /\ scan' = NoScan
  /\ UNCHANGED <<disk, committed, snapshot, call, turn, user, calls, crashes>>

\* A session swap: discard_approvals.
DiscardApprovals ==
  /\ Boundary /\ task.open
  /\ task' = [task EXCEPT !.approved = {}, !.allDirty = FALSE]
  /\ UNCHANGED <<disk, committed, record, snapshot, call, scan, turn, user, calls, crashes, past>>

\* checkpoint_now
CheckpointNow ==
  /\ Boundary /\ Synced.open /\ Len(Synced.points) < MaxCalls
  /\ task' = Checkpoint(Synced)
  /\ record' = Persisted(Synced) /\ past' = [SyncedPast EXCEPT !.marked = TRUE]
  /\ scan' = NoScan
  /\ UNCHANGED <<disk, committed, snapshot, call, turn, user, calls, crashes>>

\* accept
Accept ==
  /\ Boundary /\ Synced.open
  /\ task' = NoTask /\ record' = NoRecord
  /\ past' = [past EXCEPT !.closed = "accepted"]
  /\ scan' = NoScan
  /\ UNCHANGED <<disk, committed, snapshot, call, turn, user, calls, crashes>>

\* The tree of a restore point; 0 is the pre-task base, which exists once a
\* checkpoint has been made.
Tree(t, seq) == IF seq = 0 THEN t.before ELSE t.points[seq]

\* diverged_from_tip: noted paths whose content is not the newest point's.
Diverged(t) ==
  {p \in DOMAIN t.before :
     p \notin DOMAIN Newest(t) \/ disk[p] # Newest(t)[p]}

\* rollback_to_excluding: a noted path that the tree lacks is deleted.
Restored(t, seq) ==
  [p \in Paths |->
     IF p \notin DOMAIN t.before \ Diverged(t) THEN disk[p]
     ELSE IF p \in DOMAIN Tree(t, seq) THEN Tree(t, seq)[p] ELSE Absent]

\* rollback.  The user's index is restored too; it is one with committed here.
\* Without a checkpoint the ref is missing: the call fails and the task, taken
\* out of the state before, is gone while its record stays.
Rollback(seq) ==
  /\ Boundary /\ Synced.open /\ seq <= Len(Synced.points)
  /\ task' = NoTask /\ scan' = NoScan
  /\ IF Synced.points = <<>>
     THEN /\ record' = SyncedRecord /\ disk' = disk
          /\ past' = [past EXCEPT !.closed = "failed"]
     ELSE /\ record' = NoRecord /\ disk' = Restored(Synced, seq)
          /\ past' = [past EXCEPT !.closed = IF seq = 0 THEN "rolled" ELSE "partly"]
  /\ UNCHANGED <<committed, snapshot, call, turn, user, calls, crashes>>

-----------------------------------------------------------------------------
(* The user, a crash, and the next start of the process.                   *)

UserEdit(p) ==
  /\ user < MaxUserSteps /\ user' = user + 1
  /\ \E c \in {ByUser(user + 1), committed[p]} :
       /\ c # disk[p]
       /\ disk' = [disk EXCEPT ![p] = c]
  /\ past' = [past EXCEPT !.touched = @ \cup {p}, !.acted = TRUE]
  /\ UNCHANGED <<committed, task, record, snapshot, call, scan, turn, calls, crashes>>

UserCommit(p) ==
  /\ user < MaxUserSteps /\ user' = user + 1
  /\ p \in Dirty
  /\ committed' = [committed EXCEPT ![p] = disk[p]]
  /\ past' = [past EXCEPT !.touched = @ \cup {p}, !.acted = TRUE]
  /\ UNCHANGED <<disk, task, record, snapshot, call, scan, turn, calls, crashes>>

\* History: what the call in flight has changed and has not restored.
Unrestored ==
  {p \in Changed : \/ call.phase = "after"
                   \/ call.phase = "restore" /\ p \in call.paths}

\* Only the record and the refs survive; the snapshot was in memory.  cut: files
\* the call in flight has changed and nobody can restore.  lost: changed paths
\* the record does not name.  skewed: paths that hold what the record says, so
\* that no recovery point is made, while the newest point has them otherwise.
Crash ==
  /\ crashes < MaxCrashes /\ crashes' = crashes + 1
  /\ task.open /\ record.exists
  /\ task' = [task EXCEPT !.open = FALSE]
  /\ snapshot' = Empty /\ call' = NoCall /\ scan' = NoScan
  /\ turn' = [runs |-> FALSE, mutated |-> FALSE]
  /\ past' = [past EXCEPT !.closed = "crashed", !.unseen = TRUE,
                !.cut = @ \cup Unrestored,
                !.skewed = @ \cup {p \in DOMAIN record.expected :
                                     /\ disk[p] = record.expected[p]
                                     /\ disk[p] # Newest(task)[p]},
                !.lost = @ \cup ({p \in Paths : disk[p] # past.atOpen[p]}
                                  \ DOMAIN record.expected)]
  /\ UNCHANGED <<disk, committed, record, user, calls>>

FaultyRecoveryTree(refs, diverged) == Restrict(disk, diverged)

\* append_recovery: the newest point with the diverged paths' content now.
RecoveryTree(refs, diverged) ==
  Over(Restrict(disk, diverged), Tree(refs, Len(refs.points)))

\* diverged_paths: the record's paths that do not hold what it says.
DivergedPaths == {p \in DOMAIN record.expected : disk[p] # record.expected[p]}

\* rehydrate_task: a new baseline, the chain as loaded for the record's paths,
\* no approvals and an empty ledger.
Rehydrated(refs, points) ==
  [NoTask EXCEPT !.open = TRUE, !.protected = Dirty,
                 !.before = Restrict(refs.before, DOMAIN record.expected), !.points = points]

\* recover_and_expire: a record whose paths are all clean is dropped, another
\* one is adopted, with a recovery point for what diverged.
Recover ==
  /\ past.closed = "crashed" /\ record.exists
  /\ LET points == IF DivergedPaths = {} \/ task.points = <<>> THEN task.points
                   ELSE Append(task.points, RecoveryTree(task, DivergedPaths))
     IN IF Clean(DOMAIN record.expected)
        THEN /\ task' = NoTask /\ record' = NoRecord
             /\ past' = [past EXCEPT !.closed = "expired"]
        ELSE /\ task' = Rehydrated(task, points)
             /\ past' = [past EXCEPT !.closed = "no", !.dirty = @ \cap Dirty]
             /\ UNCHANGED record
  /\ UNCHANGED <<disk, committed, snapshot, call, scan, turn, user, calls, crashes>>

Next ==
  \/ BeginTurn
  \/ \E tool \in Tools : \E targets \in {{}} \cup {{p} : p \in Paths} : StartCall(tool, targets)
  \/ \E all \in BOOLEAN : Allow(all)
  \/ Deny \/ BeforeExec
  \/ \E ok \in BOOLEAN : RunTool(ok)
  \/ AfterExec \/ Restore \/ ScanRun \/ EndTurn
  \/ Barrier \/ DiscardApprovals \/ CheckpointNow \/ Accept
  \/ \E seq \in 0..MaxCalls : Rollback(seq)
  \/ \E p \in Paths : UserEdit(p) \/ UserCommit(p)
  \/ Crash \/ Recover

Spec == Init /\ [][Next]_vars

-----------------------------------------------------------------------------
(* Properties.                                                             *)

Partial == UNION {[S -> Content] : S \in SUBSET Paths}

\* The types; a call is in flight only inside a turn with an open task, a scan
\* only while a task is open.
TypeOK ==
  /\ disk \in [Paths -> Content] /\ committed \in [Paths -> Content]
  /\ task.protected \subseteq Paths /\ task.approved \subseteq Paths
  /\ task.ledger \in Partial /\ task.before \in Partial /\ snapshot \in Partial
  /\ \A i \in DOMAIN task.points : task.points[i] \in Partial
  /\ record.exists => record.expected \in Partial
  /\ call # NoCall => turn.runs /\ task.open
  /\ scan # NoScan => task.open
  /\ user \in 0..MaxUserSteps /\ calls \in 0..MaxCalls /\ crashes \in 0..MaxCrashes

\* Between calls of an open task, a file that was dirty when the task opened,
\* that the user neither touched nor let Iris change, holds the bytes it had:
\* gate, snapshot, comparison and restore together keep every call, also a
\* failed or cancelled one and an arbitrary command, off the user's work.  Not
\* a crash: the snapshot is in memory only, so what a call had changed when the
\* process died (past.cut) keeps the call's bytes.
ProtectedRestored ==
  task.open /\ call = NoCall =>
    \A p \in past.dirty \ (past.allowed \cup past.touched \cup past.cut) :
      disk[p] = past.atOpen[p]

\* After a rollback to the pre-task baseline, every file the user left alone
\* is as it was when the task opened, whatever the order of writes, commands,
\* joins of the scan, checkpoints, crash and adoption.  Left out are
\*  - changes not yet in the record at a crash (lost);
\*  - files, not yet in the chain, of which a command committed other bytes:
\*    clean, they are never attributed to Iris; dirty, their pre-task content
\*    is taken from that commit (escaped);
\*  - files that look edited by the user (skewed): a command changed them beside
\*    an approved file (the point is made before they are restored), left them
\*    clean with bytes that no point has (no scan finds them), or took them to
\*    what the record says and was cut off by a crash (no recovery point).
RollbackExact ==
  past.closed = "rolled" =>
    \A p \in Paths \ (past.touched \cup past.lost \cup past.escaped \cup past.skewed) :
      disk[p] = past.atOpen[p]

\* A task is closed as settled outside Iris only if the user acted since Iris
\* last observed the end of a turn of its own, or a call of a turn since then
\* ended without a success (the end of such a turn is not observed): a commit
\* made by Iris's own command is not taken for the user's acceptance.
ExternalByUser ==
  [][past'.closed = "external" /\ past.closed # "external" => past.acted \/ past.unseen]_vars

\* A rollback of a task the user has not checkpointed explicitly leaves alone
\* every file whose bytes the user wrote since the task opened ("a user edit
\* after Iris's last write is never clobbered by rollback", checkpoint_tests.rs).
RollbackKeepsUser ==
  [][past'.closed \in {"rolled", "partly"} /\ past.closed = "no" /\ ~past.marked =>
       \A p \in Paths :
         (\E n \in past.openUser + 1 .. user : disk[p] = ByUser(n)) => disk'[p] = disk[p]]_vars
=============================================================================

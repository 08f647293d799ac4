------------------------------ MODULE TaskLease ------------------------------
(***************************************************************************)
(* The files that several Iris processes of one repository share for their *)
(* durable tasks (src/wayland/git_safety): a record per task, its          *)
(* checkpoint refs, a lease file per task that its owner keeps locked, and *)
(* a mutation lock around every sequence of writes.  A step is what runs   *)
(* between two looks at a shared file; a crash comes between any two.      *)
(*                                                                         *)
(* flock locks the file that was opened, not its name: a lock file that is *)
(* unlinked while it is locked leaves the name free for a second lock.     *)
(* What a task contains is DirtyGuard's subject.  git, flock are external. *)
(***************************************************************************)
EXTENDS Integers, FiniteSets

CONSTANTS
  Procs,        \* processes
  Tasks,        \* task ids; an id is opened once
  None,
  MaxCrashes    \* bound: crashes

ASSUME LeaseAssumption ==
  /\ IsFiniteSet(Procs) /\ IsFiniteSet(Tasks) /\ None \notin Procs \cup Tasks
  /\ MaxCrashes \in Nat

VARIABLES
  record,   \* tasks with a record file
  refs,     \* tasks with checkpoint refs
  path,     \* the lock file a task's lease path names, 0 for none
  opened,   \* task ids in use
  held,     \* per process, the <<task, file>> locks it holds
  mutex,    \* who holds the mutation lock
  task,     \* per process, State::task
  op,       \* per process, the operation it is in
  crashes,
  past      \* history: tasks recorded, checkpointed, and ended by a decision

vars == <<record, refs, path, opened, held, mutex, task, op, crashes, past>>

\* More names of files than locks can be held, with 0 for no file.
Files == 1 .. 2 * Cardinality(Procs) + 1

Idle == [at |-> "idle"]
At(p, where) == op[p].at = where
Goto(p, where) == op' = [op EXCEPT ![p].at = where]
Return(p) == op' = [op EXCEPT ![p] = Idle]

Init ==
  /\ record = {} /\ refs = {}
  /\ path = [t \in Tasks |-> 0] /\ opened = {}
  /\ held = [p \in Procs |-> {}] /\ mutex = None
  /\ task = [p \in Procs |-> None] /\ op = [p \in Procs |-> Idle]
  /\ crashes = 0
  /\ past = [recorded |-> {}, pointed |-> {}, ended |-> {}]

-----------------------------------------------------------------------------
(* The locks.                                                              *)

\* try_exclusive: the file at the path, created when missing, is not locked.
Free(t) == path[t] = 0 \/ \A q \in Procs : <<t, path[t]>> \notin held[q]

\* open_lock_file: O_CREAT.  A new file is none of those still open.
File(t) == IF path[t] # 0 THEN path[t]
           ELSE CHOOSE i \in Files : \A q \in Procs : <<t, i>> \notin held[q]

Claim(p, t) ==
  /\ path' = [path EXCEPT ![t] = File(t)]
  /\ held' = [held EXCEPT ![p] = @ \cup {<<t, File(t)>>}]

\* Dropping the guards of one task.
Released(p, t) == [held EXCEPT ![p] = {l \in @ : l[1] # t}]

-----------------------------------------------------------------------------
(* A task's life in its own process.                                       *)

\* note_mutation: the lease first, then the record, then the task is active.
OpenLease(p, t) ==
  /\ At(p, "idle") /\ task[p] = None /\ t \notin opened
  /\ opened' = opened \cup {t}
  /\ Claim(p, t)
  /\ op' = [op EXCEPT ![p] = [at |-> "open", task |-> t]]
  /\ UNCHANGED <<record, refs, mutex, task, crashes, past>>

OpenPersist(p) ==
  /\ At(p, "open") /\ mutex = None
  /\ record' = record \cup {op[p].task}
  /\ past' = [past EXCEPT !.recorded = @ \cup {op[p].task}]
  /\ task' = [task EXCEPT ![p] = op[p].task]
  /\ Return(p)
  /\ UNCHANGED <<refs, path, opened, held, mutex, crashes>>

\* after_exec, join_attribution_scan, checkpoint_now: refs without the
\* mutation lock, then the record under it.
CheckpointRefs(p) ==
  /\ At(p, "idle") /\ task[p] # None
  /\ refs' = refs \cup {task[p]}
  /\ past' = [past EXCEPT !.pointed = @ \cup {task[p]}]
  /\ op' = [op EXCEPT ![p] = [at |-> "persist"]]
  /\ UNCHANGED <<record, path, opened, held, mutex, task, crashes>>

PersistTask(p) ==
  /\ At(p, "persist") /\ mutex = None
  /\ record' = record \cup {task[p]}
  /\ Return(p)
  /\ UNCHANGED <<refs, path, opened, held, mutex, task, crashes, past>>

\* accept, external settlement, rollback: the task is taken out of the state.
Settle(p, how) ==
  /\ At(p, "idle") /\ task[p] # None
  /\ op' = [op EXCEPT ![p] = [at |-> "refs", task |-> task[p], how |-> how]]
  /\ task' = [task EXCEPT ![p] = None]
  /\ past' = [past EXCEPT !.ended = @ \cup {task[p]}]
  /\ UNCHANGED <<record, refs, path, opened, held, mutex, crashes>>

\* destroy_settled_task, and the teardown of rollback and of expire_stale.
\* rollback takes the mutation lock twice, for the refs and for the files.
DestroyRefs(p) ==
  /\ At(p, "refs") /\ mutex = None
  /\ refs' = refs \ {op[p].task}
  /\ mutex' = IF op[p].how = "rollback" THEN None ELSE p
  /\ Goto(p, "record")
  /\ UNCHANGED <<record, path, opened, held, task, crashes, past>>

\* task_state::remove, in two steps; the mutation lock is released after.
RemoveRecord(p) ==
  /\ At(p, "record")
  /\ mutex = IF op[p].how = "rollback" THEN None ELSE p
  /\ record' = record \ {op[p].task}
  /\ mutex' = p
  /\ Goto(p, "unlink")
  /\ UNCHANGED <<refs, path, opened, held, task, crashes, past>>

RemoveLease(p) ==
  /\ At(p, "unlink")
  /\ path' = [path EXCEPT ![op[p].task] = 0]
  /\ mutex' = None
  /\ Goto(p, "drop")
  /\ UNCHANGED <<record, refs, opened, held, task, crashes, past>>

DropLease(p) ==
  /\ At(p, "drop")
  /\ held' = Released(p, op[p].task)
  /\ Return(p)
  /\ UNCHANGED <<record, refs, path, opened, mutex, task, crashes, past>>

-----------------------------------------------------------------------------
(* Recovery: expiry, the sweep of refs, the list of tasks, adoption.       *)

\* expire_stale: a record that load_all returned is old, or clean in git.
ExpireRead(p, t) ==
  /\ At(p, "idle") /\ t \in record
  /\ op' = [op EXCEPT ![p] = [at |-> "expire", task |-> t]]
  /\ UNCHANGED <<record, refs, path, opened, held, mutex, task, crashes, past>>

ExpireClaim(p) ==
  /\ At(p, "expire")
  /\ LET t == op[p].task IN
     IF Free(t)
     THEN /\ Claim(p, t)
          /\ op' = [op EXCEPT ![p] = [at |-> "refs", task |-> t, how |-> "expire"]]
          /\ past' = [past EXCEPT !.ended = @ \cup {t}]
     ELSE Return(p) /\ UNCHANGED <<path, held, past>>
  /\ UNCHANGED <<record, refs, opened, mutex, task, crashes>>

\* sweep_orphan_checkpoint_refs: the refs are listed before the records.
SweepList(p) ==
  /\ At(p, "idle") /\ refs # {}
  /\ op' = [op EXCEPT ![p] = [at |-> "listed", ids |-> refs]]
  /\ UNCHANGED <<record, refs, path, opened, held, mutex, task, crashes, past>>

FaultyRecorded(p) == {t \in record : t = task[p]}

\* The records of every git dir of the repository.
Recorded(p) == record

NextSweep(p, todo) ==
  op' = [op EXCEPT ![p] = IF todo = {} THEN Idle ELSE [at |-> "sweep", ids |-> todo]]

SweepRecords(p) ==
  /\ At(p, "listed")
  /\ NextSweep(p, op[p].ids \ Recorded(p))
  /\ UNCHANGED <<record, refs, path, opened, held, mutex, task, crashes, past>>

\* claim_existing_leases: a missing lock file is not created.
SweepClaim(p, t) ==
  /\ At(p, "sweep") /\ t \in op[p].ids
  /\ LET todo == op[p].ids \ {t}
         next == [at |-> "sweepRefs", task |-> t, ids |-> todo, claimed |-> path[t] # 0]
     IN IF ~Free(t) THEN NextSweep(p, todo) /\ UNCHANGED held
        ELSE /\ op' = [op EXCEPT ![p] = next]
             /\ held' = IF path[t] = 0 THEN held ELSE [held EXCEPT ![p] = @ \cup {<<t, path[t]>>}]
  /\ UNCHANGED <<record, refs, path, opened, mutex, task, crashes, past>>

SweepRefs(p) ==
  /\ At(p, "sweepRefs") /\ mutex = None
  /\ refs' = refs \ {op[p].task}
  /\ Goto(p, "sweepUnlink")
  /\ UNCHANGED <<record, path, opened, held, mutex, task, crashes, past>>

SweepUnlink(p) ==
  /\ At(p, "sweepUnlink")
  /\ path' = IF op[p].claimed THEN [path EXCEPT ![op[p].task] = 0] ELSE path
  /\ held' = Released(p, op[p].task)
  /\ NextSweep(p, op[p].ids)
  /\ UNCHANGED <<record, refs, opened, mutex, task, crashes, past>>

\* recoverable_tasks: is_lease_free opens the lease path, which creates it,
\* and lets go of the lock at once; a claim polls for longer than that.
ProbeRead(p, t) ==
  /\ At(p, "idle") /\ t \in record
  /\ op' = [op EXCEPT ![p] = [at |-> "probe", task |-> t]]
  /\ UNCHANGED <<record, refs, path, opened, held, mutex, task, crashes, past>>

FaultyProbe(p) ==
  /\ At(p, "probe")
  /\ path' = [path EXCEPT ![op[p].task] = 0]
  /\ Return(p)
  /\ UNCHANGED <<record, refs, opened, held, mutex, task, crashes, past>>

Probe(p) ==
  /\ At(p, "probe")
  /\ path' = [path EXCEPT ![op[p].task] = File(op[p].task)]
  /\ Return(p)
  /\ UNCHANGED <<record, refs, opened, held, mutex, task, crashes, past>>

\* adopt_task: the record is read, then the lease claimed; the record is not
\* read again.
AdoptRead(p, t) ==
  /\ At(p, "idle") /\ task[p] = None /\ t \in record
  /\ op' = [op EXCEPT ![p] = [at |-> "adopt", task |-> t]]
  /\ UNCHANGED <<record, refs, path, opened, held, mutex, task, crashes, past>>

AdoptClaim(p) ==
  /\ At(p, "adopt")
  /\ IF Free(op[p].task) THEN Claim(p, op[p].task) /\ Goto(p, "rehydrate")
     ELSE Return(p) /\ UNCHANGED <<path, held>>
  /\ UNCHANGED <<record, refs, opened, mutex, task, crashes, past>>

\* append_recovery leaves a task without refs alone; rehydrate_task saves the
\* record when another session adopts it.
Rehydrate(p, otherSession) ==
  /\ At(p, "rehydrate") /\ mutex = None
  /\ record' = IF otherSession THEN record \cup {op[p].task} ELSE record
  /\ task' = [task EXCEPT ![p] = op[p].task]
  /\ Return(p)
  /\ UNCHANGED <<refs, path, opened, held, mutex, crashes, past>>

FaultyLocksAfter(p) == <<[held EXCEPT ![p] = {}], mutex>>

\* The kernel releases the locks of a process that dies.
LocksAfter(p) == <<[held EXCEPT ![p] = {}], IF mutex = p THEN None ELSE mutex>>

Crash(p) ==
  /\ crashes < MaxCrashes /\ crashes' = crashes + 1
  /\ held' = LocksAfter(p)[1] /\ mutex' = LocksAfter(p)[2]
  /\ task' = [task EXCEPT ![p] = None]
  /\ Return(p)
  /\ UNCHANGED <<record, refs, path, opened, past>>

\* What a process does once it has begun.
Proceed(p) ==
  \/ OpenPersist(p) \/ PersistTask(p)
  \/ DestroyRefs(p) \/ RemoveRecord(p) \/ RemoveLease(p) \/ DropLease(p)
  \/ ExpireClaim(p) \/ SweepRecords(p) \/ (\E t \in Tasks : SweepClaim(p, t))
  \/ SweepRefs(p) \/ SweepUnlink(p) \/ Probe(p) \/ AdoptClaim(p)
  \/ \E otherSession \in BOOLEAN : Rehydrate(p, otherSession)

Begin(p) ==
  \/ \E t \in Tasks : OpenLease(p, t) \/ ExpireRead(p, t) \/ ProbeRead(p, t) \/ AdoptRead(p, t)
  \/ CheckpointRefs(p) \/ SweepList(p)
  \/ \E how \in {"accept", "rollback"} : Settle(p, how)

Next == \E p \in Procs : Proceed(p) \/ Begin(p) \/ Crash(p)

Spec == Init /\ [][Next]_vars

\* A process that runs goes on; flock serves the waiters of the mutation lock.
FairSpec == Spec /\ \A p \in Procs : SF_vars(Proceed(p))

-----------------------------------------------------------------------------
(* Properties.                                                             *)

Holders(t) == {p \in Procs : \E l \in held[p] : l[1] = t}

\* The types; who has a task active, or tears one down, holds a lease on it;
\* the mutation lock is held only inside a teardown.
TypeOK ==
  /\ opened \subseteq Tasks
  /\ path \in [Tasks -> {0} \cup Files] /\ record \cup refs \subseteq opened
  /\ \A p \in Procs : /\ held[p] \subseteq Tasks \X Files
                      /\ task[p] # None => p \in Holders(task[p])
                      /\ op[p].at \in {"refs", "record", "unlink", "drop"} => p \in Holders(op[p].task)
  /\ mutex # None => op[mutex].at \in {"record", "unlink"}

\* A task that nobody settled or expired keeps its record and its refs,
\* whatever the other processes sweep, probe or adopt and wherever one
\* crashes: it can still be recovered and rolled back.
UnsettledKept ==
  /\ past.recorded \ past.ended \subseteq record
  /\ past.pointed \ past.ended \subseteq refs

\* A task that nobody settled or expired has at most one process on it, and
\* the file that this process has locked is the one the next claim opens.
SoleOwner ==
  \A t \in Tasks \ past.ended : \A p \in Holders(t) :
    Holders(t) = {p} /\ <<t, path[t]>> \in held[p]

\* Every operation ends, also when another process dies while it holds the
\* mutation lock.
OperationsEnd == \A p \in Procs : ~At(p, "idle") ~> At(p, "idle")
=============================================================================

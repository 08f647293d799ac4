---------------------------- MODULE WorktreeApply ----------------------------
(***************************************************************************)
(* The managed worktrees of subagents (crates/iris-subagent-runtime/src/   *)
(* worktree): a registry of records shared by several processes, the       *)
(* control file of each worktree, the choice of one candidate of a group,  *)
(* and the reviewed apply of a candidate's files to the parent checkout.   *)
(*                                                                         *)
(* A step is what runs between two looks at shared files: reading the      *)
(* registry, writing a marker, appending a record, writing one file of the *)
(* parent.  All worktrees are candidates of one group.  A process that     *)
(* crashes is replaced at once by one with a new instance id, so the       *)
(* records of the old one name the owner None.  git and the file locks are *)
(* external.                                                               *)
(***************************************************************************)
EXTENDS Integers, FiniteSets

CONSTANTS
  Procs, Trees,   \* processes, worktree ids
  Files,          \* manifest paths, as numbers in path order
  Base,           \* what a file holds at the base commit
  UserBytes,      \* what the user may write
  None,
  MaxWorktrees,   \* WorktreeConfig::max_worktrees
  MaxPlans,       \* bound: apply plans
  MaxEvents       \* bound: calls, edits, commits, errors, crashes, restarts

ASSUME WorktreeAssumption ==
  /\ IsFiniteSet(Procs) /\ IsFiniteSet(Trees) /\ IsFiniteSet(UserBytes)
  /\ Files \subseteq Nat /\ IsFiniteSet(Files)
  /\ Base \notin Trees \cup UserBytes /\ None \notin Procs \cup Trees
  /\ {MaxWorktrees, MaxPlans, MaxEvents} \subseteq Nat

VARIABLES
  registry,   \* the latest record of each id, None for none
  control,    \* the control file of each id
  dir,        \* worktrees that exist, with the marker in their git directory
  used,       \* ids handed out
  child,      \* per worktree, its files
  parent,     \* the files of the parent checkout
  head,       \* the files at its HEAD
  plans,      \* persisted apply plans
  receipts,   \* plans with an apply receipt
  lock,       \* who holds the group settlement lock
  op,         \* per process, the call it is in
  count,      \* events so far
  past,       \* history, see Init
  lapsed      \* history: the registry has forgotten a completed apply

disk == <<registry, control, dir, used>>
content == <<child, parent, head>>
reviews == <<plans, receipts>>
history == <<past, lapsed>>
vars == <<disk, content, reviews, lock, op, count, history>>

Statuses == {"alive", "adoptable", "ignored", "applied", "removed"}

\* WorktreeRecord; owner is the live process of owner_instance_id, if any.
Record == [id : Trees, status : Statuses, owner : Procs \cup {None},
           selected : BOOLEAN, applied : BOOLEAN]

Bytes == {Base} \cup Trees \cup UserBytes

\* ApplyPlan: its operations are the files whose child bytes differ from base.
Plan == [tree : Trees, head : [Files -> Bytes], ops : SUBSET Files,
         child : [Files -> Bytes], parent : [Files -> Bytes]]

Least(S) == CHOOSE x \in S : \A y \in S : x <= y
Greatest(S) == CHOOSE x \in S : \A y \in S : y <= x

Idle == [at |-> "idle"]
At(p, where) == op[p].at = where
Events(n) == count + n <= MaxEvents /\ count' = count + n
Enter(p, o) == op' = [op EXCEPT ![p] = o]

\* Mutant: the guard outlives the call.
FaultyReturnKeepsLock(p) == Enter(p, Idle) /\ UNCHANGED lock

\* Returning drops the settlement guard.
Return(p) == Enter(p, Idle) /\ lock' = IF lock = p THEN None ELSE lock

\* A call that ends in update_record: the records it writes, and those a gc
\* has yet to visit.
Update(why, recs) == [at |-> "mark", why |-> why, recs |-> recs, rest |-> {}]

\* The record of a worktree that p has just created.
Created(p, t) == [id |-> t, status |-> "alive", owner |-> p,
                  selected |-> FALSE, applied |-> FALSE]

\* One process has spawned some of the group.
Init ==
  /\ used \in SUBSET Trees /\ dir = used
  /\ \E p \in Procs :
       registry = [t \in Trees |-> IF t \in used THEN Created(p, t) ELSE None]
  /\ control = registry
  /\ child = [t \in Trees |-> [f \in Files |-> Base]]
  /\ parent = [f \in Files |-> Base] /\ head = [f \in Files |-> Base]
  /\ plans = [i \in 1 .. MaxPlans |-> None] /\ receipts = {}
  /\ lock = None /\ op = [p \in Procs |-> Idle]
  /\ count = 0
  /\ past = [expected |-> parent,  \* what users and finished applies wrote
             excused |-> {},       \* files a fault or a race left open
             completed |-> {}]     \* worktrees applied as a whole
  /\ lapsed = FALSE

-----------------------------------------------------------------------------
(* Reading.                                                                *)

Known == {t \in Trees : registry[t] # None}

\* list with include_removed, the members of the group.
Members == {registry[t] : t \in Known}

\* list as it is by default.
Listed == {r \in Members : r.status # "removed"}

\* owner_is_live: the owner's lease is locked.
Live(r) == r.owner # None

\* validate_managed: both markers are there; what they say of identity is fixed.
Managed(t) == t \in dir /\ control[t] # None

\* git finds nothing changed in the worktree.
Pristine(t) == \A f \in Files : child[t][f] = Base

-----------------------------------------------------------------------------
(* Creating.  Capacity is read before git runs, without a lock.            *)

Create(p, t) ==
  /\ At(p, "idle") /\ Events(1) /\ t \notin used
  /\ Cardinality(Listed) < MaxWorktrees
  /\ used' = used \cup {t} /\ dir' = dir \cup {t}
  /\ Enter(p, Update("create", {Created(p, t)}))
  /\ UNCHANGED <<registry, control, content, reviews, lock, history>>

-----------------------------------------------------------------------------
(* History: a completed apply that the registry has forgotten.             *)

\* An apply that has its receipt and is about to update its record.
Recording(t) == \E p \in Procs : /\ op[p].at \in {"mark", "append"}
                                 /\ op[p].why = "apply"
                                 /\ t \in past.completed

\* No trace is left of a completed apply: the call failed between its receipt
\* and its record, another call wrote back the record it had read before, or
\* the registry was rebuilt without it.
Forgotten ==
  \E t \in past.completed :
    /\ ~Recording(t)
    /\ registry[t] # None => registry[t].status # "applied" /\ ~registry[t].applied

Remember == lapsed' = (lapsed \/ Forgotten')

-----------------------------------------------------------------------------
(* update_record: the markers, then the registry.  Whole records, as they  *)
(* were read when the call began.                                          *)

\* select_group_candidate writes the deselected ones first.
First(recs) == LET off == {r \in recs : ~r.selected}
               IN IF off # {} THEN off ELSE recs

\* write_markers; the admin marker is in the worktree's git directory.
Mark(p) ==
  /\ At(p, "mark")
  /\ \E r \in First(op[p].recs) :
       /\ r.id \in dir
       /\ control' = [control EXCEPT ![r.id] = r]
       /\ op' = [op EXCEPT ![p] = [at |-> "append", why |-> @.why, rec |-> r,
                                   recs |-> @.recs \ {r}, rest |-> @.rest]]
  /\ UNCHANGED <<registry, dir, used, content, reviews, lock, count, history>>

\* The worktree went away under the call: the control file is written before
\* the admin marker turns out to have no place.
MarkFails(p) ==
  /\ At(p, "mark")
  /\ \E r \in First(op[p].recs) :
       r.id \notin dir /\ control' = [control EXCEPT ![r.id] = r]
  /\ Return(p)
  /\ UNCHANGED <<registry, dir, used, content, reviews, count, past>>
  /\ Remember

\* append, and on to the next record of the call.
Append(p) ==
  /\ At(p, "append")
  /\ registry' = [registry EXCEPT ![op[p].rec.id] = op[p].rec]
  /\ IF op[p].recs \cup op[p].rest = {} THEN Return(p)
     ELSE /\ Enter(p, IF op[p].recs # {} THEN Update(op[p].why, op[p].recs)
                      ELSE [at |-> "gc", recs |-> op[p].rest])
          /\ UNCHANGED lock
  /\ UNCHANGED <<control, dir, used, content, reviews, count, past>>
  /\ Remember

\* An I/O error: the call returns it.  create takes back what it made.
AppendFails(p) ==
  /\ At(p, "append") /\ Events(1)
  /\ LET undone == IF op[p].why = "create" THEN {op[p].rec.id} ELSE {}
     IN /\ dir' = dir \ undone
        /\ control' = [t \in Trees |-> IF t \in undone THEN None ELSE control[t]]
  /\ Return(p)
  /\ UNCHANGED <<registry, used, content, reviews, past>>
  /\ Remember

-----------------------------------------------------------------------------
(* The calls that read a record and write it back without the lock.        *)

Adopt(p, t) ==
  /\ At(p, "idle") /\ Events(1) /\ t \in Known
  /\ ~Live(registry[t]) /\ Managed(t)
  /\ Enter(p, Update("adopt", {[registry[t] EXCEPT !.owner = p,
                                                   !.status = "alive"]}))
  /\ UNCHANGED <<disk, content, reviews, lock, history>>

Ignore(p, t) ==
  /\ At(p, "idle") /\ Events(1) /\ t \in Known /\ registry[t].status = "adoptable"
  /\ Enter(p, Update("ignore", {[registry[t] EXCEPT !.status = "ignored"]}))
  /\ UNCHANGED <<disk, content, reviews, lock, history>>

\* gc lists once and then visits each record: Iris never forces it.
Gc(p) ==
  /\ At(p, "idle") /\ Events(1)
  /\ LET recs == {r \in Listed : r.status = "alive"}
     IN recs # {} /\ Enter(p, [at |-> "gc", recs |-> recs])
  /\ UNCHANGED <<disk, content, reviews, lock, history>>

GcVisit(p) ==
  /\ At(p, "gc")
  /\ \E r \in op[p].recs :
       LET rest == op[p].recs \ {r}
       IN Enter(p, IF ~Live(r) /\ Managed(r.id)
                   THEN [Update("gc", {[r EXCEPT !.status = "adoptable"]})
                           EXCEPT !.rest = rest]
                   ELSE IF rest = {} THEN Idle ELSE [at |-> "gc", recs |-> rest])
  /\ UNCHANGED <<disk, content, reviews, lock, count, history>>

\* remove: checks first; then git, the control file and the record.
Remove(p, t, force) ==
  /\ At(p, "idle") /\ Events(1) /\ t \in Known
  /\ registry[t].status # "removed" /\ Managed(t)
  /\ force \/ ~Live(registry[t])
  /\ Enter(p, [at |-> "delete", force |-> force,
               rec |-> [registry[t] EXCEPT !.status = "removed"]])
  /\ UNCHANGED <<disk, content, reviews, lock, history>>

\* git worktree remove refuses a changed tree unless it is forced.
Delete(p) ==
  /\ At(p, "delete")
  /\ LET t == op[p].rec.id
     IN IF t \in dir /\ (op[p].force \/ Pristine(t))
        THEN /\ dir' = dir \ {t}
             /\ child' = [child EXCEPT ![t] = [f \in Files |-> Base]]
             /\ op' = [op EXCEPT ![p] = [at |-> "unlink", rec |-> @.rec]]
             /\ UNCHANGED lock
        ELSE Return(p) /\ UNCHANGED <<dir, child>>
  /\ UNCHANGED <<registry, control, used, parent, head, reviews, count, history>>

Unlink(p) ==
  /\ At(p, "unlink")
  /\ control' = [control EXCEPT ![op[p].rec.id] = None]
  /\ op' = [op EXCEPT ![p] = [at |-> "append", why |-> "remove", rec |-> @.rec,
                              recs |-> {}, rest |-> {}]]
  /\ UNCHANGED <<registry, dir, used, content, reviews, lock, count, history>>

\* rebuild: every control file must be valid; the file is replaced later.
Rebuild(p) ==
  /\ At(p, "idle") /\ Events(1)
  /\ \A t \in Trees : control[t] # None => Managed(t)
  /\ Enter(p, [at |-> "rebuild", recs |-> {control[t] : t \in Trees} \ {None}])
  /\ UNCHANGED <<disk, content, reviews, lock, history>>

Replace(p) ==
  /\ At(p, "rebuild")
  /\ registry' = [t \in Trees |->
                    IF \E r \in op[p].recs : r.id = t
                    THEN CHOOSE r \in op[p].recs : r.id = t ELSE None]
  /\ Return(p)
  /\ UNCHANGED <<control, dir, used, content, reviews, count, past>>
  /\ Remember

-----------------------------------------------------------------------------
(* Choosing a candidate and reviewing it, under the settlement lock.       *)

\* select_group_candidate.
Select(p, t) ==
  /\ At(p, "idle") /\ Events(1) /\ lock = None /\ t \in Known
  /\ \A r \in Members : ~r.applied
  /\ registry[t].status = "alive"
  /\ LET off == {[r EXCEPT !.selected = FALSE] :
                   r \in {m \in Members : m.id # t /\ m.selected}}
         on == IF registry[t].selected THEN {}
               ELSE {[registry[t] EXCEPT !.selected = TRUE]}
     IN off \cup on # {} /\ Enter(p, Update("select", off \cup on))
  /\ lock' = p
  /\ UNCHANGED <<disk, content, reviews, history>>

\* plan_apply; it writes nothing but the plan.
PlanApply(p, t) ==
  /\ At(p, "idle") /\ Events(1) /\ lock = None /\ t \in Known
  /\ registry[t].selected /\ Managed(t)
  /\ \E i \in 1 .. MaxPlans :
       /\ plans[i] = None /\ \A j \in 1 .. i - 1 : plans[j] # None
       /\ plans' = [plans EXCEPT ![i] =
            [tree |-> t, head |-> head, child |-> child[t], parent |-> parent,
             ops |-> {f \in Files : child[t][f] # Base}]]
  /\ UNCHANGED <<disk, content, receipts, lock, op, history>>

-----------------------------------------------------------------------------
(* Applying a reviewed plan.                                               *)

\* Mutant: only the child is compared with the review.
FaultyFreshChild(plan) ==
  /\ head = plan.head
  /\ \A f \in plan.ops : child[plan.tree][f] = plan.child[f]

\* Nothing changed since the review.
Fresh(plan) ==
  /\ head = plan.head
  /\ \A f \in plan.ops : child[plan.tree][f] = plan.child[f]
  /\ \A f \in plan.ops : parent[f] = plan.parent[f]

\* apply up to its first write.  A path is left out if the user skips it or
\* does not approve its drift, its local changes or its symlink.  A plan with
\* a receipt writes nothing.
Apply(p, i, approved) ==
  /\ At(p, "idle") /\ Events(1) /\ lock = None /\ plans[i] # None
  /\ LET plan == plans[i]
     IN /\ registry[plan.tree] # None /\ registry[plan.tree].selected
        /\ \A r \in Members : r.id # plan.tree => ~r.applied
        /\ Managed(plan.tree) /\ i \notin receipts /\ Fresh(plan)
        /\ approved \subseteq plan.ops
        /\ Enter(p, [at |-> "write", plan |-> i, rec |-> registry[plan.tree],
                     todo |-> approved, done |-> {}, whole |-> approved = plan.ops])
  /\ lock' = p
  /\ past' = [past EXCEPT
       !.expected = [f \in Files |-> IF f \in approved THEN parent[f] ELSE @[f]],
       !.excused = @ \ approved]
  /\ UNCHANGED <<disk, content, reviews, lapsed>>

\* Mutant: the status alone tells that the candidate was applied.
FaultySettledStatus(r) == [r EXCEPT !.status = "applied"]

\* A completed apply is on record with both its marks.
Settled(r) == [r EXCEPT !.status = "applied", !.applied = TRUE]

Write(p) ==
  /\ At(p, "write") /\ op[p].todo # {}
  /\ LET f == Least(op[p].todo)
     IN /\ parent' = [parent EXCEPT ![f] = plans[op[p].plan].child[f]]
        /\ op' = [op EXCEPT ![p].todo = @ \ {f}, ![p].done = @ \cup {f}]
  /\ UNCHANGED <<disk, child, head, reviews, lock, count, history>>

\* A failed write or a cancellation between two writes.
WriteFails(p) ==
  /\ At(p, "write") /\ op[p].todo # {} /\ Events(1)
  /\ op' = [op EXCEPT ![p].at = "undo"]
  /\ UNCHANGED <<disk, content, reviews, lock, history>>

\* Mutant: rollback checks out the committed version.
FaultyUndoCommitted(p) ==
  /\ At(p, "undo") /\ op[p].done # {}
  /\ LET f == Greatest(op[p].done)
     IN /\ parent' = [parent EXCEPT ![f] = plans[op[p].plan].head[f]]
        /\ op' = [op EXCEPT ![p].done = @ \ {f}]
  /\ UNCHANGED <<disk, child, head, reviews, lock, count, history>>

\* rollback, in reverse; the apply then returns its error.
Undo(p) ==
  /\ At(p, "undo") /\ op[p].done # {}
  /\ LET f == Greatest(op[p].done)
     IN /\ parent' = [parent EXCEPT ![f] = plans[op[p].plan].parent[f]]
        /\ op' = [op EXCEPT ![p].done = @ \ {f}]
  /\ UNCHANGED <<disk, child, head, reviews, lock, count, history>>

UndoFails(p) ==
  /\ At(p, "undo") /\ op[p].done # {} /\ Events(1)
  /\ past' = [past EXCEPT !.excused = @ \cup op[p].done]
  /\ Return(p)
  /\ UNCHANGED <<disk, content, reviews, lapsed>>

Undone(p) ==
  /\ At(p, "undo") /\ op[p].done = {}
  /\ Return(p)
  /\ UNCHANGED <<disk, content, reviews, count, history>>

\* All files are written: a partial apply is over, a whole one gets its
\* receipt and then its record.
Finish(p) ==
  /\ At(p, "write") /\ op[p].todo = {}
  /\ LET plan == plans[op[p].plan]
         wrote == [past EXCEPT !.expected =
                     [f \in Files |-> IF f \in op[p].done \ past.excused
                                     THEN plan.child[f] ELSE @[f]]]
     IN IF op[p].whole
        THEN /\ receipts' = receipts \cup {op[p].plan}
             /\ past' = [wrote EXCEPT !.completed = @ \cup {plan.tree}]
             /\ Enter(p, Update("apply", {Settled(op[p].rec)}))
             /\ UNCHANGED lock
        ELSE past' = wrote /\ Return(p) /\ UNCHANGED receipts
  /\ UNCHANGED <<disk, content, plans, count, lapsed>>

\* The receipt cannot be written: the call returns the error, with all files
\* written and neither a rollback nor a record.
ReceiptFails(p) ==
  /\ At(p, "write") /\ op[p].todo = {} /\ op[p].whole /\ Events(1)
  /\ past' = [past EXCEPT !.excused = @ \cup op[p].done]
  /\ Return(p)
  /\ UNCHANGED <<disk, content, reviews, lapsed>>

-----------------------------------------------------------------------------
(* The others: the user, the workers, a crash.                             *)

Applying(p) == op[p].at \in {"write", "undo"}

\* A file the user changes while it is being applied may go either way.
UserEdit(f, bytes) ==
  /\ Events(1) /\ parent[f] # bytes
  /\ parent' = [parent EXCEPT ![f] = bytes]
  /\ past' = [past EXCEPT !.expected[f] = bytes,
       !.excused = IF \E p \in Procs : Applying(p) /\ f \in op[p].todo \cup op[p].done
                   THEN @ \cup {f} ELSE @ \ {f}]
  /\ UNCHANGED <<disk, child, head, reviews, lock, op, lapsed>>

UserCommit ==
  /\ Events(1) /\ head # parent
  /\ head' = parent
  /\ UNCHANGED <<disk, child, parent, reviews, lock, op, history>>

\* A worker changes files in its worktree, or puts all of them back.
Work(t, files) ==
  /\ t \in dir /\ Events(1)
  /\ Pristine(t) <=> files # {}
  /\ child' = [child EXCEPT ![t] = [f \in Files |-> IF f \in files THEN t ELSE Base]]
  /\ UNCHANGED <<disk, parent, head, reviews, lock, op, history>>

\* Crash and restart: the leases and locks of the process are gone, its call
\* stops where it is.
Crash(p) ==
  /\ Events(2)
  /\ LET Orphan(r) == IF r = None THEN None
                      ELSE IF r.owner = p THEN [r EXCEPT !.owner = None] ELSE r
         OrphanOp(o) == [x \in DOMAIN o |->
                           IF x \in {"recs", "rest"} THEN {Orphan(r) : r \in o[x]}
                           ELSE IF x = "rec" THEN Orphan(o[x]) ELSE o[x]]
     IN /\ registry' = [t \in Trees |-> Orphan(registry[t])]
        /\ control' = [t \in Trees |-> Orphan(control[t])]
        /\ op' = [q \in Procs |-> IF q = p THEN Idle ELSE OrphanOp(op[q])]
  /\ lock' = IF lock = p THEN None ELSE lock
  /\ past' = [past EXCEPT !.excused = IF Applying(p) THEN @ \cup op[p].done ELSE @]
  /\ UNCHANGED <<dir, used, content, reviews>>
  /\ Remember

-----------------------------------------------------------------------------

ProcNext(p) ==
  \/ \E t \in Trees : \/ Create(p, t) \/ Adopt(p, t) \/ Ignore(p, t)
                      \/ Remove(p, t, TRUE) \/ Remove(p, t, FALSE)
                      \/ Select(p, t) \/ PlanApply(p, t)
  \/ \E i \in 1 .. MaxPlans, approved \in SUBSET Files : Apply(p, i, approved)
  \/ Mark(p) \/ MarkFails(p) \/ Append(p) \/ AppendFails(p)
  \/ Gc(p) \/ GcVisit(p) \/ Delete(p) \/ Unlink(p) \/ Rebuild(p) \/ Replace(p)
  \/ Write(p) \/ WriteFails(p) \/ Undo(p) \/ UndoFails(p) \/ Undone(p) \/ Finish(p)
  \/ ReceiptFails(p) \/ Crash(p)

Next ==
  \/ \E p \in Procs : ProcNext(p)
  \/ \E f \in Files, b \in UserBytes : UserEdit(f, b)
  \/ UserCommit
  \/ \E t \in Trees, files \in SUBSET Files : Work(t, files)

Spec == Init /\ [][Next]_vars

-----------------------------------------------------------------------------

\* The stores hold what the code puts there, and the settlement lock is held
\* exactly by the process that is selecting or applying.
TypeOK ==
  /\ registry \in [Trees -> Record \cup {None}]
  /\ control \in [Trees -> Record \cup {None}]
  /\ \A t \in Trees : {registry[t], control[t]} \subseteq
                        {None} \cup {r \in Record : r.id = t}
  /\ dir \subseteq used /\ used \subseteq Trees
  /\ parent \in [Files -> Bytes] /\ head \in [Files -> Bytes]
  /\ child \in [Trees -> [Files -> Bytes]]
  /\ plans \in [1 .. MaxPlans -> Plan \cup {None}]
  /\ receipts \subseteq {i \in 1 .. MaxPlans : plans[i] # None}
  /\ count \in 0 .. MaxEvents
  /\ \A p \in Procs : lock = p <=> \/ Applying(p)
                                   \/ /\ op[p].at \in {"mark", "append"}
                                      /\ op[p].why \in {"select", "apply"}

\* apply is all or nothing (apply.rs): a file of the parent that no running
\* apply has written holds what the user or a finished apply wrote last.  An
\* apply that is cancelled, or whose write of a file fails, puts back what the
\* user had, also when that was never committed.  Excused are the files the
\* user changed during the apply and those left written by a crash, by a
\* failing rollback or by a receipt that could not be written, after which
\* apply returns its error and rolls nothing back; each until the user or
\* another apply writes the file again.
ParentAccounted ==
  \A f \in Files \ past.excused :
    \/ parent[f] = past.expected[f]
    \/ \E p \in Procs : Applying(p) /\ f \in op[p].done

\* What a plan overwrites is what its review showed: from the review over the
\* preflight to the write, with edits of the user, other applies, commits and
\* retries between.  A rollback overwrites only what this apply wrote.  Edits
\* during the apply, after its preflight, are excused: nothing looks again.
ReviewedOverwrites ==
  [][\A p \in Procs, f \in Files :
       Applying(p) /\ parent'[f] # parent[f] /\ op'[p] # op[p] =>
         \/ f \in past.excused
         \/ parent[f] = IF op[p].at = "write" THEN plans[op[p].plan].parent[f]
                        ELSE plans[op[p].plan].child[f]]_vars

\* "a completed group apply is final" (service.rs): no second candidate of the
\* group is applied, whatever is selected, planned, removed or retried by
\* which process, as long as the registry has kept the mark of the first.
GroupFinal == ~lapsed => Cardinality(past.completed) <= 1

============================================================================

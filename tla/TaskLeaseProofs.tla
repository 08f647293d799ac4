--------------------------- MODULE TaskLeaseProofs ---------------------------
(* Theorems about TaskLease, for any number of processes, tasks and crashes. *)
EXTENDS TaskLease, TLAPS, FiniteSetTheorems

-----------------------------------------------------------------------------
(* The inductive invariant.                                                *)

Teardown == {"refs", "record", "unlink", "drop"}
Clearing == {"sweepRefs", "sweepUnlink"}

\* What a process remembers between two steps of an operation.
Plain    == [at : {"idle", "persist"}]
OnTask   == [at : {"open", "expire", "probe", "adopt", "rehydrate"}, task : Tasks]
Removing == [at : Teardown, task : Tasks, how : {"accept", "rollback", "expire"}]
Sweeping == [at : {"listed", "sweep"}, ids : SUBSET Tasks]
Orphan   == [at : Clearing, task : Tasks, ids : SUBSET Tasks, claimed : BOOLEAN]

Types ==
  /\ record \in SUBSET opened /\ refs \in SUBSET opened /\ opened \in SUBSET Tasks
  /\ path \in [Tasks -> {0} \cup Files]
  /\ held \in [Procs -> SUBSET (Tasks \X Files)]
  /\ mutex \in Procs \cup {None}
  /\ task \in [Procs -> opened \cup {None}]
  /\ op \in [Procs -> Plain \cup OnTask \cup Removing \cup Sweeping \cup Orphan]
  /\ past \in [recorded : SUBSET opened, pointed : SUBSET opened, ended : SUBSET opened]

\* flock is exclusive, and a process never locks two files of one task.
Exclusive ==
  /\ \A p, q \in Procs : p # q => held[p] \cap held[q] = {}
  /\ \A p \in Procs : \A l, m \in held[p] : l[1] = m[1] => l = m

\* A lock is on the file that the lease path names, until its owner has
\* unlinked that path.
Current ==
  \A p \in Procs : \A l \in held[p] :
    \/ l[2] = path[l[1]]
    \/ At(p, "drop") /\ op[p].task = l[1]

\* Who works on a task holds its lease, and lets go of no lease but that of
\* the task it tears down or sweeps, which is not its active one.
Leased ==
  \A p \in Procs :
    /\ task[p] # None => p \in Holders(task[p])
    /\ op[p].at = "persist" => task[p] # None
    /\ op[p].at \in {"open", "adopt", "rehydrate"} => task[p] = None
    /\ op[p].at \in {"open", "rehydrate"} \cup Teardown => p \in Holders(op[p].task)
    /\ op[p].at \in Clearing => (op[p].claimed => p \in Holders(op[p].task))
    /\ op[p].at \in Teardown \cup Clearing => task[p] # op[p].task

\* A task id that was never opened has no lease file.
Fresh ==
  /\ \A t \in Tasks \ opened : path[t] = 0
  /\ \A p \in Procs :
       /\ op[p] \in OnTask \cup Removing \cup Orphan => op[p].task \in opened
       /\ op[p] \in Sweeping \cup Orphan => op[p].ids \subseteq opened

\* The mutation lock is held inside a teardown, and always for the unlink.
Mutation ==
  /\ mutex # None => op[mutex].at \in {"record", "unlink"}
  /\ \A p \in Procs : At(p, "unlink") => mutex = p

\* Only what was recorded is ever listed, adopted or checkpointed, and only
\* what a decision ended is torn down or swept.
Decided ==
  /\ record \cup refs \cup past.pointed \subseteq past.recorded
  /\ \A p \in Procs :
       /\ task[p] # None => task[p] \in past.recorded
       /\ op[p].at \in {"adopt", "rehydrate", "expire"} => op[p].task \in past.recorded
       /\ op[p].at \in Teardown \cup Clearing => op[p].task \in past.ended
       /\ op[p].at = "listed" => op[p].ids \subseteq past.recorded
       /\ op[p] \in Orphan \/ op[p].at = "sweep" => op[p].ids \subseteq past.ended

IInv ==
  /\ Types /\ Exclusive /\ Current /\ Leased /\ Fresh /\ Mutation /\ Decided
  /\ UnsettledKept

-----------------------------------------------------------------------------
(* The shapes of op, and the lock files.                                   *)

\* Where an operation stands tells which fields it carries.
LEMMA Shapes ==
  ASSUME Types, NEW p \in Procs
  PROVE  /\ op[p].at \in {"open", "expire", "probe", "adopt", "rehydrate"} => op[p] \in OnTask
         /\ op[p].at \in Teardown => op[p] \in Removing
         /\ op[p].at \in {"listed", "sweep"} => op[p] \in Sweeping
         /\ op[p].at \in Clearing => op[p] \in Orphan
BY DEF Types, Plain, OnTask, Removing, Sweeping, Orphan, Teardown, Clearing

\* There are more names than locks, so O_CREAT finds one that nobody holds.
LEMMA FreshFile ==
  ASSUME Types, Exclusive, NEW t \in Tasks
  PROVE  /\ File(t) \in Files
         /\ path[t] # 0 => File(t) = path[t]
         /\ path[t] = 0 => \A q \in Procs : <<t, File(t)>> \notin held[q]
<1>1. CASE path[t] # 0
  BY <1>1 DEF File, Types
<1>2. CASE path[t] = 0
  <2>1. \E i \in Files : \A q \in Procs : <<t, i>> \notin held[q]
    <3> SUFFICES ASSUME \A i \in Files : \E q \in Procs : <<t, i>> \in held[q]
                 PROVE  FALSE
      OBVIOUS
    <3> DEFINE owner == [i \in Files |-> CHOOSE q \in Procs : <<t, i>> \in held[q]]
    <3>1. \A i \in Files : owner[i] \in Procs /\ <<t, i>> \in held[owner[i]]
      OBVIOUS
    <3>2. owner \in [Files -> Procs]
      BY <3>1
    <3>3. Cardinality(Procs) \in Nat
      BY LeaseAssumption, FS_CardinalityType
    <3>4. IsFiniteSet(Files) /\ Cardinality(Procs) < Cardinality(Files)
      <4> DEFINE n == 2 * Cardinality(Procs) + 1
      <4>1. n \in Int /\ 1 \in Int /\ ~(1 > n) /\ Cardinality(Procs) < n - 1 + 1
        BY <3>3
      <4> HIDE DEF n
      <4>2. IsFiniteSet(1 .. n) /\ Cardinality(1 .. n) = n - 1 + 1
        BY <4>1, FS_Interval
      <4> QED BY <4>1, <4>2 DEF Files, n
    <3> HIDE DEF owner
    <3>5. PICK i, j \in Files : i # j /\ owner[i] = owner[j]
      BY <3>2, <3>4, LeaseAssumption, FS_PigeonHole
    <3>6. <<t, i>> \in held[owner[i]] /\ <<t, j>> \in held[owner[i]] /\ owner[i] \in Procs
      BY <3>1, <3>5
    <3>7. <<t, i>> = <<t, j>>
      BY <3>6 DEF Exclusive
    <3> QED BY <3>5, <3>7
  <2>2. File(t) = CHOOSE i \in Files : \A q \in Procs : <<t, i>> \notin held[q]
    BY <1>2 DEF File
  <2> QED BY <1>2, <2>1, <2>2
<1> QED BY <1>1, <1>2

\* What a successful claim does to the locks.
LEMMA ClaimLocks ==
  ASSUME Types, Exclusive, Current, NEW p \in Procs, NEW t \in Tasks, ~At(p, "drop"),
         Free(t), Claim(p, t)
  PROVE  /\ path' \in [Tasks -> {0} \cup Files] /\ held' \in [Procs -> SUBSET (Tasks \X Files)]
         /\ \A u \in Tasks \ {t} : path'[u] = path[u]
         /\ Exclusive'
         /\ \A q \in Procs : \A l \in held'[q] :
              l[2] = path'[l[1]] \/ (q # p /\ At(q, "drop") /\ op[q].task = l[1])
         /\ p \in Holders(t)'
         /\ \A q \in Procs : \A u : q \in Holders(u) => q \in Holders(u)'
<1> DEFINE f == File(t)
<1>1. /\ f \in Files /\ f # 0
      /\ path[t] # 0 => f = path[t]
      /\ \A q \in Procs : <<t, f>> \notin held[q]
  BY FreshFile DEF Free, Files
<1>2. path' = [path EXCEPT ![t] = f] /\ held' = [held EXCEPT ![p] = @ \cup {<<t, f>>}]
  BY DEF Claim
<1> HIDE DEF f
<1>3. /\ path' \in [Tasks -> {0} \cup Files] /\ held' \in [Procs -> SUBSET (Tasks \X Files)]
      /\ path'[t] = f /\ \A u \in Tasks \ {t} : path'[u] = path[u]
      /\ held'[p] = held[p] \cup {<<t, f>>} /\ \A q \in Procs \ {p} : held'[q] = held[q]
  BY <1>1, <1>2 DEF Types
<1>4. \A l \in held[p] : l[1] # t
  <2> SUFFICES ASSUME NEW l \in held[p], l[1] = t PROVE FALSE
    OBVIOUS
  <2>1. l = <<t, l[2]>> /\ l[2] \in Files /\ l[2] = path[t]
    BY DEF Types, Current
  <2> QED BY <2>1, <1>1 DEF Files
<1>5. ASSUME NEW q \in Procs \ {p}, NEW l \in held[q], l[1] = t
      PROVE  At(q, "drop") /\ op[q].task = t
  <2>1. l = <<t, l[2]>> /\ l[2] \in Files
    BY <1>5 DEF Types
  <2>2. l[2] # path[t]
    BY <1>1, <2>1 DEF Files
  <2> QED BY <1>5, <2>2 DEF Current
<1>6. Exclusive'
  BY <1>1, <1>3, <1>4 DEF Exclusive
<1>7. ASSUME NEW q \in Procs, NEW l \in held'[q]
      PROVE  l[2] = path'[l[1]] \/ (q # p /\ At(q, "drop") /\ op[q].task = l[1])
  <2>1. CASE l = <<t, f>> /\ q = p
    BY <1>3, <2>1
  <2>2. CASE l \in held[q] /\ l[1] = t
    BY <1>4, <1>5, <2>2
  <2>3. CASE l \in held[q] /\ l[1] # t
    <3>1. l[1] \in Tasks
      BY <2>3 DEF Types
    <3> QED BY <2>3, <3>1, <1>3 DEF Current
  <2> QED BY <1>3, <2>1, <2>2, <2>3
<1>8. p \in Holders(t)' /\ \A q \in Procs : \A u : q \in Holders(u) => q \in Holders(u)'
  <2>1. held[p] \subseteq held'[p] /\ <<t, f>> \in held'[p]
    BY <1>3
  <2>2. \A q \in Procs : held[q] \subseteq held'[q]
    BY <1>3, <2>1
  <2>3. p \in Holders(t)'
    BY <2>1 DEF Holders
  <2> QED BY <2>2, <2>3 DEF Holders
<1> QED BY <1>3, <1>6, <1>7, <1>8

-----------------------------------------------------------------------------
(* The steps, one lemma per action.                                       *)

(* A task is opened and checkpointed. *)

LEMMA OpenLeaseStep ==
  ASSUME IInv, NEW p \in Procs, NEW t \in Tasks, OpenLease(p, t)
  PROVE  IInv'
<1>1. /\ At(p, "idle") /\ ~At(p, "drop") /\ Free(t) /\ Claim(p, t)
      /\ op' = [op EXCEPT ![p] = [at |-> "open", task |-> t]]
  BY DEF IInv, OpenLease, Fresh, Free, At
<1>2. /\ path' \in [Tasks -> {0} \cup Files] /\ held' \in [Procs -> SUBSET (Tasks \X Files)]
      /\ \A u \in Tasks \ {t} : path'[u] = path[u]
      /\ Exclusive'
      /\ \A q \in Procs : \A l \in held'[q] :
           l[2] = path'[l[1]] \/ (q # p /\ At(q, "drop") /\ op[q].task = l[1])
      /\ p \in Holders(t)'
      /\ \A q \in Procs : \A u : q \in Holders(u) => q \in Holders(u)'
  BY <1>1, ClaimLocks DEF IInv
<1>3. Types'
  BY <1>2 DEF IInv, OpenLease, Types, OnTask
<1>4. Current'
  BY <1>1, <1>2 DEF IInv, Types, Current, At
<1>5. Leased'
  BY <1>1, <1>2 DEF IInv, OpenLease, Types, Leased, Teardown, Clearing
<1>6. Fresh'
  <2>1. \A u \in Tasks \ opened' : path'[u] = 0
    BY <1>2 DEF IInv, OpenLease, Fresh
  <2> QED BY <2>1 DEF IInv, OpenLease, Fresh, Sweeping, Orphan
<1>7. Mutation'
  BY DEF IInv, OpenLease, At, Types, Mutation
<1>8. Decided' /\ UnsettledKept'
  BY DEF IInv, OpenLease, Decided, UnsettledKept, Orphan, Teardown, Clearing
<1> QED BY <1>2, <1>3, <1>4, <1>5, <1>6, <1>7, <1>8 DEF IInv

LEMMA OpenPersistStep ==
  ASSUME IInv, NEW p \in Procs, OpenPersist(p)
  PROVE  IInv'
<1>1. Types'
  BY Shapes DEF IInv, OpenPersist, At, Return, Idle, Types, Fresh, Plain
<1>2. Exclusive'
  BY DEF IInv, OpenPersist, Exclusive
<1>3. Current'
  BY DEF IInv, OpenPersist, At, Return, Current
<1>4. Leased'
  BY DEF IInv, OpenPersist, At, Return, Idle, Types, Leased, Holders, Teardown, Clearing
<1>5. Fresh'
  BY DEF IInv, OpenPersist, Return, Idle, Fresh, OnTask, Removing, Sweeping, Orphan
<1>6. Mutation'
  BY DEF IInv, OpenPersist, At, Return, Idle, Mutation
<1>7. Decided'
  BY DEF IInv, OpenPersist, Return, Idle, Decided, Orphan, Teardown, Clearing
<1>8. UnsettledKept'
  BY DEF IInv, OpenPersist, UnsettledKept
<1> QED BY <1>1, <1>2, <1>3, <1>4, <1>5, <1>6, <1>7, <1>8 DEF IInv

LEMMA CheckpointRefsStep ==
  ASSUME IInv, NEW p \in Procs, CheckpointRefs(p)
  PROVE  IInv'
<1>1. Types'
  BY DEF IInv, CheckpointRefs, Types, Plain
<1>2. Exclusive'
  BY DEF IInv, CheckpointRefs, Exclusive
<1>3. Current'
  BY DEF IInv, CheckpointRefs, At, Current
<1>4. Leased'
  BY DEF IInv, CheckpointRefs, Leased, Holders, Teardown, Clearing
<1>5. Fresh'
  BY DEF IInv, CheckpointRefs, Fresh, OnTask, Removing, Sweeping, Orphan
<1>6. Mutation'
  BY DEF IInv, CheckpointRefs, At, Mutation
<1>7. Decided'
  BY DEF IInv, CheckpointRefs, Decided, Orphan, Teardown, Clearing
<1>8. UnsettledKept'
  BY DEF IInv, CheckpointRefs, UnsettledKept
<1> QED BY <1>1, <1>2, <1>3, <1>4, <1>5, <1>6, <1>7, <1>8 DEF IInv

LEMMA PersistTaskStep ==
  ASSUME IInv, NEW p \in Procs, PersistTask(p)
  PROVE  IInv'
<1>1. Types'
  BY DEF IInv, PersistTask, At, Return, Idle, Types, Leased, Plain
<1>2. Exclusive'
  BY DEF IInv, PersistTask, Exclusive
<1>3. Current'
  BY DEF IInv, PersistTask, At, Return, Current
<1>4. Leased'
  BY DEF IInv, PersistTask, Return, Idle, Leased, Holders, Teardown, Clearing
<1>5. Fresh'
  BY DEF IInv, PersistTask, Return, Idle, Fresh, OnTask, Removing, Sweeping, Orphan
<1>6. Mutation'
  BY DEF IInv, PersistTask, At, Return, Idle, Mutation
<1>7. Decided'
  BY DEF IInv, PersistTask, At, Return, Idle, Leased, Decided, Teardown, Clearing, Orphan
<1>8. UnsettledKept'
  BY DEF IInv, PersistTask, UnsettledKept
<1> QED BY <1>1, <1>2, <1>3, <1>4, <1>5, <1>6, <1>7, <1>8 DEF IInv

(* A decision, and the teardown that follows it. *)

LEMMA SettleStep ==
  ASSUME IInv, NEW p \in Procs, NEW how \in {"accept", "rollback"}, Settle(p, how)
  PROVE  IInv'
<1>1. Types'
  BY DEF IInv, Settle, Types, Removing, Teardown
<1>2. Exclusive'
  BY DEF IInv, Settle, Exclusive
<1>3. Current'
  BY DEF IInv, Settle, At, Current
<1>4. Leased'
  BY DEF IInv, Settle, Types, Leased, Holders
<1>5. Fresh'
  BY DEF IInv, Settle, Types, Fresh, Sweeping, Orphan
<1>6. Mutation'
  BY DEF IInv, Settle, At, Mutation
<1>7. Decided'
  BY DEF IInv, Settle, Decided, Orphan
<1>8. UnsettledKept'
  BY DEF IInv, Settle, UnsettledKept
<1> QED BY <1>1, <1>2, <1>3, <1>4, <1>5, <1>6, <1>7, <1>8 DEF IInv

LEMMA DestroyRefsStep ==
  ASSUME IInv, NEW p \in Procs, DestroyRefs(p)
  PROVE  IInv'
<1>1. Types'
  BY DEF IInv, DestroyRefs, At, Goto, Types, Plain, OnTask, Removing, Sweeping, Orphan,
    Teardown, Clearing
<1>2. Exclusive'
  BY DEF IInv, DestroyRefs, Exclusive
<1>3. Current'
  BY DEF IInv, DestroyRefs, At, Goto, Current
<1>4. Leased'
  BY DEF IInv, DestroyRefs, At, Goto, Leased, Holders, Teardown
<1>5. Fresh'
  BY DEF IInv, DestroyRefs, Goto, Types, Fresh, Plain, OnTask, Removing, Sweeping, Orphan
<1>6. Mutation'
  BY LeaseAssumption DEF IInv, DestroyRefs, At, Goto, Types, Mutation
<1>7. Decided'
  BY DEF IInv, DestroyRefs, At, Goto, Decided, Orphan, Teardown, Clearing
<1>8. UnsettledKept'
  BY DEF IInv, DestroyRefs, At, Decided, UnsettledKept, Teardown
<1> QED BY <1>1, <1>2, <1>3, <1>4, <1>5, <1>6, <1>7, <1>8 DEF IInv

LEMMA RemoveRecordStep ==
  ASSUME IInv, NEW p \in Procs, RemoveRecord(p)
  PROVE  IInv'
<1>1. Types'
  BY DEF IInv, RemoveRecord, At, Goto, Types, Plain, OnTask, Removing, Sweeping, Orphan,
    Teardown, Clearing
<1>2. Exclusive'
  BY DEF IInv, RemoveRecord, Exclusive
<1>3. Current'
  BY DEF IInv, RemoveRecord, At, Goto, Current
<1>4. Leased'
  BY DEF IInv, RemoveRecord, At, Goto, Leased, Holders, Teardown
<1>5. Fresh'
  BY DEF IInv, RemoveRecord, Goto, Types, Fresh, Plain, OnTask, Removing, Sweeping, Orphan
<1>6. Mutation'
  BY LeaseAssumption DEF IInv, RemoveRecord, At, Goto, Mutation
<1>7. Decided'
  BY DEF IInv, RemoveRecord, At, Goto, Decided, Orphan, Teardown, Clearing
<1>8. UnsettledKept'
  BY DEF IInv, RemoveRecord, At, Decided, UnsettledKept, Teardown
<1> QED BY <1>1, <1>2, <1>3, <1>4, <1>5, <1>6, <1>7, <1>8 DEF IInv

LEMMA RemoveLeaseStep ==
  ASSUME IInv, NEW p \in Procs, RemoveLease(p)
  PROVE  IInv'
<1>1. Types'
  BY DEF IInv, RemoveLease, At, Goto, Types, Plain, OnTask, Removing, Sweeping, Orphan,
    Teardown, Clearing
<1>2. Exclusive'
  BY DEF IInv, RemoveLease, Exclusive
<1>3. Current'
  <2> DEFINE t == op[p].task
  <2>1. /\ op[p] \in Removing /\ At(p, "unlink") /\ t \in Tasks /\ p \in Holders(t)
        /\ path' = [path EXCEPT ![t] = 0] /\ held' = held
        /\ At(p, "drop")' /\ op'[p].task = t /\ \A q \in Procs \ {p} : op'[q] = op[q]
    BY Shapes DEF IInv, RemoveLease, At, Goto, Types, Leased, Removing, Teardown
  <2> HIDE DEF t
  <2>2. ASSUME NEW q \in Procs \ {p}, NEW l \in held[q], l[1] = t
        PROVE  At(q, "drop") /\ op[q].task = t
    <3>1. PICK m \in held[p] : m[1] = t
      BY <2>1 DEF Holders
    <3>2. m = <<t, path[t]>>
      BY <2>1, <3>1 DEF IInv, Types, Current, At
    <3>3. l = <<t, l[2]>> /\ l \notin held[p]
      BY <2>2 DEF IInv, Types, Exclusive
    <3> QED BY <2>2, <3>1, <3>2, <3>3 DEF IInv, Current
  <2>3. ASSUME NEW q \in Procs, NEW l \in held[q]
        PROVE  l[2] = path'[l[1]] \/ (At(q, "drop")' /\ op'[q].task = l[1])
    <3>1. CASE l[1] = t
      BY <2>1, <2>2, <3>1 DEF At
    <3>2. CASE l[1] # t
      <4>1. l[1] \in Tasks /\ (l[2] = path[l[1]] \/ (q # p /\ At(q, "drop") /\ op[q].task = l[1]))
        BY <2>1, <3>2 DEF IInv, Types, Current, At
      <4> QED BY <2>1, <3>2, <4>1 DEF IInv, Types, At
    <3> QED BY <3>1, <3>2
  <2> QED BY <2>1, <2>3 DEF Current
<1>4. Leased'
  BY DEF IInv, RemoveLease, At, Goto, Leased, Holders, Teardown
<1>5. Fresh'
  BY DEF IInv, RemoveLease, Goto, Types, Fresh, Plain, OnTask, Removing, Sweeping, Orphan
<1>6. Mutation'
  BY DEF IInv, RemoveLease, At, Goto, Types, Mutation
<1>7. Decided'
  BY DEF IInv, RemoveLease, At, Goto, Decided, Orphan, Teardown, Clearing
<1>8. UnsettledKept'
  BY DEF IInv, RemoveLease, UnsettledKept
<1> QED BY <1>1, <1>2, <1>3, <1>4, <1>5, <1>6, <1>7, <1>8 DEF IInv

LEMMA DropLeaseStep ==
  ASSUME IInv, NEW p \in Procs, DropLease(p)
  PROVE  IInv'
<1>1. Types'
  BY DEF IInv, DropLease, Return, Released, Idle, Types, Plain
<1>2. Exclusive'
  BY DEF IInv, DropLease, Released, Exclusive
<1>3. Current'
  BY DEF IInv, DropLease, At, Return, Released, Types, Current
<1>4. Leased'
  BY DEF IInv, DropLease, At, Return, Released, Idle, Types, Leased, Holders, Teardown,
    Clearing
<1>5. Fresh'
  BY DEF IInv, DropLease, Return, Idle, Fresh, OnTask, Removing, Sweeping, Orphan
<1>6. Mutation'
  BY DEF IInv, DropLease, At, Return, Idle, Mutation
<1>7. Decided'
  BY DEF IInv, DropLease, Return, Idle, Decided, Orphan, Teardown, Clearing
<1>8. UnsettledKept'
  BY DEF IInv, DropLease, UnsettledKept
<1> QED BY <1>1, <1>2, <1>3, <1>4, <1>5, <1>6, <1>7, <1>8 DEF IInv

(* Recovery. *)

LEMMA ExpireReadStep ==
  ASSUME IInv, NEW p \in Procs, NEW t \in Tasks, ExpireRead(p, t)
  PROVE  IInv'
<1>1. Types'
  BY DEF IInv, ExpireRead, Types, OnTask
<1>2. Exclusive'
  BY DEF IInv, ExpireRead, Exclusive
<1>3. Current'
  BY DEF IInv, ExpireRead, At, Current
<1>4. Leased'
  BY DEF IInv, ExpireRead, Leased, Holders, Teardown, Clearing
<1>5. Fresh'
  BY DEF IInv, ExpireRead, Types, Fresh, Sweeping, Orphan
<1>6. Mutation'
  BY DEF IInv, ExpireRead, At, Mutation
<1>7. Decided'
  BY DEF IInv, ExpireRead, Decided, Orphan, Teardown, Clearing
<1>8. UnsettledKept'
  BY DEF IInv, ExpireRead, UnsettledKept
<1> QED BY <1>1, <1>2, <1>3, <1>4, <1>5, <1>6, <1>7, <1>8 DEF IInv

\* A claim that succeeds shows that p itself does not have the task active.
LEMMA FreeNotActive ==
  ASSUME IInv, NEW p \in Procs, NEW t \in Tasks, Free(t), ~At(p, "drop")
  PROVE  task[p] # t
<1> SUFFICES ASSUME task[p] = t PROVE FALSE
  OBVIOUS
<1>1. PICK l \in held[p] : l[1] = t
  BY LeaseAssumption DEF IInv, Leased, Holders
<1>2. l = <<t, path[t]>> /\ path[t] # 0
  BY <1>1 DEF IInv, Types, Current, Files
<1> QED BY <1>1, <1>2 DEF Free

LEMMA ExpireClaimStep ==
  ASSUME IInv, NEW p \in Procs, ExpireClaim(p)
  PROVE  IInv'
<1>0. PICK t \in Tasks : t = op[p].task
  BY Shapes DEF IInv, ExpireClaim, At, OnTask
<1>1. /\ op[p] = [at |-> "expire", task |-> t] /\ op[p].at = "expire"
      /\ t \in opened
  BY <1>0, Shapes DEF IInv, ExpireClaim, At, Fresh, Types, OnTask
<1>2. CASE ~Free(t)
  <2>1. op' = [op EXCEPT ![p] = Idle] /\ UNCHANGED <<record, refs, path, opened, held, mutex, task, past>>
    BY <1>0, <1>2 DEF ExpireClaim, Return
  <2>2. Types' /\ Exclusive' /\ Current' /\ Leased'
    BY <1>1, <2>1 DEF IInv, Types, Exclusive, Current, Leased, Holders, At, Idle, Plain,
      Teardown, Clearing
  <2>3. Fresh' /\ Mutation' /\ Decided' /\ UnsettledKept'
    BY <1>1, <2>1 DEF IInv, Fresh, Mutation, Decided, UnsettledKept, At, Idle, OnTask,
      Removing, Sweeping, Orphan, Teardown, Clearing
  <2> QED BY <2>2, <2>3 DEF IInv
<1>3. CASE Free(t)
  <2>1. /\ Claim(p, t) /\ ~At(p, "drop")
        /\ op' = [op EXCEPT ![p] = [at |-> "refs", task |-> t, how |-> "expire"]]
        /\ past' = [past EXCEPT !.ended = @ \cup {t}]
        /\ UNCHANGED <<record, refs, opened, mutex, task>>
    BY <1>0, <1>1, <1>3 DEF ExpireClaim, At
  <2>2. /\ path' \in [Tasks -> {0} \cup Files] /\ held' \in [Procs -> SUBSET (Tasks \X Files)]
        /\ \A u \in Tasks \ {t} : path'[u] = path[u]
        /\ Exclusive'
        /\ \A q \in Procs : \A l \in held'[q] :
             l[2] = path'[l[1]] \/ (q # p /\ At(q, "drop") /\ op[q].task = l[1])
        /\ p \in Holders(t)'
        /\ \A q \in Procs : \A u : q \in Holders(u) => q \in Holders(u)'
    BY <1>1, <1>3, <2>1, ClaimLocks DEF IInv
  <2>3. Types'
    BY <1>1, <2>1, <2>2 DEF IInv, Types, Removing, Teardown
  <2>4. Current'
    BY <2>1, <2>2 DEF IInv, Types, Current, At
  <2>5. Leased'
    BY <1>3, <2>1, <2>2, FreeNotActive DEF IInv, Leased
  <2>6. Fresh'
    <3>1. \A u \in Tasks \ opened' : path'[u] = 0
      BY <1>1, <2>1, <2>2 DEF IInv, Fresh
    <3> QED BY <1>1, <2>1, <3>1 DEF IInv, Fresh, Sweeping, Orphan
  <2>7. Mutation'
    BY <1>1, <2>1 DEF IInv, At, Types, Mutation
  <2>8. Decided' /\ UnsettledKept'
    BY <2>1 DEF IInv, Decided, UnsettledKept, Orphan
  <2> QED BY <2>2, <2>3, <2>4, <2>5, <2>6, <2>7, <2>8 DEF IInv
<1> QED BY <1>2, <1>3

LEMMA SweepListStep ==
  ASSUME IInv, NEW p \in Procs, SweepList(p)
  PROVE  IInv'
<1>1. Types'
  BY DEF IInv, SweepList, Types, Sweeping
<1>2. Exclusive'
  BY DEF IInv, SweepList, Exclusive
<1>3. Current'
  BY DEF IInv, SweepList, At, Current
<1>4. Leased'
  BY DEF IInv, SweepList, Leased, Holders, Teardown, Clearing
<1>5. Fresh'
  BY LeaseAssumption, Shapes DEF IInv, SweepList, At, Types, Fresh, Plain, OnTask, Removing,
    Sweeping, Orphan, Teardown, Clearing
<1>6. Mutation'
  BY LeaseAssumption, Shapes DEF IInv, SweepList, At, Types, Mutation, Plain, OnTask, Removing,
    Sweeping, Orphan, Teardown, Clearing
<1>7. Decided'
  BY LeaseAssumption, Shapes DEF IInv, SweepList, At, Types, Decided, UnsettledKept, Plain,
    OnTask, Removing, Sweeping, Orphan, Teardown, Clearing
<1>8. UnsettledKept'
  BY DEF IInv, SweepList, UnsettledKept
<1> QED BY <1>1, <1>2, <1>3, <1>4, <1>5, <1>6, <1>7, <1>8 DEF IInv

LEMMA SweepRecordsStep ==
  ASSUME IInv, NEW p \in Procs, SweepRecords(p)
  PROVE  IInv'
<1>1. Types'
  BY LeaseAssumption, Shapes DEF IInv, SweepRecords, At, NextSweep, Recorded, Idle, Types,
    Plain, OnTask, Removing, Sweeping, Orphan, Teardown, Clearing
<1>2. Exclusive'
  BY DEF IInv, SweepRecords, Exclusive
<1>3. Current'
  BY LeaseAssumption, Shapes DEF IInv, SweepRecords, At, NextSweep, Recorded, Idle, Types,
    Current, Plain, OnTask, Removing, Sweeping, Orphan, Teardown, Clearing
<1>4. Leased'
  BY LeaseAssumption, Shapes DEF IInv, SweepRecords, At, NextSweep, Recorded, Idle, Types,
    Leased, Holders, Plain, OnTask, Removing, Sweeping, Orphan, Teardown, Clearing
<1>5. Fresh'
  BY LeaseAssumption, Shapes DEF IInv, SweepRecords, At, NextSweep, Recorded, Idle, Types,
    Fresh, Plain, OnTask, Removing, Sweeping, Orphan, Teardown, Clearing
<1>6. Mutation'
  BY LeaseAssumption, Shapes DEF IInv, SweepRecords, At, NextSweep, Recorded, Idle, Types,
    Mutation, Plain, OnTask, Removing, Sweeping, Orphan, Teardown, Clearing
<1>7. Decided'
  BY LeaseAssumption, Shapes DEF IInv, SweepRecords, At, NextSweep, Recorded, Idle, Types,
    Decided, UnsettledKept, Plain, OnTask, Removing, Sweeping, Orphan, Teardown, Clearing
<1>8. UnsettledKept'
  BY DEF IInv, SweepRecords, UnsettledKept
<1> QED BY <1>1, <1>2, <1>3, <1>4, <1>5, <1>6, <1>7, <1>8 DEF IInv

LEMMA SweepClaimStep ==
  ASSUME IInv, NEW p \in Procs, NEW t \in Tasks, SweepClaim(p, t)
  PROVE  IInv'
<1> DEFINE todo == op[p].ids \ {t}
           next == [at |-> "sweepRefs", task |-> t, ids |-> todo, claimed |-> path[t] # 0]
<1>1. /\ op[p] \in Sweeping /\ op[p].at = "sweep" /\ t \in op[p].ids
      /\ todo \in SUBSET Tasks /\ todo \subseteq opened /\ t \in opened
      /\ todo \subseteq past.ended /\ t \in past.ended
      /\ UNCHANGED <<record, refs, path, opened, mutex, task, past>>
  BY Shapes DEF IInv, SweepClaim, At, Types, Fresh, Decided, Sweeping
<1>2. CASE ~Free(t)
  <2>1. op' = [op EXCEPT ![p] = IF todo = {} THEN Idle ELSE [at |-> "sweep", ids |-> todo]] /\ held' = held
    BY <1>2 DEF SweepClaim, NextSweep
  <2> HIDE DEF todo
  <2>2. Types' /\ Exclusive' /\ Current' /\ Leased'
    BY <1>1, <2>1 DEF IInv, Types, Exclusive, Current, Leased, Holders, At, Idle, Plain, Sweeping, Teardown, Clearing
  <2>3. Fresh' /\ Mutation' /\ Decided' /\ UnsettledKept'
    BY <1>1, <2>1 DEF IInv, Types, Fresh, Mutation, Decided, UnsettledKept, At, Idle, OnTask,
      Removing, Sweeping, Orphan, Teardown, Clearing
  <2> QED BY <2>2, <2>3 DEF IInv
<1>3. CASE Free(t)
  <2>1. /\ op' = [op EXCEPT ![p] = next]
        /\ held' = IF path[t] = 0 THEN held ELSE [held EXCEPT ![p] = @ \cup {<<t, path[t]>>}]
    BY <1>3 DEF SweepClaim
  <2>2. task[p] # t
    BY <1>1, <1>3, FreeNotActive DEF At
  <2>3. next \in Orphan /\ next.task = t /\ next.ids = todo /\ next.at = "sweepRefs" /\ next.claimed = (path[t] # 0)
    BY <1>1 DEF Orphan, Clearing
  <2> HIDE DEF next, todo
  <2>4. /\ held' \in [Procs -> SUBSET (Tasks \X Files)]
        /\ \A q \in Procs \ {p} : held'[q] = held[q]
        /\ \A l \in held'[p] : l \in held[p] \/ (path[t] # 0 /\ l = <<t, path[t]>>)
        /\ path[t] # 0 => <<t, path[t]>> \in held'[p]
        /\ held[p] \subseteq held'[p]
    BY <2>1 DEF IInv, Types
  <2>5. Types'
    BY <1>1, <2>1, <2>3, <2>4 DEF IInv, Types
  <2>6. Exclusive'
    <3>1. \A q \in Procs : <<t, path[t]>> \notin held[q]
      BY <1>3 DEF Free, IInv, Types, Files
    <3>2. \A l \in held[p] : l[1] # t
      <4> SUFFICES ASSUME NEW l \in held[p], l[1] = t PROVE FALSE
        OBVIOUS
      <4>1. l = <<t, l[2]>>
        BY DEF IInv, Types
      <4>2. l[2] = path[t]
        BY <1>1 DEF IInv, Current, At
      <4> QED BY <3>1, <4>1, <4>2
    <3> QED BY <2>4, <3>1, <3>2 DEF IInv, Exclusive
  <2>7. Current'
    BY <1>1, <2>1, <2>4 DEF IInv, Types, Current, At
  <2>8. Leased'
    <3>1. \A q \in Procs : \A u : q \in Holders(u) => q \in Holders(u)'
      <4>1. \A q \in Procs : held[q] \subseteq held'[q]
        BY <2>4
      <4> QED BY <4>1 DEF Holders
    <3>2. path[t] # 0 => p \in Holders(t)'
      BY <2>4 DEF Holders
    <3> QED BY <1>1, <2>1, <2>2, <2>3, <3>1, <3>2 DEF IInv, Types, Leased, Teardown, Clearing
  <2>9. Fresh' /\ Mutation'
    BY <1>1, <2>1, <2>3 DEF IInv, At, Types, Fresh, Mutation, OnTask, Removing, Sweeping, Orphan
  <2>10. Decided' /\ UnsettledKept'
    BY <1>1, <2>1, <2>3 DEF IInv, Types, Decided, UnsettledKept, Orphan, Teardown, Clearing
  <2> QED BY <2>5, <2>6, <2>7, <2>8, <2>9, <2>10 DEF IInv
<1> QED BY <1>2, <1>3

LEMMA SweepRefsStep ==
  ASSUME IInv, NEW p \in Procs, SweepRefs(p)
  PROVE  IInv'
<1>1. Types'
  BY LeaseAssumption, Shapes DEF IInv, SweepRefs, At, Goto, Types, Plain, OnTask, Removing,
    Sweeping, Orphan, Teardown, Clearing
<1>2. Exclusive'
  BY DEF IInv, SweepRefs, Exclusive
<1>3. Current'
  BY LeaseAssumption, Shapes DEF IInv, SweepRefs, At, Goto, Types, Current, Plain, OnTask,
    Removing, Sweeping, Orphan, Teardown, Clearing
<1>4. Leased'
  BY LeaseAssumption, Shapes DEF IInv, SweepRefs, At, Goto, Types, Leased, Holders, Plain,
    OnTask, Removing, Sweeping, Orphan, Teardown, Clearing
<1>5. Fresh'
  BY LeaseAssumption, Shapes DEF IInv, SweepRefs, At, Goto, Types, Fresh, Plain, OnTask,
    Removing, Sweeping, Orphan, Teardown, Clearing
<1>6. Mutation'
  BY LeaseAssumption, Shapes DEF IInv, SweepRefs, At, Goto, Types, Mutation, Plain, OnTask,
    Removing, Sweeping, Orphan, Teardown, Clearing
<1>7. Decided'
  BY LeaseAssumption, Shapes DEF IInv, SweepRefs, At, Goto, Types, Decided, UnsettledKept,
    Plain, OnTask, Removing, Sweeping, Orphan, Teardown, Clearing
<1>8. UnsettledKept'
  BY LeaseAssumption, Shapes DEF IInv, SweepRefs, At, Goto, Types, Decided, UnsettledKept,
    Plain, OnTask, Removing, Sweeping, Orphan, Teardown, Clearing
<1> QED BY <1>1, <1>2, <1>3, <1>4, <1>5, <1>6, <1>7, <1>8 DEF IInv

LEMMA SweepUnlinkStep ==
  ASSUME IInv, NEW p \in Procs, SweepUnlink(p)
  PROVE  IInv'
<1>1. Types'
  BY LeaseAssumption, Shapes DEF IInv, SweepUnlink, At, NextSweep, Released, Idle, Types,
    Plain, OnTask, Removing, Sweeping, Orphan, Teardown, Clearing
<1>2. Exclusive'
  BY LeaseAssumption, Shapes DEF IInv, SweepUnlink, At, NextSweep, Released, Idle, Types,
    Exclusive
<1>3. Current'
  <2> DEFINE t == op[p].task
  <2>1. /\ op[p] \in Orphan /\ At(p, "sweepUnlink") /\ t \in Tasks
        /\ op[p].claimed => p \in Holders(t)
        /\ path' = IF op[p].claimed THEN [path EXCEPT ![t] = 0] ELSE path
        /\ held' = [held EXCEPT ![p] = {l \in @ : l[1] # t}]
        /\ \A q \in Procs \ {p} : op'[q] = op[q]
    BY Shapes DEF IInv, SweepUnlink, At, NextSweep, Released, Types, Leased, Orphan, Clearing
  <2> HIDE DEF t
  <2>2. ASSUME NEW q \in Procs \ {p}, NEW l \in held[q], l[1] = t, op[p].claimed
        PROVE  At(q, "drop") /\ op[q].task = t
    <3>1. PICK m \in held[p] : m[1] = t
      BY <2>1, <2>2 DEF Holders
    <3>2. m = <<t, path[t]>>
      BY <2>1, <3>1 DEF IInv, Types, Current, At
    <3>3. l = <<t, l[2]>> /\ l \notin held[p]
      BY <2>2 DEF IInv, Types, Exclusive
    <3> QED BY <2>2, <3>1, <3>2, <3>3 DEF IInv, Current
  <2>3. ASSUME NEW q \in Procs, NEW l \in held'[q]
        PROVE  l[2] = path'[l[1]] \/ (At(q, "drop")' /\ op'[q].task = l[1])
    <3>1. l \in held[q] /\ (q = p => l[1] # t) /\ l[1] \in Tasks
      BY <2>1 DEF IInv, Types
    <3>2. l[2] = path[l[1]] \/ (q # p /\ At(q, "drop") /\ op[q].task = l[1])
      BY <2>1, <3>1 DEF IInv, Current, At
    <3>3. l[1] = t /\ op[p].claimed => q # p /\ At(q, "drop") /\ op[q].task = t
      BY <2>2, <3>1
    <3> QED BY <2>1, <3>1, <3>2, <3>3 DEF IInv, Types, At
  <2> QED BY <2>3 DEF Current
<1>4. Leased'
  BY LeaseAssumption, Shapes DEF IInv, SweepUnlink, At, NextSweep, Released, Idle, Types,
    Leased, Holders, Plain, OnTask, Removing, Sweeping, Orphan, Teardown, Clearing
<1>5. Fresh'
  BY LeaseAssumption, Shapes DEF IInv, SweepUnlink, At, NextSweep, Released, Idle, Types,
    Fresh, Plain, OnTask, Removing, Sweeping, Orphan, Teardown, Clearing
<1>6. Mutation'
  BY LeaseAssumption, Shapes DEF IInv, SweepUnlink, At, NextSweep, Released, Idle, Types,
    Mutation, Plain, OnTask, Removing, Sweeping, Orphan, Teardown, Clearing
<1>7. Decided'
  BY LeaseAssumption, Shapes DEF IInv, SweepUnlink, At, NextSweep, Released, Idle, Types,
    Decided, UnsettledKept, Plain, OnTask, Removing, Sweeping, Orphan, Teardown, Clearing
<1>8. UnsettledKept'
  BY LeaseAssumption, Shapes DEF IInv, SweepUnlink, At, NextSweep, Released, Idle, Types,
    Decided, UnsettledKept, Plain, OnTask, Removing, Sweeping, Orphan, Teardown, Clearing
<1> QED BY <1>1, <1>2, <1>3, <1>4, <1>5, <1>6, <1>7, <1>8 DEF IInv

LEMMA ProbeReadStep ==
  ASSUME IInv, NEW p \in Procs, NEW t \in Tasks, ProbeRead(p, t)
  PROVE  IInv'
<1>1. Types'
  BY LeaseAssumption, Shapes DEF IInv, ProbeRead, At, Types, Plain, OnTask, Removing, Sweeping,
    Orphan, Teardown, Clearing
<1>2. Exclusive'
  BY DEF IInv, ProbeRead, Exclusive
<1>3. Current'
  BY LeaseAssumption, Shapes DEF IInv, ProbeRead, At, Types, Current, Plain, OnTask, Removing,
    Sweeping, Orphan, Teardown, Clearing
<1>4. Leased'
  BY LeaseAssumption, Shapes DEF IInv, ProbeRead, At, Types, Leased, Holders, Plain, OnTask,
    Removing, Sweeping, Orphan, Teardown, Clearing
<1>5. Fresh'
  BY LeaseAssumption, Shapes DEF IInv, ProbeRead, At, Types, Fresh, Plain, OnTask, Removing,
    Sweeping, Orphan, Teardown, Clearing
<1>6. Mutation'
  BY LeaseAssumption, Shapes DEF IInv, ProbeRead, At, Types, Mutation, Plain, OnTask, Removing,
    Sweeping, Orphan, Teardown, Clearing
<1>7. Decided'
  BY LeaseAssumption, Shapes DEF IInv, ProbeRead, At, Types, Decided, UnsettledKept, Plain,
    OnTask, Removing, Sweeping, Orphan, Teardown, Clearing
<1>8. UnsettledKept'
  BY DEF IInv, ProbeRead, UnsettledKept
<1> QED BY <1>1, <1>2, <1>3, <1>4, <1>5, <1>6, <1>7, <1>8 DEF IInv

LEMMA ProbeStep ==
  ASSUME IInv, NEW p \in Procs, Probe(p)
  PROVE  IInv'
<1>1. Types'
  BY LeaseAssumption, Shapes, FreshFile DEF IInv, Probe, At, Return, Idle, Types, Plain, OnTask
<1>2. Exclusive'
  BY DEF IInv, Probe, Exclusive
<1>3. Current'
  <2> DEFINE t == op[p].task
  <2>1. /\ At(p, "probe") /\ t \in Tasks /\ held' = held
        /\ path' = [path EXCEPT ![t] = File(t)]
        /\ \A q \in Procs \ {p} : op'[q] = op[q]
    BY Shapes DEF IInv, Probe, At, Return, Types, OnTask
  <2> HIDE DEF t
  <2>2. File(t) = path[t] \/ path[t] = 0
    BY <2>1, FreshFile DEF IInv
  <2>3. ASSUME NEW q \in Procs, NEW l \in held[q]
        PROVE  l[2] = path'[l[1]] \/ (At(q, "drop")' /\ op'[q].task = l[1])
    <3>1. l[1] \in Tasks /\ l[2] \in Files
      BY DEF IInv, Types
    <3>2. l[2] # 0
      BY <3>1 DEF Files
    <3>3. l[2] = path[l[1]] \/ (q # p /\ At(q, "drop") /\ op[q].task = l[1])
      BY <2>1 DEF IInv, Current, At
    <3> QED BY <2>1, <2>2, <3>1, <3>2, <3>3 DEF IInv, Types, At
  <2> QED BY <2>1, <2>3 DEF Current
<1>4. Leased'
  BY LeaseAssumption, Shapes DEF IInv, Probe, At, Return, Idle, Types, Leased, Holders, Plain,
    OnTask, Removing, Sweeping, Orphan, Teardown, Clearing
<1>5. Fresh'
  BY LeaseAssumption, Shapes DEF IInv, Probe, At, Return, Idle, Types, Fresh, Plain, OnTask,
    Removing, Sweeping, Orphan, Teardown, Clearing
<1>6. Mutation'
  BY LeaseAssumption, Shapes DEF IInv, Probe, At, Return, Idle, Types, Mutation, Plain, OnTask,
    Removing, Sweeping, Orphan, Teardown, Clearing
<1>7. Decided'
  BY LeaseAssumption, Shapes DEF IInv, Probe, At, Return, Idle, Types, Decided, UnsettledKept,
    Plain, OnTask, Removing, Sweeping, Orphan, Teardown, Clearing
<1>8. UnsettledKept'
  BY DEF IInv, Probe, UnsettledKept
<1> QED BY <1>1, <1>2, <1>3, <1>4, <1>5, <1>6, <1>7, <1>8 DEF IInv

LEMMA AdoptReadStep ==
  ASSUME IInv, NEW p \in Procs, NEW t \in Tasks, AdoptRead(p, t)
  PROVE  IInv'
<1>1. Types'
  BY LeaseAssumption, Shapes DEF IInv, AdoptRead, At, Types, Plain, OnTask, Removing, Sweeping,
    Orphan, Teardown, Clearing
<1>2. Exclusive'
  BY DEF IInv, AdoptRead, Exclusive
<1>3. Current'
  BY LeaseAssumption, Shapes DEF IInv, AdoptRead, At, Types, Current, Plain, OnTask, Removing,
    Sweeping, Orphan, Teardown, Clearing
<1>4. Leased'
  BY LeaseAssumption, Shapes DEF IInv, AdoptRead, At, Types, Leased, Holders, Plain, OnTask,
    Removing, Sweeping, Orphan, Teardown, Clearing
<1>5. Fresh'
  BY LeaseAssumption, Shapes DEF IInv, AdoptRead, At, Types, Fresh, Plain, OnTask, Removing,
    Sweeping, Orphan, Teardown, Clearing
<1>6. Mutation'
  BY LeaseAssumption, Shapes DEF IInv, AdoptRead, At, Types, Mutation, Plain, OnTask, Removing,
    Sweeping, Orphan, Teardown, Clearing
<1>7. Decided'
  BY LeaseAssumption, Shapes DEF IInv, AdoptRead, At, Types, Decided, UnsettledKept, Plain,
    OnTask, Removing, Sweeping, Orphan, Teardown, Clearing
<1>8. UnsettledKept'
  BY DEF IInv, AdoptRead, UnsettledKept
<1> QED BY <1>1, <1>2, <1>3, <1>4, <1>5, <1>6, <1>7, <1>8 DEF IInv

LEMMA AdoptClaimStep ==
  ASSUME IInv, NEW p \in Procs, AdoptClaim(p)
  PROVE  IInv'
<1>0. PICK t \in Tasks : t = op[p].task
  BY Shapes DEF IInv, AdoptClaim, At, OnTask
<1>1. /\ op[p] = [at |-> "adopt", task |-> t] /\ op[p].at = "adopt"
      /\ t \in opened
  BY <1>0, Shapes DEF IInv, AdoptClaim, At, Fresh, Types, OnTask
<1>2. CASE ~Free(t)
  <2>1. op' = [op EXCEPT ![p] = Idle] /\ UNCHANGED <<record, refs, path, opened, held, mutex, task, past>>
    BY <1>0, <1>2 DEF AdoptClaim, Return
  <2>2. Types' /\ Exclusive' /\ Current' /\ Leased'
    BY <1>1, <2>1 DEF IInv, Types, Exclusive, Current, Leased, Holders, At, Idle, Plain, Teardown, Clearing
  <2>3. Fresh' /\ Mutation' /\ Decided' /\ UnsettledKept'
    BY <1>1, <2>1 DEF IInv, Types, Fresh, Mutation, Decided, UnsettledKept, At, Idle, OnTask,
      Removing, Sweeping, Orphan, Teardown, Clearing
  <2> QED BY <2>2, <2>3 DEF IInv
<1>3. CASE Free(t)
  <2>1. /\ Claim(p, t) /\ ~At(p, "drop")
        /\ op' = [op EXCEPT ![p] = [at |-> "rehydrate", task |-> t]]
        /\ past' = past
        /\ UNCHANGED <<record, refs, opened, mutex, task>>
    BY <1>0, <1>1, <1>3 DEF AdoptClaim, Goto, At
  <2>2. /\ path' \in [Tasks -> {0} \cup Files] /\ held' \in [Procs -> SUBSET (Tasks \X Files)]
        /\ \A u \in Tasks \ {t} : path'[u] = path[u]
        /\ Exclusive'
        /\ \A q \in Procs : \A l \in held'[q] :
             l[2] = path'[l[1]] \/ (q # p /\ At(q, "drop") /\ op[q].task = l[1])
        /\ p \in Holders(t)'
        /\ \A q \in Procs : \A u : q \in Holders(u) => q \in Holders(u)'
    BY <1>1, <1>3, <2>1, ClaimLocks DEF IInv
  <2>3. Types'
    BY <1>1, <2>1, <2>2 DEF IInv, Types, Fresh, OnTask, Removing, Teardown
  <2>4. Current'
    BY <2>1, <2>2 DEF IInv, Types, Current, At
  <2>5. Leased'
    BY <1>1, <1>3, <2>1, <2>2, FreeNotActive DEF IInv, Types, Leased, At, Teardown, Clearing
  <2>6. Fresh'
    <3>1. \A u \in Tasks \ opened' : path'[u] = 0
      BY <1>1, <2>1, <2>2 DEF IInv, Fresh
    <3> QED BY <1>1, <2>1, <3>1 DEF IInv, Types, Fresh, OnTask, Removing, Sweeping, Orphan, Teardown, Clearing
  <2>7. Mutation'
    BY <1>1, <2>1 DEF IInv, At, Types, Mutation
  <2>8. Decided' /\ UnsettledKept'
    BY <1>1, <2>1 DEF IInv, Types, Decided, UnsettledKept, OnTask, Removing, Orphan, Teardown, Clearing
  <2> QED BY <2>2, <2>3, <2>4, <2>5, <2>6, <2>7, <2>8 DEF IInv
<1> QED BY <1>2, <1>3

LEMMA RehydrateStep ==
  ASSUME IInv, NEW p \in Procs, NEW other \in BOOLEAN, Rehydrate(p, other)
  PROVE  IInv'
<1>1. Types'
  BY LeaseAssumption, Shapes DEF IInv, Rehydrate, At, Return, Idle, Types, Fresh, Plain, OnTask
<1>2. Exclusive'
  BY DEF IInv, Rehydrate, Exclusive
<1>3. Current'
  BY LeaseAssumption, Shapes DEF IInv, Rehydrate, At, Return, Idle, Types, Current, Plain,
    OnTask, Removing, Sweeping, Orphan, Teardown, Clearing
<1>4. Leased'
  BY LeaseAssumption, Shapes DEF IInv, Rehydrate, At, Return, Idle, Types, Leased, Holders,
    Plain, OnTask, Removing, Sweeping, Orphan, Teardown, Clearing
<1>5. Fresh'
  BY LeaseAssumption, Shapes DEF IInv, Rehydrate, At, Return, Idle, Types, Fresh, Plain,
    OnTask, Removing, Sweeping, Orphan, Teardown, Clearing
<1>6. Mutation'
  BY LeaseAssumption, Shapes DEF IInv, Rehydrate, At, Return, Idle, Types, Mutation, Plain,
    OnTask, Removing, Sweeping, Orphan, Teardown, Clearing
<1>7. Decided'
  BY LeaseAssumption, Shapes DEF IInv, Rehydrate, At, Return, Idle, Types, Decided,
    UnsettledKept, Plain, OnTask, Removing, Sweeping, Orphan, Teardown, Clearing
<1>8. UnsettledKept'
  BY LeaseAssumption, Shapes DEF IInv, Rehydrate, At, Return, Idle, Types, Decided,
    UnsettledKept, Plain, OnTask, Removing, Sweeping, Orphan, Teardown, Clearing
<1> QED BY <1>1, <1>2, <1>3, <1>4, <1>5, <1>6, <1>7, <1>8 DEF IInv

(* A crash. *)

LEMMA CrashStep ==
  ASSUME IInv, NEW p \in Procs, Crash(p)
  PROVE  IInv'
<1>1. Types'
  BY LeaseAssumption, Shapes DEF IInv, Crash, Return, LocksAfter, Idle, Types, Plain, OnTask,
    Removing, Sweeping, Orphan, Teardown, Clearing
<1>2. Exclusive'
  BY LeaseAssumption, Shapes DEF IInv, Crash, Return, LocksAfter, Idle, Types, Exclusive
<1>3. Current'
  BY LeaseAssumption, Shapes DEF IInv, Crash, Return, LocksAfter, Idle, Types, Current, At,
    Plain, OnTask, Removing, Sweeping, Orphan, Teardown, Clearing
<1>4. Leased'
  BY LeaseAssumption, Shapes DEF IInv, Crash, Return, LocksAfter, Idle, Types, Leased, Holders,
    Plain, OnTask, Removing, Sweeping, Orphan, Teardown, Clearing
<1>5. Fresh'
  BY LeaseAssumption, Shapes DEF IInv, Crash, Return, LocksAfter, Idle, Types, Fresh, Plain,
    OnTask, Removing, Sweeping, Orphan, Teardown, Clearing
<1>6. Mutation'
  BY LeaseAssumption DEF IInv, Crash, At, Return, Idle, LocksAfter, Types, Mutation
<1>7. Decided'
  BY LeaseAssumption, Shapes DEF IInv, Crash, Return, LocksAfter, Idle, Types, Decided,
    UnsettledKept, Plain, OnTask, Removing, Sweeping, Orphan, Teardown, Clearing
<1>8. UnsettledKept'
  BY DEF IInv, Crash, UnsettledKept
<1> QED BY <1>1, <1>2, <1>3, <1>4, <1>5, <1>6, <1>7, <1>8 DEF IInv

-----------------------------------------------------------------------------
(* The theorems.                                                           *)

LEMMA InitIInv == Init => IInv
BY LeaseAssumption DEF Init, IInv, Types, Exclusive, Current, Leased, Fresh, Mutation, Decided,
  UnsettledKept, Holders, At, Idle, Plain, OnTask, Removing, Sweeping, Orphan, Teardown, Clearing

LEMMA NextIInv == IInv /\ [Next]_vars => IInv'
<1> SUFFICES ASSUME IInv, [Next]_vars PROVE IInv'
  OBVIOUS
<1>1. CASE UNCHANGED vars
  BY <1>1 DEF vars, IInv, Types, Exclusive, Current, Leased, Fresh, Mutation, Decided,
    UnsettledKept, Holders, At
<1>2. ASSUME NEW p \in Procs, Proceed(p) PROVE IInv'
  BY <1>2, OpenPersistStep, PersistTaskStep, DestroyRefsStep, RemoveRecordStep, RemoveLeaseStep,
    DropLeaseStep, ExpireClaimStep, SweepRecordsStep, SweepClaimStep, SweepRefsStep,
    SweepUnlinkStep, ProbeStep, AdoptClaimStep, RehydrateStep DEF Proceed
<1>3. ASSUME NEW p \in Procs, Begin(p) PROVE IInv'
  BY <1>3, OpenLeaseStep, ExpireReadStep, ProbeReadStep, AdoptReadStep, CheckpointRefsStep,
    SweepListStep, SettleStep DEF Begin
<1>4. ASSUME NEW p \in Procs, Crash(p) PROVE IInv'
  BY <1>4, CrashStep
<1> QED BY <1>1, <1>2, <1>3, <1>4 DEF Next

\* The locks, records and refs keep their types, and whoever has a task
\* active or tears one down holds a lease on it, in every run of any number
\* of processes: State::task is never set without the lease of its task.
THEOREM TypeCorrect == Spec => []TypeOK
<1>1. IInv => TypeOK
  BY DEF IInv, Types, Leased, Mutation, TypeOK, Teardown
<1> QED BY <1>1, InitIInv, NextIInv, PTL DEF Spec

\* No sweep, probe, adoption or crash takes the record or the checkpoint refs
\* of a task that nobody settled or expired.
THEOREM UnsettledKeptTheorem == Spec => []UnsettledKept
<1>1. IInv => UnsettledKept
  BY DEF IInv
<1> QED BY <1>1, InitIInv, NextIInv, PTL DEF Spec

\* Until a decision ends it, a task has at most one process on it, and that
\* process has locked the very file that the next claim will open, although
\* lease files are unlinked and created again by name.
THEOREM SoleOwnerTheorem == Spec => []SoleOwner
<1>1. ASSUME IInv PROVE SoleOwner
  <2> SUFFICES ASSUME NEW t \in Tasks \ past.ended, NEW p \in Holders(t)
               PROVE  Holders(t) = {p} /\ <<t, path[t]>> \in held[p]
    BY DEF SoleOwner
  <2>1. ASSUME NEW q \in Holders(t) PROVE <<t, path[t]>> \in held[q] /\ q \in Procs
    <3>1. PICK l \in held[q] : l[1] = t
      BY DEF Holders
    <3>2. q \in Procs /\ l = <<t, l[2]>>
      BY <1>1, <3>1 DEF Holders, IInv, Types
    <3>3. ~(At(q, "drop") /\ op[q].task = t)
      BY <1>1, <3>2 DEF IInv, Decided, At, Teardown
    <3> QED BY <1>1, <3>1, <3>2, <3>3 DEF IInv, Current
  <2>2. \A q \in Holders(t) : q = p
    BY <1>1, <2>1 DEF IInv, Exclusive
  <2> QED BY <2>1, <2>2
<1> QED BY <1>1, InitIInv, NextIInv, PTL DEF Spec
=============================================================================

--------------------------- MODULE DirtyGuardProofs ---------------------------
(* Theorems about DirtyGuard, for any set of files, any outcomes of the     *)
(* commands and any number of calls, user steps and crashes.                *)
EXTENDS DirtyGuard, TLAPS, SequenceTheorems

-----------------------------------------------------------------------------
(* The inductive invariant.                                                *)

PartialOn(C) == UNION {[S -> C] : S \in SUBSET Paths}

TaskType(C) ==
  [open : BOOLEAN, protected : SUBSET Paths, approved : SUBSET Paths, allDirty : BOOLEAN,
   ledger : PartialOn(C), blocked : BOOLEAN, before : PartialOn(C), points : Seq(PartialOn(C))]

RecordType(C) == {NoRecord} \cup [exists : {TRUE}, expected : PartialOn(C)]

ScanType(C) ==
  {NoScan} \cup [state : {"running"}, baseline : SUBSET Paths]
  \cup [state : {"done"}, found : PartialOn(C)]

CallType ==
  {NoCall}
  \cup [phase : {"gate", "ready", "exec"}, tool : Tools, targets : SUBSET Paths,
        gated : SUBSET Paths]
  \cup [phase : {"after"}, tool : Tools, targets : SUBSET Paths, ok : BOOLEAN]
  \cup [phase : {"restore"}, paths : SUBSET Paths]

PastType ==
  [atOpen : [Paths -> Content], openUser : Nat, dirty : SUBSET Paths, allowed : SUBSET Paths,
   cut : SUBSET Paths, touched : SUBSET Paths, lost : SUBSET Paths, escaped : SUBSET Paths,
   skewed : SUBSET Paths,
   closed : {"no", "external", "accepted", "failed", "rolled", "partly", "crashed", "expired"},
   marked : BOOLEAN, acted : BOOLEAN, unseen : BOOLEAN]

\* What the files, git, the task, the record and the scan hold.
Contents(C) ==
  /\ disk \in [Paths -> C] /\ committed \in [Paths -> C]
  /\ task \in TaskType(C) /\ record \in RecordType(C)
  /\ snapshot \in PartialOn(C) /\ scan \in ScanType(C)

Types ==
  /\ Contents(Content)
  /\ call \in CallType /\ turn \in [runs : BOOLEAN, mutated : BOOLEAN]
  /\ user \in 0..MaxUserSteps /\ calls \in 0..MaxCalls /\ crashes \in 0..MaxCrashes
  /\ past \in PastType

\* Calls run inside a turn of an open task; after a crash there is neither.
Stages ==
  /\ call # NoCall => turn.runs /\ task.open /\ calls >= 1
  /\ call.phase \in {"gate", "ready", "exec", "after"} =>
       scan = NoScan /\ (call.tool = "bash" => call.targets = {})
  /\ call.phase \in {"exec", "after"} => DOMAIN snapshot = task.protected \cup call.targets
  /\ call.phase = "restore" => call.paths \subseteq DOMAIN snapshot /\ past.unseen
  /\ scan # NoScan => task.open
  /\ scan.state = "running" => scan.baseline = task.protected
  /\ scan.state = "done" => DOMAIN scan.found \cap task.protected = {}
  /\ task.open => past.closed = "no"
  /\ past.closed = "crashed" => ~turn.runs /\ record.exists

\* A chain is being built, or waits for its adoption.
Live == task.open \/ past.closed = "crashed"

\* The ledger and the record name only paths whose pre-task content is noted;
\* the newest point has all of these.
Recorded ==
  Live =>
    /\ DOMAIN task.ledger \subseteq DOMAIN task.before
    /\ record.exists => DOMAIN record.expected \subseteq DOMAIN task.before
    /\ DOMAIN task.before # {} => task.points # <<>> /\ DOMAIN task.before \subseteq DOMAIN Newest(task)

\* What the guard must keep: dirty when the task opened, not touched by the
\* user, not given to Iris, not changed by a call that a crash cut off.
Kept == past.dirty \ (past.allowed \cup past.touched \cup past.cut)

\* The baseline covers it, and approvals are the user's.
Guarded ==
  task.open =>
    /\ past.dirty \subseteq task.protected
    /\ task.approved \cap past.dirty \subseteq past.allowed
    /\ task.allDirty => past.dirty \subseteq past.allowed
    /\ call.phase = "gate" => call.targets \cap past.dirty \subseteq past.allowed \cup call.gated
    /\ call.phase \in {"ready", "exec", "after"} =>
         call.targets \cap past.dirty \subseteq past.allowed

\* Its bytes are on disk, or in the snapshot of the call that changed them.
Intact ==
  Live =>
    /\ call.phase \in {"none", "gate", "ready", "exec"} =>
         \A p \in Kept : disk[p] = past.atOpen[p]
    /\ call.phase \in {"exec", "after", "restore"} =>
         \A p \in Kept : p \in DOMAIN snapshot /\ snapshot[p] = past.atOpen[p]
    /\ call.phase = "restore" =>
         \A p \in Kept : p \in call.paths \/ disk[p] = past.atOpen[p]

\* Since the last observed end of a turn nobody but Iris changed anything: if
\* the ledger's paths are clean, settlement is blocked, or the end of the
\* running turn will be observed.
Observed ==
  task.open /\ ~past.acted /\ ~past.unseen =>
    \/ turn.runs /\ turn.mutated
    \/ call.phase = "after"
    \/ scan = NoScan /\ (Clean(DOMAIN task.ledger) => task.blocked)

\* The files a rollback must get right.
Ours == Paths \ (past.touched \cup past.lost \cup past.escaped)

\* The pre-task contents are right, and git still has those of a file that is
\* neither noted nor protected.
Noted ==
  /\ Live => \A p \in DOMAIN task.before \cap Ours : task.before[p] = past.atOpen[p]
  /\ task.open => \A p \in Ours \ (DOMAIN task.before \cup task.protected) :
                    committed[p] = past.atOpen[p]

\* A rollback of task t takes p from content v to what it was when t opened.
Fine(t, p, v) ==
  \/ v = past.atOpen[p]
  \/ p \in DOMAIN t.before /\ (v = Newest(t)[p] \/ p \in past.skewed)

\* The next join will find p.
Pending(p) ==
  \/ scan.state = "running" /\ p \in Dirty \ scan.baseline
  \/ scan.state = "done" /\ p \in DOMAIN scan.found

Restorable ==
  task.open =>
    /\ call.phase \in {"none", "gate", "ready", "exec"} =>
         \A p \in Ours : Fine(task, p, disk[p]) \/ Pending(p)
    /\ call.phase \in {"exec", "after"} =>
         \A p \in Ours \cap DOMAIN snapshot : Fine(task, p, snapshot[p])
    /\ call.phase = "after" =>
         \A p \in Ours \ DOMAIN snapshot :
           Fine(task, p, disk[p]) \/ (call.tool = "bash" /\ p \in Dirty)
    /\ call.phase = "restore" =>
         \A p \in Ours : IF p \in call.paths THEN Fine(task, p, snapshot[p])
                                             ELSE Fine(task, p, disk[p]) \/ Pending(p)

\* After a crash: what the record does not name has not changed, the rest can
\* be rolled back or differs from the record.
Adoptable ==
  past.closed = "crashed" =>
    \A p \in Ours : IF p \in DOMAIN record.expected
                    THEN Fine(task, p, disk[p]) \/ disk[p] # record.expected[p]
                    ELSE disk[p] = past.atOpen[p]

IInv ==
  /\ Types /\ Stages /\ Recorded /\ Guarded /\ Intact /\ Observed
  /\ Noted /\ Restorable /\ Adoptable /\ RollbackExact

-----------------------------------------------------------------------------
(* Partial functions and records.                                          *)

LEMMA PartialDef ==
  ASSUME NEW C, NEW f
  PROVE  f \in PartialOn(C) <=> \E S \in SUBSET Paths : f \in [S -> C]
BY DEF PartialOn

LEMMA PartialFacts ==
  ASSUME NEW C, NEW f \in PartialOn(C)
  PROVE  DOMAIN f \subseteq Paths /\ \A p \in DOMAIN f : f[p] \in C
BY PartialDef

LEMMA RestrictFacts ==
  ASSUME NEW C, NEW f, NEW S \in SUBSET Paths, \A p \in S : f[p] \in C
  PROVE  /\ Restrict(f, S) \in PartialOn(C) /\ DOMAIN Restrict(f, S) = S
         /\ \A p \in S : Restrict(f, S)[p] = f[p]
<1>1. Restrict(f, S) \in [S -> C]
  BY DEF Restrict
<1> QED BY <1>1, PartialDef DEF Restrict

LEMMA OverFacts ==
  ASSUME NEW C, NEW f \in PartialOn(C), NEW g \in PartialOn(C)
  PROVE  /\ Over(f, g) \in PartialOn(C) /\ DOMAIN Over(f, g) = DOMAIN f \cup DOMAIN g
         /\ \A p \in DOMAIN f : Over(f, g)[p] = f[p]
         /\ \A p \in DOMAIN g \ DOMAIN f : Over(f, g)[p] = g[p]
<1>1. DOMAIN f \cup DOMAIN g \in SUBSET Paths
  BY PartialFacts
<1>2. Over(f, g) \in [DOMAIN f \cup DOMAIN g -> C]
  BY PartialFacts DEF Over
<1> QED BY <1>1, <1>2, PartialDef DEF Over

LEMMA EmptyFacts ==
  ASSUME NEW C
  PROVE  Empty \in PartialOn(C) /\ DOMAIN Empty = {}
<1>1. Empty \in [{} -> C] /\ {} \in SUBSET Paths
  BY DEF Empty
<1> QED BY <1>1, PartialDef

LEMMA ContentFacts ==
  /\ Absent \in Content /\ Repo \in Content
  /\ \A n \in 0..MaxUserSteps : ByUser(n) \in Content
  /\ \A n \in 1..MaxCalls : ByIris(n) \in Content
BY DEF Content

LEMMA NoTaskFacts ==
  ASSUME NEW C
  PROVE  /\ NoTask \in TaskType(C) /\ NoTask.open = FALSE /\ NoTask.protected = {}
         /\ NoTask.approved = {} /\ NoTask.allDirty = FALSE /\ NoTask.ledger = Empty
         /\ NoTask.before = Empty /\ NoTask.points = <<>>
<1>1. Empty \in PartialOn(C) /\ <<>> \in Seq(PartialOn(C))
  BY EmptyFacts
<1> QED BY <1>1 DEF NoTask, TaskType

LEMMA CheckpointFacts ==
  ASSUME NEW C, NEW t \in TaskType(C), disk \in [Paths -> C]
  PROVE  /\ Checkpoint(t) \in TaskType(C)
         /\ Checkpoint(t).open = t.open /\ Checkpoint(t).protected = t.protected
         /\ Checkpoint(t).approved = t.approved /\ Checkpoint(t).allDirty = t.allDirty
         /\ Checkpoint(t).ledger = t.ledger /\ Checkpoint(t).blocked = t.blocked
         /\ Checkpoint(t).before = t.before
         /\ Checkpoint(t).points # <<>> /\ DOMAIN Newest(Checkpoint(t)) = DOMAIN t.before
         /\ \A p \in DOMAIN t.before : Newest(Checkpoint(t))[p] = disk[p]
<1> DEFINE tree == Restrict(disk, DOMAIN t.before)
           pts == Append(t.points, tree)
<1>1. t.before \in PartialOn(C) /\ t.points \in Seq(PartialOn(C))
  BY DEF TaskType
<1>2. /\ tree \in PartialOn(C) /\ DOMAIN tree = DOMAIN t.before
      /\ \A p \in DOMAIN t.before : tree[p] = disk[p]
  BY <1>1, PartialFacts, RestrictFacts
<1> HIDE DEF tree
<1>3. pts \in Seq(PartialOn(C)) /\ pts # <<>> /\ pts[Len(pts)] = tree
  BY <1>1, <1>2, AppendProperties
<1> HIDE DEF pts
<1>4. Checkpoint(t) = [t EXCEPT !.points = pts]
  BY DEF Checkpoint, tree, pts
<1>5. /\ Checkpoint(t) \in TaskType(C) /\ Checkpoint(t).points = pts
      /\ Checkpoint(t).open = t.open /\ Checkpoint(t).protected = t.protected
      /\ Checkpoint(t).approved = t.approved /\ Checkpoint(t).allDirty = t.allDirty
      /\ Checkpoint(t).ledger = t.ledger /\ Checkpoint(t).blocked = t.blocked
      /\ Checkpoint(t).before = t.before
  BY <1>3, <1>4 DEF TaskType
<1>6. Newest(Checkpoint(t)) = tree
  BY <1>3, <1>5 DEF Newest
<1> QED BY <1>2, <1>3, <1>5, <1>6

\* A ledger entry and its pre-task content.
LEMMA NotedFacts ==
  ASSUME NEW C, NEW t \in TaskType(C), NEW after \in PartialOn(C), NEW pre \in PartialOn(C)
  PROVE  LET n == NoteBefore(Ledgered(t, after), pre) IN
         /\ n \in TaskType(C)
         /\ n.open = t.open /\ n.protected = t.protected /\ n.approved = t.approved
         /\ n.allDirty = t.allDirty /\ n.blocked = t.blocked /\ n.points = t.points
         /\ n.ledger = Over(after, t.ledger) /\ n.before = Over(t.before, pre)
<1>1. t.ledger \in PartialOn(C) /\ t.before \in PartialOn(C)
  BY DEF TaskType
<1>2. Over(after, t.ledger) \in PartialOn(C) /\ Over(t.before, pre) \in PartialOn(C)
  BY <1>1, OverFacts
<1> QED BY <1>2 DEF TaskType, NoteBefore, Ledgered

-----------------------------------------------------------------------------
(* The join of the attribution scan.                                       *)

LEMMA DirtyFacts == Dirty \subseteq Paths
BY DEF Dirty

LEMMA FoundFacts ==
  ASSUME NEW C, Contents(C), scan # NoScan
  PROVE  /\ ScanResult \in PartialOn(C)
         /\ scan.state = "done" => DOMAIN ScanResult = DOMAIN scan.found
         /\ scan.state = "running" => DOMAIN ScanResult = Dirty \ scan.baseline
         /\ scan.state \in {"running", "done"}
<1>1. CASE scan \in [state : {"done"}, found : PartialOn(C)]
  BY <1>1 DEF ScanResult
<1>2. CASE scan \in [state : {"running"}, baseline : SUBSET Paths]
  <2>1. Dirty \ scan.baseline \in SUBSET Paths /\ \A p \in Paths : disk[p] \in C
    BY DirtyFacts DEF Contents
  <2>2. /\ Restrict(disk, Dirty \ scan.baseline) \in PartialOn(C)
        /\ DOMAIN Restrict(disk, Dirty \ scan.baseline) = Dirty \ scan.baseline
    BY <2>1, RestrictFacts
  <2>3. scan.state = "running"
    BY <1>2
  <2> QED BY <2>2, <2>3 DEF ScanResult
<1> QED BY <1>1, <1>2 DEF Contents, ScanType

\* A join that finds nothing leaves the task as it is; another one notes what
\* it found and makes a point of the files as they are.
LEMMA JoinedFacts ==
  ASSUME NEW C, Contents(C), NEW t \in TaskType(C)
  PROVE  LET j == Joined(t) IN
         /\ j \in TaskType(C) /\ j.open = t.open /\ j.protected = t.protected
         /\ j.approved = t.approved /\ j.allDirty = t.allDirty /\ j.blocked = t.blocked
         /\ scan = NoScan \/ ~t.open => j = t
         /\ DOMAIN t.before \subseteq DOMAIN j.before
         /\ \A p \in DOMAIN t.before : j.before[p] = t.before[p]
         /\ DOMAIN t.ledger \subseteq DOMAIN j.ledger
         /\ DOMAIN t.ledger \subseteq DOMAIN t.before => DOMAIN j.ledger \subseteq DOMAIN j.before
         /\ \/ j = t /\ (scan # NoScan /\ t.open => DOMAIN ScanResult = {})
            \/ /\ scan # NoScan /\ t.open
               /\ DOMAIN j.before = DOMAIN t.before \cup DOMAIN ScanResult
               /\ \A p \in DOMAIN j.before \ DOMAIN t.before : j.before[p] = committed[p]
               /\ j.points # <<>> /\ DOMAIN Newest(j) = DOMAIN j.before
               /\ \A p \in DOMAIN j.before : Newest(j)[p] = disk[p]
<1>1. CASE scan = NoScan \/ ~t.open
  BY <1>1 DEF Joined
<1>2. CASE ~(scan = NoScan \/ ~t.open)
  <2> PICK found : found = ScanResult
    OBVIOUS
  <2>1. found \in PartialOn(C) /\ DOMAIN found \subseteq Paths
    BY <1>2, FoundFacts, PartialFacts
  <2> PICK pre : pre = Restrict(committed, DOMAIN found)
    OBVIOUS
  <2>2. /\ pre \in PartialOn(C) /\ DOMAIN pre = DOMAIN found
        /\ \A p \in DOMAIN found : pre[p] = committed[p]
    <3>1. \A p \in DOMAIN found : committed[p] \in C
      BY <2>1 DEF Contents
    <3> QED BY <2>1, <3>1, RestrictFacts
  <2> PICK n : n = NoteBefore(Ledgered(t, found), pre)
    OBVIOUS
  <2>3. /\ n \in TaskType(C)
        /\ n.open = t.open /\ n.protected = t.protected /\ n.approved = t.approved
        /\ n.allDirty = t.allDirty /\ n.blocked = t.blocked /\ n.points = t.points
        /\ n.ledger = Over(found, t.ledger) /\ n.before = Over(t.before, pre)
    BY <2>1, <2>2, NotedFacts
  <2>4. t.before \in PartialOn(C) /\ t.ledger \in PartialOn(C)
    BY DEF TaskType
  <2>5. /\ DOMAIN n.before = DOMAIN t.before \cup DOMAIN found
        /\ \A p \in DOMAIN t.before : n.before[p] = t.before[p]
        /\ \A p \in DOMAIN pre \ DOMAIN t.before : n.before[p] = pre[p]
    <3>1. /\ DOMAIN Over(t.before, pre) = DOMAIN t.before \cup DOMAIN pre
          /\ \A p \in DOMAIN t.before : Over(t.before, pre)[p] = t.before[p]
          /\ \A p \in DOMAIN pre \ DOMAIN t.before : Over(t.before, pre)[p] = pre[p]
      BY <2>2, <2>4, OverFacts
    <3>2. n.before = Over(t.before, pre)
      BY <2>3
    <3> QED BY ONLY <3>1, <3>2, <2>2, Zenon
  <2>6. DOMAIN n.ledger = DOMAIN found \cup DOMAIN t.ledger
    <3>1. DOMAIN Over(found, t.ledger) = DOMAIN found \cup DOMAIN t.ledger
      BY DEF Over
    <3>2. n.ledger = Over(found, t.ledger)
      BY <2>3
    <3> QED BY ONLY <3>1, <3>2, Zenon
  <2>7. Joined(t) = IF DOMAIN found = {} THEN t ELSE Checkpoint(n)
    BY <1>2 DEF Joined
  <2>8. CASE DOMAIN found = {}
    <3>1. Joined(t) = t
      BY <2>7, <2>8
    <3> QED BY <3>1, <2>8, <1>2
  <2>9. CASE DOMAIN found # {}
    <3>1. Joined(t) = Checkpoint(n)
      BY <2>7, <2>9
    <3>2. disk \in [Paths -> C]
      BY DEF Contents
    <3>3. /\ Joined(t) \in TaskType(C)
          /\ Joined(t).open = n.open /\ Joined(t).protected = n.protected
          /\ Joined(t).approved = n.approved /\ Joined(t).allDirty = n.allDirty
          /\ Joined(t).ledger = n.ledger /\ Joined(t).blocked = n.blocked
          /\ Joined(t).before = n.before
          /\ Joined(t).points # <<>> /\ DOMAIN Newest(Joined(t)) = DOMAIN n.before
          /\ \A p \in DOMAIN n.before : Newest(Joined(t))[p] = disk[p]
      BY <3>1, <3>2, <2>3, CheckpointFacts
    <3> QED BY <3>3, <2>2, <2>3, <2>5, <2>6, <1>2
  <2> QED BY <2>8, <2>9
<1> QED BY <1>1, <1>2

LEMMA JoinedRecordFacts ==
  ASSUME NEW C, Contents(C), NEW t \in TaskType(C)
  PROVE  /\ JoinedRecord(t) \in RecordType(C)
         /\ JoinedRecord(t) = record
            \/ (JoinedRecord(t).exists = TRUE /\ JoinedRecord(t).expected = Joined(t).ledger)
<1>1. CASE scan = NoScan \/ ~t.open
  BY <1>1 DEF JoinedRecord, Contents
<1>2. CASE ~(scan = NoScan \/ ~t.open)
  <2>1. JoinedRecord(t) = [exists |-> TRUE, expected |-> Joined(t).ledger]
    BY <1>2 DEF JoinedRecord, Persisted
  <2>2. Joined(t).ledger \in PartialOn(C)
    BY JoinedFacts DEF TaskType
  <2> QED BY <2>1, <2>2 DEF RecordType
<1> QED BY <1>1, <1>2

\* Once the scan is joined, everything is settled: the chain notes the right
\* contents and restores every file.
Chain(j, r) ==
  /\ DOMAIN j.ledger \subseteq DOMAIN j.before
  /\ r.exists => DOMAIN r.expected \subseteq DOMAIN j.before
  /\ DOMAIN j.before # {} => j.points # <<>> /\ DOMAIN j.before \subseteq DOMAIN Newest(j)
  /\ \A p \in DOMAIN j.before \cap Ours : j.before[p] = past.atOpen[p]
  /\ \A p \in Ours \ (DOMAIN j.before \cup j.protected) : committed[p] = past.atOpen[p]
  /\ \A p \in Ours : Fine(j, p, disk[p])

LEMMA JoinedChain ==
  ASSUME IInv, task.open, call.phase = "none"
  PROVE  Chain(Joined(task), JoinedRecord(task))
<1> PICK C : C = Content
  OBVIOUS
<1>1. /\ Contents(C) /\ Stages /\ Recorded /\ Noted /\ Restorable
      /\ task \in TaskType(C) /\ Live
  BY DEF IInv, Types, Contents, Live
<1>2. \A p \in Ours : Fine(task, p, disk[p]) \/ Pending(p)
  BY <1>1 DEF Restorable
<1> PICK j : j = Joined(task)
  OBVIOUS
<1> PICK r : r = JoinedRecord(task)
  OBVIOUS
<1>3. /\ DOMAIN task.before \subseteq DOMAIN j.before /\ j.protected = task.protected
      /\ \A p \in DOMAIN task.before : j.before[p] = task.before[p]
      /\ DOMAIN task.ledger \subseteq DOMAIN task.before => DOMAIN j.ledger \subseteq DOMAIN j.before
      /\ \/ j = task /\ (scan # NoScan => DOMAIN ScanResult = {})
         \/ /\ scan # NoScan
            /\ DOMAIN j.before = DOMAIN task.before \cup DOMAIN ScanResult
            /\ \A p \in DOMAIN j.before \ DOMAIN task.before : j.before[p] = committed[p]
            /\ j.points # <<>> /\ DOMAIN Newest(j) = DOMAIN j.before
            /\ \A p \in DOMAIN j.before : Newest(j)[p] = disk[p]
  BY <1>1, JoinedFacts
<1>4. r = record \/ (r.exists = TRUE /\ r.expected = j.ledger)
  BY <1>1, JoinedRecordFacts
<1>5. scan # NoScan => /\ scan.state = "done" => DOMAIN ScanResult = DOMAIN scan.found
                       /\ scan.state = "running" => DOMAIN ScanResult = Dirty \ scan.baseline
                       /\ scan.state \in {"running", "done"}
  BY <1>1, FoundFacts
<1>6. scan.state \in {"running", "done"} => scan # NoScan
  BY DEF NoScan
<1>7. /\ DOMAIN task.ledger \subseteq DOMAIN task.before
      /\ record.exists => DOMAIN record.expected \subseteq DOMAIN task.before
      /\ DOMAIN task.before # {} => task.points # <<>> /\ DOMAIN task.before \subseteq DOMAIN Newest(task)
  BY <1>1 DEF Recorded
<1>8. scan # NoScan => DOMAIN ScanResult \cap task.protected = {}
  BY <1>1, <1>5 DEF Stages
<1>9. \A p \in Ours : Fine(task, p, disk[p]) \/ (scan # NoScan /\ p \in DOMAIN ScanResult)
  BY <1>2, <1>5, <1>6 DEF Pending
<1>10. /\ \A p \in DOMAIN task.before \cap Ours : task.before[p] = past.atOpen[p]
       /\ \A p \in Ours \ (DOMAIN task.before \cup task.protected) : committed[p] = past.atOpen[p]
  BY <1>1 DEF Noted
<1>11. \A p \in DOMAIN j.before \cap Ours : j.before[p] = past.atOpen[p]
  BY <1>3, <1>8, <1>10
<1>12. \A p \in Ours : Fine(j, p, disk[p])
  BY <1>3, <1>9 DEF Fine
<1>13. DOMAIN j.before # {} => j.points # <<>> /\ DOMAIN j.before \subseteq DOMAIN Newest(j)
  BY <1>3, <1>7
<1>14. DOMAIN j.ledger \subseteq DOMAIN j.before
       /\ (r.exists => DOMAIN r.expected \subseteq DOMAIN j.before)
  BY <1>3, <1>4, <1>7
<1>15. Chain(j, r)
  BY <1>3, <1>10, <1>11, <1>12, <1>13, <1>14 DEF Chain
<1> QED BY <1>15

-----------------------------------------------------------------------------
(* Steps that leave the files and the chain alone.                         *)

\* The types of the variables, and what the phases of a call are.
LEMMA PhaseFacts ==
  ASSUME call \in CallType
  PROVE  /\ call.phase \in {"none", "gate", "ready", "exec", "after", "restore"}
         /\ call.phase = "none" <=> call = NoCall
         /\ call.phase \in {"gate", "ready", "exec"} =>
              call \in [phase : {"gate", "ready", "exec"}, tool : Tools,
                        targets : SUBSET Paths, gated : SUBSET Paths]
         /\ call.phase = "after" =>
              call \in [phase : {"after"}, tool : Tools, targets : SUBSET Paths, ok : BOOLEAN]
         /\ call.phase = "restore" => call \in [phase : {"restore"}, paths : SUBSET Paths]
BY DEF CallType, NoCall

LEMMA BeginTurnStep ==
  ASSUME IInv, BeginTurn
  PROVE  IInv'
<1>1. /\ Types /\ Stages /\ Recorded /\ Guarded /\ Intact /\ Observed
      /\ Noted /\ Restorable /\ Adoptable /\ RollbackExact
  BY DEF IInv
<1>2. /\ ~turn.runs /\ call = NoCall /\ past.closed # "crashed"
      /\ turn' = [runs |-> TRUE, mutated |-> FALSE]
      /\ disk' = disk /\ committed' = committed /\ task' = task /\ record' = record
      /\ snapshot' = snapshot /\ call' = call /\ scan' = scan /\ user' = user
      /\ calls' = calls /\ crashes' = crashes /\ past' = past
  BY DEF BeginTurn, Boundary
<1>3. call.phase = "none"
  BY <1>2 DEF NoCall
<1>4. Types'
  BY <1>1, <1>2 DEF Types, Contents
<1>5. Stages'
  BY <1>1, <1>2 DEF Stages
<1>6. Recorded' /\ Guarded' /\ Intact'
  BY <1>1, <1>2 DEF Recorded, Guarded, Intact, Live, Kept
<1>7. Observed'
  BY <1>1, <1>2, <1>3 DEF Observed, Clean, Dirty
<1>8. Noted' /\ Restorable' /\ Adoptable' /\ RollbackExact'
  BY <1>1, <1>2 DEF Noted, Restorable, Adoptable, RollbackExact, Live, Ours, Fine, Pending, Dirty
<1> QED BY <1>4, <1>5, <1>6, <1>7, <1>8 DEF IInv

LEMMA AllowStep ==
  ASSUME IInv, NEW all \in BOOLEAN, Allow(all)
  PROVE  IInv'
<1>1. /\ Types /\ Stages /\ Recorded /\ Guarded /\ Intact /\ Observed
      /\ Noted /\ Restorable /\ Adoptable /\ RollbackExact
  BY DEF IInv
<1>2. /\ call.phase = "gate" /\ call' = [call EXCEPT !.phase = "ready"]
      /\ task' = IF all THEN [task EXCEPT !.allDirty = TRUE]
                        ELSE [task EXCEPT !.approved = @ \cup call.gated]
      /\ past' = [past EXCEPT !.allowed = @ \cup (IF all THEN past.dirty ELSE call.gated)]
      /\ disk' = disk /\ committed' = committed /\ record' = record
      /\ snapshot' = snapshot /\ scan' = scan /\ turn' = turn /\ user' = user
      /\ calls' = calls /\ crashes' = crashes
  BY DEF Allow
<1> PICK C : C = Content
  OBVIOUS
<1>3. /\ Contents(C) /\ task \in TaskType(C) /\ past \in PastType
      /\ call \in [phase : {"gate", "ready", "exec"}, tool : Tools,
                   targets : SUBSET Paths, gated : SUBSET Paths]
  BY <1>1, <1>2, PhaseFacts DEF Types, Contents
<1>4. /\ call' \in [phase : {"gate", "ready", "exec"}, tool : Tools,
                    targets : SUBSET Paths, gated : SUBSET Paths]
      /\ call'.phase = "ready" /\ call'.tool = call.tool /\ call'.targets = call.targets
      /\ call' # NoCall
  BY <1>2, <1>3 DEF NoCall
<1>5. /\ task' \in TaskType(C) /\ task'.open = task.open /\ task'.protected = task.protected
      /\ task'.ledger = task.ledger /\ task'.blocked = task.blocked
      /\ task'.before = task.before /\ task'.points = task.points
      /\ (IF all THEN task'.allDirty = TRUE /\ task'.approved = task.approved
          ELSE task'.allDirty = task.allDirty /\ task'.approved = task.approved \cup call.gated)
  BY <1>2, <1>3 DEF TaskType
<1>6. /\ past' \in PastType /\ past'.dirty = past.dirty /\ past'.touched = past.touched
      /\ past'.allowed = past.allowed \cup (IF all THEN past.dirty ELSE call.gated)
      /\ past'.atOpen = past.atOpen /\ past'.lost = past.lost /\ past'.skewed = past.skewed
      /\ past'.escaped = past.escaped /\ past'.cut = past.cut
      /\ past'.closed = past.closed /\ past'.acted = past.acted /\ past'.unseen = past.unseen
  BY <1>2, <1>3 DEF PastType
<1>7. Types'
  <2>1. call' \in CallType
    BY <1>4 DEF CallType
  <2> QED BY <1>1, <1>2, <1>3, <1>5, <1>6, <2>1 DEF Types, Contents
<1>8. Stages'
  BY <1>1, <1>2, <1>4, <1>5, <1>6 DEF Stages, NoCall
<1>9. Recorded'
  BY <1>1, <1>2, <1>5, <1>6 DEF Recorded, Live, Newest
<1>10. Guarded'
  BY <1>1, <1>2, <1>4, <1>5, <1>6 DEF Guarded
<1>11. Intact'
  BY <1>1, <1>2, <1>4, <1>5, <1>6 DEF Intact, Live, Kept
<1>12. Observed'
  BY <1>1, <1>2, <1>4, <1>5, <1>6 DEF Observed, Clean, Dirty
<1>13. Noted' /\ Restorable' /\ Adoptable' /\ RollbackExact'
  BY <1>1, <1>2, <1>4, <1>5, <1>6
     DEF Noted, Restorable, Adoptable, RollbackExact, Live, Ours, Fine, Pending,
         Dirty, Newest
<1> QED BY <1>7, <1>8, <1>9, <1>10, <1>11, <1>12, <1>13 DEF IInv

LEMMA DenyStep ==
  ASSUME IInv, Deny
  PROVE  IInv'
<1>1. /\ Types /\ Stages /\ Recorded /\ Guarded /\ Intact /\ Observed
      /\ Noted /\ Restorable /\ Adoptable /\ RollbackExact
  BY DEF IInv
<1>2. /\ call.phase = "gate" /\ call' = NoCall
      /\ disk' = disk /\ committed' = committed /\ task' = task /\ record' = record
      /\ snapshot' = snapshot /\ scan' = scan /\ turn' = turn /\ user' = user
      /\ calls' = calls /\ crashes' = crashes /\ past' = past
  BY DEF Deny
<1>3. call'.phase = "none"
  BY <1>2 DEF NoCall
<1>4. Types'
  BY <1>1, <1>2 DEF Types, Contents, CallType
<1>5. Stages'
  BY <1>1, <1>2, <1>3 DEF Stages
<1>6. Recorded' /\ Guarded' /\ Intact'
  BY <1>1, <1>2, <1>3 DEF Recorded, Guarded, Intact, Live, Kept
<1>7. Observed'
  BY <1>1, <1>2, <1>3 DEF Observed, Clean, Dirty
<1>8. Noted' /\ Restorable' /\ Adoptable' /\ RollbackExact'
  BY <1>1, <1>2, <1>3 DEF Noted, Restorable, Adoptable, RollbackExact, Live, Ours, Fine,
                          Pending, Dirty
<1> QED BY <1>4, <1>5, <1>6, <1>7, <1>8 DEF IInv

\* The snapshot has the protected contents, and what it has can be restored.
LEMMA BeforeExecStep ==
  ASSUME IInv, BeforeExec
  PROVE  IInv'
<1>1. /\ Types /\ Stages /\ Recorded /\ Guarded /\ Intact /\ Observed
      /\ Noted /\ Restorable /\ Adoptable /\ RollbackExact
  BY DEF IInv
<1>2. /\ call.phase = "ready" /\ call' = [call EXCEPT !.phase = "exec"]
      /\ snapshot' = Restrict(disk, task.protected \cup call.targets)
      /\ disk' = disk /\ committed' = committed /\ task' = task /\ record' = record
      /\ scan' = scan /\ turn' = turn /\ user' = user
      /\ calls' = calls /\ crashes' = crashes /\ past' = past
  BY DEF BeforeExec, Captured
<1> PICK C : C = Content
  OBVIOUS
<1>3. /\ Contents(C) /\ task \in TaskType(C)
      /\ call \in [phase : {"gate", "ready", "exec"}, tool : Tools,
                   targets : SUBSET Paths, gated : SUBSET Paths]
  BY <1>1, <1>2, PhaseFacts DEF Types, Contents
<1>4. /\ call' \in [phase : {"gate", "ready", "exec"}, tool : Tools,
                    targets : SUBSET Paths, gated : SUBSET Paths]
      /\ call'.phase = "exec" /\ call'.tool = call.tool /\ call'.targets = call.targets
      /\ call' # NoCall
  BY <1>2, <1>3 DEF NoCall
<1>5. /\ snapshot' \in PartialOn(C) /\ DOMAIN snapshot' = task.protected \cup call.targets
      /\ \A p \in DOMAIN snapshot' : snapshot'[p] = disk[p]
  <2>1. /\ task.protected \cup call.targets \in SUBSET Paths
        /\ \A p \in task.protected \cup call.targets : disk[p] \in C
    BY <1>3 DEF TaskType, Contents
  <2> QED BY <2>1, <1>2, RestrictFacts
<1>6. Types'
  <2>1. call' \in CallType
    BY <1>4 DEF CallType
  <2> QED BY <1>1, <1>2, <1>3, <1>5, <2>1 DEF Types, Contents
<1>7. Stages'
  BY <1>1, <1>2, <1>4, <1>5 DEF Stages, NoCall
<1>8. Recorded' /\ Guarded'
  BY <1>1, <1>2, <1>4 DEF Recorded, Guarded, Live
<1>9. Intact'
  <2>1. call # NoCall
    BY <1>2 DEF NoCall
  <2>2. Kept \subseteq task.protected /\ \A p \in Kept : disk[p] = past.atOpen[p]
    BY <1>1, <1>2, <2>1 DEF Stages, Guarded, Intact, Live, Kept
  <2>3. Kept' = Kept
    BY <1>2 DEF Kept
  <2> QED BY <1>2, <1>4, <1>5, <2>2, <2>3 DEF Intact
<1>10. Observed'
  BY <1>1, <1>2, <1>4 DEF Observed, Clean, Dirty
<1>11. Noted' /\ Adoptable' /\ RollbackExact'
  BY <1>1, <1>2 DEF Noted, Adoptable, RollbackExact, Live, Ours, Fine
<1>12. Restorable'
  <2>1. task.open => \A p \in Ours : Fine(task, p, disk[p])
    BY <1>1, <1>2 DEF Stages, Restorable, Pending, NoScan
  <2>2. Ours' = Ours /\ \A p \in Ours : \A v : Fine(task, p, v)' <=> Fine(task, p, v)
    BY <1>2 DEF Ours, Fine
  <2> QED BY <1>2, <1>4, <1>5, <2>1, <2>2 DEF Restorable, Fine, Ours
<1> QED BY <1>6, <1>7, <1>8, <1>9, <1>10, <1>11, <1>12 DEF IInv

LEMMA ScanRunStep ==
  ASSUME IInv, ScanRun
  PROVE  IInv'
<1>1. /\ Types /\ Stages /\ Recorded /\ Guarded /\ Intact /\ Observed
      /\ Noted /\ Restorable /\ Adoptable /\ RollbackExact
  BY DEF IInv
<1>2. /\ scan.state = "running"
      /\ scan' = [state |-> "done", found |-> Restrict(disk, Dirty \ scan.baseline)]
      /\ disk' = disk /\ committed' = committed /\ task' = task /\ record' = record
      /\ snapshot' = snapshot /\ call' = call /\ turn' = turn /\ user' = user
      /\ calls' = calls /\ crashes' = crashes /\ past' = past
  BY DEF ScanRun
<1> PICK C : C = Content
  OBVIOUS
<1> PICK found : found = Restrict(disk, Dirty \ scan.baseline)
  OBVIOUS
<1>3. found \in PartialOn(C) /\ DOMAIN found = Dirty \ scan.baseline
  <2>1. Dirty \ scan.baseline \in SUBSET Paths /\ \A p \in Dirty \ scan.baseline : disk[p] \in C
    BY <1>1, DirtyFacts DEF Types, Contents
  <2> QED BY <2>1, RestrictFacts
<1>4. scan' = [state |-> "done", found |-> found]
  BY <1>2
<1>5. scan' \in ScanType(C) /\ scan'.state = "done" /\ scan'.found = found /\ scan' # NoScan
  BY <1>3, <1>4 DEF ScanType, NoScan
<1>6. scan # NoScan
  BY <1>2 DEF NoScan
<1>7. Types'
  BY <1>1, <1>2, <1>5 DEF Types, Contents
<1>8. Stages'
  BY <1>1, <1>2, <1>3, <1>5, <1>6 DEF Stages
<1>9. Recorded' /\ Guarded' /\ Intact'
  BY <1>1, <1>2 DEF Recorded, Guarded, Intact, Live, Kept
<1>10. Observed'
  BY <1>1, <1>2, <1>6 DEF Observed
<1>11. Noted' /\ Adoptable' /\ RollbackExact'
  BY <1>1, <1>2 DEF Noted, Adoptable, RollbackExact, Live, Ours, Fine
<1>12. Restorable'
  <2>1. \A p \in Paths : Pending(p) => Pending(p)'
    BY <1>2, <1>3, <1>5 DEF Pending, NoScan
  <2>2. Ours \subseteq Paths
    BY DEF Ours
  <2>3. call.phase # "after"
    BY <1>1, <1>6 DEF Stages
  <2> QED BY <1>1, <1>2, <2>1, <2>2, <2>3 DEF Restorable, Ours, Fine
<1> QED BY <1>7, <1>8, <1>9, <1>10, <1>11, <1>12 DEF IInv

LEMMA DiscardStep ==
  ASSUME IInv, DiscardApprovals
  PROVE  IInv'
<1>1. /\ Types /\ Stages /\ Recorded /\ Guarded /\ Intact /\ Observed
      /\ Noted /\ Restorable /\ Adoptable /\ RollbackExact
  BY DEF IInv
<1>2. /\ task' = [task EXCEPT !.approved = {}, !.allDirty = FALSE]
      /\ disk' = disk /\ committed' = committed /\ record' = record
      /\ snapshot' = snapshot /\ call' = call /\ scan' = scan /\ turn' = turn /\ user' = user
      /\ calls' = calls /\ crashes' = crashes /\ past' = past
  BY DEF DiscardApprovals
<1> PICK C : C = Content
  OBVIOUS
<1>3. task \in TaskType(C)
  BY <1>1 DEF Types, Contents
<1>4. /\ task' \in TaskType(C) /\ task'.open = task.open /\ task'.protected = task.protected
      /\ task'.approved = {} /\ task'.allDirty = FALSE
      /\ task'.ledger = task.ledger /\ task'.blocked = task.blocked
      /\ task'.before = task.before /\ task'.points = task.points
  BY <1>2, <1>3 DEF TaskType
<1>5. Types'
  BY <1>1, <1>2, <1>4 DEF Types, Contents
<1>6. Stages'
  BY <1>1, <1>2, <1>4 DEF Stages
<1>7. Recorded'
  BY <1>1, <1>2, <1>4 DEF Recorded, Live, Newest
<1>8. Guarded'
  BY <1>1, <1>2, <1>4 DEF Guarded
<1>9. Intact'
  BY <1>1, <1>2, <1>4 DEF Intact, Live, Kept
<1>10. Observed'
  BY <1>1, <1>2, <1>4 DEF Observed, Clean, Dirty
<1>11. Noted' /\ Restorable' /\ Adoptable' /\ RollbackExact'
  BY <1>1, <1>2, <1>4
     DEF Noted, Restorable, Adoptable, RollbackExact, Live, Ours, Fine, Pending,
         Dirty, Newest
<1> QED BY <1>5, <1>6, <1>7, <1>8, <1>9, <1>10, <1>11 DEF IInv

-----------------------------------------------------------------------------
(* Steps that join the scan.                                               *)

\* A step after which the open task has the joined chain, or one with a point
\* of the files as they are on top.
LEMMA ChainStep ==
  ASSUME NEW j, NEW r, Chain(j, r),
         disk' = disk, committed' = committed, scan' = NoScan,
         task'.open, past'.closed = "no", call'.phase \in {"none", "gate", "ready"},
         task'.before = j.before, task'.ledger = j.ledger, task'.protected = j.protected,
         record' = r \/ record'.expected = j.ledger,
         DOMAIN j.before # {} => task'.points # <<>> /\ DOMAIN j.before \subseteq DOMAIN Newest(task'),
         \A p \in DOMAIN j.before : Newest(task')[p] = Newest(j)[p] \/ Newest(task')[p] = disk[p],
         past'.atOpen = past.atOpen, past'.touched = past.touched, past'.lost = past.lost,
         past'.escaped = past.escaped, past'.skewed = past.skewed
  PROVE  Recorded' /\ Noted' /\ Restorable' /\ Adoptable' /\ RollbackExact'
<1>1. Ours' = Ours
  BY DEF Ours
<1>2. Recorded'
  BY DEF Recorded, Chain
<1>3. Noted'
  BY <1>1 DEF Noted, Chain
<1>4. \A p \in Ours : Fine(task, p, disk[p])'
  BY DEF Chain, Fine
<1>5. Restorable'
  BY <1>1, <1>4 DEF Restorable
<1> QED BY <1>2, <1>3, <1>5 DEF Adoptable, RollbackExact

\* A step that closes the task.
LEMMA ClosedStep ==
  ASSUME Types', ~task'.open, call' = NoCall, scan' = NoScan, past'.closed # "crashed",
         RollbackExact'
  PROVE  IInv'
<1>1. call'.phase = "none" /\ scan'.state = "none"
  BY DEF NoCall, NoScan
<1>2. Stages'
  BY <1>1 DEF Stages
<1>3. Recorded' /\ Guarded' /\ Intact' /\ Observed' /\ Noted' /\ Restorable' /\ Adoptable'
  BY DEF Recorded, Guarded, Intact, Observed, Noted, Restorable, Adoptable, Live
<1> QED BY <1>2, <1>3 DEF IInv

\* What a settled task is: closed, or the joined one with or without the block.
LEMMA SettledFacts ==
  ASSUME NEW C, NEW t \in TaskType(C)
  PROVE  LET s == SettledIfClean(t) IN
         /\ s \in TaskType(C)
         /\ s.open => /\ t.open /\ s.protected = t.protected /\ s.approved = t.approved
                      /\ s.allDirty = t.allDirty /\ s.ledger = t.ledger /\ s.before = t.before
                      /\ s.points = t.points
                      /\ Clean(DOMAIN t.ledger) => t.blocked /\ s.blocked
         /\ t.open /\ ~s.open => s = NoTask /\ Clean(DOMAIN t.ledger) /\ ~t.blocked
<1>1. NoTask \in TaskType(C) /\ ~NoTask.open
  BY NoTaskFacts
<1>2. [t EXCEPT !.blocked = FALSE] \in TaskType(C)
  BY DEF TaskType
<1>3. Clean(DOMAIN t.ledger) => DOMAIN t.ledger # {}
  BY DEF Clean
<1> QED BY <1>1, <1>2, <1>3 DEF SettledIfClean, TaskType

\* The task after sync_barrier, its record and its history.
LEMMA SyncedFacts ==
  ASSUME NEW C, Contents(C), task.open
  PROVE  LET j == Joined(task) IN
         /\ Synced \in TaskType(C) /\ SyncedRecord \in RecordType(C)
         /\ j \in TaskType(C) /\ j.open = task.open /\ j.protected = task.protected
         /\ j.approved = task.approved /\ j.allDirty = task.allDirty /\ j.blocked = task.blocked
         /\ scan = NoScan => j = task
         /\ Synced.open => /\ Synced.protected = j.protected /\ Synced.approved = j.approved
                           /\ Synced.allDirty = j.allDirty /\ Synced.ledger = j.ledger
                           /\ Synced.before = j.before /\ Synced.points = j.points
                           /\ Clean(DOMAIN j.ledger) => j.blocked /\ Synced.blocked
                           /\ SyncedRecord = JoinedRecord(task) /\ SyncedPast = past
         /\ ~Synced.open => /\ Synced = NoTask /\ SyncedRecord = NoRecord
                            /\ SyncedPast = [past EXCEPT !.closed = "external"]
                            /\ Clean(DOMAIN j.ledger) /\ ~j.blocked
<1>1. task \in TaskType(C)
  BY DEF Contents
<1> PICK j : j = Joined(task)
  OBVIOUS
<1>2. /\ j \in TaskType(C) /\ j.open = task.open /\ j.protected = task.protected
      /\ j.approved = task.approved /\ j.allDirty = task.allDirty /\ j.blocked = task.blocked
      /\ scan = NoScan => j = task
  BY <1>1, JoinedFacts
<1> PICK s : s = SettledIfClean(j)
  OBVIOUS
<1>3. /\ s \in TaskType(C)
      /\ s.open => /\ j.open /\ s.protected = j.protected /\ s.approved = j.approved
                   /\ s.allDirty = j.allDirty /\ s.ledger = j.ledger /\ s.before = j.before
                   /\ s.points = j.points
                   /\ Clean(DOMAIN j.ledger) => j.blocked /\ s.blocked
      /\ j.open /\ ~s.open => s = NoTask /\ Clean(DOMAIN j.ledger) /\ ~j.blocked
  BY <1>2, SettledFacts
<1>4. Synced = s
  BY DEF Synced
<1>5. JoinedRecord(task) \in RecordType(C)
  BY <1>1, JoinedRecordFacts
<1>6. SyncedRecord = IF ~s.open THEN NoRecord ELSE JoinedRecord(task)
  BY <1>4 DEF SyncedRecord
<1>7. SyncedPast = IF ~s.open THEN [past EXCEPT !.closed = "external"] ELSE past
  BY <1>4 DEF SyncedPast
<1>8. SyncedRecord \in RecordType(C)
  BY <1>5, <1>6 DEF RecordType
<1> QED BY <1>2, <1>3, <1>4, <1>6, <1>7, <1>8

\* The step of restore_points and its like, from a task that stays open.
LEMMA BarrierStep ==
  ASSUME IInv, Barrier
  PROVE  IInv'
<1>1. /\ Types /\ Stages /\ Recorded /\ Guarded /\ Intact /\ Observed
      /\ Noted /\ Restorable /\ Adoptable /\ RollbackExact
  BY DEF IInv
<1>2. /\ ~turn.runs /\ call = NoCall /\ task.open
      /\ task' = Synced /\ record' = SyncedRecord /\ past' = SyncedPast /\ scan' = NoScan
      /\ disk' = disk /\ committed' = committed /\ snapshot' = snapshot /\ call' = call
      /\ turn' = turn /\ user' = user /\ calls' = calls /\ crashes' = crashes
  BY DEF Barrier, Boundary
<1>3. call.phase = "none" /\ call'.phase = "none"
  BY <1>2 DEF NoCall
<1> PICK C : C = Content
  OBVIOUS
<1>4. Contents(C) /\ past \in PastType
  BY <1>1 DEF Types
<1> PICK j : j = Joined(task)
  OBVIOUS
<1> PICK s : s = Synced
  OBVIOUS
<1>5. /\ s \in TaskType(C) /\ SyncedRecord \in RecordType(C)
      /\ j.protected = task.protected
      /\ j.approved = task.approved /\ j.allDirty = task.allDirty /\ j.blocked = task.blocked
      /\ s.open => /\ s.protected = j.protected /\ s.approved = j.approved
                   /\ s.allDirty = j.allDirty /\ s.ledger = j.ledger
                   /\ s.before = j.before /\ s.points = j.points
                   /\ Clean(DOMAIN j.ledger) => j.blocked /\ s.blocked
                   /\ SyncedRecord = JoinedRecord(task) /\ SyncedPast = past
      /\ ~s.open => SyncedPast = [past EXCEPT !.closed = "external"]
  BY <1>2, <1>4, SyncedFacts
<1>6. Types'
  <2>1. past' \in PastType
    BY <1>2, <1>4, <1>5 DEF PastType
  <2>2. scan' \in ScanType(C)
    BY <1>2 DEF ScanType
  <2> QED BY <1>1, <1>2, <1>5, <2>1, <2>2 DEF Types, Contents
<1>7. CASE ~s.open
  <2>1. past'.closed = "external"
    BY <1>2, <1>4, <1>5, <1>7 DEF PastType
  <2>2. RollbackExact'
    BY <2>1 DEF RollbackExact
  <2> QED BY <1>2, <1>6, <1>7, <2>1, <2>2, ClosedStep
<1>8. CASE s.open
  <2> PICK r : r = JoinedRecord(task)
    OBVIOUS
  <2>1. Chain(j, r)
    BY <1>2, <1>3, JoinedChain
  <2>2. past' = past /\ record' = r /\ past.closed = "no" /\ s = task'
    BY <1>1, <1>2, <1>5, <1>8 DEF Stages
  <2>3. Newest(task') = Newest(j)
    BY <1>5, <1>8, <2>2 DEF Newest
  <2>4. DOMAIN j.before # {} => task'.points # <<>> /\ DOMAIN j.before \subseteq DOMAIN Newest(task')
    BY <1>5, <1>8, <2>1, <2>2, <2>3 DEF Chain
  <2>5. Recorded' /\ Noted' /\ Restorable' /\ Adoptable' /\ RollbackExact'
    BY <1>2, <1>3, <1>5, <1>8, <2>1, <2>2, <2>3, <2>4, ChainStep
  <2>6. Stages'
    <3>1. scan'.state = "none"
      BY <1>2 DEF NoScan
    <3> QED BY <1>2, <1>3, <1>8, <2>2, <3>1 DEF Stages
  <2>7. Guarded'
    BY <1>1, <1>2, <1>3, <1>5, <1>8, <2>2 DEF Guarded
  <2>8. Intact'
    BY <1>1, <1>2, <1>3, <2>2 DEF Intact, Live, Kept
  <2>9. Observed'
    BY <1>2, <1>5, <1>8, <2>2 DEF Observed, Clean, Dirty
  <2> QED BY <1>6, <2>5, <2>6, <2>7, <2>8, <2>9 DEF IInv
<1> QED BY <1>7, <1>8

LEMMA SyncedOpen ==
  ASSUME NEW C, Contents(C), Synced.open
  PROVE  task.open
<1>1. task \in TaskType(C)
  BY DEF Contents
<1> PICK j : j = Joined(task)
  OBVIOUS
<1>2. j \in TaskType(C) /\ j.open = task.open
  BY <1>1, JoinedFacts
<1>3. SettledIfClean(j).open => j.open
  BY <1>2, SettledFacts
<1> QED BY <1>2, <1>3 DEF Synced

LEMMA CheckpointNowStep ==
  ASSUME IInv, CheckpointNow
  PROVE  IInv'
<1>1. /\ Types /\ Stages /\ Recorded /\ Guarded /\ Intact /\ Observed
      /\ Noted /\ Restorable /\ Adoptable /\ RollbackExact
  BY DEF IInv
<1>2. /\ ~turn.runs /\ call = NoCall /\ Synced.open
      /\ task' = Checkpoint(Synced) /\ record' = Persisted(Synced)
      /\ past' = [SyncedPast EXCEPT !.marked = TRUE] /\ scan' = NoScan
      /\ disk' = disk /\ committed' = committed /\ snapshot' = snapshot /\ call' = call
      /\ turn' = turn /\ user' = user /\ calls' = calls /\ crashes' = crashes
  BY DEF CheckpointNow, Boundary
<1>3. call.phase = "none" /\ call'.phase = "none"
  BY <1>2 DEF NoCall
<1> PICK C : C = Content
  OBVIOUS
<1>4. Contents(C) /\ past \in PastType /\ disk \in [Paths -> C] /\ task \in TaskType(C)
  BY <1>1 DEF Types, Contents
<1>5. task.open
  BY <1>2, <1>4, SyncedOpen
<1> PICK j : j = Joined(task)
  OBVIOUS
<1> PICK s : s = Synced
  OBVIOUS
<1> PICK r : r = JoinedRecord(task)
  OBVIOUS
<1>6. /\ s \in TaskType(C) /\ j.protected = task.protected
      /\ j.approved = task.approved /\ j.allDirty = task.allDirty /\ j.blocked = task.blocked
      /\ s.protected = j.protected /\ s.approved = j.approved
      /\ s.allDirty = j.allDirty /\ s.ledger = j.ledger
      /\ s.before = j.before /\ s.points = j.points
      /\ Clean(DOMAIN j.ledger) => j.blocked /\ s.blocked
      /\ SyncedPast = past
  BY <1>2, <1>4, <1>5, SyncedFacts
<1>7. /\ task' \in TaskType(C)
      /\ task'.open = s.open /\ task'.protected = s.protected
      /\ task'.approved = s.approved /\ task'.allDirty = s.allDirty
      /\ task'.ledger = s.ledger /\ task'.blocked = s.blocked
      /\ task'.before = s.before
      /\ task'.points # <<>> /\ DOMAIN Newest(task') = DOMAIN s.before
      /\ \A p \in DOMAIN s.before : Newest(task')[p] = disk[p]
  <2>1. task' = Checkpoint(s) /\ s \in TaskType(C) /\ disk \in [Paths -> C]
    BY <1>2, <1>4, <1>6
  <2> QED BY ONLY <2>1, CheckpointFacts
<1>8. record' \in RecordType(C) /\ record'.exists /\ record'.expected = j.ledger
  <2>1. s.ledger \in PartialOn(C)
    BY <1>6 DEF TaskType
  <2>2. record' = [exists |-> TRUE, expected |-> s.ledger]
    BY <1>2 DEF Persisted
  <2> QED BY <1>6, <2>1, <2>2 DEF RecordType
<1>9. /\ past' \in PastType /\ past'.atOpen = past.atOpen /\ past'.touched = past.touched
      /\ past'.lost = past.lost /\ past'.skewed = past.skewed
      /\ past'.escaped = past.escaped /\ past'.closed = past.closed
      /\ past'.dirty = past.dirty /\ past'.allowed = past.allowed /\ past'.cut = past.cut
      /\ past'.acted = past.acted /\ past'.unseen = past.unseen
  BY <1>2, <1>4, <1>6 DEF PastType
<1>10. Types'
  <2>1. scan' \in ScanType(C)
    BY <1>2 DEF ScanType
  <2> QED BY <1>1, <1>2, <1>7, <1>8, <1>9, <2>1 DEF Types, Contents
<1>11. past.closed = "no"
  BY <1>1, <1>5 DEF Stages
<1>12. Recorded' /\ Noted' /\ Restorable' /\ Adoptable' /\ RollbackExact'
  <2>1. Chain(j, r)
    BY <1>3, <1>5, JoinedChain
  <2> QED BY <1>2, <1>3, <1>6, <1>7, <1>8, <1>9, <1>11, <2>1, ChainStep
<1>13. Stages'
  <2>1. scan'.state = "none"
    BY <1>2 DEF NoScan
  <2> QED BY <1>2, <1>3, <1>7, <1>9, <1>11, <2>1 DEF Stages
<1>14. Guarded'
  BY <1>1, <1>2, <1>3, <1>5, <1>6, <1>7, <1>9 DEF Guarded
<1>15. Intact'
  BY <1>1, <1>2, <1>3, <1>5, <1>9 DEF Intact, Live, Kept
<1>16. Observed'
  BY <1>2, <1>6, <1>7 DEF Observed, Clean, Dirty
<1> QED BY <1>10, <1>12, <1>13, <1>14, <1>15, <1>16 DEF IInv

LEMMA AcceptStep ==
  ASSUME IInv, Accept
  PROVE  IInv'
<1>1. Types
  BY DEF IInv
<1>2. /\ call = NoCall /\ task' = NoTask /\ record' = NoRecord
      /\ past' = [past EXCEPT !.closed = "accepted"] /\ scan' = NoScan
      /\ disk' = disk /\ committed' = committed /\ snapshot' = snapshot /\ call' = call
      /\ turn' = turn /\ user' = user /\ calls' = calls /\ crashes' = crashes
  BY DEF Accept, Boundary
<1>3. past' \in PastType /\ past'.closed = "accepted"
  BY <1>1, <1>2 DEF Types, PastType
<1>4. Types'
  <2>1. NoTask \in TaskType(Content)
    BY NoTaskFacts
  <2> QED BY <1>1, <1>2, <1>3, <2>1 DEF Types, Contents, RecordType, ScanType
<1>5. ~task'.open
  BY <1>2, NoTaskFacts
<1>6. RollbackExact'
  BY <1>3 DEF RollbackExact
<1> QED BY <1>2, <1>3, <1>4, <1>5, <1>6, ClosedStep

\* A rollback to the pre-task base restores every file of Iris's.
LEMMA RollbackStep ==
  ASSUME IInv, NEW seq \in 0..MaxCalls, Rollback(seq)
  PROVE  IInv'
<1>1. /\ Types /\ Stages
  BY DEF IInv
<1>2. /\ call = NoCall /\ Synced.open /\ seq <= Len(Synced.points)
      /\ task' = NoTask /\ scan' = NoScan
      /\ committed' = committed /\ snapshot' = snapshot /\ call' = call
      /\ turn' = turn /\ user' = user /\ calls' = calls /\ crashes' = crashes
      /\ IF Synced.points = <<>>
         THEN /\ record' = SyncedRecord /\ disk' = disk
              /\ past' = [past EXCEPT !.closed = "failed"]
         ELSE /\ record' = NoRecord /\ disk' = Restored(Synced, seq)
              /\ past' = [past EXCEPT !.closed = IF seq = 0 THEN "rolled" ELSE "partly"]
  BY DEF Rollback, Boundary
<1> PICK C : C = Content
  OBVIOUS
<1>3. Contents(C) /\ past \in PastType /\ call.phase = "none" /\ disk \in [Paths -> C]
  BY <1>1, <1>2 DEF Types, Contents, NoCall
<1>4. task.open
  BY <1>2, <1>3, SyncedOpen
<1> PICK j : j = Joined(task)
  OBVIOUS
<1> PICK s : s = Synced
  OBVIOUS
<1> PICK r : r = JoinedRecord(task)
  OBVIOUS
<1>5. /\ s \in TaskType(C) /\ SyncedRecord \in RecordType(C)
      /\ s.before = j.before /\ s.points = j.points
  BY <1>2, <1>3, <1>4, SyncedFacts
<1>6. Chain(j, r)
  BY <1>3, <1>4, JoinedChain
<1>7. /\ past' \in PastType /\ past'.closed \in {"failed", "rolled", "partly"}
      /\ past'.closed = "rolled" => s.points # <<>> /\ seq = 0
      /\ past'.atOpen = past.atOpen /\ past'.touched = past.touched
      /\ past'.lost = past.lost /\ past'.skewed = past.skewed
      /\ past'.escaped = past.escaped
  BY <1>2, <1>3 DEF PastType
<1>8. s.points # <<>> => disk' = [p \in Paths |->
        IF p \notin DOMAIN s.before \ Diverged(s) THEN disk[p]
        ELSE IF p \in DOMAIN Tree(s, seq) THEN Tree(s, seq)[p] ELSE Absent]
  BY <1>2 DEF Restored
<1>9. disk' \in [Paths -> C]
  <2>1. Tree(s, seq) \in PartialOn(C)
    <3>1. s.before \in PartialOn(C) /\ s.points \in Seq(PartialOn(C))
      BY <1>5 DEF TaskType
    <3>2. MaxCalls \in Nat
      BY GuardAssumption
    <3>3. seq # 0 => seq \in 1..Len(s.points)
      BY <1>2, <3>1, <3>2
    <3> QED BY <3>1, <3>3 DEF Tree
  <2>2. \A p \in DOMAIN Tree(s, seq) : Tree(s, seq)[p] \in C
    BY <2>1, PartialFacts
  <2>3. Absent \in C
    BY ContentFacts
  <2>4. CASE s.points # <<>>
    BY <2>2, <2>3, <2>4, <1>3, <1>8
  <2>5. CASE s.points = <<>>
    BY <2>5, <1>2, <1>3
  <2> QED BY <2>4, <2>5
<1>10. Types'
  <2>1. NoTask \in TaskType(C)
    BY NoTaskFacts
  <2>2. record' \in RecordType(C)
    BY <1>2, <1>5 DEF RecordType
  <2> QED BY <1>1, <1>2, <1>7, <1>9, <2>1, <2>2 DEF Types, Contents, ScanType
<1>11. RollbackExact'
  <2> SUFFICES ASSUME past'.closed = "rolled",
                      NEW p \in Paths \ (past'.touched \cup past'.lost \cup past'.escaped
                                      \cup past'.skewed)
               PROVE  disk'[p] = past'.atOpen[p]
    BY DEF RollbackExact
  <2>1. s.points # <<>> /\ Tree(s, seq) = s.before
    BY <1>7 DEF Tree
  <2>2. p \in Ours /\ p \notin past.skewed
    BY <1>7 DEF Ours
  <2>3. disk[p] = past.atOpen[p] \/ (p \in DOMAIN j.before /\ disk[p] = Newest(j)[p])
    BY <1>6, <2>2 DEF Chain, Fine
  <2>4. CASE p \in DOMAIN s.before \ Diverged(s)
    <3>1. disk'[p] = s.before[p]
      BY <1>8, <2>1, <2>4
    <3>2. s.before[p] = past.atOpen[p]
      BY <1>5, <1>6, <2>2, <2>4 DEF Chain
    <3> QED BY <1>7, <3>1, <3>2
  <2>5. CASE p \notin DOMAIN s.before \ Diverged(s)
    <3>1. disk'[p] = disk[p]
      BY <1>8, <2>1, <2>5
    <3>2. Newest(s) = Newest(j) /\ s.before = j.before
      BY <1>5 DEF Newest
    <3>3. p \in DOMAIN j.before => p \in Diverged(s) /\ p \in DOMAIN Newest(s)
      BY <1>6, <2>5, <3>2 DEF Chain
    <3>4. p \in DOMAIN j.before => disk[p] # Newest(j)[p]
      BY <3>2, <3>3 DEF Diverged, Newest
    <3> QED BY <1>7, <2>3, <3>1, <3>4
  <2> QED BY <2>4, <2>5
<1>12. ~task'.open
  BY <1>2, NoTaskFacts
<1> QED BY <1>2, <1>7, <1>10, <1>11, <1>12, ClosedStep

LEMMA EndTurnStep ==
  ASSUME IInv, EndTurn
  PROVE  IInv'
<1>1. /\ Types /\ Stages /\ Recorded /\ Guarded /\ Intact /\ Observed
      /\ Noted /\ Restorable /\ Adoptable /\ RollbackExact
  BY DEF IInv
<1>2. /\ turn.runs /\ call = NoCall /\ turn' = [turn EXCEPT !.runs = FALSE]
      /\ disk' = disk /\ committed' = committed /\ snapshot' = snapshot /\ call' = call
      /\ user' = user /\ calls' = calls /\ crashes' = crashes
  BY DEF EndTurn
<1>3. call.phase = "none" /\ call'.phase = "none"
  BY <1>2 DEF NoCall
<1>4. /\ turn' \in [runs : BOOLEAN, mutated : BOOLEAN] /\ ~turn'.runs
  BY <1>1, <1>2 DEF Types
<1> PICK C : C = Content
  OBVIOUS
<1>5. Contents(C) /\ past \in PastType /\ task \in TaskType(C) /\ past.closed # "crashed"
  BY <1>1, <1>2 DEF Types, Contents, Stages
<1>6. CASE ~turn.mutated
  <2>1. task' = task /\ record' = record /\ scan' = scan /\ past' = past
    BY <1>6 DEF EndTurn
  <2>2. Types'
    BY <1>1, <1>2, <1>4, <2>1 DEF Types, Contents
  <2>3. Stages'
    BY <1>1, <1>2, <1>4, <2>1 DEF Stages
  <2>4. Recorded' /\ Guarded' /\ Intact'
    BY <1>1, <1>2, <2>1 DEF Recorded, Guarded, Intact, Live, Kept
  <2>5. Observed'
    BY <1>1, <1>2, <1>3, <1>6, <2>1 DEF Observed, Clean, Dirty
  <2>6. Noted' /\ Restorable' /\ Adoptable' /\ RollbackExact'
    BY <1>1, <1>2, <2>1 DEF Noted, Restorable, Adoptable, RollbackExact, Live, Ours, Fine,
                            Pending, Dirty
  <2> QED BY <2>2, <2>3, <2>4, <2>5, <2>6 DEF IInv
<1>7. CASE turn.mutated
  <2> PICK j : j = Joined(task)
    OBVIOUS
  <2> PICK r : r = JoinedRecord(task)
    OBVIOUS
  <2>1. /\ task' = IF j.open /\ DOMAIN j.ledger # {}
                   THEN [j EXCEPT !.blocked = Clean(DOMAIN j.ledger)] ELSE j
        /\ record' = r /\ scan' = NoScan
        /\ past' = [past EXCEPT !.acted = FALSE, !.unseen = FALSE]
    BY <1>7 DEF EndTurn
  <2>2. /\ j \in TaskType(C) /\ j.open = task.open /\ j.protected = task.protected
        /\ j.approved = task.approved /\ j.allDirty = task.allDirty
    BY <1>5, JoinedFacts
  <2>3. r \in RecordType(C)
    BY <1>5, JoinedRecordFacts
  <2>4. /\ task' \in TaskType(C) /\ task'.open = j.open /\ task'.protected = j.protected
        /\ task'.approved = j.approved /\ task'.allDirty = j.allDirty
        /\ task'.ledger = j.ledger /\ task'.before = j.before /\ task'.points = j.points
        /\ task'.open /\ DOMAIN j.ledger # {} => task'.blocked = Clean(DOMAIN j.ledger)
    <3>1. Clean(DOMAIN j.ledger) \in BOOLEAN
      BY DEF Clean
    <3> QED BY <2>1, <2>2, <3>1 DEF TaskType
  <2>5. /\ past' \in PastType /\ past'.atOpen = past.atOpen /\ past'.touched = past.touched
        /\ past'.lost = past.lost /\ past'.skewed = past.skewed
        /\ past'.escaped = past.escaped /\ past'.closed = past.closed
        /\ past'.dirty = past.dirty /\ past'.allowed = past.allowed /\ past'.cut = past.cut
    BY <1>5, <2>1 DEF PastType
  <2>6. Types'
    BY <1>1, <1>2, <1>4, <2>1, <2>3, <2>4, <2>5 DEF Types, Contents, ScanType
  <2>7. CASE ~task.open
    <3>1. RollbackExact'
      BY <1>1, <1>2, <2>5 DEF RollbackExact
    <3> QED BY <1>2, <1>5, <2>1, <2>2, <2>4, <2>5, <2>6, <2>7, <3>1, ClosedStep
  <2>8. CASE task.open
    <3>1. Chain(j, r)
      BY <1>3, <2>8, JoinedChain
    <3>2. Newest(task') = Newest(j)
      BY <2>4 DEF Newest
    <3>3. past.closed = "no"
      BY <1>1, <2>8 DEF Stages
    <3>4. DOMAIN j.before # {} => task'.points # <<>> /\ DOMAIN j.before \subseteq DOMAIN Newest(task')
      BY <2>4, <3>1, <3>2 DEF Chain
    <3>5. Recorded' /\ Noted' /\ Restorable' /\ Adoptable' /\ RollbackExact'
      BY <1>2, <1>3, <2>1, <2>2, <2>4, <2>5, <2>8, <3>1, <3>2, <3>3, <3>4, ChainStep
    <3>6. Stages'
      <4>1. scan'.state = "none"
        BY <2>1 DEF NoScan
      <4> QED BY <1>2, <1>3, <1>4, <2>1, <2>5, <3>3, <4>1 DEF Stages
    <3>7. Guarded'
      BY <1>1, <1>3, <2>2, <2>4, <2>5, <2>8 DEF Guarded
    <3>8. Intact'
      BY <1>1, <1>2, <1>3, <2>5, <2>8 DEF Intact, Live, Kept
    <3>9. Observed'
      BY <1>2, <2>1, <2>4 DEF Observed, Clean, Dirty
    <3> QED BY <2>6, <3>5, <3>6, <3>7, <3>8, <3>9 DEF IInv
  <2> QED BY <2>7, <2>8
<1> QED BY <1>6, <1>7

\* note_mutation: the call joins the scan of an open task or opens a task.
LEMMA StartCallStep ==
  ASSUME IInv, NEW tool \in Tools, NEW targets \in {{}} \cup {{p} : p \in Paths},
         StartCall(tool, targets)
  PROVE  IInv'
<1>1. /\ Types /\ Stages /\ Recorded /\ Guarded /\ Intact /\ Observed
      /\ Noted /\ Restorable /\ Adoptable /\ RollbackExact
  BY DEF IInv
<1> PICK j : j = Joined(task)
  OBVIOUS
<1> PICK o : o = IF j.open THEN j ELSE [NoTask EXCEPT !.open = TRUE, !.protected = Dirty]
  OBVIOUS
<1> PICK gated : gated = IF o.allDirty THEN {} ELSE (targets \cap o.protected) \ o.approved
  OBVIOUS
<1>2. /\ turn.runs /\ call = NoCall /\ calls < MaxCalls /\ (tool = "bash") = (targets = {})
      /\ calls' = calls + 1 /\ task' = o
      /\ record' = IF task.open THEN JoinedRecord(task) ELSE Persisted(o)
      /\ past' = IF task.open THEN past
                 ELSE [NewPast EXCEPT !.acted = past.acted, !.unseen = past.unseen]
      /\ call' = [phase |-> IF gated = {} THEN "ready" ELSE "gate", tool |-> tool,
                  targets |-> targets, gated |-> gated]
      /\ scan' = NoScan
      /\ disk' = disk /\ committed' = committed /\ snapshot' = snapshot /\ turn' = turn
      /\ user' = user /\ crashes' = crashes
  BY DEF StartCall
<1> PICK C : C = Content
  OBVIOUS
<1>3. /\ Contents(C) /\ task \in TaskType(C) /\ past \in PastType /\ call.phase = "none"
      /\ disk \in [Paths -> C] /\ calls \in 0..MaxCalls /\ MaxCalls \in Nat
  BY <1>1, <1>2, GuardAssumption DEF Types, Contents, NoCall
<1>4. /\ j \in TaskType(C) /\ j.open = task.open /\ j.protected = task.protected
      /\ j.approved = task.approved /\ j.allDirty = task.allDirty /\ j.blocked = task.blocked
      /\ scan = NoScan => j = task
  BY <1>3, JoinedFacts
<1>5. /\ o \in TaskType(C) /\ o.open = TRUE
      /\ ~task.open => /\ o.protected = Dirty /\ o.approved = {} /\ o.allDirty = FALSE
                       /\ o.ledger = Empty /\ o.before = Empty /\ o.points = <<>>
      /\ task.open => o = j
  <2>1. /\ NoTask \in TaskType(C) /\ NoTask.approved = {} /\ NoTask.allDirty = FALSE
        /\ NoTask.ledger = Empty /\ NoTask.before = Empty /\ NoTask.points = <<>>
    BY NoTaskFacts
  <2> QED BY <1>4, <2>1, DirtyFacts DEF TaskType
<1>6. /\ call' \in [phase : {"gate", "ready", "exec"}, tool : Tools, targets : SUBSET Paths,
                    gated : SUBSET Paths]
      /\ call'.phase = (IF gated = {} THEN "ready" ELSE "gate") /\ call'.tool = tool
      /\ call'.targets = targets /\ call'.gated = gated /\ call' # NoCall
  <2>1. targets \in SUBSET Paths /\ gated \in SUBSET Paths
    BY <1>5 DEF TaskType
  <2> QED BY <1>2, <2>1 DEF NoCall
<1>7. /\ past' \in PastType /\ past'.closed = "no"
      /\ past'.acted = past.acted /\ past'.unseen = past.unseen
      /\ task.open => past' = past
      /\ ~task.open => past'.atOpen = disk /\ past'.dirty = Dirty /\ past'.skewed = {}
  <2>1. CASE task.open
    BY <1>1, <1>2, <1>3, <2>1 DEF Stages
  <2>2. CASE ~task.open
    <3>1. disk \in [Paths -> Content]
      BY <1>3 DEF Contents
    <3>2. user \in Nat /\ Dirty \in SUBSET Paths
      BY <1>1, DirtyFacts, GuardAssumption DEF Types
    <3>3. past' = [NewPast EXCEPT !.acted = past.acted, !.unseen = past.unseen]
      BY <1>2, <2>2
    <3> QED BY <1>3, <2>2, <3>1, <3>2, <3>3 DEF NewPast, PastType
  <2> QED BY <2>1, <2>2
<1>8. Types'
  <2>1. call' \in CallType
    BY <1>6 DEF CallType
  <2>2. record' \in RecordType(C)
    <3>1. JoinedRecord(task) \in RecordType(C)
      BY <1>3, JoinedRecordFacts
    <3>2. Persisted(o) \in RecordType(C)
      BY <1>5 DEF Persisted, RecordType, TaskType
    <3> QED BY <1>2, <3>1, <3>2
  <2>3. calls' \in 0..MaxCalls
    BY <1>2, <1>3
  <2> QED BY <1>1, <1>2, <1>3, <1>5, <1>7, <2>1, <2>2, <2>3 DEF Types, Contents, ScanType
<1>9. Stages'
  <2>1. scan'.state = "none" /\ calls' >= 1
    BY <1>2, <1>3 DEF NoScan
  <2>2. call'.phase \in {"gate", "ready"}
    BY <1>6
  <2>3. call'.tool = "bash" => call'.targets = {}
    BY <1>2, <1>6
  <2> QED BY <1>2, <1>5, <1>7, <2>1, <2>2, <2>3 DEF Stages
<1>10. Recorded' /\ Noted' /\ Restorable' /\ Adoptable' /\ RollbackExact'
  <2>1. CASE task.open
    <3> PICK r : r = JoinedRecord(task)
      OBVIOUS
    <3>1. Chain(j, r)
      BY <1>3, <2>1, JoinedChain
    <3>2. task' = j /\ record' = r /\ past' = past
      BY <1>2, <1>5, <1>7, <2>1
    <3>3. DOMAIN j.before # {} => task'.points # <<>> /\ DOMAIN j.before \subseteq DOMAIN Newest(task')
      BY <3>1, <3>2 DEF Chain
    <3> QED BY <1>2, <1>5, <1>6, <1>7, <3>1, <3>2, <3>3, ChainStep
  <2>2. CASE ~task.open
    <3>1. DOMAIN Empty = {}
      BY EmptyFacts
    <3>2. record'.expected = Empty
      BY <1>2, <1>5, <2>2 DEF Persisted
    <3>3. Recorded'
      BY <1>2, <1>5, <2>2, <3>1, <3>2 DEF Recorded
    <3>4. Noted'
      BY <1>2, <1>5, <1>7, <2>2, <3>1 DEF Noted, Ours, Dirty
    <3>5. Restorable'
      BY <1>2, <1>6, <1>7, <2>2 DEF Restorable, Fine
    <3> QED BY <1>7, <3>3, <3>4, <3>5 DEF Adoptable, RollbackExact
  <2> QED BY <2>1, <2>2
<1>11. Guarded'
  <2>1. past'.dirty \subseteq o.protected /\ (o.approved \cap past'.dirty \subseteq past'.allowed)
        /\ (o.allDirty => past'.dirty \subseteq past'.allowed)
    BY <1>1, <1>4, <1>5, <1>7 DEF Guarded
  <2>2. targets \cap past'.dirty \subseteq past'.allowed \cup gated
    BY <2>1
  <2> QED BY <1>2, <1>6, <2>1, <2>2 DEF Guarded
<1>12. Intact'
  <2>1. task.open => \A p \in Kept : disk[p] = past.atOpen[p]
    BY <1>1, <1>3 DEF Intact, Live
  <2>2. \A p \in Kept' : disk'[p] = past'.atOpen[p]
    BY <1>2, <1>7, <2>1 DEF Kept
  <2> QED BY <1>6, <2>2 DEF Intact
<1>13. Observed'
  <2>1. ~task.open => ~Clean(DOMAIN o.ledger)'
    BY <1>5, EmptyFacts DEF Clean
  <2>2. CASE ~task.open
    BY <1>2, <2>1, <2>2 DEF Observed
  <2>3. CASE task.open
    BY <1>1, <1>2, <1>3, <1>4, <1>5, <1>7, <2>3 DEF Observed, Clean, Dirty
  <2> QED BY <2>2, <2>3
<1> QED BY <1>8, <1>9, <1>10, <1>11, <1>12, <1>13 DEF IInv

-----------------------------------------------------------------------------
(* Steps that change files.                                                *)

LEMMA RecordFacts ==
  ASSUME NEW C, NEW r \in RecordType(C), r.exists
  PROVE  r.expected \in PartialOn(C)
<1>1. r # NoRecord
  BY DEF NoRecord
<1> QED BY <1>1 DEF RecordType

\* What running the tool changes.  Only a command changes files outside the
\* snapshot; then the history has E, files it committed before the guard knew
\* them, and K, files it left clean that no point has.
LEMMA RunToolFacts ==
  ASSUME IInv, NEW ok \in BOOLEAN, RunTool(ok)
  PROVE  /\ disk' \in [Paths -> Content] /\ committed' \in [Paths -> Content]
         /\ \E E, K \in SUBSET Paths :
              /\ past' = [past EXCEPT !.escaped = past.escaped \cup E,
                                      !.skewed = past.skewed \cup K]
              /\ \/ /\ call.tool = "write" /\ committed' = committed
                    /\ \A p \in Paths \ call.targets : disk'[p] = disk[p]
                 \/ call.tool = "bash" /\ E = Escaped /\ K = Missed
<1>1. /\ disk \in [Paths -> Content] /\ committed \in [Paths -> Content] /\ past \in PastType
      /\ task \in TaskType(Content)
  BY DEF IInv, Types, Contents
<1>2. ByIris(calls) \in Content
  <2>1. call # NoCall
    BY DEF RunTool, NoCall
  <2>2. calls \in 1..MaxCalls
    BY <2>1, GuardAssumption DEF IInv, Types, Stages
  <2> QED BY <2>2, ContentFacts
<1>3. CASE call.tool = "write"
  <2>1. PICK W : /\ W \in {call.targets, {}}
                 /\ disk' = [p \in Paths |-> IF p \in W THEN ByIris(calls) ELSE disk[p]]
    BY <1>3 DEF RunTool
  <2>2. committed' = committed /\ past' = past
    BY <1>3 DEF RunTool
  <2>3. disk' \in [Paths -> Content] /\ \A p \in Paths \ call.targets : disk'[p] = disk[p]
    BY <1>1, <1>2, <2>1
  <2>4. past' = [past EXCEPT !.escaped = past.escaped \cup {}, !.skewed = past.skewed \cup {}]
    BY <1>1, <2>2 DEF PastType
  <2>5. \E E, K \in SUBSET Paths :
          /\ past' = [past EXCEPT !.escaped = past.escaped \cup E, !.skewed = past.skewed \cup K]
          /\ \/ /\ call.tool = "write" /\ committed' = committed
                /\ \A p \in Paths \ call.targets : disk'[p] = disk[p]
             \/ call.tool = "bash" /\ E = Escaped /\ K = Missed
    <3> WITNESS {} \in SUBSET Paths, {} \in SUBSET Paths
    <3> QED BY <1>3, <2>2, <2>3, <2>4
  <2> QED BY <1>1, <2>2, <2>3, <2>5
<1>4. CASE call.tool = "bash"
  <2>1. PICK left \in [Paths -> Outcomes] : Command(left)
    BY <1>4 DEF RunTool
  <2>2. \A p \in Paths, v \in Versions : Version(p, v) \in Content
    BY <1>1, <1>2 DEF Version, Versions
  <2>3. \A p \in Paths : left[p].disk \in Versions /\ left[p].git \in Versions
    BY <2>1, GuardAssumption
  <2>4. disk' \in [Paths -> Content] /\ committed' \in [Paths -> Content]
    BY <2>1, <2>2, <2>3 DEF Command
  <2>5. Escaped \in SUBSET Paths /\ Missed \in SUBSET Paths
    BY <1>1, PartialFacts DEF Escaped, Missed, TaskType
  <2>6. past' = [past EXCEPT !.escaped = past.escaped \cup Escaped,
                             !.skewed = past.skewed \cup Missed]
    BY <1>4 DEF RunTool
  <2> QED BY <1>4, <2>4, <2>5, <2>6
<1> QED BY <1>3, <1>4 DEF RunTool

LEMMA RunToolStep ==
  ASSUME IInv, NEW ok \in BOOLEAN, RunTool(ok)
  PROVE  IInv'
<1>1. /\ Types /\ Stages /\ Recorded /\ Guarded /\ Intact /\ Observed
      /\ Noted /\ Restorable /\ Adoptable /\ RollbackExact
  BY DEF IInv
<1>2. /\ call.phase = "exec"
      /\ call' = [phase |-> "after", tool |-> call.tool, targets |-> call.targets, ok |-> ok]
      /\ task' = task /\ record' = record /\ snapshot' = snapshot /\ scan' = scan
      /\ turn' = turn /\ user' = user /\ calls' = calls /\ crashes' = crashes
  BY DEF RunTool
<1>3. /\ call \in [phase : {"gate", "ready", "exec"}, tool : Tools, targets : SUBSET Paths,
                   gated : SUBSET Paths]
      /\ past \in PastType /\ task.open /\ past.closed = "no" /\ scan = NoScan
      /\ DOMAIN snapshot = task.protected \cup call.targets
  <2>1. call # NoCall
    BY <1>2 DEF NoCall
  <2> QED BY <1>1, <1>2, <2>1, PhaseFacts DEF Types, Stages
<1>4. disk' \in [Paths -> Content] /\ committed' \in [Paths -> Content]
  BY RunToolFacts
<1>5. PICK E, K \in SUBSET Paths :
        /\ past' = [past EXCEPT !.escaped = past.escaped \cup E, !.skewed = past.skewed \cup K]
        /\ \/ /\ call.tool = "write" /\ committed' = committed
              /\ \A p \in Paths \ call.targets : disk'[p] = disk[p]
           \/ call.tool = "bash" /\ E = Escaped /\ K = Missed
  BY RunToolFacts
<1>6. /\ past' \in PastType /\ past'.skewed = past.skewed \cup K
      /\ past'.escaped = past.escaped \cup E /\ past'.cut = past.cut
      /\ past'.atOpen = past.atOpen /\ past'.touched = past.touched /\ past'.lost = past.lost
      /\ past'.closed = past.closed /\ past'.dirty = past.dirty /\ past'.allowed = past.allowed
      /\ past'.acted = past.acted /\ past'.unseen = past.unseen
  BY <1>3, <1>5 DEF PastType
<1>7. /\ call' \in [phase : {"after"}, tool : Tools, targets : SUBSET Paths, ok : BOOLEAN]
      /\ call'.phase = "after" /\ call'.tool = call.tool /\ call'.targets = call.targets
      /\ call' # NoCall
  BY <1>2, <1>3 DEF NoCall
<1>8. Types'
  <2>1. call' \in CallType
    BY <1>7 DEF CallType
  <2> QED BY <1>1, <1>2, <1>4, <1>6, <2>1 DEF Types, Contents
<1>9. Stages'
  <2>1. scan'.state = "none"
    BY <1>2, <1>3 DEF NoScan
  <2>2. turn'.runs /\ calls' >= 1 /\ (call.tool = "bash" => call.targets = {})
    BY <1>1, <1>2, <1>3 DEF Stages, NoCall
  <2> QED BY <1>2, <1>3, <1>6, <1>7, <2>1, <2>2 DEF Stages
<1>10. Recorded'
  BY <1>1, <1>2, <1>3 DEF Recorded, Live
<1>11. Guarded'
  BY <1>1, <1>2, <1>6, <1>7 DEF Guarded
<1>12. Intact'
  BY <1>1, <1>2, <1>3, <1>6, <1>7 DEF Intact, Live, Kept
<1>13. Observed'
  BY <1>7 DEF Observed
<1>14. Ours' = Ours \ E /\ Ours \subseteq Paths
  BY <1>6 DEF Ours
<1>15. \A p \in Ours' \ (DOMAIN task.before \cup task.protected) : committed'[p] = past.atOpen[p]
  <2> TAKE p \in Ours' \ (DOMAIN task.before \cup task.protected)
  <2>1. committed[p] = past.atOpen[p]
    BY <1>1, <1>3, <1>14 DEF Noted
  <2>2. E = Escaped => committed'[p] = past.atOpen[p]
    BY <1>14 DEF Escaped
  <2> QED BY <1>5, <2>1, <2>2
<1>16. Noted'
  <2>1. \A p \in DOMAIN task.before \cap Ours : task.before[p] = past.atOpen[p]
    BY <1>1, <1>3 DEF Noted, Live
  <2> QED BY <1>2, <1>6, <1>14, <1>15, <2>1 DEF Noted
<1>17. \A p \in Ours' \ DOMAIN snapshot :
         Fine(task, p, disk[p])' \/ (call.tool = "bash" /\ p \in Dirty')
  <2> TAKE p \in Ours' \ DOMAIN snapshot
  <2>1. p \in Ours /\ p \in Paths /\ p \notin task.protected /\ p \notin call.targets
    BY <1>3, <1>14
  <2>2. CASE call.tool = "bash" /\ E = Escaped /\ K = Missed
    <3>1. CASE p \in DOMAIN task.before
      <4>1. \/ disk'[p] # committed'[p] \/ p \in K
            \/ disk'[p] = past.atOpen[p] \/ disk'[p] = Newest(task)[p]
        BY <2>1, <2>2, <3>1 DEF Missed
      <4> QED BY <1>2, <1>6, <2>1, <2>2, <3>1, <4>1 DEF Fine, Dirty
    <3>2. CASE p \notin DOMAIN task.before
      BY <1>2, <1>6, <1>15, <2>1, <2>2, <3>2 DEF Fine, Dirty
    <3> QED BY <3>1, <3>2
  <2>3. CASE disk'[p] = disk[p]
    <3>1. Fine(task, p, disk[p])
      BY <1>1, <1>2, <1>3, <2>1 DEF Restorable, Pending, NoScan
    <3> QED BY <1>2, <1>6, <2>3, <3>1 DEF Fine
  <2> QED BY <1>5, <2>1, <2>2, <2>3
<1>18. Restorable'
  <2>1. \A p \in Ours' \cap DOMAIN snapshot : Fine(task, p, snapshot[p])'
    BY <1>1, <1>2, <1>3, <1>6, <1>14 DEF Restorable, Fine
  <2> QED BY <1>2, <1>7, <1>17, <2>1 DEF Restorable
<1>19. Adoptable' /\ RollbackExact'
  BY <1>3, <1>6 DEF Adoptable, RollbackExact
<1> QED BY <1>8, <1>9, <1>10, <1>11, <1>12, <1>13, <1>16, <1>18, <1>19 DEF IInv

LEMMA ConfirmedFacts ==
  Confirmed \subseteq Changed /\ Changed \subseteq DOMAIN snapshot
BY DEF Confirmed, Changed

\* The task that after_exec leaves behind.
LEMMA AdvancedFacts ==
  ASSUME NEW C, Contents(C), NEW S \in SUBSET Paths, S \subseteq DOMAIN snapshot,
         NEW a, a = Checkpoint([NoteBefore(Ledgered(task, Restrict(disk, S)), Restrict(snapshot, S))
                                EXCEPT !.protected = @ \cup S])
  PROVE  /\ a \in TaskType(C) /\ a.open = task.open /\ a.protected = task.protected \cup S
         /\ a.approved = task.approved /\ a.allDirty = task.allDirty
         /\ DOMAIN a.ledger = S \cup DOMAIN task.ledger
         /\ DOMAIN a.before = DOMAIN task.before \cup S
         /\ \A p \in DOMAIN task.before : a.before[p] = task.before[p]
         /\ \A p \in S \ DOMAIN task.before : a.before[p] = snapshot[p]
         /\ a.points # <<>> /\ DOMAIN Newest(a) = DOMAIN a.before
         /\ \A p \in DOMAIN a.before : Newest(a)[p] = disk[p]
<1>1. /\ task \in TaskType(C) /\ disk \in [Paths -> C] /\ snapshot \in PartialOn(C)
  BY DEF Contents
<1>2. \A p \in S : disk[p] \in C /\ snapshot[p] \in C
  BY <1>1, PartialFacts
<1> PICK after : after = Restrict(disk, S)
  OBVIOUS
<1> PICK pre : pre = Restrict(snapshot, S)
  OBVIOUS
<1>3. /\ after \in PartialOn(C) /\ DOMAIN after = S
  BY <1>2, RestrictFacts
<1>4. /\ pre \in PartialOn(C) /\ DOMAIN pre = S /\ \A p \in S : pre[p] = snapshot[p]
  BY <1>2, RestrictFacts
<1>n. PICK n : n = NoteBefore(Ledgered(task, after), pre)
  OBVIOUS
<1>5. /\ n \in TaskType(C) /\ n.open = task.open /\ n.protected = task.protected
      /\ n.approved = task.approved /\ n.allDirty = task.allDirty
      /\ n.ledger = Over(after, task.ledger) /\ n.before = Over(task.before, pre)
  <2>1. task.ledger \in PartialOn(C) /\ task.before \in PartialOn(C)
    BY <1>1 DEF TaskType
  <2>2. Over(after, task.ledger) \in PartialOn(C)
    BY ONLY <1>3, <2>1, OverFacts
  <2>3. Over(task.before, pre) \in PartialOn(C)
    BY ONLY <1>4, <2>1, OverFacts
  <2>4. n = [[task EXCEPT !.ledger = Over(after, @)] EXCEPT !.before = Over(@, pre)]
    BY <1>n DEF NoteBefore, Ledgered
  <2> QED BY ONLY <1>1, <2>2, <2>3, <2>4 DEF TaskType
<1> PICK m : m = [n EXCEPT !.protected = @ \cup S]
  OBVIOUS
<1>6. /\ m \in TaskType(C) /\ m.open = n.open /\ m.protected = n.protected \cup S
      /\ m.approved = n.approved /\ m.allDirty = n.allDirty
      /\ m.ledger = n.ledger /\ m.before = n.before
  BY <1>5 DEF TaskType
<1>7. a = Checkpoint(m)
  BY <1>n
<1>8. /\ a \in TaskType(C) /\ a.open = m.open /\ a.protected = m.protected
      /\ a.approved = m.approved /\ a.allDirty = m.allDirty
      /\ a.ledger = m.ledger /\ a.before = m.before
      /\ a.points # <<>> /\ DOMAIN Newest(a) = DOMAIN m.before
      /\ \A p \in DOMAIN m.before : Newest(a)[p] = disk[p]
  BY ONLY <1>1, <1>6, <1>7, CheckpointFacts
<1>9. /\ DOMAIN Over(task.before, pre) = DOMAIN task.before \cup S
      /\ \A p \in DOMAIN task.before : Over(task.before, pre)[p] = task.before[p]
      /\ \A p \in S \ DOMAIN task.before : Over(task.before, pre)[p] = snapshot[p]
  BY <1>4 DEF Over
<1>10. DOMAIN Over(after, task.ledger) = S \cup DOMAIN task.ledger
  BY <1>3 DEF Over
<1>11. a.ledger = Over(after, task.ledger) /\ a.before = Over(task.before, pre)
  BY <1>5, <1>6, <1>8
<1>12. DOMAIN a.ledger = S \cup DOMAIN task.ledger
  BY ONLY <1>10, <1>11, Zenon
<1>13. /\ DOMAIN a.before = DOMAIN task.before \cup S
       /\ \A p \in DOMAIN task.before : a.before[p] = task.before[p]
       /\ \A p \in S \ DOMAIN task.before : a.before[p] = snapshot[p]
  BY ONLY <1>9, <1>11, Zenon
<1>14. DOMAIN Newest(a) = DOMAIN a.before /\ \A p \in DOMAIN a.before : Newest(a)[p] = disk[p]
  BY <1>8
<1> QED BY <1>5, <1>6, <1>8, <1>12, <1>13, <1>14

\* A confirmed change is one the user allowed, or not of a file kept.
LEMMA ConfirmedAllowed ==
  ASSUME Types, Guarded, task.open, call.phase = "after"
  PROVE  Confirmed \cap Kept = {}
BY DEF Guarded, Confirmed, Kept

\* after_exec: what is confirmed joins ledger, baseline and chain.
LEMMA AfterExecStep ==
  ASSUME IInv, AfterExec
  PROVE  IInv'
<1>1. /\ Types /\ Stages /\ Recorded /\ Guarded /\ Intact /\ Observed
      /\ Noted /\ Restorable /\ Adoptable /\ RollbackExact
  BY DEF IInv
<1> PICK S : S = Confirmed
  OBVIOUS
<1> PICK a : a = Checkpoint([NoteBefore(Ledgered(task, Restrict(disk, S)), Restrict(snapshot, S))
                             EXCEPT !.protected = @ \cup S])
  OBVIOUS
<1> PICK t : t = IF S = {} THEN task ELSE a
  OBVIOUS
<1>2. /\ call.phase = "after" /\ task' = t
      /\ record' = IF S = {} THEN record ELSE Persisted(t)
      /\ scan' = IF call.tool = "bash"
                 THEN [state |-> "running", baseline |-> t.protected] ELSE scan
      /\ call' = IF Changed = S THEN NoCall ELSE [phase |-> "restore", paths |-> Changed \ S]
      /\ turn' = [turn EXCEPT !.mutated = @ \/ (call.ok /\ Changed = S)]
      /\ past' = [past EXCEPT !.unseen = @ \/ ~(call.ok /\ Changed = S),
                              !.skewed = IF S = {} THEN @ ELSE Changed \ S]
      /\ disk' = disk /\ committed' = committed /\ snapshot' = snapshot
      /\ user' = user /\ calls' = calls /\ crashes' = crashes
  BY DEF AfterExec
<1> PICK C : C = Content
  OBVIOUS
<1>3. /\ Contents(C) /\ task \in TaskType(C) /\ record \in RecordType(C)
      /\ snapshot \in PartialOn(C) /\ past \in PastType
      /\ turn \in [runs : BOOLEAN, mutated : BOOLEAN]
      /\ call \in [phase : {"after"}, tool : Tools, targets : SUBSET Paths, ok : BOOLEAN]
  BY <1>1, <1>2, PhaseFacts DEF Types, Contents
<1>4. /\ turn.runs /\ task.open /\ scan = NoScan /\ past.closed = "no"
      /\ DOMAIN snapshot = task.protected \cup call.targets
  <2>1. call # NoCall
    BY <1>2 DEF NoCall
  <2> QED BY <1>1, <1>2, <2>1 DEF Stages
<1>5. /\ S \subseteq Changed /\ Changed \subseteq DOMAIN snapshot /\ Changed \subseteq Paths
      /\ S \in SUBSET Paths /\ Changed = {p \in DOMAIN snapshot : disk[p] # snapshot[p]}
  BY <1>3, ConfirmedFacts, PartialFacts DEF Changed
<1>6. /\ t \in TaskType(C) /\ t.open = task.open /\ t.protected = task.protected \cup S
      /\ t.approved = task.approved /\ t.allDirty = task.allDirty
      /\ DOMAIN t.ledger = S \cup DOMAIN task.ledger
      /\ DOMAIN t.before = DOMAIN task.before \cup S
      /\ \A p \in DOMAIN task.before : t.before[p] = task.before[p]
      /\ \A p \in S \ DOMAIN task.before : t.before[p] = snapshot[p]
      /\ S = {} => t = task
      /\ S # {} => /\ t.points # <<>> /\ DOMAIN Newest(t) = DOMAIN t.before
                   /\ \A p \in DOMAIN t.before : Newest(t)[p] = disk[p]
  <2>1. CASE S = {}
    BY <1>3, <2>1
  <2>2. CASE S # {}
    <3>1. t = Checkpoint([NoteBefore(Ledgered(task, Restrict(disk, S)), Restrict(snapshot, S))
                          EXCEPT !.protected = @ \cup S])
      BY <2>2
    <3>2. S \subseteq DOMAIN snapshot
      BY <1>5
    <3>3. /\ t \in TaskType(C) /\ t.open = task.open /\ t.protected = task.protected \cup S
          /\ t.approved = task.approved /\ t.allDirty = task.allDirty
          /\ DOMAIN t.ledger = S \cup DOMAIN task.ledger
          /\ DOMAIN t.before = DOMAIN task.before \cup S
          /\ \A p \in DOMAIN task.before : t.before[p] = task.before[p]
          /\ \A p \in S \ DOMAIN task.before : t.before[p] = snapshot[p]
          /\ t.points # <<>> /\ DOMAIN Newest(t) = DOMAIN t.before
          /\ \A p \in DOMAIN t.before : Newest(t)[p] = disk[p]
      BY ONLY <1>3, <1>5, <3>1, <3>2, AdvancedFacts
    <3> QED BY <2>2, <3>3
  <2> QED BY <2>1, <2>2
<1>7. /\ record' \in RecordType(C)
      /\ S = {} => record' = record
      /\ S # {} => record'.exists /\ record'.expected = t.ledger
  <2>1. Persisted(t) \in RecordType(C) /\ Persisted(t).exists /\ Persisted(t).expected = t.ledger
    BY <1>6 DEF Persisted, RecordType, TaskType
  <2> QED BY <1>2, <1>3, <2>1
<1>8. /\ scan' \in ScanType(C) /\ scan'.state # "done"
      /\ scan'.state = "running" <=> call.tool = "bash"
      /\ scan'.state = "running" => scan'.baseline = t.protected
  <2>1. CASE call.tool = "bash"
    <3>1. t.protected \in SUBSET Paths
      BY <1>6 DEF TaskType
    <3> QED BY <1>2, <2>1, <3>1 DEF ScanType
  <2>2. CASE call.tool # "bash"
    BY <1>2, <1>4, <2>2 DEF ScanType, NoScan
  <2> QED BY <2>1, <2>2
<1>9. /\ call' \in CallType /\ call'.phase \in {"none", "restore"}
      /\ call'.phase = "none" => Changed = S
      /\ call'.phase = "restore" => Changed # S /\ call'.paths = Changed \ S
  BY <1>2, <1>5 DEF CallType, NoCall
<1>10. /\ past' \in PastType /\ past'.atOpen = past.atOpen /\ past'.touched = past.touched
       /\ past'.lost = past.lost /\ past'.escaped = past.escaped
       /\ past'.closed = past.closed /\ past'.dirty = past.dirty
       /\ past'.allowed = past.allowed /\ past'.cut = past.cut /\ past'.acted = past.acted
       /\ past'.unseen = (past.unseen \/ ~(call.ok /\ Changed = S))
       /\ past'.skewed = IF S = {} THEN past.skewed ELSE Changed \ S
  <2>1. Changed \ S \in SUBSET Paths /\ call.ok \in BOOLEAN
    BY <1>3, <1>5
  <2> QED BY <1>2, <1>3, <2>1 DEF PastType
<1>11. /\ turn' \in [runs : BOOLEAN, mutated : BOOLEAN] /\ turn'.runs
       /\ call.ok /\ Changed = S => turn'.mutated
  BY <1>2, <1>3, <1>4
<1>12. Types'
  BY <1>1, <1>2, <1>6, <1>7, <1>8, <1>9, <1>10, <1>11 DEF Types, Contents
<1>13. Stages'
  <2>1. calls >= 1
    BY <1>1, <1>2 DEF Stages, NoCall
  <2> QED BY <1>2, <1>4, <1>5, <1>6, <1>8, <1>9, <1>10, <1>11, <2>1 DEF Stages
<1>14. Recorded'
  <2>1. /\ DOMAIN task.ledger \subseteq DOMAIN task.before
        /\ record.exists => DOMAIN record.expected \subseteq DOMAIN task.before
        /\ DOMAIN task.before # {} => task.points # <<>> /\ DOMAIN task.before \subseteq DOMAIN Newest(task)
    BY <1>1, <1>4 DEF Recorded, Live
  <2> QED BY <1>2, <1>6, <1>7, <2>1 DEF Recorded
<1>15. Guarded'
  BY <1>1, <1>2, <1>4, <1>6, <1>9, <1>10 DEF Guarded
<1>16. Intact'
  <2>1. S \cap Kept = {}
    BY <1>1, <1>2, <1>4, ConfirmedAllowed
  <2>2. \A p \in Kept : p \in DOMAIN snapshot /\ snapshot[p] = past.atOpen[p]
    BY <1>1, <1>2, <1>4 DEF Intact, Live
  <2>3. \A p \in Kept : p \in Changed \ S \/ disk[p] = past.atOpen[p]
    BY <1>5, <2>1, <2>2
  <2>4. Kept' = Kept
    BY <1>10 DEF Kept
  <2> QED BY <1>2, <1>9, <1>10, <2>2, <2>3, <2>4 DEF Intact
<1>17. Observed'
  BY <1>10, <1>11 DEF Observed
<1>18. Ours' = Ours /\ Ours \subseteq Paths
  BY <1>10 DEF Ours
<1>19. \A p \in Ours \cap DOMAIN snapshot : Fine(task, p, snapshot[p])
  BY <1>1, <1>2, <1>4 DEF Restorable
<1>20. Noted'
  <2>1. \A p \in DOMAIN t.before \cap Ours : t.before[p] = past.atOpen[p]
    <3>1. \A p \in DOMAIN task.before \cap Ours : task.before[p] = past.atOpen[p]
      BY <1>1, <1>4 DEF Noted, Live
    <3>2. \A p \in (S \ DOMAIN task.before) \cap Ours : snapshot[p] = past.atOpen[p]
      BY <1>5, <1>19 DEF Fine
    <3>3. \A p \in DOMAIN t.before : p \in DOMAIN task.before \/ p \in S \ DOMAIN task.before
      BY <1>6
    <3>4. /\ \A p \in DOMAIN task.before : t.before[p] = task.before[p]
          /\ \A p \in S \ DOMAIN task.before : t.before[p] = snapshot[p]
      BY <1>6
    <3> QED BY ONLY <3>1, <3>2, <3>3, <3>4
  <2>2. \A p \in Ours \ (DOMAIN t.before \cup t.protected) : committed[p] = past.atOpen[p]
    BY <1>1, <1>4, <1>6 DEF Noted
  <2>3. task' = t /\ committed' = committed /\ past'.atOpen = past.atOpen
    BY <1>2, <1>10
  <2> QED BY ONLY <1>18, <2>1, <2>2, <2>3 DEF Noted
<1>21. \A p \in Ours : IF p \in Changed \ S THEN Fine(task, p, snapshot[p])'
                       ELSE Fine(task, p, disk[p])' \/ Pending(p)'
  <2> TAKE p \in Ours
  <2>1. CASE p \in Changed \ S
    <3>1. Fine(task, p, snapshot[p])
      BY <1>5, <1>19, <2>1
    <3>2. snapshot[p] = past.atOpen[p]
          \/ (p \in DOMAIN t.before /\ (snapshot[p] = Newest(t)[p] \/ p \in past'.skewed))
      <4>1. CASE S = {}
        BY <1>6, <1>10, <3>1, <4>1 DEF Fine
      <4>2. CASE S # {}
        BY <1>6, <1>10, <2>1, <3>1, <4>2 DEF Fine
      <4> QED BY <4>1, <4>2
    <3>3. Fine(task, p, snapshot[p])'
      BY <1>2, <1>10, <3>2 DEF Fine
    <3> QED BY <2>1, <3>3
  <2>2. CASE p \in S
    <3>1. p \in DOMAIN t.before /\ Newest(t)[p] = disk[p]
      BY <1>6, <2>2
    <3> QED BY <1>2, <2>2, <3>1 DEF Fine
  <2>3. CASE p \in DOMAIN snapshot \ Changed
    <3>1. disk[p] = snapshot[p] /\ Fine(task, p, disk[p])
      BY <1>5, <1>19, <2>3
    <3>2. S # {} /\ p \in DOMAIN t.before => Newest(t)[p] = disk[p]
      BY <1>6
    <3>3. p \notin Changed \ S
      BY <2>3
    <3>4. disk[p] = past.atOpen[p]
          \/ (p \in DOMAIN t.before /\ (disk[p] = Newest(t)[p] \/ p \in past'.skewed))
      <4>1. CASE S = {}
        BY <1>6, <1>10, <3>1, <4>1 DEF Fine
      <4>2. CASE S # {}
        BY <1>6, <3>1, <3>2, <4>2 DEF Fine
      <4> QED BY <4>1, <4>2
    <3>5. Fine(task, p, disk[p])'
      BY <1>2, <1>10, <3>4 DEF Fine
    <3> QED BY <3>3, <3>5
  <2>4. CASE p \notin DOMAIN snapshot
    <3>1. p \notin Changed /\ p \notin t.protected /\ p \notin S
      BY <1>4, <1>5, <1>6, <2>4
    <3>2. Fine(task, p, disk[p]) \/ (call.tool = "bash" /\ p \in Dirty)
      BY <1>1, <1>2, <1>4, <2>4 DEF Restorable
    <3>3. CASE S # {} /\ p \in DOMAIN t.before
      BY <1>2, <1>6, <3>1, <3>3 DEF Fine
    <3>4. CASE S # {} /\ p \notin DOMAIN t.before
      <4>1. p \notin DOMAIN task.before /\ p \notin DOMAIN t.ledger
        BY <1>1, <1>4, <1>6, <3>1, <3>4 DEF Recorded, Live
      <4>2. disk[p] = past.atOpen[p] \/ (call.tool = "bash" /\ p \in Dirty)
        BY <3>2, <4>1 DEF Fine
      <4>3. Dirty' = Dirty
        BY <1>2 DEF Dirty
      <4> QED BY <1>2, <1>8, <1>10, <3>1, <4>2, <4>3 DEF Fine, Pending
    <3>5. CASE S = {}
      <4>1. task' = task /\ record' = record /\ past'.skewed = past.skewed
        BY <1>2, <1>6, <1>7, <1>10, <3>5
      <4>2. Dirty' = Dirty
        BY <1>2 DEF Dirty
      <4> QED BY <1>2, <1>8, <1>10, <3>1, <3>2, <4>1, <4>2 DEF Fine, Pending
    <3> QED BY <3>3, <3>4, <3>5
  <2> QED BY <1>5, <2>1, <2>2, <2>3, <2>4
<1>22. Restorable'
  BY <1>9, <1>18, <1>21 DEF Restorable
<1>23. Adoptable' /\ RollbackExact'
  BY <1>4, <1>10 DEF Adoptable, RollbackExact
<1> QED BY <1>12, <1>13, <1>14, <1>15, <1>16, <1>17, <1>20, <1>22, <1>23 DEF IInv

\* restore puts back what the snapshot has.
LEMMA RestoreStep ==
  ASSUME IInv, Restore
  PROVE  IInv'
<1>1. /\ Types /\ Stages /\ Recorded /\ Guarded /\ Intact /\ Observed
      /\ Noted /\ Restorable /\ Adoptable /\ RollbackExact
  BY DEF IInv
<1>2. /\ call.phase = "restore" /\ call' = NoCall /\ call'.phase = "none"
      /\ disk' = [p \in Paths |-> IF p \in call.paths THEN snapshot[p] ELSE disk[p]]
      /\ committed' = committed /\ task' = task /\ record' = record
      /\ snapshot' = snapshot /\ scan' = scan /\ turn' = turn /\ user' = user
      /\ calls' = calls /\ crashes' = crashes /\ past' = past
  BY DEF Restore, NoCall
<1> PICK C : C = Content
  OBVIOUS
<1>3. /\ Contents(C) /\ snapshot \in PartialOn(C) /\ disk \in [Paths -> C] /\ past \in PastType
      /\ call.paths \subseteq DOMAIN snapshot /\ past.unseen /\ task.open /\ past.closed = "no"
      /\ call.paths \subseteq Paths
  <2>1. call # NoCall
    BY <1>2 DEF NoCall
  <2> QED BY <1>1, <1>2, <2>1, PhaseFacts DEF Types, Contents, Stages
<1>4. \A p \in Paths : disk'[p] = IF p \in call.paths THEN snapshot[p] ELSE disk[p]
  BY <1>2
<1>5. Types'
  <2>1. disk' \in [Paths -> C]
    <3>1. \A p \in call.paths : snapshot[p] \in C
      BY <1>3, PartialFacts
    <3> QED BY <1>2, <1>3, <3>1
  <2> QED BY <1>1, <1>2, <2>1 DEF Types, Contents, CallType
<1>6. Stages'
  BY <1>1, <1>2 DEF Stages
<1>7. Recorded' /\ Guarded'
  BY <1>1, <1>2 DEF Recorded, Guarded, Live
<1>8. Intact'
  <2>1. \A p \in Kept : /\ snapshot[p] = past.atOpen[p] /\ p \in DOMAIN snapshot
                        /\ p \in call.paths \/ disk[p] = past.atOpen[p]
    BY <1>1, <1>2, <1>3 DEF Intact, Live
  <2>2. Kept \subseteq Paths /\ Kept' = Kept
    BY <1>2, <1>3 DEF Kept, PastType
  <2> QED BY <1>2, <1>4, <2>1, <2>2 DEF Intact
<1>9. Observed'
  BY <1>2, <1>3 DEF Observed
<1>10. Noted'
  BY <1>1, <1>2 DEF Noted, Live, Ours
<1>11. Restorable'
  <2>1. \A p \in Ours : Fine(task, p, disk[p])' \/ Pending(p)'
    <3> TAKE p \in Ours
    <3>1. /\ p \in Paths
          /\ IF p \in call.paths THEN Fine(task, p, snapshot[p])
                                 ELSE Fine(task, p, disk[p]) \/ Pending(p)
      BY <1>1, <1>2, <1>3 DEF Restorable, Ours
    <3>2. CASE p \in call.paths
      BY <1>2, <1>4, <3>1, <3>2 DEF Fine
    <3>3. CASE p \notin call.paths
      BY <1>2, <1>4, <3>1, <3>3 DEF Fine, Pending, Dirty
    <3> QED BY <3>2, <3>3
  <2>2. Ours' = Ours
    BY <1>2 DEF Ours
  <2> QED BY <1>2, <2>1, <2>2 DEF Restorable
<1>12. Adoptable' /\ RollbackExact'
  BY <1>2, <1>3 DEF Adoptable, RollbackExact
<1> QED BY <1>5, <1>6, <1>7, <1>8, <1>9, <1>10, <1>11, <1>12 DEF IInv

-----------------------------------------------------------------------------
(* The user, a crash and the next start.                                   *)

\* The user changes one file, on disk or in git: no promise is about it any
\* more, and the other files are as before.
LEMMA UserStep ==
  ASSUME IInv, NEW f \in Paths, UserEdit(f) \/ UserCommit(f)
  PROVE  IInv'
<1>1. /\ Types /\ Stages /\ Recorded /\ Guarded /\ Intact /\ Observed
      /\ Noted /\ Restorable /\ Adoptable /\ RollbackExact
  BY DEF IInv
<1>2. /\ user < MaxUserSteps /\ user' = user + 1
      /\ past' = [past EXCEPT !.touched = @ \cup {f}, !.acted = TRUE]
      /\ task' = task /\ record' = record /\ snapshot' = snapshot /\ call' = call
      /\ scan' = scan /\ turn' = turn /\ calls' = calls /\ crashes' = crashes
  BY DEF UserEdit, UserCommit
<1> PICK C : C = Content
  OBVIOUS
<1>3. /\ Contents(C) /\ past \in PastType /\ disk \in [Paths -> C] /\ committed \in [Paths -> C]
      /\ user \in 0..MaxUserSteps /\ MaxUserSteps \in Nat
  BY <1>1, GuardAssumption DEF Types, Contents
<1>4. /\ disk' \in [Paths -> C] /\ committed' \in [Paths -> C]
      /\ \A p \in Paths \ {f} : disk'[p] = disk[p] /\ committed'[p] = committed[p]
  <2>1. ByUser(user + 1) \in C
    <3>1. user + 1 \in 0..MaxUserSteps
      BY <1>2, <1>3
    <3> QED BY <3>1, ContentFacts
  <2>2. CASE UserEdit(f)
    <3>1. PICK c \in {ByUser(user + 1), committed[f]} : disk' = [disk EXCEPT ![f] = c]
      BY <2>2 DEF UserEdit
    <3>2. c \in C /\ committed' = committed
      BY <1>3, <2>1, <2>2, <3>1 DEF UserEdit
    <3> QED BY <1>3, <3>1, <3>2
  <2>3. CASE UserCommit(f)
    <3>1. committed' = [committed EXCEPT ![f] = disk[f]] /\ disk' = disk
      BY <2>3 DEF UserCommit
    <3> QED BY <1>3, <3>1
  <2> QED BY <2>2, <2>3
<1>5. /\ past' \in PastType /\ past'.touched = past.touched \cup {f} /\ past'.acted
      /\ past'.atOpen = past.atOpen /\ past'.lost = past.lost /\ past'.skewed = past.skewed
      /\ past'.escaped = past.escaped
      /\ past'.closed = past.closed /\ past'.dirty = past.dirty
      /\ past'.allowed = past.allowed /\ past'.cut = past.cut
      /\ past'.unseen = past.unseen
  BY <1>2, <1>3 DEF PastType
<1>6. Types'
  <2>1. user' \in 0..MaxUserSteps
    BY <1>2, <1>3
  <2> QED BY <1>1, <1>2, <1>4, <1>5, <2>1 DEF Types, Contents
<1>7. Stages' /\ Recorded' /\ Guarded'
  BY <1>1, <1>2, <1>5 DEF Stages, Recorded, Guarded, Live
<1>8. Observed'
  BY <1>5 DEF Observed
<1>9. Kept' \subseteq Kept \ {f} /\ Ours' = Ours \ {f} /\ Kept \subseteq Paths /\ Ours \subseteq Paths
  BY <1>3, <1>5 DEF Kept, Ours, PastType
<1>10. Intact'
  BY <1>1, <1>2, <1>4, <1>5, <1>9 DEF Intact, Live
<1>11. Noted'
  BY <1>1, <1>2, <1>4, <1>5, <1>9 DEF Noted, Live
<1>12. /\ \A p \in Ours' : \A v : Fine(task, p, v) => Fine(task, p, v)'
       /\ \A p \in Ours' : Pending(p) => Pending(p)'
       /\ \A p \in Ours' : p \in Dirty => p \in Dirty'
       /\ \A p \in Ours' : p \in Ours /\ disk'[p] = disk[p]
  BY <1>2, <1>4, <1>5, <1>9 DEF Fine, Pending, Dirty
<1>13. \A p \in Ours' : Fine(task, p, disk[p]) => Fine(task, p, disk[p])'
  BY <1>2, <1>5, <1>12 DEF Fine
<1>14. \A p \in Ours' : Fine(task, p, snapshot[p]) => Fine(task, p, snapshot[p])'
  BY <1>2, <1>5 DEF Fine
<1>15. Restorable'
  BY <1>1, <1>2, <1>12, <1>13, <1>14 DEF Restorable
<1>16. Adoptable'
  BY <1>1, <1>2, <1>5, <1>12, <1>13 DEF Adoptable
<1>17. RollbackExact'
  BY <1>1, <1>4, <1>5 DEF RollbackExact
<1> QED BY <1>6, <1>7, <1>8, <1>10, <1>11, <1>15, <1>16, <1>17 DEF IInv

\* A crash: the history takes note of what the call in flight leaves behind.
LEMMA CrashStep ==
  ASSUME IInv, Crash
  PROVE  IInv'
<1>1. /\ Types /\ Stages /\ Recorded /\ Guarded /\ Intact /\ Observed
      /\ Noted /\ Restorable /\ Adoptable /\ RollbackExact
  BY DEF IInv
<1> PICK U : U = Unrestored
  OBVIOUS
<1> PICK K : K = {p \in DOMAIN record.expected :
                    disk[p] = record.expected[p] /\ disk[p] # Newest(task)[p]}
  OBVIOUS
<1> PICK L : L = {p \in Paths : disk[p] # past.atOpen[p]} \ DOMAIN record.expected
  OBVIOUS
<1>2. /\ crashes < MaxCrashes /\ crashes' = crashes + 1 /\ task.open /\ record.exists
      /\ task' = [task EXCEPT !.open = FALSE]
      /\ snapshot' = Empty /\ call' = NoCall /\ scan' = NoScan
      /\ turn' = [runs |-> FALSE, mutated |-> FALSE]
      /\ past' = [past EXCEPT !.closed = "crashed", !.unseen = TRUE, !.cut = @ \cup U,
                              !.skewed = @ \cup K, !.lost = @ \cup L]
      /\ disk' = disk /\ committed' = committed /\ record' = record /\ user' = user
      /\ calls' = calls
  BY DEF Crash
<1> PICK C : C = Content
  OBVIOUS
<1>3. /\ Contents(C) /\ past \in PastType /\ task \in TaskType(C) /\ snapshot \in PartialOn(C)
      /\ call \in CallType /\ crashes \in 0..MaxCrashes /\ MaxCrashes \in Nat /\ Live
  BY <1>1, <1>2, GuardAssumption DEF Types, Contents, Live
<1>4. /\ task' \in TaskType(C) /\ task'.open = FALSE /\ task'.ledger = task.ledger
      /\ task'.before = task.before /\ task'.points = task.points
  BY <1>2, <1>3 DEF TaskType
<1>5. U \subseteq Paths /\ K \subseteq Paths /\ L \subseteq Paths
  <2>1. Changed \subseteq Paths
    BY <1>3, PartialFacts DEF Changed
  <2>2. DOMAIN record.expected \subseteq Paths
    BY <1>2, <1>3, RecordFacts, PartialFacts DEF Contents
  <2> QED BY <2>1, <2>2 DEF Unrestored
<1>6. /\ past' \in PastType /\ past'.closed = "crashed" /\ past'.cut = past.cut \cup U
      /\ past'.allowed = past.allowed /\ past'.escaped = past.escaped
      /\ past'.skewed = past.skewed \cup K /\ past'.lost = past.lost \cup L
      /\ past'.atOpen = past.atOpen /\ past'.touched = past.touched /\ past'.dirty = past.dirty
  BY <1>2, <1>3, <1>5 DEF PastType
<1>7. call'.phase = "none" /\ scan'.state = "none" /\ turn'.runs = FALSE
  BY <1>2 DEF NoCall, NoScan
<1>8. Types'
  <2>1. snapshot' \in PartialOn(C)
    BY <1>2, EmptyFacts
  <2>2. Contents(C)'
    BY <1>2, <1>3, <1>4, <2>1 DEF Contents, ScanType
  <2>3. crashes' \in 0..MaxCrashes /\ turn' \in [runs : BOOLEAN, mutated : BOOLEAN]
    BY <1>2, <1>3
  <2> QED BY <1>1, <1>2, <1>6, <2>2, <2>3 DEF Types, CallType
<1>9. Stages'
  BY <1>2, <1>4, <1>6, <1>7 DEF Stages
<1>10. Recorded'
  BY <1>1, <1>2, <1>3, <1>4 DEF Recorded, Newest
<1>11. Guarded' /\ Observed' /\ Restorable' /\ RollbackExact'
  BY <1>4, <1>6 DEF Guarded, Observed, Restorable, RollbackExact
<1>12. call.phase \in {"none", "gate", "ready", "exec", "after", "restore"}
  BY <1>3, PhaseFacts
<1>13. Intact'
  <2>1. Kept' = Kept \ U
    BY <1>6 DEF Kept
  <2>2. \A p \in Kept \ U : disk[p] = past.atOpen[p]
    BY <1>1, <1>3, <1>12 DEF Intact, Unrestored, Changed
  <2> QED BY <1>2, <1>6, <1>7, <2>1, <2>2 DEF Intact
<1>14. Ours' = Ours \ L
  BY <1>6 DEF Ours
<1>15. Noted'
  BY <1>1, <1>3, <1>4, <1>6, <1>14 DEF Noted
<1>16. Adoptable'
  <2> SUFFICES ASSUME NEW p \in Ours'
               PROVE  IF p \in DOMAIN record.expected
                      THEN Fine(task, p, disk[p])' \/ disk[p] # record.expected[p]
                      ELSE disk[p] = past.atOpen[p]
    BY <1>2, <1>6 DEF Adoptable
  <2>1. p \in Ours /\ p \notin L /\ p \in Paths
    BY <1>14 DEF Ours
  <2>2. CASE p \notin DOMAIN record.expected
    BY <2>1, <2>2
  <2>3. CASE p \in DOMAIN record.expected
    <3>1. p \in DOMAIN task.before
      BY <1>1, <1>2, <1>3, <2>3 DEF Recorded
    <3>2. disk[p] = Newest(task)[p] \/ disk[p] # record.expected[p] \/ p \in K
      BY <2>3
    <3> QED BY <1>2, <1>4, <1>6, <2>3, <3>1, <3>2 DEF Fine, Newest
  <2> QED BY <2>2, <2>3
<1> QED BY <1>8, <1>9, <1>10, <1>11, <1>13, <1>15, <1>16 DEF IInv

\* The next start adopts the task, with a recovery point for what differs from
\* the record, or drops a record whose files are all clean.
LEMMA RecoverStep ==
  ASSUME IInv, Recover
  PROVE  IInv'
<1>1. /\ Types /\ Stages /\ Recorded /\ Guarded /\ Intact /\ Observed
      /\ Noted /\ Restorable /\ Adoptable /\ RollbackExact
  BY DEF IInv
<1> PICK points : points = IF DivergedPaths = {} \/ task.points = <<>> THEN task.points
                           ELSE Append(task.points, RecoveryTree(task, DivergedPaths))
  OBVIOUS
<1>2. /\ past.closed = "crashed" /\ record.exists
      /\ IF Clean(DOMAIN record.expected)
         THEN /\ task' = NoTask /\ record' = NoRecord
              /\ past' = [past EXCEPT !.closed = "expired"]
         ELSE /\ task' = Rehydrated(task, points)
              /\ past' = [past EXCEPT !.closed = "no", !.dirty = @ \cap Dirty]
              /\ record' = record
      /\ disk' = disk /\ committed' = committed /\ snapshot' = snapshot /\ call' = call
      /\ scan' = scan /\ turn' = turn /\ user' = user /\ calls' = calls /\ crashes' = crashes
  BY DEF Recover
<1> PICK C : C = Content
  OBVIOUS
<1>3. /\ Contents(C) /\ past \in PastType /\ task \in TaskType(C) /\ record \in RecordType(C)
      /\ disk \in [Paths -> C] /\ Live
      /\ ~task.open /\ call = NoCall /\ scan = NoScan
  BY <1>1, <1>2 DEF Types, Contents, Live, Stages
<1>4. call'.phase = "none" /\ scan'.state = "none"
  BY <1>2, <1>3 DEF NoCall, NoScan
<1>5. CASE Clean(DOMAIN record.expected)
  <2>1. task' = NoTask /\ record' = NoRecord /\ past' = [past EXCEPT !.closed = "expired"]
    BY <1>2, <1>5
  <2>2. past' \in PastType /\ past'.closed = "expired"
    BY <1>3, <2>1 DEF PastType
  <2>3. NoTask \in TaskType(C) /\ ~NoTask.open
    BY NoTaskFacts
  <2>4. Types'
    BY <1>1, <1>2, <2>1, <2>2, <2>3 DEF Types, Contents, RecordType
  <2>5. RollbackExact'
    BY <2>2 DEF RollbackExact
  <2> QED BY <1>2, <1>3, <2>1, <2>2, <2>3, <2>4, <2>5, ClosedStep
<1>6. CASE ~Clean(DOMAIN record.expected)
  <2> PICK E : E = DOMAIN record.expected
    OBVIOUS
  <2>1. /\ task' = Rehydrated(task, points) /\ record' = record
        /\ past' = [past EXCEPT !.closed = "no", !.dirty = @ \cap Dirty]
    BY <1>2, <1>6
  <2>2. /\ past' \in PastType /\ past'.closed = "no" /\ past'.dirty = past.dirty \cap Dirty
        /\ past'.atOpen = past.atOpen /\ past'.touched = past.touched /\ past'.lost = past.lost
        /\ past'.escaped = past.escaped
        /\ past'.skewed = past.skewed /\ past'.allowed = past.allowed /\ past'.cut = past.cut
    BY <1>3, <2>1 DEF PastType
  <2>3. /\ E \subseteq DOMAIN task.before /\ E \in SUBSET Paths
        /\ DOMAIN task.before # {} => task.points # <<>> /\ DOMAIN task.before \subseteq DOMAIN Newest(task)
    <3>1. record.expected \in PartialOn(C)
      BY <1>2, <1>3, RecordFacts
    <3> QED BY <1>1, <1>2, <1>3, <3>1, PartialFacts DEF Recorded
  <2>4. /\ DivergedPaths = {p \in E : disk[p] # record.expected[p]}
        /\ DivergedPaths \in SUBSET Paths
    BY <2>3 DEF DivergedPaths
  <2>5. /\ points \in Seq(PartialOn(C))
        /\ task.points # <<>> =>
             /\ points # <<>>
             /\ DOMAIN points[Len(points)] = DOMAIN Newest(task) \cup DivergedPaths
             /\ \A p \in DivergedPaths : points[Len(points)][p] = disk[p]
             /\ \A p \in DOMAIN Newest(task) \ DivergedPaths : points[Len(points)][p] = Newest(task)[p]
    <3>1. task.points \in Seq(PartialOn(C))
      BY <1>3 DEF TaskType
    <3>2. CASE DivergedPaths = {} \/ task.points = <<>>
      BY <3>1, <3>2 DEF Newest
    <3>3. CASE DivergedPaths # {} /\ task.points # <<>>
      <4>1. Len(task.points) \in 1..Len(task.points) /\ Len(task.points) # 0
        BY <3>1, <3>3, EmptySeq, LenProperties
      <4>2. Newest(task) \in PartialOn(C) /\ Tree(task, Len(task.points)) = Newest(task)
        BY <3>1, <4>1, ElementOfSeq DEF Newest, Tree
      <4> PICK now : now = Restrict(disk, DivergedPaths)
        OBVIOUS
      <4>3. /\ now \in PartialOn(C) /\ DOMAIN now = DivergedPaths
            /\ \A p \in DivergedPaths : now[p] = disk[p]
        BY <1>3, <2>4, RestrictFacts
      <4>4. PICK tree : tree = Over(now, Newest(task))
        OBVIOUS
      <4>5. points = Append(task.points, tree)
        BY <3>3, <4>2, <4>4 DEF RecoveryTree
      <4>6. tree \in PartialOn(C)
        BY ONLY <4>2, <4>3, <4>4, OverFacts
      <4>7. /\ DOMAIN tree = DOMAIN now \cup DOMAIN Newest(task)
            /\ \A p \in DOMAIN now : tree[p] = now[p]
            /\ \A p \in DOMAIN Newest(task) \ DOMAIN now : tree[p] = Newest(task)[p]
        BY <4>4 DEF Over
      <4>8. /\ points \in Seq(PartialOn(C)) /\ points # <<>> /\ points[Len(points)] = tree
        BY <3>1, <4>5, <4>6, AppendProperties
      <4> QED BY <3>3, <4>3, <4>7, <4>8
    <3> QED BY <3>2, <3>3
  <2>p. PICK pre : pre = Restrict(task.before, E)
    OBVIOUS
  <2>6. /\ pre \in PartialOn(C) /\ DOMAIN pre = E /\ \A p \in E : pre[p] = task.before[p]
    <3>1. \A p \in E : task.before[p] \in C
      BY <1>3, <2>3, PartialFacts DEF TaskType
    <3>2. DOMAIN pre = E /\ \A p \in E : pre[p] = task.before[p]
      BY <2>p DEF Restrict
    <3>3. pre \in [E -> C]
      BY <2>p, <3>1 DEF Restrict
    <3> QED BY <2>3, <3>2, <3>3, PartialDef
  <2>7. /\ task' \in TaskType(C) /\ task'.open = TRUE /\ task'.protected = Dirty
        /\ task'.approved = {} /\ task'.allDirty = FALSE /\ task'.ledger = Empty
        /\ task'.before = pre /\ task'.points = points
    <3>1. /\ NoTask \in TaskType(C) /\ NoTask.approved = {} /\ NoTask.allDirty = FALSE
          /\ NoTask.ledger = Empty
      BY NoTaskFacts
    <3>2. task' = [NoTask EXCEPT !.open = TRUE, !.protected = Dirty, !.before = pre,
                                 !.points = points]
      BY <2>1, <2>p DEF Rehydrated
    <3> QED BY <2>5, <2>6, <3>1, <3>2, DirtyFacts DEF TaskType
  <2>8. Types'
    BY <1>1, <1>2, <2>1, <2>2, <2>7 DEF Types, Contents
  <2>9. Stages'
    BY <1>2, <1>3, <1>4, <2>2 DEF Stages
  <2>10. DOMAIN Empty = {}
    BY EmptyFacts
  <2>11. Newest(task') = points[Len(points)]
    BY <2>7 DEF Newest
  <2>12. Recorded'
    <3>1. E # {} => points # <<>> /\ E \subseteq DOMAIN Newest(task')
      BY <2>3, <2>5, <2>11
    <3> QED BY <2>1, <2>6, <2>7, <2>10, <3>1 DEF Recorded
  <2>13. Guarded'
    BY <1>4, <2>2, <2>7 DEF Guarded
  <2>14. Intact'
    <3>1. \A p \in Kept : disk[p] = past.atOpen[p]
      BY <1>1, <1>3, <1>4, <1>2 DEF Intact
    <3>2. Kept' \subseteq Kept
      BY <2>2 DEF Kept
    <3> QED BY <1>2, <1>4, <2>2, <3>1, <3>2 DEF Intact
  <2>15. Observed'
    <3>1. ~Clean(DOMAIN task.ledger)'
      BY <2>7, <2>10 DEF Clean
    <3> QED BY <1>2, <1>3, <3>1 DEF Observed
  <2>16. Ours' = Ours /\ Ours \subseteq Paths
    BY <2>2 DEF Ours
  <2>17. \A p \in Ours : IF p \in E
                         THEN Fine(task, p, disk[p]) \/ disk[p] # record.expected[p]
                         ELSE disk[p] = past.atOpen[p]
    BY <1>1, <1>2 DEF Adoptable
  <2>18. Noted'
    <3>1. \A p \in E \cap Ours : pre[p] = past.atOpen[p]
      BY <1>1, <1>3, <2>3, <2>6 DEF Noted
    <3>2. \A p \in Ours \ (E \cup Dirty) : committed[p] = past.atOpen[p]
      BY <2>16, <2>17 DEF Dirty
    <3> QED BY <1>2, <2>2, <2>6, <2>7, <2>16, <3>1, <3>2 DEF Noted
  <2>19. \A p \in Ours : Fine(task, p, disk[p])'
    <3> TAKE p \in Ours
    <3>1. CASE p \notin E
      BY <1>2, <2>2, <2>17, <3>1 DEF Fine
    <3>2. CASE p \in E
      <4>1. task.points # <<>> /\ p \in DOMAIN Newest(task) /\ p \in DOMAIN task'.before
        BY <2>3, <2>6, <2>7, <3>2
      <4>2. p \in DivergedPaths => Newest(task')[p] = disk[p]
        BY <2>5, <2>11, <4>1
      <4>3. p \notin DivergedPaths => Newest(task')[p] = Newest(task)[p] /\ disk[p] = record.expected[p]
        <5>1. p \notin DivergedPaths => points[Len(points)][p] = Newest(task)[p]
          BY <2>5, <4>1
        <5>2. p \notin DivergedPaths => disk[p] = record.expected[p]
          BY <2>4, <3>2
        <5> QED BY ONLY <2>11, <5>1, <5>2
      <4>4. p \in DivergedPaths \/ Fine(task, p, disk[p])
        BY <2>17, <3>2, <4>3
      <4> QED BY <1>2, <2>2, <4>1, <4>2, <4>3, <4>4 DEF Fine
    <3> QED BY <3>1, <3>2
  <2>20. Restorable'
    BY <1>4, <2>16, <2>19 DEF Restorable
  <2>21. Adoptable' /\ RollbackExact'
    BY <2>2 DEF Adoptable, RollbackExact
  <2> QED BY <2>8, <2>9, <2>12, <2>13, <2>14, <2>15, <2>18, <2>20, <2>21 DEF IInv
<1> QED BY <1>5, <1>6

-----------------------------------------------------------------------------
(* The theorems.                                                           *)

LEMMA InitIInv == Init => IInv
<1> SUFFICES ASSUME Init PROVE IInv
  OBVIOUS
<1>1. /\ committed \in [Paths -> {Repo, Absent}] /\ disk \in [Paths -> {Repo, Absent, ByUser(0)}]
      /\ task = NoTask /\ record = NoRecord /\ snapshot = Empty /\ call = NoCall /\ scan = NoScan
      /\ turn = [runs |-> FALSE, mutated |-> FALSE] /\ user = 0 /\ calls = 0 /\ crashes = 0
      /\ past = [NewPast EXCEPT !.dirty = {}]
  BY DEF Init
<1>2. MaxCalls \in Nat /\ MaxUserSteps \in Nat /\ MaxCrashes \in Nat
  BY GuardAssumption
<1>3. call.phase = "none" /\ scan.state = "none"
  BY <1>1 DEF NoCall, NoScan
<1>4. NoTask \in TaskType(Content) /\ ~NoTask.open /\ Empty \in PartialOn(Content)
  BY NoTaskFacts, EmptyFacts
<1>5. disk \in [Paths -> Content] /\ committed \in [Paths -> Content]
  <2>1. 0 \in 0..MaxUserSteps
    BY <1>2
  <2> QED BY <1>1, <2>1, ContentFacts
<1>6. Contents(Content)
  BY <1>1, <1>4, <1>5 DEF Contents, RecordType, ScanType
<1>7. past \in PastType /\ past.closed = "no"
  BY <1>1, <1>5 DEF NewPast, PastType
<1>8. Types
  BY <1>1, <1>2, <1>6, <1>7 DEF Types, CallType
<1>9. ~task.open
  BY <1>1, <1>4
<1>10. Stages
  BY <1>1, <1>3, <1>7, <1>9 DEF Stages
<1>11. Recorded /\ Guarded /\ Intact /\ Observed /\ Noted /\ Restorable /\ Adoptable /\ RollbackExact
  BY <1>7, <1>9 DEF Recorded, Guarded, Intact, Observed, Noted, Restorable, Adoptable,
                    RollbackExact, Live
<1> QED BY <1>8, <1>10, <1>11 DEF IInv

LEMMA NextIInv == IInv /\ [Next]_vars => IInv'
<1> SUFFICES ASSUME IInv, [Next]_vars PROVE IInv'
  OBVIOUS
<1>1. CASE BeginTurn
  BY <1>1, BeginTurnStep
<1>2. ASSUME NEW tool \in Tools, NEW targets \in {{}} \cup {{p} : p \in Paths},
             StartCall(tool, targets)
      PROVE  IInv'
  BY <1>2, StartCallStep
<1>3. ASSUME NEW all \in BOOLEAN, Allow(all) PROVE IInv'
  BY <1>3, AllowStep
<1>4. CASE Deny
  BY <1>4, DenyStep
<1>5. CASE BeforeExec
  BY <1>5, BeforeExecStep
<1>6. ASSUME NEW ok \in BOOLEAN, RunTool(ok) PROVE IInv'
  BY <1>6, RunToolStep
<1>7. CASE AfterExec
  BY <1>7, AfterExecStep
<1>8. CASE Restore
  BY <1>8, RestoreStep
<1>9. CASE ScanRun
  BY <1>9, ScanRunStep
<1>10. CASE EndTurn
  BY <1>10, EndTurnStep
<1>11. CASE Barrier
  BY <1>11, BarrierStep
<1>12. CASE DiscardApprovals
  BY <1>12, DiscardStep
<1>13. CASE CheckpointNow
  BY <1>13, CheckpointNowStep
<1>14. CASE Accept
  BY <1>14, AcceptStep
<1>15. ASSUME NEW seq \in 0..MaxCalls, Rollback(seq) PROVE IInv'
  BY <1>15, RollbackStep
<1>16. ASSUME NEW p \in Paths, UserEdit(p) \/ UserCommit(p) PROVE IInv'
  BY <1>16, UserStep
<1>17. CASE Crash
  BY <1>17, CrashStep
<1>18. CASE Recover
  BY <1>18, RecoverStep
<1>19. CASE UNCHANGED vars
  <2>1. /\ disk' = disk /\ committed' = committed /\ task' = task /\ record' = record
        /\ snapshot' = snapshot /\ call' = call /\ scan' = scan /\ turn' = turn
        /\ user' = user /\ calls' = calls /\ crashes' = crashes /\ past' = past
    BY <1>19 DEF vars
  <2>2. Types' /\ Stages' /\ Recorded' /\ Guarded' /\ Intact' /\ Observed'
    BY <2>1 DEF IInv, Types, Contents, Stages, Recorded, Guarded, Intact, Observed, Live,
                Kept, Clean, Dirty
  <2>3. Noted' /\ Restorable' /\ Adoptable' /\ RollbackExact'
    BY <2>1 DEF IInv, Noted, Restorable, Adoptable, RollbackExact, Live, Ours, Fine, Pending, Dirty
  <2> QED BY <2>2, <2>3 DEF IInv
<1> QED BY <1>1, <1>2, <1>3, <1>4, <1>5, <1>6, <1>7, <1>8, <1>9, <1>10, <1>11, <1>12, <1>13,
           <1>14, <1>15, <1>16, <1>17, <1>18, <1>19 DEF Next

LEMMA Invariance == Spec => []IInv
<1>1. Init => IInv
  BY InitIInv
<1>2. IInv /\ [Next]_vars => IInv'
  BY NextIInv
<1> QED BY <1>1, <1>2, PTL DEF Spec

\* The types, and calls and scans only in a running turn of an open task.
THEOREM TypeCorrect == Spec => []TypeOK
<1>1. IInv => TypeOK
  <2> SUFFICES ASSUME IInv PROVE TypeOK
    OBVIOUS
  <2>1. Types /\ Stages
    BY DEF IInv
  <2>2. Contents(Content)
    BY <2>1 DEF Types
  <2>3. Partial = PartialOn(Content)
    BY DEF Partial, PartialOn
  <2>4. record.exists => record.expected \in Partial
    BY <2>2, <2>3, RecordFacts DEF Contents
  <2>5. /\ task.protected \subseteq Paths /\ task.approved \subseteq Paths
        /\ task.ledger \in Partial /\ task.before \in Partial
        /\ task.points \in Seq(Partial)
    BY <2>2, <2>3 DEF Contents, TaskType
  <2>6. \A i \in DOMAIN task.points : task.points[i] \in Partial
    BY <2>5
  <2> QED BY <2>1, <2>2, <2>3, <2>4, <2>5, <2>6 DEF TypeOK, Types, Stages, Contents
<1> QED BY <1>1, Invariance, PTL

\* Between calls of an open task, every file that was dirty when it opened and
\* that the user neither touched nor gave to Iris has the bytes it had, whatever
\* tools ran in between.  The files that a call had changed when a crash cut it off
\* are not covered: the snapshot was in memory.
THEOREM ProtectedRestoredTheorem == Spec => []ProtectedRestored
<1>1. IInv => ProtectedRestored
  <2> SUFFICES ASSUME IInv, task.open, call = NoCall
               PROVE  \A p \in Kept : disk[p] = past.atOpen[p]
    BY DEF ProtectedRestored, Kept
  <2>1. call.phase = "none"
    BY DEF NoCall
  <2> QED BY <2>1 DEF IInv, Intact, Live
<1> QED BY <1>1, Invariance, PTL

\* After a rollback to the pre-task baseline every file that the user left alone
\* is as it was when the task opened, whatever each command wrote, reverted and
\* committed, but for the ones a crash kept from the record (lost), a command
\* committed unnoticed (escaped) or that look edited by the user (skewed).
THEOREM RollbackExactTheorem == Spec => []RollbackExact
<1>1. IInv => RollbackExact
  BY DEF IInv
<1> QED BY <1>1, Invariance, PTL

\* A task closes as settled by the user only if the user acted, or a call ended
\* without a success, since the last observed end of a turn.
THEOREM ExternalByUserTheorem == Spec => ExternalByUser
<1> DEFINE Act == past'.closed = "external" /\ past.closed # "external" => past.acted \/ past.unseen
<1>1. IInv /\ [Next]_vars => [Act]_vars
  <2> SUFFICES ASSUME IInv, Next, past'.closed = "external", past.closed # "external"
               PROVE  past.acted \/ past.unseen
    OBVIOUS
  <2> PICK C : C = Content
    OBVIOUS
  <2>1. Contents(C) /\ past \in PastType /\ Observed
    BY DEF IInv, Types
  <2>2. CASE Barrier
    <3>1. /\ ~turn.runs /\ call.phase = "none" /\ task.open /\ past' = SyncedPast
      BY <2>2 DEF Barrier, Boundary, NoCall
    <3>2. SUFFICES ASSUME ~past.acted, ~past.unseen PROVE FALSE
      OBVIOUS
    <3>3. scan = NoScan /\ (Clean(DOMAIN task.ledger) => task.blocked)
      BY <2>1, <3>1, <3>2 DEF Observed
    <3>4. Synced.open
      BY <2>1, <3>1, <3>3, SyncedFacts
    <3> QED BY <3>1, <3>4 DEF SyncedPast
  <2>3. CASE CheckpointNow
    <3>1. Synced.open /\ past' = [SyncedPast EXCEPT !.marked = TRUE] /\ SyncedPast = past
      BY <2>3 DEF CheckpointNow, SyncedPast
    <3> QED BY <2>1, <3>1 DEF PastType
  <2>4. CASE Accept
    BY <2>1, <2>4 DEF Accept, PastType
  <2>5. ASSUME NEW seq \in 0..MaxCalls, Rollback(seq) PROVE past'.closed # "external"
    BY <2>1, <2>5 DEF Rollback, PastType
  <2>6. ASSUME NEW tool \in Tools, NEW targets \in {{}} \cup {{p} : p \in Paths},
               StartCall(tool, targets)
        PROVE  past'.closed # "external"
    BY <2>6 DEF StartCall, NewPast
  <2>7. ASSUME NEW ok \in BOOLEAN, RunTool(ok) PROVE past'.closed = past.closed
    <3>1. past' = past \/ \E e, k : past' = [past EXCEPT !.escaped = e, !.skewed = k]
      BY <2>7 DEF RunTool
    <3> QED BY <2>1, <3>1 DEF PastType
  <2>8. ASSUME NEW all \in BOOLEAN, Allow(all) PROVE past'.closed = past.closed
    BY <2>1, <2>8 DEF Allow, PastType
  <2>9. ASSUME NEW p \in Paths, UserEdit(p) \/ UserCommit(p) PROVE past'.closed = past.closed
    BY <2>1, <2>9 DEF UserEdit, UserCommit, PastType
  <2>10. CASE Crash
    BY <2>1, <2>10 DEF Crash, PastType
  <2>11. CASE Recover
    <3>1. \/ past' = [past EXCEPT !.closed = "expired"]
          \/ past' = [past EXCEPT !.closed = "no", !.dirty = @ \cap Dirty]
      BY <2>11 DEF Recover
    <3> QED BY <2>1, <3>1 DEF PastType
  <2>12. CASE EndTurn
    <3>1. past' = past \/ past' = [past EXCEPT !.acted = FALSE, !.unseen = FALSE]
      BY <2>12 DEF EndTurn
    <3> QED BY <2>1, <3>1 DEF PastType
  <2>14. CASE AfterExec
    <3>1. \E u, k : past' = [past EXCEPT !.unseen = u, !.skewed = k]
      BY <2>14 DEF AfterExec
    <3> QED BY <2>1, <3>1 DEF PastType
  <2>13. CASE BeginTurn \/ Deny \/ BeforeExec \/ Restore \/ ScanRun \/ DiscardApprovals
    BY <2>13 DEF BeginTurn, Deny, BeforeExec, Restore, ScanRun, DiscardApprovals
  <2> QED BY <2>2, <2>3, <2>4, <2>5, <2>6, <2>7, <2>8, <2>9, <2>10, <2>11, <2>12, <2>13,
             <2>14 DEF Next
<1> QED BY <1>1, Invariance, PTL DEF Spec, ExternalByUser
=============================================================================

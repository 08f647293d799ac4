---------------------------- MODULE WorkerJournal ----------------------------
(***************************************************************************)
(* The durable half of crates/iris-subagent-runtime: the JSONL journal     *)
(* (persistence.rs), the calls of runtime.rs that append to it and what    *)
(* RuntimeHandle::start rebuilds from it after a crash.                    *)
(*                                                                         *)
(* The file is the sequence of its complete lines and what follows the     *)
(* last newline.  append_many writes its records one by one under the      *)
(* lock of the file, so one append is in progress at a time; a process may *)
(* die between any two writes, and a write may be cut short.  What a       *)
(* process wrote survives it (loss of the machine's page cache is not      *)
(* modelled).                                                              *)
(***************************************************************************)
EXTENDS Integers, Sequences, FiniteSets

CONSTANTS
  Workers,         \* worker ids
  None,
  Calls,           \* calls of spawn and spawn_group, each made at most once
  Members,         \* [Calls -> Seq(Workers)]
  Grouped,         \* the calls that are spawn_group
  Policy,          \* [Workers -> {"Adoptable", "Discard", "Fail"}]: RecoveryPolicy
  Isolated,        \* workers whose isolation is a worktree
  TornWrites,      \* whether a write may be cut short
  MaxErrors,       \* bound: appends that return an error
  MaxCrashes,      \* bound: crashes of the process
  MaxEvents        \* bound: events emitted per worker

Results == {"Completed", "Failed", "Cancelled", "Interrupted", "Adoptable"}

ASSUME JournalAssumption ==
  /\ None \notin Workers \cup Results
  /\ Members \in [Calls -> Seq(Workers)]
  /\ \A c \in Calls : Members[c] # <<>>
  /\ \A c, d \in Calls : \A i \in DOMAIN Members[c], j \in DOMAIN Members[d] :
       Members[c][i] = Members[d][j] => c = d /\ i = j
  /\ Grouped \subseteq Calls /\ Isolated \subseteq Workers
  /\ Policy \in [Workers -> {"Adoptable", "Discard", "Fail"}]
  /\ TornWrites \in BOOLEAN
  /\ MaxErrors \in Nat /\ MaxCrashes \in Nat /\ MaxEvents \in Nat

VARIABLES
  file,     \* the complete lines of runtime.jsonl
  tail,     \* after them: nothing, part of the record being written, or debris
  op,       \* the append in progress, Free when the file is not locked
  pending,  \* its records still to be written
  process,  \* "down", "recovering" (in start), "up", "refused" (start failed)
  call,     \* where each call of spawn or spawn_group stands
  done,     \* how many of its appends have returned Ok
  cell,     \* the worker in memory: "absent", "open", or its result
  last,     \* last_event_sequence of the worker in memory
  groups,   \* Shared::groups, by the call that made the group
  todo,     \* recover_workers: workers without a result
  seen,     \* history: the result a caller has been shown
  crashes,  \* history: crashes so far
  errors    \* history: appends that have failed

vars == <<file, tail, op, pending, process, call, done, cell, last, groups, todo,
          seen, crashes, errors>>
memory == <<cell, last, groups, todo, seen>>
faults == <<crashes, errors>>

Free == [kind |-> "free", id |-> None, result |-> None]

\* JournalRecord, by what recover reads of it: of a Group the call that made
\* it, of an Event its sequence, of a Terminal the result and the sequences of
\* its first and last event.
GroupRecord(c) == [kind |-> "group", id |-> c, result |-> None, first |-> 0, final |-> 0]
AcceptedRecord(w) == [kind |-> "accepted", id |-> w, result |-> None, first |-> 0, final |-> 0]
EventRecord(w, n) == [kind |-> "event", id |-> w, result |-> None, first |-> n, final |-> n]
TerminalRecord(w, r, n, m) ==
  [kind |-> "terminal", id |-> w, result |-> r, first |-> n, final |-> m]

\* A complete line that is not JSON: debris and a record run together.
Garbled == [kind |-> "garbled", id |-> None, result |-> None, first |-> 0, final |-> 0]

-----------------------------------------------------------------------------
(* Journal::recover, on the complete lines only.                           *)

Readable(f) == \A i \in DOMAIN f : f[i] # Garbled

Lines(f, kind, id) == {i \in DOMAIN f : f[i].kind = kind /\ f[i].id = id}

RecoveredWorkers(f) == {w \in Workers : Lines(f, "accepted", w) # {}}

RecoveredGroups(f) == {c \in Grouped : Lines(f, "group", c) # {}}

\* Records of a worker count once it has been accepted; the last Terminal wins.
Settling(f, w) ==
  {i \in Lines(f, "terminal", w) : \E a \in Lines(f, "accepted", w) : a < i}

\* Faulty variants (names in Faulty...) are what the mutation runs put in
\* the place of the definition that follows them.
FaultyFirstResult(f, w) ==
  IF Settling(f, w) = {} THEN None
  ELSE f[CHOOSE i \in Settling(f, w) : \A j \in Settling(f, w) : i <= j].result

RecoveredResult(f, w) ==
  IF Settling(f, w) = {} THEN None
  ELSE f[CHOOSE i \in Settling(f, w) : \A j \in Settling(f, w) : j <= i].result

Sequenced(f, w) ==
  {i \in Lines(f, "event", w) \cup Lines(f, "terminal", w) :
     \E a \in Lines(f, "accepted", w) : a < i}

RecoveredLast(f, w) ==
  IF Sequenced(f, w) = {} THEN 0
  ELSE f[CHOOSE i \in Sequenced(f, w) : \A j \in Sequenced(f, w) : j <= i].final

FaultyRerun(f) == {}

FaultyInterruptAll(f) == RecoveredWorkers(f)

\* The workers recover_workers has to settle.
Unsettled(f) == {w \in RecoveredWorkers(f) : RecoveredResult(f, w) = None}

RecoveredStatus(w) ==
  IF Policy[w] = "Fail" THEN "Failed"
  ELSE IF Policy[w] = "Adoptable" /\ w \in Isolated THEN "Adoptable" ELSE "Interrupted"

-----------------------------------------------------------------------------
Init ==
  /\ file = <<>> /\ tail = "none" /\ op = Free /\ pending = <<>>
  /\ process = "down"
  /\ call = [c \in Calls |-> "idle"] /\ done = [c \in Calls |-> 0]
  /\ cell = [w \in Workers |-> "absent"] /\ last = [w \in Workers |-> 0]
  /\ groups = {} /\ todo = {}
  /\ seen = [w \in Workers |-> None]
  /\ crashes = 0 /\ errors = 0

\* The file's lock is taken for one append.
Begin(kind, id, result, records) ==
  /\ op = Free
  /\ op' = [kind |-> kind, id |-> id, result |-> result]
  /\ pending' = records

\* The appends of spawn (accept) and of spawn_group (the Group record, then
\* an accept for every member).
Appends(c) ==
  LET accept(w) == <<AcceptedRecord(w), EventRecord(w, 1)>>
      accepts == [i \in DOMAIN Members[c] |-> accept(Members[c][i])]
  IN  IF c \in Grouped THEN <<<<GroupRecord(c)>>>> \o accepts ELSE accepts

SpawnAppends(c) ==
  /\ process = "up" /\ call[c] \in {"idle", "running"}
  /\ Begin("spawn", c, None, Appends(c)[done[c] + 1])
  /\ call' = [call EXCEPT ![c] = "running"]
  /\ UNCHANGED <<file, tail, process, done, memory, faults>>

\* append_event_locked.
EmitAppends(w) ==
  /\ process = "up" /\ cell[w] = "open" /\ last[w] < MaxEvents
  /\ Begin("emit", w, None, <<EventRecord(w, last[w] + 1)>>)
  /\ UNCHANGED <<file, tail, process, call, done, memory, faults>>

FaultyFinishSequence(w, r) ==
  /\ process = "up" /\ cell[w] = "open"
  /\ Begin("finish", w, r, <<TerminalRecord(w, r, last[w], last[w] + 1)>>)
  /\ UNCHANGED <<file, tail, process, call, done, memory, faults>>

\* Shared::finish: the result is absent in memory.
FinishAppends(w, r) ==
  /\ process = "up" /\ cell[w] = "open"
  /\ Begin("finish", w, r, <<TerminalRecord(w, r, last[w] + 1, last[w] + 2)>>)
  /\ UNCHANGED <<file, tail, process, call, done, memory, faults>>

\* recover_workers, for a worker without a result.
RecoverAppends(w) ==
  /\ process = "recovering" /\ w \in todo
  /\ Begin("recover", w, RecoveredStatus(w),
           <<TerminalRecord(w, RecoveredStatus(w), last[w] + 1, last[w] + 1)>>)
  /\ UNCHANGED <<file, tail, process, call, done, memory, faults>>

\* Part of a line reaches the file.
WritePart ==
  /\ TornWrites /\ op # Free /\ pending # <<>> /\ tail = "none"
  /\ tail' = "part"
  /\ UNCHANGED <<file, op, pending, process, call, done, memory, faults>>

\* write_all of one line; behind debris it completes a line nobody can read.
WriteLine ==
  /\ op # Free /\ pending # <<>>
  /\ file' = Append(file, IF tail = "debris" THEN Garbled ELSE Head(pending))
  /\ tail' = "none"
  /\ pending' = Tail(pending)
  /\ UNCHANGED <<op, process, call, done, memory, faults>>

\* Whatever part of a line is there stays there.
Leave == tail' = IF tail = "part" THEN "debris" ELSE tail

\* A result enters memory, where poll and wait show it.
Publish(w, r, n) ==
  /\ cell' = [cell EXCEPT ![w] = r]
  /\ seen' = [seen EXCEPT ![w] = r]
  /\ last' = [last EXCEPT ![w] = n]

FaultySpawnReturnsEarly ==
  /\ op # Free /\ pending = <<>> /\ op.kind = "spawn"
  /\ done' = [done EXCEPT ![op.id] = @ + 1]
  /\ LET ids == {Members[op.id][i] : i \in DOMAIN Members[op.id]} IN
       /\ call' = [call EXCEPT ![op.id] = "ok"]
       /\ cell' = [w \in Workers |-> IF w \in ids THEN "open" ELSE cell[w]]
       /\ last' = [w \in Workers |-> IF w \in ids THEN 1 ELSE last[w]]
       /\ groups' = groups \cup ({op.id} \cap Grouped)
  /\ op' = Free
  /\ UNCHANGED <<file, tail, pending, process, todo, seen, faults>>

\* The append of spawn returns Ok; after the last one the group and the
\* workers are inserted.
SpawnAppended ==
  /\ op # Free /\ pending = <<>> /\ op.kind = "spawn"
  /\ done' = [done EXCEPT ![op.id] = @ + 1]
  /\ IF done[op.id] + 1 = Len(Appends(op.id))
     THEN LET ids == {Members[op.id][i] : i \in DOMAIN Members[op.id]} IN
            /\ call' = [call EXCEPT ![op.id] = "ok"]
            /\ cell' = [w \in Workers |-> IF w \in ids THEN "open" ELSE cell[w]]
            /\ last' = [w \in Workers |-> IF w \in ids THEN 1 ELSE last[w]]
            /\ groups' = groups \cup ({op.id} \cap Grouped)
     ELSE UNCHANGED <<call, cell, last, groups>>
  /\ op' = Free
  /\ UNCHANGED <<file, tail, pending, process, todo, seen, faults>>

EmitAppended ==
  /\ op # Free /\ pending = <<>> /\ op.kind = "emit"
  /\ last' = [last EXCEPT ![op.id] = @ + 1]
  /\ op' = Free
  /\ UNCHANGED <<file, tail, pending, process, call, done, cell, groups, todo, seen, faults>>

FinishAppended ==
  /\ op # Free /\ pending = <<>> /\ op.kind = "finish"
  /\ Publish(op.id, op.result, last[op.id] + 2)
  /\ op' = Free
  /\ UNCHANGED <<file, tail, pending, process, call, done, groups, todo, faults>>

\* start returns once every worker has a result.
RecoverAppended ==
  /\ op # Free /\ pending = <<>> /\ op.kind = "recover"
  /\ Publish(op.id, op.result, last[op.id] + 1)
  /\ todo' = todo \ {op.id}
  /\ process' = IF todo' = {} THEN "up" ELSE "recovering"
  /\ op' = Free
  /\ UNCHANGED <<file, tail, pending, call, done, groups, faults>>

Dropped == [w \in Workers |-> "absent"]

\* A writer that keeps the lines of a failed append in its buffer.
FaultyAppendFailsKeepsLines ==
  /\ op # Free /\ errors < MaxErrors
  /\ errors' = errors + 1
  /\ Leave
  /\ op' = Free
  /\ call' = IF op.kind = "spawn" THEN [call EXCEPT ![op.id] = "error"] ELSE call
  /\ IF op.kind = "recover"
     THEN process' = "down" /\ cell' = Dropped /\ groups' = {} /\ todo' = {}
     ELSE UNCHANGED <<process, cell, groups, todo>>
  /\ UNCHANGED <<file, pending, done, last, seen, crashes>>

\* The append returns an error, before a record, within one or at sync_data.
\* spawn gives up, emit and finish leave the cell as it was, start fails.
AppendFails ==
  /\ op # Free /\ errors < MaxErrors
  /\ errors' = errors + 1
  /\ Leave
  /\ op' = Free /\ pending' = <<>>
  /\ call' = IF op.kind = "spawn" THEN [call EXCEPT ![op.id] = "error"] ELSE call
  /\ IF op.kind = "recover"
     THEN process' = "down" /\ cell' = Dropped /\ groups' = {} /\ todo' = {}
     ELSE UNCHANGED <<process, cell, groups, todo>>
  /\ UNCHANGED <<file, done, last, seen, crashes>>

\* The process dies: nothing is left but the file.
Crash ==
  /\ process \in {"up", "recovering"} /\ crashes < MaxCrashes
  /\ crashes' = crashes + 1
  /\ process' = "down"
  /\ Leave
  /\ op' = Free /\ pending' = <<>>
  /\ call' = [c \in Calls |-> IF call[c] = "running" THEN "lost" ELSE call[c]]
  /\ cell' = Dropped /\ groups' = {} /\ todo' = {}
  /\ UNCHANGED <<file, done, last, seen, errors>>

\* RuntimeHandle::start: recover refuses a journal with an unreadable line;
\* results found in it are in memory again.
Start ==
  /\ process = "down"
  /\ IF Readable(file)
     THEN /\ process' = IF Unsettled(file) = {} THEN "up" ELSE "recovering"
          /\ todo' = Unsettled(file)
          /\ groups' = RecoveredGroups(file)
          /\ cell' = [w \in Workers |->
               IF RecoveredResult(file, w) # None THEN RecoveredResult(file, w) ELSE "absent"]
          /\ seen' = [w \in Workers |->
               IF RecoveredResult(file, w) # None THEN RecoveredResult(file, w) ELSE seen[w]]
          /\ last' = [w \in Workers |-> RecoveredLast(file, w)]
     ELSE process' = "refused" /\ UNCHANGED memory
  /\ UNCHANGED <<file, tail, op, pending, call, done, faults>>

Next ==
  \/ Start \/ Crash \/ AppendFails \/ WritePart \/ WriteLine
  \/ SpawnAppended \/ EmitAppended \/ FinishAppended \/ RecoverAppended
  \/ \E c \in Calls : SpawnAppends(c)
  \/ \E w \in Workers : \/ EmitAppends(w) \/ RecoverAppends(w)
                        \/ \E r \in {"Completed", "Failed", "Cancelled"} : FinishAppends(w, r)

Spec == Init /\ [][Next]_vars

-----------------------------------------------------------------------------
(* Properties.                                                             *)

TypeOK ==
  /\ \A i \in DOMAIN file : file[i].kind \in {"group", "accepted", "event", "terminal", "garbled"}
  /\ tail \in {"none", "part", "debris"}
  /\ op = Free => pending = <<>>
  /\ process \in {"down", "recovering", "up", "refused"}
  /\ call \in [Calls -> {"idle", "running", "ok", "error", "lost"}]
  /\ \A c \in Calls : done[c] \in 0..Len(Appends(c))
  /\ cell \in [Workers -> {"absent", "open"} \cup Results]
  /\ last \in [Workers -> Nat]
  /\ groups \subseteq Grouped /\ todo \subseteq Workers
  /\ seen \in [Workers -> Results \cup {None}]
  /\ crashes \in 0..MaxCrashes /\ errors \in 0..MaxErrors

\* README: "Results are retained for repeated waits": the result a caller was
\* shown is the one the journal gives back, whatever was appended after it
\* and wherever the process died, while the journal can be read at all.
ResultDurable ==
  Readable(file) => \A w \in Workers : seen[w] # None => RecoveredResult(file, w) = seen[w]

\* A caller is never shown two different results of one worker, not even by
\* two processes with a crash in between.
ResultFinal ==
  [][\A w \in Workers : seen[w] # None => seen'[w] = seen[w]]_vars

\* "spawn() durably accepts and queues work before it returns" (ADR-0063):
\* workers and groups of a call that returned are in the journal, and every
\* worker in memory is, while the journal can be read at all.
AcceptedDurable ==
  Readable(file) =>
  /\ \A c \in Calls : call[c] = "ok" =>
       /\ \A i \in DOMAIN Members[c] : Members[c][i] \in RecoveredWorkers(file)
       /\ c \in Grouped => c \in RecoveredGroups(file)
  /\ \A w \in Workers : cell[w] # "absent" => w \in RecoveredWorkers(file)

\* recover_workers reruns nothing: once start has returned, no worker of an
\* earlier process is left without a result.
RecoveredSettled ==
  process = "up" =>
    \A w \in RecoveredWorkers(file) :
      \/ cell[w] # "absent"
      \/ \E c \in Calls : /\ call[c] \in {"running", "error"}
                          /\ \E i \in DOMAIN Members[c] : Members[c][i] = w

\* WorkerEvent::sequence: "Monotonic sequence within this worker" (model.rs),
\* in what recover reads, as long as no append has reported an error: an
\* append may fail with its line in the file, and the next event repeats
\* its sequence.
SequenceIncreases ==
  errors = 0 => \A w \in Workers : \A i, j \in Sequenced(file, w) :
    i < j => file[i].final < file[j].first

\* Test partial_last_line_is_ignored: part of a last line does not make the
\* journal unreadable.
PartialLineIgnored == process # "refused"
=============================================================================

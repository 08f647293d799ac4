------------------------- MODULE WorkerJournalProofs -------------------------
(* Theorems about WorkerJournal, for any number of workers, calls, events, *)
(* crashes and failed appends.                                             *)
EXTENDS WorkerJournal, TLAPS, FiniteSetTheorems, SequenceTheorems

-----------------------------------------------------------------------------
(* The inductive invariant.                                                *)

Kinds == {"group", "accepted", "event", "terminal", "garbled"}
Line == {x \in [kind : Kinds, id : Workers \cup Calls \cup {None}, result : Results \cup {None},
                first : Nat, final : Nat] :
           /\ x.kind = "terminal" => x.result \in Results
           /\ x.first <= x.final}

Locks == {Free} \cup [kind : {"spawn"}, id : Calls, result : {None}]
         \cup [kind : {"emit"}, id : Workers, result : {None}]
         \cup [kind : {"finish", "recover"}, id : Workers, result : Results]

Types ==
  /\ file \in Seq(Line) /\ pending \in Seq(Line) /\ op \in Locks
  /\ tail \in {"none", "part", "debris"}
  /\ process \in {"down", "recovering", "up", "refused"}
  /\ call \in [Calls -> {"idle", "running", "ok", "error", "lost"}]
  /\ done \in [Calls -> Nat]
  /\ cell \in [Workers -> {"absent", "open"} \cup Results]
  /\ last \in [Workers -> Nat]
  /\ groups \subseteq Grouped /\ todo \subseteq Workers
  /\ seen \in [Workers -> Results \cup {None}]
  /\ crashes \in 0..MaxCrashes /\ errors \in 0..MaxErrors

Member(c, w) == \E i \in DOMAIN Members[c] : Members[c][i] = w

\* Which append of call c accepts its i-th member, and what it writes.
Position(c, i) == IF c \in Grouped THEN i + 1 ELSE i
Acceptance(w) == <<AcceptedRecord(w), EventRecord(w, 1)>>

\* An append belongs to a call or a worker in the right stage.
Stages ==
  /\ op.kind \in {"spawn", "emit", "finish"} => process = "up"
  /\ op.kind = "recover" => process = "recovering" /\ op.id \in todo
  /\ op.kind \in {"emit", "finish"} => cell[op.id] = "open"
  /\ op.kind = "spawn" => call[op.id] = "running"
  /\ process # "recovering" => todo = {}
  /\ \A c \in Calls :
       /\ done[c] <= Len(Appends(c))
       /\ call[c] = "idle" => done[c] = 0
       /\ call[c] = "running" => process = "up" /\ done[c] < Len(Appends(c))
       /\ call[c] = "ok" => done[c] = Len(Appends(c))
  /\ \A w \in Workers : cell[w] = "open" => \E c \in Calls : call[c] = "ok" /\ Member(c, w)

\* What an append has still to write is the end of what it was given.
Writes ==
  /\ op = Free => pending = <<>>
  /\ op.kind = "spawn" => \/ pending = <<>>
                          \/ pending = Appends(op.id)[done[op.id] + 1]
                          \/ pending = Tail(Appends(op.id)[done[op.id] + 1])
  /\ op.kind = "emit" => pending \in {<<>>, <<EventRecord(op.id, last[op.id] + 1)>>}
  /\ op.kind = "finish" =>
       pending \in {<<>>, <<TerminalRecord(op.id, op.result, last[op.id] + 1, last[op.id] + 2)>>}
  /\ op.kind = "recover" =>
       pending \in {<<>>, <<TerminalRecord(op.id, op.result, last[op.id] + 1, last[op.id] + 1)>>}

\* The i-th member of call c is being accepted, and the first line is written.
Underway(c, i) ==
  /\ op.kind = "spawn" /\ op.id = c /\ Position(c, i) = done[c] + 1
  /\ pending # Acceptance(Members[c][i])

\* A worker is not in the journal before its turn in its call.
Unsent ==
  \A c \in Calls : call[c] \in {"idle", "running"} =>
    \A i \in DOMAIN Members[c] :
      Position(c, i) > done[c] /\ ~Underway(c, i) =>
        Members[c][i] \notin RecoveredWorkers(file)

\* What a call has appended is in the journal, if that can be read.
Saved ==
  /\ todo \subseteq RecoveredWorkers(file)
  /\ Readable(file) =>
       /\ \A c \in Calls :
            /\ \A i \in DOMAIN Members[c] :
                 Position(c, i) <= done[c] \/ Underway(c, i) =>
                   Members[c][i] \in RecoveredWorkers(file)
            /\ c \in Grouped =>
                 (done[c] >= 1 \/ (op.kind = "spawn" /\ op.id = c /\ pending = <<>>) =>
                    c \in RecoveredGroups(file))
       /\ \A w \in Workers : cell[w] # "absent" => w \in RecoveredWorkers(file)

\* Nobody has been shown a result of a worker that may still get one.
Shown ==
  /\ ResultDurable
  /\ Readable(file) /\ op.kind \in {"finish", "recover"} /\ pending = <<>> =>
       RecoveredResult(file, op.id) = op.result
  /\ \A w \in Workers : cell[w] = "open" \/ w \in todo => seen[w] = None
  /\ \A c \in Calls : call[c] \in {"idle", "running"} =>
       \A w \in Workers : Member(c, w) => seen[w] = None

\* start settles what it found.
Settled ==
  /\ RecoveredSettled
  /\ process = "recovering" =>
       \A w \in RecoveredWorkers(file) : cell[w] # "absent" \/ w \in todo

\* The highest sequence the journal may hold for a worker.
Top(w) ==
  IF \E c \in Calls : call[c] = "running" /\ Member(c, w) THEN 1
  ELSE IF op.kind \in {"emit", "finish", "recover"} /\ op.id = w /\ pending = <<>>
       THEN last[w] + (IF op.kind = "finish" THEN 2 ELSE 1)
       ELSE last[w]

\* last_event_sequence has not fallen behind, and the first event comes first.
Numbered ==
  errors = 0 =>
    /\ SequenceIncreases
    /\ process \in {"up", "recovering"} =>
         \A w \in Workers : \A i \in Sequenced(file, w) : file[i].final <= Top(w)
    /\ \A c \in Calls : \A i \in DOMAIN Members[c] :
         Underway(c, i) /\ pending # <<>> => Sequenced(file, Members[c][i]) = {}

IInv == Types /\ Stages /\ Writes /\ Unsent /\ Saved /\ Shown /\ Settled /\ Numbered

-----------------------------------------------------------------------------
(* Lines, and what recover makes of one more of them.                      *)

\* A non-empty set of line numbers has a last one.
LEMMA LastOf ==
  ASSUME NEW n \in Nat, NEW S \in SUBSET (1 .. n), S # {}
  PROVE  \E i \in S : \A j \in S : j <= i
<1> DEFINE D == 1 .. n
           HasLast(X) == \E x \in X : \A y \in X : y <= x
           Bad == {X \in SUBSET D : X # {} /\ ~HasLast(X)}
<1>1. IsFiniteSet(D) /\ \A y \in D : y \in Nat
  BY FS_Interval
<1> HIDE DEF D
<1>2. Bad = {}
  <2> SUFFICES ASSUME Bad # {} PROVE FALSE
    OBVIOUS
  <2>1. Bad \subseteq FiniteSubsetsOf(D)
    BY <1>1, FS_FiniteSubsetsOfFinite
  <2> HIDE DEF Bad
  <2>2. \E X \in Bad : \A Y \in Bad : ~(<<Y, X>> \in StrictSubsetOrdering(D))
    BY <2>1, FS_StrictSubsetOrderingWellFounded, WFMin
  <2>3. PICK X \in Bad : \A Y \in Bad : ~(<<Y, X>> \in StrictSubsetOrdering(D))
    BY <2>2
  <2>4. X \in SUBSET D /\ X # {} /\ ~HasLast(X)
    BY DEF Bad
  <2>5. PICK x : x \in X
    BY <2>4
  <2>6. X \ {x} \notin Bad
    BY <2>3, <2>4, <2>5 DEF StrictSubsetOrdering
  <2>7. \A y \in X : y \in Nat
    BY <1>1, <2>4
  <2>8. CASE X \ {x} = {}
    <3>1. X = {x} /\ x <= x
      BY <2>5, <2>7, <2>8
    <3> QED BY <2>4, <3>1
  <2>9. CASE HasLast(X \ {x})
    <3>1. PICK b \in X \ {x} : \A y \in X \ {x} : y <= b
      BY <2>9
    <3>2. CASE x <= b
      BY <2>4, <2>7, <3>1, <3>2
    <3>3. CASE ~(x <= b)
      <4>1. \A y \in X : y <= x
        BY <2>5, <2>7, <3>1, <3>3
      <4> QED BY <2>4, <2>5, <4>1
    <3> QED BY <3>2, <3>3
  <2> QED BY <2>4, <2>6, <2>8, <2>9 DEF Bad
<1> QED BY <1>2 DEF D

\* The last line of a set of lines, as CHOOSE finds it.
LEMMA ChosenLast ==
  ASSUME NEW f \in Seq(Line), NEW S \in SUBSET DOMAIN f, S # {}
  PROVE  LET i == CHOOSE x \in S : \A j \in S : j <= x
         IN  i \in S /\ \A j \in S : j <= i
<1>1. Len(f) \in Nat /\ DOMAIN f = 1 .. Len(f)
  BY LenProperties
<1>2. \E i \in S : \A j \in S : j <= i
  BY <1>1, LastOf
<1> QED BY <1>2

LEMMA ScannedLines ==
  ASSUME NEW f, NEW w
  PROVE  /\ Settling(f, w) \subseteq DOMAIN f /\ Sequenced(f, w) \subseteq DOMAIN f
         /\ \A i \in Settling(f, w) : f[i].kind = "terminal"
BY DEF Settling, Sequenced, Lines

LEMMA ResultType ==
  ASSUME NEW f \in Seq(Line), NEW w \in Workers
  PROVE  /\ RecoveredResult(f, w) \in Results \cup {None}
         /\ RecoveredResult(f, w) # None => w \in RecoveredWorkers(f)
         /\ RecoveredLast(f, w) \in Nat
<1>1. ASSUME Settling(f, w) # {}
      PROVE  RecoveredResult(f, w) \in Results /\ w \in RecoveredWorkers(f)
  <2> DEFINE i == CHOOSE x \in Settling(f, w) : \A j \in Settling(f, w) : j <= x
  <2>1. i \in Settling(f, w)
    BY <1>1, ChosenLast, ScannedLines
  <2> HIDE DEF i
  <2>2. i \in DOMAIN f /\ f[i].kind = "terminal"
    BY <2>1, ScannedLines
  <2>3. f[i] \in Line
    BY <2>2, ElementOfSeq, LenProperties
  <2>4. RecoveredResult(f, w) = f[i].result
    BY <1>1 DEF RecoveredResult, i
  <2>5. RecoveredResult(f, w) \in Results
    BY <2>2, <2>3, <2>4 DEF Line
  <2>6. w \in RecoveredWorkers(f)
    BY <2>1 DEF Settling, RecoveredWorkers
  <2> QED BY <2>5, <2>6
<1>2. Settling(f, w) = {} => RecoveredResult(f, w) = None
  BY DEF RecoveredResult
<1>3. RecoveredLast(f, w) \in Nat
  <2>1. CASE Sequenced(f, w) # {}
    <3> DEFINE i == CHOOSE x \in Sequenced(f, w) : \A j \in Sequenced(f, w) : j <= x
    <3>1. i \in DOMAIN f
      BY <2>1, ChosenLast, ScannedLines
    <3> HIDE DEF i
    <3>2. f[i] \in Line
      BY <3>1, ElementOfSeq, LenProperties
    <3>3. RecoveredLast(f, w) = f[i].final
      BY <2>1 DEF RecoveredLast, i
    <3> QED BY <3>2, <3>3 DEF Line
  <2>2. CASE Sequenced(f, w) = {}
    BY <2>2 DEF RecoveredLast
  <2> QED BY <2>1, <2>2
<1> QED BY <1>1, <1>2, <1>3

\* One more line.
LEMMA OneMore ==
  ASSUME NEW f \in Seq(Line), NEW x \in Line
  PROVE  LET g == Append(f, x)
             n == Len(f)
         IN  /\ g \in Seq(Line) /\ n \in Nat
             /\ DOMAIN g = DOMAIN f \cup {n + 1} /\ DOMAIN f = 1 .. n
             /\ g[n + 1] = x /\ \A i \in DOMAIN f : g[i] = f[i]
BY AppendProperties, LenProperties

LEMMA MoreLines ==
  ASSUME NEW f \in Seq(Line), NEW x \in Line, NEW k, NEW id
  PROVE  Lines(Append(f, x), k, id) =
           Lines(f, k, id) \cup (IF x.kind = k /\ x.id = id THEN {Len(f) + 1} ELSE {})
<1> DEFINE g == Append(f, x)
           n == Len(f)
<1>1. /\ DOMAIN g = DOMAIN f \cup {n + 1} /\ g[n + 1] = x /\ n + 1 \notin DOMAIN f
      /\ \A i \in DOMAIN f : g[i] = f[i]
  BY OneMore
<1> HIDE DEF g, n
<1>2. Lines(g, k, id) = Lines(f, k, id) \cup (IF x.kind = k /\ x.id = id THEN {n + 1} ELSE {})
  BY <1>1 DEF Lines
<1> QED BY <1>2 DEF g, n

LEMMA MoreKnown ==
  ASSUME NEW f \in Seq(Line), NEW x \in Line
  PROVE  /\ RecoveredWorkers(Append(f, x)) =
              RecoveredWorkers(f) \cup {w \in Workers : x.kind = "accepted" /\ x.id = w}
         /\ RecoveredGroups(Append(f, x)) =
              RecoveredGroups(f) \cup {c \in Grouped : x.kind = "group" /\ x.id = c}
         /\ Readable(Append(f, x)) <=> Readable(f) /\ x # Garbled
<1>1. ASSUME NEW k, NEW id
      PROVE  Lines(Append(f, x), k, id) # {} <=> Lines(f, k, id) # {} \/ (x.kind = k /\ x.id = id)
  <2>1. CASE x.kind = k /\ x.id = id
    <3>1. Lines(Append(f, x), k, id) = Lines(f, k, id) \cup {Len(f) + 1}
      BY <2>1, MoreLines
    <3>2. Len(f) + 1 \in Lines(Append(f, x), k, id)
      BY <3>1
    <3> QED BY <2>1, <3>2
  <2>2. CASE ~(x.kind = k /\ x.id = id)
    <3> DEFINE new == IF x.kind = k /\ x.id = id THEN {Len(f) + 1} ELSE {}
    <3>1. Lines(Append(f, x), k, id) = Lines(f, k, id) \cup new /\ new = {}
      BY <2>2, MoreLines
    <3> HIDE DEF new
    <3> QED BY <2>2, <3>1
  <2> QED BY <2>1, <2>2
<1>2. RecoveredWorkers(Append(f, x)) =
        RecoveredWorkers(f) \cup {w \in Workers : x.kind = "accepted" /\ x.id = w}
  BY <1>1 DEF RecoveredWorkers
<1>3. RecoveredGroups(Append(f, x)) =
        RecoveredGroups(f) \cup {c \in Grouped : x.kind = "group" /\ x.id = c}
  BY <1>1 DEF RecoveredGroups
<1>4. Readable(Append(f, x)) <=> Readable(f) /\ x # Garbled
  BY OneMore DEF Readable
<1> QED BY <1>2, <1>3, <1>4

\* A line counts for a worker that an earlier line accepts.
LEMMA MoreScanned ==
  ASSUME NEW f \in Seq(Line), NEW x \in Line, NEW w \in Workers
  PROVE  /\ Settling(Append(f, x), w) =
              Settling(f, w) \cup
                (IF x.kind = "terminal" /\ x.id = w /\ w \in RecoveredWorkers(f)
                 THEN {Len(f) + 1} ELSE {})
         /\ Sequenced(Append(f, x), w) =
              Sequenced(f, w) \cup
                (IF x.kind \in {"event", "terminal"} /\ x.id = w /\ w \in RecoveredWorkers(f)
                 THEN {Len(f) + 1} ELSE {})
<1> DEFINE g == Append(f, x)
           n == Len(f)
           A == Lines(f, "accepted", w)
           B == Lines(g, "accepted", w)
<1>1. \A k : Lines(g, k, w) =
               Lines(f, k, w) \cup (IF x.kind = k /\ x.id = w THEN {n + 1} ELSE {})
  BY MoreLines
<1>2. n \in Nat /\ DOMAIN f = 1 .. n
  BY LenProperties
<1>3. \A k : Lines(f, k, w) \subseteq 1 .. n
  BY <1>2 DEF Lines
<1> HIDE DEF g, n
<1>4. \A i \in 1 .. n : (\E a \in B : a < i) <=> (\E a \in A : a < i)
  BY <1>1, <1>2
<1>5. (\E a \in B : a < n + 1) <=> w \in RecoveredWorkers(f)
  BY <1>1, <1>2, <1>3 DEF RecoveredWorkers
<1> HIDE DEF A, B
<1>6. Settling(g, w) =
        Settling(f, w) \cup
          (IF x.kind = "terminal" /\ x.id = w /\ w \in RecoveredWorkers(f) THEN {n + 1} ELSE {})
  <2>1. /\ Settling(g, w) = {i \in Lines(g, "terminal", w) : \E a \in B : a < i}
        /\ Settling(f, w) = {i \in Lines(f, "terminal", w) : \E a \in A : a < i}
    BY DEF Settling, A, B
  <2> QED BY <1>1, <1>3, <1>4, <1>5, <2>1
<1>7. Sequenced(g, w) =
        Sequenced(f, w) \cup
          (IF x.kind \in {"event", "terminal"} /\ x.id = w /\ w \in RecoveredWorkers(f)
           THEN {n + 1} ELSE {})
  <2>1. /\ Sequenced(g, w) =
             {i \in Lines(g, "event", w) \cup Lines(g, "terminal", w) : \E a \in B : a < i}
        /\ Sequenced(f, w) =
             {i \in Lines(f, "event", w) \cup Lines(f, "terminal", w) : \E a \in A : a < i}
    BY DEF Sequenced, A, B
  <2> QED BY <1>1, <1>3, <1>4, <1>5, <2>1
<1> QED BY <1>6, <1>7 DEF g, n

\* The last Terminal wins.
LEMMA MoreResult ==
  ASSUME NEW f \in Seq(Line), NEW x \in Line, NEW w \in Workers
  PROVE  RecoveredResult(Append(f, x), w) =
           IF x.kind = "terminal" /\ x.id = w /\ w \in RecoveredWorkers(f)
           THEN x.result ELSE RecoveredResult(f, w)
<1> DEFINE g == Append(f, x)
           n == Len(f)
           S == Settling(f, w)
           T == Settling(g, w)
<1>1. /\ g \in Seq(Line) /\ n \in Nat /\ DOMAIN f = 1 .. n /\ DOMAIN g = DOMAIN f \cup {n + 1}
      /\ g[n + 1] = x /\ \A i \in DOMAIN f : g[i] = f[i]
  BY OneMore
<1>2. S \subseteq DOMAIN f /\ T \subseteq DOMAIN g
  BY ScannedLines
<1>3. T = S \cup (IF x.kind = "terminal" /\ x.id = w /\ w \in RecoveredWorkers(f)
                  THEN {n + 1} ELSE {})
  BY MoreScanned
<1>4. /\ RecoveredResult(g, w) = IF T = {} THEN None
                                 ELSE g[CHOOSE i \in T : \A j \in T : j <= i].result
      /\ RecoveredResult(f, w) = IF S = {} THEN None
                                 ELSE f[CHOOSE i \in S : \A j \in S : j <= i].result
  BY DEF RecoveredResult
<1> HIDE DEF g, n, S, T
<1>5. CASE x.kind = "terminal" /\ x.id = w /\ w \in RecoveredWorkers(f)
  <2> DEFINE i == CHOOSE y \in T : \A j \in T : j <= y
  <2>1. n + 1 \in T
    BY <1>3, <1>5
  <2>2. i \in T /\ \A j \in T : j <= i
    BY <1>1, <1>2, <2>1, ChosenLast
  <2>3. RecoveredResult(g, w) = g[i].result
    BY <1>4, <2>1
  <2> HIDE DEF i
  <2>4. i = n + 1
    BY <1>1, <1>2, <2>1, <2>2
  <2> QED BY <1>1, <1>5, <2>3, <2>4 DEF g
<1>6. CASE ~(x.kind = "terminal" /\ x.id = w /\ w \in RecoveredWorkers(f))
  <2>1. T = S
    BY <1>3, <1>6
  <2>2. CASE S = {}
    BY <1>4, <1>6, <2>1, <2>2 DEF g
  <2>3. CASE S # {}
    <3> DEFINE i == CHOOSE y \in S : \A j \in S : j <= y
    <3>1. i \in DOMAIN f
      BY <1>2, <2>3, ChosenLast
    <3>2. RecoveredResult(g, w) = g[i].result /\ RecoveredResult(f, w) = f[i].result
      BY <1>4, <2>1, <2>3
    <3> HIDE DEF i
    <3> QED BY <1>1, <1>6, <3>1, <3>2 DEF g
  <2> QED BY <2>2, <2>3
<1> QED BY <1>5, <1>6

-----------------------------------------------------------------------------
(* What the calls append.                                                  *)

LEMMA RecordTypes ==
  /\ \A c \in Calls : GroupRecord(c) \in Line
  /\ \A w \in Workers : AcceptedRecord(w) \in Line /\ Acceptance(w) \in Seq(Line)
  /\ \A w \in Workers, n \in Nat : EventRecord(w, n) \in Line
  /\ \A w \in Workers, r \in Results, n, m \in Nat :
       n <= m => TerminalRecord(w, r, n, m) \in Line
  /\ Garbled \in Line
<1>1. /\ \A c \in Calls : GroupRecord(c) \in Line
      /\ \A w \in Workers : AcceptedRecord(w) \in Line
      /\ \A w \in Workers, n \in Nat : EventRecord(w, n) \in Line
      /\ \A w \in Workers, r \in Results, n, m \in Nat :
           n <= m => TerminalRecord(w, r, n, m) \in Line
      /\ Garbled \in Line
  BY DEF Line, Kinds, GroupRecord, AcceptedRecord, EventRecord, TerminalRecord, Garbled
<1>2. \A w \in Workers : Acceptance(w) \in Seq(Line)
  BY <1>1 DEF Acceptance
<1> QED BY <1>1, <1>2

LEMMA MembersOf ==
  ASSUME NEW c \in Calls
  PROVE  /\ Len(Members[c]) \in Nat \ {0} /\ DOMAIN Members[c] = 1 .. Len(Members[c])
         /\ \A i \in DOMAIN Members[c] : Members[c][i] \in Workers
<1>1. Members[c] \in Seq(Workers) /\ Members[c] # <<>>
  BY JournalAssumption
<1>2. Len(Members[c]) \in Nat \ {0} /\ DOMAIN Members[c] = 1 .. Len(Members[c])
  BY <1>1, EmptySeq, LenProperties
<1>3. \A i \in DOMAIN Members[c] : Members[c][i] \in Workers
  BY <1>1, <1>2, ElementOfSeq
<1> QED BY <1>2, <1>3

\* A worker belongs to one place of one call.
LEMMA OneCall ==
  ASSUME NEW c \in Calls, NEW d \in Calls, NEW i \in DOMAIN Members[c],
         NEW j \in DOMAIN Members[d], Members[c][i] = Members[d][j]
  PROVE  c = d /\ i = j
BY JournalAssumption

LEMMA AppendsShape ==
  ASSUME NEW c \in Calls
  PROVE  /\ Len(Appends(c)) \in Nat \ {0}
         /\ c \in Grouped => Appends(c)[1] = <<GroupRecord(c)>>
         /\ \A i \in DOMAIN Members[c] :
              /\ Position(c, i) \in 1 .. Len(Appends(c))
              /\ Appends(c)[Position(c, i)] = Acceptance(Members[c][i])
         /\ \A j \in 1 .. Len(Appends(c)) :
              \/ c \in Grouped /\ j = 1
              \/ \E i \in DOMAIN Members[c] : j = Position(c, i)
<1> DEFINE n == Len(Members[c])
           accepts == [i \in DOMAIN Members[c] |-> Acceptance(Members[c][i])]
<1>1. /\ n \in Nat \ {0} /\ DOMAIN Members[c] = 1 .. n
      /\ \A i \in 1 .. n : Members[c][i] \in Workers
  BY MembersOf
<1>2. /\ accepts \in Seq(Seq(Line)) /\ Len(accepts) = n
      /\ \A i \in 1 .. n : accepts[i] = Acceptance(Members[c][i])
  <2>1. accepts \in [1 .. n -> Seq(Line)]
    BY <1>1, RecordTypes
  <2>2. accepts \in Seq(Seq(Line))
    BY <1>1, <2>1, SeqDef
  <2>3. DOMAIN accepts = 1 .. n /\ DOMAIN accepts = 1 .. Len(accepts) /\ Len(accepts) \in Nat
    BY <2>1, <2>2, LenProperties
  <2>4. Len(accepts) = n
    BY <1>1, <2>3
  <2> QED BY <1>1, <2>2, <2>4
<1>3. Appends(c) = IF c \in Grouped THEN <<<<GroupRecord(c)>>>> \o accepts ELSE accepts
  BY DEF Appends, Acceptance
<1> HIDE DEF n, accepts
<1>4. CASE c \notin Grouped
  <2>1. Appends(c) = accepts /\ \A i \in DOMAIN Members[c] : Position(c, i) = i
    BY <1>3, <1>4 DEF Position
  <2> QED BY <1>1, <1>2, <1>4, <2>1
<1>5. CASE c \in Grouped
  <2> DEFINE head == <<<<GroupRecord(c)>>>>
  <2>1. head \in Seq(Seq(Line)) /\ Len(head) = 1 /\ head[1] = <<GroupRecord(c)>>
    BY RecordTypes
  <2> HIDE DEF head
  <2>2. /\ Len(head \o accepts) = 1 + n
        /\ \A i \in 1 .. 1 + n : (head \o accepts)[i] = IF i <= 1 THEN head[i] ELSE accepts[i - 1]
    <3>1. /\ Len(head \o accepts) = Len(head) + Len(accepts)
          /\ \A i \in 1 .. Len(head) + Len(accepts) :
               (head \o accepts)[i] = IF i <= Len(head) THEN head[i] ELSE accepts[i - Len(head)]
      BY <1>2, <2>1, ConcatProperties
    <3> QED BY <1>2, <2>1, <3>1
  <2>3. Appends(c) = head \o accepts /\ \A i \in DOMAIN Members[c] : Position(c, i) = i + 1
    BY <1>3, <1>5 DEF Position, head
  <2>4. Len(Appends(c)) = 1 + n /\ Appends(c)[1] = <<GroupRecord(c)>>
    BY <1>1, <2>1, <2>2, <2>3
  <2>5. ASSUME NEW i \in 1 .. n
        PROVE  i + 1 \in 1 .. 1 + n /\ Appends(c)[i + 1] = Acceptance(Members[c][i])
    <3>1. i + 1 \in 1 .. 1 + n /\ ~(i + 1 <= 1) /\ (i + 1) - 1 = i
      BY <1>1
    <3>2. (head \o accepts)[i + 1] = accepts[i]
      BY <2>2, <3>1
    <3> QED BY <1>2, <2>3, <3>1, <3>2
  <2>6. ASSUME NEW j \in 1 .. 1 + n, j # 1
        PROVE  j - 1 \in 1 .. n /\ j = (j - 1) + 1
    BY <1>1, <2>6
  <2>7. \A j \in 1 .. Len(Appends(c)) : j = 1 \/ \E i \in DOMAIN Members[c] : j = Position(c, i)
    <3> SUFFICES ASSUME NEW j \in 1 .. Len(Appends(c)), j # 1
                 PROVE  \E i \in DOMAIN Members[c] : j = Position(c, i)
      OBVIOUS
    <3>1. j - 1 \in DOMAIN Members[c] /\ j = (j - 1) + 1
      BY <1>1, <2>4, <2>6
    <3> QED BY <2>3, <3>1
  <2>8. Len(Appends(c)) \in Nat \ {0}
    BY <1>1, <2>4
  <2>9. \A i \in DOMAIN Members[c] : /\ Position(c, i) \in 1 .. Len(Appends(c))
                                     /\ Appends(c)[Position(c, i)] = Acceptance(Members[c][i])
    BY <1>1, <2>3, <2>4, <2>5
  <2> QED BY <1>5, <2>4, <2>7, <2>8, <2>9
<1> QED BY <1>4, <1>5

\* The records of one append of a call.
LEMMA CallWrites ==
  ASSUME Types, Stages, Writes, op.kind = "spawn"
  PROVE  LET c == op.id IN
         \/ pending = <<>>
         \/ c \in Grouped /\ done[c] = 0 /\ pending = <<GroupRecord(c)>>
         \/ \E i \in DOMAIN Members[c] :
              /\ Position(c, i) = done[c] + 1
              /\ \/ pending = Acceptance(Members[c][i])
                 \/ pending = <<EventRecord(Members[c][i], 1)>>
<1>1. PICK c \in Calls : c = op.id /\ call[c] = "running"
  BY DEF Types, Locks, Free, Stages
<1>2. done[c] \in Nat /\ done[c] < Len(Appends(c)) /\ Len(Appends(c)) \in Nat
  BY <1>1, AppendsShape DEF Types, Stages
<1>3. done[c] + 1 \in 1 .. Len(Appends(c))
  BY <1>2
<1> DEFINE A == Appends(c)[done[c] + 1]
<1>4. pending = <<>> \/ pending = A \/ pending = Tail(A)
  BY <1>1 DEF Writes
<1>5. CASE c \in Grouped /\ done[c] + 1 = 1
  <2>1. A = <<GroupRecord(c)>> /\ done[c] = 0
    BY <1>2, <1>5, AppendsShape
  <2>2. Tail(A) = <<>>
    BY <2>1
  <2> QED BY <1>1, <1>4, <1>5, <2>1, <2>2
<1>6. CASE \E i \in DOMAIN Members[c] : done[c] + 1 = Position(c, i)
  <2>1. PICK i \in DOMAIN Members[c] : Position(c, i) = done[c] + 1
    BY <1>6
  <2>2. A = Acceptance(Members[c][i])
    BY <2>1, AppendsShape
  <2>3. Tail(A) = <<EventRecord(Members[c][i], 1)>>
    BY <2>2 DEF Acceptance
  <2> QED BY <1>1, <1>4, <2>1, <2>2, <2>3
<1> QED BY <1>3, <1>5, <1>6, AppendsShape

\* The append of a call at the i-th member of op.id.
AtMember(i) == /\ op.kind = "spawn" /\ op.id \in Calls /\ i \in DOMAIN Members[op.id]
               /\ Position(op.id, i) = done[op.id] + 1

\* The next record to be written, by the append it is of.
NextRecord ==
  \/ /\ op.kind = "spawn" /\ op.id \in Grouped /\ done[op.id] = 0
     /\ Head(pending) = GroupRecord(op.id) /\ Tail(pending) = <<>>
  \/ \E i : /\ AtMember(i) /\ pending = Acceptance(Members[op.id][i])
            /\ Head(pending) = AcceptedRecord(Members[op.id][i])
            /\ Tail(pending) = <<EventRecord(Members[op.id][i], 1)>>
  \/ \E i : /\ AtMember(i)
            /\ Head(pending) = EventRecord(Members[op.id][i], 1) /\ Tail(pending) = <<>>
            /\ pending = <<EventRecord(Members[op.id][i], 1)>>
  \/ /\ op.kind = "emit" /\ op.id \in Workers
     /\ Head(pending) = EventRecord(op.id, last[op.id] + 1) /\ Tail(pending) = <<>>
  \/ /\ op.kind = "finish" /\ op.id \in Workers /\ op.result \in Results
     /\ Head(pending) = TerminalRecord(op.id, op.result, last[op.id] + 1, last[op.id] + 2)
     /\ Tail(pending) = <<>>
  \/ /\ op.kind = "recover" /\ op.id \in Workers /\ op.result \in Results
     /\ Head(pending) = TerminalRecord(op.id, op.result, last[op.id] + 1, last[op.id] + 1)
     /\ Tail(pending) = <<>>

LEMMA LockShapes ==
  ASSUME Types
  PROVE  /\ op.kind \in {"free", "spawn", "emit", "finish", "recover"}
         /\ op.kind = "free" => op = Free
         /\ op = Free => op.kind = "free"
         /\ op.kind = "spawn" => op.id \in Calls
         /\ op.kind \in {"emit", "finish", "recover"} => op.id \in Workers
         /\ op.kind \in {"finish", "recover"} => op.result \in Results
BY DEF Types, Locks, Free

LEMMA PendingHead ==
  ASSUME Types, Stages, Writes, pending # <<>>
  PROVE  NextRecord /\ op # Free
<1>1. op # Free
  BY DEF Writes
<1>2. CASE op.kind = "spawn"
  <2>1. PICK c \in Calls : c = op.id
    BY <1>2, LockShapes
  <2>2. CASE c \in Grouped /\ done[c] = 0 /\ pending = <<GroupRecord(c)>>
    <3>1. Head(pending) = GroupRecord(c) /\ Tail(pending) = <<>>
      BY <2>2
    <3> QED BY <1>1, <1>2, <2>1, <2>2, <3>1 DEF NextRecord
  <2>3. ASSUME NEW i \in DOMAIN Members[c], Position(c, i) = done[c] + 1,
               pending = Acceptance(Members[c][i])
        PROVE  NextRecord
    <3>1. /\ Head(pending) = AcceptedRecord(Members[c][i])
          /\ Tail(pending) = <<EventRecord(Members[c][i], 1)>>
      BY <2>3 DEF Acceptance
    <3> QED BY <1>2, <2>1, <2>3, <3>1 DEF NextRecord, AtMember
  <2>4. ASSUME NEW i \in DOMAIN Members[c], Position(c, i) = done[c] + 1,
               pending = <<EventRecord(Members[c][i], 1)>>
        PROVE  NextRecord
    <3>1. Head(pending) = EventRecord(Members[c][i], 1) /\ Tail(pending) = <<>>
      BY <2>4
    <3> QED BY <1>2, <2>1, <2>4, <3>1 DEF NextRecord, AtMember
  <2> QED BY <1>1, <1>2, <2>1, <2>2, <2>3, <2>4, CallWrites
<1>3. CASE op.kind = "emit"
  <2>1. pending = <<EventRecord(op.id, last[op.id] + 1)>>
    BY <1>3 DEF Writes
  <2>2. Head(pending) = EventRecord(op.id, last[op.id] + 1) /\ Tail(pending) = <<>>
    BY <2>1
  <2> QED BY <1>1, <1>3, <2>2, LockShapes DEF NextRecord
<1>4. CASE op.kind = "finish"
  <2>1. pending = <<TerminalRecord(op.id, op.result, last[op.id] + 1, last[op.id] + 2)>>
    BY <1>4 DEF Writes
  <2>2. /\ Head(pending) = TerminalRecord(op.id, op.result, last[op.id] + 1, last[op.id] + 2)
        /\ Tail(pending) = <<>>
    BY <2>1
  <2> QED BY <1>1, <1>4, <2>2, LockShapes DEF NextRecord
<1>5. CASE op.kind = "recover"
  <2>1. pending = <<TerminalRecord(op.id, op.result, last[op.id] + 1, last[op.id] + 1)>>
    BY <1>5 DEF Writes
  <2>2. /\ Head(pending) = TerminalRecord(op.id, op.result, last[op.id] + 1, last[op.id] + 1)
        /\ Tail(pending) = <<>>
    BY <2>1
  <2> QED BY <1>1, <1>5, <2>2, LockShapes DEF NextRecord
<1> QED BY <1>1, <1>2, <1>3, <1>4, <1>5, LockShapes

\* What the invariant needs to know of it.
LEMMA HeadFacts ==
  ASSUME Types, NextRecord, NEW x, x = Head(pending), NEW w \in Workers
  PROVE  /\ x.kind \in {"group", "accepted", "event", "terminal"} /\ x # Garbled
         /\ x.kind = "group" => op.kind = "spawn" /\ x.id = op.id
         /\ x.kind = "accepted" /\ x.id = w =>
              \E i : AtMember(i) /\ Members[op.id][i] = w /\ pending = Acceptance(w)
         /\ x.kind = "event" /\ x.id = w =>
              \/ op.kind = "emit" /\ op.id = w /\ x.first = last[w] + 1 /\ x.final = last[w] + 1
              \/ \E i : /\ AtMember(i) /\ Members[op.id][i] = w /\ x.final = 1
                        /\ pending = <<EventRecord(w, 1)>>
         /\ x.kind = "terminal" /\ x.id = w =>
              /\ op.kind \in {"finish", "recover"} /\ op.id = w /\ x.result = op.result
              /\ x.first = last[w] + 1
              /\ x.final = last[w] + (IF op.kind = "finish" THEN 2 ELSE 1)
         /\ op.kind \in {"finish", "recover"} => x.kind = "terminal" /\ x.id = op.id
         /\ op.kind = "spawn" => x.kind # "terminal"
         /\ op.kind # "spawn" => Tail(pending) = <<>>
         /\ Tail(pending) # Acceptance(w)
         /\ pending = Acceptance(w) => x = AcceptedRecord(w)
<1>1. Tail(pending) # Acceptance(w) /\ (pending = Acceptance(w) => x = AcceptedRecord(w))
  <2>1. \A i : <<EventRecord(Members[op.id][i], 1)>> # Acceptance(w) /\ <<>> # Acceptance(w)
    BY DEF Acceptance
  <2>2. pending = Acceptance(w) => Head(pending) = AcceptedRecord(w)
    BY DEF Acceptance
  <2> QED BY <2>1, <2>2 DEF NextRecord
<1> QED BY <1>1 DEF NextRecord, GroupRecord, AcceptedRecord, EventRecord, TerminalRecord, Garbled, AtMember

-----------------------------------------------------------------------------
(* One lemma per action: the writes.                                       *)

LEMMA InOneStage ==
  ASSUME Types, Stages, NEW w \in Workers, NEW c \in Calls, call[c] = "running", Member(c, w)
  PROVE  cell[w] # "open" /\ w \notin todo
BY JournalAssumption DEF Stages, Member

LEMMA WriteLineStep ==
  ASSUME IInv, WriteLine
  PROVE  IInv'
<1> DEFINE h == Head(pending)
           x == IF tail = "debris" THEN Garbled ELSE h
<1>1. /\ Types /\ Stages /\ Writes /\ Unsent /\ Saved /\ Shown /\ Settled /\ Numbered
      /\ pending # <<>> /\ file' = Append(file, x) /\ tail' = "none" /\ pending' = Tail(pending)
      /\ UNCHANGED <<op, process, call, done, cell, last, groups, todo, seen, crashes, errors>>
  BY DEF IInv, WriteLine, memory, faults
<1>2. NextRecord
  BY <1>1, PendingHead
<1>3. /\ h \in Line /\ x \in Line /\ pending' \in Seq(Line)
      /\ x = h \/ x = Garbled
      /\ file \in Seq(Line) /\ file' \in Seq(Line)
      /\ Len(file) \in Nat /\ DOMAIN file = 1 .. Len(file)
      /\ DOMAIN file' = DOMAIN file \cup {Len(file) + 1} /\ file'[Len(file) + 1] = x
      /\ \A i \in DOMAIN file : file'[i] = file[i]
  BY <1>1, HeadTailProperties, RecordTypes, OneMore DEF Types
<1>4. /\ RecoveredWorkers(file') =
           RecoveredWorkers(file) \cup {w \in Workers : x.kind = "accepted" /\ x.id = w}
      /\ RecoveredGroups(file') =
           RecoveredGroups(file) \cup {c \in Grouped : x.kind = "group" /\ x.id = c}
      /\ Readable(file') => Readable(file) /\ x = h
  BY <1>1, <1>3, MoreKnown
<1>5. \A w \in Workers :
        /\ RecoveredResult(file', w) =
             IF x.kind = "terminal" /\ x.id = w /\ w \in RecoveredWorkers(file)
             THEN x.result ELSE RecoveredResult(file, w)
        /\ Sequenced(file', w) =
             Sequenced(file, w) \cup
               (IF x.kind \in {"event", "terminal"} /\ x.id = w /\ w \in RecoveredWorkers(file)
                THEN {Len(file) + 1} ELSE {})
        /\ Sequenced(file, w) \subseteq DOMAIN file
  BY <1>1, <1>3, MoreResult, MoreScanned, ScannedLines
<1>6. x.kind # "garbled" => x = h
  BY <1>3 DEF Garbled
<1>7. ASSUME NEW w \in Workers
      PROVE  /\ x.kind = "accepted" /\ x.id = w =>
                  \E i : AtMember(i) /\ Members[op.id][i] = w /\ pending = Acceptance(w)
             /\ x.kind = "event" /\ x.id = w =>
                  \/ op.kind = "emit" /\ op.id = w /\ x.first = last[w] + 1 /\ x.final = last[w] + 1
                  \/ \E i : /\ AtMember(i) /\ Members[op.id][i] = w /\ x.final = 1
                            /\ pending = <<EventRecord(w, 1)>>
             /\ x.kind = "terminal" /\ x.id = w =>
                  /\ op.kind \in {"finish", "recover"} /\ op.id = w /\ x.result = op.result
                  /\ x.first = last[w] + 1
                  /\ x.final = last[w] + (IF op.kind = "finish" THEN 2 ELSE 1)
             /\ op.kind \in {"finish", "recover"} /\ x = h => x.kind = "terminal" /\ x.id = op.id
             /\ op.kind # "spawn" => pending' = <<>>
             /\ pending' # Acceptance(w)
             /\ pending = Acceptance(w) /\ x = h => x = AcceptedRecord(w)
  BY <1>1, <1>2, <1>6, HeadFacts
<1> HIDE DEF x, h
<1>8. Types'
  BY <1>1, <1>3 DEF Types
<1>9. Stages'
  BY <1>1 DEF Stages
<1>10. Writes'
  <2>1. op # Free
    BY <1>1, PendingHead
  <2>2. op.kind = "spawn" => \/ pending' = <<>>
                             \/ pending' = Tail(Appends(op.id)[done[op.id] + 1])
    <3> SUFFICES ASSUME op.kind = "spawn", pending' # <<>>
                 PROVE  pending' = Tail(Appends(op.id)[done[op.id] + 1])
      OBVIOUS
    <3>1. PICK i : AtMember(i) /\ pending = Acceptance(Members[op.id][i])
      BY <1>1, <1>2 DEF NextRecord
    <3>2. Appends(op.id)[done[op.id] + 1] = pending
      BY <3>1, AppendsShape DEF AtMember
    <3> QED BY <1>1, <3>2
  <2>3. op.kind # "spawn" => pending' = <<>>
    BY <1>1, <1>2 DEF NextRecord, AtMember
  <2> QED BY <1>1, <2>1, <2>2, <2>3 DEF Writes
<1>11. Unsent'
  <2> SUFFICES ASSUME NEW c \in Calls, call[c] \in {"idle", "running"},
                      NEW i \in DOMAIN Members[c], Position(c, i) > done[c], ~Underway(c, i)'
               PROVE  Members[c][i] \notin RecoveredWorkers(file')
    BY <1>1 DEF Unsent
  <2>1. Members[c][i] \in Workers
    BY MembersOf
  <2>2. ~(op.kind = "spawn" /\ op.id = c /\ Position(c, i) = done[c] + 1)
    BY <1>1, <1>7, <2>1 DEF Underway
  <2>3. Members[c][i] \notin RecoveredWorkers(file)
    BY <1>1, <2>2 DEF Unsent, Underway
  <2>4. ~(x.kind = "accepted" /\ x.id = Members[c][i])
    <3> SUFFICES ASSUME x.kind = "accepted", x.id = Members[c][i] PROVE FALSE
      OBVIOUS
    <3>1. PICK j : AtMember(j) /\ Members[op.id][j] = Members[c][i]
      BY <1>7, <2>1
    <3>2. op.id = c /\ j = i
      BY <3>1, OneCall DEF AtMember
    <3> QED BY <2>2, <3>1, <3>2 DEF AtMember
  <2> QED BY <1>4, <2>3, <2>4
<1>12. Saved'
  <2>1. todo' \subseteq RecoveredWorkers(file')
    BY <1>1, <1>4 DEF Saved
  <2> SUFFICES ASSUME Readable(file')
               PROVE  /\ \A c \in Calls :
                           /\ \A i \in DOMAIN Members[c] :
                                Position(c, i) <= done[c] \/ Underway(c, i)' =>
                                  Members[c][i] \in RecoveredWorkers(file')
                           /\ c \in Grouped =>
                                (done[c] >= 1 \/ (op.kind = "spawn" /\ op.id = c /\ pending' = <<>>)
                                   => c \in RecoveredGroups(file'))
                      /\ \A w \in Workers : cell[w] # "absent" => w \in RecoveredWorkers(file')
    BY <1>1, <2>1 DEF Saved
  <2>2. Readable(file) /\ x = h
    BY <1>4
  <2>3. ASSUME NEW c \in Calls, NEW i \in DOMAIN Members[c],
               Position(c, i) <= done[c] \/ Underway(c, i)'
        PROVE  Members[c][i] \in RecoveredWorkers(file')
    <3>1. Members[c][i] \in Workers
      BY MembersOf
    <3>2. CASE Position(c, i) <= done[c] \/ Underway(c, i)
      BY <1>1, <1>4, <2>2, <3>2 DEF Saved
    <3>3. CASE Underway(c, i)' /\ ~Underway(c, i)
      <4>1. pending = Acceptance(Members[c][i])
        BY <1>1, <3>3 DEF Underway
      <4>2. x = AcceptedRecord(Members[c][i])
        BY <1>7, <2>2, <3>1, <4>1
      <4> QED BY <1>4, <3>1, <4>2 DEF AcceptedRecord
    <3> QED BY <2>3, <3>2, <3>3
  <2>4. ASSUME NEW c \in Calls, c \in Grouped,
               done[c] >= 1 \/ (op.kind = "spawn" /\ op.id = c /\ pending' = <<>>)
        PROVE  c \in RecoveredGroups(file')
    <3>1. CASE done[c] >= 1
      BY <1>1, <1>4, <2>2, <2>4, <3>1 DEF Saved
    <3>2. CASE ~(done[c] >= 1)
      <4>1. op.kind = "spawn" /\ op.id = c /\ pending' = <<>> /\ done[c] = 0
        BY <1>1, <2>4, <3>2 DEF Types
      <4>2. \A i : ~AtMember(i)
        BY <2>4, <4>1, MembersOf DEF AtMember, Position
      <4>3. h = GroupRecord(c)
        BY <1>2, <4>1, <4>2 DEF NextRecord, h
      <4> QED BY <1>4, <2>2, <2>4, <4>3 DEF GroupRecord
    <3> QED BY <3>1, <3>2
  <2>5. \A w \in Workers : cell[w] # "absent" => w \in RecoveredWorkers(file')
    BY <1>1, <1>4, <2>2 DEF Saved
  <2> QED BY <2>3, <2>4, <2>5
<1>13. Shown'
  <2>1. ASSUME Readable(file'), NEW w \in Workers, seen[w] # None
        PROVE  RecoveredResult(file', w) = seen[w]
    <3>1. ~(x.kind = "terminal" /\ x.id = w)
      BY <1>1, <1>7, <2>1 DEF Stages, Shown
    <3> QED BY <1>1, <1>4, <1>5, <2>1, <3>1 DEF Shown, ResultDurable
  <2>2. ASSUME Readable(file'), op.kind \in {"finish", "recover"}
        PROVE  RecoveredResult(file', op.id) = op.result
    <3>1. op.id \in Workers
      BY <1>1, <2>2, LockShapes
    <3>2. op.id \in RecoveredWorkers(file)
      BY <1>1, <1>4, <2>2, <3>1 DEF Stages, Saved
    <3>3. x.kind = "terminal" /\ x.id = op.id /\ x.result = op.result
      BY <1>4, <1>7, <2>2, <3>1
    <3> QED BY <1>5, <3>1, <3>2, <3>3
  <2>3. ResultDurable'
    BY <1>1, <2>1 DEF ResultDurable
  <2> QED BY <1>1, <2>2, <2>3 DEF Shown
<1>14. Settled'
  <2>1. ASSUME NEW w \in RecoveredWorkers(file'), w \notin RecoveredWorkers(file)
        PROVE  op.kind = "spawn" /\ \E c \in Calls : call[c] = "running" /\ Member(c, w)
    <3>1. w \in Workers /\ x.kind = "accepted" /\ x.id = w
      BY <1>4, <2>1
    <3>2. PICK i : AtMember(i) /\ Members[op.id][i] = w
      BY <1>7, <3>1
    <3> QED BY <1>1, <3>2 DEF Stages, AtMember, Member
  <2>2. RecoveredSettled'
    BY <1>1, <2>1 DEF Settled, RecoveredSettled, Member
  <2>3. op.kind = "spawn" => process = "up"
    BY <1>1 DEF Stages
  <2> QED BY <1>1, <2>1, <2>2, <2>3 DEF Settled
<1>15. Numbered'
  <2> SUFFICES ASSUME errors = 0
               PROVE  /\ SequenceIncreases'
                      /\ process \in {"up", "recovering"} =>
                           \A w \in Workers : \A i \in Sequenced(file', w) :
                             file'[i].final <= Top(w)'
                      /\ \A c \in Calls : \A i \in DOMAIN Members[c] :
                           Underway(c, i)' /\ pending' # <<>> =>
                             Sequenced(file', Members[c][i]) = {}
    BY <1>1 DEF Numbered
  <2>1. /\ process \in {"up", "recovering"}
        /\ \A w \in Workers : \A i \in Sequenced(file, w) : file[i].final <= Top(w)
        /\ \A w \in Workers : \A i, j \in Sequenced(file, w) :
             i < j => file[i].final < file[j].first
    <3>1. op # Free
      BY <1>1, PendingHead
    <3>2. process \in {"up", "recovering"}
      BY <1>1, <3>1, LockShapes DEF Stages
    <3> QED BY <1>1, <3>2 DEF Numbered, SequenceIncreases
  <2>2. ASSUME NEW w \in Workers
        PROVE  last[w] \in Nat /\ Top(w) \in Nat /\ Top(w)' \in Nat /\ Top(w) <= Top(w)'
    BY <1>1 DEF Top, Types
  <2>3. ASSUME NEW w \in Workers, x.kind \in {"event", "terminal"}, x.id = w,
               w \in RecoveredWorkers(file)
        PROVE  /\ x.final <= Top(w)'
               /\ \A i \in Sequenced(file, w) : file[i].final < x.first
    <3>1. CASE op.kind = "spawn"
      <4>1. PICK k : /\ AtMember(k) /\ Members[op.id][k] = w /\ x.final = 1
                     /\ pending = <<EventRecord(w, 1)>>
        BY <1>7, <2>3, <3>1
      <4>2. call[op.id] = "running" /\ Member(op.id, w) /\ op.id \in Calls
        BY <1>1, <3>1, <4>1 DEF Stages, AtMember, Member
      <4>3. Top(w)' = 1
        BY <1>1, <4>2 DEF Top
      <4>4. pending # Acceptance(w)
        BY <4>1 DEF Acceptance
      <4>5. Underway(op.id, k)
        BY <3>1, <4>1, <4>4 DEF Underway, AtMember
      <4>6. Sequenced(file, w) = {}
        BY <1>1, <4>1, <4>5 DEF Numbered, AtMember
      <4> QED BY <4>1, <4>3, <4>6
    <3>2. CASE op.kind # "spawn"
      <4>1. /\ op.kind \in {"emit", "finish", "recover"} /\ op.id = w /\ x.first = last[w] + 1
            /\ x.final = last[w] + (IF op.kind = "finish" THEN 2 ELSE 1)
        BY <1>7, <2>3, <3>2 DEF AtMember
      <4>2. cell[w] = "open" \/ w \in todo
        BY <1>1, <4>1 DEF Stages
      <4>3. ~\E c \in Calls : call[c] = "running" /\ Member(c, w)
        BY <1>1, <4>2, InOneStage
      <4>4. Top(w) = last[w]
        BY <1>1, <4>3 DEF Top
      <4>5. pending' = <<>>
        BY <1>7, <3>2
      <4>6. Top(w)' = x.final
        BY <1>1, <4>1, <4>3, <4>5 DEF Top
      <4>7. \A i \in Sequenced(file, w) : file[i].final \in Nat
        BY <1>3, <1>5, ElementOfSeq DEF Line
      <4> QED BY <2>1, <2>2, <4>1, <4>4, <4>6, <4>7
    <3> QED BY <3>1, <3>2
  <2>4. \A w \in Workers : \A i \in Sequenced(file, w) :
          i \in 1 .. Len(file) /\ file[i].final \in Nat /\ file'[i] = file[i]
    BY <1>3, <1>5, ElementOfSeq DEF Line
  <2>5. ASSUME NEW w \in Workers, NEW i \in Sequenced(file', w)
        PROVE  file'[i].final <= Top(w)'
    <3>1. CASE i \in Sequenced(file, w)
      <4>1. file[i].final <= Top(w) /\ file'[i] = file[i] /\ file[i].final \in Nat
        BY <2>1, <2>4, <3>1
      <4> QED BY <2>2, <4>1
    <3>2. CASE i \notin Sequenced(file, w)
      <4>1. /\ x.kind \in {"event", "terminal"} /\ x.id = w /\ w \in RecoveredWorkers(file)
            /\ i = Len(file) + 1
        BY <1>5, <2>5, <3>2
      <4> QED BY <1>3, <2>3, <4>1
    <3> QED BY <3>1, <3>2
  <2>6. ASSUME NEW w \in Workers, NEW i \in Sequenced(file', w), NEW j \in Sequenced(file', w),
               i < j
        PROVE  file'[i].final < file'[j].first
    <3>1. CASE j \in Sequenced(file, w)
      <4>1. i \in Sequenced(file, w)
        BY <1>3, <1>5, <2>4, <2>6, <3>1
      <4> QED BY <2>1, <2>4, <2>6, <3>1, <4>1
    <3>2. CASE j \notin Sequenced(file, w)
      <4>1. /\ x.kind \in {"event", "terminal"} /\ x.id = w /\ w \in RecoveredWorkers(file)
            /\ j = Len(file) + 1
        BY <1>5, <2>6, <3>2
      <4>2. i \in Sequenced(file, w)
        BY <1>3, <1>5, <2>6, <4>1
      <4> QED BY <1>3, <2>3, <2>4, <4>1, <4>2
    <3> QED BY <3>1, <3>2
  <2>7. ASSUME NEW c \in Calls, NEW i \in DOMAIN Members[c], Underway(c, i)', pending' # <<>>
        PROVE  Sequenced(file', Members[c][i]) = {}
    <3>1. op.kind = "spawn" /\ op.id = c /\ Position(c, i) = done[c] + 1
      BY <1>1, <2>7 DEF Underway
    <3>2. PICK k : /\ AtMember(k) /\ pending = Acceptance(Members[op.id][k])
                   /\ h = AcceptedRecord(Members[op.id][k])
      BY <1>1, <1>2, <2>7 DEF NextRecord, h
    <3>3. k = i
      BY <3>1, <3>2, MembersOf DEF AtMember, Position
    <3>4. Members[c][i] \in Workers /\ done[c] \in Nat
      BY <1>1, MembersOf DEF Types
    <3>5. Members[c][i] \notin RecoveredWorkers(file)
      BY <1>1, <3>1, <3>2, <3>3, <3>4 DEF Unsent, Underway, Stages
    <3>6. Sequenced(file, Members[c][i]) = {}
      BY <3>4, <3>5 DEF Sequenced, RecoveredWorkers
    <3> QED BY <1>5, <3>4, <3>5, <3>6
  <2>8. SequenceIncreases'
    BY <2>6 DEF SequenceIncreases
  <2> QED BY <2>5, <2>7, <2>8
<1> QED BY <1>8, <1>9, <1>10, <1>11, <1>12, <1>13, <1>14, <1>15 DEF IInv

LEMMA WritePartStep ==
  ASSUME IInv, WritePart
  PROVE  IInv'
<1>1. /\ Types /\ Stages /\ Writes /\ Unsent /\ Saved /\ Shown /\ Settled /\ Numbered
      /\ tail' = "part"
      /\ UNCHANGED <<file, op, pending, process, call, done, cell, last, groups, todo, seen,
                     crashes, errors>>
  BY DEF IInv, WritePart, memory, faults
<1>2. Types' /\ Stages' /\ Writes'
  BY <1>1 DEF Types, Stages, Writes
<1>3. Unsent' /\ Saved'
  BY <1>1 DEF Unsent, Saved, Underway
<1>4. Shown' /\ Settled'
  BY <1>1 DEF Shown, ResultDurable, Settled, RecoveredSettled
<1>5. Numbered'
  BY <1>1 DEF Numbered, SequenceIncreases, Top, Underway
<1> QED BY <1>2, <1>3, <1>4, <1>5 DEF IInv

-----------------------------------------------------------------------------
(* One lemma per action: an append begins.                                 *)

\* An append of a worker in memory begins.
LEMMA WorkerAppends ==
  ASSUME IInv, NEW w \in Workers, NEW k \in {"emit", "finish", "recover"}, NEW r, NEW x \in Line,
         op = Free, op' = [kind |-> k, id |-> w, result |-> r], op' \in Locks,
         pending' = <<x>>, Writes',
         k = "recover" => process = "recovering" /\ w \in todo,
         k # "recover" => process = "up" /\ cell[w] = "open",
         UNCHANGED <<file, tail, process, call, done, memory, faults>>
  PROVE  IInv'
<1>1. /\ Types /\ Stages /\ Writes /\ Unsent /\ Saved /\ Shown /\ Settled /\ Numbered
      /\ UNCHANGED <<file, tail, process, call, done, cell, last, groups, todo, seen,
                     crashes, errors>>
  BY DEF IInv, memory, faults
<1>2. /\ op.kind = "free" /\ op'.kind = k /\ op'.id = w /\ op'.result = r
      /\ pending = <<>> /\ pending' # <<>> /\ pending' \in Seq(Line)
  BY <1>1 DEF Free, Writes
<1>3. Types'
  BY <1>1, <1>2 DEF Types
<1>4. Stages'
  BY <1>1, <1>2 DEF Stages
<1>5. \A c, i : ~Underway(c, i) /\ ~Underway(c, i)'
  BY <1>2 DEF Underway
<1>6. Unsent'
  BY <1>1, <1>5 DEF Unsent
<1>7. Saved'
  BY <1>1, <1>2, <1>5 DEF Saved
<1>8. Shown' /\ Settled'
  BY <1>1, <1>2 DEF Shown, ResultDurable, Settled, RecoveredSettled
<1>9. \A v \in Workers : Top(v)' = Top(v)
  BY <1>1, <1>2 DEF Top
<1>10. Numbered'
  BY <1>1, <1>5, <1>9 DEF Numbered, SequenceIncreases
<1> QED BY <1>3, <1>4, <1>6, <1>7, <1>8, <1>10 DEF IInv

LEMMA EmitAppendsStep ==
  ASSUME IInv, NEW w \in Workers, EmitAppends(w)
  PROVE  IInv'
<1> DEFINE x == EventRecord(w, last[w] + 1)
<1>1. /\ op = Free /\ op' = [kind |-> "emit", id |-> w, result |-> None]
      /\ pending' = <<x>> /\ last' = last /\ process = "up" /\ cell[w] = "open"
      /\ UNCHANGED <<file, tail, process, call, done, memory, faults>>
  BY DEF EmitAppends, Begin, memory
<1>2. x \in Line
  BY RecordTypes DEF IInv, Types
<1>3. op' \in Locks
  BY <1>1 DEF Locks
<1>4. Writes'
  BY <1>1 DEF Writes, Free
<1> HIDE DEF x
<1> QED BY <1>1, <1>2, <1>3, <1>4, WorkerAppends

LEMMA FinishAppendsStep ==
  ASSUME IInv, NEW w \in Workers, NEW r \in {"Completed", "Failed", "Cancelled"},
         FinishAppends(w, r)
  PROVE  IInv'
<1> DEFINE x == TerminalRecord(w, r, last[w] + 1, last[w] + 2)
<1>1. /\ op = Free /\ op' = [kind |-> "finish", id |-> w, result |-> r]
      /\ pending' = <<x>> /\ last' = last /\ process = "up" /\ cell[w] = "open"
      /\ UNCHANGED <<file, tail, process, call, done, memory, faults>>
  BY DEF FinishAppends, Begin, memory
<1>2. last[w] \in Nat /\ r \in Results
  BY DEF IInv, Types, Results
<1>3. x \in Line
  <2>1. last[w] + 1 \in Nat /\ last[w] + 2 \in Nat /\ last[w] + 1 <= last[w] + 2
    BY <1>2
  <2> QED BY <1>2, <2>1, RecordTypes
<1>4. op' \in Locks
  BY <1>1, <1>2 DEF Locks
<1>5. Writes'
  BY <1>1 DEF Writes, Free
<1> HIDE DEF x
<1> QED BY <1>1, <1>3, <1>4, <1>5, WorkerAppends

LEMMA RecoverAppendsStep ==
  ASSUME IInv, NEW w \in Workers, RecoverAppends(w)
  PROVE  IInv'
<1> DEFINE r == RecoveredStatus(w)
           x == TerminalRecord(w, r, last[w] + 1, last[w] + 1)
<1>1. /\ op = Free /\ op' = [kind |-> "recover", id |-> w, result |-> r]
      /\ pending' = <<x>> /\ last' = last /\ process = "recovering" /\ w \in todo
      /\ UNCHANGED <<file, tail, process, call, done, memory, faults>>
  BY DEF RecoverAppends, Begin, memory
<1>2. last[w] \in Nat /\ r \in Results
  BY DEF IInv, Types, Results, RecoveredStatus
<1> HIDE DEF r
<1>3. x \in Line
  <2>1. last[w] + 1 \in Nat /\ last[w] + 1 <= last[w] + 1
    BY <1>2
  <2> QED BY <1>2, <2>1, RecordTypes
<1>4. op' \in Locks
  BY <1>1, <1>2 DEF Locks
<1>5. Writes'
  BY <1>1 DEF Writes, Free
<1> HIDE DEF x
<1> QED BY <1>1, <1>3, <1>4, <1>5, WorkerAppends

LEMMA SpawnAppendsStep ==
  ASSUME IInv, NEW c \in Calls, SpawnAppends(c)
  PROVE  IInv'
<1> DEFINE A == Appends(c)[done[c] + 1]
<1>1. /\ Types /\ Stages /\ Writes /\ Unsent /\ Saved /\ Shown /\ Settled /\ Numbered
      /\ process = "up" /\ call[c] \in {"idle", "running"} /\ op = Free
      /\ op' = [kind |-> "spawn", id |-> c, result |-> None] /\ pending' = A
      /\ call' = [call EXCEPT ![c] = "running"]
      /\ UNCHANGED <<file, tail, process, done, cell, last, groups, todo, seen, crashes, errors>>
  BY DEF IInv, SpawnAppends, Begin, memory, faults
<1>2. /\ op.kind = "free" /\ op'.kind = "spawn" /\ op'.id = c /\ op' # Free
      /\ pending = <<>>
  BY <1>1 DEF Free, Writes
<1>3. /\ call'[c] = "running" /\ \A d \in Calls : d # c => call'[d] = call[d]
      /\ call' \in [Calls -> {"idle", "running", "ok", "error", "lost"}]
  BY <1>1 DEF Types
<1>4. done[c] \in Nat /\ done[c] < Len(Appends(c)) /\ done[c] + 1 \in 1 .. Len(Appends(c))
  BY <1>1, AppendsShape DEF Stages, Types
<1>5. A \in Seq(Line) /\ A # <<>>
  <2>1. CASE c \in Grouped /\ done[c] + 1 = 1
    <3>1. A = <<GroupRecord(c)>> /\ GroupRecord(c) \in Line
      BY <2>1, AppendsShape, RecordTypes
    <3> HIDE DEF A
    <3> QED BY <3>1
  <2>2. CASE \E i \in DOMAIN Members[c] : done[c] + 1 = Position(c, i)
    <3>1. PICK i \in DOMAIN Members[c] : done[c] + 1 = Position(c, i)
      BY <2>2
    <3>2. A = Acceptance(Members[c][i]) /\ Members[c][i] \in Workers
      BY <3>1, AppendsShape, MembersOf
    <3> HIDE DEF A
    <3> QED BY <3>2, RecordTypes DEF Acceptance
  <2> QED BY <1>4, <2>1, <2>2, AppendsShape
<1>6. \A d \in Calls : \A i \in DOMAIN Members[d] : ~Underway(d, i) /\ ~Underway(d, i)'
  BY <1>1, <1>2, AppendsShape DEF Underway
<1>7. Writes'
  BY <1>1, <1>2 DEF Writes
<1> HIDE DEF A
<1>8. Types'
  BY <1>1, <1>3, <1>5 DEF Types, Locks
<1>9. Stages'
  BY <1>1, <1>2, <1>3, <1>4 DEF Stages
<1>10. Unsent'
  BY <1>1, <1>3, <1>6 DEF Unsent
<1>11. Saved'
  BY <1>1, <1>2, <1>5, <1>6 DEF Saved
<1>12. Shown'
  BY <1>1, <1>2, <1>3 DEF Shown, ResultDurable
<1>13. Settled'
  BY <1>1, <1>3 DEF Settled, RecoveredSettled
<1>14. ASSUME NEW w \in Workers
       PROVE  Top(w)' = Top(w) \/ Sequenced(file, w) = {}
  <2>1. CASE call[c] = "idle" /\ Member(c, w)
    <3>1. PICK i \in DOMAIN Members[c] : Members[c][i] = w
      BY <2>1 DEF Member
    <3>2. Position(c, i) > done[c]
      BY <1>1, <2>1, AppendsShape DEF Stages
    <3>3. w \notin RecoveredWorkers(file)
      BY <1>1, <1>6, <3>1, <3>2 DEF Unsent
    <3> QED BY <3>3 DEF Sequenced, RecoveredWorkers
  <2>2. CASE ~(call[c] = "idle" /\ Member(c, w))
    BY <1>1, <1>2, <1>3, <2>2 DEF Top
  <2> QED BY <2>1, <2>2
<1>15. Numbered'
  BY <1>1, <1>6, <1>14 DEF Numbered, SequenceIncreases
<1> QED BY <1>7, <1>8, <1>9, <1>10, <1>11, <1>12, <1>13, <1>15 DEF IInv

-----------------------------------------------------------------------------
(* One lemma per action: an append returns.                                *)

LEMMA SpawnAppendedStep ==
  ASSUME IInv, SpawnAppended
  PROVE  IInv'
<1>1. /\ Types /\ Stages /\ Writes /\ Unsent /\ Saved /\ Shown /\ Settled /\ Numbered
      /\ pending = <<>> /\ op.kind = "spawn" /\ op' = Free
      /\ UNCHANGED <<file, tail, pending, process, todo, seen, crashes, errors>>
  BY DEF IInv, SpawnAppended, faults
<1>2. PICK c \in Calls : op.id = c
  BY <1>1, LockShapes
<1>3. /\ call[c] = "running" /\ process = "up" /\ done[c] \in Nat /\ Len(Appends(c)) \in Nat
      /\ done[c] < Len(Appends(c))
  BY <1>1, <1>2, AppendsShape DEF Stages, Types
<1>4. /\ done' = [done EXCEPT ![c] = @ + 1] /\ done'[c] = done[c] + 1
      /\ \A d \in Calls : d # c => done'[d] = done[d]
      /\ done' \in [Calls -> Nat]
  BY <1>1, <1>2, <1>3 DEF SpawnAppended, Types
<1>5. \/ /\ done[c] + 1 # Len(Appends(c)) /\ UNCHANGED <<call, cell, last, groups>>
      \/ /\ done[c] + 1 = Len(Appends(c))
         /\ call' = [call EXCEPT ![c] = "ok"]
         /\ cell' = [w \in Workers |-> IF Member(c, w) THEN "open" ELSE cell[w]]
         /\ last' = [w \in Workers |-> IF Member(c, w) THEN 1 ELSE last[w]]
         /\ groups' = groups \cup ({c} \cap Grouped)
  <2> DEFINE ids == {Members[c][i] : i \in DOMAIN Members[c]}
  <2>1. \A w : w \in ids <=> Member(c, w)
    BY DEF Member
  <2>2. \/ /\ done[c] + 1 # Len(Appends(c)) /\ UNCHANGED <<call, cell, last, groups>>
        \/ /\ done[c] + 1 = Len(Appends(c))
           /\ call' = [call EXCEPT ![c] = "ok"]
           /\ cell' = [w \in Workers |-> IF w \in ids THEN "open" ELSE cell[w]]
           /\ last' = [w \in Workers |-> IF w \in ids THEN 1 ELSE last[w]]
           /\ groups' = groups \cup ({c} \cap Grouped)
    BY <1>2 DEF SpawnAppended
  <2> HIDE DEF ids
  <2> QED BY <2>1, <2>2
<1>6. /\ op'.kind = "free" /\ pending' = <<>> /\ op' \in Locks
      /\ \A d, i : ~Underway(d, i)'
  BY <1>1 DEF Free, Locks, Underway
<1>7. ASSUME NEW d \in Calls, NEW i \in DOMAIN Members[d]
      PROVE  /\ Position(d, i) \in Nat
             /\ Underway(d, i) <=> d = c /\ Position(d, i) = done[c] + 1
  <2>1. pending # Acceptance(Members[d][i])
    BY <1>1 DEF Acceptance
  <2>2. Position(d, i) \in Nat
    BY AppendsShape
  <2> QED BY <1>1, <1>2, <2>1, <2>2 DEF Underway
<1>8. /\ \A d \in Calls : d # c => call'[d] = call[d]
      /\ IF done[c] + 1 = Len(Appends(c)) THEN call'[c] = "ok" ELSE call'[c] = "running"
      /\ call' \in [Calls -> {"idle", "running", "ok", "error", "lost"}]
  BY <1>1, <1>3, <1>5 DEF Types
<1>9. /\ \A w \in Workers :
           IF done[c] + 1 = Len(Appends(c)) /\ Member(c, w)
           THEN cell'[w] = "open" /\ last'[w] = 1 ELSE cell'[w] = cell[w] /\ last'[w] = last[w]
      /\ cell' \in [Workers -> {"absent", "open"} \cup Results]
      /\ last' \in [Workers -> Nat] /\ groups' \subseteq Grouped
  BY <1>1, <1>5 DEF Types
<1>10. Types'
  BY <1>1, <1>4, <1>6, <1>8, <1>9 DEF Types
<1>11. Stages'
  <2>1. \A d \in Calls :
          /\ done'[d] <= Len(Appends(d))
          /\ call'[d] = "idle" => done'[d] = 0
          /\ call'[d] = "running" => process' = "up" /\ done'[d] < Len(Appends(d))
          /\ call'[d] = "ok" => done'[d] = Len(Appends(d))
    BY <1>1, <1>3, <1>4, <1>8 DEF Stages
  <2>2. \A w \in Workers : cell'[w] = "open" => \E d \in Calls : call'[d] = "ok" /\ Member(d, w)
    BY <1>1, <1>3, <1>8, <1>9 DEF Stages
  <2> QED BY <1>1, <1>3, <1>6, <2>1, <2>2 DEF Stages
<1>12. Writes'
  BY <1>6 DEF Writes
<1>13. Unsent'
  <2> SUFFICES ASSUME NEW d \in Calls, call'[d] \in {"idle", "running"},
                      NEW i \in DOMAIN Members[d], Position(d, i) > done'[d]
               PROVE  Members[d][i] \notin RecoveredWorkers(file)
    BY <1>1 DEF Unsent
  <2>1. call[d] \in {"idle", "running"}
    BY <1>3, <1>8
  <2>2. Position(d, i) > done[d] /\ ~Underway(d, i)
    BY <1>3, <1>4, <1>7
  <2> QED BY <1>1, <2>1, <2>2 DEF Unsent
<1>14. ASSUME Readable(file), NEW d \in Calls, NEW i \in DOMAIN Members[d], Position(d, i) <= done'[d]
       PROVE  Members[d][i] \in RecoveredWorkers(file)
  <2>1. Position(d, i) <= done[d] \/ Underway(d, i)
    BY <1>3, <1>4, <1>7, <1>14
  <2> QED BY <1>1, <1>14, <2>1 DEF Saved
<1>15. Saved'
  <2>1. ASSUME Readable(file), NEW d \in Calls, d \in Grouped, done'[d] >= 1
        PROVE  d \in RecoveredGroups(file)
    <3>1. done[d] >= 1 \/ d = c
      BY <1>4, <2>1
    <3> QED BY <1>1, <1>2, <2>1, <3>1 DEF Saved
  <2>2. ASSUME Readable(file), NEW w \in Workers, cell'[w] # "absent"
        PROVE  w \in RecoveredWorkers(file)
    <3>1. CASE done[c] + 1 = Len(Appends(c)) /\ Member(c, w)
      <4>1. PICK i \in DOMAIN Members[c] : Members[c][i] = w
        BY <3>1 DEF Member
      <4>2. Position(c, i) <= done'[c]
        BY <1>3, <1>4, <3>1, AppendsShape
      <4> QED BY <1>14, <2>2, <4>1, <4>2
    <3>2. CASE ~(done[c] + 1 = Len(Appends(c)) /\ Member(c, w))
      BY <1>1, <1>9, <2>2, <3>2 DEF Saved
    <3> QED BY <3>1, <3>2
  <2> QED BY <1>1, <1>6, <1>14, <2>1, <2>2 DEF Saved
<1>16. Shown'
  <2>1. \A w \in Workers : cell'[w] = "open" \/ w \in todo => seen[w] = None
    BY <1>1, <1>3, <1>9 DEF Shown
  <2>2. \A d \in Calls : call'[d] \in {"idle", "running"} => call[d] \in {"idle", "running"}
    BY <1>3, <1>8
  <2> QED BY <1>1, <1>6, <2>1, <2>2 DEF Shown, ResultDurable
<1>17. Settled'
  <2>1. ASSUME NEW w \in RecoveredWorkers(file)
        PROVE  \/ cell'[w] # "absent"
               \/ \E d \in Calls : call'[d] \in {"running", "error"} /\ Member(d, w)
    <3>1. w \in Workers
      BY DEF RecoveredWorkers
    <3>2. \/ cell[w] # "absent"
          \/ \E d \in Calls : call[d] \in {"running", "error"} /\ Member(d, w)
      BY <1>1, <1>3 DEF Settled, RecoveredSettled, Member
    <3> QED BY <1>3, <1>8, <1>9, <3>1, <3>2
  <2> QED BY <1>1, <1>3, <2>1 DEF Settled, RecoveredSettled, Member
<1>18. ASSUME NEW w \in Workers
       PROVE  Top(w)' = Top(w)
  <2>1. CASE Member(c, w)
    <3>1. Top(w) = 1
      BY <1>3, <2>1 DEF Top
    <3>2. \A d \in Calls : Member(d, w) => d = c
      BY <2>1, OneCall DEF Member
    <3>3. Top(w)' = 1
      BY <1>6, <1>8, <1>9, <2>1, <3>2 DEF Top
    <3> QED BY <3>1, <3>3
  <2>2. CASE ~Member(c, w)
    <3>1. \A d \in Calls : Member(d, w) => call'[d] = call[d]
      BY <1>8, <2>2
    <3> QED BY <1>1, <1>6, <1>9, <2>2, <3>1 DEF Top
  <2> QED BY <2>1, <2>2
<1>19. Numbered'
  BY <1>1, <1>6, <1>18 DEF Numbered, SequenceIncreases
<1> QED BY <1>10, <1>11, <1>12, <1>13, <1>15, <1>16, <1>17, <1>19 DEF IInv

LEMMA EmitAppendedStep ==
  ASSUME IInv, EmitAppended
  PROVE  IInv'
<1>1. /\ Types /\ Stages /\ Writes /\ Unsent /\ Saved /\ Shown /\ Settled /\ Numbered
      /\ pending = <<>> /\ op.kind = "emit" /\ op' = Free
      /\ UNCHANGED <<file, tail, pending, process, call, done, cell, groups, todo, seen,
                     crashes, errors>>
  BY DEF IInv, EmitAppended, faults
<1>2. PICK w \in Workers : op.id = w
  BY <1>1, LockShapes
<1>3. /\ \A v \in Workers : last'[v] = IF v = w THEN last[w] + 1 ELSE last[v]
      /\ last' \in [Workers -> Nat]
  BY <1>1, <1>2 DEF EmitAppended, Types
<1>4. /\ op'.kind = "free" /\ pending' = <<>> /\ op' \in Locks
      /\ \A d, i : ~Underway(d, i) /\ ~Underway(d, i)'
  BY <1>1 DEF Free, Locks, Underway
<1>5. Types' /\ Stages' /\ Writes'
  BY <1>1, <1>3, <1>4 DEF Types, Stages, Writes
<1>6. Unsent' /\ Saved'
  BY <1>1, <1>4 DEF Unsent, Saved
<1>7. Shown' /\ Settled'
  BY <1>1, <1>4 DEF Shown, ResultDurable, Settled, RecoveredSettled
<1>8. ~\E c \in Calls : call[c] = "running" /\ Member(c, w)
  BY <1>1, <1>2, InOneStage DEF Stages
<1>9. \A v \in Workers : Top(v)' = Top(v)
  BY <1>1, <1>2, <1>3, <1>4, <1>8 DEF Top
<1>10. Numbered'
  BY <1>1, <1>4, <1>9 DEF Numbered, SequenceIncreases
<1> QED BY <1>5, <1>6, <1>7, <1>10 DEF IInv

LEMMA FinishAppendedStep ==
  ASSUME IInv, FinishAppended
  PROVE  IInv'
<1>1. /\ Types /\ Stages /\ Writes /\ Unsent /\ Saved /\ Shown /\ Settled /\ Numbered
      /\ pending = <<>> /\ op.kind = "finish" /\ op' = Free
      /\ UNCHANGED <<file, tail, pending, process, call, done, groups, todo, crashes, errors>>
  BY DEF IInv, FinishAppended, faults
<1>2. PICK w \in Workers, r \in Results : op.id = w /\ op.result = r
  BY <1>1, LockShapes
<1>3. /\ \A v \in Workers :
           IF v = w THEN cell'[v] = r /\ seen'[v] = r /\ last'[v] = last[w] + 2
                    ELSE cell'[v] = cell[v] /\ seen'[v] = seen[v] /\ last'[v] = last[v]
      /\ cell' \in [Workers -> {"absent", "open"} \cup Results]
      /\ seen' \in [Workers -> Results \cup {None}]
      /\ last' \in [Workers -> Nat]
  BY <1>1, <1>2 DEF FinishAppended, Publish, Types
<1>4. /\ op'.kind = "free" /\ pending' = <<>> /\ op' \in Locks
      /\ \A d, i : ~Underway(d, i) /\ ~Underway(d, i)'
  BY <1>1 DEF Free, Locks, Underway
<1>5. r # "open" /\ r # "absent" /\ r # None /\ cell[w] = "open" /\ process = "up" /\ todo = {}
  BY <1>1, <1>2, JournalAssumption DEF Results, Stages
<1>6. Types' /\ Writes'
  BY <1>1, <1>3, <1>4 DEF Types, Writes
<1>7. Stages'
  BY <1>1, <1>3, <1>4, <1>5 DEF Stages
<1>8. Unsent' /\ Saved'
  BY <1>1, <1>3, <1>4, <1>5 DEF Unsent, Saved
<1>9. Shown'
  <2>1. ResultDurable'
    BY <1>1, <1>2, <1>3 DEF Shown, ResultDurable
  <2>2. \A c \in Calls : call[c] \in {"idle", "running"} => ~Member(c, w)
    BY <1>1, <1>5, OneCall DEF Stages, Member
  <2> QED BY <1>1, <1>3, <1>4, <1>5, <2>1, <2>2 DEF Shown
<1>10. Settled'
  BY <1>1, <1>3, <1>5 DEF Settled, RecoveredSettled, RecoveredWorkers
<1>11. ~\E c \in Calls : call[c] = "running" /\ Member(c, w)
  BY <1>1, <1>5, InOneStage
<1>12. \A v \in Workers : Top(v)' = Top(v)
  BY <1>1, <1>2, <1>3, <1>4, <1>11 DEF Top
<1>13. Numbered'
  BY <1>1, <1>4, <1>12 DEF Numbered, SequenceIncreases
<1> QED BY <1>6, <1>7, <1>8, <1>9, <1>10, <1>13 DEF IInv

LEMMA RecoverAppendedStep ==
  ASSUME IInv, RecoverAppended
  PROVE  IInv'
<1>1. /\ Types /\ Stages /\ Writes /\ Unsent /\ Saved /\ Shown /\ Settled /\ Numbered
      /\ pending = <<>> /\ op.kind = "recover" /\ op' = Free
      /\ UNCHANGED <<file, tail, pending, call, done, groups, crashes, errors>>
  BY DEF IInv, RecoverAppended, faults
<1>2. PICK w \in Workers, r \in Results : op.id = w /\ op.result = r
  BY <1>1, LockShapes
<1>3. /\ \A v \in Workers :
           IF v = w THEN cell'[v] = r /\ seen'[v] = r /\ last'[v] = last[w] + 1
                    ELSE cell'[v] = cell[v] /\ seen'[v] = seen[v] /\ last'[v] = last[v]
      /\ cell' \in [Workers -> {"absent", "open"} \cup Results]
      /\ seen' \in [Workers -> Results \cup {None}]
      /\ last' \in [Workers -> Nat]
      /\ todo' = todo \ {w} /\ process' = IF todo' = {} THEN "up" ELSE "recovering"
  BY <1>1, <1>2 DEF RecoverAppended, Publish, Types
<1>4. /\ op'.kind = "free" /\ pending' = <<>> /\ op' \in Locks
      /\ \A d, i : ~Underway(d, i) /\ ~Underway(d, i)'
  BY <1>1 DEF Free, Locks, Underway
<1>5. /\ r # "open" /\ r # "absent" /\ r # None /\ process = "recovering" /\ w \in todo
      /\ w \in RecoveredWorkers(file) /\ \A c \in Calls : call[c] # "running"
  BY <1>1, <1>2, JournalAssumption DEF Results, Stages, Saved
<1>6. Types' /\ Writes'
  BY <1>1, <1>3, <1>4 DEF Types, Writes
<1>7. Stages'
  BY <1>1, <1>3, <1>4, <1>5 DEF Stages
<1>8. Unsent' /\ Saved'
  BY <1>1, <1>3, <1>4, <1>5 DEF Unsent, Saved
<1>9. Shown'
  <2>1. ResultDurable'
    BY <1>1, <1>2, <1>3 DEF Shown, ResultDurable
  <2>2. ASSUME NEW c \in Calls, call[c] \in {"idle", "running"}, NEW i \in DOMAIN Members[c]
        PROVE  Members[c][i] # w
    <3>1. Position(c, i) > done[c]
      BY <1>1, <1>5, <2>2, AppendsShape DEF Stages
    <3> QED BY <1>1, <1>4, <1>5, <2>2, <3>1 DEF Unsent
  <2>3. \A c \in Calls : call[c] \in {"idle", "running"} => ~Member(c, w)
    BY <2>2 DEF Member
  <2> QED BY <1>1, <1>3, <1>4, <1>5, <2>1, <2>3 DEF Shown
<1>10. Settled'
  BY <1>1, <1>3, <1>5 DEF Settled, RecoveredSettled, RecoveredWorkers
<1>11. \A v \in Workers : Top(v)' = Top(v)
  BY <1>1, <1>2, <1>3, <1>4, <1>5 DEF Top
<1>12. Numbered'
  BY <1>1, <1>4, <1>5, <1>11 DEF Numbered, SequenceIncreases
<1> QED BY <1>6, <1>7, <1>8, <1>9, <1>10, <1>12 DEF IInv

-----------------------------------------------------------------------------
(* One lemma per action: an append fails, the process dies, the process    *)
(* starts.                                                                 *)

LEMMA AppendFailsStep ==
  ASSUME IInv, AppendFails
  PROVE  IInv'
<1>1. /\ Types /\ Stages /\ Writes /\ Unsent /\ Saved /\ Shown /\ Settled /\ Numbered
      /\ op # Free /\ errors < MaxErrors /\ errors' = errors + 1
      /\ tail' = (IF tail = "part" THEN "debris" ELSE tail)
      /\ op' = Free /\ pending' = <<>>
      /\ call' = (IF op.kind = "spawn" THEN [call EXCEPT ![op.id] = "error"] ELSE call)
      /\ UNCHANGED <<file, done, last, seen, crashes>>
  BY DEF IInv, AppendFails, Leave
<1>2. \/ /\ op.kind = "recover"
         /\ process' = "down" /\ cell' = Dropped /\ groups' = {} /\ todo' = {}
      \/ op.kind # "recover" /\ UNCHANGED <<process, cell, groups, todo>>
  BY DEF AppendFails
<1>3. /\ op'.kind = "free" /\ op' \in Locks /\ \A d, i : ~Underway(d, i)'
  BY <1>1 DEF Free, Locks, Underway
<1>4. /\ op.kind = "spawn" => op.id \in Calls
      /\ \A d \in Calls : call'[d] # call[d] =>
           op.kind = "spawn" /\ d = op.id /\ call[d] = "running" /\ call'[d] = "error"
      /\ op.kind = "spawn" => call'[op.id] = "error"
      /\ call' \in [Calls -> {"idle", "running", "ok", "error", "lost"}]
  BY <1>1, LockShapes DEF Stages, Types
<1>5. cell' \in [Workers -> {"absent", "open"} \cup Results]
      /\ \A w \in Workers : cell'[w] # "absent" => cell'[w] = cell[w]
  BY <1>1, <1>2 DEF Dropped, Types
<1>6. Types'
  BY <1>1, <1>2, <1>3, <1>4, <1>5, JournalAssumption DEF Types
<1>7. Stages' /\ Writes'
  <2>1. op.kind = "recover" => \A c \in Calls : call'[c] # "running"
    BY <1>1 DEF Stages
  <2>2. \A w \in Workers : cell'[w] = "open" => \E c \in Calls : call'[c] = "ok" /\ Member(c, w)
    BY <1>1, <1>4, <1>5 DEF Stages
  <2>3. process' # "recovering" => todo' = {}
    BY <1>1, <1>2 DEF Stages
  <2>4. \A c \in Calls :
          /\ done'[c] <= Len(Appends(c))
          /\ call'[c] = "idle" => done'[c] = 0
          /\ call'[c] = "running" => process' = "up" /\ done'[c] < Len(Appends(c))
          /\ call'[c] = "ok" => done'[c] = Len(Appends(c))
    BY <1>1, <1>2, <1>4, <2>1 DEF Stages
  <2> QED BY <1>1, <1>3, <2>2, <2>3, <2>4 DEF Stages, Writes
<1>8. Unsent'
  BY <1>1, <1>3, <1>4 DEF Unsent, Underway
<1>9. Saved'
  BY <1>1, <1>2, <1>3, <1>5 DEF Saved
<1>10. Shown'
  <2>1. \A w \in Workers : cell'[w] = "open" \/ w \in todo' => cell[w] = "open" \/ w \in todo
    BY <1>2, <1>5
  <2>2. \A c \in Calls : call'[c] \in {"idle", "running"} => call[c] \in {"idle", "running"}
    BY <1>4
  <2> QED BY <1>1, <1>3, <2>1, <2>2 DEF Shown, ResultDurable
<1>11. Settled'
  BY <1>1, <1>2, <1>4 DEF Settled, RecoveredSettled
<1>12. Numbered'
  BY <1>1 DEF Numbered, Types
<1> QED BY <1>6, <1>7, <1>8, <1>9, <1>10, <1>11, <1>12 DEF IInv

LEMMA CrashStep ==
  ASSUME IInv, Crash
  PROVE  IInv'
<1>1. /\ Types /\ Stages /\ Writes /\ Unsent /\ Saved /\ Shown /\ Settled /\ Numbered
      /\ crashes < MaxCrashes /\ crashes' = crashes + 1 /\ process' = "down"
      /\ tail' = (IF tail = "part" THEN "debris" ELSE tail)
      /\ op' = Free /\ pending' = <<>>
      /\ call' = [c \in Calls |-> IF call[c] = "running" THEN "lost" ELSE call[c]]
      /\ cell' = Dropped /\ groups' = {} /\ todo' = {}
      /\ UNCHANGED <<file, done, last, seen, errors>>
  BY DEF IInv, Crash, Leave
<1>2. /\ op'.kind = "free" /\ op' \in Locks /\ \A d, i : ~Underway(d, i)'
  BY <1>1 DEF Free, Locks, Underway
<1>3. \A c \in Calls : call'[c] = IF call[c] = "running" THEN "lost" ELSE call[c]
  BY <1>1
<1>4. \A w \in Workers : cell'[w] = "absent"
  BY <1>1 DEF Dropped
<1>5. Types'
  BY <1>1, <1>2, JournalAssumption DEF Types, Dropped
<1>6. Stages' /\ Writes'
  BY <1>1, <1>2, <1>3, <1>4 DEF Stages, Writes
<1>7. Unsent'
  BY <1>1, <1>2, <1>3 DEF Unsent, Underway, Stages
<1>8. Saved'
  BY <1>1, <1>2, <1>4 DEF Saved
<1>9. Shown' /\ Settled'
  BY <1>1, <1>2, <1>3, <1>4 DEF Shown, ResultDurable, Settled, RecoveredSettled
<1>10. Numbered'
  BY <1>1, <1>2 DEF Numbered, SequenceIncreases
<1> QED BY <1>5, <1>6, <1>7, <1>8, <1>9, <1>10 DEF IInv

\* In a journal whose sequences increase, the last one is the highest.
LEMMA LastIsHighest ==
  ASSUME NEW f \in Seq(Line), NEW w \in Workers,
         \A i, j \in Sequenced(f, w) : i < j => f[i].final < f[j].first,
         NEW i \in Sequenced(f, w)
  PROVE  f[i].final <= RecoveredLast(f, w)
<1> DEFINE k == CHOOSE x \in Sequenced(f, w) : \A j \in Sequenced(f, w) : j <= x
<1>1. k \in Sequenced(f, w) /\ i <= k
  BY ChosenLast, ScannedLines
<1>2. RecoveredLast(f, w) = f[k].final
  BY DEF RecoveredLast
<1> HIDE DEF k
<1>3. i \in DOMAIN f /\ k \in DOMAIN f /\ i \in Nat /\ k \in Nat
  BY <1>1, ScannedLines, LenProperties
<1>4. f[i] \in Line /\ f[k] \in Line
  BY <1>3, ElementOfSeq, LenProperties
<1>5. /\ f[i].final \in Nat /\ f[k].first \in Nat /\ f[k].final \in Nat
      /\ f[k].first <= f[k].final
  BY <1>4 DEF Line
<1>6. i = k \/ f[i].final < f[k].first
  BY <1>1, <1>3
<1> QED BY <1>2, <1>5, <1>6

LEMMA StartStep ==
  ASSUME IInv, Start
  PROVE  IInv'
<1>1. /\ Types /\ Stages /\ Writes /\ Unsent /\ Saved /\ Shown /\ Settled /\ Numbered
      /\ process = "down"
      /\ UNCHANGED <<file, tail, op, pending, call, done, crashes, errors>>
  BY DEF IInv, Start, faults
<1>2. /\ op = Free /\ op.kind = "free" /\ pending = <<>> /\ todo = {}
      /\ \A c \in Calls : call[c] # "running"
      /\ \A d, i : ~Underway(d, i) /\ ~Underway(d, i)'
  <2>1. op = Free
    BY <1>1, LockShapes DEF Stages
  <2> QED BY <1>1, <2>1 DEF Free, Stages, Writes, Underway
<1>3. CASE ~Readable(file)
  <2>1. process' = "refused" /\ UNCHANGED <<cell, last, groups, todo, seen>>
    BY <1>3 DEF Start, memory
  <2>2. Types' /\ Stages' /\ Writes'
    BY <1>1, <1>2, <2>1 DEF Types, Stages, Writes
  <2>3. Unsent' /\ Saved'
    BY <1>1, <1>2, <2>1 DEF Unsent, Saved
  <2>4. Shown' /\ Settled'
    BY <1>1, <2>1 DEF Shown, ResultDurable, Settled, RecoveredSettled
  <2>5. Numbered'
    BY <1>1, <1>2, <2>1 DEF Numbered, SequenceIncreases
  <2> QED BY <2>2, <2>3, <2>4, <2>5 DEF IInv
<1>4. CASE Readable(file)
  <2> DEFINE R(w) == RecoveredResult(file, w)
  <2>1. /\ process' = (IF Unsettled(file) = {} THEN "up" ELSE "recovering")
        /\ todo' = Unsettled(file) /\ groups' = RecoveredGroups(file)
        /\ cell' = [w \in Workers |-> IF R(w) # None THEN R(w) ELSE "absent"]
        /\ seen' = [w \in Workers |-> IF R(w) # None THEN R(w) ELSE seen[w]]
        /\ last' = [w \in Workers |-> RecoveredLast(file, w)]
    BY <1>4 DEF Start
  <2>2. \A w \in Workers : /\ R(w) \in Results \cup {None} /\ RecoveredLast(file, w) \in Nat
                           /\ R(w) # None => w \in RecoveredWorkers(file)
    BY <1>1, ResultType DEF Types
  <2>3. \A w : w \in Unsettled(file) <=> w \in RecoveredWorkers(file) /\ R(w) = None
    BY DEF Unsettled
  <2>4. RecoveredWorkers(file) \subseteq Workers /\ RecoveredGroups(file) \subseteq Grouped
    BY DEF RecoveredWorkers, RecoveredGroups
  <2>5. "absent" \notin Results /\ "open" \notin Results /\ None \notin Results
    BY JournalAssumption DEF Results
  <2>6. \A w \in Workers : seen[w] # None => R(w) = seen[w]
    BY <1>1, <1>4 DEF Shown, ResultDurable
  <2> HIDE DEF R
  <2>7. \A w \in Workers :
          /\ cell'[w] = IF R(w) # None THEN R(w) ELSE "absent"
          /\ cell'[w] # "open" /\ (cell'[w] # "absent" <=> R(w) # None)
          /\ seen'[w] = R(w)
    BY <1>1, <2>1, <2>2, <2>5, <2>6 DEF Types
  <2>8. Types'
    <3>1. /\ cell' \in [Workers -> {"absent", "open"} \cup Results]
          /\ seen' \in [Workers -> Results \cup {None}]
          /\ last' \in [Workers -> Nat]
      BY <1>1, <2>1, <2>2 DEF Types
    <3>2. groups' \subseteq Grouped /\ todo' \subseteq Workers
      BY <2>1, <2>3, <2>4
    <3> QED BY <1>1, <2>1, <3>1, <3>2 DEF Types
  <2>9. Stages' /\ Writes'
    BY <1>1, <1>2, <2>1, <2>7 DEF Stages, Writes
  <2>10. Unsent'
    BY <1>1, <1>2 DEF Unsent
  <2>11. Saved'
    BY <1>1, <1>2, <2>1, <2>2, <2>3, <2>7 DEF Saved
  <2>12. Shown'
    <3>1. ResultDurable'
      BY <1>1, <2>7 DEF ResultDurable, R
    <3>2. ASSUME NEW c \in Calls, call[c] \in {"idle", "running"}, NEW w \in Workers, Member(c, w)
          PROVE  R(w) = None
      <4>1. PICK i \in DOMAIN Members[c] : Members[c][i] = w
        BY <3>2 DEF Member
      <4>2. Position(c, i) > done[c]
        BY <1>1, <1>2, <3>2, AppendsShape DEF Stages
      <4>3. w \notin RecoveredWorkers(file)
        BY <1>1, <1>2, <3>2, <4>1, <4>2 DEF Unsent
      <4> QED BY <2>2, <4>3
    <3>3. \A w \in Workers : cell'[w] = "open" \/ w \in todo' => seen'[w] = None
      BY <2>1, <2>3, <2>7
    <3> QED BY <1>1, <1>2, <2>7, <3>1, <3>2, <3>3 DEF Shown
  <2>13. Settled'
    <3>1. \A w \in RecoveredWorkers(file) : cell'[w] # "absent" \/ w \in todo'
      BY <2>1, <2>3, <2>4, <2>7
    <3>2. process' = "up" => todo' = {}
      BY <2>1
    <3> QED BY <1>1, <3>1, <3>2 DEF Settled, RecoveredSettled
  <2>14. Numbered'
    <3>1. \A w \in Workers : Top(w)' = RecoveredLast(file, w)
      BY <1>1, <1>2, <2>1 DEF Top
    <3>2. errors = 0 => \A w \in Workers : \A i \in Sequenced(file, w) :
                          file[i].final <= RecoveredLast(file, w)
      BY <1>1, LastIsHighest DEF Types, Numbered, SequenceIncreases
    <3> QED BY <1>1, <1>2, <3>1, <3>2 DEF Numbered, SequenceIncreases
  <2> QED BY <2>8, <2>9, <2>10, <2>11, <2>12, <2>13, <2>14 DEF IInv
<1> QED BY <1>3, <1>4

-----------------------------------------------------------------------------
(* The invariant holds.                                                    *)

LEMMA InitIInv == Init => IInv
<1> SUFFICES ASSUME Init PROVE IInv
  OBVIOUS
<1>1. /\ file = <<>> /\ op.kind = "free" /\ op = Free /\ pending = <<>> /\ todo = {}
      /\ \A c \in Calls : call[c] = "idle" /\ done[c] = 0
      /\ \A w \in Workers : cell[w] = "absent" /\ seen[w] = None /\ last[w] = 0
      /\ process = "down" /\ errors = 0
  BY DEF Init, Free
<1>2. Types
  BY JournalAssumption DEF Init, Types, Locks
<1>3. /\ RecoveredWorkers(file) = {} /\ \A w : Sequenced(file, w) = {}
      /\ \A d, i : ~Underway(d, i)
  BY <1>1 DEF RecoveredWorkers, Lines, Sequenced, Underway
<1>4. Stages /\ Writes
  BY <1>1, AppendsShape DEF Stages, Writes
<1>5. Unsent /\ Saved
  <2>1. \A c \in Calls : \A i \in DOMAIN Members[c] : ~(Position(c, i) <= done[c])
    BY <1>1, AppendsShape
  <2> QED BY <1>1, <1>3, <2>1 DEF Unsent, Saved
<1>6. Shown /\ Settled
  BY <1>1, <1>3 DEF Shown, ResultDurable, Settled, RecoveredSettled
<1>7. Numbered
  BY <1>1, <1>3 DEF Numbered, SequenceIncreases
<1> QED BY <1>2, <1>4, <1>5, <1>6, <1>7 DEF IInv

LEMMA StutterIInv ==
  ASSUME IInv, UNCHANGED vars
  PROVE  IInv'
<1>1. /\ Types /\ Stages /\ Writes /\ Unsent /\ Saved /\ Shown /\ Settled /\ Numbered
      /\ UNCHANGED <<file, tail, op, pending, process, call, done, cell, last, groups, todo,
                     seen, crashes, errors>>
  BY DEF IInv, vars
<1>2. Types' /\ Stages' /\ Writes'
  BY <1>1 DEF Types, Stages, Writes
<1>3. Unsent' /\ Saved'
  BY <1>1 DEF Unsent, Saved, Underway
<1>4. Shown' /\ Settled'
  BY <1>1 DEF Shown, ResultDurable, Settled, RecoveredSettled
<1>5. Numbered'
  BY <1>1 DEF Numbered, SequenceIncreases, Top, Underway
<1> QED BY <1>2, <1>3, <1>4, <1>5 DEF IInv

LEMMA NextIInv ==
  ASSUME IInv, [Next]_vars
  PROVE  IInv'
<1>1. CASE Start
  BY <1>1, StartStep
<1>2. CASE Crash
  BY <1>2, CrashStep
<1>3. CASE AppendFails
  BY <1>3, AppendFailsStep
<1>4. CASE WritePart
  BY <1>4, WritePartStep
<1>5. CASE WriteLine
  BY <1>5, WriteLineStep
<1>6. CASE SpawnAppended
  BY <1>6, SpawnAppendedStep
<1>7. CASE EmitAppended
  BY <1>7, EmitAppendedStep
<1>8. CASE FinishAppended
  BY <1>8, FinishAppendedStep
<1>9. CASE RecoverAppended
  BY <1>9, RecoverAppendedStep
<1>10. CASE \E c \in Calls : SpawnAppends(c)
  BY <1>10, SpawnAppendsStep
<1>11. CASE \E w \in Workers : EmitAppends(w)
  BY <1>11, EmitAppendsStep
<1>12. CASE \E w \in Workers : RecoverAppends(w)
  BY <1>12, RecoverAppendsStep
<1>13. CASE \E w \in Workers : \E r \in {"Completed", "Failed", "Cancelled"} : FinishAppends(w, r)
  BY <1>13, FinishAppendsStep
<1>14. CASE UNCHANGED vars
  BY <1>14, StutterIInv
<1> QED BY <1>1, <1>2, <1>3, <1>4, <1>5, <1>6, <1>7, <1>8, <1>9, <1>10, <1>11, <1>12, <1>13,
           <1>14 DEF Next

LEMMA Inductive == Spec => []IInv
<1>1. IInv /\ [Next]_vars => IInv'
  BY NextIInv
<1> QED BY <1>1, InitIInv, PTL DEF Spec

-----------------------------------------------------------------------------
(* Theorems.                                                               *)

\* Every variable of the journal and of the process keeps its type: what the
\* file holds is a sequence of the five kinds of lines, an unlocked file has
\* nothing left to write, and no call counts more appends than it makes.
THEOREM TypeCorrect == Spec => []TypeOK
<1>1. IInv => TypeOK
  <2> SUFFICES ASSUME IInv PROVE TypeOK
    OBVIOUS
  <2>1. Types /\ Stages /\ Writes
    BY DEF IInv
  <2>2. \A i \in DOMAIN file : file[i].kind \in Kinds
    BY <2>1, ElementOfSeq, LenProperties DEF Types, Line
  <2>3. \A c \in Calls : done[c] \in 0 .. Len(Appends(c))
    BY <2>1, AppendsShape DEF Types, Stages
  <2> QED BY <2>1, <2>2, <2>3 DEF TypeOK, Types, Writes, Kinds
<1> QED BY <1>1, Inductive, PTL

\* spawn and spawn_group return, and a worker is in memory, only after the
\* journal holds what recover needs to find them again (runtime.rs accepts
\* before it inserts), while the journal can be read.
THEOREM AcceptedDurableTheorem == Spec => []AcceptedDurable
<1>1. IInv => AcceptedDurable
  <2> SUFFICES ASSUME IInv, Readable(file) PROVE AcceptedDurable
    BY DEF AcceptedDurable
  <2>1. Types /\ Stages /\ Saved
    BY DEF IInv
  <2>2. ASSUME NEW c \in Calls, call[c] = "ok"
        PROVE  /\ \A i \in DOMAIN Members[c] : Members[c][i] \in RecoveredWorkers(file)
               /\ c \in Grouped => c \in RecoveredGroups(file)
    <3>1. done[c] = Len(Appends(c)) /\ done[c] >= 1
      BY <2>1, <2>2, AppendsShape DEF Stages
    <3>2. \A i \in DOMAIN Members[c] : Position(c, i) <= done[c]
      BY <3>1, AppendsShape
    <3> QED BY <2>1, <3>1, <3>2 DEF Saved
  <2> QED BY <2>1, <2>2 DEF AcceptedDurable, Saved
<1> QED BY <1>1, Inductive, PTL

\* The result a caller was shown is the one recover reads, through crashes,
\* failed appends and recovery, while the journal can be read.
THEOREM ResultDurableTheorem == Spec => []ResultDurable
<1>1. IInv => ResultDurable
  BY DEF IInv, Shown
<1> QED BY <1>1, Inductive, PTL

\* Once start has returned, every worker the journal knows has a cell or
\* belongs to a call of this process that has not returned Ok.
THEOREM RecoveredSettledTheorem == Spec => []RecoveredSettled
<1>1. IInv => RecoveredSettled
  BY DEF IInv, Settled
<1> QED BY <1>1, Inductive, PTL

\* last_event_sequence never falls behind the journal, so the sequences of a
\* worker increase line by line while no append has failed, across restarts.
THEOREM SequenceIncreasesTheorem == Spec => []SequenceIncreases
<1>1. IInv => SequenceIncreases
  BY DEF IInv, Numbered, SequenceIncreases
<1> QED BY <1>1, Inductive, PTL

\* No step, a restart included, changes a result a caller has been shown.
THEOREM ResultFinalTheorem == Spec => ResultFinal
<1>1. ASSUME IInv, [Next]_vars
      PROVE  [\A w \in Workers : seen[w] # None => seen'[w] = seen[w]]_vars
  <2> SUFFICES ASSUME NEW w \in Workers, seen[w] # None PROVE seen'[w] = seen[w]
    OBVIOUS
  <2>1. Types /\ Stages /\ Shown
    BY <1>1 DEF IInv
  <2>2. CASE seen' = seen
    BY <2>2
  <2>3. CASE Start
    <3>1. Readable(file) => RecoveredResult(file, w) = seen[w]
      BY <2>1 DEF Shown, ResultDurable
    <3> QED BY <2>3, <3>1 DEF Start, memory
  <2>4. CASE FinishAppended \/ RecoverAppended
    <3>1. op.id \in Workers /\ seen[op.id] = None
      BY <2>1, <2>4, LockShapes DEF FinishAppended, RecoverAppended, Stages, Shown
    <3>2. seen' = [seen EXCEPT ![op.id] = op.result]
      BY <2>4 DEF FinishAppended, RecoverAppended, Publish
    <3> QED BY <2>1, <3>1, <3>2 DEF Types
  <2>5. Start \/ FinishAppended \/ RecoverAppended \/ seen' = seen
    BY <1>1 DEF Next, vars, memory, Crash, AppendFails, WritePart, WriteLine, SpawnAppended,
      EmitAppended, SpawnAppends, EmitAppends, RecoverAppends, FinishAppends
  <2> QED BY <2>2, <2>3, <2>4, <2>5
<1>2. IInv /\ [Next]_vars => [\A w \in Workers : seen[w] # None => seen'[w] = seen[w]]_vars
  BY <1>1
<1> QED BY <1>2, Inductive, PTL DEF Spec, ResultFinal
=============================================================================

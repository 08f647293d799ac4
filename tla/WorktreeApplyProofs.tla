------------------------- MODULE WorktreeApplyProofs -------------------------
(* Theorems about WorktreeApply, for any number of processes, worktrees,   *)
(* files, plans and crashes.                                               *)
EXTENDS WorktreeApply, TLAPS, FiniteSetTheorems

-----------------------------------------------------------------------------
(* The inductive invariant.                                                *)

\* A record says "applied" only if it also bears the final mark.
Sound == {r \in Record : r.status = "applied" => r.applied}
Whys == {"create", "adopt", "ignore", "gc", "remove", "select", "apply"}

\* What a process remembers between two steps of a call; only a gc has more
\* records to visit.
Marking   == {o \in [at : {"mark"}, why : Whys, recs : SUBSET Sound, rest : SUBSET Sound] :
                o.rest # {} => o.why = "gc"}
Appending == {o \in [at : {"append"}, why : Whys, rec : Sound, recs : SUBSET Sound,
                     rest : SUBSET Sound] : o.rest # {} => o.why = "gc"}
Listing   == [at : {"gc", "rebuild"}, recs : SUBSET Sound]
Deleting  == [at : {"delete"}, force : BOOLEAN, rec : Sound]
Unlinking == [at : {"unlink"}, rec : Sound]
Writing   == [at : {"write", "undo"}, plan : 1 .. MaxPlans, rec : Sound,
              todo : SUBSET Files, done : SUBSET Files, whole : BOOLEAN]
Ops == {Idle} \cup Marking \cup Appending \cup Listing \cup Deleting
       \cup Unlinking \cup Writing

Slot(t) == {None} \cup {r \in Sound : r.id = t}

Types ==
  /\ registry \in [Trees -> Sound \cup {None}] /\ control \in [Trees -> Sound \cup {None}]
  /\ \A t \in Trees : registry[t] \in Slot(t) /\ control[t] \in Slot(t)
  /\ dir \subseteq used /\ used \subseteq Trees
  /\ parent \in [Files -> Bytes] /\ head \in [Files -> Bytes]
  /\ child \in [Trees -> [Files -> Bytes]]
  /\ plans \in [1 .. MaxPlans -> Plan \cup {None}]
  /\ receipts \subseteq {i \in 1 .. MaxPlans : plans[i] # None}
  /\ lock \in Procs \cup {None}
  /\ op \in [Procs -> Ops]
  /\ count \in 0 .. MaxEvents
  /\ past \in [expected : [Files -> Bytes], excused : SUBSET Files, completed : SUBSET Trees]
  /\ lapsed \in BOOLEAN

\* The calls that hold the settlement lock.
Settling(p) == \/ Applying(p)
               \/ op[p].at \in {"mark", "append"} /\ op[p].why \in {"select", "apply"}
Locked == \A p \in Procs : lock = p <=> Settling(p)

\* What the parent holds in the middle of an apply: the review up to the file
\* it is at, the candidate before it.
Midway(p) ==
  LET plan == plans[op[p].plan]
  IN /\ plan # None
     /\ op[p].todo \cap op[p].done = {}
     /\ \A f \in op[p].todo \cup op[p].done :
          f \notin past.excused =>
            /\ past.expected[f] = plan.parent[f]
            /\ parent[f] = IF f \in op[p].done THEN plan.child[f] ELSE plan.parent[f]
Half == \A p \in Procs : Applying(p) => Midway(p)

\* While the registry keeps its marks, an apply runs only for the candidate
\* that was completed, if there is one.
Final ==
  ~lapsed =>
    /\ ~Forgotten
    /\ \A s, t \in past.completed : s = t
    /\ \A p \in Procs : Applying(p) => past.completed \subseteq {plans[op[p].plan].tree}

IInv == Types /\ Locked /\ Half /\ ParentAccounted /\ Final

-----------------------------------------------------------------------------
(* Facts about the operators.                                              *)

\* A non-empty set of manifest paths has a first and a last one.
LEMMA Ends ==
  ASSUME NEW S \in SUBSET Files, S # {}
  PROVE  Least(S) \in S /\ Greatest(S) \in S
<1> DEFINE HasEnds(X) == /\ \E x \in X : \A y \in X : x <= y
                         /\ \E x \in X : \A y \in X : y <= x
           Bad == {X \in SUBSET Files : X # {} /\ ~HasEnds(X)}
<1>1. Files \subseteq Nat /\ IsFiniteSet(Files)
  BY WorktreeAssumption
<1>2. Bad = {}
  <2> SUFFICES ASSUME Bad # {} PROVE FALSE
    OBVIOUS
  <2>1. Bad \subseteq FiniteSubsetsOf(Files)
    BY <1>1, FS_FiniteSubsetsOfFinite
  <2> HIDE DEF Bad
  <2>2. \E X \in Bad : \A Y \in Bad : ~(<<Y, X>> \in StrictSubsetOrdering(Files))
    BY <2>1, FS_StrictSubsetOrderingWellFounded, WFMin
  <2>3. PICK X \in Bad : \A Y \in Bad : ~(<<Y, X>> \in StrictSubsetOrdering(Files))
    BY <2>2
  <2>4. X \in SUBSET Files /\ X # {} /\ ~HasEnds(X)
    BY DEF Bad
  <2>5. PICK x : x \in X
    BY <2>4
  <2>6. X \ {x} \notin Bad
    BY <2>3, <2>4, <2>5 DEF StrictSubsetOrdering
  <2>7. \A y \in X : y \in Nat
    BY <1>1, <2>4
  <2>8. CASE X \ {x} = {}
    <3>1. X = {x} /\ x <= x
      BY <2>5, <2>7, <2>8
    <3> QED BY <2>4, <3>1
  <2>9. CASE HasEnds(X \ {x})
    <3>1. PICK a \in X \ {x} : \A y \in X \ {x} : a <= y
      BY <2>9
    <3>2. PICK b \in X \ {x} : \A y \in X \ {x} : y <= b
      BY <2>9
    <3>3. \E z \in X : \A y \in X : z <= y
      <4>1. CASE a <= x
        BY <2>7, <3>1, <4>1
      <4>2. CASE ~(a <= x)
        <5>1. \A y \in X : x <= y
          BY <2>5, <2>7, <3>1, <4>2
        <5> QED BY <2>5, <5>1
      <4> QED BY <4>1, <4>2
    <3>4. \E z \in X : \A y \in X : y <= z
      <4>1. CASE x <= b
        BY <2>7, <3>2, <4>1
      <4>2. CASE ~(x <= b)
        <5>1. \A y \in X : y <= x
          BY <2>5, <2>7, <3>2, <4>2
        <5> QED BY <2>5, <5>1
      <4> QED BY <4>1, <4>2
    <3> QED BY <2>4, <3>3, <3>4
  <2> QED BY <2>4, <2>6, <2>8, <2>9 DEF Bad
<1>3. HasEnds(S)
  BY <1>2
<1>4. Least(S) \in S
  BY <1>3 DEF Least
<1>5. Greatest(S) \in S
  BY <1>3 DEF Greatest
<1> QED BY <1>4, <1>5

\* The calls write whole records, changed in a few fields.
LEMMA Rewritten ==
  ASSUME NEW r \in Sound, NEW o \in Procs \cup {None}, NEW b \in BOOLEAN,
         NEW s \in Statuses \ {"applied"}
  PROVE  /\ [r EXCEPT !.owner = o] \in Sound /\ [r EXCEPT !.owner = o].id = r.id
         /\ [r EXCEPT !.status = s] \in Sound
         /\ [r EXCEPT !.selected = b] \in Sound
         /\ Settled(r) \in Sound
BY DEF Sound, Record, Statuses, Settled

\* A new record.
LEMMA CreatedSound ==
  ASSUME NEW p \in Procs, NEW t \in Trees
  PROVE  Created(p, t) \in Sound /\ Created(p, t).id = t
BY DEF Created, Sound, Record, Statuses

\* Where a call stands tells which fields it carries.
LEMMA Shapes ==
  ASSUME Types, NEW p \in Procs
  PROVE  /\ op[p].at = "mark" => op[p] \in Marking
         /\ op[p].at = "append" => op[p] \in Appending
         /\ op[p].at \in {"gc", "rebuild"} => op[p] \in Listing
         /\ op[p].at = "delete" => op[p] \in Deleting
         /\ op[p].at = "unlink" => op[p] \in Unlinking
         /\ op[p].at \in {"write", "undo"} => op[p] \in Writing
<1>1. op[p] \in Ops
  BY DEF Types
<1> QED BY <1>1 DEF Ops, Idle, Marking, Appending, Listing, Deleting, Unlinking, Writing

LEMMA UpdateType ==
  ASSUME NEW why \in Whys, NEW recs \in SUBSET Sound
  PROVE  /\ Update(why, recs) \in Marking /\ Update(why, recs).at = "mark"
         /\ Update(why, recs).why = why
BY DEF Update, Marking

-----------------------------------------------------------------------------
(* What a step needs to show.                                              *)

\* The call of p, and nothing else, moves on.
Moves(p) == \A q \in Procs \ {p} : op'[q] = op[q]

\* An apply that has its receipt and not yet its record.
Recorder(p) == op[p].at \in {"mark", "append"} /\ op[p].why = "apply"

LEMMA EnterMoves ==
  ASSUME Types, NEW p \in Procs, NEW o \in Ops, Enter(p, o)
  PROVE  op' \in [Procs -> Ops] /\ op'[p] = o /\ Moves(p)
BY DEF Types, Enter, Moves

\* A step that neither takes nor drops the lock.
LEMMA KeepsLock ==
  ASSUME Locked, NEW p \in Procs, Moves(p), lock' = lock, Settling(p)' <=> Settling(p)
  PROVE  Locked'
BY DEF Locked, Moves, Settling, Applying

\* A step that takes it.
LEMMA TakesLock ==
  ASSUME Locked, NEW p \in Procs, Moves(p), lock = None, lock' = p, Settling(p)'
  PROVE  Locked'
<1>1. \A q \in Procs : ~Settling(q)
  BY WorktreeAssumption DEF Locked
<1> QED BY <1>1 DEF Locked, Moves, Settling, Applying

\* Returning drops it.
LEMMA ReturnsLock ==
  ASSUME Types, Locked, NEW p \in Procs, Return(p)
  PROVE  /\ Locked' /\ op' \in [Procs -> Ops] /\ op'[p] = Idle /\ Moves(p)
         /\ ~Applying(p)' /\ ~Recorder(p)' /\ lock' \in Procs \cup {None}
<1>1. Idle \in Ops /\ Enter(p, Idle)
  BY DEF Ops, Return
<1>2. op' \in [Procs -> Ops] /\ op'[p] = Idle /\ Moves(p)
  BY <1>1, EnterMoves
<1>3. ~Applying(p)' /\ ~Recorder(p)' /\ ~Settling(p)'
  BY <1>2 DEF Idle, Applying, Settling, Recorder
<1>4. lock' # p /\ \A q \in Procs \ {p} : lock' = q <=> lock = q
  BY WorktreeAssumption DEF Return
<1>5. \A q \in Procs \ {p} : Settling(q)' <=> Settling(q)
  BY <1>2 DEF Moves, Settling, Applying
<1>6. lock' \in Procs \cup {None}
  BY DEF Return, Types
<1> QED BY <1>2, <1>3, <1>4, <1>5, <1>6 DEF Locked

\* At most one apply runs, and none while the lock is free.
LEMMA OneSettles ==
  ASSUME Locked, NEW p \in Procs, NEW q \in Procs, Settling(p), Settling(q)
  PROVE  p = q /\ lock = p
BY DEF Locked

\* A call that is not an apply leaves the apply of another one as it is.
LEMMA AsideStep ==
  ASSUME IInv, Types', Locked', NEW p \in Procs, Moves(p), ~Applying(p), ~Applying(p)',
         UNCHANGED <<parent, plans, past>>, ~lapsed' => ~lapsed /\ ~Forgotten'
  PROVE  IInv'
<1>1. \A q \in Procs : /\ Applying(q)' <=> Applying(q)
                       /\ Applying(q) => op'[q] = op[q]
  BY DEF Moves, Applying
<1>2. Half'
  BY <1>1 DEF IInv, Half, Midway
<1>3. ParentAccounted'
  BY <1>1 DEF IInv, ParentAccounted
<1>4. Final'
  BY <1>1 DEF IInv, Final
<1> QED BY <1>2, <1>3, <1>4 DEF IInv

\* No mark goes as long as the registry stays and no recording is cut short.
LEMMA MarksStay ==
  ASSUME IInv, NEW p \in Procs, Moves(p), Recorder(p) => Recorder(p)',
         UNCHANGED <<registry, lapsed>>, past'.completed = past.completed
  PROVE  ~lapsed' => ~lapsed /\ ~Forgotten'
<1>1. \A t \in past.completed : Recording(t) => Recording(t)'
  BY DEF Recording, Recorder, Moves
<1>2. ~lapsed => ~Forgotten
  BY DEF IInv, Final
<1> QED BY <1>1, <1>2 DEF Forgotten

\* A call that holds no lock and does not touch the registry.
LEMMA QuietStep ==
  ASSUME IInv, Types', NEW p \in Procs, Moves(p), ~Settling(p), ~Settling(p)',
         UNCHANGED <<registry, parent, plans, past, lapsed, lock>>
  PROVE  IInv'
<1>1. ~Applying(p) /\ ~Applying(p)' /\ ~Recorder(p)
  BY DEF Settling, Recorder, Applying
<1>2. Locked'
  BY KeepsLock DEF IInv
<1>3. ~lapsed' => ~lapsed /\ ~Forgotten'
  BY <1>1, MarksStay
<1> QED BY <1>1, <1>2, <1>3, AsideStep

LEMMA CountType ==
  ASSUME Types, NEW n \in Nat, Events(n)
  PROVE  count' \in 0 .. MaxEvents
BY WorktreeAssumption DEF Types, Events

-----------------------------------------------------------------------------
(* One lemma per action: the calls without the lock.                       *)

LEMMA IdleCalls ==
  ASSUME IInv, NEW p \in Procs, NEW o \in Ops, At(p, "idle"), Enter(p, o), Events(1),
         o.at \in {"mark", "append"} => o.why \notin {"select", "apply"},
         o.at \notin {"write", "undo"},
         UNCHANGED <<disk, content, reviews, lock, history>>
  PROVE  IInv'
<1>1. Types /\ count' \in 0 .. MaxEvents
  BY CountType DEF IInv
<1>2. op' \in [Procs -> Ops] /\ op'[p] = o /\ Moves(p)
  BY <1>1, EnterMoves
<1>3. Types'
  BY <1>1, <1>2 DEF Types, disk, content, reviews, history
<1>4. ~Settling(p) /\ ~Settling(p)'
  BY <1>2 DEF At, Settling, Applying
<1> QED BY <1>2, <1>3, <1>4, QuietStep DEF disk, content, reviews, history

LEMMA AdoptStep ==
  ASSUME IInv, NEW p \in Procs, NEW t \in Trees, Adopt(p, t)
  PROVE  IInv'
<1> DEFINE r == [registry[t] EXCEPT !.owner = p, !.status = "alive"]
<1>1. registry[t] \in Sound
  BY DEF Adopt, Known, IInv, Types
<1>2. r \in Sound
  BY <1>1 DEF Sound, Record, Statuses
<1>3. Update("adopt", {r}) \in Ops /\ Update("adopt", {r}).at = "mark"
      /\ Update("adopt", {r}).why = "adopt"
  BY <1>2, UpdateType DEF Whys, Ops
<1> QED BY <1>3, IdleCalls DEF Adopt

LEMMA IgnoreStep ==
  ASSUME IInv, NEW p \in Procs, NEW t \in Trees, Ignore(p, t)
  PROVE  IInv'
<1> DEFINE r == [registry[t] EXCEPT !.status = "ignored"]
<1>1. registry[t] \in Sound
  BY DEF Ignore, Known, IInv, Types
<1>2. r \in Sound
  BY <1>1, Rewritten DEF Statuses
<1>3. Update("ignore", {r}) \in Ops /\ Update("ignore", {r}).at = "mark"
      /\ Update("ignore", {r}).why = "ignore"
  BY <1>2, UpdateType DEF Whys, Ops
<1> QED BY <1>3, IdleCalls DEF Ignore

LEMMA GcStep ==
  ASSUME IInv, NEW p \in Procs, Gc(p)
  PROVE  IInv'
<1> DEFINE recs == {r \in Listed : r.status = "alive"}
           o == [at |-> "gc", recs |-> recs]
<1>1. recs \subseteq Sound
  BY DEF Listed, Members, Known, IInv, Types
<1>2. o \in Ops
  BY <1>1 DEF Ops, Listing
<1> QED BY <1>2, IdleCalls DEF Gc

LEMMA RemoveStep ==
  ASSUME IInv, NEW p \in Procs, NEW t \in Trees, NEW force \in BOOLEAN, Remove(p, t, force)
  PROVE  IInv'
<1> DEFINE r == [registry[t] EXCEPT !.status = "removed"]
           o == [at |-> "delete", force |-> force, rec |-> r]
<1>1. registry[t] \in Sound
  BY DEF Remove, Known, IInv, Types
<1>2. r \in Sound
  BY <1>1, Rewritten DEF Statuses
<1>3. o \in Ops
  BY <1>2 DEF Ops, Deleting
<1> QED BY <1>3, IdleCalls DEF Remove

LEMMA RebuildStep ==
  ASSUME IInv, NEW p \in Procs, Rebuild(p)
  PROVE  IInv'
<1> DEFINE recs == {control[t] : t \in Trees} \ {None}
           o == [at |-> "rebuild", recs |-> recs]
<1>1. recs \subseteq Sound
  BY DEF IInv, Types
<1>2. o \in Ops
  BY <1>1 DEF Ops, Listing
<1> QED BY <1>2, IdleCalls DEF Rebuild

LEMMA CreateStep ==
  ASSUME IInv, NEW p \in Procs, NEW t \in Trees, Create(p, t)
  PROVE  IInv'
<1> DEFINE o == Update("create", {Created(p, t)})
<1>1. o \in Ops /\ o.at = "mark" /\ o.why = "create"
  BY CreatedSound, UpdateType DEF Whys, Ops
<1>2. Types /\ count' \in 0 .. MaxEvents
  BY CountType DEF IInv, Create
<1>3. op' \in [Procs -> Ops] /\ op'[p] = o /\ Moves(p)
  BY <1>1, <1>2, EnterMoves DEF Create
<1>4. Types'
  BY <1>2, <1>3 DEF Create, Types, content, reviews, history
<1>5. ~Settling(p) /\ ~Settling(p)'
  BY <1>1, <1>3 DEF Create, At, Settling, Applying
<1> QED BY <1>3, <1>4, <1>5, QuietStep DEF Create, content, reviews, history

LEMMA GcVisitStep ==
  ASSUME IInv, NEW p \in Procs, GcVisit(p)
  PROVE  IInv'
<1>1. Types /\ op[p] \in Listing
  BY Shapes DEF IInv, GcVisit, At
<1>2. PICK r \in op[p].recs :
        Enter(p, IF ~Live(r) /\ Managed(r.id)
                 THEN [Update("gc", {[r EXCEPT !.status = "adoptable"]})
                         EXCEPT !.rest = op[p].recs \ {r}]
                 ELSE IF op[p].recs \ {r} = {} THEN Idle
                      ELSE [at |-> "gc", recs |-> op[p].recs \ {r}])
  BY DEF GcVisit
<1> DEFINE u == Update("gc", {[r EXCEPT !.status = "adoptable"]})
<1>3. op[p].recs \subseteq Sound
  BY <1>1 DEF Listing
<1>4. [r EXCEPT !.status = "adoptable"] \in Sound
  BY <1>2, <1>3, Rewritten DEF Statuses
<1>5. u \in Marking /\ u.why = "gc"
  BY <1>4, UpdateType DEF Whys
<1> HIDE DEF u
<1>6. /\ [u EXCEPT !.rest = op[p].recs \ {r}] \in Marking
      /\ [u EXCEPT !.rest = op[p].recs \ {r}].why = "gc"
  BY <1>3, <1>5 DEF Marking
<1>7. [at |-> "gc", recs |-> op[p].recs \ {r}] \in Listing
  BY <1>3 DEF Listing
<1>8. PICK o \in Ops : /\ Enter(p, o) /\ o.at \notin {"append", "write", "undo"}
                       /\ o.at = "mark" => o.why = "gc"
  <2>1. CASE ~Live(r) /\ Managed(r.id)
    <3>1. Enter(p, [u EXCEPT !.rest = op[p].recs \ {r}])
      BY <1>2, <2>1 DEF u
    <3> QED BY <1>6, <3>1 DEF Ops, Marking
  <2>2. CASE ~(~Live(r) /\ Managed(r.id)) /\ op[p].recs \ {r} = {}
    BY <1>2, <2>2 DEF Ops, Idle
  <2>3. CASE ~(~Live(r) /\ Managed(r.id)) /\ op[p].recs \ {r} # {}
    <3>1. Enter(p, [at |-> "gc", recs |-> op[p].recs \ {r}])
      BY <1>2, <2>3
    <3> QED BY <1>7, <3>1 DEF Ops
  <2> QED BY <2>1, <2>2, <2>3
<1>9. op' \in [Procs -> Ops] /\ op'[p] = o /\ Moves(p)
  BY <1>1, <1>8, EnterMoves
<1>10. Types'
  BY <1>1, <1>9 DEF GcVisit, Types, disk, content, reviews, history
<1>11. ~Settling(p) /\ ~Settling(p)'
  BY <1>8, <1>9 DEF GcVisit, At, Settling, Applying
<1> QED BY <1>9, <1>10, <1>11, QuietStep DEF GcVisit, disk, content, reviews, history

LEMMA DeleteStep ==
  ASSUME IInv, NEW p \in Procs, Delete(p)
  PROVE  IInv'
<1>1. Types /\ Locked /\ op[p] \in Deleting /\ op[p].rec \in Sound /\ ~Settling(p)
  BY Shapes DEF IInv, Delete, At, Deleting, Settling, Applying
<1>2. CASE Return(p) /\ UNCHANGED <<dir, child>>
  <2>1. /\ Locked' /\ op' \in [Procs -> Ops] /\ op'[p] = Idle /\ Moves(p)
        /\ ~Applying(p)' /\ ~Recorder(p)' /\ lock' = lock
    BY <1>1, <1>2, ReturnsLock DEF Return, Locked
  <2>2. Types'
    BY <1>1, <1>2, <2>1 DEF Delete, Types, reviews, history
  <2>3. ~Settling(p)'
    BY <2>1 DEF Settling, Applying, Idle
  <2> QED BY <1>1, <2>1, <2>2, <2>3, QuietStep DEF Delete, reviews, history
<1>3. CASE ~(Return(p) /\ UNCHANGED <<dir, child>>)
  <2> DEFINE t == op[p].rec.id
             o == [at |-> "unlink", rec |-> op[p].rec]
  <2>1. /\ dir' = dir \ {t} /\ child' = [child EXCEPT ![t] = [f \in Files |-> Base]]
        /\ Enter(p, o) /\ lock' = lock
    BY <1>3 DEF Delete, Enter
  <2>2. o \in Ops
    BY <1>1 DEF Ops, Unlinking
  <2>3. op' \in [Procs -> Ops] /\ op'[p] = o /\ Moves(p)
    BY <1>1, <2>1, <2>2, EnterMoves
  <2>4. child' \in [Trees -> [Files -> Bytes]]
    BY <1>1, <2>1 DEF Types, Bytes
  <2>5. Types'
    BY <1>1, <2>1, <2>3, <2>4 DEF Delete, Types, reviews, history
  <2>6. ~Settling(p)'
    BY <2>3 DEF Settling, Applying
  <2> QED BY <1>1, <2>1, <2>3, <2>5, <2>6, QuietStep DEF Delete, reviews, history
<1> QED BY <1>2, <1>3

LEMMA UnlinkStep ==
  ASSUME IInv, NEW p \in Procs, Unlink(p)
  PROVE  IInv'
<1> DEFINE o == [at |-> "append", why |-> "remove", rec |-> op[p].rec, recs |-> {}, rest |-> {}]
<1>1. Types /\ op[p] \in Unlinking /\ op[p].rec \in Sound /\ ~Settling(p)
  BY Shapes DEF IInv, Unlink, At, Unlinking, Settling, Applying
<1>2. o \in Ops
  BY <1>1 DEF Ops, Appending, Whys
<1>3. op' \in [Procs -> Ops] /\ op'[p] = o /\ Moves(p)
  BY <1>1, <1>2, EnterMoves DEF Unlink, Enter
<1>4. control' \in [Trees -> Sound \cup {None}] /\ \A t \in Trees : control'[t] \in Slot(t)
  BY <1>1 DEF Unlink, Types, Slot
<1>5. Types'
  BY <1>1, <1>3, <1>4 DEF Unlink, Types, content, reviews, history
<1>6. ~Settling(p)'
  BY <1>3 DEF Settling, Applying
<1> QED BY <1>1, <1>3, <1>5, <1>6, QuietStep DEF Unlink, content, reviews, history

-----------------------------------------------------------------------------
(* update_record and rebuild.                                              *)

LEMMA FirstSubset ==
  ASSUME NEW recs
  PROVE  First(recs) \subseteq recs
BY DEF First

\* A step that may lose a mark is remembered if it does.
LEMMA RememberedStep ==
  ASSUME IInv, Types', Locked', NEW p \in Procs, Moves(p), ~Applying(p), ~Applying(p)',
         UNCHANGED <<parent, plans, past>>, Remember
  PROVE  IInv'
<1>1. ~lapsed' => ~lapsed /\ ~Forgotten'
  BY DEF Remember
<1> QED BY <1>1, AsideStep

LEMMA MarkStep ==
  ASSUME IInv, NEW p \in Procs, Mark(p)
  PROVE  IInv'
<1>1. Types /\ Locked /\ op[p] \in Marking /\ op[p].at = "mark"
  BY Shapes DEF IInv, Mark, At
<1>2. PICK r \in First(op[p].recs) :
        /\ control' = [control EXCEPT ![r.id] = r]
        /\ op' = [op EXCEPT ![p] = [at |-> "append", why |-> op[p].why, rec |-> r,
                                    recs |-> op[p].recs \ {r}, rest |-> op[p].rest]]
  BY DEF Mark
<1> DEFINE o == [at |-> "append", why |-> op[p].why, rec |-> r,
                 recs |-> op[p].recs \ {r}, rest |-> op[p].rest]
<1>3. r \in Sound /\ r.id \in Trees
  BY <1>1, <1>2, FirstSubset DEF Marking, Sound, Record
<1>4. o \in Ops
  BY <1>1, <1>3 DEF Ops, Appending, Marking
<1>5. op' \in [Procs -> Ops] /\ op'[p] = o /\ Moves(p)
  BY <1>1, <1>2, <1>4, EnterMoves DEF Enter
<1>6. control' \in [Trees -> Sound \cup {None}] /\ \A t \in Trees : control'[t] \in Slot(t)
  BY <1>1, <1>2, <1>3 DEF Types, Slot
<1>7. Types'
  BY <1>1, <1>5, <1>6 DEF Mark, Types, content, reviews, history
<1>8. /\ Settling(p)' <=> Settling(p)
      /\ Recorder(p) => Recorder(p)'
      /\ ~Applying(p) /\ ~Applying(p)'
  BY <1>1, <1>5 DEF Settling, Applying, Recorder
<1>9. Locked'
  BY <1>1, <1>5, <1>8, KeepsLock DEF Mark
<1>10. ~lapsed' => ~lapsed /\ ~Forgotten'
  BY <1>5, <1>8, MarksStay DEF Mark, history
<1> QED BY <1>5, <1>7, <1>8, <1>9, <1>10, AsideStep DEF Mark, content, reviews, history

LEMMA MarkFailsStep ==
  ASSUME IInv, NEW p \in Procs, MarkFails(p)
  PROVE  IInv'
<1>1. Types /\ Locked /\ Return(p) /\ ~Applying(p) /\ op[p] \in Marking
  BY Shapes DEF IInv, MarkFails, At, Applying
<1>2. PICK r \in First(op[p].recs) : control' = [control EXCEPT ![r.id] = r]
  BY DEF MarkFails
<1>3. r \in Sound /\ r.id \in Trees
  BY <1>1, <1>2, FirstSubset DEF Marking, Sound, Record
<1>4. control' \in [Trees -> Sound \cup {None}] /\ \A t \in Trees : control'[t] \in Slot(t)
  BY <1>1, <1>2, <1>3 DEF Types, Slot
<1>5. /\ Locked' /\ op' \in [Procs -> Ops] /\ Moves(p) /\ ~Applying(p)'
      /\ lock' \in Procs \cup {None}
  BY <1>1, ReturnsLock
<1>6. Types'
  BY <1>1, <1>5, <1>4 DEF MarkFails, Types, content, reviews, Remember, Forgotten
<1> QED BY <1>1, <1>5, <1>6, RememberedStep DEF MarkFails, content, reviews

LEMMA AppendStep ==
  ASSUME IInv, NEW p \in Procs, Append(p)
  PROVE  IInv'
<1>1. Types /\ Locked /\ op[p] \in Appending /\ ~Applying(p) /\ op[p].at = "append"
  BY Shapes DEF IInv, Append, At, Applying
<1>2. op[p].rec \in Sound /\ op[p].rec.id \in Trees
  BY <1>1 DEF Appending, Sound, Record
<1>3. registry' \in [Trees -> Sound \cup {None}] /\ \A t \in Trees : registry'[t] \in Slot(t)
  BY <1>1, <1>2 DEF Append, Types, Slot
<1>4. /\ Locked' /\ op' \in [Procs -> Ops] /\ Moves(p) /\ ~Applying(p)'
      /\ lock' \in Procs \cup {None}
  <2>1. CASE op[p].recs \cup op[p].rest = {}
    BY <1>1, <2>1, ReturnsLock DEF Append
  <2>2. CASE op[p].recs # {}
    <3> DEFINE o == Update(op[p].why, op[p].recs)
    <3>1. Enter(p, o) /\ lock' = lock
      BY <2>2 DEF Append
    <3>2. o \in Ops /\ o.at = "mark" /\ o.why = op[p].why
      BY <1>1, UpdateType DEF Appending, Ops
    <3>3. op' \in [Procs -> Ops] /\ op'[p] = o /\ Moves(p)
      BY <1>1, <3>1, <3>2, EnterMoves
    <3>4. (Settling(p)' <=> Settling(p)) /\ ~Applying(p)'
      BY <1>1, <3>2, <3>3 DEF Settling, Applying
    <3> QED BY <1>1, <3>1, <3>3, <3>4, KeepsLock DEF Types
  <2>3. CASE op[p].recs = {} /\ op[p].rest # {}
    <3> DEFINE o == [at |-> "gc", recs |-> op[p].rest]
    <3>1. Enter(p, o) /\ lock' = lock
      BY <2>3 DEF Append
    <3>2. o \in Ops
      BY <1>1 DEF Appending, Ops, Listing
    <3>3. op' \in [Procs -> Ops] /\ op'[p] = o /\ Moves(p)
      BY <1>1, <3>1, <3>2, EnterMoves
    <3>4. ~Settling(p)' /\ ~Applying(p)'
      BY <3>3 DEF Settling, Applying
    <3>5. ~Settling(p)
      BY <1>1, <2>3 DEF Appending, Settling, Applying
    <3> QED BY <1>1, <3>1, <3>3, <3>4, <3>5, KeepsLock DEF Types
  <2> QED BY <2>1, <2>2, <2>3
<1>5. Types'
  BY <1>1, <1>3, <1>4 DEF Append, Types, content, reviews, Remember, Forgotten
<1> QED BY <1>1, <1>4, <1>5, RememberedStep DEF Append, content, reviews

LEMMA AppendFailsStep ==
  ASSUME IInv, NEW p \in Procs, AppendFails(p)
  PROVE  IInv'
<1>1. Types /\ Locked /\ Return(p) /\ ~Applying(p) /\ count' \in 0 .. MaxEvents
  BY CountType DEF IInv, AppendFails, At, Applying
<1>2. /\ Locked' /\ op' \in [Procs -> Ops] /\ Moves(p) /\ ~Applying(p)'
      /\ lock' \in Procs \cup {None}
  BY <1>1, ReturnsLock
<1>3. /\ dir' \subseteq used'
      /\ control' \in [Trees -> Sound \cup {None}] /\ \A t \in Trees : control'[t] \in Slot(t)
  BY <1>1 DEF AppendFails, Types, Slot
<1>4. Types'
  BY <1>1, <1>2, <1>3 DEF AppendFails, Types, content, reviews, Remember, Forgotten
<1> QED BY <1>1, <1>2, <1>4, RememberedStep DEF AppendFails, content, reviews

LEMMA ReplaceStep ==
  ASSUME IInv, NEW p \in Procs, Replace(p)
  PROVE  IInv'
<1>1. Types /\ Locked /\ Return(p) /\ ~Applying(p) /\ op[p] \in Listing
  BY Shapes DEF IInv, Replace, At, Applying
<1>2. /\ Locked' /\ op' \in [Procs -> Ops] /\ Moves(p) /\ ~Applying(p)'
      /\ lock' \in Procs \cup {None}
  BY <1>1, ReturnsLock
<1>3. ASSUME NEW t \in Trees PROVE registry'[t] \in Slot(t) /\ registry'[t] \in Sound \cup {None}
  <2>1. op[p].recs \subseteq Sound
    BY <1>1 DEF Listing
  <2> QED BY <2>1 DEF Replace, Slot
<1>4. registry' \in [Trees -> Sound \cup {None}]
  BY <1>3 DEF Replace
<1>5. Types'
  BY <1>1, <1>2, <1>3, <1>4 DEF Replace, Types, content, reviews, Remember, Forgotten
<1> QED BY <1>1, <1>2, <1>5, RememberedStep DEF Replace, content, reviews

-----------------------------------------------------------------------------
(* The calls under the settlement lock.                                    *)

LEMMA SelectStep ==
  ASSUME IInv, NEW p \in Procs, NEW t \in Trees, Select(p, t)
  PROVE  IInv'
<1> DEFINE off == {[r EXCEPT !.selected = FALSE] :
                     r \in {m \in Members : m.id # t /\ m.selected}}
           on == IF registry[t].selected THEN {}
                 ELSE {[registry[t] EXCEPT !.selected = TRUE]}
           o == Update("select", off \cup on)
<1>1. Types /\ Locked /\ count' \in 0 .. MaxEvents
  BY CountType DEF IInv, Select
<1>2. Members \subseteq Sound /\ registry[t] \in Sound
  BY <1>1 DEF Members, Known, Types, Select
<1>3. \A r \in Sound : /\ [r EXCEPT !.selected = FALSE] \in Sound
                       /\ [r EXCEPT !.selected = TRUE] \in Sound
  BY DEF Sound, Record
<1>4. off \cup on \subseteq Sound
  BY <1>2, <1>3
<1> HIDE DEF off, on
<1>5. o \in Ops /\ o.at = "mark" /\ o.why = "select"
  BY <1>4, UpdateType DEF Whys, Ops
<1>6. op' \in [Procs -> Ops] /\ op'[p] = o /\ Moves(p)
  BY <1>1, <1>5, EnterMoves DEF Select, off, on
<1>7. Types'
  BY <1>1, <1>6 DEF Select, Types, disk, content, reviews, history
<1>8. ~Applying(p) /\ ~Recorder(p) /\ ~Applying(p)' /\ Settling(p)'
  BY <1>5, <1>6 DEF Select, At, Settling, Applying, Recorder
<1>9. Locked'
  BY <1>1, <1>6, <1>8, TakesLock DEF Select
<1>10. ~lapsed' => ~lapsed /\ ~Forgotten'
  BY <1>6, <1>8, MarksStay DEF Select, disk, history
<1> QED BY <1>6, <1>7, <1>8, <1>9, <1>10, AsideStep DEF Select, content, reviews, history

\* Nobody applies while the lock is free.
LEMMA FreeLock ==
  ASSUME IInv, lock = None, NEW p \in Procs
  PROVE  ~Settling(p) /\ ~Applying(p) /\ ~Recorder(p)
BY WorktreeAssumption DEF IInv, Locked, Settling, Recorder

LEMMA PlanApplyStep ==
  ASSUME IInv, NEW p \in Procs, NEW t \in Trees, PlanApply(p, t)
  PROVE  IInv'
<1>1. Types /\ count' \in 0 .. MaxEvents /\ lock = None
  BY CountType DEF IInv, PlanApply
<1>2. UNCHANGED <<disk, content, receipts, lock, op, history>>
  BY DEF PlanApply
<1> DEFINE plan == [tree |-> t, head |-> head, child |-> child[t], parent |-> parent,
                    ops |-> {f \in Files : child[t][f] # Base}]
<1>3. PICK i \in 1 .. MaxPlans : plans[i] = None /\ plans' = [plans EXCEPT ![i] = plan]
  BY DEF PlanApply
<1>4. plan \in Plan
  BY <1>1 DEF Types, Plan
<1>5. plans' \in [1 .. MaxPlans -> Plan \cup {None}]
  BY <1>1, <1>3, <1>4 DEF Types
<1>6. \A j \in 1 .. MaxPlans : plans[j] # None => plans'[j] # None
  BY <1>1, <1>3 DEF Types
<1>7. Types'
  BY <1>1, <1>2, <1>5, <1>6 DEF Types, disk, content, history
<1>8. \A q \in Procs : ~Applying(q) /\ ~Applying(q)'
  BY <1>1, <1>2, FreeLock DEF Applying
<1>9. Locked' /\ Half' /\ ParentAccounted'
  BY <1>2, <1>8 DEF IInv, Locked, Settling, Applying, Half, ParentAccounted, content, history
<1>10. Forgotten' <=> Forgotten
  BY <1>2 DEF Forgotten, Recording, disk, history
<1>11. Final'
  BY <1>2, <1>8, <1>10 DEF IInv, Final, history
<1> QED BY <1>7, <1>9, <1>11 DEF IInv

\* The mark of a completed apply keeps apply away from the other candidates.
LEMMA OnlyCompleted ==
  ASSUME IInv, lock = None, ~lapsed, NEW u \in Trees,
         \A r \in Members : r.id # u => ~r.applied
  PROVE  past.completed \subseteq {u}
<1> SUFFICES ASSUME NEW t \in past.completed PROVE t = u
  OBVIOUS
<1>1. t \in Trees /\ registry[t] \in Slot(t)
  BY DEF IInv, Types
<1>2. ~Recording(t)
  BY FreeLock DEF Recording, Recorder
<1>3. registry[t] # None /\ (registry[t].status = "applied" \/ registry[t].applied)
  BY <1>2 DEF IInv, Final, Forgotten
<1>4. registry[t] \in Members /\ registry[t].id = t /\ registry[t].applied
  BY <1>1, <1>3 DEF Slot, Sound, Members, Known
<1> QED BY <1>4

LEMMA ApplyStep ==
  ASSUME IInv, NEW p \in Procs, NEW i \in 1 .. MaxPlans, NEW approved \in SUBSET Files,
         Apply(p, i, approved)
  PROVE  IInv'
<1> DEFINE plan == plans[i]
           o == [at |-> "write", plan |-> i, rec |-> registry[plan.tree],
                 todo |-> approved, done |-> {}, whole |-> approved = plan.ops]
<1>1. Types /\ Locked /\ count' \in 0 .. MaxEvents /\ lock = None
  BY CountType DEF IInv, Apply
<1>2. /\ plan # None /\ registry[plan.tree] # None /\ approved \subseteq plan.ops
      /\ \A r \in Members : r.id # plan.tree => ~r.applied
      /\ Fresh(plan) /\ Enter(p, o) /\ lock' = p /\ op[p].at = "idle"
      /\ past' = [past EXCEPT
           !.expected = [f \in Files |-> IF f \in approved THEN parent[f] ELSE past.expected[f]],
           !.excused = past.excused \ approved]
      /\ UNCHANGED <<disk, content, reviews, lapsed>>
  BY DEF Apply, At
<1>3. plan \in Plan /\ plan.tree \in Trees /\ registry[plan.tree] \in Sound
  BY <1>1, <1>2 DEF Types, Plan
<1>4. o \in Ops
  BY <1>3 DEF Ops, Writing
<1>5. op' \in [Procs -> Ops] /\ op'[p] = o /\ Moves(p)
  BY <1>1, <1>2, <1>4, EnterMoves
<1>6. /\ past' \in [expected : [Files -> Bytes], excused : SUBSET Files, completed : SUBSET Trees]
      /\ past'.completed = past.completed /\ past'.excused = past.excused \ approved
      /\ \A f \in Files : past'.expected[f] = IF f \in approved THEN parent[f] ELSE past.expected[f]
  BY <1>1, <1>2 DEF Types
<1>7. Types'
  BY <1>1, <1>2, <1>5, <1>6 DEF Types, disk, content, reviews
<1>8. /\ Settling(p)' /\ Applying(p)' /\ ~Recorder(p)
      /\ \A q \in Procs \ {p} : ~Applying(q) /\ ~Applying(q)'
  BY <1>1, <1>2, <1>5, FreeLock DEF Settling, Applying, Recorder, Moves
<1>9. Locked'
  BY <1>1, <1>2, <1>5, <1>8, TakesLock
<1>10. Half'
  <2>1. Midway(p)'
    <3>1. /\ op'[p].plan = i /\ op'[p].todo = approved /\ op'[p].done = {}
          /\ plans' = plans /\ parent' = parent
      BY <1>2, <1>5 DEF reviews, content
    <3>2. \A f \in approved : past'.expected[f] = plan.parent[f] /\ parent[f] = plan.parent[f]
      BY <1>2, <1>6 DEF Fresh
    <3> QED BY <1>2, <3>1, <3>2 DEF Midway
  <2> QED BY <1>8, <2>1 DEF Half
<1>11. ParentAccounted'
  <2>1. \A q \in Procs : ~Applying(q)
    BY <1>1, FreeLock
  <2> QED BY <1>2, <1>6, <2>1 DEF IInv, ParentAccounted, content
<1>12. Final'
  <2>1. ~lapsed' => ~lapsed /\ ~Forgotten'
    BY <1>2, <1>5, <1>6, <1>8, MarksStay DEF disk
  <2>2. ~lapsed => past.completed \subseteq {plan.tree}
    BY <1>1, <1>2, <1>3, OnlyCompleted
  <2>3. plans'[op'[p].plan] = plan
    BY <1>2, <1>5 DEF reviews
  <2> QED BY <1>6, <1>8, <2>1, <2>2, <2>3 DEF IInv, Final
<1> QED BY <1>7, <1>9, <1>10, <1>11, <1>12 DEF IInv

\* What the apply of p knows of itself.
LEMMA InApply ==
  ASSUME IInv, NEW p \in Procs, Applying(p)
  PROVE  /\ op[p] \in Writing /\ plans[op[p].plan] \in Plan /\ Midway(p) /\ Settling(p)
         /\ op[p].todo \subseteq Files /\ op[p].done \subseteq Files
         /\ \A q \in Procs \ {p} : ~Applying(q) /\ ~Settling(q)
<1>1. Types /\ Locked /\ Midway(p) /\ Settling(p)
  BY DEF IInv, Half, Settling
<1>2. op[p] \in Writing
  BY <1>1, Shapes DEF Applying
<1>3. plans[op[p].plan] \in Plan
  BY <1>1, <1>2 DEF Types, Writing, Midway
<1>4. \A q \in Procs \ {p} : ~Settling(q)
  BY <1>1 DEF Locked
<1> QED BY <1>1, <1>2, <1>3, <1>4 DEF Writing, Settling

\* A step inside the apply of p.
LEMMA WithinApply ==
  ASSUME IInv, Types', NEW p \in Procs, Moves(p), Applying(p), Applying(p)', Midway(p)',
         op'[p].plan = op[p].plan, UNCHANGED <<registry, plans, past, lapsed, lock>>,
         \A f \in Files : parent'[f] = parent[f] \/ f \in op[p].done \cup op'[p].done,
         \A f \in op[p].done \ op'[p].done :
           f \in past.excused \/ parent'[f] = past.expected[f],
         op[p].done \subseteq Files
  PROVE  IInv'
<1>1. \A q \in Procs \ {p} : ~Applying(q) /\ ~Applying(q)'
  BY InApply DEF Applying, Moves
<1>2. Settling(p) /\ Settling(p)' /\ ~Recorder(p)
  BY DEF Settling, Applying, Recorder
<1>3. Locked'
  BY <1>2, KeepsLock DEF IInv
<1>4. Half'
  BY <1>1 DEF Half
<1>5. ParentAccounted'
  <2> SUFFICES ASSUME NEW f \in Files \ past.excused, f \notin op'[p].done
               PROVE  parent'[f] = past.expected[f]
    BY DEF ParentAccounted
  <2>1. CASE f \in op[p].done
    BY <2>1
  <2>2. CASE f \notin op[p].done
    <3>1. parent[f] = past.expected[f]
      BY <1>1, <2>2 DEF IInv, ParentAccounted
    <3> QED BY <2>2, <3>1
  <2> QED BY <2>1, <2>2
<1>6. Final'
  <2>1. ~lapsed' => ~lapsed /\ ~Forgotten'
    BY <1>2, MarksStay
  <2> QED BY <1>1, <2>1 DEF IInv, Final
<1> QED BY <1>3, <1>4, <1>5, <1>6 DEF IInv

LEMMA WriteStep ==
  ASSUME IInv, NEW p \in Procs, Write(p)
  PROVE  IInv'
<1>1. /\ Types /\ Applying(p) /\ op[p].at = "write" /\ op[p].todo # {}
      /\ UNCHANGED <<disk, child, head, reviews, lock, count, history>>
  BY DEF IInv, Write, At, Applying
<1>2. /\ op[p] \in Writing /\ plans[op[p].plan] \in Plan /\ Midway(p)
      /\ op[p].todo \subseteq Files /\ op[p].done \subseteq Files
  BY <1>1, InApply
<1>3. PICK f \in op[p].todo : f = Least(op[p].todo)
  BY <1>1, <1>2, Ends
<1>4. /\ parent' = [parent EXCEPT ![f] = plans[op[p].plan].child[f]]
      /\ op' = [op EXCEPT ![p].todo = @ \ {f}, ![p].done = @ \cup {f}]
  BY <1>3 DEF Write
<1>5. /\ op'[p] \in Writing /\ Moves(p) /\ op' \in [Procs -> Ops]
      /\ op'[p].at = "write" /\ op'[p].plan = op[p].plan
      /\ op'[p].todo = op[p].todo \ {f} /\ op'[p].done = op[p].done \cup {f}
  <2>1. op[p] \in Ops /\ op \in [Procs -> Ops]
    BY <1>1 DEF Types
  <2>2. op' = [op EXCEPT ![p] = [op[p] EXCEPT !.todo = op[p].todo \ {f}, !.done = op[p].done \cup {f}]]
    BY <1>4, <2>1
  <2>3. op'[p] = [op[p] EXCEPT !.todo = op[p].todo \ {f}, !.done = op[p].done \cup {f}] /\ Moves(p)
    BY <2>1, <2>2 DEF Moves
  <2>4. /\ op'[p] \in Writing /\ op'[p].at = "write" /\ op'[p].plan = op[p].plan
        /\ op'[p].todo = op[p].todo \ {f} /\ op'[p].done = op[p].done \cup {f}
    <3>1. op[p].todo \ {f} \in SUBSET Files /\ op[p].done \cup {f} \in SUBSET Files
      BY <1>2, <1>3
    <3> QED BY <1>1, <1>2, <2>3, <3>1 DEF Writing
  <2>5. op' \in [Procs -> Ops]
    BY <2>1, <2>2, <2>3, <2>4 DEF Ops
  <2> QED BY <2>3, <2>4, <2>5
<1>6. parent' \in [Files -> Bytes]
  BY <1>1, <1>2, <1>4 DEF Types, Plan
<1>7. Types'
  BY <1>1, <1>5, <1>6 DEF Types, disk, reviews, history
<1>8. /\ parent'[f] = plans[op[p].plan].child[f]
      /\ \A g \in Files \ {f} : parent'[g] = parent[g]
  BY <1>1, <1>2, <1>4 DEF Types
<1>9. Midway(p)'
  <2>1. plans' = plans /\ past' = past
    BY <1>1 DEF reviews, history
  <2> QED BY <1>2, <1>3, <1>5, <1>8, <2>1 DEF Midway
<1> QED BY <1>1, <1>2, <1>5, <1>7, <1>8, <1>9, WithinApply DEF Applying, disk, reviews, history

LEMMA WriteFailsStep ==
  ASSUME IInv, NEW p \in Procs, WriteFails(p)
  PROVE  IInv'
<1>1. /\ Types /\ Applying(p) /\ count' \in 0 .. MaxEvents
      /\ UNCHANGED <<disk, content, reviews, lock, history>>
  BY CountType DEF IInv, WriteFails, At, Applying
<1>2. /\ op[p] \in Writing /\ Midway(p) /\ op[p].done \subseteq Files
  BY <1>1, InApply
<1>3. op' = [op EXCEPT ![p] = [op[p] EXCEPT !.at = "undo"]] /\ op \in [Procs -> Ops]
  BY <1>1 DEF WriteFails, Types
<1>4. op'[p] = [op[p] EXCEPT !.at = "undo"] /\ Moves(p)
  BY <1>3 DEF Moves
<1>5. /\ op'[p] \in Writing /\ op'[p].at = "undo" /\ op'[p].plan = op[p].plan
      /\ op'[p].todo = op[p].todo /\ op'[p].done = op[p].done
  BY <1>2, <1>4 DEF Writing
<1>6. op' \in [Procs -> Ops]
  BY <1>3, <1>4, <1>5 DEF Ops
<1>7. Types'
  BY <1>1, <1>6 DEF Types, disk, content, reviews, history
<1>8. Midway(p)'
  BY <1>1, <1>2, <1>5 DEF Midway, content, reviews, history
<1> QED BY <1>1, <1>2, <1>4, <1>5, <1>7, <1>8, WithinApply
        DEF Applying, disk, content, reviews, history

LEMMA UndoStep ==
  ASSUME IInv, NEW p \in Procs, Undo(p)
  PROVE  IInv'
<1>1. /\ Types /\ Applying(p) /\ op[p].at = "undo" /\ op[p].done # {}
      /\ UNCHANGED <<disk, child, head, reviews, lock, count, history>>
  BY DEF IInv, Undo, At, Applying
<1>2. /\ op[p] \in Writing /\ plans[op[p].plan] \in Plan /\ Midway(p)
      /\ op[p].todo \subseteq Files /\ op[p].done \subseteq Files
  BY <1>1, InApply
<1>3. PICK f \in op[p].done : f = Greatest(op[p].done)
  BY <1>1, <1>2, Ends
<1>4. /\ parent' = [parent EXCEPT ![f] = plans[op[p].plan].parent[f]]
      /\ op' = [op EXCEPT ![p] = [op[p] EXCEPT !.done = op[p].done \ {f}]]
      /\ op \in [Procs -> Ops]
  BY <1>1, <1>3 DEF Undo, Types
<1>5. op'[p] = [op[p] EXCEPT !.done = op[p].done \ {f}] /\ Moves(p)
  BY <1>4 DEF Moves
<1>6. /\ op'[p] \in Writing /\ op'[p].at = "undo" /\ op'[p].plan = op[p].plan
      /\ op'[p].todo = op[p].todo /\ op'[p].done = op[p].done \ {f}
  BY <1>1, <1>2, <1>5 DEF Writing
<1>7. op' \in [Procs -> Ops]
  BY <1>4, <1>5, <1>6 DEF Ops
<1>8. parent' \in [Files -> Bytes]
  BY <1>1, <1>2, <1>4 DEF Types, Plan
<1>9. Types'
  BY <1>1, <1>7, <1>8 DEF Types, disk, reviews, history
<1>10. /\ parent'[f] = plans[op[p].plan].parent[f]
       /\ \A g \in Files \ {f} : parent'[g] = parent[g]
  BY <1>1, <1>2, <1>4 DEF Types
<1>11. f \in past.excused \/ parent'[f] = past.expected[f]
  BY <1>2, <1>10 DEF Midway
<1>12. Midway(p)'
  <2>1. plans' = plans /\ past' = past
    BY <1>1 DEF reviews, history
  <2> QED BY <1>2, <1>3, <1>6, <1>10, <2>1 DEF Midway
<1> QED BY <1>1, <1>2, <1>5, <1>6, <1>9, <1>10, <1>11, <1>12, WithinApply
        DEF Applying, disk, reviews, history

\* An apply that returns leaves no other one behind.
LEMMA EndsApply ==
  ASSUME IInv, NEW p \in Procs, Applying(p), Return(p)
  PROVE  /\ Locked' /\ op' \in [Procs -> Ops] /\ Moves(p) /\ lock' \in Procs \cup {None}
         /\ \A q \in Procs : ~Applying(q)'
         /\ \A f \in Files \ (past.excused \cup op[p].done) : parent[f] = past.expected[f]
<1>1. /\ Locked' /\ op' \in [Procs -> Ops] /\ Moves(p) /\ ~Applying(p)'
      /\ lock' \in Procs \cup {None}
  BY ReturnsLock DEF IInv
<1>2. \A q \in Procs \ {p} : ~Applying(q)
  BY InApply
<1>3. \A q \in Procs : ~Applying(q)'
  BY <1>1, <1>2 DEF Moves, Applying
<1>4. \A f \in Files \ (past.excused \cup op[p].done) : parent[f] = past.expected[f]
  BY <1>2 DEF IInv, ParentAccounted
<1> QED BY <1>1, <1>3, <1>4

\* An apply that returns with its files written: they are excused.
LEMMA LeavesWritten ==
  ASSUME IInv, NEW p \in Procs, Applying(p), Return(p), Events(1),
         past' = [past EXCEPT !.excused = past.excused \cup op[p].done],
         UNCHANGED <<disk, content, reviews, lapsed>>
  PROVE  IInv'
<1>1. Types /\ count' \in 0 .. MaxEvents
  BY CountType DEF IInv
<1>2. /\ Locked' /\ op' \in [Procs -> Ops] /\ Moves(p) /\ lock' \in Procs \cup {None}
      /\ \A q \in Procs : ~Applying(q)'
      /\ \A f \in Files \ (past.excused \cup op[p].done) : parent[f] = past.expected[f]
  BY EndsApply
<1>3. op[p].done \subseteq Files /\ ~Recorder(p)
  BY InApply DEF Applying, Recorder
<1>4. /\ past' \in [expected : [Files -> Bytes], excused : SUBSET Files, completed : SUBSET Trees]
      /\ past'.expected = past.expected /\ past'.completed = past.completed
      /\ past'.excused = past.excused \cup op[p].done
  BY <1>1, <1>3 DEF Types
<1>5. Types'
  BY <1>1, <1>2, <1>4 DEF Types, disk, content, reviews
<1>6. Half' /\ ParentAccounted'
  BY <1>1, <1>2, <1>4 DEF Half, ParentAccounted, content
<1>7. ~lapsed' => ~lapsed /\ ~Forgotten'
  BY <1>1, <1>2, <1>3, <1>4, MarksStay DEF disk
<1>8. Final'
  BY <1>2, <1>4, <1>7 DEF IInv, Final
<1> QED BY <1>2, <1>5, <1>6, <1>8 DEF IInv

LEMMA UndoFailsStep ==
  ASSUME IInv, NEW p \in Procs, UndoFails(p)
  PROVE  IInv'
BY LeavesWritten DEF UndoFails, At, Applying

LEMMA ReceiptFailsStep ==
  ASSUME IInv, NEW p \in Procs, ReceiptFails(p)
  PROVE  IInv'
BY LeavesWritten DEF ReceiptFails, At, Applying

LEMMA UndoneStep ==
  ASSUME IInv, NEW p \in Procs, Undone(p)
  PROVE  IInv'
<1>1. /\ Types /\ Applying(p) /\ Return(p) /\ op[p].done = {}
      /\ UNCHANGED <<disk, content, reviews, count, history>>
  BY DEF IInv, Undone, At, Applying
<1>2. /\ Locked' /\ op' \in [Procs -> Ops] /\ Moves(p) /\ lock' \in Procs \cup {None}
      /\ \A q \in Procs : ~Applying(q)'
      /\ \A f \in Files \ (past.excused \cup op[p].done) : parent[f] = past.expected[f]
  BY <1>1, EndsApply
<1>3. ~Recorder(p)
  BY <1>1 DEF Applying, Recorder
<1>4. Types'
  BY <1>1, <1>2 DEF Types, disk, content, reviews, history
<1>5. Half' /\ ParentAccounted'
  BY <1>1, <1>2 DEF Half, ParentAccounted, content, history
<1>6. ~lapsed' => ~lapsed /\ ~Forgotten'
  BY <1>1, <1>2, <1>3, MarksStay DEF disk, history
<1>7. Final'
  BY <1>1, <1>2, <1>6 DEF IInv, Final, history
<1> QED BY <1>2, <1>4, <1>5, <1>7 DEF IInv

LEMMA FinishStep ==
  ASSUME IInv, NEW p \in Procs, Finish(p)
  PROVE  IInv'
<1> DEFINE plan == plans[op[p].plan]
           written == [f \in Files |-> IF f \in op[p].done \ past.excused
                                       THEN plan.child[f] ELSE past.expected[f]]
           wrote == [past EXCEPT !.expected = written]
<1>1. /\ Types /\ Locked /\ Applying(p) /\ op[p].at = "write" /\ op[p].todo = {}
      /\ UNCHANGED <<disk, content, plans, count, lapsed>>
  BY DEF IInv, Finish, At, Applying
<1>2. /\ op[p] \in Writing /\ plan \in Plan /\ plan # None /\ Midway(p) /\ Settling(p)
      /\ op[p].done \subseteq Files /\ op[p].plan \in 1 .. MaxPlans /\ op[p].rec \in Sound
      /\ \A q \in Procs \ {p} : ~Applying(q) /\ ~Settling(q)
  BY <1>1, InApply DEF Writing, Midway
<1>3. written \in [Files -> Bytes] /\ plan.tree \in Trees
  BY <1>1, <1>2 DEF Types, Plan
<1>4. /\ wrote \in [expected : [Files -> Bytes], excused : SUBSET Files, completed : SUBSET Trees]
      /\ wrote.expected = written /\ wrote.excused = past.excused
      /\ wrote.completed = past.completed
  BY <1>1, <1>3 DEF Types
<1>5. \A f \in Files \ past.excused : parent[f] = written[f]
  <2> SUFFICES ASSUME NEW f \in Files \ past.excused PROVE parent[f] = written[f]
    OBVIOUS
  <2>1. CASE f \in op[p].done
    BY <1>2, <2>1 DEF Midway
  <2>2. CASE f \notin op[p].done
    BY <1>2, <2>2 DEF IInv, ParentAccounted
  <2> QED BY <2>1, <2>2
<1> HIDE DEF written
<1>6. CASE op[p].whole
  <2> DEFINE o == Update("apply", {Settled(op[p].rec)})
             now == [wrote EXCEPT !.completed = past.completed \cup {plan.tree}]
  <2>1. /\ receipts' = receipts \cup {op[p].plan} /\ past' = now
        /\ Enter(p, o) /\ lock' = lock
    BY <1>4, <1>6 DEF Finish, written
  <2>2. o \in Ops /\ o.at = "mark" /\ o.why = "apply"
    <3>1. Settled(op[p].rec) \in Sound
      BY <1>2 DEF Settled, Sound, Record, Statuses
    <3> QED BY <3>1, UpdateType DEF Whys, Ops
  <2>3. op' \in [Procs -> Ops] /\ op'[p] = o /\ Moves(p)
    BY <1>1, <2>1, <2>2, EnterMoves
  <2>4. /\ past' \in [expected : [Files -> Bytes], excused : SUBSET Files, completed : SUBSET Trees]
        /\ past'.expected = written /\ past'.excused = past.excused
        /\ past'.completed = past.completed \cup {plan.tree}
    <3>1. past.completed \cup {plan.tree} \in SUBSET Trees
      BY <1>1, <1>3 DEF Types
    <3> HIDE DEF wrote
    <3> QED BY <1>4, <2>1, <3>1
  <2>5. Types'
    BY <1>1, <1>2, <2>1, <2>3, <2>4 DEF Types, disk, content
  <2>6. Settling(p)' /\ Recorder(p)' /\ \A q \in Procs : ~Applying(q)'
    BY <1>2, <2>2, <2>3 DEF Settling, Recorder, Applying, Moves
  <2>7. Locked'
    BY <1>1, <1>2, <2>1, <2>3, <2>6, KeepsLock
  <2>8. Half' /\ ParentAccounted'
    BY <1>1, <1>5, <2>4, <2>6 DEF Half, ParentAccounted, content
  <2>9. ~Forgotten'
    BY <2>6 DEF Forgotten, Recording, Recorder
  <2>10. ~lapsed => past.completed \subseteq {plan.tree}
    BY <1>1 DEF IInv, Final
  <2>11. Final'
    BY <1>1, <2>4, <2>6, <2>9, <2>10 DEF Final
  <2> QED BY <2>5, <2>7, <2>8, <2>11 DEF IInv
<1>7. CASE ~op[p].whole
  <2>1. past' = wrote /\ Return(p) /\ receipts' = receipts
    BY <1>7 DEF Finish, written
  <2>2. /\ Locked' /\ op' \in [Procs -> Ops] /\ Moves(p) /\ lock' \in Procs \cup {None}
        /\ \A q \in Procs : ~Applying(q)'
    BY <1>1, <2>1, EndsApply
  <2>3. Types'
    BY <1>1, <1>4, <2>1, <2>2 DEF Types, disk, content
  <2>4. Half' /\ ParentAccounted'
    BY <1>1, <1>4, <1>5, <2>1, <2>2 DEF Half, ParentAccounted, content
  <2>5. ~lapsed' => ~lapsed /\ ~Forgotten'
    BY <1>1, <1>4, <2>1, <2>2, MarksStay DEF Recorder, disk
  <2>6. Final'
    BY <1>4, <2>1, <2>2, <2>5 DEF IInv, Final
  <2> QED BY <2>2, <2>3, <2>4, <2>6 DEF IInv
<1> QED BY <1>6, <1>7

-----------------------------------------------------------------------------
(* The others.                                                             *)

LEMMA UserEditStep ==
  ASSUME IInv, NEW f \in Files, NEW bytes \in UserBytes, UserEdit(f, bytes)
  PROVE  IInv'
<1> DEFINE hit == \E p \in Procs : Applying(p) /\ f \in op[p].todo \cup op[p].done
<1>1. /\ Types /\ count' \in 0 .. MaxEvents
      /\ UNCHANGED <<disk, child, head, reviews, lock, op, lapsed>>
  BY CountType DEF IInv, UserEdit
<1>2. parent' \in [Files -> Bytes] /\ parent'[f] = bytes
      /\ \A g \in Files \ {f} : parent'[g] = parent[g]
  BY <1>1 DEF UserEdit, Types, Bytes
<1>3. /\ past' \in [expected : [Files -> Bytes], excused : SUBSET Files, completed : SUBSET Trees]
      /\ past'.expected[f] = bytes
      /\ \A g \in Files \ {f} : past'.expected[g] = past.expected[g]
      /\ past'.excused = IF hit THEN past.excused \cup {f} ELSE past.excused \ {f}
      /\ past'.completed = past.completed
  BY <1>1 DEF UserEdit, Types, Bytes
<1> HIDE DEF hit
<1>4. Types'
  BY <1>1, <1>2, <1>3 DEF Types, disk, reviews
<1>5. Locked'
  BY <1>1 DEF IInv, Locked, Settling, Applying
<1>6. Half'
  <2> SUFFICES ASSUME NEW p \in Procs, Applying(p) PROVE Midway(p)'
    BY <1>1 DEF Half, Applying
  <2>1. Midway(p) /\ op[p].todo \subseteq Files /\ op[p].done \subseteq Files
    BY InApply
  <2>2. f \in op[p].todo \cup op[p].done => f \in past'.excused
    BY <1>3 DEF hit
  <2>3. \A g \in Files \ {f} : g \notin past'.excused => g \notin past.excused
    BY <1>3
  <2> QED BY <1>1, <1>2, <1>3, <2>1, <2>2, <2>3 DEF Midway, reviews
<1>7. ParentAccounted'
  BY <1>1, <1>2, <1>3 DEF IInv, ParentAccounted, Applying
<1>8. Forgotten' <=> Forgotten
  BY <1>1, <1>3 DEF Forgotten, Recording, disk
<1>9. Final'
  BY <1>1, <1>3, <1>8 DEF IInv, Final, Applying, reviews
<1> QED BY <1>4, <1>5, <1>6, <1>7, <1>9 DEF IInv

\* Steps that the invariant does not look at, beyond the types.
LEMMA FrameStep ==
  ASSUME IInv, Types', UNCHANGED <<registry, parent, plans, lock, op, history>>
  PROVE  IInv'
<1>1. Forgotten' <=> Forgotten
  BY DEF Forgotten, Recording, history
<1>2. Locked' /\ Half' /\ ParentAccounted'
  BY DEF IInv, Locked, Settling, Half, Midway, ParentAccounted, Applying, history
<1>3. Final'
  BY <1>1 DEF IInv, Final, Applying, history
<1> QED BY <1>2, <1>3 DEF IInv

LEMMA UserCommitStep ==
  ASSUME IInv, UserCommit
  PROVE  IInv'
<1>1. Types /\ count' \in 0 .. MaxEvents
  BY CountType DEF IInv, UserCommit
<1>2. Types'
  BY <1>1 DEF UserCommit, Types, disk, reviews, history
<1> QED BY <1>2, FrameStep DEF UserCommit, disk, reviews

LEMMA WorkStep ==
  ASSUME IInv, NEW t \in Trees, NEW files \in SUBSET Files, Work(t, files)
  PROVE  IInv'
<1>1. Types /\ count' \in 0 .. MaxEvents
  BY CountType DEF IInv, Work
<1>2. child' \in [Trees -> [Files -> Bytes]]
  BY <1>1 DEF Work, Types, Bytes
<1>3. Types'
  BY <1>1, <1>2 DEF Work, Types, disk, reviews, history
<1> QED BY <1>3, FrameStep DEF Work, disk, reviews

\* What a crash of p makes of a record, and of the call of another process.
Orphaned(p, r) ==
  IF r = None THEN None ELSE IF r.owner = p THEN [r EXCEPT !.owner = None] ELSE r
OrphanedOp(p, o) ==
  [x \in DOMAIN o |-> IF x \in {"recs", "rest"} THEN {Orphaned(p, r) : r \in o[x]}
                      ELSE IF x = "rec" THEN Orphaned(p, o[x]) ELSE o[x]]

LEMMA OrphanedSound ==
  ASSUME NEW p \in Procs, NEW r \in Sound
  PROVE  Orphaned(p, r) \in Sound /\ Orphaned(p, r).id = r.id
BY DEF Orphaned, Sound, Record

LEMMA OrphanedType ==
  ASSUME NEW p \in Procs, NEW o \in Ops
  PROVE  /\ OrphanedOp(p, o) \in Ops /\ OrphanedOp(p, o).at = o.at
         /\ o.at \in {"mark", "append"} => OrphanedOp(p, o).why = o.why
         /\ o \in Writing => /\ OrphanedOp(p, o).plan = o.plan
                             /\ OrphanedOp(p, o).todo = o.todo
                             /\ OrphanedOp(p, o).done = o.done
<1> DEFINE n == OrphanedOp(p, o)
           All(S) == {Orphaned(p, r) : r \in S}
<1>0. /\ \A r \in Sound : Orphaned(p, r) \in Sound
      /\ \A S \in SUBSET Sound : All(S) \in SUBSET Sound
  BY OrphanedSound
<1> HIDE DEF All
<1>1. CASE o = Idle
  <2>1. DOMAIN o = {"at"} /\ o.at = "idle"
    BY <1>1 DEF Idle
  <2>2. n = [at |-> "idle"]
    BY <2>1 DEF OrphanedOp
  <2> QED BY <1>1, <2>2 DEF Ops, Idle, Writing
<1>2. CASE o \in Marking
  <2>1. DOMAIN o = {"at", "why", "recs", "rest"}
    BY <1>2 DEF Marking
  <2>2. n = [at |-> o.at, why |-> o.why, recs |-> All(o.recs), rest |-> All(o.rest)]
    BY <2>1 DEF OrphanedOp, All
  <2>3. o.rest = {} => All(o.rest) = {}
    BY DEF All
  <2>4. n \in Marking
    BY <1>0, <1>2, <2>2, <2>3 DEF Marking
  <2> QED BY <1>2, <2>2, <2>4 DEF Ops, Marking, Writing
<1>3. CASE o \in Appending
  <2>1. DOMAIN o = {"at", "why", "rec", "recs", "rest"}
    BY <1>3 DEF Appending
  <2>2. n = [at |-> o.at, why |-> o.why, rec |-> Orphaned(p, o.rec),
             recs |-> All(o.recs), rest |-> All(o.rest)]
    BY <2>1 DEF OrphanedOp, All
  <2>3. o.rest = {} => All(o.rest) = {}
    BY DEF All
  <2>4. n \in Appending
    BY <1>0, <1>3, <2>2, <2>3 DEF Appending
  <2> QED BY <1>3, <2>2, <2>4 DEF Ops, Appending, Writing
<1>4. CASE o \in Listing
  <2>1. DOMAIN o = {"at", "recs"}
    BY <1>4 DEF Listing
  <2>2. n = [at |-> o.at, recs |-> All(o.recs)]
    BY <2>1 DEF OrphanedOp, All
  <2> QED BY <1>0, <1>4, <2>2 DEF Ops, Listing, Writing
<1>5. CASE o \in Deleting
  <2>1. DOMAIN o = {"at", "force", "rec"}
    BY <1>5 DEF Deleting
  <2>2. n = [at |-> o.at, force |-> o.force, rec |-> Orphaned(p, o.rec)]
    BY <2>1 DEF OrphanedOp
  <2> QED BY <1>0, <1>5, <2>2 DEF Ops, Deleting, Writing
<1>6. CASE o \in Unlinking
  <2>1. DOMAIN o = {"at", "rec"}
    BY <1>6 DEF Unlinking
  <2>2. n = [at |-> o.at, rec |-> Orphaned(p, o.rec)]
    BY <2>1 DEF OrphanedOp
  <2> QED BY <1>0, <1>6, <2>2 DEF Ops, Unlinking, Writing
<1>7. CASE o \in Writing
  <2>1. DOMAIN o = {"at", "plan", "rec", "todo", "done", "whole"}
    BY <1>7 DEF Writing
  <2>2. n = [at |-> o.at, plan |-> o.plan, rec |-> Orphaned(p, o.rec), todo |-> o.todo,
             done |-> o.done, whole |-> o.whole]
    BY <2>1 DEF OrphanedOp
  <2>3. n \in Writing
    BY <1>0, <1>7, <2>2 DEF Writing
  <2> QED BY <1>7, <2>2, <2>3 DEF Ops, Writing
<1> QED BY <1>1, <1>2, <1>3, <1>4, <1>5, <1>6, <1>7 DEF Ops

LEMMA CrashStep ==
  ASSUME IInv, NEW p \in Procs, Crash(p)
  PROVE  IInv'
<1>1. /\ Types /\ Locked /\ count' \in 0 .. MaxEvents
      /\ registry' = [t \in Trees |-> Orphaned(p, registry[t])]
      /\ control' = [t \in Trees |-> Orphaned(p, control[t])]
      /\ op' = [q \in Procs |-> IF q = p THEN Idle ELSE OrphanedOp(p, op[q])]
      /\ lock' = IF lock = p THEN None ELSE lock
      /\ past' = [past EXCEPT !.excused = IF Applying(p) THEN past.excused \cup op[p].done
                                          ELSE past.excused]
      /\ UNCHANGED <<dir, used, content, reviews>> /\ Remember
  BY CountType DEF IInv, Crash, Orphaned, OrphanedOp
<1>2. \A t \in Trees : /\ registry'[t] \in Slot(t) /\ control'[t] \in Slot(t)
                       /\ registry'[t] \in Sound \cup {None}
                       /\ control'[t] \in Sound \cup {None}
  <2>1. Orphaned(p, None) = None
    BY DEF Orphaned
  <2> QED BY <1>1, <2>1, OrphanedSound DEF Types, Slot
<1>3. op' \in [Procs -> Ops] /\ op'[p] = Idle
  <2>1. \A q \in Procs : OrphanedOp(p, op[q]) \in Ops
    BY <1>1, OrphanedType DEF Types
  <2> QED BY <1>1, <2>1 DEF Ops
<1>4. \A q \in Procs \ {p} :
        /\ op'[q].at = op[q].at
        /\ op[q].at \in {"mark", "append"} => op'[q].why = op[q].why
        /\ Applying(q) => /\ op'[q].plan = op[q].plan /\ op'[q].todo = op[q].todo
                          /\ op'[q].done = op[q].done
  <2> SUFFICES ASSUME NEW q \in Procs \ {p}
               PROVE  /\ op'[q].at = op[q].at
                      /\ op[q].at \in {"mark", "append"} => op'[q].why = op[q].why
                      /\ Applying(q) => /\ op'[q].plan = op[q].plan /\ op'[q].todo = op[q].todo
                                        /\ op'[q].done = op[q].done
    OBVIOUS
  <2>1. op'[q] = OrphanedOp(p, op[q]) /\ op[q] \in Ops
    BY <1>1 DEF Types
  <2>2. Applying(q) => op[q] \in Writing
    BY <1>1, Shapes DEF Applying
  <2> QED BY <2>1, <2>2, OrphanedType
<1>5. /\ past' \in [expected : [Files -> Bytes], excused : SUBSET Files, completed : SUBSET Trees]
      /\ past'.expected = past.expected /\ past'.completed = past.completed
      /\ past.excused \subseteq past'.excused
      /\ Applying(p) => op[p].done \subseteq past'.excused
  <2>1. Applying(p) => op[p].done \subseteq Files
    BY InApply
  <2> QED BY <1>1, <2>1 DEF Types
<1>6. lock' \in Procs \cup {None} /\ lapsed' \in BOOLEAN
  BY <1>1 DEF Types, Remember, Forgotten
<1>7. registry' \in [Trees -> Sound \cup {None}] /\ control' \in [Trees -> Sound \cup {None}]
  BY <1>1, <1>2
<1>8. Types'
  BY <1>1, <1>2, <1>3, <1>5, <1>6, <1>7 DEF Types, content, reviews
<1>9. /\ ~Settling(p)' /\ ~Applying(p)'
      /\ \A q \in Procs \ {p} : (Settling(q)' <=> Settling(q)) /\ (Applying(q)' <=> Applying(q))
  BY <1>3, <1>4 DEF Settling, Applying, Idle
<1>10. Locked'
  <2>1. lock' # p /\ \A q \in Procs \ {p} : lock' = q <=> lock = q
    BY <1>1, WorktreeAssumption
  <2> QED BY <1>1, <1>9, <2>1 DEF Locked
<1>11. Half'
  <2> SUFFICES ASSUME NEW q \in Procs \ {p}, Applying(q) PROVE Midway(q)'
    BY <1>9 DEF Half
  <2>1. Midway(q)
    BY InApply
  <2>2. plans' = plans /\ parent' = parent
    BY <1>1 DEF content, reviews
  <2> QED BY <1>4, <1>5, <2>1, <2>2 DEF Midway
<1>12. ParentAccounted'
  <2> SUFFICES ASSUME NEW f \in Files \ past'.excused
               PROVE  \/ parent'[f] = past'.expected[f]
                      \/ \E q \in Procs : Applying(q)' /\ f \in op'[q].done
    BY DEF ParentAccounted
  <2>1. \/ parent[f] = past.expected[f]
        \/ \E q \in Procs : Applying(q) /\ f \in op[q].done
    BY <1>5 DEF IInv, ParentAccounted
  <2> QED BY <1>1, <1>4, <1>5, <1>9, <2>1 DEF content
<1>13. Final'
  <2>1. ~lapsed' => ~lapsed /\ ~Forgotten'
    BY <1>1 DEF Remember
  <2> QED BY <1>1, <1>4, <1>5, <1>9, <2>1 DEF IInv, Final, reviews
<1> QED BY <1>8, <1>10, <1>11, <1>12, <1>13 DEF IInv

-----------------------------------------------------------------------------
(* The theorems.                                                           *)

LEMMA InitIInv == Init => IInv
<1> SUFFICES ASSUME Init PROVE IInv
  OBVIOUS
<1>1. PICK o \in Procs : registry = [t \in Trees |-> IF t \in used THEN Created(o, t) ELSE None]
  BY DEF Init
<1>2. \A t \in Trees : registry[t] \in Slot(t) /\ registry[t] \in Sound \cup {None}
  BY <1>1, CreatedSound DEF Slot
<1>3. op \in [Procs -> Ops] /\ \A p \in Procs : op[p].at = "idle"
  BY DEF Init, Ops, Idle
<1>4. 0 \in 0 .. MaxEvents
  BY WorktreeAssumption
<1>5. parent \in [Files -> Bytes] /\ head \in [Files -> Bytes]
      /\ child \in [Trees -> [Files -> Bytes]]
  BY DEF Init, Bytes
<1>6. /\ past \in [expected : [Files -> Bytes], excused : SUBSET Files, completed : SUBSET Trees]
      /\ past.completed = {} /\ past.expected = parent
  BY <1>5 DEF Init
<1>7. Types
  BY <1>1, <1>2, <1>3, <1>4, <1>5, <1>6 DEF Init, Types
<1>8. Locked /\ Half /\ ParentAccounted
  BY <1>3, <1>6, WorktreeAssumption
     DEF Init, Locked, Settling, Applying, Half, ParentAccounted
<1>9. Final
  BY <1>3, <1>6 DEF Final, Forgotten, Applying
<1> QED BY <1>7, <1>8, <1>9 DEF IInv

LEMMA NextIInv == IInv /\ [Next]_vars => IInv'
<1> SUFFICES ASSUME IInv, [Next]_vars PROVE IInv'
  OBVIOUS
<1>1. ASSUME NEW p \in Procs, ProcNext(p) PROVE IInv'
  <2>1. ASSUME NEW t \in Trees,
               \/ Create(p, t) \/ Adopt(p, t) \/ Ignore(p, t)
               \/ Remove(p, t, TRUE) \/ Remove(p, t, FALSE)
               \/ Select(p, t) \/ PlanApply(p, t)
        PROVE  IInv'
    BY <2>1, CreateStep, AdoptStep, IgnoreStep, RemoveStep, SelectStep, PlanApplyStep
  <2>2. ASSUME NEW i \in 1 .. MaxPlans, NEW approved \in SUBSET Files, Apply(p, i, approved)
        PROVE  IInv'
    BY <2>2, ApplyStep
  <2>3. ASSUME \/ Mark(p) \/ MarkFails(p) \/ Append(p) \/ AppendFails(p)
               \/ Gc(p) \/ GcVisit(p) \/ Delete(p) \/ Unlink(p) \/ Rebuild(p) \/ Replace(p)
        PROVE  IInv'
    BY <2>3, MarkStep, MarkFailsStep, AppendStep, AppendFailsStep, GcStep, GcVisitStep,
       DeleteStep, UnlinkStep, RebuildStep, ReplaceStep
  <2>4. ASSUME \/ Write(p) \/ WriteFails(p) \/ Undo(p) \/ UndoFails(p) \/ Undone(p)
               \/ Finish(p) \/ ReceiptFails(p) \/ Crash(p)
        PROVE  IInv'
    BY <2>4, WriteStep, WriteFailsStep, UndoStep, UndoFailsStep, UndoneStep, FinishStep,
       ReceiptFailsStep, CrashStep
  <2> QED BY <1>1, <2>1, <2>2, <2>3, <2>4 DEF ProcNext
<1>2. CASE UNCHANGED vars
  <2>1. Types'
    BY <1>2 DEF IInv, Types, vars, disk, content, reviews, history
  <2> QED BY <1>2, <2>1, FrameStep DEF vars, disk, content, reviews, history
<1> QED BY <1>1, <1>2, UserEditStep, UserCommitStep, WorkStep DEF Next

\* The stores keep their types, and the settlement lock is held by exactly the
\* process that selects or applies: no call, error or crash leaves it behind.
THEOREM TypeCorrect == Spec => []TypeOK
<1>1. ASSUME IInv PROVE TypeOK
  <2>1. Sound \subseteq Record
    BY DEF Sound
  <2>2. Types /\ Locked
    BY <1>1 DEF IInv
  <2>3. /\ registry \in [Trees -> Record \cup {None}] /\ control \in [Trees -> Record \cup {None}]
        /\ \A t \in Trees : {registry[t], control[t]} \subseteq
                              {None} \cup {r \in Record : r.id = t}
    BY <2>1, <2>2 DEF Types, Slot
  <2>4. \A p \in Procs : lock = p <=> \/ Applying(p)
                                      \/ /\ op[p].at \in {"mark", "append"}
                                         /\ op[p].why \in {"select", "apply"}
    BY <2>2 DEF Locked, Settling
  <2> QED BY <2>2, <2>3, <2>4 DEF Types, TypeOK
<1> QED BY <1>1, InitIInv, NextIInv, PTL DEF Spec

\* apply is all or nothing: a file of the parent that no running apply has
\* written holds what the user or a finished apply wrote last, except the files
\* the user edited during an apply and those a crash, a failing rollback or a
\* failing write of the receipt left written.
THEOREM ParentAccountedTheorem == Spec => []ParentAccounted
<1>1. IInv => ParentAccounted
  BY DEF IInv
<1> QED BY <1>1, InitIInv, NextIInv, PTL DEF Spec

\* A completed group apply is final while the registry keeps its mark: no
\* order of selections, plans, applies and crashes completes a second one.
THEOREM GroupFinalTheorem == Spec => []GroupFinal
<1>1. ASSUME IInv, ~lapsed PROVE Cardinality(past.completed) <= 1
  <2>1. \A s, t \in past.completed : s = t
    BY <1>1 DEF IInv, Final
  <2>2. CASE past.completed = {}
    BY <2>2, FS_EmptySet
  <2>3. CASE past.completed # {}
    <3>1. PICK t : past.completed = {t}
      BY <2>1, <2>3
    <3> QED BY <3>1, FS_Singleton
  <2> QED BY <2>2, <2>3
<1>2. IInv => GroupFinal
  BY <1>1 DEF GroupFinal
<1> QED BY <1>2, InitIInv, NextIInv, PTL DEF Spec

\* What apply overwrites is what the review showed, and what its rollback
\* overwrites is what this apply wrote.
THEOREM ReviewedOverwritesTheorem == Spec => ReviewedOverwrites
<1> DEFINE Reviewed ==
      \A p \in Procs, f \in Files :
        Applying(p) /\ parent'[f] # parent[f] /\ op'[p] # op[p] =>
          \/ f \in past.excused
          \/ parent[f] = IF op[p].at = "write" THEN plans[op[p].plan].parent[f]
                         ELSE plans[op[p].plan].child[f]
<1>1. ASSUME IInv, [Next]_vars PROVE Reviewed
  <2> SUFFICES ASSUME NEW p \in Procs, NEW f \in Files, f \notin past.excused,
                      Applying(p), parent'[f] # parent[f], op'[p] # op[p]
               PROVE  parent[f] = IF op[p].at = "write" THEN plans[op[p].plan].parent[f]
                                  ELSE plans[op[p].plan].child[f]
    OBVIOUS
  <2>1. /\ Midway(p) /\ op[p].todo \subseteq Files /\ op[p].done \subseteq Files
        /\ parent \in [Files -> Bytes] /\ op \in [Procs -> Ops]
    BY <1>1, InApply DEF IInv, Types
  <2>2. Write(p) \/ Undo(p)
    <3>1. ASSUME NEW q \in Procs, ProcNext(q) PROVE Write(q) \/ Undo(q)
      BY <3>1 DEF ProcNext, Create, Adopt, Ignore, Remove, Select, PlanApply, Apply, Mark,
         MarkFails, Append, AppendFails, Gc, GcVisit, Delete, Unlink, Rebuild, Replace,
         WriteFails, UndoFails, Undone, Finish, ReceiptFails, Crash, content
    <3>2. ASSUME NEW q \in Procs, Write(q) \/ Undo(q) PROVE q = p
      BY <2>1, <3>2 DEF Write, Undo
    <3>3. \E q \in Procs : ProcNext(q)
      BY <1>1 DEF Next, UserEdit, UserCommit, Work, vars, content
    <3> QED BY <3>1, <3>2, <3>3
  <2>3. CASE Write(p)
    <3>1. PICK g \in op[p].todo : g = Least(op[p].todo)
      BY <2>1, <2>3, Ends DEF Write
    <3>2. f = g
      BY <2>1, <2>3, <3>1 DEF Write
    <3> QED BY <2>1, <2>3, <3>1, <3>2 DEF Midway, Write, At
  <2>4. CASE Undo(p)
    <3>1. PICK g \in op[p].done : g = Greatest(op[p].done)
      BY <2>1, <2>4, Ends DEF Undo
    <3>2. f = g
      BY <2>1, <2>4, <3>1 DEF Undo
    <3> QED BY <2>1, <2>4, <3>1, <3>2 DEF Midway, Undo, At
  <2> QED BY <2>2, <2>3, <2>4
<1>2. IInv /\ [Next]_vars => [Reviewed]_vars
  BY <1>1
<1> QED BY <1>2, InitIInv, NextIInv, PTL DEF Spec, ReviewedOverwrites
=============================================================================

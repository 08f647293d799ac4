---------------------------- MODULE AgentTurnProofs ----------------------------
(* Theorems about AgentTurn, for any number of inputs, calls, compactions,   *)
(* failed appends, crashes and resumes, and for either host.                 *)
EXTENDS AgentTurn, TLAPS, FiniteSetTheorems, SequenceTheorems

--------------------------------------------------------------------------------
(* Positions in ascending order.                                             *)

\* A sequence of positions that never goes back.
Increasing(f) == \A i, j \in DOMAIN f : i < j => f[i] < f[j]

\* The n-th of a finite set of positions is unique, and there is one.
LEMMA AscendingFacts ==
  ASSUME NEW S \in SUBSET Nat, IsFiniteSet(S)
  PROVE  /\ Cardinality(S) \in Nat
         /\ Ascending(S) \in [1 .. Cardinality(S) -> S]
         /\ Increasing(Ascending(S))
         /\ \A p \in S : \E i \in 1 .. Cardinality(S) : Ascending(S)[i] = p
<1> DEFINE n == Cardinality(S)
           Upto(p) == {q \in S : q <= p}
           Rank == [p \in S |-> Cardinality(Upto(p))]
<1>1. n \in Nat
  BY FS_CardinalityType
<1>2. \A p \in S : IsFiniteSet(Upto(p)) /\ Cardinality(Upto(p)) \in 1 .. n
  <2> TAKE p \in S
  <2>1. Upto(p) \in SUBSET S /\ p \in Upto(p)
    OBVIOUS
  <2>2. IsFiniteSet(Upto(p)) /\ Cardinality(Upto(p)) <= n
    BY <2>1, FS_Subset
  <2>3. Cardinality(Upto(p)) \in Nat
    BY <2>2, FS_CardinalityType
  <2>4. Cardinality(Upto(p)) # 0
    BY <2>1, <2>2, FS_EmptySet
  <2> HIDE DEF Upto
  <2> QED BY <1>1, <2>2, <2>3, <2>4
<1>3. \A p, q \in S : p < q => Cardinality(Upto(p)) < Cardinality(Upto(q))
  <2> SUFFICES ASSUME NEW p \in S, NEW q \in S, p < q
               PROVE  Cardinality(Upto(p)) < Cardinality(Upto(q))
    OBVIOUS
  <2>0. \A x \in S : x \in Nat
    OBVIOUS
  <2>1. Upto(p) \in SUBSET Upto(q) /\ q \in Upto(q) /\ q \notin Upto(p)
    <3>1. \A x \in S : x <= p => x <= q
      BY <2>0
    <3>2. ~(q <= p) /\ q <= q
      BY <2>0
    <3> QED BY <3>1, <3>2
  <2>2. /\ Cardinality(Upto(p)) <= Cardinality(Upto(q))
        /\ Cardinality(Upto(p)) # Cardinality(Upto(q))
    <3> HIDE DEF Upto
    <3> QED BY <1>2, <2>1, FS_Subset
  <2> HIDE DEF Upto
  <2> QED BY <1>1, <1>2, <2>2
<1>4. \A p, q \in S : Cardinality(Upto(p)) = Cardinality(Upto(q)) => p = q
  <2> HIDE DEF Upto
  <2> QED BY <1>1, <1>2, <1>3
<1>5. Rank \in Injection(S, 1 .. n)
  <2> HIDE DEF Upto
  <2> QED BY <1>2, <1>4 DEF Injection, IsInjective
<1>6. Rank \in Surjection(S, 1 .. n)
  <2>1. IsFiniteSet(1 .. n) /\ Cardinality(1 .. n) = n
    BY <1>1, FS_Interval
  <2> HIDE DEF Rank
  <2> QED BY <1>5, <2>1, FS_Injection
<1>7. \A i \in 1 .. n : \E p \in S : Cardinality(Upto(p)) = i
  <2> HIDE DEF Upto
  <2> QED BY <1>6 DEF Surjection
<1>8. \A i \in 1 .. n : Ascending(S)[i] \in S /\ Cardinality(Upto(Ascending(S)[i])) = i
  BY <1>7 DEF Ascending
<1>9. Ascending(S) \in [1 .. n -> S]
  BY <1>8 DEF Ascending
<1>10. Increasing(Ascending(S))
  <2> SUFFICES ASSUME NEW i \in 1 .. n, NEW j \in 1 .. n, i < j
               PROVE  Ascending(S)[i] < Ascending(S)[j]
    BY <1>9 DEF Increasing
  <2> HIDE DEF Upto
  <2>1. PICK p \in S : p = Ascending(S)[i] /\ Cardinality(Upto(p)) = i
    BY <1>8
  <2>2. PICK q \in S : q = Ascending(S)[j] /\ Cardinality(Upto(q)) = j
    BY <1>8
  <2>3. p # q /\ ~(q < p)
    BY <1>1, <1>3, <2>1, <2>2
  <2>4. p \in Nat /\ q \in Nat
    OBVIOUS
  <2> QED BY <2>1, <2>2, <2>3, <2>4
<1>11. \A p \in S : Ascending(S)[Cardinality(Upto(p))] = p
  <2> HIDE DEF Upto
  <2> QED BY <1>2, <1>4, <1>8
<1> HIDE DEF Upto
<1> QED BY <1>1, <1>2, <1>9, <1>10, <1>11

\* Any increasing sequence of all positions in S is that one.
LEMMA AscendingUnique ==
  ASSUME NEW S \in SUBSET Nat, NEW n \in Nat, NEW f \in [1 .. n -> S], Increasing(f),
         \A p \in S : \E i \in 1 .. n : f[i] = p
  PROVE  IsFiniteSet(S) /\ Cardinality(S) = n /\ Ascending(S) = f
<1>0. \A i, j \in 1 .. n : (f[i] = f[j] => i = j) /\ (f[i] <= f[j] => i <= j)
  <2>1. \A i \in 1 .. n : f[i] \in Nat
    OBVIOUS
  <2> QED BY <2>1 DEF Increasing
<1>1. f \in Bijection(1 .. n, S)
  BY <1>0 DEF Bijection, Injection, Surjection, IsInjective
<1>2. IsFiniteSet(S)
  BY <1>1, FS_NatBijection DEF ExistsBijection
<1>3. Cardinality(S) = n
  BY <1>1, FS_CountingElements DEF ExistsBijection
<1>4. /\ Ascending(S) \in [1 .. n -> S] /\ Increasing(Ascending(S))
      /\ \A p \in S : \E i \in 1 .. n : Ascending(S)[i] = p
  BY <1>2, <1>3, AscendingFacts
<1>5. \A i \in 1 .. n : Cardinality({q \in S : q <= f[i]}) = i
  <2> TAKE i \in 1 .. n
  <2> DEFINE T == {q \in S : q <= f[i]}
             g == [j \in 1 .. i |-> f[j]]
  <2>1. \A j \in 1 .. i : j \in 1 .. n /\ f[j] \in T
    <3> TAKE j \in 1 .. i
    <3>1. j \in 1 .. n
      OBVIOUS
    <3>2. f[j] \in S /\ f[i] \in S /\ f[j] \in Nat /\ f[i] \in Nat
      BY <3>1
    <3>3. j = i \/ f[j] < f[i]
      BY <3>1 DEF Increasing
    <3> QED BY <3>1, <3>2, <3>3
  <2>2. \A q \in T : \E j \in 1 .. i : f[j] = q
    <3> TAKE q \in T
    <3>1. PICK j \in 1 .. n : f[j] = q
      OBVIOUS
    <3>2. j <= i
      BY <3>1, <1>0
    <3> QED BY <3>1, <3>2
  <2>3. g \in Bijection(1 .. i, T)
    <3> HIDE DEF T
    <3> QED BY <2>1, <2>2, <1>0 DEF Bijection, Injection, Surjection, IsInjective
  <2> HIDE DEF g, T
  <2>4. Cardinality(T) = i
    BY <2>3, FS_CountingElements DEF ExistsBijection
  <2> QED BY <2>4 DEF T
<1>6. \A i \in 1 .. n : Ascending(S)[i] = f[i]
  <2> TAKE i \in 1 .. n
  <2>1. \A p \in S : Cardinality({q \in S : q <= p}) = i => p = f[i]
    <3> TAKE p \in S
    <3>1. PICK j \in 1 .. n : f[j] = p
      OBVIOUS
    <3> QED BY <3>1, <1>5
  <2>2. f[i] \in S /\ Cardinality({q \in S : q <= f[i]}) = i
    BY <1>5
  <2>3. Ascending(S)[i] = CHOOSE p \in S : Cardinality({q \in S : q <= p}) = i
    BY <1>3 DEF Ascending
  <2> QED BY <2>1, <2>2, <2>3
<1>7. Ascending(S) = f
  BY <1>4, <1>6
<1> QED BY <1>2, <1>3, <1>7

--------------------------------------------------------------------------------
(* What the log is rebuilt to: messages appended.                            *)

\* The messages of a context and the entries of a log.
Msg == [role : MessageRoles, key : Nat]
Entry == [role : MessageRoles \cup {"compaction"}, key : Nat, from : Nat, to : Nat]

\* Readable without counting.
Regular(l) ==
  /\ \A c \in Compactions(l) :
       /\ l[c].from \in DOMAIN l \ Compactions(l) /\ l[c].to \in DOMAIN l \ Compactions(l)
       /\ l[c].from <= l[c].to
  /\ \A p \in DOMAIN l \ Compactions(l) : \A c, d \in CoveredBy(l, p) : c = d

LEMMA LogFacts ==
  ASSUME NEW l \in Seq(Entry)
  PROVE  /\ Len(l) \in Nat /\ DOMAIN l = 1 .. Len(l) /\ \A p \in DOMAIN l : l[p] \in Entry
         /\ \A p : CoveredBy(l, p) \subseteq DOMAIN l
         /\ Kept(l) \subseteq DOMAIN l /\ Kept(l) \in SUBSET Nat /\ IsFiniteSet(Kept(l))
<1>1. Len(l) \in Nat /\ DOMAIN l = 1 .. Len(l) /\ \A p \in DOMAIN l : l[p] \in Entry
  BY LenProperties
<1>2. \A p : CoveredBy(l, p) \subseteq DOMAIN l
  BY DEF CoveredBy, Compactions
<1>3. Kept(l) \subseteq DOMAIN l
  BY DEF Kept
<1>4. IsFiniteSet(DOMAIN l)
  BY <1>1, FS_Interval
<1>5. IsFiniteSet(Kept(l))
  BY <1>3, <1>4, FS_Subset
<1> QED BY <1>1, <1>2, <1>3, <1>5

\* A finite set whose elements are equal has at most one.
LEMMA AtMostOne ==
  ASSUME NEW S, IsFiniteSet(S)
  PROVE  Cardinality(S) <= 1 <=> \A c, d \in S : c = d
<1>0. Cardinality(S) \in Nat
  BY FS_CardinalityType
<1>1. ASSUME Cardinality(S) <= 1 PROVE \A c, d \in S : c = d
  <2>1. Cardinality(S) = 0 \/ Cardinality(S) = 1
    BY <1>0, <1>1
  <2>2. S = {} \/ \E x : S = {x}
    BY <2>1, FS_EmptySet, FS_Singleton
  <2> QED BY <2>2
<1>2. ASSUME \A c, d \in S : c = d PROVE Cardinality(S) <= 1
  <2>1. CASE S = {}
    <3>1. Cardinality(S) = 0
      BY <2>1, FS_EmptySet
    <3> QED BY <3>1
  <2>2. CASE S # {}
    <3>1. PICK x : S = {x}
      BY <1>2, <2>2
    <3>2. Cardinality(S) = 1
      BY <3>1, FS_Singleton
    <3> QED BY <3>2
  <2> QED BY <2>1, <2>2
<1> QED BY <1>1, <1>2

\* rebuild_with_compactions accepts a regular log.
LEMMA ReadableIsRegular ==
  ASSUME NEW l \in Seq(Entry)
  PROVE  Readable(l) <=> Regular(l)
<1>1. \A p : IsFiniteSet(CoveredBy(l, p))
  <2>1. IsFiniteSet(DOMAIN l)
    BY LogFacts, FS_Interval
  <2> QED BY <2>1, LogFacts, FS_Subset
<1>2. \A p : Cardinality(CoveredBy(l, p)) <= 1 <=> \A c, d \in CoveredBy(l, p) : c = d
  <2> TAKE p
  <2> QED BY <1>1, AtMostOne
<1> QED BY <1>2 DEF Readable, Regular

\* The rebuilt sequences, position by position.
LEMMA RebuiltFacts ==
  ASSUME NEW l \in Seq(Entry)
  PROVE  LET k == Ascending(Kept(l))
             n == Cardinality(Kept(l))
         IN  /\ n \in Nat /\ k \in [1 .. n -> Kept(l)] /\ Increasing(k)
             /\ \A p \in Kept(l) : \E i \in 1 .. n : k[i] = p
             /\ RebuiltMessages(l) \in Seq(Msg) /\ Len(RebuiltMessages(l)) = n
             /\ RebuiltIds(l) \in Seq(Nat) /\ Len(RebuiltIds(l)) = n
             /\ \A i \in 1 .. n :
                  /\ k[i] \in DOMAIN l \ Compactions(l) /\ k[i] \in Nat
                  /\ RebuiltMessages(l)[i] = MessageAt(l, k[i])
                  /\ RebuiltIds(l)[i] = IF CoveredBy(l, k[i]) = {} THEN k[i] ELSE 0
                  /\ RebuiltIds(l)[i] \in 0 .. Len(l)
<1> DEFINE k == Ascending(Kept(l))
           n == Cardinality(Kept(l))
<1>1. /\ n \in Nat /\ k \in [1 .. n -> Kept(l)] /\ Increasing(k)
      /\ \A p \in Kept(l) : \E i \in 1 .. n : k[i] = p
  BY LogFacts, AscendingFacts
<1>2. \A i \in 1 .. n : k[i] \in DOMAIN l \ Compactions(l) /\ k[i] \in Nat
  <2>1. \A i \in 1 .. n : k[i] \in Kept(l)
    BY <1>1
  <2> HIDE DEF k, n
  <2> QED BY <2>1, LogFacts DEF Kept
<1>3. \A p \in DOMAIN l \ Compactions(l) : MessageAt(l, p) \in Msg
  <2> TAKE p \in DOMAIN l \ Compactions(l)
  <2>1. l[p] \in Entry /\ l[p].role # "compaction"
    BY LogFacts DEF Compactions
  <2>2. CoveredBy(l, p) # {} => (CHOOSE c \in CoveredBy(l, p) : TRUE) \in Nat
    BY LogFacts
  <2> QED BY <2>1, <2>2 DEF MessageAt, Message, Msg, Entry, MessageRoles
<1>4. /\ RebuiltMessages(l) = [i \in 1 .. n |-> MessageAt(l, k[i])]
      /\ RebuiltIds(l) = [i \in 1 .. n |-> IF CoveredBy(l, k[i]) = {} THEN k[i] ELSE 0]
  BY <1>1 DEF RebuiltMessages, RebuiltIds
<1> HIDE DEF k, n
<1>5. \A i \in 1 .. n : MessageAt(l, k[i]) \in Msg
  BY <1>2, <1>3
<1>6. RebuiltMessages(l) \in Seq(Msg) /\ Len(RebuiltMessages(l)) = n
  BY <1>1, <1>4, <1>5
<1>7. RebuiltIds(l) \in Seq(Nat) /\ Len(RebuiltIds(l)) = n
  BY <1>1, <1>2, <1>4
<1>8. \A i \in 1 .. n : k[i] <= Len(l) /\ 0 <= k[i]
  BY <1>2, LogFacts
<1>9. \A i \in 1 .. n : RebuiltIds(l)[i] \in 0 .. Len(l)
  BY <1>2, <1>4, <1>8, LogFacts
<1> QED BY <1>1, <1>2, <1>4, <1>6, <1>7, <1>9 DEF k, n

\* More message entries are rebuilt behind what there was.
LEMMA MoreMessages ==
  ASSUME NEW l \in Seq(Entry), Regular(l), NEW m \in Nat, NEW ms \in [1 .. m -> Msg]
  PROVE  LET g == l \o [i \in 1 .. m |-> MessageEntry(ms[i])]
         IN  /\ g \in Seq(Entry) /\ Len(g) = Len(l) + m /\ Regular(g)
             /\ RebuiltMessages(g) = RebuiltMessages(l) \o ms
             /\ RebuiltIds(g) = RebuiltIds(l) \o [i \in 1 .. m |-> Len(l) + i]
<1> DEFINE e == [i \in 1 .. m |-> MessageEntry(ms[i])]
           g == l \o e
           k == Ascending(Kept(l))
           n == Cardinality(Kept(l))
           f == [i \in 1 .. n + m |-> IF i <= n THEN k[i] ELSE Len(l) + (i - n)]
<1>1. /\ Len(l) \in Nat /\ DOMAIN l = 1 .. Len(l) /\ \A p \in DOMAIN l : l[p] \in Entry
      /\ \A p : CoveredBy(l, p) \subseteq DOMAIN l
  BY LogFacts
<1>2. e \in Seq(Entry) /\ Len(e) = m /\ \A i \in 1 .. m : e[i] = MessageEntry(ms[i])
  <2>1. \A i \in 1 .. m : MessageEntry(ms[i]) \in Entry
    BY DEF MessageEntry, Msg, Entry
  <2> QED BY <2>1
<1>3. /\ g \in Seq(Entry) /\ Len(g) = Len(l) + m /\ DOMAIN g = 1 .. Len(l) + m
      /\ \A p \in DOMAIN l : g[p] = l[p]
      /\ \A i \in 1 .. m : g[Len(l) + i] = MessageEntry(ms[i])
  <2> HIDE DEF e
  <2>1. /\ g \in Seq(Entry) /\ Len(g) = Len(l) + m
        /\ \A i \in 1 .. Len(l) + m : g[i] = IF i <= Len(l) THEN l[i] ELSE e[i - Len(l)]
    BY <1>2, ConcatProperties
  <2>2. DOMAIN g = 1 .. Len(l) + m
    BY <2>1, LenProperties
  <2> HIDE DEF g
  <2>3. \A p \in DOMAIN l : g[p] = l[p]
    BY <1>1, <2>1
  <2>4. \A i \in 1 .. m : g[Len(l) + i] = MessageEntry(ms[i])
    <3> TAKE i \in 1 .. m
    <3>1. Len(l) + i \in 1 .. Len(l) + m /\ ~(Len(l) + i <= Len(l)) /\ (Len(l) + i) - Len(l) = i
      BY <1>1
    <3> QED BY <3>1, <2>1, <1>2
  <2> QED BY <2>1, <2>2, <2>3, <2>4
<1> HIDE DEF e, g
<1>4. DOMAIN g = DOMAIN l \cup {Len(l) + i : i \in 1 .. m}
  <2>1. \A p \in DOMAIN g : p \in DOMAIN l \/ (p - Len(l) \in 1 .. m /\ p = Len(l) + (p - Len(l)))
    BY <1>1, <1>3
  <2>2. \A p \in DOMAIN l : p \in DOMAIN g
    BY <1>1, <1>3
  <2>3. \A i \in 1 .. m : Len(l) + i \in DOMAIN g
    BY <1>1, <1>3
  <2> QED BY <2>1, <2>2, <2>3
<1>5. Compactions(g) = Compactions(l)
  <2>1. \A i \in 1 .. m : g[Len(l) + i].role # "compaction" /\ Len(l) + i \notin DOMAIN l
    <3> TAKE i \in 1 .. m
    <3>0. ms[i] \in Msg /\ g[Len(l) + i] = MessageEntry(ms[i])
      BY <1>3
    <3>1. g[Len(l) + i].role = ms[i].role /\ ms[i].role \in MessageRoles
      BY <3>0 DEF MessageEntry, Msg
    <3> QED BY <3>1, <1>1 DEF MessageRoles
  <2> QED BY <1>3, <1>4, <2>1 DEF Compactions
<1>6. \A c \in Compactions(l) : g[c] = l[c] /\ l[c].from \in DOMAIN l /\ l[c].to \in DOMAIN l
  BY <1>3 DEF Compactions, Regular
<1>7. /\ \A p : CoveredBy(g, p) = CoveredBy(l, p)
      /\ \A i \in 1 .. m : CoveredBy(g, Len(l) + i) = {}
  <2>1. \A p : CoveredBy(g, p) = CoveredBy(l, p)
    BY <1>5, <1>6 DEF CoveredBy
  <2>2. \A i \in 1 .. m, c \in Compactions(l) : ~(Len(l) + i <= l[c].to)
    BY <1>1, <1>6
  <2> QED BY <2>1, <2>2 DEF CoveredBy
<1>8. Regular(g)
  <2>1. \A p \in DOMAIN g \ Compactions(g) : \A c, d \in CoveredBy(g, p) : c = d
    BY <1>4, <1>5, <1>7 DEF Regular
  <2> QED BY <1>4, <1>5, <1>6, <2>1 DEF Regular
<1>9. Kept(g) = Kept(l) \cup {Len(l) + i : i \in 1 .. m}
  <2>1. \A i \in 1 .. m : Len(l) + i \notin Compactions(l)
    BY <1>1 DEF Compactions
  <2>2. \A p : \A c \in CoveredBy(l, p) : g[c] = l[c]
    BY <1>6 DEF CoveredBy
  <2> QED BY <1>4, <1>5, <1>7, <2>1, <2>2, ZenonT(40) DEF Kept
<1>10. /\ n \in Nat /\ k \in [1 .. n -> Kept(l)] /\ Increasing(k)
       /\ \A p \in Kept(l) : \E i \in 1 .. n : k[i] = p
       /\ RebuiltMessages(l) \in Seq(Msg) /\ Len(RebuiltMessages(l)) = n
       /\ RebuiltIds(l) \in Seq(Nat) /\ Len(RebuiltIds(l)) = n
       /\ \A i \in 1 .. n :
            /\ k[i] \in DOMAIN l /\ k[i] \in Nat
            /\ RebuiltMessages(l)[i] = MessageAt(l, k[i])
            /\ RebuiltIds(l)[i] = IF CoveredBy(l, k[i]) = {} THEN k[i] ELSE 0
  BY RebuiltFacts
<1> HIDE DEF k, n
<1>11. Cardinality(Kept(g)) = n + m /\ Ascending(Kept(g)) = f
  <2>1. \A i \in 1 .. n + m : f[i] \in Kept(g) /\ f[i] \in Nat
    <3> TAKE i \in 1 .. n + m
    <3>1. CASE i <= n
      <4>1. i \in 1 .. n /\ f[i] = k[i]
        BY <3>1, <1>10
      <4>2. k[i] \in Kept(l) /\ k[i] \in Nat
        BY <4>1, <1>10
      <4> QED BY <4>1, <4>2, <1>9
    <3>2. CASE ~(i <= n)
      <4>1. i - n \in 1 .. m /\ f[i] = Len(l) + (i - n)
        BY <3>2, <1>10
      <4>2. Len(l) + (i - n) \in {Len(l) + j : j \in 1 .. m} /\ Len(l) + (i - n) \in Nat
        BY <4>1, <1>1
      <4> QED BY <4>1, <4>2, <1>9
    <3> QED BY <3>1, <3>2
  <2>2. Increasing(f)
    <3> SUFFICES ASSUME NEW i \in 1 .. n + m, NEW j \in 1 .. n + m, i < j PROVE f[i] < f[j]
      BY DEF Increasing
    <3>1. CASE j <= n
      BY <3>1, <1>10 DEF Increasing
    <3>2. CASE i <= n /\ ~(j <= n)
      <4>1. k[i] \in 1 .. Len(l) /\ j - n >= 1
        BY <3>2, <1>1, <1>10
      <4> QED BY <3>2, <4>1, <1>1, <1>10
    <3>3. CASE ~(i <= n)
      BY <3>3, <1>1, <1>10
    <3> QED BY <3>1, <3>2, <3>3, <1>10
  <2>3. \A p \in Kept(g) : \E i \in 1 .. n + m : f[i] = p
    <3> TAKE p \in Kept(g)
    <3>1. CASE p \in Kept(l)
      <4>1. PICK i \in 1 .. n : k[i] = p
        BY <3>1, <1>10
      <4>2. i \in 1 .. n + m /\ f[i] = p
        BY <4>1, <1>10
      <4> QED BY <4>2
    <3>2. CASE p \in {Len(l) + i : i \in 1 .. m}
      <4>1. PICK i \in 1 .. m : p = Len(l) + i
        BY <3>2
      <4>2. n + i \in 1 .. n + m /\ ~(n + i <= n) /\ (n + i) - n = i
        BY <1>10
      <4>3. f[n + i] = p
        BY <4>1, <4>2
      <4> QED BY <4>2, <4>3
    <3> QED BY <3>1, <3>2, <1>9
  <2>4. Kept(g) \in SUBSET Nat
    BY <1>3, LogFacts
  <2>5. n + m \in Nat /\ f \in [1 .. n + m -> Kept(g)]
    <3>1. n \in Nat
      BY <1>10
    <3>2. f = [i \in 1 .. n + m |-> f[i]]
      OBVIOUS
    <3> HIDE DEF f
    <3> QED BY <2>1, <3>1, <3>2
  <2> HIDE DEF f
  <2> QED BY <2>2, <2>3, <2>4, <2>5, AscendingUnique
<1>12. /\ RebuiltMessages(g) \in Seq(Msg) /\ Len(RebuiltMessages(g)) = n + m
       /\ RebuiltIds(g) \in Seq(Nat) /\ Len(RebuiltIds(g)) = n + m
       /\ \A i \in 1 .. n + m :
            /\ RebuiltMessages(g)[i] = MessageAt(g, f[i])
            /\ RebuiltIds(g)[i] = IF CoveredBy(g, f[i]) = {} THEN f[i] ELSE 0
  <2> HIDE DEF f
  <2> QED BY <1>3, <1>11, RebuiltFacts
<1>13. RebuiltMessages(g) = RebuiltMessages(l) \o ms
  <2>1. ms \in Seq(Msg) /\ Len(ms) = m
    OBVIOUS
  <2>2. /\ RebuiltMessages(l) \o ms \in Seq(Msg) /\ Len(RebuiltMessages(l) \o ms) = n + m
        /\ \A i \in 1 .. n + m : (RebuiltMessages(l) \o ms)[i] =
             IF i <= n THEN RebuiltMessages(l)[i] ELSE ms[i - n]
    <3>1. RebuiltMessages(l) \in Seq(Msg) /\ Len(RebuiltMessages(l)) = n
      BY <1>10
    <3> QED BY <2>1, <3>1, ConcatProperties
  <2>3. \A i \in 1 .. n + m : RebuiltMessages(g)[i] = (RebuiltMessages(l) \o ms)[i]
    <3> TAKE i \in 1 .. n + m
    <3>1. CASE i <= n
      <4>1. i \in 1 .. n /\ f[i] = k[i]
        BY <3>1, <1>10
      <4>2. MessageAt(g, k[i]) = MessageAt(l, k[i])
        BY <4>1, <1>3, <1>7, <1>10 DEF MessageAt
      <4> QED BY <3>1, <4>1, <4>2, <1>10, <1>12, <2>2
    <3>2. CASE ~(i <= n)
      <4>1. i - n \in 1 .. m /\ f[i] = Len(l) + (i - n)
        BY <3>2, <1>10
      <4>2. MessageAt(g, f[i]) = Message(ms[i - n].role, ms[i - n].key)
        <5>1. g[f[i]] = MessageEntry(ms[i - n]) /\ CoveredBy(g, f[i]) = {}
          BY <4>1, <1>3, <1>7
        <5> QED BY <5>1 DEF MessageAt, MessageEntry
      <4>3. ms[i - n] \in Msg
        BY <4>1
      <4>4. MessageAt(g, f[i]) = ms[i - n]
        BY <4>2, <4>3 DEF Message, Msg
      <4> QED BY <3>2, <4>4, <1>12, <2>2
    <3> QED BY <3>1, <3>2
  <2> QED BY <1>12, <2>2, <2>3, SeqEqual
<1>14. RebuiltIds(g) = RebuiltIds(l) \o [i \in 1 .. m |-> Len(l) + i]
  <2> DEFINE new == [i \in 1 .. m |-> Len(l) + i]
  <2>1. new \in Seq(Nat) /\ Len(new) = m
    BY <1>1
  <2>2. /\ RebuiltIds(l) \o new \in Seq(Nat) /\ Len(RebuiltIds(l) \o new) = n + m
        /\ \A i \in 1 .. n + m : (RebuiltIds(l) \o new)[i] =
             IF i <= n THEN RebuiltIds(l)[i] ELSE new[i - n]
    <3>1. RebuiltIds(l) \in Seq(Nat) /\ Len(RebuiltIds(l)) = n
      BY <1>10
    <3> HIDE DEF new
    <3> QED BY <2>1, <3>1, ConcatProperties
  <2>3. \A i \in 1 .. n + m : RebuiltIds(g)[i] = (RebuiltIds(l) \o new)[i]
    <3> TAKE i \in 1 .. n + m
    <3>1. CASE i <= n
      <4>1. i \in 1 .. n /\ f[i] = k[i]
        BY <3>1, <1>10
      <4> QED BY <3>1, <4>1, <1>7, <1>10, <1>12, <2>2
    <3>2. CASE ~(i <= n)
      <4>1. i - n \in 1 .. m /\ f[i] = Len(l) + (i - n)
        BY <3>2, <1>10
      <4>2. RebuiltIds(g)[i] = Len(l) + (i - n)
        BY <4>1, <1>7, <1>12
      <4> QED BY <3>2, <4>1, <4>2, <2>2
    <3> QED BY <3>1, <3>2
  <2> HIDE DEF new
  <2>4. RebuiltIds(g) = RebuiltIds(l) \o new
    BY <1>12, <2>2, <2>3, SeqEqual
  <2> QED BY <2>4 DEF new
<1> QED BY <1>3, <1>8, <1>13, <1>14 DEF g, e

--------------------------------------------------------------------------------
(* What the log is rebuilt to: a range replaced by its summary.              *)

\* q with x in the place of q[s] .. q[e].
Cut(q, s, e, x) == SubSeq(q, 1, s - 1) \o <<x>> \o SubSeq(q, e + 1, Len(q))

\* What stands where after a cut.
LEMMA CutFacts ==
  ASSUME NEW T, NEW q \in Seq(T), NEW x \in T, NEW s \in 1 .. Len(q), NEW e \in s .. Len(q)
  PROVE  /\ Cut(q, s, e, x) \in Seq(T) /\ Len(Cut(q, s, e, x)) = Len(q) - (e - s)
         /\ \A i \in 1 .. Len(q) - (e - s) :
              Cut(q, s, e, x)[i] = IF i < s THEN q[i] ELSE IF i = s THEN x ELSE q[i + (e - s)]
<1> DEFINE a == SubSeq(q, 1, s - 1)
           b == a \o <<x>>
           c == SubSeq(q, e + 1, Len(q))
<1>1. Len(q) \in Nat /\ s \in Nat /\ e \in Nat /\ s <= e /\ e <= Len(q) /\ 1 <= s
  BY LenProperties
<1>2. \A i \in 1 .. Len(q) : q[i] \in T
  BY ElementOfSeq
<1>3. /\ a \in Seq(T) /\ Len(a) = s - 1 /\ \A i \in 1 .. s - 1 : a[i] = q[i]
  <2>1. \A i \in 1 .. s - 1 : q[i] \in T
    BY <1>1, <1>2
  <2>2. /\ a \in Seq(T) /\ Len(a) = IF 1 <= s - 1 THEN (s - 1) - 1 + 1 ELSE 0
        /\ \A i \in 1 .. (s - 1) - 1 + 1 : a[i] = q[1 + i - 1]
    BY <2>1, <1>1, SubSeqProperties
  <2> HIDE DEF a
  <2>3. \A i \in 1 .. s - 1 : a[i] = q[i]
    <3> TAKE i \in 1 .. s - 1
    <3>1. i \in 1 .. (s - 1) - 1 + 1 /\ 1 + i - 1 = i
      BY <1>1
    <3> QED BY <2>2, <3>1
  <2> QED BY <1>1, <2>2, <2>3
<1>4. /\ c \in Seq(T) /\ Len(c) = Len(q) - e /\ \A i \in 1 .. Len(q) - e : c[i] = q[e + i]
  <2>1. \A i \in e + 1 .. Len(q) : q[i] \in T
    BY <1>1, <1>2
  <2>2. /\ c \in Seq(T) /\ Len(c) = IF e + 1 <= Len(q) THEN Len(q) - (e + 1) + 1 ELSE 0
        /\ \A i \in 1 .. Len(q) - (e + 1) + 1 : c[i] = q[(e + 1) + i - 1]
    BY <2>1, <1>1, SubSeqProperties
  <2> HIDE DEF c
  <2>3. \A i \in 1 .. Len(q) - e : c[i] = q[e + i]
    <3> TAKE i \in 1 .. Len(q) - e
    <3>1. i \in 1 .. Len(q) - (e + 1) + 1 /\ (e + 1) + i - 1 = e + i
      BY <1>1
    <3> QED BY <2>2, <3>1
  <2> QED BY <1>1, <2>2, <2>3
<1> HIDE DEF a, c
<1>5. /\ b \in Seq(T) /\ Len(b) = s /\ b[s] = x /\ \A i \in 1 .. s - 1 : b[i] = q[i]
  <2>1. <<x>> \in Seq(T) /\ Len(<<x>>) = 1 /\ <<x>>[1] = x
    OBVIOUS
  <2>2. /\ b \in Seq(T) /\ Len(b) = (s - 1) + 1
        /\ \A i \in 1 .. (s - 1) + 1 : b[i] = IF i <= s - 1 THEN a[i] ELSE <<x>>[i - (s - 1)]
    BY <1>3, <2>1, ConcatProperties
  <2> HIDE DEF b
  <2> QED BY <1>1, <1>3, <2>1, <2>2
<1> HIDE DEF b
<1>6. /\ b \o c \in Seq(T) /\ Len(b \o c) = s + (Len(q) - e)
      /\ \A i \in 1 .. s + (Len(q) - e) : (b \o c)[i] = IF i <= s THEN b[i] ELSE c[i - s]
  <2>1. b \in Seq(T) /\ c \in Seq(T) /\ Len(b) = s /\ Len(c) = Len(q) - e
    BY <1>4, <1>5
  <2>2. /\ b \o c \in Seq(T) /\ Len(b \o c) = Len(b) + Len(c)
        /\ \A i \in 1 .. Len(b) + Len(c) : (b \o c)[i] = IF i <= Len(b) THEN b[i] ELSE c[i - Len(b)]
    BY <2>1, ConcatProperties
  <2> QED BY <2>1, <2>2
<1>7. Cut(q, s, e, x) = b \o c
  BY DEF Cut, a, b, c
<1>8. \A i \in 1 .. Len(q) - (e - s) :
        (b \o c)[i] = IF i < s THEN q[i] ELSE IF i = s THEN x ELSE q[i + (e - s)]
  <2> TAKE i \in 1 .. Len(q) - (e - s)
  <2>1. i \in 1 .. s + (Len(q) - e)
    BY <1>1
  <2>2. CASE i < s
    <3>1. i \in 1 .. s - 1 /\ i <= s
      BY <2>2, <1>1
    <3> QED BY <2>1, <2>2, <3>1, <1>5, <1>6
  <2>3. CASE i = s
    BY <2>1, <2>3, <1>1, <1>5, <1>6
  <2>4. CASE s < i
    <3>1. i - s \in 1 .. Len(q) - e /\ e + (i - s) = i + (e - s) /\ ~(i <= s) /\ ~(i < s) /\ i # s
      BY <2>1, <2>4, <1>1
    <3>2. (b \o c)[i] = c[i - s]
      BY <2>1, <3>1, <1>6
    <3>3. c[i - s] = q[i + (e - s)]
      BY <3>1, <1>4
    <3> QED BY <3>1, <3>2, <3>3
  <2>5. i < s \/ i = s \/ s < i
    BY <1>1
  <2> QED BY <2>2, <2>3, <2>4, <2>5
<1>9. s + (Len(q) - e) = Len(q) - (e - s)
  BY <1>1
<1> QED BY <1>6, <1>7, <1>8, <1>9

\* The same as one fact, to be cited of a context.
IsCut(w, q, s, e, x) ==
  /\ w \in Seq(Msg) /\ Len(w) = Len(q) - (e - s)
  /\ \A i \in 1 .. Len(q) - (e - s) :
       w[i] = IF i < s THEN q[i] ELSE IF i = s THEN x ELSE q[i + (e - s)]

LEMMA MsgCut ==
  ASSUME NEW q \in Seq(Msg), NEW x \in Msg, NEW s \in 1 .. Len(q), NEW e \in s .. Len(q)
  PROVE  IsCut(Cut(q, s, e, x), q, s, e, x)
BY ONLY q \in Seq(Msg), x \in Msg, s \in 1 .. Len(q), e \in s .. Len(q), CutFacts DEF IsCut

\* A compaction entry over messages that stand for themselves is rebuilt as a
\* summary in their place.
LEMMA MoreCompaction ==
  ASSUME NEW l \in Seq(Entry), Regular(l),
         NEW s \in 1 .. Cardinality(Kept(l)), NEW e \in s .. Cardinality(Kept(l)),
         \A i \in s .. e : CoveredBy(l, Ascending(Kept(l))[i]) = {}
  PROVE  LET k == Ascending(Kept(l))
             g == Append(l, CompactionEntry(k[s], k[e]))
         IN  /\ g \in Seq(Entry) /\ Len(g) = Len(l) + 1 /\ Regular(g)
             /\ RebuiltMessages(g) = Cut(RebuiltMessages(l), s, e, Message("summary", Len(l) + 1))
             /\ RebuiltIds(g) = Cut(RebuiltIds(l), s, e, 0)
<1> DEFINE k == Ascending(Kept(l))
           n == Cardinality(Kept(l))
           new == Len(l) + 1
           g == Append(l, CompactionEntry(k[s], k[e]))
           d == e - s
           f == [i \in 1 .. n - d |-> IF i <= s THEN k[i] ELSE k[i + d]]
           Within(p) == k[s] <= p /\ p <= k[e]
<1>1. /\ Len(l) \in Nat /\ DOMAIN l = 1 .. Len(l) /\ \A p \in DOMAIN l : l[p] \in Entry
      /\ \A p : CoveredBy(l, p) \subseteq DOMAIN l
  BY LogFacts
<1>2. /\ n \in Nat /\ k \in [1 .. n -> Kept(l)] /\ Increasing(k)
      /\ \A p \in Kept(l) : \E i \in 1 .. n : k[i] = p
      /\ RebuiltMessages(l) \in Seq(Msg) /\ Len(RebuiltMessages(l)) = n
      /\ RebuiltIds(l) \in Seq(Nat) /\ Len(RebuiltIds(l)) = n
      /\ \A i \in 1 .. n :
           /\ k[i] \in DOMAIN l \ Compactions(l) /\ k[i] \in Nat
           /\ RebuiltMessages(l)[i] = MessageAt(l, k[i])
           /\ RebuiltIds(l)[i] = IF CoveredBy(l, k[i]) = {} THEN k[i] ELSE 0
  BY RebuiltFacts
<1>3. /\ s \in 1 .. n /\ e \in 1 .. n /\ s <= e /\ d \in Nat /\ n - d \in Nat
      /\ s \in Nat /\ e \in Nat /\ s + d = e
      /\ CoveredBy(l, k[s]) = {} /\ \A i \in s .. e : CoveredBy(l, k[i]) = {}
  <2>1. n \in Nat
    BY <1>2
  <2>2. /\ s \in 1 .. n /\ e \in 1 .. n /\ s <= e /\ d \in Nat /\ n - d \in Nat
        /\ s \in Nat /\ e \in Nat /\ s + d = e /\ s \in s .. e
    <3> HIDE DEF n
    <3>1. s \in 1 .. n /\ e \in s .. n
      BY DEF n
    <3> QED BY <2>1, <3>1
  <2> QED BY <2>2
<1>4. /\ k[s] \in DOMAIN l \ Compactions(l) /\ k[e] \in DOMAIN l \ Compactions(l)
      /\ k[s] \in Nat /\ k[e] \in Nat
  BY <1>2, <1>3
<1>5. /\ \A i, j \in 1 .. n : k[i] <= k[j] <=> i <= j
      /\ \A i, j \in 1 .. n : k[i] < k[j] <=> i < j
  <2> HIDE DEF k, n
  <2>1. \A i \in 1 .. n : k[i] \in Nat
    BY <1>2
  <2>2. \A i, j \in 1 .. n : i < j => k[i] < k[j]
    BY <1>2 DEF Increasing
  <2>3. n \in Nat
    BY <1>2
  <2> QED BY <2>1, <2>2, <2>3, SMTT(30)
<1>6. k[s] <= k[e]
  BY <1>3, <1>5
<1>7. /\ g \in Seq(Entry) /\ Len(g) = new /\ DOMAIN g = DOMAIN l \cup {new} /\ new \notin DOMAIN l
      /\ g[new] = CompactionEntry(k[s], k[e]) /\ \A p \in DOMAIN l : g[p] = l[p]
  <2> HIDE DEF k
  <2>1. CompactionEntry(k[s], k[e]) \in Entry
    BY <1>4 DEF CompactionEntry, Entry
  <2> QED BY <1>1, <2>1
<1>8. /\ g[new].role = "compaction" /\ g[new].from = k[s] /\ g[new].to = k[e]
  BY <1>7 DEF CompactionEntry
<1> HIDE DEF k, n, g, d, new
<1>9. /\ Compactions(g) = Compactions(l) \cup {new}
      /\ DOMAIN g \ Compactions(g) = DOMAIN l \ Compactions(l)
  BY <1>7, <1>8 DEF Compactions
<1>10. \A p : CoveredBy(g, p) = CoveredBy(l, p) \cup (IF Within(p) THEN {new} ELSE {})
  <2>1. \A x \in Compactions(l) : g[x] = l[x]
    BY <1>7 DEF Compactions
  <2> QED BY <2>1, <1>8, <1>9 DEF CoveredBy
<1>11. \A p \in DOMAIN l \ Compactions(l) : Within(p) => CoveredBy(l, p) = {}
  <2> SUFFICES ASSUME NEW p \in DOMAIN l \ Compactions(l), Within(p), NEW x \in CoveredBy(l, p)
               PROVE  FALSE
    OBVIOUS
  <2> DEFINE a == l[x].from
  <2>1. /\ x \in Compactions(l) /\ a <= p /\ p <= l[x].to
        /\ a \in DOMAIN l \ Compactions(l) /\ l[x].to \in DOMAIN l /\ a <= l[x].to
    BY DEF CoveredBy, Regular
  <2>2. a \in Nat /\ p \in Nat /\ l[x].to \in Nat
    BY <2>1, <1>1
  <2>3. x \in CoveredBy(l, a)
    BY <2>1, <2>2 DEF CoveredBy
  <2>4. a \in Kept(l)
    BY <2>1, <2>3 DEF Kept, Regular
  <2>5. PICK j \in 1 .. n : k[j] = a
    BY <2>4, <1>2
  <2>6. ~(j \in s .. e)
    BY <2>3, <2>5, <1>3
  <2>7. k[j] <= k[e]
    BY <2>1, <2>2, <2>5, <1>4
  <2>8. j < s
    BY <2>6, <2>7, <1>3, <1>5
  <2>9. a < k[s]
    BY <2>5, <2>8, <1>3, <1>5
  <2>10. x \in CoveredBy(l, k[s])
    BY <2>1, <2>2, <2>9, <1>4 DEF CoveredBy
  <2> QED BY <2>10, <1>3
<1>12. Regular(g)
  <2>1. \A x \in Compactions(g) :
          /\ g[x].from \in DOMAIN g \ Compactions(g) /\ g[x].to \in DOMAIN g \ Compactions(g)
          /\ g[x].from <= g[x].to
    <3> TAKE x \in Compactions(g)
    <3>1. CASE x = new
      BY <3>1, <1>4, <1>6, <1>8, <1>9
    <3>2. CASE x \in Compactions(l)
      <4>1. g[x] = l[x]
        BY <3>2, <1>7 DEF Compactions
      <4> QED BY <3>2, <4>1, <1>9 DEF Regular
    <3> QED BY <3>1, <3>2, <1>9
  <2>2. \A p \in DOMAIN g \ Compactions(g) : \A x, y \in CoveredBy(g, p) : x = y
    <3> TAKE p \in DOMAIN g \ Compactions(g)
    <3>1. p \in DOMAIN l \ Compactions(l)
      BY <1>9
    <3>2. CASE Within(p)
      BY <3>1, <3>2, <1>10, <1>11
    <3>3. CASE ~Within(p)
      BY <3>1, <3>3, <1>10 DEF Regular
    <3> QED BY <3>2, <3>3
  <2> QED BY <2>1, <2>2 DEF Regular
<1>13. \A p : p \in Kept(g) <=> p \in Kept(l) /\ (Within(p) => p = k[s])
  <2> TAKE p
  <2>1. \A x \in CoveredBy(l, p) : g[x] = l[x]
    BY <1>1, <1>7
  <2>2. CASE p \in DOMAIN l \ Compactions(l) /\ Within(p)
    BY <2>2, <1>8, <1>9, <1>10, <1>11 DEF Kept
  <2>3. CASE p \in DOMAIN l \ Compactions(l) /\ ~Within(p)
    BY <2>1, <2>3, <1>9, <1>10 DEF Kept
  <2>4. CASE p \notin DOMAIN l \ Compactions(l)
    BY <2>4, <1>9 DEF Kept
  <2> QED BY <2>2, <2>3, <2>4
<1>14. \A j \in 1 .. n : Within(k[j]) <=> j \in s .. e
  <2> TAKE j \in 1 .. n
  <2> QED BY <1>3, <1>5
<1>15. \A i \in 1 .. n - d :
         /\ f[i] = (IF i <= s THEN k[i] ELSE k[i + d])
         /\ i <= s => i \in 1 .. n
         /\ ~(i <= s) => i + d \in 1 .. n /\ e < i + d
  <2> TAKE i \in 1 .. n - d
  <2>1. f[i] = (IF i <= s THEN k[i] ELSE k[i + d])
    OBVIOUS
  <2> HIDE DEF f
  <2> QED BY <2>1, <1>2, <1>3
<1>16. Cardinality(Kept(g)) = n - d /\ Ascending(Kept(g)) = f
  <2>1. \A i \in 1 .. n - d : f[i] \in Kept(g)
    <3> TAKE i \in 1 .. n - d
    <3>1. CASE i <= s
      <4>1. i \in 1 .. n /\ f[i] = k[i]
        BY <3>1, <1>15
      <4>2. i \in s .. e => i = s
        BY <3>1, <1>3
      <4> QED BY <4>1, <4>2, <1>2, <1>13, <1>14
    <3>2. CASE ~(i <= s)
      <4>1. i + d \in 1 .. n /\ f[i] = k[i + d] /\ i + d \notin s .. e
        BY <3>2, <1>3, <1>15
      <4> QED BY <4>1, <1>2, <1>13, <1>14
    <3> QED BY <3>1, <3>2
  <2>2. Increasing(f)
    <3> SUFFICES ASSUME NEW i \in 1 .. n - d, NEW j \in 1 .. n - d, i < j PROVE f[i] < f[j]
      BY DEF Increasing
    <3> HIDE DEF f
    <3>1. CASE j <= s
      BY <3>1, <1>3, <1>5, <1>15
    <3>2. CASE i <= s /\ ~(j <= s)
      BY <3>2, <1>3, <1>5, <1>15
    <3>3. CASE ~(i <= s)
      BY <3>3, <1>3, <1>5, <1>15
    <3> QED BY <3>1, <3>2, <3>3
  <2>3. \A p \in Kept(g) : \E i \in 1 .. n - d : f[i] = p
    <3> TAKE p \in Kept(g)
    <3>1. p \in Kept(l) /\ (Within(p) => p = k[s])
      BY <1>13
    <3>2. PICK j \in 1 .. n : k[j] = p
      BY <3>1, <1>2
    <3>3. j <= s \/ e < j
      BY <3>1, <3>2, <1>3, <1>5, <1>14
    <3>4. CASE j <= s
      <4>1. j \in 1 .. n - d
        BY <3>4, <1>2, <1>3
      <4> QED BY <3>2, <3>4, <4>1, <1>15
    <3>5. CASE e < j
      <4>1. j - d \in 1 .. n - d /\ ~(j - d <= s) /\ (j - d) + d = j
        BY <3>5, <1>2, <1>3, SMTT(30)
      <4>2. f[j - d] = p
        BY <3>2, <4>1, <1>15
      <4> QED BY <4>1, <4>2
    <3> QED BY <3>3, <3>4, <3>5
  <2>4. Kept(g) \in SUBSET Nat
    BY <1>7, LogFacts
  <2>5. f \in [1 .. n - d -> Kept(g)]
    <3>1. f = [i \in 1 .. n - d |-> f[i]]
      OBVIOUS
    <3> HIDE DEF f
    <3> QED BY <2>1, <3>1
  <2> HIDE DEF f
  <2> QED BY <2>2, <2>3, <2>4, <2>5, <1>3, AscendingUnique
<1> HIDE DEF f
<1>17. /\ RebuiltMessages(g) \in Seq(Msg) /\ Len(RebuiltMessages(g)) = n - d
       /\ RebuiltIds(g) \in Seq(Nat) /\ Len(RebuiltIds(g)) = n - d
       /\ \A i \in 1 .. n - d :
            /\ RebuiltMessages(g)[i] = MessageAt(g, f[i])
            /\ RebuiltIds(g)[i] = IF CoveredBy(g, f[i]) = {} THEN f[i] ELSE 0
  BY <1>7, <1>16, RebuiltFacts
<1>18. \A i \in 1 .. n :
         i \notin s .. e => /\ CoveredBy(g, k[i]) = CoveredBy(l, k[i])
                            /\ MessageAt(g, k[i]) = MessageAt(l, k[i])
  <2> TAKE i \in 1 .. n
  <2> HAVE i \notin s .. e
  <2>1. CoveredBy(g, k[i]) = CoveredBy(l, k[i])
    BY <1>10, <1>14
  <2>2. g[k[i]] = l[k[i]]
    BY <1>2, <1>7
  <2> QED BY <2>1, <2>2 DEF MessageAt
<1>19. CoveredBy(g, k[s]) = {new} /\ MessageAt(g, k[s]) = Message("summary", new)
  <2>1. CoveredBy(g, k[s]) = {new}
    <3>1. Within(k[s])
      BY <1>4, <1>6
    <3> QED BY <3>1, <1>3, <1>10
  <2> QED BY <2>1 DEF MessageAt
<1>20. \A i \in 1 .. n - d :
         /\ RebuiltMessages(g)[i] = IF i < s THEN RebuiltMessages(l)[i]
                                    ELSE IF i = s THEN Message("summary", new)
                                    ELSE RebuiltMessages(l)[i + d]
         /\ RebuiltIds(g)[i] = IF i < s THEN RebuiltIds(l)[i]
                               ELSE IF i = s THEN 0 ELSE RebuiltIds(l)[i + d]
  <2> TAKE i \in 1 .. n - d
  <2>1. CASE i < s
    <3>1. i \in 1 .. n /\ i \notin s .. e /\ f[i] = k[i]
      BY <2>1, <1>3, <1>15
    <3> QED BY <2>1, <3>1, <1>2, <1>17, <1>18, ZenonT(40)
  <2>2. CASE i = s
    <3>1. f[i] = k[s] /\ ~(i < s)
      BY <2>2, <1>3, <1>15
    <3> QED BY <2>2, <3>1, <1>17, <1>19
  <2>3. CASE ~(i <= s)
    <3>1. i + d \in 1 .. n /\ i + d \notin s .. e /\ f[i] = k[i + d] /\ ~(i < s) /\ i # s
      BY <2>3, <1>3, <1>15
    <3>2. RebuiltMessages(g)[i] = RebuiltMessages(l)[i + d]
      BY <3>1, <1>2, <1>17, <1>18, ZenonT(40)
    <3>3. RebuiltIds(g)[i] = RebuiltIds(l)[i + d]
      <4>1. CoveredBy(g, k[i + d]) = CoveredBy(l, k[i + d])
        BY <3>1, <1>18
      <4>2. RebuiltIds(g)[i] = IF CoveredBy(g, k[i + d]) = {} THEN k[i + d] ELSE 0
        BY <3>1, <1>17
      <4>3. RebuiltIds(l)[i + d] = IF CoveredBy(l, k[i + d]) = {} THEN k[i + d] ELSE 0
        BY <3>1, <1>2
      <4> QED BY <4>1, <4>2, <4>3
    <3> QED BY <3>1, <3>2, <3>3
  <2> QED BY <2>1, <2>2, <2>3, <1>3
<1>21. RebuiltMessages(g) = Cut(RebuiltMessages(l), s, e, Message("summary", new))
  <2> DEFINE x == Message("summary", new)
             c == Cut(RebuiltMessages(l), s, e, x)
  <2>1. x \in Msg
    BY <1>1 DEF new, Message, Msg, MessageRoles
  <2>2. RebuiltMessages(l) \in Seq(Msg) /\ Len(RebuiltMessages(l)) = n
    BY <1>2
  <2>3. s \in 1 .. Len(RebuiltMessages(l)) /\ e \in s .. Len(RebuiltMessages(l))
    BY <1>3, <2>2
  <2> HIDE DEF x
  <2>4. /\ c \in Seq(Msg) /\ Len(c) = n - (e - s)
        /\ \A i \in 1 .. n - (e - s) :
             c[i] = IF i < s THEN RebuiltMessages(l)[i] ELSE IF i = s THEN x
                    ELSE RebuiltMessages(l)[i + (e - s)]
    <3> DEFINE r == RebuiltMessages(l)
    <3>1. /\ c \in Seq(Msg) /\ Len(c) = Len(r) - (e - s)
          /\ \A i \in 1 .. Len(r) - (e - s) :
               c[i] = IF i < s THEN r[i] ELSE IF i = s THEN x ELSE r[i + (e - s)]
      <4>1. r \in Seq(Msg) /\ s \in 1 .. Len(r) /\ e \in s .. Len(r)
        BY <2>2, <2>3
      <4> HIDE DEF r
      <4> QED BY ONLY <2>1, <4>1, CutFacts, SMTT(30) DEF c, r
    <3> QED BY <2>2, <3>1
  <2> HIDE DEF c
  <2>5. \A i \in 1 .. n - d : RebuiltMessages(g)[i] = c[i]
    BY <2>4, <1>20 DEF d, x
  <2>6. RebuiltMessages(g) = c
    BY <2>4, <2>5, <1>17, SeqEqual DEF d
  <2> QED BY <2>6 DEF c, x
<1>22. RebuiltIds(g) = Cut(RebuiltIds(l), s, e, 0)
  <2> DEFINE c == Cut(RebuiltIds(l), s, e, 0)
  <2>2. RebuiltIds(l) \in Seq(Nat) /\ Len(RebuiltIds(l)) = n
    BY <1>2
  <2>3. s \in 1 .. Len(RebuiltIds(l)) /\ e \in s .. Len(RebuiltIds(l))
    BY <1>3, <2>2
  <2>4. /\ c \in Seq(Nat) /\ Len(c) = n - (e - s)
        /\ \A i \in 1 .. n - (e - s) :
             c[i] = IF i < s THEN RebuiltIds(l)[i] ELSE IF i = s THEN 0
                    ELSE RebuiltIds(l)[i + (e - s)]
    <3> DEFINE r == RebuiltIds(l)
    <3>1. /\ c \in Seq(Nat) /\ Len(c) = Len(r) - (e - s)
          /\ \A i \in 1 .. Len(r) - (e - s) :
               c[i] = IF i < s THEN r[i] ELSE IF i = s THEN 0 ELSE r[i + (e - s)]
      <4>1. r \in Seq(Nat) /\ s \in 1 .. Len(r) /\ e \in s .. Len(r) /\ 0 \in Nat
        BY <2>2, <2>3
      <4> HIDE DEF r
      <4>2. \A x \in Nat :
              /\ Cut(r, s, e, x) \in Seq(Nat) /\ Len(Cut(r, s, e, x)) = Len(r) - (e - s)
              /\ \A i \in 1 .. Len(r) - (e - s) :
                   Cut(r, s, e, x)[i]
                     = IF i < s THEN r[i] ELSE IF i = s THEN x ELSE r[i + (e - s)]
        <5> DEFINE T == Nat
        <5> TAKE x \in T
        <5>1. r \in Seq(T)
          BY <4>1
        <5> HIDE DEF T
        <5>2. /\ Cut(r, s, e, x) \in Seq(T) /\ Len(Cut(r, s, e, x)) = Len(r) - (e - s)
              /\ \A i \in 1 .. Len(r) - (e - s) :
                   Cut(r, s, e, x)[i]
                     = IF i < s THEN r[i] ELSE IF i = s THEN x ELSE r[i + (e - s)]
          BY ONLY <4>1, <5>1, x \in T, CutFacts
        <5> QED BY <5>2 DEF T
      <4> QED BY ONLY <4>1, <4>2 DEF c, r
    <3> QED BY <2>2, <3>1
  <2> HIDE DEF c
  <2>5. \A i \in 1 .. n - d : RebuiltIds(g)[i] = c[i]
    BY <2>4, <1>20 DEF d
  <2>6. RebuiltIds(g) = c
    BY <2>4, <2>5, <1>17, SeqEqual DEF d
  <2> QED BY <2>6 DEF c
<1> QED BY <1>7, <1>12, <1>21, <1>22 DEF g, new, k

--------------------------------------------------------------------------------
(* Rounds of calls and results.                                              *)

\* m[i] .. m[j] belong to one round of calls and results: no result comes
\* before a call.
Block(m, i, j) ==
  \A k \in i .. j : /\ m[k].role \in {"call", "tool"}
                    /\ (k < j /\ m[k].role = "tool") => m[k + 1].role = "tool"

\* No call or result comes twice, a result follows its call in its round, and
\* the round of a call without a result is the last.
Sound(m) ==
  /\ \A i, j \in 1 .. Len(m) :
       (m[i].role \in {"call", "tool"} /\ m[i].role = m[j].role /\ m[i].key = m[j].key) => i = j
  /\ \A j \in 1 .. Len(m) : m[j].role = "tool" =>
       \E i \in 1 .. j : m[i].role = "call" /\ m[i].key = m[j].key /\ Block(m, i, j)
  /\ \A i \in Unanswered(m) : Block(m, i, Len(m))

LEMMA MsgFacts ==
  ASSUME NEW m \in Seq(Msg)
  PROVE  /\ Len(m) \in Nat /\ DOMAIN m = 1 .. Len(m)
         /\ \A i \in 1 .. Len(m) : m[i] \in Msg /\ m[i].role \in MessageRoles /\ m[i].key \in Nat
         /\ \A i \in 1 .. Len(m) : \A r, k : m[i] = Message(r, k) <=> m[i].role = r /\ m[i].key = k
<1>1. Len(m) \in Nat /\ DOMAIN m = 1 .. Len(m) /\ \A i \in 1 .. Len(m) : m[i] \in Msg
  BY LenProperties, ElementOfSeq
<1>2. \A i \in 1 .. Len(m) : m[i].role \in MessageRoles /\ m[i].key \in Nat
  BY <1>1 DEF Msg
<1>3. \A i \in 1 .. Len(m) : \A r, k : m[i] = Message(r, k) <=> m[i].role = r /\ m[i].key = k
  BY <1>1 DEF Msg, Message
<1> QED BY <1>1, <1>2, <1>3

LEMMA UnansweredFacts ==
  ASSUME NEW m \in Seq(Msg)
  PROVE  \A i : i \in Unanswered(m) <=>
            /\ i \in 1 .. Len(m) /\ m[i].role = "call"
            /\ \A j \in 1 .. Len(m) : ~(m[j].role = "tool" /\ m[j].key = m[i].key)
BY MsgFacts DEF Unanswered, Contains

\* A part of a block is a block.
LEMMA BlockPart ==
  ASSUME NEW m, NEW w, NEW i \in Nat, NEW j \in Nat, NEW n \in Nat, j <= n, Block(m, i, n),
         \A k \in i .. j : w[k] = m[k]
  PROVE  Block(w, i, j)
<1> SUFFICES ASSUME NEW k \in i .. j
             PROVE  /\ w[k].role \in {"call", "tool"}
                    /\ (k < j /\ w[k].role = "tool") => w[k + 1].role = "tool"
  BY DEF Block
<1>1. k \in i .. n /\ w[k] = m[k] /\ (k < j => k < n /\ k + 1 \in i .. j)
  OBVIOUS
<1>2. m[k].role \in {"call", "tool"} /\ ((k < n /\ m[k].role = "tool") => m[k + 1].role = "tool")
  BY <1>1 DEF Block
<1> QED BY <1>1, <1>2

\* A prefix of a sound context is sound.
LEMMA SoundPrefix ==
  ASSUME NEW m \in Seq(Msg), Sound(m), NEW w \in Seq(Msg), Len(w) <= Len(m),
         \A i \in 1 .. Len(w) : w[i] = m[i]
  PROVE  Sound(w)
<1>1. Len(m) \in Nat /\ Len(w) \in Nat
  BY MsgFacts
<1>3. \A i, j \in 1 .. Len(w) :
       (w[i].role \in {"call", "tool"} /\ w[i].role = w[j].role /\ w[i].key = w[j].key) => i = j
  BY <1>1 DEF Sound
<1>4. ASSUME NEW j \in 1 .. Len(w), w[j].role = "tool"
      PROVE  \E i \in 1 .. j : w[i].role = "call" /\ w[i].key = w[j].key /\ Block(w, i, j)
  <2>1. PICK i \in 1 .. j : m[i].role = "call" /\ m[i].key = m[j].key /\ Block(m, i, j)
    BY <1>1, <1>4 DEF Sound
  <2>2. Block(w, i, j)
    <3>1. i \in Nat /\ j \in Nat /\ j <= j /\ \A k \in i .. j : w[k] = m[k]
      BY <1>1, <2>1
    <3> QED BY ONLY <2>1, <3>1, BlockPart
  <2> QED BY <1>1, <1>4, <2>1, <2>2
<1>5. ASSUME NEW i \in Unanswered(w)
      PROVE  Block(w, i, Len(w))
  <2>1. /\ i \in 1 .. Len(w) /\ w[i].role = "call"
        /\ \A j \in 1 .. Len(w) : ~(w[j].role = "tool" /\ w[j].key = w[i].key)
    BY UnansweredFacts
  <2>2. CASE i \in Unanswered(m)
    <3>1. Block(m, i, Len(m))
      BY <2>2 DEF Sound
    <3> QED BY <1>1, <2>1, <3>1, BlockPart
  <2>3. CASE i \notin Unanswered(m)
    <3>1. PICK j \in 1 .. Len(m) : m[j].role = "tool" /\ m[j].key = m[i].key
      BY <1>1, <2>1, <2>3, UnansweredFacts
    <3>2. PICK k \in 1 .. j : m[k].role = "call" /\ m[k].key = m[j].key /\ Block(m, k, j)
      BY <3>1 DEF Sound
    <3>3. k = i
      <4>1. i \in 1 .. Len(m) /\ k \in 1 .. Len(m) /\ m[i].role = "call"
        BY <1>1, <2>1
      <4> QED BY <4>1, <3>1, <3>2 DEF Sound
    <3>4. j > Len(w)
      BY <1>1, <2>1, <3>1
    <3>5. i \in Nat /\ j \in Nat /\ Len(w) <= j /\ Block(m, i, j)
      BY <1>1, <2>1, <3>2, <3>3, <3>4
    <3>6. \A h \in i .. Len(w) : w[h] = m[h]
      BY <1>1, <2>1
    <3> QED BY <1>1, <3>5, <3>6, BlockPart
  <2> QED BY <2>2, <2>3
<1> QED BY <1>3, <1>4, <1>5 DEF Sound

\* Nothing but calls and results matters: other messages may follow when no
\* call is left without a result.
LEMMA SoundPlain ==
  ASSUME NEW m \in Seq(Msg), Sound(m), Unanswered(m) = {}, NEW w \in Seq(Msg), Len(m) <= Len(w),
         \A i \in 1 .. Len(m) : w[i] = m[i],
         \A i \in Len(m) + 1 .. Len(w) : w[i].role \notin {"call", "tool"}
  PROVE  Sound(w) /\ Unanswered(w) = {}
<1>1. Len(m) \in Nat /\ Len(w) \in Nat
  BY MsgFacts
<1>2. \A i \in 1 .. Len(w) : w[i].role \in {"call", "tool"} => i \in 1 .. Len(m)
  BY <1>1
<1>3. \A i, j \in 1 .. Len(w) :
       (w[i].role \in {"call", "tool"} /\ w[i].role = w[j].role /\ w[i].key = w[j].key) => i = j
  BY <1>1, <1>2 DEF Sound
<1>4. ASSUME NEW j \in 1 .. Len(w), w[j].role = "tool"
      PROVE  \E i \in 1 .. j : w[i].role = "call" /\ w[i].key = w[j].key /\ Block(w, i, j)
  <2>0. j \in 1 .. Len(m) /\ m[j].role = "tool"
    BY <1>2, <1>4
  <2>1. PICK i \in 1 .. j : m[i].role = "call" /\ m[i].key = m[j].key /\ Block(m, i, j)
    BY <2>0 DEF Sound
  <2>2. Block(w, i, j)
    <3>1. i \in Nat /\ j \in Nat /\ j <= j /\ \A k \in i .. j : w[k] = m[k]
      BY <1>1, <2>0
    <3> QED BY ONLY <2>1, <3>1, BlockPart
  <2> QED BY <1>1, <1>4, <2>0, <2>1, <2>2
<1>5. ASSUME NEW i \in Unanswered(w)
      PROVE  FALSE
  <2>1. /\ i \in 1 .. Len(w) /\ w[i].role = "call"
        /\ \A j \in 1 .. Len(w) : ~(w[j].role = "tool" /\ w[j].key = w[i].key)
    BY UnansweredFacts
  <2>2. i \in 1 .. Len(m)
    BY <2>1, <1>2
  <2>3. i \in Unanswered(m)
    BY <1>1, <2>1, <2>2, UnansweredFacts
  <2> QED BY <2>3
<1> QED BY <1>3, <1>4, <1>5 DEF Sound

\* Calls with new keys.
LEMMA SoundCalls ==
  ASSUME NEW m \in Seq(Msg), Sound(m), Unanswered(m) = {}, NEW w \in Seq(Msg), Len(m) <= Len(w),
         \A i \in 1 .. Len(m) : w[i] = m[i],
         NEW c \in Nat,
         \A i \in 1 .. Len(m) : m[i].role \in {"call", "tool"} => m[i].key <= c,
         \A i \in Len(m) + 1 .. Len(w) : w[i].role = "call" /\ w[i].key = c + (i - Len(m))
  PROVE  /\ Sound(w)
         /\ \A i : i \in Unanswered(w) <=> i \in Len(m) + 1 .. Len(w)
<1>1. Len(m) \in Nat /\ Len(w) \in Nat /\ \A i \in 1 .. Len(m) : m[i].key \in Nat
  BY MsgFacts
<1>2. \A i \in 1 .. Len(w) : i \in 1 .. Len(m) \/ i \in Len(m) + 1 .. Len(w)
  BY <1>1
<1>3. \A i, j \in 1 .. Len(w) :
       (w[i].role \in {"call", "tool"} /\ w[i].role = w[j].role /\ w[i].key = w[j].key) => i = j
  <2> SUFFICES ASSUME NEW i \in 1 .. Len(w), NEW j \in 1 .. Len(w),
                      w[i].role \in {"call", "tool"}, w[i].role = w[j].role, w[i].key = w[j].key
               PROVE  i = j
    OBVIOUS
  <2>1. CASE i \in 1 .. Len(m) /\ j \in 1 .. Len(m)
    BY <2>1 DEF Sound
  <2>2. CASE i \in Len(m) + 1 .. Len(w) /\ j \in Len(m) + 1 .. Len(w)
    <3>1. w[i].key = c + (i - Len(m)) /\ w[j].key = c + (j - Len(m))
      BY <2>2
    <3>2. c + (i - Len(m)) = c + (j - Len(m))
      BY <3>1
    <3> QED BY ONLY <1>1, <3>2, c \in Nat, i \in 1 .. Len(w), j \in 1 .. Len(w)
  <2>3. CASE i \in 1 .. Len(m) /\ j \in Len(m) + 1 .. Len(w)
    <3>1. w[i].key <= c /\ w[j].key = c + (j - Len(m)) /\ w[i].key \in Nat
      BY <1>1, <2>3
    <3> QED BY <1>1, <2>3, <3>1
  <2>4. CASE i \in Len(m) + 1 .. Len(w) /\ j \in 1 .. Len(m)
    <3>1. w[j].key <= c /\ w[i].key = c + (i - Len(m)) /\ w[j].key \in Nat
      BY <1>1, <2>4
    <3> QED BY <1>1, <2>4, <3>1
  <2> QED BY <1>2, <2>1, <2>2, <2>3, <2>4
<1>4. ASSUME NEW j \in 1 .. Len(w), w[j].role = "tool"
      PROVE  \E i \in 1 .. j : w[i].role = "call" /\ w[i].key = w[j].key /\ Block(w, i, j)
  <2>0. j \in 1 .. Len(m) /\ m[j].role = "tool"
    BY <1>2, <1>4
  <2>1. PICK i \in 1 .. j : m[i].role = "call" /\ m[i].key = m[j].key /\ Block(m, i, j)
    BY <2>0 DEF Sound
  <2>2. Block(w, i, j)
    <3>1. i \in Nat /\ j \in Nat /\ j <= j /\ \A k \in i .. j : w[k] = m[k]
      BY <1>1, <2>0
    <3> QED BY ONLY <2>1, <3>1, BlockPart
  <2> QED BY <1>1, <1>4, <2>0, <2>1, <2>2
<1>5. ASSUME NEW i \in Len(m) + 1 .. Len(w)
      PROVE  i \in Unanswered(w) /\ Block(w, i, Len(w))
  <2>1. i \in 1 .. Len(w) /\ w[i].role = "call" /\ w[i].key > c
    BY <1>1
  <2>2. \A j \in 1 .. Len(w) : ~(w[j].role = "tool" /\ w[j].key = w[i].key)
    <3> SUFFICES ASSUME NEW j \in 1 .. Len(w), w[j].role = "tool", w[j].key = w[i].key
                 PROVE  FALSE
      OBVIOUS
    <3>1. j \in 1 .. Len(m) /\ w[j] = m[j]
      BY <1>2
    <3>2. m[j].key <= c /\ m[j].key \in Nat
      BY <1>1, <3>1
    <3> QED BY <1>1, <2>1, <3>1, <3>2
  <2> QED BY <1>1, <2>1, <2>2, UnansweredFacts, SMTT(30) DEF Block
<1>6. ASSUME NEW i \in Unanswered(w)
      PROVE  i \in Len(m) + 1 .. Len(w)
  <2>1. /\ i \in 1 .. Len(w) /\ w[i].role = "call"
        /\ \A j \in 1 .. Len(w) : ~(w[j].role = "tool" /\ w[j].key = w[i].key)
    BY UnansweredFacts
  <2>2. ASSUME i \in 1 .. Len(m) PROVE FALSE
    <3>0. \A j \in 1 .. Len(m) : j \in 1 .. Len(w) /\ w[j] = m[j]
      BY <1>1
    <3>1. /\ m[i].role = "call"
          /\ \A j \in 1 .. Len(m) : ~(m[j].role = "tool" /\ m[j].key = m[i].key)
      BY <2>1, <2>2, <3>0
    <3> QED BY <2>2, <3>1, UnansweredFacts
  <2> QED BY <1>2, <2>1, <2>2
<1> QED BY <1>3, <1>4, <1>5, <1>6 DEF Sound

\* Results of calls that had none.
LEMMA SoundTools ==
  ASSUME NEW m \in Seq(Msg), Sound(m), NEW w \in Seq(Msg), Len(m) <= Len(w),
         \A i \in 1 .. Len(m) : w[i] = m[i],
         \A i \in Len(m) + 1 .. Len(w) :
            w[i].role = "tool" /\ \E k \in Unanswered(m) : w[i].key = m[k].key,
         \A i, j \in Len(m) + 1 .. Len(w) : w[i].key = w[j].key => i = j
  PROVE  /\ Sound(w)
         /\ \A i : i \in Unanswered(w) <=>
               i \in Unanswered(m) /\ \A j \in Len(m) + 1 .. Len(w) : w[j].key # m[i].key
<1>1. Len(m) \in Nat /\ Len(w) \in Nat /\ \A i \in 1 .. Len(m) : m[i].key \in Nat
  BY MsgFacts
<1>2. \A i \in 1 .. Len(w) : i \in 1 .. Len(m) \/ i \in Len(m) + 1 .. Len(w)
  BY <1>1
<1>3. \A i \in Unanswered(m) :
         /\ i \in 1 .. Len(m) /\ m[i].role = "call" /\ w[i].role = "call" /\ w[i].key = m[i].key
         /\ \A j \in 1 .. Len(m) : ~(m[j].role = "tool" /\ m[j].key = m[i].key)
  BY UnansweredFacts
<1>4. \A i, j \in 1 .. Len(w) :
       (w[i].role \in {"call", "tool"} /\ w[i].role = w[j].role /\ w[i].key = w[j].key) => i = j
  <2> SUFFICES ASSUME NEW i \in 1 .. Len(w), NEW j \in 1 .. Len(w),
                      w[i].role \in {"call", "tool"}, w[i].role = w[j].role, w[i].key = w[j].key
               PROVE  i = j
    OBVIOUS
  <2>1. CASE i \in 1 .. Len(m) /\ j \in 1 .. Len(m)
    BY <2>1 DEF Sound
  <2>2. CASE i \in Len(m) + 1 .. Len(w) /\ j \in Len(m) + 1 .. Len(w)
    BY <2>2
  <2>3. CASE i \in 1 .. Len(m) /\ j \in Len(m) + 1 .. Len(w)
    BY <2>3, <1>3
  <2>4. CASE i \in Len(m) + 1 .. Len(w) /\ j \in 1 .. Len(m)
    BY <2>4, <1>3
  <2> QED BY <1>2, <2>1, <2>2, <2>3, <2>4
<1>5. \A i \in Unanswered(m) : Block(w, i, Len(w))
  <2> TAKE i \in Unanswered(m)
  <2>1. Block(m, i, Len(m)) /\ i \in 1 .. Len(m)
    BY <1>3 DEF Sound
  <2>2. \A k \in i .. Len(w) : k \in i .. Len(m) \/ k \in Len(m) + 1 .. Len(w)
    BY <1>1, <2>1
  <2>3. \A k \in i .. Len(w) : k < Len(w) => k + 1 \in i .. Len(m) \/ k + 1 \in Len(m) + 1 .. Len(w)
    BY <1>1, <2>1
  <2>4. \A k \in i .. Len(w) : w[k].role \in {"call", "tool"}
    BY <1>1, <2>1, <2>2 DEF Block
  <2>5. ASSUME NEW k \in i .. Len(w), k < Len(w), w[k].role = "tool" PROVE w[k + 1].role = "tool"
    <3>1. CASE k + 1 \in Len(m) + 1 .. Len(w)
      BY <3>1
    <3>2. CASE k + 1 \in i .. Len(m)
      <4>1. k \in i .. Len(m) /\ k < Len(m) /\ k \in 1 .. Len(m) /\ k + 1 \in 1 .. Len(m)
        BY <1>1, <2>1, <2>5, <3>2
      <4> QED BY <4>1, <2>1, <2>5 DEF Block
    <3> QED BY <2>3, <2>5, <3>1, <3>2
  <2> QED BY <2>4, <2>5 DEF Block
<1>6. ASSUME NEW j \in 1 .. Len(w), w[j].role = "tool"
      PROVE  \E i \in 1 .. j : w[i].role = "call" /\ w[i].key = w[j].key /\ Block(w, i, j)
  <2>1. CASE j \in 1 .. Len(m)
    <3>1. PICK i \in 1 .. j : m[i].role = "call" /\ m[i].key = m[j].key /\ Block(m, i, j)
      BY <2>1, <1>6 DEF Sound
    <3>2. Block(w, i, j)
      <4>1. i \in Nat /\ j \in Nat /\ j <= j /\ \A k \in i .. j : w[k] = m[k]
        BY <1>1, <2>1
      <4> QED BY ONLY <3>1, <4>1, BlockPart
    <3> QED BY <1>1, <1>6, <2>1, <3>1, <3>2
  <2>2. CASE j \in Len(m) + 1 .. Len(w)
    <3>1. PICK i \in Unanswered(m) : w[j].key = m[i].key
      BY <2>2
    <3>2. Block(w, i, Len(w)) /\ i \in 1 .. j
      BY <1>1, <1>3, <1>5, <2>2
    <3>3. Block(w, i, j)
      <4>1. i \in Nat /\ j \in Nat /\ j <= Len(w)
        BY <1>1, <2>2, <3>2
      <4>2. \A k \in i .. j : k \in i .. Len(w) /\ (k < j => k < Len(w))
        BY <1>1, <4>1
      <4> QED BY ONLY <3>2, <4>2 DEF Block
    <3> QED BY <1>3, <3>1, <3>2, <3>3
  <2> QED BY <1>2, <2>1, <2>2
<1>7. ASSUME NEW i \in Unanswered(w)
      PROVE  i \in Unanswered(m) /\ \A j \in Len(m) + 1 .. Len(w) : w[j].key # m[i].key
  <2>1. /\ i \in 1 .. Len(w) /\ w[i].role = "call"
        /\ \A j \in 1 .. Len(w) : ~(w[j].role = "tool" /\ w[j].key = w[i].key)
    BY UnansweredFacts
  <2>2. i \in 1 .. Len(m)
    BY <1>2, <2>1
  <2>3. \A j \in 1 .. Len(m) : j \in 1 .. Len(w) /\ w[j] = m[j]
    BY <1>1
  <2>4. \A j \in Len(m) + 1 .. Len(w) : j \in 1 .. Len(w)
    BY <1>1
  <2>5. /\ m[i].role = "call"
        /\ \A j \in 1 .. Len(m) : ~(m[j].role = "tool" /\ m[j].key = m[i].key)
    BY <2>1, <2>2, <2>3
  <2>6. i \in Unanswered(m)
    BY <2>2, <2>5, UnansweredFacts
  <2>7. \A j \in Len(m) + 1 .. Len(w) : w[j].key # m[i].key
    BY <2>1, <2>2, <2>4
  <2> QED BY <2>6, <2>7
<1>8. ASSUME NEW i \in Unanswered(m), \A j \in Len(m) + 1 .. Len(w) : w[j].key # m[i].key
      PROVE  i \in Unanswered(w)
  <2>1. i \in 1 .. Len(w) /\ w[i].role = "call"
    BY <1>1, <1>3
  <2>2. \A j \in 1 .. Len(w) : ~(w[j].role = "tool" /\ w[j].key = w[i].key)
    BY <1>1, <1>2, <1>3, <1>8
  <2> QED BY <2>1, <2>2, UnansweredFacts
<1> QED BY <1>4, <1>5, <1>6, <1>7, <1>8 DEF Sound

\* A sound context without open calls is paired.
LEMMA SoundPaired ==
  ASSUME NEW m \in Seq(Msg), Sound(m), Unanswered(m) = {}
  PROVE  Paired(m)
<1>1. Len(m) \in Nat /\ DOMAIN m = 1 .. Len(m)
  BY MsgFacts
<1>2. ASSUME NEW i \in 1 .. Len(m), m[i].role = "call"
      PROVE  LET results == {j \in DOMAIN m : m[j] = Message("tool", m[i].key)}
             IN /\ Cardinality(results) = 1
                /\ \A j \in results : /\ i < j
                                      /\ \A k \in i .. j : m[k].role \in {"call", "tool"}
  <2> DEFINE results == {j \in DOMAIN m : m[j] = Message("tool", m[i].key)}
  <2>1. \A j : j \in results <=> j \in 1 .. Len(m) /\ m[j].role = "tool" /\ m[j].key = m[i].key
    BY <1>1, MsgFacts
  <2> HIDE DEF results
  <2>2. PICK j \in 1 .. Len(m) : m[j].role = "tool" /\ m[j].key = m[i].key
    BY <1>2, UnansweredFacts
  <2>3. \A h \in results : h = j
    BY <2>1, <2>2 DEF Sound
  <2>4. results = {j}
    BY <2>1, <2>2, <2>3
  <2>5. Cardinality(results) = 1
    BY <2>4, FS_Singleton
  <2>6. PICK k \in 1 .. j : m[k].role = "call" /\ m[k].key = m[j].key /\ Block(m, k, j)
    BY <2>2 DEF Sound
  <2>7. k = i
    <3>1. k \in 1 .. Len(m)
      BY <1>1
    <3> QED BY <3>1, <1>2, <2>2, <2>6 DEF Sound
  <2>8. i < j /\ \A h \in i .. j : m[h].role \in {"call", "tool"}
    <3>1. i # j
      BY <1>2, <2>2
    <3> QED BY <1>1, <2>6, <2>7, <3>1 DEF Block
  <2> QED BY <2>4, <2>5, <2>8 DEF results
<1>3. ASSUME NEW j \in 1 .. Len(m), m[j].role = "tool"
      PROVE  \E i \in 1 .. j : m[i] = Message("call", m[j].key)
  <2>1. PICK k \in 1 .. j : m[k].role = "call" /\ m[k].key = m[j].key
    BY <1>3 DEF Sound
  <2>2. k \in 1 .. Len(m)
    BY <1>1
  <2> QED BY <2>1, <2>2, MsgFacts
<1> QED BY <1>1, <1>2, <1>3 DEF Paired

--------------------------------------------------------------------------------
(* A compaction and the repair keep rounds whole.                            *)

\* A range the planner may replace cuts no round in two.
LEMMA SoundCut ==
  ASSUME NEW m \in Seq(Msg), Sound(m), Unanswered(m) = {}, NEW w \in Seq(Msg),
         NEW s \in 1 .. Len(m), NEW e \in s .. Len(m), ValidRange(m, s, e),
         Len(w) = Len(m) - (e - s),
         \A i \in 1 .. Len(w) : i < s => w[i] = m[i],
         \A i \in 1 .. Len(w) : i > s => w[i] = m[i + (e - s)],
         w[s].role = "summary"
  PROVE  Sound(w) /\ Unanswered(w) = {}
<1> DEFINE d == e - s
           H(i) == IF i < s THEN i ELSE i + d
<1>1. /\ Len(m) \in Nat /\ Len(w) \in Nat /\ s \in Nat /\ e \in Nat /\ d \in Nat
      /\ 1 <= s /\ s <= e /\ e <= Len(m) /\ e = s + d /\ Len(w) = Len(m) - d
  BY MsgFacts
<1> HIDE DEF d
<1>2. ASSUME NEW i \in 1 .. Len(m), NEW j \in i .. Len(m), Block(m, i, j)
      PROVE  (i < s <=> j < s) /\ (i > e <=> j > e)
  <2>1. ASSUME i < s, j >= s PROVE FALSE
    <3>1. s - 1 \in i .. j /\ s - 1 < j /\ (s - 1) + 1 = s /\ s \in i .. j /\ s > 1
      BY <1>1, <2>1
    <3>2. m[s - 1].role \in {"call", "tool"} /\ m[s].role \in {"call", "tool"}
      BY <1>2, <3>1 DEF Block
    <3>3. m[s - 1].role = "tool"
      BY <3>1, <3>2 DEF ValidRange
    <3>4. m[(s - 1) + 1].role = "tool"
      BY <1>2, <3>1, <3>3 DEF Block
    <3> QED BY <3>1, <3>4 DEF ValidRange
  <2>2. ASSUME i <= e, j > e PROVE FALSE
    <3>1. e \in i .. j /\ e < j /\ e < Len(m)
      BY <1>1, <2>2
    <3>2. m[e].role = "tool"
      BY <1>2, <3>1 DEF Block, ValidRange
    <3>3. m[e + 1].role = "tool"
      BY <1>2, <3>1, <3>2 DEF Block
    <3> QED BY <3>1, <3>3 DEF ValidRange
  <2>3. i \in Nat /\ j \in Nat /\ i <= j
    BY <1>1
  <2> QED BY <1>1, <2>1, <2>2, <2>3
<1>3. \A i \in 1 .. Len(w) : i # s => /\ H(i) \in 1 .. Len(m) /\ w[i] = m[H(i)]
                                      /\ (i < s <=> H(i) < s) /\ (i > s <=> H(i) > e)
  BY <1>1 DEF d
<1>4. \A i, j \in 1 .. Len(w) : (i # s /\ j # s /\ H(i) = H(j)) => i = j
  BY <1>1, SMTT(30)
<1>5. \A i \in 1 .. Len(m) : i < s => i \in 1 .. Len(w) /\ i # s /\ H(i) = i
  BY <1>1
<1>6. \A i \in 1 .. Len(m) : i > e => i - d \in 1 .. Len(w) /\ i - d # s /\ H(i - d) = i /\ i - d > s
  BY <1>1
<1>7. \A i \in 1 .. Len(w) : w[i].role \in {"call", "tool"} => i # s
  OBVIOUS
\* A pair outside the range keeps its block.
<1>8. ASSUME NEW i \in 1 .. Len(w), NEW j \in i .. Len(w), (i > s) \/ (j < s), Block(m, H(i), H(j))
      PROVE  Block(w, i, j)
  <2> SUFFICES ASSUME NEW k \in i .. j
               PROVE  /\ w[k].role \in {"call", "tool"}
                      /\ (k < j /\ w[k].role = "tool") => w[k + 1].role = "tool"
    BY DEF Block
  <2>1. k \in 1 .. Len(w) /\ k # s /\ (k < j => k + 1 \in 1 .. Len(w) /\ k + 1 # s)
    BY <1>1, <1>8
  <2>2. H(k) \in H(i) .. H(j) /\ (k < j => H(k) < H(j) /\ H(k + 1) = H(k) + 1)
    BY <1>1, <1>8
  <2>3. w[k] = m[H(k)] /\ (k < j => w[k + 1] = m[H(k + 1)])
    BY <1>3, <2>1
  <2> HIDE DEF H
  <2>4. /\ m[H(k)].role \in {"call", "tool"}
        /\ (H(k) < H(j) /\ m[H(k)].role = "tool") => m[H(k) + 1].role = "tool"
    BY <1>8, <2>2 DEF Block
  <2> QED BY <2>2, <2>3, <2>4
<1> HIDE DEF H
<1>9. \A i, j \in 1 .. Len(w) :
       (w[i].role \in {"call", "tool"} /\ w[i].role = w[j].role /\ w[i].key = w[j].key) => i = j
  <2> SUFFICES ASSUME NEW i \in 1 .. Len(w), NEW j \in 1 .. Len(w),
                      w[i].role \in {"call", "tool"}, w[i].role = w[j].role, w[i].key = w[j].key
               PROVE  i = j
    OBVIOUS
  <2>1. i # s /\ j # s
    BY <1>7
  <2>2. /\ H(i) \in 1 .. Len(m) /\ H(j) \in 1 .. Len(m) /\ w[i] = m[H(i)] /\ w[j] = m[H(j)]
    BY <1>3, <2>1
  <2>3. H(i) = H(j)
    <3>1. /\ m[H(i)].role \in {"call", "tool"} /\ m[H(i)].role = m[H(j)].role
          /\ m[H(i)].key = m[H(j)].key
      BY <2>2
    <3>2. \A x, y \in 1 .. Len(m) :
            (m[x].role \in {"call", "tool"} /\ m[x].role = m[y].role /\ m[x].key = m[y].key) => x = y
      BY DEF Sound
    <3> QED BY ONLY <2>2, <3>1, <3>2
  <2> QED BY <1>4, <2>1, <2>3
<1>10. ASSUME NEW j \in 1 .. Len(w), w[j].role = "tool"
       PROVE  \E i \in 1 .. j : w[i].role = "call" /\ w[i].key = w[j].key /\ Block(w, i, j)
  <2>1. j # s /\ H(j) \in 1 .. Len(m) /\ w[j] = m[H(j)]
    BY <1>3, <1>7, <1>10
  <2>2. PICK h \in 1 .. H(j) : m[h].role = "call" /\ m[h].key = m[H(j)].key /\ Block(m, h, H(j))
    BY <1>10, <2>1 DEF Sound
  <2>3. h \in 1 .. Len(m) /\ H(j) \in h .. Len(m)
    BY <1>1, <2>1, <2>2
  <2>4. (h < s <=> H(j) < s) /\ (h > e <=> H(j) > e)
    BY <2>2, <2>3, <1>2
  <2>5. CASE j < s
    <3>1. H(j) < s /\ h < s
      BY <1>3, <2>1, <2>4, <2>5
    <3>2. h \in 1 .. Len(w) /\ h # s /\ H(h) = h
      BY <1>5, <2>3, <3>1
    <3>3. H(j) = j
      BY <2>5 DEF H
    <3>4. h \in 1 .. j /\ j \in h .. Len(w)
      BY <1>1, <3>3, <2>2
    <3>5. Block(w, h, j)
      BY <1>8, <2>2, <2>5, <3>2, <3>4
    <3>6. w[h] = m[h]
      BY <1>3, <3>2
    <3> QED BY <2>1, <2>2, <3>4, <3>5, <3>6
  <2>6. CASE j > s
    <3>1. H(j) > e /\ h > e
      BY <1>3, <2>1, <2>4, <2>6
    <3>2. h - d \in 1 .. Len(w) /\ h - d # s /\ H(h - d) = h /\ h - d > s
      BY <1>6, <2>3, <3>1
    <3>3. H(j) = j + d
      BY <2>6, <1>1 DEF H
    <3>4. h - d \in 1 .. j /\ j \in h - d .. Len(w)
      BY <1>1, <3>3, <2>3, <3>2
    <3>5. Block(w, h - d, j)
      BY <1>8, <2>2, <3>2, <3>4
    <3>6. w[h - d] = m[h]
      BY <1>3, <3>2
    <3> QED BY <2>1, <2>2, <3>4, <3>5, <3>6
  <2> QED BY <1>1, <2>1, <2>5, <2>6
<1>11. ASSUME NEW i \in Unanswered(w)
       PROVE  FALSE
  <2>1. /\ i \in 1 .. Len(w) /\ w[i].role = "call"
        /\ \A j \in 1 .. Len(w) : ~(w[j].role = "tool" /\ w[j].key = w[i].key)
    BY UnansweredFacts
  <2>2. i # s /\ H(i) \in 1 .. Len(m) /\ w[i] = m[H(i)] /\ (i < s <=> H(i) < s) /\ (i > s <=> H(i) > e)
    BY <1>3, <1>7, <2>1
  <2>3. PICK j \in 1 .. Len(m) : m[j].role = "tool" /\ m[j].key = m[H(i)].key
    BY <2>1, <2>2, UnansweredFacts
  <2>4. PICK h \in 1 .. j : m[h].role = "call" /\ m[h].key = m[j].key /\ Block(m, h, j)
    BY <2>3 DEF Sound
  <2>5. h = H(i)
    <3>1. h \in 1 .. Len(m)
      BY <1>1
    <3> QED BY <2>1, <2>2, <2>3, <2>4, <3>1, SMTT(30) DEF Sound
  <2>6. (H(i) < s <=> j < s) /\ (H(i) > e <=> j > e)
    <3>1. j \in H(i) .. Len(m)
      BY <1>1, <2>4, <2>5
    <3> QED BY <1>2, <2>2, <2>4, <2>5, <3>1
  <2>7. CASE i < s
    <3>1. j \in 1 .. Len(w) /\ j # s /\ H(j) = j
      BY <1>5, <2>2, <2>6, <2>7
    <3>2. w[j] = m[j]
      BY <1>3, <3>1
    <3> QED BY <2>1, <2>2, <2>3, <3>1, <3>2
  <2>8. CASE i > s
    <3>1. j - d \in 1 .. Len(w) /\ j - d # s /\ H(j - d) = j
      BY <1>6, <2>2, <2>6, <2>8
    <3>2. w[j - d] = m[j]
      BY <1>3, <3>1
    <3> QED BY <2>1, <2>2, <2>3, <3>1, <3>2
  <2> QED BY <1>1, <2>1, <2>2, <2>7, <2>8
<1> QED BY <1>9, <1>10, <1>11 DEF Sound

\* The repair of a resume puts results behind what there is.
LEMMA RepairedFacts ==
  ASSUME NEW m \in Seq(Msg)
  PROVE  LET S == Unanswered(m)
             a == Ascending(S)
             n == Cardinality(S)
             w == Repaired(m)
         IN  /\ n \in Nat /\ a \in [1 .. n -> S] /\ Increasing(a)
             /\ \A p \in S : \E i \in 1 .. n : a[i] = p
             /\ \A i \in 1 .. n : a[i] \in S /\ a[i] \in 1 .. Len(m) /\ m[a[i]].role = "call"
             /\ w \in Seq(Msg) /\ Len(w) = Len(m) + n
             /\ \A i \in 1 .. Len(m) : w[i] = m[i]
             /\ \A i \in Len(m) + 1 .. Len(w) :
                   /\ i - Len(m) \in 1 .. n /\ a[i - Len(m)] \in S
                   /\ w[i].role = "tool" /\ w[i].key = m[a[i - Len(m)]].key
<1> DEFINE S == Unanswered(m)
           a == Ascending(S)
           n == Cardinality(S)
           t == [i \in 1 .. n |-> Message("tool", m[a[i]].key)]
           w == m \o t
<1>1. Len(m) \in Nat /\ DOMAIN m = 1 .. Len(m) /\ \A i \in 1 .. Len(m) : m[i].key \in Nat
  BY MsgFacts
<1>2. /\ \A i \in S : i \in 1 .. Len(m) /\ m[i].role = "call" /\ i \in Nat
      /\ S \in SUBSET Nat /\ S \subseteq 1 .. Len(m)
  BY <1>1, UnansweredFacts
<1> HIDE DEF S
<1>3. IsFiniteSet(S)
  <2>1. IsFiniteSet(1 .. Len(m))
    BY <1>1, FS_Interval
  <2> QED BY <1>2, <2>1, FS_Subset
<1>4. /\ n \in Nat /\ a \in [1 .. n -> S] /\ Increasing(a)
      /\ \A p \in S : \E i \in 1 .. n : a[i] = p
  BY <1>2, <1>3, AscendingFacts
<1> HIDE DEF a, n
<1>5. \A i \in 1 .. n : a[i] \in S /\ a[i] \in 1 .. Len(m) /\ m[a[i]].role = "call"
  BY <1>2, <1>4
<1>6. Repaired(m) = w
  <2>1. Dangling(m) = [i \in 1 .. n |-> m[a[i]]]
    BY <1>4 DEF Dangling, a, n, S
  <2> QED BY <2>1 DEF Repaired
<1>7. t \in Seq(Msg) /\ Len(t) = n /\ \A i \in 1 .. n : t[i] = Message("tool", m[a[i]].key)
  <2>1. \A i \in 1 .. n : Message("tool", m[a[i]].key) \in Msg
    BY <1>1, <1>5 DEF Message, Msg, MessageRoles
  <2> QED BY <1>4, <2>1
<1> HIDE DEF t
<1>8. /\ w \in Seq(Msg) /\ Len(w) = Len(m) + n
      /\ \A i \in 1 .. Len(m) : w[i] = m[i]
      /\ \A i \in Len(m) + 1 .. Len(m) + n : w[i] = t[i - Len(m)]
  <2>1. m \in Seq(Msg) /\ t \in Seq(Msg) /\ Len(t) = n
    BY <1>7
  <2>2. /\ w \in Seq(Msg) /\ Len(w) = Len(m) + Len(t)
        /\ \A i \in 1 .. Len(m) + Len(t) : w[i] = IF i <= Len(m) THEN m[i] ELSE t[i - Len(m)]
    BY ONLY <2>1, ConcatProperties
  <2> HIDE DEF w
  <2> QED BY <1>1, <1>4, <2>1, <2>2
<1> HIDE DEF w
<1>9. \A i \in Len(m) + 1 .. Len(w) :
        /\ i - Len(m) \in 1 .. n /\ a[i - Len(m)] \in S
        /\ w[i].role = "tool" /\ w[i].key = m[a[i - Len(m)]].key
  <2> TAKE i \in Len(m) + 1 .. Len(w)
  <2>1. i - Len(m) \in 1 .. n /\ w[i] = t[i - Len(m)]
    BY <1>1, <1>4, <1>8
  <2> QED BY <2>1, <1>5, <1>7 DEF Message
<1> QED BY <1>4, <1>5, <1>6, <1>8, <1>9 DEF S, a, n

\* And it answers every call.
LEMMA SoundRepaired ==
  ASSUME NEW m \in Seq(Msg), Sound(m)
  PROVE  Sound(Repaired(m)) /\ Unanswered(Repaired(m)) = {}
<1> DEFINE S == Unanswered(m)
           a == Ascending(S)
           n == Cardinality(S)
           w == Repaired(m)
<1>1. /\ n \in Nat /\ a \in [1 .. n -> S] /\ Increasing(a)
      /\ \A p \in S : \E i \in 1 .. n : a[i] = p
      /\ \A i \in 1 .. n : a[i] \in S /\ a[i] \in 1 .. Len(m) /\ m[a[i]].role = "call"
      /\ w \in Seq(Msg) /\ Len(w) = Len(m) + n
      /\ \A i \in 1 .. Len(m) : w[i] = m[i]
      /\ \A i \in Len(m) + 1 .. Len(w) :
            /\ i - Len(m) \in 1 .. n /\ a[i - Len(m)] \in S
            /\ w[i].role = "tool" /\ w[i].key = m[a[i - Len(m)]].key
  BY RepairedFacts
<1>2. Len(m) \in Nat /\ Len(m) <= Len(w)
  BY <1>1, MsgFacts
<1> HIDE DEF a, n, w
<1>3. ASSUME NEW i \in Len(m) + 1 .. Len(w), NEW j \in Len(m) + 1 .. Len(w), w[i].key = w[j].key
      PROVE  i = j
  <2> DEFINE x == i - Len(m)
             y == j - Len(m)
  <2>1. x \in 1 .. n /\ y \in 1 .. n /\ m[a[x]].key = m[a[y]].key
    BY <1>1, <1>3
  <2>2. i = x + Len(m) /\ j = y + Len(m)
    BY <1>1, <1>2
  <2> HIDE DEF x, y
  <2>3. a[x] = a[y]
    <3>1. /\ a[x] \in 1 .. Len(m) /\ a[y] \in 1 .. Len(m) /\ m[a[x]].role = "call"
          /\ m[a[y]].role = "call"
      BY <2>1, <1>1
    <3> QED BY <2>1, <3>1 DEF Sound
  <2>4. x = y
    <3>0. n \in Nat /\ a \in [1 .. n -> S] /\ a[x] \in 1 .. Len(m) /\ a[y] \in 1 .. Len(m)
      BY <1>1, <2>1
    <3>1. DOMAIN a = 1 .. n /\ a[x] \in Nat /\ a[y] \in Nat
      BY ONLY <3>0, <1>2
    <3>2. x < y => a[x] < a[y]
      BY <1>1, <2>1, <3>1 DEF Increasing
    <3>3. y < x => a[y] < a[x]
      BY <1>1, <2>1, <3>1 DEF Increasing
    <3> QED BY ONLY <2>1, <2>3, <3>0, <3>1, <3>2, <3>3
  <2> QED BY <2>2, <2>4
<1>4. \A i \in Len(m) + 1 .. Len(w) :
            w[i].role = "tool" /\ \E k \in Unanswered(m) : w[i].key = m[k].key
  BY <1>1
<1>5. /\ Sound(w)
      /\ \A i : i \in Unanswered(w) <=>
            i \in Unanswered(m) /\ \A j \in Len(m) + 1 .. Len(w) : w[j].key # m[i].key
  BY <1>1, <1>2, <1>3, <1>4, SoundTools, ZenonT(40)
<1>6. ASSUME NEW p \in S PROVE \E j \in Len(m) + 1 .. Len(w) : w[j].key = m[p].key
  <2>1. PICK i \in 1 .. n : a[i] = p
    BY <1>1
  <2>2. Len(m) + i \in Len(m) + 1 .. Len(w) /\ (Len(m) + i) - Len(m) = i
    BY <1>1, <1>2
  <2>3. w[Len(m) + i].key = m[a[(Len(m) + i) - Len(m)]].key
    BY <1>1, <2>2
  <2> QED BY <2>1, <2>2, <2>3
<1> QED BY <1>5, <1>6 DEF w

\* The larger and the smaller of two numbers.
LEMMA MaxOfTwo == ASSUME NEW a \in Int, NEW b \in Int PROVE Max({a, b}) = IF a <= b THEN b ELSE a
BY DEF Max

LEMMA MinOfTwo == ASSUME NEW a \in Int, NEW b \in Int PROVE Min({a, b}) = IF a <= b THEN a ELSE b
BY DEF Min

--------------------------------------------------------------------------------
(* The log and the live context agree.                                       *)

\* The log l, rebuilt, is the first Len(ids) messages of m, with the ids ids.
Agree(l, ids, m) ==
  /\ Len(ids) <= Len(m)
  /\ Len(RebuiltMessages(l)) = Len(ids)
  /\ \A i \in 1 .. Len(ids) : RebuiltMessages(l)[i] = m[i]
  /\ RebuiltIds(l) = ids

\* The calls that m speaks of were made: the next call is a new one.
UpTo(m, c) == \A i \in 1 .. Len(m) : m[i].role \in {"call", "tool"} => m[i].key <= c

LEMMA NatSeqFacts ==
  ASSUME NEW q \in Seq(Nat)
  PROVE  Len(q) \in Nat /\ DOMAIN q = 1 .. Len(q) /\ \A i \in 1 .. Len(q) : q[i] \in Nat
BY LenProperties, ElementOfSeq

LEMMA PrefixFacts ==
  ASSUME NEW m \in Seq(Msg), NEW n \in 0 .. Len(m)
  PROVE  /\ SubSeq(m, 1, n) \in Seq(Msg) /\ Len(SubSeq(m, 1, n)) = n
         /\ \A i \in 1 .. n : SubSeq(m, 1, n)[i] = m[i]
<1>1. Len(m) \in Nat /\ \A i \in 1 .. Len(m) : m[i] \in Msg
  BY MsgFacts
<1>2. n \in Nat /\ n <= Len(m)
  BY <1>1
<1>3. \A i \in 1 .. n : m[i] \in Msg
  BY <1>1, <1>2
<1>4. /\ SubSeq(m, 1, n) \in Seq(Msg) /\ Len(SubSeq(m, 1, n)) = IF 1 <= n THEN n - 1 + 1 ELSE 0
      /\ \A i \in 1 .. n - 1 + 1 : SubSeq(m, 1, n)[i] = m[1 + i - 1]
  BY <1>2, <1>3, SubSeqProperties
<1>5. \A i \in 1 .. n : i \in 1 .. n - 1 + 1 /\ 1 + i - 1 = i
  BY <1>2
<1>6. Len(SubSeq(m, 1, n)) = n
  BY <1>2, <1>4
<1>7. \A i \in 1 .. n : SubSeq(m, 1, n)[i] = m[i]
  BY <1>4, <1>5
<1> QED BY <1>4, <1>6, <1>7

\* Agreement is what LogAgrees says of the three copies.
LEMMA AgreeMeans ==
  ASSUME NEW l \in Seq(Entry), NEW ids \in Seq(Nat), NEW m \in Seq(Msg)
  PROVE  Agree(l, ids, m) <=> /\ Len(ids) <= Len(m)
                              /\ RebuiltMessages(l) = SubSeq(m, 1, Len(ids))
                              /\ RebuiltIds(l) = ids
<1>1. RebuiltMessages(l) \in Seq(Msg)
  BY RebuiltFacts
<1>2. Len(ids) \in Nat /\ Len(m) \in Nat
  BY NatSeqFacts, MsgFacts
<1>3. ASSUME Len(ids) <= Len(m)
      PROVE  RebuiltMessages(l) = SubSeq(m, 1, Len(ids)) <=>
                /\ Len(RebuiltMessages(l)) = Len(ids)
                /\ \A i \in 1 .. Len(ids) : RebuiltMessages(l)[i] = m[i]
  <2> DEFINE r == RebuiltMessages(l)
             w == SubSeq(m, 1, Len(ids))
  <2>1. w \in Seq(Msg) /\ Len(w) = Len(ids) /\ \A i \in 1 .. Len(ids) : w[i] = m[i]
    BY <1>2, <1>3, PrefixFacts
  <2>2. r \in Seq(Msg)
    BY <1>1
  <2> HIDE DEF r, w
  <2>3. r = w <=> Len(r) = Len(ids) /\ \A i \in 1 .. Len(ids) : r[i] = m[i]
    BY <2>1, <2>2, SeqEqual
  <2> QED BY <2>3 DEF r, w
<1> QED BY <1>3 DEF Agree

\* It looks at the persisted part only.
LEMMA AgreeSame ==
  ASSUME NEW l, NEW ids, NEW m, Agree(l, ids, m), NEW w, Len(ids) <= Len(w),
         \A i \in 1 .. Len(ids) : w[i] = m[i]
  PROVE  Agree(l, ids, w)
BY DEF Agree

\* persist_messages keeps it: what it appends is rebuilt behind the rest.
LEMMA AgreePersist ==
  ASSUME NEW l \in Seq(Entry), Regular(l), NEW ids \in Seq(Nat), NEW m \in Seq(Msg),
         Agree(l, ids, m), NEW n \in Nat, Len(ids) + n <= Len(m)
  PROVE  LET g == l \o [i \in 1 .. n |-> MessageEntry(m[Len(ids) + i])]
             more == ids \o [i \in 1 .. n |-> Len(l) + i]
         IN  Regular(g) /\ Agree(g, more, m) /\ Len(more) = Len(ids) + n
<1> DEFINE ms == [i \in 1 .. n |-> m[Len(ids) + i]]
           e == [i \in 1 .. n |-> MessageEntry(ms[i])]
           g == l \o e
           new == [i \in 1 .. n |-> Len(l) + i]
           more == ids \o new
<1>1. Len(ids) \in Nat /\ Len(m) \in Nat /\ Len(l) \in Nat
  BY NatSeqFacts, MsgFacts, LogFacts
<1>2. \A i \in 1 .. n : Len(ids) + i \in 1 .. Len(m) /\ m[Len(ids) + i] \in Msg
  BY <1>1, MsgFacts
<1>3. ms \in [1 .. n -> Msg] /\ ms \in Seq(Msg) /\ Len(ms) = n
      /\ \A i \in 1 .. n : ms[i] = m[Len(ids) + i]
  BY <1>2
<1>4. e = [i \in 1 .. n |-> MessageEntry(m[Len(ids) + i])]
  BY <1>3
<1> HIDE DEF ms
<1>5. /\ Regular(g)
      /\ RebuiltMessages(g) = RebuiltMessages(l) \o ms
      /\ RebuiltIds(g) = RebuiltIds(l) \o new
  BY <1>3, MoreMessages
<1>6. RebuiltMessages(l) \in Seq(Msg)
  BY RebuiltFacts
<1>7. new \in Seq(Nat) /\ Len(new) = n
  BY <1>1
<1> HIDE DEF e, g, new
<1>8. more \in Seq(Nat) /\ Len(more) = Len(ids) + n
  <2>1. /\ more \in Seq(Nat) /\ Len(more) = Len(ids) + Len(new)
    BY ONLY <1>7, ids \in Seq(Nat), ConcatProperties
  <2> QED BY <1>7, <2>1
<1>9. RebuiltIds(g) = more
  BY <1>5 DEF Agree
<1>10. /\ Len(RebuiltMessages(g)) = Len(ids) + n
       /\ \A i \in 1 .. Len(ids) + n : RebuiltMessages(g)[i] = m[i]
  <2> DEFINE r == RebuiltMessages(l)
             q == r \o ms
  <2>1. r \in Seq(Msg) /\ Len(r) = Len(ids) /\ \A i \in 1 .. Len(ids) : r[i] = m[i]
    BY <1>6 DEF Agree
  <2>2. /\ Len(q) = Len(r) + Len(ms)
        /\ \A i \in 1 .. Len(r) + Len(ms) : q[i] = IF i <= Len(r) THEN r[i] ELSE ms[i - Len(r)]
    <3> HIDE DEF r
    <3> QED BY ONLY <1>3, <2>1, ConcatProperties DEF q
  <2> HIDE DEF r, q
  <2>3. \A i \in 1 .. Len(ids) + n : i \in 1 .. Len(ids) \/ (i - Len(ids) \in 1 .. n /\ i > Len(ids))
    BY <1>1
  <2>4. \A i \in 1 .. Len(ids) + n : q[i] = m[i]
    <3> TAKE i \in 1 .. Len(ids) + n
    <3>1. CASE i \in 1 .. Len(ids)
      BY <1>1, <1>3, <2>1, <2>2, <3>1
    <3>2. CASE i - Len(ids) \in 1 .. n /\ i > Len(ids)
      <4>1. q[i] = ms[i - Len(ids)]
        BY <1>1, <1>3, <2>1, <2>2, <3>2
      <4>2. ms[i - Len(ids)] = m[Len(ids) + (i - Len(ids))] /\ Len(ids) + (i - Len(ids)) = i
        BY <1>1, <1>3, <3>2
      <4> QED BY <4>1, <4>2
    <3> QED BY <2>3, <3>1, <3>2
  <2>5. RebuiltMessages(g) = q /\ Len(q) = Len(ids) + n
    BY <1>3, <1>5, <2>1, <2>2 DEF r, q
  <2> QED BY <2>4, <2>5
<1> HIDE DEF more
<1>11. Agree(g, more, m)
  BY <1>8, <1>9, <1>10 DEF Agree
<1> QED BY <1>4, <1>5, <1>8, <1>11 DEF g, more, new, e

\* apply_summary keeps it, with the replacement as the live context.
LEMMA AgreeCut ==
  ASSUME NEW l \in Seq(Entry), Regular(l), NEW ids \in Seq(Nat), NEW m \in Seq(Msg),
         Agree(l, ids, m), NEW s \in 1 .. Len(ids), NEW e \in s .. Len(ids),
         \A i \in s .. e : ids[i] # 0
  PROVE  LET g == Append(l, CompactionEntry(ids[s], ids[e]))
         IN  /\ Regular(g)
             /\ Agree(g, Cut(ids, s, e, 0), Cut(m, s, e, Message("summary", Len(l) + 1)))
<1> DEFINE k == Ascending(Kept(l))
           n == Cardinality(Kept(l))
           x == Message("summary", Len(l) + 1)
           g == Append(l, CompactionEntry(ids[s], ids[e]))
           r == RebuiltMessages(l)
<1>1. Len(ids) \in Nat /\ Len(m) \in Nat /\ Len(l) \in Nat
  BY NatSeqFacts, MsgFacts, LogFacts
<1>2. /\ n \in Nat /\ r \in Seq(Msg) /\ Len(r) = n
      /\ RebuiltIds(l) \in Seq(Nat) /\ Len(RebuiltIds(l)) = n
      /\ \A i \in 1 .. n : RebuiltIds(l)[i] = IF CoveredBy(l, k[i]) = {} THEN k[i] ELSE 0
  BY RebuiltFacts
<1>3. RebuiltIds(l) = ids /\ Len(ids) = n /\ Len(r) = Len(ids) /\ Len(ids) <= Len(m)
      /\ \A i \in 1 .. Len(ids) : r[i] = m[i]
  BY <1>2 DEF Agree
<1> HIDE DEF k, n, r
<1>4. \A i \in s .. e : i \in 1 .. n /\ CoveredBy(l, k[i]) = {} /\ ids[i] = k[i]
  <2> TAKE i \in s .. e
  <2>1. i \in 1 .. n
    BY <1>1, <1>3
  <2>2. ids[i] = IF CoveredBy(l, k[i]) = {} THEN k[i] ELSE 0
    BY <1>2, <1>3, <2>1
  <2> QED BY <2>1, <2>2
<1>5. s \in s .. e /\ e \in s .. e /\ s \in 1 .. n /\ e \in s .. n
  BY <1>1, <1>3
<1>6. ids[s] = k[s] /\ ids[e] = k[e]
  BY <1>4, <1>5
<1>7. /\ Regular(g)
      /\ RebuiltMessages(g) = Cut(r, s, e, x)
      /\ RebuiltIds(g) = Cut(RebuiltIds(l), s, e, 0)
  <2>1. \A i \in s .. e : CoveredBy(l, k[i]) = {}
    BY <1>4
  <2> QED BY <1>5, <1>6, <2>1, MoreCompaction DEF k, n, r
<1>8. x \in Msg
  BY <1>1 DEF Message, Msg, MessageRoles
<1> HIDE DEF x, g
<1>9. s \in 1 .. Len(r) /\ e \in s .. Len(r) /\ s \in 1 .. Len(m) /\ e \in s .. Len(m)
  BY <1>1, <1>3
<1>10. /\ Len(Cut(r, s, e, x)) = Len(r) - (e - s)
       /\ \A i \in 1 .. Len(r) - (e - s) :
             Cut(r, s, e, x)[i] = IF i < s THEN r[i] ELSE IF i = s THEN x ELSE r[i + (e - s)]
  <2>1. r \in Seq(Msg)
    BY <1>2
  <2>2. IsCut(Cut(r, s, e, x), r, s, e, x)
    BY ONLY <1>8, <1>9, <2>1, MsgCut, Zenon
  <2> QED BY ONLY <2>2 DEF IsCut
<1>11. /\ Len(Cut(m, s, e, x)) = Len(m) - (e - s)
       /\ \A i \in 1 .. Len(m) - (e - s) :
             Cut(m, s, e, x)[i] = IF i < s THEN m[i] ELSE IF i = s THEN x ELSE m[i + (e - s)]
  <2>1. m \in Seq(Msg) /\ s \in 1 .. Len(m) /\ e \in s .. Len(m)
    BY <1>9
  <2>2. IsCut(Cut(m, s, e, x), m, s, e, x)
    BY ONLY <1>8, <2>1, MsgCut, Zenon
  <2> QED BY ONLY <2>2 DEF IsCut
<1>12. /\ Len(RebuiltIds(g)) = Len(RebuiltMessages(g)) /\ RebuiltIds(g) = Cut(ids, s, e, 0)
  <2>1. g \in Seq(Entry)
    <3>1. CompactionEntry(ids[s], ids[e]) \in Entry
      BY NatSeqFacts, <1>1, <1>5 DEF CompactionEntry, Entry
    <3> QED BY <3>1, AppendProperties DEF g
  <2>2. Len(RebuiltIds(g)) = Len(RebuiltMessages(g))
    BY <2>1, RebuiltFacts
  <2> QED BY <1>3, <1>7, <2>2
<1>13. /\ Len(Cut(ids, s, e, 0)) = Len(ids) - (e - s)
  BY <1>3, <1>7, <1>10, <1>12
<1>14. \A i \in 1 .. Len(ids) - (e - s) : RebuiltMessages(g)[i] = Cut(m, s, e, x)[i]
  <2> TAKE i \in 1 .. Len(ids) - (e - s)
  <2>1. i \in 1 .. Len(r) - (e - s) /\ i \in 1 .. Len(m) - (e - s)
        /\ (i < s => i \in 1 .. Len(ids)) /\ (i > s => i + (e - s) \in 1 .. Len(ids))
        /\ (i < s \/ i = s \/ i > s)
    <3>1. s \in Nat /\ e \in Nat /\ i \in Nat /\ 1 <= s /\ s <= e /\ e <= Len(ids)
          /\ 1 <= i /\ i <= Len(ids) - (e - s)
      BY <1>1
    <3>2. Len(r) = Len(ids) /\ Len(ids) <= Len(m) /\ Len(ids) \in Nat /\ Len(m) \in Nat
      BY <1>1, <1>3
    <3>3. i \in 1 .. Len(ids) - (e - s) /\ i \in 1 .. Len(m) - (e - s)
      BY ONLY <3>1, <3>2
    <3>4. i < s => i \in 1 .. Len(ids)
      BY ONLY <3>1, <3>2
    <3>5. i + (e - s) \in 1 .. Len(ids)
      BY ONLY <3>1, <3>2
    <3>6. i < s \/ i = s \/ i > s
      BY ONLY <3>1
    <3> QED BY ONLY <3>2, <3>3, <3>4, <3>5, <3>6
  <2>2. /\ RebuiltMessages(g)[i] = IF i < s THEN r[i] ELSE IF i = s THEN x ELSE r[i + (e - s)]
        /\ Cut(m, s, e, x)[i] = IF i < s THEN m[i] ELSE IF i = s THEN x ELSE m[i + (e - s)]
    BY <1>7, <1>10, <1>11, <2>1
  <2> QED BY <1>3, <2>1, <2>2
<1>15. Agree(g, Cut(ids, s, e, 0), Cut(m, s, e, x))
  <2>1. Len(ids) - (e - s) <= Len(m) - (e - s)
    BY <1>1, <1>3, <1>5
  <2> QED BY <2>1, <1>7, <1>10, <1>3, <1>11, <1>12, <1>13, <1>14 DEF Agree
<1> QED BY <1>7, <1>15 DEF g, x

\* Messages at the end that are neither calls nor results may be dropped.
LEMMA SoundFront ==
  ASSUME NEW m \in Seq(Msg), Sound(m), Unanswered(m) = {}, NEW w \in Seq(Msg), Len(w) <= Len(m),
         \A i \in 1 .. Len(w) : w[i] = m[i],
         \A i \in Len(w) + 1 .. Len(m) : m[i].role \notin {"call", "tool"}
  PROVE  Sound(w) /\ Unanswered(w) = {}
<1>1. Sound(w)
  BY SoundPrefix
<1>2. Len(m) \in Nat /\ Len(w) \in Nat
  BY MsgFacts
<1>3. ASSUME NEW i \in Unanswered(w) PROVE FALSE
  <2>1. /\ i \in 1 .. Len(w) /\ w[i].role = "call"
        /\ \A j \in 1 .. Len(w) : ~(w[j].role = "tool" /\ w[j].key = w[i].key)
    BY UnansweredFacts
  <2>2. i \in 1 .. Len(m) /\ m[i] = w[i]
    BY <1>2, <2>1
  <2>3. PICK j \in 1 .. Len(m) : m[j].role = "tool" /\ m[j].key = m[i].key
    BY <2>1, <2>2, UnansweredFacts
  <2>4. j \in 1 .. Len(w)
    <3>1. j \in 1 .. Len(w) \/ j \in Len(w) + 1 .. Len(m)
      BY <1>2
    <3> QED BY <2>3, <3>1
  <2> QED BY <2>1, <2>2, <2>3, <2>4
<1> QED BY <1>1, <1>3

--------------------------------------------------------------------------------
(* What inject_user and the overflow recovery look up.                       *)

\* inject_user appends a message or replaces the last one.
LEMMA InjectedFacts ==
  ASSUME NEW m \in Seq(Msg), NEW text \in Nat
  PROVE  LET w == Injected(m, text)
         IN  /\ w \in Seq(Msg) /\ Len(m) <= Len(w)
             /\ text = 0 => w = m
             /\ text # 0 => /\ Len(w) >= 1 /\ w[Len(w)].role = "user"
                            /\ \A i \in 1 .. Len(w) - 1 : w[i] = m[i] /\ i \in 1 .. Len(m)
                            /\ \/ Len(w) = Len(m) + 1 /\ (m = <<>> \/ ~IsUser(Last(m)))
                               \/ Len(w) = Len(m) /\ m # <<>> /\ IsUser(Last(m))
<1> DEFINE w == Injected(m, text)
           x == Message("user", text)
<1>1. Len(m) \in Nat /\ DOMAIN m = 1 .. Len(m) /\ \A i \in 1 .. Len(m) : m[i] \in Msg
  BY MsgFacts
<1>2. x \in Msg /\ x.role = "user"
  BY DEF Message, Msg, MessageRoles
<1> DEFINE Goal(v) ==
             /\ v \in Seq(Msg) /\ Len(m) <= Len(v)
             /\ text = 0 => v = m
             /\ text # 0 => /\ Len(v) >= 1 /\ v[Len(v)].role = "user"
                            /\ \A i \in 1 .. Len(v) - 1 : v[i] = m[i] /\ i \in 1 .. Len(m)
                            /\ \/ Len(v) = Len(m) + 1 /\ (m = <<>> \/ ~IsUser(Last(m)))
                               \/ Len(v) = Len(m) /\ m # <<>> /\ IsUser(Last(m))
<1>4. ASSUME text # 0, m # <<>>, IsUser(Last(m)) PROVE Goal(w)
  <2>1. w = [m EXCEPT ![Len(m)] = x] /\ Len(m) \in 1 .. Len(m)
    <3>1. Len(m) # 0
      BY <1>1, <1>4, EmptySeq
    <3> QED BY <1>1, <1>4, <3>1 DEF Injected
  <2> HIDE DEF x, w
  <2>2. w \in Seq(Msg) /\ Len(w) = Len(m)
    BY <1>1, <1>2, <2>1, ExceptSeq
  <2>3. \A i \in 1 .. Len(m) : w[i] = IF i = Len(m) THEN x ELSE m[i]
    BY <1>1, <2>1, Zenon
  <2>4. \A i \in 1 .. Len(m) - 1 : i \in 1 .. Len(m) /\ i # Len(m)
    <3>1. Len(m) \in Nat
      BY <1>1
    <3> QED BY ONLY <3>1
  <2>5. w[Len(w)].role = "user"
    BY <1>2, <2>1, <2>2, <2>3
  <2>6. \A i \in 1 .. Len(w) - 1 : w[i] = m[i] /\ i \in 1 .. Len(m)
    BY <2>2, <2>3, <2>4
  <2>7. Len(w) >= 1 /\ Len(m) <= Len(w)
    BY <1>1, <2>1, <2>2
  <2> QED BY <1>4, <2>2, <2>5, <2>6, <2>7
<1>5. ASSUME text # 0, ~(m # <<>> /\ IsUser(Last(m))) PROVE Goal(w)
  <2>1. w = Append(m, x)
    BY <1>5 DEF Injected
  <2> HIDE DEF x, w
  <2>2. /\ w \in Seq(Msg) /\ Len(w) = Len(m) + 1 /\ w[Len(m) + 1] = x
        /\ \A i \in 1 .. Len(m) : w[i] = m[i]
    BY <1>1, <1>2, <2>1, AppendProperties
  <2>3. \A i \in 1 .. Len(w) - 1 : i \in 1 .. Len(m)
    BY <1>1, <2>2
  <2>4. Len(w) >= 1 /\ Len(m) <= Len(w)
    BY <1>1, <2>2
  <2>5. w[Len(w)].role = "user" /\ \A i \in 1 .. Len(w) - 1 : w[i] = m[i]
    BY <1>2, <2>2, <2>3
  <2> QED BY <1>5, <2>2, <2>3, <2>4, <2>5
<1>6. ASSUME text = 0 PROVE Goal(w)
  <2>1. w = m
    BY <1>6 DEF Injected
  <2> HIDE DEF w
  <2> QED BY <1>1, <1>6, <2>1
<1>7. Goal(w)
  BY <1>4, <1>5, <1>6
<1> HIDE DEF w
<1> QED BY <1>7 DEF w

\* It leaves the rounds alone.
LEMMA InjectedSound ==
  ASSUME NEW m \in Seq(Msg), NEW text \in Nat, Sound(m), Unanswered(m) = {}, NEW c \in Nat, UpTo(m, c)
  PROVE  /\ Sound(Injected(m, text)) /\ Unanswered(Injected(m, text)) = {}
         /\ UpTo(Injected(m, text), c)
<1> DEFINE w == Injected(m, text)
<1>1. CASE text = 0
  BY <1>1, InjectedFacts
<1>2. CASE text # 0
  <2>1. /\ w \in Seq(Msg) /\ Len(w) >= 1 /\ w[Len(w)].role = "user"
        /\ \A i \in 1 .. Len(w) - 1 : w[i] = m[i] /\ i \in 1 .. Len(m)
        /\ \/ Len(w) = Len(m) + 1
           \/ Len(w) = Len(m) /\ m # <<>> /\ IsUser(Last(m))
    BY <1>2, InjectedFacts
  <2> HIDE DEF w
  <2>2. Len(w) \in Nat /\ Len(m) \in Nat
    BY <2>1, MsgFacts
  <2> DEFINE f == SubSeq(m, 1, Len(w) - 1)
  <2>3. Len(w) - 1 \in 0 .. Len(m)
    BY <2>1, <2>2
  <2>4. f \in Seq(Msg) /\ Len(f) = Len(w) - 1 /\ \A i \in 1 .. Len(w) - 1 : f[i] = m[i]
    BY <2>3, PrefixFacts
  <2> HIDE DEF f
  <2>5. \A i \in Len(f) + 1 .. Len(m) : m[i].role \notin {"call", "tool"}
    <3> TAKE i \in Len(f) + 1 .. Len(m)
    <3>1. i = Len(m) /\ Len(w) = Len(m)
      BY <2>1, <2>2, <2>4
    <3>2. IsUser(m[Len(m)])
      BY <2>1, <2>2, <3>1 DEF Last
    <3> QED BY <3>1, <3>2 DEF IsUser
  <2>6. Sound(f) /\ Unanswered(f) = {}
    <3>1. Len(f) <= Len(m) /\ \A i \in 1 .. Len(f) : f[i] = m[i]
      BY <2>2, <2>3, <2>4
    <3> QED BY <2>4, <2>5, <3>1, SoundFront
  <2>7. Sound(w) /\ Unanswered(w) = {}
    <3>1. Len(f) <= Len(w) /\ \A i \in 1 .. Len(f) : w[i] = f[i]
      BY <2>1, <2>2, <2>4
    <3>2. \A i \in Len(f) + 1 .. Len(w) : w[i].role \notin {"call", "tool"}
      <4> TAKE i \in Len(f) + 1 .. Len(w)
      <4>1. i = Len(w)
        BY <2>2, <2>4
      <4> QED BY <2>1, <4>1
    <3> QED BY <2>1, <2>4, <2>6, <3>1, <3>2, SoundPlain
  <2>8. UpTo(w, c)
    <3>1. \A i \in 1 .. Len(w) : i \in 1 .. Len(w) - 1 \/ i = Len(w)
      BY <2>2
    <3> QED BY <2>1, <3>1 DEF UpTo
  <2> QED BY <2>7, <2>8 DEF w
<1> QED BY <1>1, <1>2

\* The last user message is found when it is the last message.
LEMMA LastUserFacts ==
  ASSUME NEW m \in Seq(Msg)
  PROVE  /\ LastUser(m) \in 0 .. Len(m)
         /\ (Len(m) >= 1 /\ m[Len(m)].role = "user") => LastUser(m) = Len(m)
<1> DEFINE users == {i \in DOMAIN m : IsUser(m[i])}
           k == Ascending(users)
           n == Cardinality(users)
<1>1. Len(m) \in Nat /\ DOMAIN m = 1 .. Len(m)
  BY MsgFacts
<1>2. users \in SUBSET Nat /\ users \subseteq 1 .. Len(m)
  BY <1>1
<1>3. IsFiniteSet(users)
  <2>1. IsFiniteSet(1 .. Len(m))
    BY <1>1, FS_Interval
  <2> QED BY <1>2, <2>1, FS_Subset
<1>4. LastUser(m) = IF users = {} THEN 0 ELSE Max(users)
  BY DEF LastUser
<1>5. (Len(m) >= 1 /\ m[Len(m)].role = "user") => Len(m) \in users
  BY <1>1 DEF IsUser
<1> HIDE DEF users
<1>6. CASE users = {}
  BY <1>1, <1>4, <1>5, <1>6
<1>7. CASE users # {}
  <2>1. /\ n \in Nat /\ k \in [1 .. n -> users] /\ Increasing(k)
        /\ \A p \in users : \E i \in 1 .. n : k[i] = p
    BY <1>2, <1>3, AscendingFacts
  <2> HIDE DEF k, n
  <2>2. n \in 1 .. n /\ k[n] \in users /\ DOMAIN k = 1 .. n
    BY <1>7, <2>1
  <2>3. \A p \in users : p <= k[n]
    <3> TAKE p \in users
    <3>1. PICK i \in 1 .. n : k[i] = p
      BY <2>1
    <3>2. i = n \/ i < n
      BY <2>1
    <3>3. i < n => k[i] < k[n]
      BY <2>1, <2>2 DEF Increasing
    <3>4. p \in Nat /\ k[n] \in Nat
      BY <1>2, <2>2
    <3> QED BY <3>1, <3>2, <3>3, <3>4
  <2>4. \E x \in users : \A y \in users : x >= y
    BY <1>2, <2>2, <2>3
  <2>5. Max(users) \in users /\ \A y \in users : Max(users) >= y
    BY <2>4 DEF Max
  <2>6. LastUser(m) = Max(users)
    BY <1>4, <1>7
  <2>7. Max(users) \in 1 .. Len(m)
    BY <1>2, <2>5
  <2>8. Len(m) \in users => Max(users) = Len(m)
    BY <1>1, <2>5, <2>7
  <2> QED BY <1>1, <1>5, <2>6, <2>7, <2>8
<1> QED BY <1>6, <1>7

--------------------------------------------------------------------------------
(* The inductive invariant.                                                 *)

Pcs == {"idle", "top", "stream", "tools", "boundary", "wait", "resolved", "relieve", "down"}

Turn == [unanswered : Nat, pending : Seq(Nat), injecting : Nat, roundtrip : Nat, attempted : BOOLEAN]

Governor == [current : Seq(Msg), changed : BOOLEAN, second : BOOLEAN, excerpts : 0 .. 2,
             overflow : BOOLEAN]

\* The types, and the cursors within what they index.
Types ==
  /\ messages \in Seq(Msg) /\ log \in Seq(Entry) /\ entryIds \in Seq(Nat)
  /\ \A i \in 1 .. Len(entryIds) : entryIds[i] <= Len(log)
  /\ pc \in Pcs /\ turn \in Turn /\ governor \in Governor
  /\ inputs \in Nat /\ calls \in Nat
  /\ steering \in 0 .. inputs /\ followUp \in 0 .. inputs /\ turn.injecting \in 0 .. inputs

\* The governor has a copy of the context that differs from messages.
Governing == pc \in {"wait", "resolved", "relieve"}

\* What is known of the locals of the turn at each of its stages: past an answer
\* nothing is unanswered, and the copy of the governor is the context of the turn
\* until a summary has been applied to it.
Stages ==
  /\ turn.unanswered <= Len(messages)
  /\ pc # "tools" => turn.pending = <<>>
  /\ pc \in {"idle", "down"} => turn = NoTurn /\ governor = NoGovernor /\ ~cancelled
  /\ pc \in {"tools", "boundary", "wait", "resolved"} => turn.unanswered = 0
  /\ (pc = "relieve" /\ ~governor.overflow) => turn.unanswered = 0
  /\ pc \in {"wait", "resolved"} => ~governor.overflow
  /\ (Governing /\ ~governor.changed) => governor.current = messages

\* The unanswered input is not persisted, and nothing else follows it.
Input ==
  turn.unanswered # 0 =>
    /\ turn.unanswered > Len(entryIds)
    /\ \A i \in turn.unanswered .. Len(messages) : messages[i].role \in {"user", "developer"}
    /\ Len(LiveContext) > Len(entryIds) /\ LiveContext[Len(LiveContext)].role = "user"

\* What the process holds, or what a resume would start from.
Context == IF pc = "down" THEN RebuiltMessages(log) ELSE LiveContext

\* Rounds are whole, and while tools run the calls without a result are the
\* pending ones, each once.
Rounds ==
  /\ Sound(Context) /\ UpTo(Context, calls)
  /\ pc \notin {"tools", "down"} => Unanswered(Context) = {}
  /\ pc = "tools" =>
       /\ {messages[i].key : i \in Unanswered(messages)}
            = {turn.pending[i] : i \in 1 .. Len(turn.pending)}
       /\ \A i, j \in 1 .. Len(turn.pending) : turn.pending[i] = turn.pending[j] => i = j

\* What holds until the live context parts from the log.
Faithful ==
  /\ Regular(log)
  /\ pc # "down" => Agree(log, entryIds, LiveContext)
  /\ Input /\ Rounds

\* After that only types and stages are left.
IInv == Types /\ Stages /\ (~diverged => Faithful)

LEMMA EmptyFacts ==
  /\ <<>> \in Seq(Msg) /\ <<>> \in Seq(Entry) /\ <<>> \in Seq(Nat) /\ Len(<<>>) = 0
  /\ NoTurn \in Turn /\ NoGovernor \in Governor /\ NoTurn.injecting = 0 /\ NoTurn.unanswered = 0
  /\ NoTurn.pending = <<>> /\ NoGovernor.changed = FALSE /\ NoGovernor.overflow = FALSE
  /\ Sound(<<>>) /\ Unanswered(<<>>) = {} /\ \A c : UpTo(<<>>, c)
<1>1. <<>> \in Seq(Msg) /\ <<>> \in Seq(Entry) /\ <<>> \in Seq(Nat) /\ Len(<<>>) = 0
  OBVIOUS
<1>2. /\ NoTurn \in Turn /\ NoTurn.injecting = 0 /\ NoTurn.unanswered = 0 /\ NoTurn.pending = <<>>
  BY <1>1 DEF NoTurn, Turn
<1>3. NoGovernor \in Governor /\ NoGovernor.changed = FALSE /\ NoGovernor.overflow = FALSE
  BY <1>1 DEF NoGovernor, Governor
<1>4. Unanswered(<<>>) = {}
  BY DEF Unanswered
<1>5. Sound(<<>>) /\ \A c : UpTo(<<>>, c)
  BY <1>1, <1>4 DEF Sound, UpTo
<1> QED BY <1>1, <1>2, <1>3, <1>4, <1>5

LEMMA EmptyLog ==
  /\ Regular(<<>>) /\ RebuiltMessages(<<>>) = <<>> /\ RebuiltIds(<<>>) = <<>>
<1>1. Compactions(<<>>) = {}
  BY DEF Compactions
<1>2. Regular(<<>>)
  BY <1>1 DEF Regular
<1>3. Kept(<<>>) = {}
  BY DEF Kept
<1>4. Cardinality(Kept(<<>>)) = 0
  BY <1>3, FS_EmptySet
<1>5. <<>> \in Seq(Entry)
  BY EmptyFacts
<1>6. /\ RebuiltMessages(<<>>) \in Seq(Msg) /\ Len(RebuiltMessages(<<>>)) = 0
      /\ RebuiltIds(<<>>) \in Seq(Nat) /\ Len(RebuiltIds(<<>>)) = 0
  BY <1>4, <1>5, RebuiltFacts
<1> QED BY <1>2, <1>6, EmptySeq

LEMMA InitIInv == Init => IInv
<1> SUFFICES ASSUME Init PROVE IInv
  OBVIOUS
<1>1. Types
  BY EmptyFacts DEF Init, Types, Pcs
<1>2. Stages
  BY EmptyFacts DEF Init, Stages, Governing
<1>3. Faithful
  <2>1. pc = "idle" /\ messages = <<>> /\ entryIds = <<>> /\ log = <<>> /\ turn = NoTurn
    BY DEF Init
  <2>2. LiveContext = <<>> /\ Context = <<>>
    BY <2>1 DEF LiveContext, Context
  <2>3. Agree(<<>>, <<>>, <<>>)
    BY EmptyLog, EmptyFacts DEF Agree
  <2>4. Input
    BY <2>1, EmptyFacts DEF Input
  <2>5. Rounds
    BY <2>1, <2>2, EmptyFacts DEF Rounds
  <2> QED BY <2>1, <2>2, <2>3, <2>4, <2>5, EmptyLog DEF Faithful
<1> QED BY <1>1, <1>2, <1>3 DEF IInv

LEMMA StutterIInv == IInv /\ UNCHANGED vars => IInv'
<1> SUFFICES ASSUME IInv, UNCHANGED vars PROVE IInv'
  OBVIOUS
<1> USE DEF vars
<1>1. Types'
  BY DEF IInv, Types
<1>2. Stages'
  BY DEF IInv, Stages, Governing
<1>3. LiveContext' = LiveContext /\ Context' = Context
  BY DEF LiveContext, Context
<1>4. ~diverged' => Faithful'
  BY <1>3, ZenonT(40) DEF IInv, Faithful, Input, Rounds
<1> QED BY <1>1, <1>2, <1>4 DEF IInv

\* What the invariant says.
LEMMA IInvTypeOK == IInv => TypeOK
<1> SUFFICES ASSUME Types, Stages PROVE TypeOK
  BY DEF IInv
<1>1. \A i \in DOMAIN messages : messages[i].role \in MessageRoles
  BY MsgFacts DEF Types
<1>2. \A i \in DOMAIN entryIds : entryIds[i] \in 0 .. Len(log)
  <2>1. entryIds \in Seq(Nat) /\ Len(log) \in Nat
    BY LogFacts DEF Types
  <2>2. DOMAIN entryIds = 1 .. Len(entryIds) /\ \A i \in 1 .. Len(entryIds) : entryIds[i] \in Nat
    BY <2>1, NatSeqFacts
  <2> QED BY <2>1, <2>2 DEF Types
<1>3. turn.unanswered \in 0 .. Len(messages)
  <2>1. Len(messages) \in Nat /\ turn.unanswered \in Nat
    BY MsgFacts DEF Types, Turn
  <2> QED BY <2>1 DEF Stages
<1>4. governor.excerpts \in 0 .. 2
  BY DEF Types, Governor
<1>5. pc \notin {"tools"} => turn.pending = <<>>
  BY DEF Stages
<1>6. {steering, followUp, turn.injecting} \subseteq 0 .. inputs
  BY DEF Types
<1>7. pc \in {"idle", "down"} => turn = NoTurn /\ governor = NoGovernor /\ ~cancelled
  BY DEF Stages
<1>8. pc \in {"idle", "top", "stream", "tools", "boundary", "wait", "resolved", "relieve", "down"}
  BY DEF Types, Pcs
<1> QED BY <1>1, <1>2, <1>3, <1>4, <1>5, <1>6, <1>7, <1>8 DEF TypeOK

LEMMA IInvLogAgrees == IInv => LogAgrees
<1> SUFFICES ASSUME IInv, pc # "down", ~diverged
             PROVE  /\ Len(entryIds) <= Len(LiveContext)
                    /\ RebuiltMessages(log) = SubSeq(LiveContext, 1, Len(entryIds))
                    /\ RebuiltIds(log) = entryIds
  BY DEF LogAgrees
<1>1. LiveContext \in Seq(Msg) /\ log \in Seq(Entry) /\ entryIds \in Seq(Nat)
  BY DEF IInv, Types, LiveContext, Governor
<1>2. Agree(log, entryIds, LiveContext)
  BY DEF IInv, Faithful
<1> QED BY <1>1, <1>2, AgreeMeans

LEMMA IInvReadable == IInv => (~diverged => Readable(log))
BY ReadableIsRegular DEF IInv, Types, Faithful

LEMMA IInvRequestsPaired == IInv => RequestsPaired
<1> SUFFICES ASSUME IInv, pc = "stream", ~diverged PROVE Paired(messages)
  BY DEF RequestsPaired
<1>1. Context = messages /\ messages \in Seq(Msg)
  BY DEF IInv, Types, Context, LiveContext
<1>2. Sound(messages) /\ Unanswered(messages) = {}
  BY <1>1 DEF IInv, Faithful, Rounds
<1> QED BY <1>1, <1>2, SoundPaired

--------------------------------------------------------------------------------
(* What the helpers of the actions keep.                                     *)

\* A context without open calls, and the log that holds its beginning.
Settled(l, ids, m, c) ==
  /\ Regular(l) /\ Agree(l, ids, m)
  /\ Sound(m) /\ Unanswered(m) = {} /\ UpTo(m, c)

\* The unanswered input from u on is not persisted and ends with the user.
InputRun(ids, m, u) ==
  u # 0 => /\ u > Len(ids)
           /\ \A i \in u .. Len(m) : m[i].role \in {"user", "developer"}
           /\ Len(m) > Len(ids) /\ m[Len(m)].role = "user"

\* The id map points into the log.
BoundedIds == /\ log \in Seq(Entry) /\ entryIds \in Seq(Nat)
              /\ \A i \in 1 .. Len(entryIds) : entryIds[i] <= Len(log)

LEMMA IdsWithin ==
  ASSUME NEW n \in Nat, NEW q \in Seq(0 .. n)
  PROVE  q \in Seq(Nat) /\ \A i \in 1 .. Len(q) : q[i] <= n
<1>1. Len(q) \in Nat /\ \A i \in 1 .. Len(q) : q[i] \in 0 .. n
  BY LenProperties, ElementOfSeq
<1>2. q = [i \in 1 .. Len(q) |-> q[i]]
  BY LenProperties
<1>3. \A i \in 1 .. Len(q) : q[i] \in Nat /\ q[i] <= n
  BY <1>1
<1>4. q \in Seq(Nat)
  BY ONLY <1>1, <1>2, <1>3, IsASeq
<1> QED BY <1>3, <1>4

\* persist_messages, cut short by a failing append or not.
LEMMA PersistKeeps ==
  ASSUME BoundedIds, NEW msgs \in Seq(Msg), PersistMessages(msgs)
  PROVE  /\ BoundedIds'
         /\ (Regular(log) /\ Agree(log, entryIds, msgs)) =>
               Regular(log') /\ Agree(log', entryIds', msgs)
<1> DEFINE L == Len(log)
           K == Len(entryIds)
<1>1. L \in Nat /\ K \in Nat /\ Len(msgs) \in Nat
  BY LogFacts, NatSeqFacts, MsgFacts DEF BoundedIds
<1>2. PICK n \in 0 .. Max({0, Len(msgs) - Len(entryIds)}) :
        /\ log' = log \o [i \in 1 .. n |-> MessageEntry(msgs[Len(entryIds) + i])]
        /\ entryIds' = entryIds \o [i \in 1 .. n |-> Len(log) + i]
  BY DEF PersistMessages
<1>3. n \in Nat /\ (n = 0 \/ K + n <= Len(msgs))
  <2>1. Max({0, Len(msgs) - K}) = IF 0 <= Len(msgs) - K THEN Len(msgs) - K ELSE 0
    BY <1>1, MaxOfTwo
  <2> QED BY <1>1, <1>2, <2>1
<1> DEFINE es == [i \in 1 .. n |-> MessageEntry(msgs[Len(entryIds) + i])]
           is == [i \in 1 .. n |-> Len(log) + i]
<1>4. es \in Seq(Entry) /\ Len(es) = n
  <2>1. \A i \in 1 .. n : K + i \in 1 .. Len(msgs)
    BY <1>1, <1>3
  <2>2. \A i \in 1 .. n : MessageEntry(msgs[K + i]) \in Entry
    BY <2>1, MsgFacts DEF MessageEntry, Entry
  <2> QED BY <1>3, <2>2
<1>5. log' \in Seq(Entry) /\ Len(log') = L + n
  <2> HIDE DEF es
  <2>1. log \in Seq(Entry)
    BY DEF BoundedIds
  <2>2. log \o es \in Seq(Entry) /\ Len(log \o es) = Len(log) + Len(es)
    BY ONLY <1>4, <2>1, ConcatProperties
  <2> QED BY <1>2, <1>4, <2>2 DEF es
<1>6. BoundedIds'
  <2> DEFINE T == 0 .. L + n
  <2>1. entryIds \in Seq(T)
    <3>1. \A i \in 1 .. K : entryIds[i] \in T
      BY <1>1, <1>3, NatSeqFacts DEF BoundedIds
    <3>2. entryIds = [i \in 1 .. K |-> entryIds[i]]
      BY LenProperties DEF BoundedIds
    <3> HIDE DEF T, K
    <3> QED BY ONLY <1>1, <3>1, <3>2, IsASeq
  <2>2. is \in Seq(T)
    <3>1. \A i \in 1 .. n : Len(log) + i \in T
      BY <1>1, <1>3
    <3> HIDE DEF T
    <3> QED BY ONLY <1>3, <3>1, IsASeq
  <2> HIDE DEF T, is
  <2>3. entryIds \o is \in Seq(T)
    BY ONLY <2>1, <2>2, ConcatProperties
  <2>4. entryIds' \in Seq(0 .. L + n) /\ L + n \in Nat
    BY <1>1, <1>2, <1>3, <2>3 DEF T, is
  <2>5. entryIds' \in Seq(Nat) /\ \A i \in 1 .. Len(entryIds') : entryIds'[i] <= L + n
    BY <2>4, IdsWithin
  <2> QED BY <1>5, <2>5 DEF BoundedIds
<1>7. ASSUME Regular(log), Agree(log, entryIds, msgs)
      PROVE  Regular(log') /\ Agree(log', entryIds', msgs)
  <2>1. Len(entryIds) + n <= Len(msgs)
    BY <1>1, <1>3, <1>7 DEF Agree
  <2> QED BY <1>2, <1>3, <1>7, <2>1, AgreePersist DEF BoundedIds
<1> QED BY <1>6, <1>7

\* What inject_user leaves.
LEMMA InjectKeeps ==
  ASSUME NEW msgs \in Seq(Msg), NEW text \in Nat, NEW start \in Nat, start <= Len(msgs),
         entryIds \in Seq(Nat)
  PROVE  LET w == Injected(msgs, text)
             u == UnansweredAfter(msgs, text, start)
         IN  /\ w \in Seq(Msg) /\ u \in Nat /\ u <= Len(w)
             /\ (~ExtendsPersisted(msgs, text) /\ Settled(log, entryIds, msgs, calls)
                   /\ calls \in Nat /\ InputRun(entryIds, msgs, start)) =>
                  Settled(log, entryIds, w, calls) /\ InputRun(entryIds, w, u)
<1> DEFINE w == Injected(msgs, text)
           u == UnansweredAfter(msgs, text, start)
<1>1. /\ w \in Seq(Msg) /\ Len(msgs) <= Len(w)
      /\ text = 0 => w = msgs
      /\ text # 0 => /\ Len(w) >= 1 /\ w[Len(w)].role = "user"
                     /\ \A i \in 1 .. Len(w) - 1 : w[i] = msgs[i] /\ i \in 1 .. Len(msgs)
                     /\ \/ Len(w) = Len(msgs) + 1 /\ (msgs = <<>> \/ ~IsUser(Last(msgs)))
                        \/ Len(w) = Len(msgs) /\ msgs # <<>> /\ IsUser(Last(msgs))
  BY InjectedFacts
<1>2. u = IF text = 0 \/ start # 0 THEN start ELSE Len(w)
  BY DEF UnansweredAfter
<1> HIDE DEF w, u
<1>3. Len(w) \in Nat /\ Len(msgs) \in Nat /\ Len(entryIds) \in Nat
  BY <1>1, MsgFacts, NatSeqFacts
<1>4. u \in Nat /\ u <= Len(w)
  BY <1>1, <1>2, <1>3
<1>5. ASSUME ~ExtendsPersisted(msgs, text), Settled(log, entryIds, msgs, calls), calls \in Nat,
             InputRun(entryIds, msgs, start)
      PROVE  Settled(log, entryIds, w, calls) /\ InputRun(entryIds, w, u)
  <2>1. Regular(log) /\ Agree(log, entryIds, msgs) /\ Sound(msgs) /\ Unanswered(msgs) = {} /\ UpTo(msgs, calls)
    BY <1>5 DEF Settled
  <2>2. Sound(w) /\ Unanswered(w) = {} /\ UpTo(w, calls)
    BY <1>5, <2>1, InjectedSound DEF w
  <2>3. CASE text = 0
    <3>1. w = msgs /\ u = start
      BY <1>1, <1>2, <2>3
    <3> QED BY <1>5, <3>1
  <2>4. CASE text # 0
    <3>1. Len(w) > Len(entryIds)
      <4>1. Len(entryIds) <= Len(msgs)
        BY <2>1 DEF Agree
      <4>2. Len(w) = Len(msgs) => Len(msgs) > Len(entryIds)
        <5>1. ASSUME Len(w) = Len(msgs), Len(msgs) <= Len(entryIds) PROVE FALSE
          <6>1. msgs # <<>> /\ IsUser(Last(msgs))
            BY <1>1, <1>3, <2>4, <5>1
          <6> QED BY <1>5, <2>4, <5>1, <6>1 DEF ExtendsPersisted
        <5> QED BY <1>3, <5>1
      <4>3. Len(w) = Len(msgs) + 1 \/ Len(w) = Len(msgs)
        BY <1>1, <2>4
      <4> QED BY <1>3, <4>1, <4>2, <4>3
    <3>2. \A i \in 1 .. Len(entryIds) : w[i] = msgs[i]
      <4>1. \A i \in 1 .. Len(entryIds) : i \in 1 .. Len(w) - 1
        BY <1>3, <3>1
      <4> QED BY <1>1, <2>4, <4>1
    <3>3. Agree(log, entryIds, w)
      BY <1>3, <2>1, <3>1, <3>2, AgreeSame
    <3>4. InputRun(entryIds, w, u)
      <4>1. CASE start = 0
        <5>1. u = Len(w)
          BY <1>2, <2>4, <4>1
        <5>2. \A i \in u .. Len(w) : w[i].role \in {"user", "developer"}
          <6> TAKE i \in u .. Len(w)
          <6>1. i = Len(w)
            BY <1>3, <5>1
          <6> QED BY <1>1, <2>4, <6>1
        <5> QED BY <1>1, <2>4, <3>1, <5>1, <5>2 DEF InputRun
      <4>2. CASE start # 0
        <5>1. u = start /\ start > Len(entryIds)
              /\ \A i \in start .. Len(msgs) : msgs[i].role \in {"user", "developer"}
          BY <1>2, <1>5, <4>2 DEF InputRun
        <5>2. \A i \in u .. Len(w) : w[i].role \in {"user", "developer"}
          <6> TAKE i \in u .. Len(w)
          <6>1. i = Len(w) \/ (i \in 1 .. Len(w) - 1 /\ i \in start .. Len(w) - 1)
            BY <1>3, <5>1, <4>2
          <6>2. CASE i = Len(w)
            BY <1>1, <2>4, <6>2
          <6>3. CASE i \in 1 .. Len(w) - 1 /\ i \in start .. Len(w) - 1
            <7>1. w[i] = msgs[i] /\ i \in 1 .. Len(msgs)
              BY <1>1, <2>4, <6>3
            <7>2. i \in start .. Len(msgs)
              BY <1>3, <6>3, <7>1
            <7> QED BY <5>1, <7>1, <7>2
          <6> QED BY <6>1, <6>2, <6>3
        <5> QED BY <1>1, <2>4, <3>1, <5>1, <5>2 DEF InputRun
      <4> QED BY <4>1, <4>2
    <3> QED BY <2>1, <2>2, <3>3, <3>4 DEF Settled
  <2> QED BY <2>3, <2>4
<1> QED BY <1>1, <1>4, <1>5 DEF w, u

\* A summary in the place of a range.
LEMMA ApplySummaryKeeps ==
  ASSUME BoundedIds, NEW msgs \in Seq(Msg),
         NEW p \in (1 .. Persisted(msgs)) \X (1 .. Persisted(msgs)),
         p[1] <= p[2], \A i \in p[1] .. p[2] : entryIds[i] # 0, ValidRange(msgs, p[1], p[2]),
         ApplySummary(msgs, p), calls \in Nat
  PROVE  LET r == Replacement(msgs, p)
         IN  /\ BoundedIds' /\ r \in Seq(Msg)
             /\ Settled(log, entryIds, msgs, calls) =>
                  Settled(log', entryIds', r, calls) /\ Len(entryIds') <= Len(entryIds)
             /\ (Settled(log, entryIds, msgs, calls) /\ Len(msgs) > Len(entryIds)
                   /\ msgs[Len(msgs)].role = "user") =>
                  Len(r) > Len(entryIds') /\ Len(r) >= 1 /\ r[Len(r)].role = "user"
<1> DEFINE s == p[1]
           e == p[2]
           L == Len(log)
           K == Len(entryIds)
           x == Message("summary", Len(log) + 1)
           r == Replacement(msgs, p)
           P == Persisted(msgs)
<1>1. L \in Nat /\ K \in Nat /\ Len(msgs) \in Nat
  BY LogFacts, NatSeqFacts, MsgFacts DEF BoundedIds
<1>2. P = IF K <= Len(msgs) THEN K ELSE Len(msgs)
  <2>1. P = Min({K, Len(msgs)})
    BY DEF Persisted
  <2>2. K \in Int /\ Len(msgs) \in Int
    BY <1>1
  <2> HIDE DEF P, K
  <2> QED BY ONLY <2>1, <2>2, MinOfTwo
<1>3. P \in Nat /\ P <= K /\ P <= Len(msgs)
  BY <1>1, <1>2
<1>4. s \in Nat /\ e \in Nat /\ 1 <= s /\ s <= e /\ e <= P
  BY <1>3
<1>5. s \in 1 .. K /\ e \in s .. K /\ s \in 1 .. Len(msgs) /\ e \in s .. Len(msgs)
  BY <1>1, <1>3, <1>4
<1>6. x \in Msg /\ x.role = "summary"
  BY <1>1 DEF Message, Msg, MessageRoles
<1>7. r = Cut(msgs, s, e, x)
  BY DEF Replacement, Cut
<1>8. /\ log' = Append(log, CompactionEntry(entryIds[s], entryIds[e]))
      /\ entryIds' = SubSeq(entryIds, 1, s - 1) \o <<0>> \o SubSeq(entryIds, e + 1, P)
  BY DEF ApplySummary
<1>9. ValidRange(msgs, s, e) /\ \A i \in s .. e : entryIds[i] # 0
  OBVIOUS
<1> HIDE DEF s, e, x, r, P
<1>10. /\ r \in Seq(Msg) /\ Len(r) = Len(msgs) - (e - s)
       /\ \A i \in 1 .. Len(msgs) - (e - s) :
            r[i] = IF i < s THEN msgs[i] ELSE IF i = s THEN x ELSE msgs[i + (e - s)]
  <2>1. msgs \in Seq(Msg) /\ x \in Msg /\ s \in 1 .. Len(msgs) /\ e \in s .. Len(msgs)
    BY <1>5, <1>6
  <2> DEFINE c == Cut(msgs, s, e, x)
  <2>2. /\ c \in Seq(Msg) /\ Len(c) = Len(msgs) - (e - s)
        /\ \A i \in 1 .. Len(msgs) - (e - s) :
             c[i] = IF i < s THEN msgs[i] ELSE IF i = s THEN x ELSE msgs[i + (e - s)]
    <3>1. IsCut(c, msgs, s, e, x)
      BY ONLY <2>1, MsgCut, Zenon DEF c
    <3> QED BY ONLY <3>1 DEF IsCut
  <2> HIDE DEF c
  <2>3. r = c
    BY <1>7 DEF c
  <2> QED BY ONLY <2>2, <2>3
<1>11. log' \in Seq(Entry) /\ Len(log') = L + 1
  <2>1. CompactionEntry(entryIds[s], entryIds[e]) \in Entry
    <3>1. entryIds[s] \in Nat /\ entryIds[e] \in Nat
      BY <1>1, <1>5, NatSeqFacts DEF BoundedIds
    <3> QED BY <3>1 DEF CompactionEntry, Entry
  <2>2. log \in Seq(Entry)
    BY DEF BoundedIds
  <2> QED BY <1>8, <2>1, <2>2, AppendProperties
<1>12. BoundedIds'
  <2> DEFINE T == 0 .. L + 1
             a == SubSeq(entryIds, 1, s - 1)
             z == <<0>>
             b == SubSeq(entryIds, e + 1, P)
  <2>1. \A i \in 1 .. K : entryIds[i] \in T
    BY <1>1, NatSeqFacts DEF BoundedIds
  <2>2. z \in Seq(T)
    BY <1>1
  <2> HIDE DEF T
  <2>3. a \in Seq(T)
    <3>1. \A i \in 1 .. s - 1 : entryIds[i] \in T
      BY <1>1, <1>5, <2>1
    <3>2. 1 \in Int /\ s - 1 \in Int
      BY <1>4
    <3> QED BY ONLY <3>1, <3>2, SubSeqProperties
  <2>4. b \in Seq(T)
    <3>1. \A i \in e + 1 .. P : entryIds[i] \in T
      BY <1>1, <1>3, <1>4, <2>1
    <3>2. e + 1 \in Int /\ P \in Int
      BY <1>3, <1>4
    <3> QED BY ONLY <3>1, <3>2, SubSeqProperties
  <2> HIDE DEF a, z, b
  <2>5. a \o z \in Seq(T)
    BY ONLY <2>2, <2>3, ConcatProperties
  <2>6. (a \o z) \o b \in Seq(T)
    BY ONLY <2>4, <2>5, ConcatProperties
  <2>7. entryIds' \in Seq(0 .. L + 1) /\ L + 1 \in Nat
    <3>1. entryIds' = (a \o z) \o b
      BY <1>8 DEF a, z, b
    <3>2. entryIds' \in Seq(T)
      BY <2>6, <3>1
    <3> QED BY <1>1, <3>2 DEF T
  <2>8. entryIds' \in Seq(Nat) /\ \A i \in 1 .. Len(entryIds') : entryIds'[i] <= L + 1
    BY <2>7, IdsWithin
  <2> QED BY <1>11, <2>8 DEF BoundedIds
<1>13. ASSUME Settled(log, entryIds, msgs, calls)
       PROVE  Settled(log', entryIds', r, calls) /\ Len(entryIds') = Len(entryIds) - (e - s)
  <2>1. /\ Regular(log) /\ Agree(log, entryIds, msgs) /\ Sound(msgs) /\ Unanswered(msgs) = {}
        /\ UpTo(msgs, calls)
    BY <1>13 DEF Settled
  <2>2. P = K
    BY <1>2, <2>1 DEF Agree
  <2>3. entryIds' = Cut(entryIds, s, e, 0)
    BY <1>8, <2>2 DEF Cut
  <2>4. Regular(log') /\ Agree(log', entryIds', r)
    <3>1. log \in Seq(Entry) /\ entryIds \in Seq(Nat)
      BY DEF BoundedIds
    <3>2. /\ Regular(Append(log, CompactionEntry(entryIds[s], entryIds[e])))
          /\ Agree(Append(log, CompactionEntry(entryIds[s], entryIds[e])), Cut(entryIds, s, e, 0),
                   Cut(msgs, s, e, Message("summary", Len(log) + 1)))
      BY <1>5, <1>9, <2>1, <3>1, AgreeCut
    <3> QED BY <1>7, <1>8, <2>3, <3>2 DEF x
  <2>5. Len(r) \in Nat /\ \A i \in 1 .. Len(r) : i < s \/ i = s \/ i > s
    BY <1>4, <1>10, MsgFacts
  <2>6. /\ \A i \in 1 .. Len(r) : i < s => r[i] = msgs[i]
        /\ \A i \in 1 .. Len(r) : i > s => r[i] = msgs[i + (e - s)]
        /\ r[s].role = "summary"
    <3>1. \A i \in 1 .. Len(r) : i < s => r[i] = msgs[i]
      BY <1>4, <1>10
    <3>2. \A i \in 1 .. Len(r) : i > s => r[i] = msgs[i + (e - s)]
      BY <1>4, <1>10
    <3>3. s \in 1 .. Len(msgs) - (e - s) /\ ~(s < s)
      BY <1>1, <1>4, <1>5
    <3>4. r[s] = x
      BY <1>10, <3>3
    <3> QED BY <1>6, <3>1, <3>2, <3>4
  <2>7. Sound(r) /\ Unanswered(r) = {}
    BY <1>5, <1>9, <1>10, <2>1, <2>6, SoundCut
  <2>8. UpTo(r, calls)
    <3> SUFFICES ASSUME NEW i \in 1 .. Len(r), r[i].role \in {"call", "tool"}
                 PROVE  r[i].key <= calls
      BY DEF UpTo
    <3>1. i # s
      BY <2>6
    <3>2. \E h \in 1 .. Len(msgs) : r[i] = msgs[h]
      <4>1. i < s => i \in 1 .. Len(msgs)
        BY <1>1, <1>5
      <4>2. i > s => i + (e - s) \in 1 .. Len(msgs)
        <5>1. Len(r) = Len(msgs) - (e - s)
          BY <1>10
        <5> QED BY ONLY <1>1, <1>4, <5>1, i \in 1 .. Len(r)
      <4> QED BY <2>5, <2>6, <3>1, <4>1, <4>2
    <3> QED BY <2>1, <3>2 DEF UpTo
  <2>9. Len(entryIds') = Len(entryIds) - (e - s)
    <3>1. RebuiltIds(log') = entryIds' /\ Len(RebuiltMessages(log')) = Len(entryIds')
      BY <2>4 DEF Agree
    <3> DEFINE q == entryIds
               T == Nat
    <3>2. q \in Seq(T) /\ s \in 1 .. Len(q) /\ e \in s .. Len(q) /\ 0 \in T
      BY <1>5 DEF BoundedIds
    <3>3. \A v \in T : Len(Cut(q, s, e, v)) = Len(q) - (e - s)
      <4> HIDE DEF q, T
      <4> QED BY ONLY <3>2, CutFacts
    <3> QED BY <2>3, <3>2, <3>3
  <2> QED BY <2>1, <2>4, <2>7, <2>8, <2>9 DEF Settled
<1>14. ASSUME Settled(log, entryIds, msgs, calls), Len(msgs) > Len(entryIds),
              msgs[Len(msgs)].role = "user"
       PROVE  Len(r) > Len(entryIds') /\ Len(r) >= 1 /\ r[Len(r)].role = "user"
  <2>1. Len(entryIds') = K - (e - s) /\ Len(r) = Len(msgs) - (e - s)
    BY <1>10, <1>13, <1>14
  <2>2. Len(r) > Len(entryIds') /\ Len(r) >= 1 /\ Len(r) \in 1 .. Len(msgs) - (e - s)
        /\ ~(Len(r) < s) /\ Len(r) # s /\ Len(r) + (e - s) = Len(msgs)
    <3>1. Len(msgs) > K /\ e <= K
      BY <1>3, <1>4, <1>14
    <3> DEFINE M == Len(msgs)
               R == Len(r)
               D == Len(entryIds')
    <3>2. /\ K \in Nat /\ M \in Nat /\ D = K - (e - s) /\ R = M - (e - s)
          /\ s \in Nat /\ e \in Nat /\ 1 <= s /\ s <= e /\ e <= K /\ M > K
      BY <1>1, <1>4, <2>1, <3>1
    <3> HIDE DEF K, M, R, D
    <3>3. R > D /\ R >= 1 /\ R \in 1 .. M - (e - s) /\ ~(R < s) /\ R # s /\ R + (e - s) = M
      BY ONLY <3>2
    <3> QED BY ONLY <3>3 DEF M, R, D
  <2>3. r[Len(r)] = msgs[Len(r) + (e - s)]
    BY <1>10, <2>2
  <2> QED BY <1>14, <2>2, <2>3
<1>15. Settled(log, entryIds, msgs, calls) => Len(entryIds') <= Len(entryIds)
  <2>1. \A k \in Nat : k = K - (e - s) => k <= K
    BY <1>1, <1>4
  <2>2. BoundedIds' => Len(entryIds') \in Nat
    BY NatSeqFacts DEF BoundedIds
  <2> QED BY <1>12, <1>13, <2>1, <2>2
<1> QED BY <1>10, <1>12, <1>13, <1>14, <1>15 DEF r

--------------------------------------------------------------------------------
(* The ends of a turn and of a boundary.                                     *)

\* What the invariant gives an action.
LEMMA LiveFacts ==
  ASSUME IInv
  PROVE  /\ LiveContext \in Seq(Msg) /\ BoundedIds
         /\ messages \in Seq(Msg) /\ Len(messages) \in Nat /\ Len(entryIds) \in Nat
         /\ turn.unanswered \in Nat /\ turn.unanswered <= Len(messages)
         /\ turn.pending \in Seq(Nat) /\ turn.injecting \in Nat /\ turn.injecting <= inputs
         /\ governor.current \in Seq(Msg) /\ calls \in Nat /\ inputs \in Nat
         /\ ~Governing => LiveContext = messages
         /\ Governing => LiveContext = governor.current
         /\ (Governing /\ ~governor.changed) => LiveContext = messages
         /\ (~diverged /\ pc \notin {"tools", "down"}) => Settled(log, entryIds, LiveContext, calls)
         /\ (~diverged /\ turn.unanswered # 0) =>
              /\ turn.unanswered > Len(entryIds)
              /\ \A i \in turn.unanswered .. Len(messages) : messages[i].role \in {"user", "developer"}
         /\ (~diverged /\ ~Governing) => InputRun(entryIds, messages, turn.unanswered)
<1> USE DEF IInv
<1>1. LiveContext \in Seq(Msg) /\ messages \in Seq(Msg) /\ governor.current \in Seq(Msg)
  BY DEF Types, Governor, LiveContext
<1>2. BoundedIds
  BY DEF Types, BoundedIds
<1>3. /\ turn.unanswered \in Nat /\ turn.unanswered <= Len(messages)
      /\ turn.pending \in Seq(Nat) /\ turn.injecting \in Nat
      /\ calls \in Nat /\ inputs \in Nat
  BY DEF Types, Turn, Stages
<1>4. turn.injecting <= inputs
  BY <1>3 DEF Types
<1>5. Len(messages) \in Nat /\ Len(entryIds) \in Nat
  BY <1>1, <1>2, MsgFacts, NatSeqFacts DEF BoundedIds
<1>6. (~Governing => LiveContext = messages) /\ (Governing => LiveContext = governor.current)
  BY DEF Governing, LiveContext
<1>7. (Governing /\ ~governor.changed) => LiveContext = messages
  BY <1>6 DEF Stages
<1>8. (~diverged /\ pc \notin {"tools", "down"}) => Settled(log, entryIds, LiveContext, calls)
  BY DEF Faithful, Rounds, Context, Settled
<1>9. (~diverged /\ turn.unanswered # 0) =>
         /\ turn.unanswered > Len(entryIds)
         /\ \A i \in turn.unanswered .. Len(messages) : messages[i].role \in {"user", "developer"}
  BY DEF Faithful, Input
<1>10. (~diverged /\ ~Governing) => InputRun(entryIds, messages, turn.unanswered)
  BY <1>6 DEF Faithful, Input, InputRun
<1> QED BY <1>1, <1>2, <1>3, <1>4, <1>5, <1>6, <1>7, <1>8, <1>9, <1>10

\* A turn that ends.
LEMMA EndTurnKeeps ==
  ASSUME IInv, NEW msgs \in Seq(Msg), EndTurn(msgs),
         ~diverged' => Settled(log, entryIds, msgs, calls)
  PROVE  IInv'
<1>1. /\ messages' = msgs /\ PersistMessages(msgs) /\ pc' = "idle" /\ turn' = NoTurn
      /\ governor' = NoGovernor /\ cancelled' = FALSE
      /\ steering' = (IF cancelled THEN 0 ELSE steering)
      /\ followUp' = (IF cancelled THEN 0 ELSE followUp)
      /\ inputs' = inputs /\ calls' = calls
  BY DEF EndTurn
<1>2. BoundedIds'
  BY <1>1, LiveFacts, PersistKeeps
<1>3. Types'
  <2>1. steering' \in 0 .. inputs' /\ followUp' \in 0 .. inputs' /\ inputs' \in Nat /\ calls' \in Nat
    BY <1>1 DEF IInv, Types
  <2>2. turn' \in Turn /\ governor' \in Governor /\ turn'.injecting \in 0 .. inputs'
    BY <1>1, <2>1, EmptyFacts
  <2>3. messages' \in Seq(Msg) /\ pc' \in Pcs
    BY <1>1 DEF Pcs
  <2> QED BY <1>2, <2>1, <2>2, <2>3 DEF Types, BoundedIds
<1>4. Stages'
  <2>1. Len(messages') \in Nat
    BY <1>1, MsgFacts
  <2>2. turn'.unanswered <= Len(messages') /\ turn'.pending = <<>> /\ turn'.unanswered = 0
    BY <1>1, <2>1, EmptyFacts
  <2> QED BY <1>1, <2>2 DEF Stages, Governing
<1>5. ASSUME ~diverged' PROVE Faithful'
  <2>1. Settled(log, entryIds, msgs, calls)
    BY <1>5
  <2>2. Regular(log') /\ Agree(log', entryIds', msgs)
    BY <1>1, <2>1, LiveFacts, PersistKeeps DEF Settled
  <2>3. LiveContext' = msgs
    BY <1>1 DEF LiveContext
  <2>4. Settled(log', entryIds', LiveContext', calls')
    BY <1>1, <2>1, <2>2, <2>3 DEF Settled
  <2>5. Input'
    BY <1>1, EmptyFacts DEF Input
  <2>6. Context' = LiveContext'
    BY <1>1 DEF Context
  <2> QED BY <1>1, <2>4, <2>5, <2>6 DEF Faithful, Rounds, Settled
<1> QED BY <1>3, <1>4, <1>5 DEF IInv

\* The unanswered input may be dropped.
LEMMA TruncatedKeeps ==
  ASSUME NEW m \in Seq(Msg), NEW u \in Nat, u <= Len(m), entryIds \in Seq(Nat)
  PROVE  /\ Truncated(m, u) \in Seq(Msg)
         /\ (Settled(log, entryIds, m, calls)
               /\ (u # 0 => /\ u > Len(entryIds)
                            /\ \A i \in u .. Len(m) : m[i].role \in {"user", "developer"}))
              => Settled(log, entryIds, Truncated(m, u), calls)
<1> DEFINE w == Truncated(m, u)
<1>1. CASE u = 0
  BY <1>1 DEF Truncated
<1>2. CASE u # 0
  <2>1. Len(m) \in Nat /\ Len(entryIds) \in Nat
    BY MsgFacts, NatSeqFacts
  <2>2. w = SubSeq(m, 1, u - 1) /\ u - 1 \in 0 .. Len(m)
    BY <1>2, <2>1 DEF Truncated
  <2> HIDE DEF w
  <2>3. w \in Seq(Msg) /\ Len(w) = u - 1 /\ \A i \in 1 .. u - 1 : w[i] = m[i]
    BY <2>2, PrefixFacts
  <2>4. ASSUME Settled(log, entryIds, m, calls), u > Len(entryIds),
               \A i \in u .. Len(m) : m[i].role \in {"user", "developer"}
        PROVE  Settled(log, entryIds, w, calls)
    <3>1. Len(w) <= Len(m) /\ \A i \in 1 .. Len(w) : w[i] = m[i]
      BY <2>1, <2>3
    <3>2. \A i \in Len(w) + 1 .. Len(m) : m[i].role \notin {"call", "tool"}
      BY <2>1, <2>3, <2>4
    <3>3. Sound(w) /\ Unanswered(w) = {}
      BY <2>3, <2>4, <3>1, <3>2, SoundFront DEF Settled
    <3>4. UpTo(w, calls)
      <4>1. \A i \in 1 .. Len(w) : i \in 1 .. Len(m)
        BY <2>1, <2>3
      <4> QED BY <2>4, <3>1, <4>1 DEF Settled, UpTo
    <3>5. Agree(log, entryIds, w)
      <4>1. Agree(log, entryIds, m)
        BY <2>4 DEF Settled
      <4>2. Len(entryIds) <= Len(w) /\ \A i \in 1 .. Len(entryIds) : w[i] = m[i]
        BY <2>1, <2>3, <2>4
      <4> QED BY <4>1, <4>2, AgreeSame
    <3> QED BY <2>4, <3>3, <3>4, <3>5 DEF Settled
  <2> QED BY <1>2, <2>3, <2>4 DEF w
<1> QED BY <1>1, <1>2

LEMMA EndUnansweredKeeps ==
  ASSUME IInv, EndUnanswered, ~diverged' => ~diverged /\ Settled(log, entryIds, messages, calls)
  PROVE  IInv'
<1> DEFINE w == Truncated(messages, turn.unanswered)
<1>1. /\ messages \in Seq(Msg) /\ turn.unanswered \in Nat /\ turn.unanswered <= Len(messages)
      /\ entryIds \in Seq(Nat)
  BY LiveFacts DEF BoundedIds
<1>2. w \in Seq(Msg) /\ EndTurn(w)
  BY <1>1, TruncatedKeeps DEF EndUnanswered
<1>3. ~diverged' => Settled(log, entryIds, w, calls)
  BY <1>1, LiveFacts, TruncatedKeeps
<1> HIDE DEF w
<1> QED BY <1>2, <1>3, EndTurnKeeps

\* A boundary that is passed.
LEMMA ProceedKeeps ==
  ASSUME IInv, NEW msgs \in Seq(Msg), Proceed(msgs), log' = log, entryIds' = entryIds,
         turn.unanswered = 0, turn.pending = <<>>,
         ~diverged' => ~ExtendsPersisted(msgs, turn.injecting) /\ Settled(log, entryIds, msgs, calls)
  PROVE  IInv'
<1> DEFINE w == Injected(msgs, turn.injecting)
           u == UnansweredAfter(msgs, turn.injecting, turn.unanswered)
<1>0. turn \in Turn /\ MaxRoundtrips \in Nat
  BY AgentTurnAssumption DEF IInv, Types
<1>1. /\ messages' = w /\ governor' = NoGovernor /\ pc' = "top"
      /\ steering' = steering /\ followUp' = followUp /\ inputs' = inputs /\ calls' = calls
      /\ cancelled' = cancelled
  BY DEF Proceed
<1>2. /\ Len(msgs) \in Nat /\ 0 \in Nat /\ 0 <= Len(msgs) /\ entryIds \in Seq(Nat)
      /\ turn.injecting \in Nat /\ calls \in Nat /\ inputs \in Nat
  BY MsgFacts, LiveFacts DEF BoundedIds
<1>3. /\ w \in Seq(Msg) /\ u \in Nat /\ u <= Len(w)
      /\ (~ExtendsPersisted(msgs, turn.injecting) /\ Settled(log, entryIds, msgs, calls)
            /\ calls \in Nat /\ InputRun(entryIds, msgs, turn.unanswered)) =>
           Settled(log, entryIds, w, calls) /\ InputRun(entryIds, w, u)
  BY <1>2, InjectKeeps
<1> HIDE DEF w, u
<1>4. turn' \in Turn /\ turn'.unanswered = u /\ turn'.pending = <<>> /\ turn'.injecting = 0
  <2> DEFINE rt == IF turn.injecting = 0 /\ MaxRoundtrips # 0 THEN turn.roundtrip + 1
                   ELSE turn.roundtrip
  <2>1. turn' = [turn EXCEPT !.unanswered = u, !.injecting = 0, !.roundtrip = rt]
    BY DEF Proceed, u
  <2>2. rt \in Nat
    BY <1>0 DEF Turn
  <2> HIDE DEF rt
  <2> QED BY <1>0, <1>3, <2>1, <2>2 DEF Turn
<1>5. Types'
  <2>1. governor' \in Governor /\ messages' \in Seq(Msg) /\ pc' \in Pcs
    BY <1>1, <1>3, EmptyFacts DEF Pcs
  <2>2. BoundedIds'
    BY LiveFacts DEF BoundedIds
  <2>3. steering' \in 0 .. inputs' /\ followUp' \in 0 .. inputs' /\ turn'.injecting \in 0 .. inputs'
        /\ inputs' \in Nat /\ calls' \in Nat
    BY <1>1, <1>2, <1>4 DEF IInv, Types
  <2> QED BY <1>4, <2>1, <2>2, <2>3 DEF Types, BoundedIds
<1>6. Stages'
  BY <1>1, <1>3, <1>4 DEF Stages, Governing
<1>7. ASSUME ~diverged' PROVE Faithful'
  <2>1. InputRun(entryIds, msgs, turn.unanswered)
    BY DEF InputRun
  <2>2. Settled(log, entryIds, w, calls) /\ InputRun(entryIds, w, u)
    BY <1>2, <1>3, <1>7, <2>1
  <2>3. LiveContext' = w
    BY <1>1 DEF LiveContext
  <2>4. Settled(log', entryIds', LiveContext', calls')
    BY <1>1, <2>2, <2>3
  <2>5. Input'
    BY <1>1, <1>4, <2>2, <2>3 DEF Input, InputRun
  <2>6. Context' = LiveContext'
    BY <1>1 DEF Context
  <2> QED BY <1>1, <2>4, <2>5, <2>6 DEF Faithful, Rounds, Settled
<1> QED BY <1>5, <1>6, <1>7 DEF IInv

\* A step that moves the turn but not its context.
LEMMA MoveKeeps ==
  ASSUME IInv, UNCHANGED <<messages, entryIds, log, turn, calls, diverged>>,
         pc \notin {"tools", "down"}, pc' \notin {"tools", "down"},
         LiveContext' = LiveContext, Types', Stages'
  PROVE  IInv'
<1>1. ASSUME ~diverged' PROVE Faithful'
  <2>1. Settled(log', entryIds', LiveContext', calls')
    BY <1>1, LiveFacts
  <2>2. Input'
    BY <1>1 DEF IInv, Faithful, Input
  <2>3. Context' = LiveContext'
    BY DEF Context
  <2> QED BY <2>1, <2>2, <2>3 DEF Faithful, Rounds, Settled
<1> QED BY <1>1 DEF IInv

\* A step that leaves the turn where it is.
LEMMA MinorKeeps ==
  ASSUME IInv, UNCHANGED <<messages, entryIds, log, pc, turn, governor, calls, diverged>>,
         inputs' \in Nat, inputs <= inputs', steering' \in 0 .. inputs', followUp' \in 0 .. inputs',
         pc \in {"idle", "down"} => cancelled' = cancelled
  PROVE  IInv'
<1>1. Types'
  <2>1. turn'.injecting \in 0 .. inputs'
    BY LiveFacts
  <2> QED BY <2>1 DEF IInv, Types
<1>2. Stages'
  BY DEF IInv, Stages, Governing
<1>3. ASSUME ~diverged' PROVE Faithful'
  <2>1. LiveContext' = LiveContext /\ Context' = Context
    BY DEF LiveContext, Context
  <2> QED BY <1>3, <2>1, ZenonT(40) DEF IInv, Faithful, Input, Rounds
<1> QED BY <1>1, <1>2, <1>3 DEF IInv

\* The ranges of the planner and of a job that is revalidated.
LEMMA PlanFacts ==
  ASSUME NEW msgs
  PROVE  \A p \in HardPlans(msgs) \cup JobPlans(msgs) :
            /\ p \in (1 .. Persisted(msgs)) \X (1 .. Persisted(msgs)) /\ p[1] <= p[2]
            /\ \A i \in p[1] .. p[2] : entryIds[i] # 0
            /\ ValidRange(msgs, p[1], p[2])
BY DEF HardPlans, JobPlans, PairSafe

--------------------------------------------------------------------------------
(* The turn: prompts, requests and answers.                                  *)

\* A message that is neither a call nor a result.
LEMMA PlainKeeps ==
  ASSUME NEW l, NEW ids \in Seq(Nat), NEW c, NEW m \in Seq(Msg), Settled(l, ids, m, c),
         NEW w \in Seq(Msg), Len(m) <= Len(w), \A i \in 1 .. Len(m) : w[i] = m[i],
         \A i \in Len(m) + 1 .. Len(w) : w[i].role \notin {"call", "tool"}
  PROVE  Settled(l, ids, w, c)
<1>1. Len(m) \in Nat /\ Len(w) \in Nat /\ Len(ids) \in Nat
  BY MsgFacts, NatSeqFacts
<1>2. Sound(w) /\ Unanswered(w) = {}
  BY SoundPlain DEF Settled
<1>3. UpTo(w, c)
  <2>1. \A i \in 1 .. Len(w) : i \in 1 .. Len(m) \/ i \in Len(m) + 1 .. Len(w)
    BY <1>1
  <2> QED BY <2>1 DEF Settled, UpTo
<1>4. Agree(l, ids, w)
  <2>1. Agree(l, ids, m) /\ Len(ids) <= Len(m)
    BY DEF Settled, Agree
  <2>2. Len(ids) <= Len(w) /\ \A i \in 1 .. Len(ids) : w[i] = m[i]
    BY <1>1, <2>1
  <2> QED BY <2>1, <2>2, AgreeSame
<1> QED BY <1>2, <1>3, <1>4 DEF Settled

LEMMA AnswerKeeps ==
  ASSUME NEW m \in Seq(Msg), entryIds \in Seq(Nat)
  PROVE  LET w == Append(m, Message("assistant", 0))
         IN  /\ w \in Seq(Msg) /\ Len(w) = Len(m) + 1 /\ \A i \in 1 .. Len(m) : w[i] = m[i]
             /\ Settled(log, entryIds, m, calls) => Settled(log, entryIds, w, calls)
<1> DEFINE x == Message("assistant", 0)
           w == Append(m, x)
<1>1. x \in Msg /\ x.role = "assistant"
  BY DEF Message, Msg, MessageRoles
<1> HIDE DEF x
<1>2. /\ w \in Seq(Msg) /\ Len(w) = Len(m) + 1 /\ \A i \in 1 .. Len(m) : w[i] = m[i]
      /\ w[Len(m) + 1] = x
  BY <1>1, AppendProperties
<1> HIDE DEF w
<1>3. Len(m) \in Nat
  BY MsgFacts
<1>4. Len(m) <= Len(w) /\ \A i \in Len(m) + 1 .. Len(w) : w[i].role \notin {"call", "tool"}
  BY <1>1, <1>2, <1>3
<1>5. Settled(log, entryIds, m, calls) => Settled(log, entryIds, w, calls)
  BY <1>2, <1>4, PlainKeeps
<1> QED BY <1>2, <1>5 DEF w, x

\* While the turn is at rest, or waits for the provider.
LEMMA QuietFacts ==
  ASSUME IInv, pc \in {"idle", "top", "stream", "boundary"}
  PROVE  /\ LiveContext = messages /\ turn.pending = <<>>
         /\ ~diverged => /\ Settled(log, entryIds, messages, calls)
                         /\ InputRun(entryIds, messages, turn.unanswered)
<1>1. ~Governing
  BY DEF Governing
<1>2. LiveContext = messages
  BY <1>1, LiveFacts
<1>3. turn.pending = <<>>
  BY DEF IInv, Stages
<1> QED BY <1>1, <1>2, <1>3, LiveFacts

LEMMA SubmitTurnKeeps ==
  ASSUME IInv, NEW context \in Contexts, SubmitTurn(context)
  PROVE  IInv'
<1> DEFINE cs == [i \in DOMAIN context |-> Message(context[i], 0)]
           x == Message("user", inputs + 1)
           a == messages \o cs
           w == a \o <<x>>
           n == Len(context)
           M == Len(messages)
<1>1. /\ pc = "idle" /\ messages' = w /\ turn' = [NoTurn EXCEPT !.unanswered = Len(messages) + 1]
      /\ pc' = "top" /\ inputs' = inputs + 1 /\ calls' = calls /\ governor' = governor
      /\ entryIds' = entryIds /\ log' = log /\ steering' = steering /\ followUp' = followUp
      /\ diverged' = diverged
  BY DEF SubmitTurn
<1>2. M \in Nat /\ messages \in Seq(Msg) /\ inputs \in Nat /\ calls \in Nat /\ entryIds \in Seq(Nat)
      /\ Len(entryIds) \in Nat
  BY LiveFacts DEF BoundedIds
<1>3. /\ n \in Nat /\ DOMAIN context = 1 .. n
      /\ \A i \in 1 .. n : context[i] \in {"developer", "user"}
  <2>1. context \in Seq({"developer", "user"})
    BY AgentTurnAssumption
  <2> QED BY <2>1, LenProperties, ElementOfSeq
<1>4. x \in Msg /\ x.role = "user"
  BY <1>2 DEF Message, Msg, MessageRoles
<1>5. /\ cs \in Seq(Msg) /\ Len(cs) = n /\ \A i \in 1 .. n : cs[i].role \in {"developer", "user"}
  <2>1. cs = [i \in 1 .. n |-> Message(context[i], 0)]
    BY <1>3
  <2>2. \A i \in 1 .. n : Message(context[i], 0) \in Msg /\ Message(context[i], 0).role \in {"developer", "user"}
    BY <1>3 DEF Message, Msg, MessageRoles
  <2>3. cs \in Seq(Msg)
    BY ONLY <1>3, <2>1, <2>2, IsASeq
  <2> QED BY <1>3, <2>1, <2>2, <2>3
<1> HIDE DEF cs, x
<1>6. /\ a \in Seq(Msg) /\ Len(a) = M + n
      /\ \A i \in 1 .. M + n : a[i] = IF i <= M THEN messages[i] ELSE cs[i - M]
  <2>1. /\ a \in Seq(Msg) /\ Len(a) = M + Len(cs)
        /\ \A i \in 1 .. M + Len(cs) : a[i] = IF i <= M THEN messages[i] ELSE cs[i - M]
    BY ONLY <1>2, <1>5, ConcatProperties, ZenonT(40)
  <2> HIDE DEF a
  <2> QED BY <1>5, <2>1
<1> HIDE DEF a
<1>7. /\ w \in Seq(Msg) /\ Len(w) = M + n + 1 /\ w[M + n + 1] = x
      /\ \A i \in 1 .. M + n : w[i] = a[i]
  <2>1. w = Append(a, x)
    BY <1>4, <1>6, AppendIsConcat
  <2> HIDE DEF w
  <2> QED BY <1>4, <1>6, <2>1, AppendProperties
<1> HIDE DEF w
<1>8. \A i \in 1 .. M : w[i] = messages[i]
  BY <1>2, <1>3, <1>6, <1>7
<1>9. \A i \in M + 1 .. M + n + 1 : w[i].role \in {"developer", "user"}
  <2> TAKE i \in M + 1 .. M + n + 1
  <2>1. i = M + n + 1 \/ (i \in 1 .. M + n /\ ~(i <= M) /\ i - M \in 1 .. n)
    BY <1>2, <1>3
  <2>2. CASE i = M + n + 1
    BY <1>4, <1>7, <2>2
  <2>3. CASE i \in 1 .. M + n /\ ~(i <= M) /\ i - M \in 1 .. n
    BY <1>5, <1>6, <1>7, <2>3
  <2> QED BY <2>1, <2>2, <2>3
<1>10. /\ turn' \in Turn /\ turn'.unanswered = M + 1 /\ turn'.pending = <<>> /\ turn'.injecting = 0
  <2>1. M + 1 \in Nat
    BY <1>2
  <2> HIDE DEF M
  <2> QED BY <1>1, <2>1, EmptyFacts DEF Turn, M
<1>11. Types'
  <2>1. BoundedIds'
    BY <1>1, LiveFacts DEF BoundedIds
  <2>2. steering' \in 0 .. inputs' /\ followUp' \in 0 .. inputs' /\ turn'.injecting \in 0 .. inputs'
        /\ inputs' \in Nat /\ calls' \in Nat
    BY <1>1, <1>2, <1>10 DEF IInv, Types
  <2>3. governor' \in Governor /\ pc' \in Pcs /\ messages' \in Seq(Msg)
    BY <1>1, <1>7 DEF IInv, Types, Pcs
  <2> QED BY <1>10, <2>1, <2>2, <2>3 DEF Types, BoundedIds
<1>12. Stages'
  <2>1. turn'.unanswered <= Len(messages')
    BY <1>1, <1>2, <1>3, <1>7, <1>10
  <2> QED BY <1>1, <1>10, <2>1 DEF Stages, Governing
<1>13. ASSUME ~diverged' PROVE Faithful'
  <2>1. Settled(log, entryIds, messages, calls)
    BY <1>1, <1>13, QuietFacts
  <2>2. Len(messages) <= Len(w) /\ \A i \in Len(messages) + 1 .. Len(w) : w[i].role \notin {"call", "tool"}
    <3>1. Len(w) = M + n + 1
      BY <1>7
    <3>2. \A i \in M + 1 .. Len(w) : w[i].role \in {"developer", "user"}
      BY <1>9, <3>1
    <3> QED BY <1>2, <1>3, <3>1, <3>2
  <2>3. Settled(log, entryIds, w, calls)
    BY <1>2, <1>7, <1>8, <2>1, <2>2, PlainKeeps
  <2>4. LiveContext' = w /\ Context' = w
    BY <1>1 DEF LiveContext, Context
  <2>5. Input'
    <3>1. Len(entryIds) <= M
      BY <2>1 DEF Settled, Agree
    <3>2. M + 1 > Len(entryIds) /\ Len(w) > Len(entryIds) /\ w[Len(w)].role = "user"
      BY <1>2, <1>3, <1>4, <1>7, <3>1
    <3>3. \A i \in M + 1 .. Len(w) : w[i].role \in {"user", "developer"}
      BY <1>7, <1>9
    <3> QED BY <1>1, <1>10, <2>4, <3>2, <3>3 DEF Input
  <2> QED BY <1>1, <2>3, <2>4, <2>5 DEF Faithful, Rounds, Settled
<1> QED BY <1>11, <1>12, <1>13 DEF IInv

LEMMA TopStepKeeps == ASSUME IInv, TopStep PROVE IInv'
<1>1. CASE TopCapReached
  <2>1. pc = "top" /\ EndTurn(messages) /\ diverged' = diverged
    BY <1>1 DEF TopCapReached
  <2> QED BY <2>1, LiveFacts, QuietFacts, EndTurnKeeps
<1>2. CASE TopCancelled
  <2>1. pc = "top" /\ EndUnanswered /\ diverged' = diverged
    BY <1>2 DEF TopCancelled
  <2> QED BY <2>1, QuietFacts, EndUnansweredKeeps
<1>3. CASE TopRequests
  <2> DEFINE w == Injected(messages, steering)
             u == UnansweredAfter(messages, steering, turn.unanswered)
  <2>1. /\ pc = "top" /\ messages' = w /\ turn' = [turn EXCEPT !.unanswered = u]
        /\ diverged' = (diverged \/ ExtendsPersisted(messages, steering))
        /\ steering' = 0 /\ pc' = "stream" /\ entryIds' = entryIds /\ log' = log
        /\ governor' = governor /\ followUp' = followUp /\ inputs' = inputs /\ calls' = calls
    BY <1>3 DEF TopRequests
  <2>2. /\ messages \in Seq(Msg) /\ steering \in Nat /\ turn.unanswered \in Nat
        /\ turn.unanswered <= Len(messages) /\ entryIds \in Seq(Nat) /\ calls \in Nat
        /\ turn \in Turn /\ turn.pending = <<>> /\ inputs \in Nat
    BY <2>1, LiveFacts, QuietFacts DEF IInv, Types, BoundedIds
  <2>3. /\ w \in Seq(Msg) /\ u \in Nat /\ u <= Len(w)
        /\ (~ExtendsPersisted(messages, steering) /\ Settled(log, entryIds, messages, calls)
              /\ calls \in Nat /\ InputRun(entryIds, messages, turn.unanswered)) =>
             Settled(log, entryIds, w, calls) /\ InputRun(entryIds, w, u)
    BY <2>2, InjectKeeps
  <2> HIDE DEF w, u
  <2>4. turn' \in Turn /\ turn'.unanswered = u /\ turn'.pending = <<>> /\ turn'.injecting = turn.injecting
    BY <2>1, <2>2, <2>3 DEF Turn
  <2>5. Types'
    <3>1. BoundedIds'
      BY <2>1, LiveFacts DEF BoundedIds
    <3>2. steering' \in 0 .. inputs' /\ followUp' \in 0 .. inputs' /\ turn'.injecting \in 0 .. inputs'
          /\ inputs' \in Nat /\ calls' \in Nat /\ governor' \in Governor
      BY <2>1, <2>2, <2>4 DEF IInv, Types
    <3> QED BY <2>1, <2>3, <2>4, <3>1, <3>2 DEF Types, BoundedIds, Pcs
  <2>6. Stages'
    BY <2>1, <2>3, <2>4 DEF Stages, Governing
  <2>7. ASSUME ~diverged' PROVE Faithful'
    <3>1. ~diverged /\ ~ExtendsPersisted(messages, steering)
      BY <2>1, <2>7
    <3>2. Settled(log, entryIds, w, calls) /\ InputRun(entryIds, w, u)
      BY <2>1, <2>2, <2>3, <3>1, QuietFacts
    <3>3. LiveContext' = w /\ Context' = w
      BY <2>1 DEF LiveContext, Context
    <3>4. Input'
      BY <2>1, <2>4, <3>2, <3>3 DEF Input, InputRun
    <3> QED BY <2>1, <3>2, <3>3, <3>4 DEF Faithful, Rounds, Settled
  <2> QED BY <2>5, <2>6, <2>7 DEF IInv
<1> QED BY <1>1, <1>2, <1>3 DEF TopStep

LEMMA StreamCallsToolsKeeps ==
  ASSUME IInv, NEW n \in 1 .. MaxCalls, StreamCallsTools(n) PROVE IInv'
<1> DEFINE cs == [i \in 1 .. n |-> Message("call", calls + i)]
           w == messages \o cs
           pend == [i \in 1 .. n |-> calls + i]
           M == Len(messages)
<1>1. /\ pc = "stream" /\ messages' = w
      /\ turn' = [turn EXCEPT !.unanswered = 0, !.attempted = FALSE, !.pending = pend]
      /\ calls' = calls + n /\ pc' = "tools" /\ entryIds' = entryIds /\ log' = log
      /\ governor' = governor /\ steering' = steering /\ followUp' = followUp
      /\ inputs' = inputs /\ diverged' = diverged
  BY DEF StreamCallsTools
<1>2. /\ M \in Nat /\ messages \in Seq(Msg) /\ calls \in Nat /\ entryIds \in Seq(Nat)
      /\ Len(entryIds) \in Nat /\ turn \in Turn /\ n \in Nat
  BY LiveFacts DEF IInv, Types, BoundedIds
<1>3. cs \in Seq(Msg) /\ Len(cs) = n /\ \A i \in 1 .. n : cs[i].role = "call" /\ cs[i].key = calls + i
  <2>1. \A i \in 1 .. n : /\ Message("call", calls + i) \in Msg
                          /\ Message("call", calls + i).role = "call"
                          /\ Message("call", calls + i).key = calls + i
    BY <1>2 DEF Message, Msg, MessageRoles
  <2>2. \A i \in 1 .. n : Message("call", calls + i) \in Msg
    BY <2>1
  <2>3. cs \in Seq(Msg)
    BY ONLY <1>2, <2>2, IsASeq
  <2>4. Len(cs) = n /\ \A i \in 1 .. n : cs[i] = Message("call", calls + i)
    BY <1>2
  <2> HIDE DEF cs
  <2> QED BY <2>1, <2>3, <2>4
<1>4. pend \in Seq(Nat) /\ Len(pend) = n /\ \A i \in 1 .. n : pend[i] = calls + i
  BY <1>2
<1> HIDE DEF cs, pend
<1>5. /\ w \in Seq(Msg) /\ Len(w) = M + n
      /\ \A i \in 1 .. M + n : w[i] = IF i <= M THEN messages[i] ELSE cs[i - M]
  <2>1. /\ w \in Seq(Msg) /\ Len(w) = M + Len(cs)
        /\ \A i \in 1 .. M + Len(cs) : w[i] = IF i <= M THEN messages[i] ELSE cs[i - M]
    BY ONLY <1>2, <1>3, ConcatProperties
  <2> HIDE DEF w
  <2> QED BY <1>3, <2>1
<1> HIDE DEF w
<1>6. \A i \in 1 .. M : w[i] = messages[i]
  BY <1>2, <1>5
<1>7. \A i \in M + 1 .. Len(w) : w[i].role = "call" /\ w[i].key = calls + (i - M) /\ i - M \in 1 .. n
  <2> TAKE i \in M + 1 .. Len(w)
  <2>1. i \in 1 .. M + n /\ ~(i <= M) /\ i - M \in 1 .. n
    BY <1>2, <1>5
  <2> QED BY <1>3, <1>5, <2>1
<1>8. /\ turn' \in Turn /\ turn'.unanswered = 0 /\ turn'.pending = pend
      /\ turn'.injecting = turn.injecting
  BY <1>1, <1>2, <1>4 DEF Turn
<1>9. Types'
  <2>1. BoundedIds'
    BY <1>1, LiveFacts DEF BoundedIds
  <2>2. steering' \in 0 .. inputs' /\ followUp' \in 0 .. inputs' /\ turn'.injecting \in 0 .. inputs'
        /\ inputs' \in Nat /\ calls' \in Nat /\ governor' \in Governor
    BY <1>1, <1>2, <1>8 DEF IInv, Types
  <2> QED BY <1>1, <1>5, <1>8, <2>1, <2>2 DEF Types, BoundedIds, Pcs
<1>10. Stages'
  <2>1. turn'.unanswered <= Len(messages')
    BY <1>1, <1>2, <1>5, <1>8
  <2> QED BY <1>1, <1>8, <2>1 DEF Stages, Governing
<1>11. ASSUME ~diverged' PROVE Faithful'
  <2>1. Settled(log, entryIds, messages, calls)
    BY <1>1, <1>11, QuietFacts
  <2>2. Len(messages) <= Len(w)
    BY <1>2, <1>5
  <2>3. /\ Sound(messages) /\ Unanswered(messages) = {} /\ Agree(log, entryIds, messages)
        /\ \A i \in 1 .. Len(messages) : messages[i].role \in {"call", "tool"} => messages[i].key <= calls
    BY <2>1 DEF Settled, UpTo
  <2>4. Sound(w) /\ \A i : i \in Unanswered(w) <=> i \in M + 1 .. Len(w)
    BY <1>2, <1>5, <1>6, <1>7, <2>2, <2>3, SoundCalls
  <2>5. UpTo(w, calls + n)
    <3> SUFFICES ASSUME NEW i \in 1 .. Len(w), w[i].role \in {"call", "tool"}
                 PROVE  w[i].key <= calls + n
      BY DEF UpTo
    <3>1. i \in 1 .. M \/ i \in M + 1 .. Len(w)
      BY <1>2, <1>5
    <3>2. CASE i \in 1 .. M
      <4>1. messages[i].key <= calls /\ messages[i].key \in Nat
        BY <1>2, <1>6, <2>3, <3>2, MsgFacts
      <4> QED BY <1>2, <1>6, <3>2, <4>1
    <3>3. CASE i \in M + 1 .. Len(w)
      <4>1. w[i].key = calls + (i - M) /\ i - M \in 1 .. n
        BY <1>7, <3>3
      <4> QED BY <1>2, <4>1
    <3> QED BY <3>1, <3>2, <3>3
  <2>6. Agree(log, entryIds, w)
    <3>1. Len(entryIds) <= M
      BY <2>3 DEF Agree
    <3>2. Len(entryIds) <= Len(w) /\ \A i \in 1 .. Len(entryIds) : w[i] = messages[i]
      BY <1>2, <1>5, <1>6, <3>1
    <3> QED BY <2>3, <3>2, AgreeSame
  <2>7. {w[i].key : i \in Unanswered(w)} = {pend[i] : i \in 1 .. Len(pend)}
    <3>1. ASSUME NEW i \in Unanswered(w) PROVE w[i].key \in {pend[j] : j \in 1 .. Len(pend)}
      <4>1. i - M \in 1 .. n /\ w[i].key = calls + (i - M)
        BY <1>7, <2>4
      <4> QED BY <1>4, <4>1
    <3>2. ASSUME NEW j \in 1 .. Len(pend) PROVE pend[j] \in {w[i].key : i \in Unanswered(w)}
      <4>1. M + j \in M + 1 .. Len(w) /\ (M + j) - M = j
        BY <1>2, <1>4, <1>5
      <4>2. M + j \in Unanswered(w) /\ w[M + j].key = calls + j
        BY <1>7, <2>4, <4>1
      <4>3. pend[j] = w[M + j].key
        BY <1>4, <4>2
      <4> QED BY <4>2, <4>3
    <3> QED BY <3>1, <3>2
  <2>8. \A i, j \in 1 .. Len(pend) : pend[i] = pend[j] => i = j
    BY <1>2, <1>4
  <2>9. LiveContext' = w /\ Context' = w
    BY <1>1 DEF LiveContext, Context
  <2>10. Input'
    BY <1>8 DEF Input
  <2>11. Rounds'
    <3>1. {messages'[i].key : i \in Unanswered(messages')}
             = {turn'.pending[i] : i \in 1 .. Len(turn'.pending)}
      BY <1>1, <1>8, <2>7, ZenonT(40)
    <3>2. \A i, j \in 1 .. Len(turn'.pending) : turn'.pending[i] = turn'.pending[j] => i = j
      BY <1>8, <2>8
    <3>3. Sound(Context') /\ UpTo(Context', calls') /\ pc' = "tools"
      BY <1>1, <2>4, <2>5, <2>9
    <3> QED BY <3>1, <3>2, <3>3 DEF Rounds
  <2> QED BY <1>1, <2>1, <2>6, <2>9, <2>10, <2>11 DEF Faithful, Settled
<1> QED BY <1>9, <1>10, <1>11 DEF IInv

LEMMA AnsweredFacts ==
  ASSUME IInv, NEW text
  PROVE  /\ Answered(text) \in Seq(Msg)
         /\ Settled(log, entryIds, messages, calls) => Settled(log, entryIds, Answered(text), calls)
<1>1. messages \in Seq(Msg) /\ entryIds \in Seq(Nat)
  BY LiveFacts DEF BoundedIds
<1>2. CASE text
  BY <1>1, <1>2, AnswerKeeps DEF Answered
<1>3. CASE ~text
  BY <1>1, <1>3 DEF Answered
<1> QED BY <1>2, <1>3

LEMMA StreamContinuesKeeps ==
  ASSUME IInv, NEW text \in BOOLEAN, StreamContinues(text) PROVE IInv'
<1> DEFINE w == Answered(text)
           j == IF steering # 0 THEN steering ELSE followUp
<1>1. /\ pc = "stream" /\ messages' = w /\ PersistMessages(w)
      /\ turn' = [turn EXCEPT !.unanswered = 0, !.attempted = FALSE, !.injecting = j]
      /\ steering' = 0 /\ followUp' = (IF steering # 0 THEN followUp ELSE 0)
      /\ pc' = "boundary" /\ governor' = governor /\ inputs' = inputs /\ calls' = calls
      /\ diverged' = diverged
  BY DEF StreamContinues
<1>2. /\ w \in Seq(Msg)
      /\ Settled(log, entryIds, messages, calls) => Settled(log, entryIds, w, calls)
  BY AnsweredFacts
<1>3. /\ turn \in Turn /\ turn.pending = <<>> /\ inputs \in Nat /\ calls \in Nat
      /\ steering \in 0 .. inputs /\ followUp \in 0 .. inputs /\ governor \in Governor /\ BoundedIds
  BY <1>1, LiveFacts, QuietFacts DEF IInv, Types
<1> HIDE DEF w
<1>4. j \in 0 .. inputs /\ j \in Nat
  BY <1>3
<1> HIDE DEF j
<1>5. turn' \in Turn /\ turn'.unanswered = 0 /\ turn'.pending = <<>> /\ turn'.injecting = j
  BY <1>1, <1>3, <1>4 DEF Turn
<1>6. BoundedIds' /\ (Settled(log, entryIds, w, calls) => Regular(log') /\ Agree(log', entryIds', w))
  BY <1>1, <1>2, <1>3, PersistKeeps DEF Settled
<1>7. Types'
  <2>1. steering' \in 0 .. inputs' /\ followUp' \in 0 .. inputs' /\ turn'.injecting \in 0 .. inputs'
        /\ inputs' \in Nat /\ calls' \in Nat /\ governor' \in Governor
    BY <1>1, <1>3, <1>4, <1>5
  <2> QED BY <1>1, <1>2, <1>5, <1>6, <2>1 DEF Types, BoundedIds, Pcs
<1>8. Stages'
  <2>1. Len(messages') \in Nat
    BY <1>1, <1>2, MsgFacts
  <2> QED BY <1>1, <1>5, <2>1 DEF Stages, Governing
<1>9. ASSUME ~diverged' PROVE Faithful'
  <2>1. Settled(log, entryIds, w, calls)
    BY <1>1, <1>2, <1>9, QuietFacts
  <2>2. Regular(log') /\ Agree(log', entryIds', w)
    BY <1>6, <2>1
  <2>3. LiveContext' = w /\ Context' = w
    BY <1>1 DEF LiveContext, Context
  <2>4. Input'
    BY <1>5 DEF Input
  <2>5. Rounds'
    BY <1>1, <2>1, <2>3 DEF Rounds, Settled
  <2> QED BY <1>1, <2>2, <2>3, <2>4, <2>5 DEF Faithful
<1> QED BY <1>7, <1>8, <1>9 DEF IInv

LEMMA OverflowsKeeps == ASSUME IInv, Overflows PROVE IInv'
<1>1. /\ pc = "stream" /\ pc' = "relieve"
      /\ governor' = [NoGovernor EXCEPT !.current = messages, !.overflow = TRUE]
      /\ UNCHANGED <<messages, entryIds, log, turn, steering, followUp, cancelled, inputs, calls, diverged>>
  BY DEF Overflows
<1>2. messages \in Seq(Msg) /\ LiveContext = messages /\ turn.pending = <<>>
  BY <1>1, LiveFacts, QuietFacts
<1>3. /\ governor' \in Governor /\ governor'.current = messages /\ governor'.overflow = TRUE
      /\ governor'.changed = FALSE
  BY <1>1, <1>2, EmptyFacts DEF Governor
<1>4. Types'
  BY <1>1, <1>3 DEF IInv, Types, Pcs
<1>5. Stages'
  <2>1. turn'.unanswered <= Len(messages') /\ turn'.pending = <<>>
    BY <1>1, <1>2 DEF IInv, Stages
  <2> QED BY <1>1, <1>3, <2>1 DEF Stages, Governing
<1>6. LiveContext' = LiveContext
  BY <1>1, <1>2, <1>3 DEF LiveContext
<1> QED BY <1>1, <1>4, <1>5, <1>6, MoveKeeps

LEMMA StreamStepKeeps == ASSUME IInv, StreamStep PROVE IInv'
<1>0. messages \in Seq(Msg) /\ entryIds \in Seq(Nat)
  BY LiveFacts DEF BoundedIds
<1>1. ASSUME NEW partial \in BOOLEAN, StreamCancelled(partial) PROVE IInv'
  <2>1. pc = "stream" /\ diverged' = diverged
    BY <1>1 DEF StreamCancelled
  <2>2. CASE partial
    <3> DEFINE w == Append(messages, Message("assistant", 0))
    <3>1. EndTurn(w)
      BY <1>1, <2>2 DEF StreamCancelled
    <3>2. w \in Seq(Msg) /\ (Settled(log, entryIds, messages, calls) => Settled(log, entryIds, w, calls))
      BY <1>0, AnswerKeeps
    <3> HIDE DEF w
    <3> QED BY <2>1, <3>1, <3>2, QuietFacts, EndTurnKeeps
  <2>3. CASE ~partial
    <3>1. EndUnanswered
      BY <1>1, <2>3 DEF StreamCancelled
    <3> QED BY <2>1, <3>1, QuietFacts, EndUnansweredKeeps
  <2> QED BY <2>2, <2>3
<1>2. CASE StreamFails
  <2>1. pc = "stream" /\ EndUnanswered /\ diverged' = diverged
    BY <1>2 DEF StreamFails
  <2> QED BY <2>1, QuietFacts, EndUnansweredKeeps
<1>3. CASE OverflowCancelled
  <2>1. pc = "stream" /\ EndTurn(messages) /\ diverged' = diverged
    BY <1>3 DEF OverflowCancelled
  <2> QED BY <1>0, <2>1, QuietFacts, EndTurnKeeps
<1>4. ASSUME NEW text \in BOOLEAN, StreamCompletes(text) PROVE IInv'
  <2>1. pc = "stream" /\ EndTurn(Answered(text)) /\ diverged' = diverged
    BY <1>4 DEF StreamCompletes
  <2>2. /\ Answered(text) \in Seq(Msg)
        /\ Settled(log, entryIds, messages, calls) => Settled(log, entryIds, Answered(text), calls)
    BY AnsweredFacts
  <2> QED BY <2>1, <2>2, QuietFacts, EndTurnKeeps
<1> QED BY <1>1, <1>2, <1>3, <1>4, OverflowsKeeps, StreamContinuesKeeps, StreamCallsToolsKeeps
        DEF StreamStep

\* Results of the first k pending calls.
LEMMA ResultsKeep ==
  ASSUME IInv, pc = "tools", NEW k \in 0 .. Len(turn.pending)
  PROVE  LET w == messages \o [i \in 1 .. k |-> Message("tool", turn.pending[i])]
         IN  /\ w \in Seq(Msg) /\ Len(w) = Len(messages) + k
             /\ \A i \in 1 .. Len(messages) : w[i] = messages[i]
             /\ ~diverged =>
                  /\ Regular(log) /\ Agree(log, entryIds, w) /\ Sound(w) /\ UpTo(w, calls)
                  /\ {w[i].key : i \in Unanswered(w)}
                       = {turn.pending[i] : i \in k + 1 .. Len(turn.pending)}
                  /\ \A i, j \in 1 .. Len(turn.pending) : turn.pending[i] = turn.pending[j] => i = j
<1> DEFINE q == turn.pending
           ts == [i \in 1 .. k |-> Message("tool", q[i])]
           w == messages \o ts
           M == Len(messages)
           P == Len(turn.pending)
<1>1. /\ M \in Nat /\ messages \in Seq(Msg) /\ calls \in Nat /\ entryIds \in Seq(Nat)
      /\ Len(entryIds) \in Nat /\ q \in Seq(Nat)
  BY LiveFacts DEF BoundedIds
<1>2. P \in Nat /\ k \in Nat /\ k <= P /\ \A i \in 1 .. P : q[i] \in Nat
  BY <1>1, NatSeqFacts
<1>3. ts \in Seq(Msg) /\ Len(ts) = k /\ \A i \in 1 .. k : ts[i].role = "tool" /\ ts[i].key = q[i]
  <2>1. \A i \in 1 .. k : q[i] \in Nat
    BY <1>2
  <2>2. \A i \in 1 .. k : Message("tool", q[i]) \in Msg
    BY <2>1 DEF Message, Msg, MessageRoles
  <2>3. \A i \in 1 .. k : Message("tool", q[i]).role = "tool" /\ Message("tool", q[i]).key = q[i]
    BY DEF Message
  <2>4. ts \in Seq(Msg)
    BY ONLY <1>2, <2>2, IsASeq
  <2>5. Len(ts) = k /\ \A i \in 1 .. k : ts[i] = Message("tool", q[i])
    BY <1>2
  <2> HIDE DEF ts, q
  <2> QED BY <2>3, <2>4, <2>5
<1> HIDE DEF ts
<1>4. /\ w \in Seq(Msg) /\ Len(w) = M + k
      /\ \A i \in 1 .. M + k : w[i] = IF i <= M THEN messages[i] ELSE ts[i - M]
  <2>1. /\ w \in Seq(Msg) /\ Len(w) = M + Len(ts)
        /\ \A i \in 1 .. M + Len(ts) : w[i] = IF i <= M THEN messages[i] ELSE ts[i - M]
    BY ONLY <1>1, <1>3, ConcatProperties
  <2> HIDE DEF w
  <2> QED BY <1>3, <2>1
<1> HIDE DEF w
<1>5. \A i \in 1 .. M : w[i] = messages[i]
  BY <1>1, <1>2, <1>4
<1>6. \A i \in M + 1 .. Len(w) : w[i].role = "tool" /\ w[i].key = q[i - M] /\ i - M \in 1 .. k
  <2> TAKE i \in M + 1 .. Len(w)
  <2>1. i \in 1 .. M + k /\ ~(i <= M) /\ i - M \in 1 .. k
    BY <1>1, <1>2, <1>4
  <2> QED BY <1>3, <1>4, <2>1
<1>7. ASSUME ~diverged
      PROVE  /\ Regular(log) /\ Agree(log, entryIds, w) /\ Sound(w) /\ UpTo(w, calls)
             /\ {w[i].key : i \in Unanswered(w)} = {q[i] : i \in k + 1 .. P}
             /\ \A i, j \in 1 .. P : q[i] = q[j] => i = j
  <2>1. LiveContext = messages /\ Context = messages
    BY DEF LiveContext, Context
  <2>2. /\ Regular(log) /\ Agree(log, entryIds, messages) /\ Sound(messages) /\ UpTo(messages, calls)
        /\ {messages[i].key : i \in Unanswered(messages)} = {q[i] : i \in 1 .. P}
        /\ \A i, j \in 1 .. P : q[i] = q[j] => i = j
    BY <1>7, <2>1 DEF IInv, Faithful, Rounds
  <2> HIDE DEF q, P
  <2>3. \A i \in 1 .. P : \E h \in Unanswered(messages) : q[i] = messages[h].key
    <3> TAKE i \in 1 .. P
    <3>1. q[i] \in {q[j] : j \in 1 .. P}
      OBVIOUS
    <3>2. q[i] \in {messages[h].key : h \in Unanswered(messages)}
      BY <2>2, <3>1
    <3> QED BY <3>2
  <2>4. \A h \in Unanswered(messages) : \E i \in 1 .. P : q[i] = messages[h].key
    BY <2>2
  <2>5. Len(messages) <= Len(w)
    BY <1>1, <1>2, <1>4
  <2>6. \A i \in M + 1 .. Len(w) :
           w[i].role = "tool" /\ \E h \in Unanswered(messages) : w[i].key = messages[h].key
    <3> TAKE i \in M + 1 .. Len(w)
    <3>1. w[i].role = "tool" /\ w[i].key = q[i - M] /\ i - M \in 1 .. P
      BY <1>2, <1>6
    <3> QED BY <2>3, <3>1
  <2>7. \A i, j \in M + 1 .. Len(w) : w[i].key = w[j].key => i = j
    <3> SUFFICES ASSUME NEW i \in M + 1 .. Len(w), NEW j \in M + 1 .. Len(w), w[i].key = w[j].key
                 PROVE  i = j
      OBVIOUS
    <3>1. q[i - M] = q[j - M] /\ i - M \in 1 .. P /\ j - M \in 1 .. P
      BY <1>2, <1>6
    <3>2. i - M = j - M
      BY <2>2, <3>1
    <3> QED BY <1>1, <1>2, <1>4, <3>2
  <2>8. /\ Sound(w)
        /\ \A i : i \in Unanswered(w) <=>
              i \in Unanswered(messages) /\ \A j \in M + 1 .. Len(w) : w[j].key # messages[i].key
    BY <1>1, <1>4, <1>5, <2>2, <2>5, <2>6, <2>7, SoundTools
  <2>9. UpTo(w, calls)
    <3> SUFFICES ASSUME NEW i \in 1 .. Len(w), w[i].role \in {"call", "tool"}
                 PROVE  w[i].key <= calls
      BY DEF UpTo
    <3>1. i \in 1 .. M \/ i \in M + 1 .. Len(w)
      BY <1>1, <1>2, <1>4
    <3>2. CASE i \in 1 .. M
      BY <1>5, <2>2, <3>2 DEF UpTo
    <3>3. CASE i \in M + 1 .. Len(w)
      <4>1. PICK h \in Unanswered(messages) : w[i].key = messages[h].key
        BY <2>6, <3>3
      <4>2. h \in 1 .. Len(messages) /\ messages[h].role = "call"
        BY <1>1, UnansweredFacts
      <4> QED BY <2>2, <4>1, <4>2 DEF UpTo
    <3> QED BY <3>1, <3>2, <3>3
  <2>10. Agree(log, entryIds, w)
    <3>1. Len(entryIds) <= M
      BY <2>2 DEF Agree
    <3>2. Len(entryIds) <= Len(w) /\ \A i \in 1 .. Len(entryIds) : w[i] = messages[i]
      BY <1>1, <1>2, <1>4, <1>5, <3>1
    <3> QED BY <2>2, <3>2, AgreeSame
  <2>11. ASSUME NEW i \in Unanswered(w) PROVE w[i].key \in {q[j] : j \in k + 1 .. P}
    <3>1. i \in Unanswered(messages) /\ \A j \in M + 1 .. Len(w) : w[j].key # messages[i].key
      BY <2>8
    <3>2. w[i].key = messages[i].key
      BY <1>1, <1>5, <3>1, UnansweredFacts
    <3>3. PICK j \in 1 .. P : q[j] = messages[i].key
      BY <2>4, <3>1
    <3>4. ~(j <= k)
      <4> SUFFICES ASSUME j <= k PROVE FALSE
        OBVIOUS
      <4>1. M + j \in M + 1 .. Len(w) /\ (M + j) - M = j
        BY <1>1, <1>2, <1>4
      <4> QED BY <1>6, <3>1, <3>3, <4>1
    <3>5. j \in k + 1 .. P
      BY <1>2, <3>4
    <3> QED BY <3>2, <3>3, <3>5
  <2>12. ASSUME NEW j \in k + 1 .. P PROVE q[j] \in {w[i].key : i \in Unanswered(w)}
    <3>1. j \in 1 .. P /\ ~(j <= k)
      BY <1>2
    <3>2. PICK h \in Unanswered(messages) : q[j] = messages[h].key
      BY <2>3, <3>1
    <3>3. ASSUME NEW i \in M + 1 .. Len(w), w[i].key = messages[h].key PROVE FALSE
      <4>1. q[i - M] = q[j] /\ i - M \in 1 .. k
        BY <1>6, <3>2, <3>3
      <4>2. i - M = j
        BY <1>2, <2>2, <3>1, <4>1
      <4> QED BY <3>1, <4>1, <4>2
    <3>4. h \in Unanswered(w)
      BY <2>8, <3>3
    <3>5. w[h].key = messages[h].key
      BY <1>1, <1>5, UnansweredFacts
    <3> QED BY <3>2, <3>4, <3>5
  <2> QED BY <2>2, <2>8, <2>9, <2>10, <2>11, <2>12
<1> QED BY <1>4, <1>5, <1>7 DEF w, ts

--------------------------------------------------------------------------------
(* The turn: tools.                                                          *)

LEMMA RunToolsKeeps == ASSUME IInv, NEW k \in 1 .. MaxCalls, RunTools(k) PROVE IInv'
<1> DEFINE q == turn.pending
           P == Len(turn.pending)
           w == messages \o [i \in 1 .. k |-> Message("tool", turn.pending[i])]
           r == SubSeq(q, k + 1, P)
<1>1. /\ pc = "tools" /\ k \in 1 .. P /\ messages' = w
      /\ turn' = [turn EXCEPT !.pending = r]
      /\ UNCHANGED <<entryIds, log, pc, governor, steering, followUp, cancelled, inputs, calls, diverged>>
  BY DEF RunTools
<1>2. q \in Seq(Nat) /\ turn \in Turn /\ turn.unanswered = 0
  BY <1>1, LiveFacts DEF IInv, Types, Stages
<1>3. P \in Nat /\ k \in Nat /\ k <= P /\ k \in 0 .. P /\ \A i \in 1 .. P : q[i] \in Nat
  BY <1>1, <1>2, NatSeqFacts
<1>4. /\ w \in Seq(Msg) /\ Len(w) = Len(messages) + k
      /\ ~diverged =>
           /\ Regular(log) /\ Agree(log, entryIds, w) /\ Sound(w) /\ UpTo(w, calls)
           /\ {w[i].key : i \in Unanswered(w)} = {q[i] : i \in k + 1 .. P}
           /\ \A i, j \in 1 .. P : q[i] = q[j] => i = j
  BY <1>1, <1>3, ResultsKeep
<1>5. r \in Seq(Nat) /\ Len(r) = P - k /\ \A i \in 1 .. P - k : r[i] = q[k + i]
  <2>1. \A i \in k + 1 .. P : q[i] \in Nat
    BY <1>3
  <2>2. k + 1 \in Int /\ P \in Int
    BY <1>3
  <2> DEFINE T == Nat
  <2> HIDE DEF q, P, T
  <2>3. /\ r \in Seq(T) /\ Len(r) = IF k + 1 <= P THEN P - (k + 1) + 1 ELSE 0
        /\ \A i \in 1 .. P - (k + 1) + 1 : r[i] = q[(k + 1) + i - 1]
    <3>1. \A i \in k + 1 .. P : q[i] \in T
      BY <2>1 DEF T
    <3> QED BY ONLY <2>2, <3>1, SubSeqProperties
  <2>4. Len(r) = P - k
    BY <1>3, <2>3
  <2>5. \A i \in 1 .. P - k : i \in 1 .. P - (k + 1) + 1 /\ (k + 1) + i - 1 = k + i
    BY <1>3
  <2>6. \A i \in 1 .. P - k : r[i] = q[k + i]
    <3> HIDE DEF r
    <3> QED BY <2>3, <2>5
  <2> QED BY <2>3, <2>4, <2>6 DEF T
<1> HIDE DEF w, r
<1>6. turn' \in Turn /\ turn'.pending = r /\ turn'.unanswered = 0 /\ turn'.injecting = turn.injecting
  BY <1>1, <1>2, <1>5 DEF Turn
<1>7. Types'
  <2>1. turn'.injecting \in 0 .. inputs' /\ BoundedIds'
    BY <1>1, <1>6, LiveFacts DEF IInv, Types, BoundedIds
  <2> QED BY <1>1, <1>4, <1>6, <2>1 DEF IInv, Types, BoundedIds
<1>8. Stages'
  <2>1. Len(messages') \in Nat
    BY <1>1, <1>4, MsgFacts
  <2> QED BY <1>1, <1>6, <2>1 DEF Stages, Governing
<1>9. ASSUME ~diverged' PROVE Faithful'
  <2>1. /\ Regular(log) /\ Agree(log, entryIds, w) /\ Sound(w) /\ UpTo(w, calls)
        /\ {w[i].key : i \in Unanswered(w)} = {q[i] : i \in k + 1 .. P}
        /\ \A i, j \in 1 .. P : q[i] = q[j] => i = j
    BY <1>1, <1>4, <1>9
  <2>2. LiveContext' = w /\ Context' = w
    BY <1>1 DEF LiveContext, Context
  <2>3. {q[i] : i \in k + 1 .. P} = {r[i] : i \in 1 .. Len(r)}
    <3> HIDE DEF q, P
    <3>1. ASSUME NEW i \in k + 1 .. P PROVE q[i] \in {r[j] : j \in 1 .. Len(r)}
      <4>1. i - k \in 1 .. P - k /\ k + (i - k) = i
        BY <1>3
      <4>2. r[i - k] = q[i] /\ i - k \in 1 .. Len(r)
        BY <1>5, <4>1
      <4> QED BY <4>2
    <3>2. ASSUME NEW j \in 1 .. Len(r) PROVE r[j] \in {q[i] : i \in k + 1 .. P}
      <4>1. k + j \in k + 1 .. P /\ j \in 1 .. P - k
        BY <1>3, <1>5
      <4>2. r[j] = q[k + j]
        BY <1>5, <4>1
      <4> QED BY <4>1, <4>2
    <3> QED BY <3>1, <3>2
  <2>4. \A i, j \in 1 .. Len(r) : r[i] = r[j] => i = j
    <3> SUFFICES ASSUME NEW i \in 1 .. Len(r), NEW j \in 1 .. Len(r), r[i] = r[j] PROVE i = j
      OBVIOUS
    <3>1. k + i \in 1 .. P /\ k + j \in 1 .. P /\ i \in 1 .. P - k /\ j \in 1 .. P - k
      BY <1>3, <1>5
    <3>2. q[k + i] = q[k + j]
      BY <1>5, <3>1
    <3>3. k + i = k + j
      BY <2>1, <3>1, <3>2
    <3> QED BY <1>3, <3>1, <3>3
  <2>5. Rounds'
    <3>1. {messages'[i].key : i \in Unanswered(messages')}
             = {turn'.pending[i] : i \in 1 .. Len(turn'.pending)}
      <4>1. {w[i].key : i \in Unanswered(w)} = {r[i] : i \in 1 .. Len(r)}
        BY <2>1, <2>3
      <4>2. messages' = w /\ turn'.pending = r
        BY <1>1, <1>6
      <4> QED BY ONLY <4>1, <4>2
    <3>2. \A i, j \in 1 .. Len(turn'.pending) : turn'.pending[i] = turn'.pending[j] => i = j
      BY <1>6, <2>4
    <3>3. Sound(Context') /\ UpTo(Context', calls') /\ pc' = "tools"
      BY <1>1, <2>1, <2>2
    <3> QED BY <3>1, <3>2, <3>3 DEF Rounds
  <2>6. Input'
    BY <1>6 DEF Input
  <2> QED BY <1>1, <2>1, <2>2, <2>5, <2>6 DEF Faithful
<1> QED BY <1>7, <1>8, <1>9 DEF IInv

LEMMA ToolStepKeeps == ASSUME IInv, ToolStep PROVE IInv'
<1>1. CASE CancelTools
  <2> DEFINE P == Len(turn.pending)
             w == messages \o [i \in 1 .. P |-> Message("tool", turn.pending[i])]
  <2>1. pc = "tools" /\ EndTurn(CancelledResults) /\ diverged' = diverged
    BY <1>1 DEF CancelTools
  <2>2. P \in Nat /\ P \in 0 .. P /\ DOMAIN turn.pending = 1 .. P
    BY LiveFacts, NatSeqFacts
  <2>3. CancelledResults = w
    BY <2>2 DEF CancelledResults
  <2>4. /\ w \in Seq(Msg)
        /\ ~diverged =>
             /\ Regular(log) /\ Agree(log, entryIds, w) /\ Sound(w) /\ UpTo(w, calls)
             /\ {w[i].key : i \in Unanswered(w)} = {turn.pending[i] : i \in P + 1 .. P}
    BY <2>1, <2>2, ResultsKeep
  <2> HIDE DEF w
  <2>5. P + 1 .. P = {}
    BY <2>2
  <2>6. ~diverged => Settled(log, entryIds, w, calls)
    BY <2>4, <2>5 DEF Settled
  <2> QED BY <2>1, <2>3, <2>4, <2>6, EndTurnKeeps
<1>2. CASE CommitTools
  <2>1. /\ pc = "tools" /\ turn.pending = <<>> /\ PersistMessages(messages) /\ pc' = "boundary"
        /\ UNCHANGED <<messages, turn, governor, steering, followUp, cancelled, inputs, calls, diverged>>
    BY <1>2 DEF CommitTools
  <2>2. messages \in Seq(Msg) /\ BoundedIds /\ turn.unanswered = 0
    BY <2>1, LiveFacts DEF IInv, Stages
  <2>3. BoundedIds'
    BY <2>1, <2>2, PersistKeeps
  <2>4. Types'
    BY <2>1, <2>3 DEF IInv, Types, BoundedIds, Pcs
  <2>5. Stages'
    BY <2>1, <2>2 DEF IInv, Stages, Governing
  <2>6. ASSUME ~diverged' PROVE Faithful'
    <3>1. LiveContext = messages /\ Context = messages
      BY <2>1 DEF LiveContext, Context
    <3>2. Settled(log, entryIds, messages, calls)
      <4>1. {messages[i].key : i \in Unanswered(messages)}
              = {turn.pending[i] : i \in 1 .. Len(turn.pending)}
        BY <2>1, <2>6 DEF IInv, Faithful, Rounds
      <4>2. 1 .. Len(turn.pending) = {}
        BY <2>1, EmptyFacts
      <4>3. Unanswered(messages) = {}
        BY <4>1, <4>2
      <4> QED BY <2>1, <2>6, <3>1, <4>3 DEF IInv, Faithful, Rounds, Settled
    <3>3. Regular(log') /\ Agree(log', entryIds', messages)
      BY <2>1, <2>2, <3>2, PersistKeeps DEF Settled
    <3>4. LiveContext' = messages /\ Context' = messages
      BY <2>1 DEF LiveContext, Context
    <3>5. Input'
      BY <2>1, <2>2 DEF Input
    <3>6. Rounds'
      BY <2>1, <3>2, <3>4 DEF Rounds, Settled
    <3> QED BY <2>1, <3>3, <3>4, <3>5, <3>6 DEF Faithful
  <2> QED BY <2>4, <2>5, <2>6 DEF IInv
<1> QED BY <1>1, <1>2, RunToolsKeeps DEF ToolStep

--------------------------------------------------------------------------------
(* The governor and the overflow recovery.                                   *)

LEMMA BoundaryFacts ==
  ASSUME IInv, pc = "boundary"
  PROVE  /\ messages \in Seq(Msg) /\ LiveContext = messages /\ turn.unanswered = 0 /\ turn.pending = <<>>
         /\ ~diverged => Settled(log, entryIds, messages, calls)
BY LiveFacts, QuietFacts DEF IInv, Stages

LEMMA GoverningFacts ==
  ASSUME IInv, Governing
  PROVE  /\ messages \in Seq(Msg) /\ governor.current \in Seq(Msg) /\ LiveContext = governor.current
         /\ governor \in Governor /\ turn \in Turn /\ turn.pending = <<>>
         /\ (pc # "relieve" \/ ~governor.overflow) => turn.unanswered = 0
         /\ ~diverged => Settled(log, entryIds, governor.current, calls)
         /\ (~diverged /\ ~governor.changed) => Settled(log, entryIds, messages, calls)
<1>1. pc \notin {"tools", "down"}
  BY DEF Governing
<1>2. governor \in Governor /\ turn \in Turn /\ turn.pending = <<>>
  BY <1>1 DEF IInv, Types, Stages
<1>3. (pc # "relieve" \/ ~governor.overflow) => turn.unanswered = 0
  BY DEF IInv, Stages, Governing
<1> QED BY <1>1, <1>2, <1>3, LiveFacts

\* The governor starts on the context of the turn.
LEMMA GovernStartKeeps ==
  ASSUME IInv, pc = "boundary",
         governor' \in Governor, governor'.current = messages, governor'.overflow = FALSE,
         governor'.changed = FALSE,
         pc' \in {"wait", "relieve"},
         UNCHANGED <<messages, entryIds, log, turn, steering, followUp, cancelled, inputs, calls, diverged>>
  PROVE  IInv'
<1>1. Types'
  BY DEF IInv, Types, Pcs
<1>2. Stages'
  BY BoundaryFacts DEF IInv, Stages, Governing
<1>3. LiveContext' = LiveContext
  BY BoundaryFacts DEF LiveContext
<1> QED BY <1>1, <1>2, <1>3, MoveKeeps

\* The governor moves on with its own copy.
LEMMA GovernMoveKeeps ==
  ASSUME IInv, pc \in {"wait", "resolved"}, pc' \in {"wait", "resolved", "relieve"},
         governor' \in Governor, governor'.current = governor.current,
         governor'.changed = governor.changed, governor'.overflow = governor.overflow,
         UNCHANGED <<messages, entryIds, log, turn, steering, followUp, cancelled, inputs, calls, diverged>>
  PROVE  IInv'
<1>0. Governing
  BY DEF Governing
<1>1. Types'
  BY DEF IInv, Types, Pcs
<1>2. Stages'
  BY <1>0, GoverningFacts DEF IInv, Stages, Governing
<1>3. LiveContext' = LiveContext
  BY DEF LiveContext
<1> QED BY <1>1, <1>2, <1>3, MoveKeeps

\* The governor applies a summary to its copy.
LEMMA CompactKeeps ==
  ASSUME IInv, NEW p \in HardPlans(governor.current) \cup JobPlans(governor.current),
         ApplySummary(governor.current, p),
         governor' \in Governor, governor'.current = Replacement(governor.current, p),
         governor'.changed = TRUE, governor'.overflow = governor.overflow,
         (pc = "wait" /\ pc' = "resolved") \/ (pc = "relieve" /\ pc' = "relieve"),
         UNCHANGED <<messages, turn, steering, followUp, cancelled, inputs, calls, diverged>>
  PROVE  IInv'
<1> DEFINE m == governor.current
           r == Replacement(governor.current, p)
<1>0. Governing /\ pc \in {"wait", "relieve"} /\ pc' \in {"resolved", "relieve"}
  BY DEF Governing
<1>1. BoundedIds /\ m \in Seq(Msg) /\ LiveContext = m /\ calls \in Nat
  BY <1>0, LiveFacts
<1>2. /\ p \in (1 .. Persisted(m)) \X (1 .. Persisted(m)) /\ p[1] <= p[2]
      /\ \A i \in p[1] .. p[2] : entryIds[i] # 0
      /\ ValidRange(m, p[1], p[2])
  BY PlanFacts
<1>3. /\ BoundedIds' /\ r \in Seq(Msg)
      /\ Settled(log, entryIds, m, calls) =>
           Settled(log', entryIds', r, calls) /\ Len(entryIds') <= Len(entryIds)
      /\ (Settled(log, entryIds, m, calls) /\ Len(m) > Len(entryIds)
            /\ m[Len(m)].role = "user") =>
           Len(r) > Len(entryIds') /\ Len(r) >= 1 /\ r[Len(r)].role = "user"
  BY <1>1, <1>2, ApplySummaryKeeps
<1> HIDE DEF m, r
<1>4. Types'
  BY <1>0, <1>3 DEF IInv, Types, BoundedIds, Pcs
<1>5. Stages'
  BY <1>0, GoverningFacts DEF IInv, Stages, Governing
<1>6. ASSUME ~diverged' PROVE Faithful'
  <2>1. ~diverged /\ Settled(log, entryIds, m, calls)
    BY <1>0, <1>6, GoverningFacts DEF m
  <2>2. Settled(log', entryIds', r, calls) /\ Len(entryIds') <= Len(entryIds)
    BY <1>3, <2>1
  <2>3. LiveContext' = r /\ Context' = r
    BY <1>0 DEF LiveContext, Context, r
  <2>4. Input'
    <3> SUFFICES ASSUME turn.unanswered # 0
                 PROVE  /\ turn.unanswered > Len(entryIds')
                        /\ \A i \in turn.unanswered .. Len(messages) :
                              messages[i].role \in {"user", "developer"}
                        /\ Len(r) > Len(entryIds') /\ r[Len(r)].role = "user"
      BY <2>3 DEF Input
    <3>1. /\ turn.unanswered > Len(entryIds)
          /\ \A i \in turn.unanswered .. Len(messages) : messages[i].role \in {"user", "developer"}
          /\ Len(m) > Len(entryIds) /\ m[Len(m)].role = "user"
      BY <1>1, <2>1 DEF IInv, Faithful, Input
    <3>2. turn.unanswered \in Nat /\ Len(entryIds) \in Nat /\ Len(entryIds') \in Nat
      <4>1. entryIds' \in Seq(Nat)
        BY <1>3 DEF BoundedIds
      <4> QED BY <4>1, LiveFacts, LenProperties
    <3>3. turn.unanswered > Len(entryIds')
      BY <2>2, <3>1, <3>2
    <3> QED BY <1>3, <2>1, <3>1, <3>3
  <2> QED BY <1>0, <2>2, <2>3, <2>4 DEF Faithful, Rounds, Settled
<1> QED BY <1>4, <1>5, <1>6 DEF IInv

LEMMA ResendKeeps == ASSUME IInv, Resend PROVE IInv'
<1> DEFINE m == governor.current
           u == IF turn.unanswered = 0 THEN 0 ELSE LastUser(m)
<1>1. /\ pc = "relieve" /\ messages' = m /\ governor' = NoGovernor /\ pc' = "top"
      /\ turn' = [turn EXCEPT !.attempted = TRUE, !.unanswered = u]
      /\ UNCHANGED <<entryIds, log, steering, followUp, cancelled, inputs, calls, diverged>>
  BY DEF Resend
<1>2. Governing
  BY <1>1 DEF Governing
<1>3. /\ m \in Seq(Msg) /\ LiveContext = m /\ turn \in Turn /\ turn.pending = <<>>
  BY <1>2, GoverningFacts
<1> HIDE DEF m
<1>4. Len(m) \in Nat /\ LastUser(m) \in 0 .. Len(m)
  BY <1>3, MsgFacts, LastUserFacts
<1>5. u \in Nat /\ u <= Len(m)
  BY <1>4
<1> HIDE DEF u
<1>6. turn' \in Turn /\ turn'.unanswered = u /\ turn'.pending = <<>> /\ turn'.injecting = turn.injecting
  BY <1>1, <1>3, <1>5 DEF Turn
<1>7. Types'
  <2>1. governor' \in Governor /\ messages' \in Seq(Msg) /\ turn'.injecting \in 0 .. inputs'
    BY <1>1, <1>3, <1>6, EmptyFacts DEF IInv, Types
  <2> QED BY <1>1, <1>6, <2>1 DEF IInv, Types, Pcs
<1>8. Stages'
  BY <1>1, <1>5, <1>6 DEF Stages, Governing
<1>9. ASSUME ~diverged' PROVE Faithful'
  <2>1. ~diverged /\ Settled(log, entryIds, m, calls)
    BY <1>1, <1>2, <1>9, GoverningFacts DEF m
  <2>2. LiveContext' = m /\ Context' = m
    BY <1>1 DEF LiveContext, Context
  <2>3. Input'
    <3> SUFFICES ASSUME u # 0
                 PROVE  /\ u > Len(entryIds)
                        /\ \A i \in u .. Len(m) : m[i].role \in {"user", "developer"}
                        /\ Len(m) > Len(entryIds) /\ m[Len(m)].role = "user"
      BY <1>1, <1>6, <2>2 DEF Input
    <3>1. turn.unanswered # 0
      BY DEF u
    <3>2. Len(m) > Len(entryIds) /\ m[Len(m)].role = "user"
      BY <1>3, <2>1, <3>1 DEF IInv, Faithful, Input
    <3>3. Len(entryIds) \in Nat
      BY LiveFacts
    <3>4. u = Len(m)
      <4>1. Len(m) >= 1
        BY <1>4, <3>2, <3>3
      <4> QED BY <1>3, <3>1, <3>2, <4>1, LastUserFacts DEF u
    <3>5. \A i \in u .. Len(m) : i = Len(m)
      BY <1>4, <3>4
    <3> QED BY <3>2, <3>4, <3>5
  <2> QED BY <1>1, <2>1, <2>2, <2>3 DEF Faithful, Rounds, Settled
<1> QED BY <1>7, <1>8, <1>9 DEF IInv

LEMMA GovernStepKeeps == ASSUME IInv, GovernStep PROVE IInv'
<1>1. CASE BoundaryCancelled
  <2>1. pc = "boundary" /\ EndTurn(messages) /\ diverged' = diverged
    BY <1>1 DEF BoundaryCancelled
  <2> QED BY <2>1, BoundaryFacts, EndTurnKeeps
<1>2. CASE GovernProceeds \/ GovernStartsJob
  <2>1. /\ pc = "boundary" /\ Proceed(messages) /\ log' = log /\ entryIds' = entryIds
        /\ diverged' = (diverged \/ ExtendsPersisted(messages, turn.injecting))
    BY <1>2 DEF GovernProceeds, GovernStartsJob, Diverges
  <2> QED BY <2>1, BoundaryFacts, ProceedKeeps
<1>3. CASE GovernWaits
  <2> DEFINE sec == (job = NoJob)
  <2>1. /\ pc = "boundary" /\ pc' = "wait" /\ sec \in BOOLEAN
        /\ governor' = [NoGovernor EXCEPT !.current = messages, !.second = sec]
        /\ UNCHANGED <<messages, entryIds, log, turn, steering, followUp, cancelled, inputs, calls, diverged>>
    BY <1>3 DEF GovernWaits
  <2> HIDE DEF sec
  <2>2. /\ governor' \in Governor /\ governor'.current = messages /\ governor'.overflow = FALSE
        /\ governor'.changed = FALSE
    BY <2>1, BoundaryFacts, EmptyFacts DEF Governor
  <2> QED BY <2>1, <2>2, GovernStartKeeps
<1>4. CASE GovernRelieves
  <2>1. /\ pc = "boundary" /\ pc' = "relieve"
        /\ governor' = [NoGovernor EXCEPT !.current = messages]
        /\ UNCHANGED <<messages, entryIds, log, turn, steering, followUp, cancelled, inputs, calls, diverged>>
    BY <1>4 DEF GovernRelieves
  <2>2. /\ governor' \in Governor /\ governor'.current = messages /\ governor'.overflow = FALSE
        /\ governor'.changed = FALSE
    BY <2>1, BoundaryFacts, EmptyFacts DEF Governor
  <2> QED BY <2>1, <2>2, GovernStartKeeps
<1>5. CASE JobApplies
  <2>1. /\ pc = "wait" /\ pc' = "resolved"
        /\ UNCHANGED <<messages, turn, steering, followUp, cancelled, inputs, calls, diverged>>
    BY <1>5 DEF JobApplies
  <2>2. PICK p \in JobPlans(governor.current) :
          /\ ApplySummary(governor.current, p)
          /\ governor' = [governor EXCEPT !.current = Replacement(@, p), !.changed = TRUE]
    BY <1>5 DEF JobApplies
  <2>3. Governing /\ governor \in Governor
    BY <2>1, GoverningFacts DEF Governing
  <2>4. Replacement(governor.current, p) \in Seq(Msg)
    BY <2>2, <2>3, PlanFacts, LiveFacts, ApplySummaryKeeps
  <2>5. /\ governor' \in Governor /\ governor'.current = Replacement(governor.current, p)
        /\ governor'.changed = TRUE /\ governor'.overflow = governor.overflow
    BY <2>2, <2>3, <2>4 DEF Governor
  <2> QED BY <2>1, <2>2, <2>5, CompactKeeps
<1>6. CASE JobDiscarded
  <2>1. /\ pc = "wait" /\ pc' = "resolved" /\ governor' = governor
        /\ UNCHANGED <<messages, entryIds, log, turn, steering, followUp, cancelled, inputs, calls, diverged>>
    BY <1>6 DEF JobDiscarded
  <2>2. governor' \in Governor
    BY <2>1 DEF IInv, Types
  <2> QED BY <2>1, <2>2, GovernMoveKeeps
<1>7. CASE WaitCancelled
  <2>1. pc = "wait" /\ EndTurn(messages) /\ diverged' = (diverged \/ governor.changed)
    BY <1>7 DEF WaitCancelled
  <2>2. Governing
    BY <2>1 DEF Governing
  <2> QED BY <2>1, <2>2, GoverningFacts, EndTurnKeeps
<1>8. CASE GovernorFails
  <2>1. /\ pc = "wait" \/ (pc = "relieve" /\ ~governor.overflow)
        /\ Proceed(messages) /\ log' = log /\ entryIds' = entryIds
        /\ diverged' = (diverged \/ governor.changed \/ ExtendsPersisted(messages, turn.injecting))
    BY <1>8 DEF GovernorFails, Diverges
  <2>2. Governing /\ (pc # "relieve" \/ ~governor.overflow)
    BY <2>1 DEF Governing
  <2> QED BY <2>1, <2>2, GoverningFacts, ProceedKeeps
<1>9. CASE ResolvedCancelled \/ RelieveEnds
  <2>1. /\ pc = "resolved" \/ (pc = "relieve" /\ ~governor.overflow)
        /\ Proceed(governor.current) /\ log' = log /\ entryIds' = entryIds
        /\ diverged' = (diverged \/ ExtendsPersisted(governor.current, turn.injecting))
    BY <1>9 DEF ResolvedCancelled, RelieveEnds, Diverges
  <2>2. Governing /\ (pc # "relieve" \/ ~governor.overflow)
    BY <2>1 DEF Governing
  <2> QED BY <2>1, <2>2, GoverningFacts, ProceedKeeps
<1>10. CASE ResolvedStartsJob
  <2>1. /\ pc = "resolved" /\ pc' = "wait" /\ governor' = [governor EXCEPT !.second = TRUE]
        /\ UNCHANGED <<messages, entryIds, log, turn, steering, followUp, cancelled, inputs, calls, diverged>>
    BY <1>10 DEF ResolvedStartsJob
  <2>2. /\ governor' \in Governor /\ governor'.current = governor.current
        /\ governor'.changed = governor.changed /\ governor'.overflow = governor.overflow
    BY <2>1 DEF IInv, Types, Governor
  <2> QED BY <2>1, <2>2, GovernMoveKeeps
<1>11. CASE ResolvedRelieves
  <2>1. /\ pc = "resolved" /\ pc' = "relieve" /\ governor' = governor
        /\ UNCHANGED <<messages, entryIds, log, turn, steering, followUp, cancelled, inputs, calls, diverged>>
    BY <1>11 DEF ResolvedRelieves
  <2>2. governor' \in Governor
    BY <2>1 DEF IInv, Types
  <2> QED BY <2>1, <2>2, GovernMoveKeeps
<1>12. CASE Relieve
  <2>1. /\ pc = "relieve" /\ pc' = "relieve" /\ governor.excerpts < 2
        /\ UNCHANGED <<messages, turn, steering, followUp, cancelled, inputs, calls, diverged>>
    BY <1>12 DEF Relieve
  <2>2. PICK p \in HardPlans(governor.current) :
          /\ ApplySummary(governor.current, p)
          /\ governor' = [governor EXCEPT !.current = Replacement(@, p), !.changed = TRUE,
                             !.excerpts = @ + 1]
    BY <1>12 DEF Relieve
  <2>3. Governing /\ governor \in Governor
    BY <2>1, GoverningFacts DEF Governing
  <2>4. Replacement(governor.current, p) \in Seq(Msg)
    BY <2>2, <2>3, PlanFacts, LiveFacts, ApplySummaryKeeps
  <2>5. governor.excerpts + 1 \in 0 .. 2
    BY <2>1, <2>3 DEF Governor
  <2>6. /\ governor' \in Governor /\ governor'.current = Replacement(governor.current, p)
        /\ governor'.changed = TRUE /\ governor'.overflow = governor.overflow
    BY <2>2, <2>3, <2>4, <2>5 DEF Governor
  <2> QED BY <2>1, <2>2, <2>6, CompactKeeps
<1>13. CASE Unrecoverable
  <2>1. pc = "relieve" /\ EndUnanswered /\ diverged' = (diverged \/ governor.changed)
    BY <1>13 DEF Unrecoverable
  <2>2. Governing
    BY <2>1 DEF Governing
  <2> QED BY <2>1, <2>2, GoverningFacts, EndUnansweredKeeps
<1> QED BY <1>1, <1>2, <1>3, <1>4, <1>5, <1>6, <1>7, <1>8, <1>9, <1>10, <1>11, <1>12, <1>13,
           ResendKeeps DEF GovernStep

--------------------------------------------------------------------------------
(* Around the loop: queues, the edge of a turn, crashes, resumes.            *)

\* The keyboard, the queues and the job of the background.
LEMMA MinorStepKeeps ==
  ASSUME IInv,
         QueueSteering \/ QueueFollowUp \/ CancelToken \/ StopActive \/ EdgeStartsJob \/ EdgeDiscards
  PROVE  IInv'
<1>0. inputs \in Nat /\ steering \in 0 .. inputs /\ followUp \in 0 .. inputs
  BY DEF IInv, Types
<1>1. CASE QueueSteering
  <2>1. /\ UNCHANGED <<messages, entryIds, log, pc, turn, governor, calls, diverged, cancelled, followUp>>
        /\ steering' = inputs + 1 /\ inputs' = inputs + 1
    BY <1>1 DEF QueueSteering
  <2>2. /\ inputs' \in Nat /\ inputs <= inputs' /\ steering' \in 0 .. inputs' /\ followUp' \in 0 .. inputs'
    BY <1>0, <2>1
  <2> QED BY <2>1, <2>2, MinorKeeps
<1>2. CASE QueueFollowUp
  <2>1. /\ UNCHANGED <<messages, entryIds, log, pc, turn, governor, calls, diverged, cancelled, steering>>
        /\ followUp' = inputs + 1 /\ inputs' = inputs + 1
    BY <1>2 DEF QueueFollowUp
  <2>2. /\ inputs' \in Nat /\ inputs <= inputs' /\ steering' \in 0 .. inputs' /\ followUp' \in 0 .. inputs'
    BY <1>0, <2>1
  <2> QED BY <2>1, <2>2, MinorKeeps
<1>3. CASE CancelToken \/ StopActive
  <2>1. /\ UNCHANGED <<messages, entryIds, log, pc, turn, governor, calls, diverged, inputs>>
        /\ steering' \in {0, steering} /\ followUp' \in {0, followUp} /\ pc \notin {"idle", "down"}
    BY <1>3 DEF CancelToken, StopActive, Awaiting
  <2>2. /\ inputs' \in Nat /\ inputs <= inputs' /\ steering' \in 0 .. inputs' /\ followUp' \in 0 .. inputs'
    BY <1>0, <2>1
  <2> QED BY <2>1, <2>2, MinorKeeps
<1>4. CASE EdgeStartsJob \/ EdgeDiscards
  <2>1. /\ UNCHANGED <<messages, entryIds, log, pc, turn, governor, calls, diverged, inputs, steering,
                       followUp, cancelled>>
    BY <1>4 DEF EdgeStartsJob, EdgeDiscards
  <2> QED BY <1>0, <2>1, MinorKeeps
<1> QED BY <1>1, <1>2, <1>3, <1>4

LEMMA EdgeCompactsKeeps == ASSUME IInv, EdgeCompacts PROVE IInv'
<1>1. /\ pc = "idle"
      /\ UNCHANGED <<pc, turn, governor, steering, followUp, cancelled, inputs, calls, diverged>>
  BY DEF EdgeCompacts
<1>2. PICK p \in HardPlans(messages) \cup JobPlans(messages) :
        ApplySummary(messages, p) /\ messages' = Replacement(messages, p)
  BY DEF EdgeCompacts
<1> DEFINE r == Replacement(messages, p)
<1>3. BoundedIds /\ messages \in Seq(Msg) /\ calls \in Nat
  BY LiveFacts
<1>4. /\ p \in (1 .. Persisted(messages)) \X (1 .. Persisted(messages)) /\ p[1] <= p[2]
      /\ \A i \in p[1] .. p[2] : entryIds[i] # 0
      /\ ValidRange(messages, p[1], p[2])
  BY PlanFacts
<1>5. /\ BoundedIds' /\ r \in Seq(Msg)
      /\ Settled(log, entryIds, messages, calls) => Settled(log', entryIds', r, calls)
  BY <1>2, <1>3, <1>4, ApplySummaryKeeps
<1> HIDE DEF r
<1>6. turn = NoTurn /\ messages' = r
  BY <1>1, <1>2 DEF IInv, Stages, r
<1>7. Types'
  BY <1>1, <1>5, <1>6 DEF IInv, Types, BoundedIds
<1>8. Stages'
  <2>1. Len(messages') \in Nat
    BY <1>5, <1>6, MsgFacts
  <2>2. turn'.unanswered <= Len(messages')
    BY <1>1, <1>6, <2>1, EmptyFacts
  <2> QED BY <1>1, <2>2 DEF IInv, Stages, Governing
<1>9. ASSUME ~diverged' PROVE Faithful'
  <2>1. Settled(log', entryIds', r, calls)
    BY <1>1, <1>5, <1>9, QuietFacts
  <2>2. LiveContext' = r /\ Context' = r
    BY <1>1, <1>6 DEF LiveContext, Context
  <2>3. Input'
    BY <1>1, <1>6, EmptyFacts DEF Input
  <2> QED BY <1>1, <2>1, <2>2, <2>3 DEF Faithful, Rounds, Settled
<1> QED BY <1>7, <1>8, <1>9 DEF IInv

\* The process ends: its log is the beginning of what it held.
LEMMA GoneKeeps ==
  ASSUME IInv, Gone, entryIds' = <<>>, diverged' = diverged, log' \in Seq(Entry),
         NEW m \in Seq(Msg), NEW ids \in Seq(Nat),
         ~diverged => Regular(log') /\ Agree(log', ids, m) /\ Sound(m) /\ UpTo(m, calls)
  PROVE  IInv'
<1>1. /\ pc' = "down" /\ messages' = <<>> /\ turn' = NoTurn /\ governor' = NoGovernor
      /\ steering' = 0 /\ followUp' = 0 /\ cancelled' = FALSE /\ inputs' = inputs /\ calls' = calls
  BY DEF Gone
<1>2. Types'
  <2>1. inputs \in Nat /\ calls \in Nat
    BY LiveFacts
  <2> QED BY <1>1, <2>1, EmptyFacts DEF Types, Pcs
<1>3. Stages'
  BY <1>1, EmptyFacts DEF Stages, Governing
<1>4. ASSUME ~diverged' PROVE Faithful'
  <2> DEFINE r == RebuiltMessages(log')
  <2>1. Regular(log') /\ Agree(log', ids, m) /\ Sound(m) /\ UpTo(m, calls)
    BY <1>4
  <2>2. r \in Seq(Msg) /\ Len(r) = Len(ids) /\ Len(ids) <= Len(m) /\ \A i \in 1 .. Len(ids) : r[i] = m[i]
    BY <2>1, RebuiltFacts DEF Agree
  <2>3. Context' = r
    BY <1>1 DEF Context
  <2> HIDE DEF r
  <2>4. Sound(r)
    BY <2>1, <2>2, SoundPrefix
  <2>5. UpTo(r, calls)
    <3>1. \A i \in 1 .. Len(r) : i \in 1 .. Len(m) /\ r[i] = m[i]
      BY <2>2, MsgFacts
    <3> QED BY <2>1, <3>1 DEF UpTo
  <2>6. Input'
    BY <1>1, EmptyFacts DEF Input
  <2> QED BY <1>1, <2>1, <2>3, <2>4, <2>5, <2>6 DEF Faithful, Rounds
<1> QED BY <1>2, <1>3, <1>4 DEF IInv

LEMMA CrashKeeps == ASSUME IInv, Crash PROVE IInv'
<1>1. pc # "down" /\ Gone /\ entryIds' = <<>> /\ diverged' = diverged /\ log' = log
  BY DEF Crash
<1>2. LiveContext \in Seq(Msg) /\ entryIds \in Seq(Nat) /\ log' \in Seq(Entry)
  BY <1>1, LiveFacts DEF BoundedIds
<1>3. ~diverged => Regular(log) /\ Agree(log, entryIds, LiveContext) /\ Sound(LiveContext)
                   /\ UpTo(LiveContext, calls)
  BY <1>1 DEF IInv, Faithful, Rounds, Context
<1> DEFINE m == LiveContext
<1>4. m \in Seq(Msg) /\ (~diverged => Regular(log') /\ Agree(log', entryIds, m) /\ Sound(m) /\ UpTo(m, calls))
  BY <1>1, <1>2, <1>3
<1> HIDE DEF m
<1> QED BY <1>1, <1>2, <1>4, GoneKeeps

LEMMA ObserverFailsKeeps == ASSUME IInv, ObserverFails PROVE IInv'
<1> DEFINE K == Len(entryIds)
           M == Len(messages)
           uw == SubSeq(messages, K + 1, M)
<1>1. pc \in {"top", "stream", "tools"} /\ Gone /\ entryIds' = <<>> /\ diverged' = diverged
  BY DEF ObserverFails
<1>2. PICK n \in 0 .. Len(uw) : log' = log \o [i \in 1 .. n |-> MessageEntry(uw[i])]
  BY DEF ObserverFails
<1>3. K \in Nat /\ M \in Nat /\ messages \in Seq(Msg) /\ BoundedIds
  BY LiveFacts
<1>4. \A i \in 1 .. M : messages[i] \in Msg
  BY <1>3, MsgFacts
<1>5. /\ Len(uw) = (IF K + 1 <= M THEN M - (K + 1) + 1 ELSE 0)
      /\ \A i \in 1 .. M - (K + 1) + 1 : uw[i] = messages[(K + 1) + i - 1]
  <2>1. \A i \in K + 1 .. M : messages[i] \in Msg
    BY <1>3, <1>4
  <2>2. K + 1 \in Int /\ M \in Int
    BY <1>3
  <2> HIDE DEF K, M
  <2> QED BY ONLY <2>1, <2>2, SubSeqProperties
<1> HIDE DEF uw
<1>6. n \in Nat /\ (n = 0 \/ K + n <= M)
  BY <1>2, <1>3, <1>5
<1>7. \A i \in 1 .. n : K + i \in 1 .. M /\ uw[i] = messages[K + i]
  <2> TAKE i \in 1 .. n
  <2>1. i \in 1 .. M - (K + 1) + 1 /\ (K + 1) + i - 1 = K + i /\ K + i \in 1 .. M
    BY <1>3, <1>6
  <2> QED BY <1>5, <2>1
<1> DEFINE es == [i \in 1 .. n |-> MessageEntry(messages[K + i])]
<1>8. log' = log \o es
  <2>1. [i \in 1 .. n |-> MessageEntry(uw[i])] = es
    BY <1>7
  <2> QED BY <1>2, <2>1
<1>9. log' \in Seq(Entry)
  <2>1. \A i \in 1 .. n : messages[K + i] \in Msg
    BY <1>4, <1>7
  <2>2. \A i \in 1 .. n : MessageEntry(messages[K + i]) \in Entry
    BY <2>1 DEF MessageEntry, Entry, Msg
  <2>3. es \in Seq(Entry)
    BY ONLY <1>6, <2>2, IsASeq
  <2>4. log \in Seq(Entry)
    BY <1>3 DEF BoundedIds
  <2> HIDE DEF es
  <2>5. log \o es \in Seq(Entry)
    BY ONLY <2>3, <2>4, ConcatProperties
  <2> QED BY <1>8, <2>5
<1> DEFINE ids == entryIds \o [i \in 1 .. n |-> Len(log) + i]
<1>10. ids \in Seq(Nat)
  <2>1. Len(log) \in Nat /\ log \in Seq(Entry) /\ entryIds \in Seq(Nat)
    BY <1>3, LogFacts DEF BoundedIds
  <2> DEFINE is == [i \in 1 .. n |-> Len(log) + i]
  <2>2. is \in Seq(Nat)
    BY <1>6, <2>1
  <2> HIDE DEF is
  <2>3. entryIds \o is \in Seq(Nat)
    BY ONLY <2>1, <2>2, ConcatProperties
  <2> QED BY <2>3 DEF is
<1>11. ASSUME ~diverged
       PROVE  Regular(log') /\ Agree(log', ids, messages) /\ Sound(messages) /\ UpTo(messages, calls)
  <2>1. LiveContext = messages /\ Context = messages
    BY <1>1 DEF LiveContext, Context
  <2>2. /\ Regular(log) /\ Agree(log, entryIds, messages) /\ Sound(messages) /\ UpTo(messages, calls)
    BY <1>1, <1>11, <2>1 DEF IInv, Faithful, Rounds
  <2>3. Len(entryIds) + n <= Len(messages)
    BY <1>3, <1>6, <2>2 DEF Agree
  <2>4. Regular(log \o es) /\ Agree(log \o es, ids, messages)
    BY <1>3, <1>6, <2>2, <2>3, AgreePersist DEF BoundedIds
  <2> QED BY <1>8, <2>2, <2>4
<1> HIDE DEF ids
<1> QED BY <1>1, <1>3, <1>9, <1>10, <1>11, GoneKeeps

LEMMA ResumeKeeps == ASSUME IInv, Resume PROVE IInv'
<1> DEFINE r == RebuiltMessages(log)
           w == Repaired(r)
<1>1. /\ pc = "down" /\ pc' = "idle" /\ messages' = w /\ entryIds' = RebuiltIds(log)
      /\ UNCHANGED <<log, turn, governor, steering, followUp, cancelled, inputs, calls, diverged>>
  BY DEF Resume
<1>2. log \in Seq(Entry) /\ Len(log) \in Nat /\ calls \in Nat
  BY LiveFacts, LogFacts DEF BoundedIds
<1>3. /\ r \in Seq(Msg) /\ RebuiltIds(log) \in Seq(Nat) /\ Len(r) = Len(RebuiltIds(log))
      /\ \A i \in 1 .. Len(RebuiltIds(log)) : RebuiltIds(log)[i] \in 0 .. Len(log)
  BY <1>2, RebuiltFacts
<1> HIDE DEF r
<1>4. /\ w \in Seq(Msg) /\ Len(r) <= Len(w) /\ \A i \in 1 .. Len(r) : w[i] = r[i]
      /\ \A i \in Len(r) + 1 .. Len(w) : \E h \in Unanswered(r) : w[i].key = r[h].key
  <2>1. Len(r) \in Nat
    BY <1>3, MsgFacts
  <2>2. /\ Cardinality(Unanswered(r)) \in Nat
        /\ w \in Seq(Msg) /\ Len(w) = Len(r) + Cardinality(Unanswered(r))
        /\ \A i \in 1 .. Len(r) : w[i] = r[i]
        /\ \A i \in Len(r) + 1 .. Len(w) :
              /\ Ascending(Unanswered(r))[i - Len(r)] \in Unanswered(r)
              /\ w[i].key = r[Ascending(Unanswered(r))[i - Len(r)]].key
    BY <1>3, RepairedFacts
  <2> HIDE DEF w
  <2> QED BY <2>1, <2>2, SMTT(30)
<1>5. turn = NoTurn /\ governor = NoGovernor /\ ~cancelled
  BY <1>1 DEF IInv, Stages
<1>6. Types'
  <2>1. BoundedIds'
    BY <1>1, <1>2, <1>3 DEF BoundedIds
  <2> HIDE DEF w
  <2> QED BY <1>1, <1>4, <2>1 DEF IInv, Types, BoundedIds, Pcs
<1>7. Stages'
  <2> HIDE DEF w
  <2>1. Len(messages') \in Nat
    BY <1>1, <1>4, MsgFacts
  <2>2. turn'.unanswered <= Len(messages') /\ turn'.pending = <<>>
    BY <1>1, <1>5, <2>1, EmptyFacts
  <2> QED BY <1>1, <1>5, <2>2 DEF Stages, Governing
<1>8. ASSUME ~diverged' PROVE Faithful'
  <2>1. Regular(log) /\ Sound(r) /\ UpTo(r, calls)
    BY <1>1, <1>8 DEF IInv, Faithful, Rounds, Context, r
  <2>2. Sound(w) /\ Unanswered(w) = {}
    BY <1>3, <2>1, SoundRepaired
  <2> HIDE DEF w
  <2>3. UpTo(w, calls)
    <3> SUFFICES ASSUME NEW i \in 1 .. Len(w), w[i].role \in {"call", "tool"}
                 PROVE  w[i].key <= calls
      BY DEF UpTo
    <3>1. i \in 1 .. Len(r) \/ i \in Len(r) + 1 .. Len(w)
      <4>1. Len(r) \in Nat /\ Len(w) \in Nat
        BY <1>3, <1>4, MsgFacts
      <4> QED BY <4>1
    <3>2. CASE i \in 1 .. Len(r)
      BY <1>4, <2>1, <3>2 DEF UpTo
    <3>3. CASE i \in Len(r) + 1 .. Len(w)
      <4>1. PICK h \in Unanswered(r) : w[i].key = r[h].key
        BY <1>4, <3>3
      <4>2. h \in 1 .. Len(r) /\ r[h].role = "call"
        BY <1>3, UnansweredFacts
      <4> QED BY <2>1, <4>1, <4>2 DEF UpTo
    <3> QED BY <3>1, <3>2, <3>3
  <2>4. LiveContext' = w /\ Context' = w
    BY <1>1 DEF LiveContext, Context
  <2>5. Agree(log', entryIds', w)
    <3>1. Len(r) = Len(entryIds')
      BY <1>1, <1>3
    <3>2. \A i \in 1 .. Len(entryIds') : r[i] = w[i]
      BY <1>4, <3>1
    <3> QED BY <1>1, <1>4, <3>1, <3>2 DEF Agree, r
  <2>6. Input'
    BY <1>1, <1>5, EmptyFacts DEF Input
  <2> QED BY <1>1, <2>1, <2>2, <2>3, <2>4, <2>5, <2>6 DEF Faithful, Rounds
<1> QED BY <1>6, <1>7, <1>8 DEF IInv

\* The invariant is inductive.
LEMMA NextIInv == IInv /\ [Next]_vars => IInv'
<1> SUFFICES ASSUME IInv, [Next]_vars PROVE IInv'
  OBVIOUS
<1>1. CASE Next
  <2>1. ASSUME NEW context \in Contexts, SubmitTurn(context) PROVE IInv'
    BY <2>1, SubmitTurnKeeps
  <2>2. CASE TopStep
    BY <2>2, TopStepKeeps
  <2>3. CASE StreamStep
    BY <2>3, StreamStepKeeps
  <2>4. CASE ToolStep
    BY <2>4, ToolStepKeeps
  <2>5. CASE GovernStep
    BY <2>5, GovernStepKeeps
  <2>6. CASE QueueSteering \/ QueueFollowUp \/ CancelToken \/ StopActive \/ EdgeStartsJob \/ EdgeDiscards
    BY <2>6, MinorStepKeeps
  <2>7. CASE EdgeCompacts
    BY <2>7, EdgeCompactsKeeps
  <2>8. CASE ObserverFails
    BY <2>8, ObserverFailsKeeps
  <2>9. CASE Crash
    BY <2>9, CrashKeeps
  <2>10. CASE Resume
    BY <2>10, ResumeKeeps
  <2> QED BY <1>1, <2>1, <2>2, <2>3, <2>4, <2>5, <2>6, <2>7, <2>8, <2>9, <2>10 DEF Next
<1>2. CASE UNCHANGED vars
  BY <1>2, StutterIInv
<1> QED BY <1>1, <1>2

--------------------------------------------------------------------------------
(* What the end of a turn drops, and the theorems.                           *)

\* The body of OnlyInputDropped: its action, for one step.
DropsOnlyInput ==
  (pc \notin {"idle", "down"} /\ pc' = "idle" /\ ~diverged') =>
     \A i \in DOMAIN messages :
        i <= Len(messages') \/ messages[i].role \in {"user", "developer"}

\* A turn that ends with a transcript that extends the one it had drops nothing.
LEMMA LongerDropsOnlyInput ==
  ASSUME IInv, Len(messages) <= Len(messages'), Len(messages') \in Nat
  PROVE  DropsOnlyInput
<1>1. messages \in Seq(Msg)
  BY LiveFacts
<1>2. DOMAIN messages = 1 .. Len(messages) /\ Len(messages) \in Nat
  BY <1>1, MsgFacts
<1> QED BY <1>2 DEF DropsOnlyInput

LEMMA EndTurnDropsOnlyInput ==
  ASSUME IInv, NEW msgs \in Seq(Msg), EndTurn(msgs), Len(messages) <= Len(msgs)
  PROVE  DropsOnlyInput
<1>1. messages' = msgs /\ Len(msgs) \in Nat
  BY MsgFacts DEF EndTurn
<1> QED BY <1>1, LongerDropsOnlyInput

LEMMA EndUnansweredDropsOnlyInput ==
  ASSUME IInv, EndUnanswered, ~diverged' => ~diverged
  PROVE  DropsOnlyInput
<1> SUFFICES ASSUME ~diverged', NEW i \in DOMAIN messages
             PROVE  i <= Len(messages') \/ messages[i].role \in {"user", "developer"}
  BY DEF DropsOnlyInput
<1> DEFINE u == turn.unanswered
<1>1. /\ messages \in Seq(Msg) /\ Len(messages) \in Nat /\ u \in Nat /\ u <= Len(messages)
      /\ u # 0 => \A j \in u .. Len(messages) : messages[j].role \in {"user", "developer"}
  BY LiveFacts
<1>2. i \in 1 .. Len(messages)
  BY <1>1, MsgFacts
<1>3. messages' = Truncated(messages, u)
  BY DEF EndUnanswered, EndTurn
<1> HIDE DEF u
<1>4. CASE u = 0
  BY <1>1, <1>2, <1>3, <1>4 DEF Truncated
<1>5. CASE u # 0
  <2>1. messages' = SubSeq(messages, 1, u - 1) /\ u - 1 \in 0 .. Len(messages)
    BY <1>1, <1>3, <1>5 DEF Truncated
  <2>2. Len(messages') = u - 1
    BY <1>1, <2>1, PrefixFacts
  <2>3. i <= u - 1 \/ i \in u .. Len(messages)
    BY <1>1, <1>2
  <2> QED BY <1>1, <1>5, <2>2, <2>3
<1> QED BY <1>4, <1>5

LEMMA TopDropsOnlyInput == ASSUME IInv, TopStep PROVE DropsOnlyInput
<1>1. CASE TopCapReached
  <2>1. messages \in Seq(Msg) /\ Len(messages) <= Len(messages)
    BY LiveFacts
  <2> QED BY <1>1, <2>1, EndTurnDropsOnlyInput DEF TopCapReached
<1>2. CASE TopCancelled
  BY <1>2, EndUnansweredDropsOnlyInput DEF TopCancelled
<1>3. CASE TopRequests
  BY <1>3 DEF TopRequests, DropsOnlyInput
<1> QED BY <1>1, <1>2, <1>3 DEF TopStep

LEMMA AnswerDropsOnlyInput ==
  ASSUME IInv, EndTurn(messages) \/ EndTurn(Append(messages, Message("assistant", 0)))
  PROVE  DropsOnlyInput
<1>1. messages \in Seq(Msg) /\ Len(messages) \in Nat
  BY LiveFacts
<1>2. Message("assistant", 0) \in Msg
  BY DEF Message, Msg, MessageRoles
<1> DEFINE w == Append(messages, Message("assistant", 0))
<1>3. w \in Seq(Msg) /\ Len(w) = Len(messages) + 1
  BY <1>1, <1>2, AppendProperties
<1> HIDE DEF w
<1>4. Len(messages) <= Len(messages) /\ Len(messages) <= Len(w)
  BY <1>1, <1>3
<1>5. EndTurn(messages) \/ EndTurn(w)
  BY DEF w
<1> QED BY <1>1, <1>3, <1>4, <1>5, EndTurnDropsOnlyInput

LEMMA StreamDropsOnlyInput == ASSUME IInv, StreamStep PROVE DropsOnlyInput
<1>1. ASSUME NEW partial \in BOOLEAN, StreamCancelled(partial) PROVE DropsOnlyInput
  BY <1>1, AnswerDropsOnlyInput, EndUnansweredDropsOnlyInput DEF StreamCancelled
<1>2. CASE StreamFails
  BY <1>2, EndUnansweredDropsOnlyInput DEF StreamFails
<1>3. CASE Overflows
  BY <1>3 DEF Overflows, DropsOnlyInput
<1>4. CASE OverflowCancelled
  BY <1>4, AnswerDropsOnlyInput DEF OverflowCancelled
<1>5. ASSUME NEW text \in BOOLEAN, StreamCompletes(text) PROVE DropsOnlyInput
  BY <1>5, AnswerDropsOnlyInput DEF StreamCompletes, Answered
<1>6. ASSUME NEW text \in BOOLEAN, StreamContinues(text) PROVE DropsOnlyInput
  BY <1>6 DEF StreamContinues, DropsOnlyInput
<1>7. ASSUME NEW n \in 1 .. MaxCalls, StreamCallsTools(n) PROVE DropsOnlyInput
  BY <1>7 DEF StreamCallsTools, DropsOnlyInput
<1> QED BY <1>1, <1>2, <1>3, <1>4, <1>5, <1>6, <1>7 DEF StreamStep

LEMMA ToolDropsOnlyInput == ASSUME IInv, ToolStep PROVE DropsOnlyInput
<1>1. ASSUME NEW k \in 1 .. MaxCalls, RunTools(k) PROVE DropsOnlyInput
  BY <1>1 DEF RunTools, DropsOnlyInput
<1>2. CASE CommitTools
  BY <1>2 DEF CommitTools, DropsOnlyInput
<1>3. CASE CancelTools
  <2>1. messages \in Seq(Msg) /\ turn.pending \in Seq(Nat)
    BY LiveFacts
  <2> DEFINE r == [i \in DOMAIN turn.pending |-> Message("tool", turn.pending[i])]
  <2>2. Len(messages) \in Nat /\ DOMAIN turn.pending = 1 .. Len(turn.pending)
        /\ Len(turn.pending) \in Nat
        /\ \A i \in 1 .. Len(turn.pending) : turn.pending[i] \in Nat
    BY <2>1, MsgFacts, NatSeqFacts
  <2>3. r \in [1 .. Len(turn.pending) -> Msg]
    BY <2>2 DEF Message, Msg, MessageRoles
  <2>4. r \in Seq(Msg)
    BY <2>2, <2>3, SeqDef
  <2>5. CancelledResults = messages \o r
    BY DEF CancelledResults
  <2> HIDE DEF r
  <2>6. messages \o r \in Seq(Msg) /\ Len(messages \o r) = Len(messages) + Len(r) /\ Len(r) \in Nat
    BY <2>1, <2>4, ConcatProperties, LenProperties
  <2>7. CancelledResults \in Seq(Msg) /\ Len(messages) <= Len(CancelledResults)
    BY <2>2, <2>5, <2>6
  <2>8. EndTurn(CancelledResults)
    BY <1>3 DEF CancelTools
  <2> QED BY <2>7, <2>8, EndTurnDropsOnlyInput
<1> QED BY <1>1, <1>2, <1>3 DEF ToolStep

LEMMA GovernDropsOnlyInput == ASSUME IInv, GovernStep PROVE DropsOnlyInput
<1>1. CASE BoundaryCancelled
  BY <1>1, AnswerDropsOnlyInput DEF BoundaryCancelled
<1>2. CASE WaitCancelled
  BY <1>2, AnswerDropsOnlyInput DEF WaitCancelled
<1>3. CASE Unrecoverable
  BY <1>3, EndUnansweredDropsOnlyInput DEF Unrecoverable
<1>4. CASE \/ GovernProceeds \/ GovernStartsJob \/ GovernorFails
           \/ ResolvedCancelled \/ RelieveEnds
  <2>1. pc' = "top"
    BY <1>4 DEF GovernProceeds, GovernStartsJob, GovernorFails, ResolvedCancelled,
                RelieveEnds, Proceed
  <2> QED BY <2>1 DEF DropsOnlyInput
<1>5. CASE \/ GovernWaits \/ GovernRelieves \/ JobApplies \/ JobDiscarded
           \/ ResolvedStartsJob \/ ResolvedRelieves \/ Relieve \/ Resend
  <2>1. pc' # "idle"
    BY <1>5 DEF GovernWaits, GovernRelieves, JobApplies, JobDiscarded,
                ResolvedStartsJob, ResolvedRelieves, Relieve, Resend
  <2> QED BY <2>1 DEF DropsOnlyInput
<1> QED BY <1>1, <1>2, <1>3, <1>4, <1>5 DEF GovernStep

LEMMA NextDropsOnlyInput == ASSUME IInv, Next PROVE DropsOnlyInput
<1>1. ASSUME NEW context \in Contexts, SubmitTurn(context) PROVE DropsOnlyInput
  BY <1>1 DEF SubmitTurn, DropsOnlyInput
<1>2. CASE TopStep
  BY <1>2, TopDropsOnlyInput
<1>3. CASE StreamStep
  BY <1>3, StreamDropsOnlyInput
<1>4. CASE ToolStep
  BY <1>4, ToolDropsOnlyInput
<1>5. CASE GovernStep
  BY <1>5, GovernDropsOnlyInput
<1>6. CASE QueueSteering \/ QueueFollowUp \/ CancelToken \/ StopActive
  <2>1. pc' = pc
    BY <1>6 DEF QueueSteering, QueueFollowUp, CancelToken, StopActive
  <2> QED BY <2>1 DEF DropsOnlyInput
<1>7. CASE EdgeStartsJob \/ EdgeCompacts \/ EdgeDiscards \/ Resume
  <2>1. pc \in {"idle", "down"}
    BY <1>7 DEF EdgeStartsJob, EdgeCompacts, EdgeDiscards, Resume
  <2> QED BY <2>1 DEF DropsOnlyInput
<1>8. CASE ObserverFails \/ Crash
  <2>1. pc' = "down"
    BY <1>8 DEF ObserverFails, Crash, Gone
  <2> QED BY <2>1 DEF DropsOnlyInput
<1> QED BY <1>1, <1>2, <1>3, <1>4, <1>5, <1>6, <1>7, <1>8 DEF Next

\* The inductive invariant of a session: as long as the live context has not
\* parted from the log, the log is regular, its rebuild is the persisted part of
\* the context with the ids of the engine, rounds of calls and results are whole,
\* and the unanswered input is the unpersisted end of the transcript.
THEOREM TurnInvariant == Spec => []IInv
<1>1. Init => IInv
  BY InitIInv
<1>2. IInv /\ [Next]_vars => IInv'
  BY NextIInv
<1> QED BY <1>1, <1>2, PTL DEF Spec

\* Every variable keeps its type and every cursor stays within what it indexes:
\* the start of the unanswered input, which complete_turn truncates at, is inside
\* the transcript even after an overflow recovery has replaced it by a shorter one.
THEOREM TurnTypeCorrect == Spec => []TypeOK
BY TurnInvariant, IInvTypeOK, PTL

\* What a resume would rebuild is the persisted part of the live context, and
\* the id map of the compaction engine is the one the resume would build, after any
\* sequence of commits, failed appends, compactions, crashes and resumes.
THEOREM LogAgreesTheorem == Spec => []LogAgrees
BY TurnInvariant, IInvLogAgrees, PTL

\* complete_turn sends no request in which a call lacks its result, a result its
\* call, or something stands between them, whatever was cancelled, compacted, lost
\* or repaired before.
THEOREM RequestsPairedTheorem == Spec => []RequestsPaired
BY TurnInvariant, IInvRequestsPaired, PTL

\* rebuild_with_compactions accepts the log: every range is made of messages, runs
\* forward and overlaps no other, whichever compaction wrote it.
THEOREM LogReopensTheorem == Spec => []LogReopens
<1>1. IInv => LogReopens
  BY IInvReadable DEF LogReopens
<1> QED BY <1>1, TurnInvariant, PTL

\* A turn that ends truncates nothing but the input it did not answer.
THEOREM OnlyInputDroppedTheorem == Spec => OnlyInputDropped
<1>1. IInv /\ [Next]_vars => [DropsOnlyInput]_vars
  BY NextDropsOnlyInput
<1>2. [][DropsOnlyInput]_vars <=> OnlyInputDropped
  BY PTL DEF OnlyInputDropped, DropsOnlyInput
<1> QED BY <1>1, <1>2, TurnInvariant, PTL DEF Spec
================================================================================

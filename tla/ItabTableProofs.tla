----------------------------- MODULE ItabTableProofs -----------------------------
(***************************************************************************)
(* Theorems about ItabTable, for every hash function, every size of the    *)
(* table and all itabs of the host and of the modules.                     *)
(***************************************************************************)
EXTENDS ItabTable, WellFoundedInduction, FiniteSetTheorems, TLAPS

(***************************************************************************)
(* Induction without an operator parameter: a set of naturals has a least  *)
(* element, and a recursion over a segment has a solution.                 *)
(***************************************************************************)

LEMMA LeastNatural ==
  ASSUME NEW S \in SUBSET Nat, S # {}
  PROVE  \E n \in S : \A k \in S : n <= k
<1>1. IsWellFoundedOn(OpToRel(<, Nat), Nat)
  BY NatLessThanWellFounded
<1>2. PICK n \in S : \A k \in S : ~ (<<k, n>> \in OpToRel(<, Nat))
  BY <1>1, WFMin
<1>3. \A k \in S : ~(k < n)
  BY <1>2 DEF OpToRel
<1> QED BY <1>3

LEMMA SegmentInduction ==
  ASSUME NEW N \in Nat, NEW G, 0 \in G, \A n \in 1 .. N : n - 1 \in G => n \in G
  PROVE  0 .. N \subseteq G
<1> DEFINE Missing == {n \in 0 .. N : n \notin G}
<1>1. SUFFICES ASSUME Missing # {} PROVE FALSE
  OBVIOUS
<1>2. PICK n \in Missing : \A k \in Missing : n <= k
  <2>1. Missing \in SUBSET Nat
    OBVIOUS
  <2> HIDE DEF Missing
  <2> QED BY <1>1, <2>1, LeastNatural
<1>3. n \in 1 .. N /\ n - 1 \in 0 .. N
  BY <1>2
<1> QED BY <1>2, <1>3

\* h starts from a and takes n steps of F.
Upto(n, T, a, F, h) ==
  h \in [0 .. n -> T] /\ h[0] = a /\ \A k \in 1 .. n : h[k] = F[<<k, h[k - 1]>>]

LEMMA SegmentRecursion ==
  ASSUME NEW N \in Nat, NEW T, NEW a \in T, NEW F \in [(1 .. N) \X T -> T]
  PROVE  \E h : Upto(N, T, a, F, h)
<1> DEFINE G == {n \in 0 .. N : \E h : Upto(n, T, a, F, h)}
<1>1. 0 \in G
  <2>1. Upto(0, T, a, F, [i \in 0 .. 0 |-> a])
    BY DEF Upto
  <2> QED BY <2>1
<1>2. ASSUME NEW n \in 1 .. N, n - 1 \in G PROVE n \in G
  <2>1. PICK h : Upto(n - 1, T, a, F, h)
    BY <1>2
  <2>2. PICK g : g = [i \in 0 .. n |-> IF i = n THEN F[<<n, h[n - 1]>>] ELSE h[i]]
    OBVIOUS
  <2>3. F[<<n, h[n - 1]>>] \in T
    BY <2>1 DEF Upto
  <2>4. g \in [0 .. n -> T] /\ g[0] = a
    BY <2>1, <2>2, <2>3 DEF Upto
  <2>5. ASSUME NEW k \in 1 .. n PROVE g[k] = F[<<k, g[k - 1]>>]
    <3>1. k - 1 \in 0 .. n - 1 /\ g[k - 1] = h[k - 1]
      BY <2>2
    <3>2. CASE k = n
      <4>1. g[n] = F[<<n, h[n - 1]>>]
        BY <2>2
      <4> QED BY <3>1, <3>2, <4>1
    <3>3. CASE k # n
      BY <2>1, <2>2, <3>1, <3>3 DEF Upto
    <3> QED BY <3>2, <3>3
  <2>6. Upto(n, T, a, F, g)
    BY <2>4, <2>5 DEF Upto
  <2> QED BY <2>6
<1>3. 0 .. N \subseteq G
  <2> HIDE DEF G
  <2> QED BY <1>1, <1>2, SegmentInduction
<1> QED BY <1>3

(***************************************************************************)
(* Lookup and insertion.                                                   *)
(***************************************************************************)
Tables == [Positions -> Itabs \cup {Nil}]

LEMMA SizeFacts == Size \in Nat /\ Size > 0 /\ Positions \subseteq Nat /\ Nil \notin Itabs
<1>1. Size \in Nat /\ Size > 0
  BY ConstantsAssumption
<1>2. Nil \notin Itabs
  BY ConstantsAssumption
<1> QED BY <1>1, <1>2 DEF Positions

LEMMA ProbeType == \A p \in Pairs : \A i \in Positions : Probe(p, i) \in Positions
<1> SUFFICES ASSUME NEW p \in Pairs, NEW i \in Positions PROVE Probe(p, i) \in Positions
  OBVIOUS
<1>1. Home[p] \in Int /\ i \in Int /\ Size \in Nat /\ Size > 0
  BY ConstantsAssumption DEF Positions
<1>2. \A x \in Int : x % Size \in 0 .. Size - 1
  BY <1>1
<1>3. i * (i + 1) \in Int
  BY <1>1
<1>4. (i * (i + 1)) \div 2 \in Int
  BY <1>3
<1> QED BY <1>1, <1>2, <1>4 DEF Probe, Positions

LEMMA StopFacts ==
  ASSUME NEW t \in Tables, NEW p \in Pairs, NEW S, NEW i, i = Stop(t, p, S)
  PROVE  \/ i = Size /\ \A j \in Positions : t[Probe(p, j)] \notin S \cup {Nil}
         \/ /\ i \in Positions /\ i # Size /\ t[Probe(p, i)] \in S \cup {Nil}
            /\ \A j \in Positions : j < i => t[Probe(p, j)] \notin S \cup {Nil}
<1> DEFINE stops == {j \in Positions : t[Probe(p, j)] \in S \cup {Nil}}
<1>1. i = IF stops = {} THEN Size ELSE CHOOSE k \in stops : \A j \in stops : k <= j
  BY DEF Stop
<1>2. CASE stops = {}
  BY <1>1, <1>2
<1>3. CASE stops # {}
  <2>1. \E k \in stops : \A j \in stops : k <= j
    <3>1. stops \in SUBSET Nat
      BY SizeFacts
    <3> HIDE DEF stops
    <3> QED BY <1>3, <3>1, LeastNatural
  <2>2. i \in stops /\ \A j \in stops : i <= j
    BY <1>1, <1>3, <2>1
  <2> QED BY <2>2, SizeFacts DEF Positions
<1> QED BY <1>2, <1>3

\* u has every itab of t where t has it.
Extends(u, t) == \A k \in Positions : t[k] # Nil => u[k] = t[k]

\* The itab at an entry can be reached over filled entries.
OnPath(t, k) ==
  \E n \in Positions : /\ Probe(t[k].pair, n) = k
                       /\ \A j \in Positions : j < n => t[Probe(t[k].pair, j)] # Nil

LEMMA FindFacts ==
  ASSUME NEW t \in Tables, NEW p \in Pairs
  PROVE  /\ Find(t, p) # Nil => \E i \in Positions :
              /\ Find(t, p) = t[Probe(p, i)] /\ t[Probe(p, i)] \in Itabs /\ t[Probe(p, i)].pair = p
              /\ \A j \in Positions : j < i =>
                   t[Probe(p, j)] # Nil /\ t[Probe(p, j)].pair # p
         /\ \A i \in Positions :
              /\ t[Probe(p, i)] \in Itabs /\ t[Probe(p, i)].pair = p
              /\ \A j \in Positions : j < i => t[Probe(p, j)] # Nil /\ t[Probe(p, j)].pair # p
              => Find(t, p) = t[Probe(p, i)]
         /\ \A k \in Positions : t[k] # Nil /\ t[k].pair = p /\ OnPath(t, k) => Find(t, p) # Nil
<1> DEFINE S == {m \in Itabs : m.pair = p}
<1>1. PICK i : i = Stop(t, p, S)
  OBVIOUS
<1>2. \A j \in Positions : Probe(p, j) \in Positions /\ t[Probe(p, j)] \in Itabs \cup {Nil}
  BY ProbeType DEF Tables
<1>3. \A j \in Positions : t[Probe(p, j)] \notin S \cup {Nil} <=>
                             t[Probe(p, j)] # Nil /\ t[Probe(p, j)].pair # p
  BY <1>2
<1>4. Find(t, p) = IF i = Size THEN Nil ELSE t[Probe(p, i)]
  BY <1>1 DEF Find
<1>5. \/ i = Size /\ \A j \in Positions : t[Probe(p, j)] # Nil /\ t[Probe(p, j)].pair # p
      \/ /\ i \in Positions /\ i # Size /\ t[Probe(p, i)] \in S \cup {Nil}
         /\ \A j \in Positions : j < i => t[Probe(p, j)] # Nil /\ t[Probe(p, j)].pair # p
  <2> HIDE DEF S
  <2>1. \/ i = Size /\ \A j \in Positions : t[Probe(p, j)] \notin S \cup {Nil}
        \/ /\ i \in Positions /\ i # Size /\ t[Probe(p, i)] \in S \cup {Nil}
           /\ \A j \in Positions : j < i => t[Probe(p, j)] \notin S \cup {Nil}
    BY <1>1, StopFacts
  <2> QED BY <1>3, <2>1
<1>6. ASSUME NEW n \in Positions, t[Probe(p, n)] \in Itabs, t[Probe(p, n)].pair = p,
             \A j \in Positions : j < n => t[Probe(p, j)] # Nil
      PROVE  i \in Positions /\ i <= n /\ Find(t, p) # Nil /\ Find(t, p) = t[Probe(p, i)]
  <2>1. i \in Positions
    BY <1>5, <1>6
  <2>2. ~(n < i)
    BY <1>5, <1>6, <2>1, SizeFacts
  <2>3. i <= n
    BY <2>1, <2>2, SizeFacts
  <2>4. t[Probe(p, i)] # Nil
    <3>1. i < n \/ i = n
      BY <2>1, <2>3, SizeFacts
    <3> QED BY <1>6, <2>1, <3>1, SizeFacts
  <2>5. i # Size
    BY <2>1, SizeFacts DEF Positions
  <2> QED BY <1>4, <2>1, <2>3, <2>4, <2>5
<1>7. ASSUME Find(t, p) # Nil
      PROVE  \E n \in Positions :
              /\ Find(t, p) = t[Probe(p, n)] /\ t[Probe(p, n)] \in Itabs /\ t[Probe(p, n)].pair = p
              /\ \A j \in Positions : j < n => t[Probe(p, j)] # Nil /\ t[Probe(p, j)].pair # p
  BY <1>4, <1>5, <1>7
<1>8. ASSUME NEW n \in Positions, t[Probe(p, n)] \in Itabs, t[Probe(p, n)].pair = p,
             \A j \in Positions : j < n => t[Probe(p, j)] # Nil /\ t[Probe(p, j)].pair # p
      PROVE  Find(t, p) = t[Probe(p, n)]
  <2>1. i \in Positions /\ i <= n /\ Find(t, p) # Nil /\ Find(t, p) = t[Probe(p, i)]
    BY <1>6, <1>8
  <2>2. i = n
    BY <1>4, <1>5, <1>8, <2>1, SizeFacts
  <2> QED BY <2>1, <2>2
<1>9. ASSUME NEW k \in Positions, t[k] # Nil, t[k].pair = p, OnPath(t, k) PROVE Find(t, p) # Nil
  <2>1. PICK n \in Positions : /\ Probe(p, n) = k
                               /\ \A j \in Positions : j < n => t[Probe(p, j)] # Nil
    BY <1>9 DEF OnPath
  <2> QED BY <1>2, <1>6, <1>9, <2>1
<1> QED BY <1>7, <1>8, <1>9

\* What is found stays found in a table that has more.
LEMMA FindKept ==
  ASSUME NEW t \in Tables, NEW u \in Tables, Extends(u, t), NEW p \in Pairs, Find(t, p) # Nil
  PROVE  Find(u, p) = Find(t, p)
<1>1. PICK i \in Positions :
        /\ Find(t, p) = t[Probe(p, i)] /\ t[Probe(p, i)] \in Itabs /\ t[Probe(p, i)].pair = p
        /\ \A j \in Positions : j < i => t[Probe(p, j)] # Nil /\ t[Probe(p, j)].pair # p
  BY FindFacts
<1>2. \A j \in Positions : t[Probe(p, j)] # Nil => u[Probe(p, j)] = t[Probe(p, j)]
  BY ProbeType DEF Extends
<1>3. t[Probe(p, i)] # Nil
  BY <1>1, SizeFacts
<1>4. Find(u, p) = u[Probe(p, i)]
  BY <1>1, <1>2, <1>3, FindFacts
<1> QED BY <1>1, <1>2, <1>3, <1>4

\* itabAdd fills one free entry, at the end of a path over filled ones, or leaves
\* the table as it is.
LEMMA InsertFacts ==
  ASSUME NEW t \in Tables, NEW m \in Itabs, NEW u, u = Insert(t, m)
  PROVE  /\ u \in Tables /\ Extends(u, t)
         /\ \/ u = t
            \/ \E k \in Positions : t[k] = Nil /\ u = [t EXCEPT ![k] = m] /\ OnPath(u, k)
         /\ \/ \A j \in Positions : t[Probe(m.pair, j)] # Nil
            \/ \E i \in Positions :
                 u[Probe(m.pair, i)] = m
                 /\ \A j \in Positions : j < i => t[Probe(m.pair, j)] \notin {m, Nil}
<1>1. PICK p \in Pairs : p = m.pair
  BY DEF Itabs
<1>2. PICK i : i = Stop(t, p, {m})
  OBVIOUS
<1>3. u = IF i = Size THEN t ELSE [t EXCEPT ![Probe(p, i)] = m]
  BY <1>1, <1>2 DEF Insert
<1>4. \/ i = Size /\ \A j \in Positions : t[Probe(p, j)] \notin {m, Nil}
      \/ /\ i \in Positions /\ i # Size /\ t[Probe(p, i)] \in {m, Nil}
         /\ \A j \in Positions : j < i => t[Probe(p, j)] \notin {m, Nil}
  <2>1. {m} \cup {Nil} = {m, Nil}
    OBVIOUS
  <2> QED BY <1>2, <2>1, StopFacts
<1>5. m # Nil
  BY SizeFacts
<1>6. CASE i = Size
  BY <1>1, <1>3, <1>4, <1>6, SizeFacts DEF Extends, Positions
<1>7. CASE i # Size
  <2>1. PICK k \in Positions : k = Probe(p, i)
    BY <1>4, <1>7, ProbeType
  <2>2. u = [t EXCEPT ![k] = m] /\ t[k] \in {m, Nil} /\ i \in Positions
    BY <1>3, <1>4, <1>7, <2>1
  <2>3. u \in Tables /\ u[k] = m /\ \A l \in Positions : l # k => u[l] = t[l]
    BY <2>1, <2>2 DEF Tables
  <2>4. Extends(u, t)
    BY <2>2, <2>3 DEF Extends
  <2>5. CASE t[k] = m
    <3>1. u = t
      BY <2>2, <2>5 DEF Tables
    <3> QED BY <1>1, <1>4, <1>7, <2>1, <2>2, <2>3, <2>4, <3>1
  <2>6. CASE t[k] = Nil
    <3>1. \A j \in Positions : j < i => u[Probe(p, j)] # Nil
      BY <1>4, <1>5, <1>7, <2>3, ProbeType
    <3>2. OnPath(u, k)
      BY <1>1, <2>1, <2>2, <2>3, <3>1 DEF OnPath
    <3> QED BY <1>1, <1>4, <1>7, <2>1, <2>2, <2>3, <2>4, <2>6, <3>2
  <2> QED BY <2>2, <2>5, <2>6
<1> QED BY <1>6, <1>7

\* additabs inserts one itab after the other.
LEMMA InsertAllSteps ==
  ASSUME NEW t \in Tables, NEW pairs \in Seq(Pairs), NEW where \in Modules \cup {Host, Heap}
  PROVE  \E f \in [0 .. Len(pairs) -> Tables] :
           /\ f[0] = t /\ f[Len(pairs)] = InsertAll(t, pairs, where)
           /\ \A k \in 1 .. Len(pairs) : f[k] = Insert(f[k - 1], [pair |-> pairs[k], in |-> where])
<1> DEFINE N == Len(pairs)
           itab(k) == [pair |-> pairs[k], in |-> where]
           Solves(g) == g = [n \in 0 .. N |-> IF n = 0 THEN t ELSE Insert(g[n - 1], itab(n))]
<1>1. N \in Nat /\ \A k \in 1 .. N : itab(k) \in Itabs
  BY DEF Itabs
<1>2. \E g : Solves(g)
  <2>1. PICK F \in [(1 .. N) \X Tables -> Tables] :
          \A k \in 1 .. N : \A u \in Tables : F[<<k, u>>] = Insert(u, itab(k))
    <3> DEFINE G == [x \in (1 .. N) \X Tables |-> Insert(x[2], itab(x[1]))]
    <3>1. ASSUME NEW x \in (1 .. N) \X Tables PROVE Insert(x[2], itab(x[1])) \in Tables
      <4>1. x[2] \in Tables /\ itab(x[1]) \in Itabs
        BY <1>1
      <4> QED BY <4>1, InsertFacts
    <3>2. \A k \in 1 .. N : \A u \in Tables : G[<<k, u>>] = Insert(u, itab(k))
      OBVIOUS
    <3> QED BY <3>1, <3>2
  <2>2. PICK g : Upto(N, Tables, t, F, g)
    BY <1>1, SegmentRecursion, Zenon
  <2>3. ASSUME NEW k \in 1 .. N PROVE g[k] = Insert(g[k - 1], itab(k))
    <3>1. k - 1 \in 0 .. N
      BY <1>1
    <3> QED BY <2>1, <2>2, <3>1 DEF Upto
  <2>4. \A n \in 0 .. N : g[n] = IF n = 0 THEN t ELSE Insert(g[n - 1], itab(n))
    BY <1>1, <2>2, <2>3 DEF Upto
  <2> QED BY <2>2, <2>4 DEF Upto
<1>3. PICK f : f = CHOOSE g : Solves(g)
  OBVIOUS
<1>4. Solves(f)
  BY <1>2, <1>3
<1>5. f[N] = InsertAll(t, pairs, where)
  BY <1>3 DEF InsertAll
<1>6. f[0] = t /\ \A k \in 1 .. N : f[k] = Insert(f[k - 1], itab(k))
  BY <1>1, <1>4
<1>7. 0 .. N \subseteq {n \in 0 .. N : f[n] \in Tables}
  <2> DEFINE G == {n \in 0 .. N : f[n] \in Tables}
  <2>1. 0 \in G
    BY <1>1, <1>6
  <2>2. ASSUME NEW n \in 1 .. N, n - 1 \in G PROVE n \in G
    <3>1. f[n - 1] \in Tables /\ f[n] = Insert(f[n - 1], itab(n)) /\ itab(n) \in Itabs
      BY <1>1, <1>6, <2>2
    <3> QED BY <3>1, InsertFacts
  <2> HIDE DEF G
  <2>3. 0 .. N \subseteq G
    BY <1>1, <2>1, <2>2, SegmentInduction
  <2> QED BY <2>3 DEF G
<1>8. f \in [0 .. N -> Tables]
  BY <1>4, <1>7
<1> QED BY <1>5, <1>6, <1>8

LEMMA PathKept ==
  ASSUME NEW t \in Tables, NEW u \in Tables, Extends(u, t),
         NEW k \in Positions, t[k] # Nil, OnPath(t, k)
  PROVE  OnPath(u, k)
<1>1. u[k] = t[k] /\ t[k].pair \in Pairs
  BY DEF Extends, Tables, Itabs
<1>2. PICK n \in Positions : /\ Probe(t[k].pair, n) = k
                             /\ \A j \in Positions : j < n => t[Probe(t[k].pair, j)] # Nil
  BY DEF OnPath
<1>3. \A j \in Positions : j < n => u[Probe(t[k].pair, j)] # Nil
  BY <1>1, <1>2, ProbeType DEF Extends
<1> QED BY <1>1, <1>2, <1>3 DEF OnPath

\* What u has beyond t are itabs of the pairs, each at the end of its path.
Adds(u, t, pairs, where) ==
  /\ Extends(u, t)
  /\ \A k \in Positions : t[k] = Nil /\ u[k] # Nil =>
       u[k].in = where /\ u[k].pair \in ToSet(pairs) /\ OnPath(u, k)

LEMMA InsertAllFacts ==
  ASSUME NEW t \in Tables, NEW pairs \in Seq(Pairs), NEW where \in Modules \cup {Host, Heap}
  PROVE  \E f \in [0 .. Len(pairs) -> Tables] :
           /\ f[0] = t /\ f[Len(pairs)] = InsertAll(t, pairs, where)
           /\ \A k \in 1 .. Len(pairs) : f[k] = Insert(f[k - 1], [pair |-> pairs[k], in |-> where])
           /\ \A k \in 0 .. Len(pairs) : Adds(f[k], t, pairs, where)
<1> DEFINE N == Len(pairs)
           itab(k) == [pair |-> pairs[k], in |-> where]
<1>1. PICK f \in [0 .. N -> Tables] :
        /\ f[0] = t /\ f[N] = InsertAll(t, pairs, where)
        /\ \A k \in 1 .. N : f[k] = Insert(f[k - 1], itab(k))
  BY InsertAllSteps
<1> DEFINE G == {k \in 0 .. N : Adds(f[k], t, pairs, where)}
<1>2. 0 \in G
  BY <1>1 DEF Adds, Extends
<1>3. ASSUME NEW n \in 1 .. N, n - 1 \in G PROVE n \in G
  <2>1. PICK v \in Tables : v = f[n - 1]
    BY <1>1
  <2>2. PICK u \in Tables : u = f[n]
    BY <1>1
  <2>3. PICK m \in Itabs : m = itab(n)
    BY DEF Itabs
  <2>4. /\ Extends(u, v)
        /\ u = v \/ \E k \in Positions : v[k] = Nil /\ u = [v EXCEPT ![k] = m] /\ OnPath(u, k)
    <3>1. u = Insert(v, m)
      BY <1>1, <2>1, <2>2, <2>3
    <3> QED BY <3>1, InsertFacts
  <2>5. Adds(v, t, pairs, where)
    BY <1>3, <2>1
  <2>6. Extends(u, t)
    BY <2>4, <2>5 DEF Adds, Extends
  <2>7. ASSUME NEW k \in Positions, t[k] = Nil, u[k] # Nil
        PROVE  u[k].in = where /\ u[k].pair \in ToSet(pairs) /\ OnPath(u, k)
    <3>1. CASE v[k] # Nil
      <4>1. u[k] = v[k] /\ OnPath(v, k)
        BY <2>4, <2>5, <2>7, <3>1 DEF Adds, Extends
      <4> QED BY <2>4, <2>5, <2>7, <3>1, <4>1, PathKept DEF Adds
    <3>2. CASE v[k] = Nil
      <4>1. u[k] = m /\ OnPath(u, k)
        BY <2>4, <2>7, <3>2 DEF Tables
      <4>2. pairs[n] \in ToSet(pairs)
        BY DEF ToSet
      <4> QED BY <2>3, <4>1, <4>2
    <3> QED BY <3>1, <3>2
  <2> QED BY <2>2, <2>6, <2>7 DEF Adds
<1>4. 0 .. N \subseteq G
  <2>1. N \in Nat
    OBVIOUS
  <2> HIDE DEF G, N
  <2> QED BY <1>2, <1>3, <2>1, SegmentInduction
<1> QED BY <1>1, <1>4

(***************************************************************************)
(* The table that the program starts with.                                 *)
(***************************************************************************)
Empty == [i \in Positions |-> Nil]
HostTable == InsertAll(Empty, HostPairs, Host)
HostItab(p) == [pair |-> p, in |-> Host]

\* A table with fewer itabs than entries has a free one on every probe sequence.
LEMMA RoomOnPath ==
  ASSUME NEW t \in Tables, NEW n \in Nat, n < Size, NEW p \in Pairs,
         NEW D, D = {k \in Positions : t[k] # Nil}, Cardinality(D) <= n
  PROVE  \E i \in Positions : t[Probe(p, i)] = Nil
<1>1. \E k \in Positions : t[k] = Nil
  <2>1. SUFFICES ASSUME \A k \in Positions : t[k] # Nil PROVE FALSE
    OBVIOUS
  <2>2. D = 0 .. Size - 1
    BY <2>1 DEF Positions
  <2>3. Cardinality(0 .. Size - 1) = Size
    BY SizeFacts, FS_Interval
  <2>4. Cardinality(D) = Size
    BY <2>2, <2>3
  <2> QED BY <2>4, SizeFacts
<1> QED BY <1>1, SizeAssumption

LEMMA HostTableFacts ==
  /\ HostTable \in Tables
  /\ \A k \in Positions : HostTable[k] # Nil =>
       /\ HostTable[k].in = Host /\ HostTable[k].pair \in ToSet(HostPairs)
       /\ OnPath(HostTable, k)
  /\ \A p \in ToSet(HostPairs) : Find(HostTable, p) = HostItab(p)
<1> DEFINE N == Len(HostPairs)
           filled(t) == {k \in Positions : t[k] # Nil}
<1>1. Empty \in Tables /\ HostPairs \in Seq(Pairs) /\ N \in Nat /\ N < Size
  BY ConstantsAssumption, SizeAssumption DEF Empty, Tables
<1>2. PICK f \in [0 .. N -> Tables] :
        /\ f[0] = Empty /\ f[N] = HostTable
        /\ \A k \in 1 .. N : f[k] = Insert(f[k - 1], HostItab(HostPairs[k]))
        /\ \A k \in 0 .. N : Adds(f[k], Empty, HostPairs, Host)
  BY <1>1, InsertAllFacts DEF HostTable, HostItab
<1>3. ASSUME NEW n \in 0 .. N, NEW k \in Positions, f[n][k] # Nil
      PROVE  f[n][k].in = Host /\ f[n][k].pair \in ToSet(HostPairs) /\ OnPath(f[n], k)
  BY <1>2, <1>3 DEF Adds, Empty
<1> DEFINE Good(n) == /\ IsFiniteSet(filled(f[n])) /\ Cardinality(filled(f[n])) <= n
                      /\ \A j \in 1 .. n : Find(f[n], HostPairs[j]) = HostItab(HostPairs[j])
           G == {n \in 0 .. N : Good(n)}
<1>4. 0 \in G
  <2>1. filled(f[0]) = {}
    BY <1>2 DEF Empty
  <2> QED BY <1>1, <2>1, FS_EmptySet
<1>5. ASSUME NEW n \in 1 .. N, n - 1 \in G PROVE n \in G
  <2>1. n - 1 \in 0 .. N /\ n \in 0 .. N /\ HostPairs[n] \in Pairs /\ Good(n - 1)
    BY <1>1, <1>5
  <2>2. PICK v \in Tables : v = f[n - 1]
    BY <1>2, <2>1
  <2>3. PICK u \in Tables : u = f[n]
    BY <1>2, <2>1
  <2>4. PICK p \in Pairs : p = HostPairs[n]
    BY <2>1
  <2>5. PICK m \in Itabs : m = HostItab(p)
    BY DEF Itabs, HostItab
  <2>6. m.pair = p /\ m # Nil /\ u = Insert(v, m)
    BY <1>2, <2>2, <2>3, <2>4, <2>5, SizeFacts DEF HostItab
  <2>7. /\ Extends(u, v)
        /\ u = v \/ \E k \in Positions : v[k] = Nil /\ u = [v EXCEPT ![k] = m]
        /\ \/ \A j \in Positions : v[Probe(p, j)] # Nil
           \/ \E i \in Positions :
                u[Probe(p, i)] = m /\ \A j \in Positions : j < i => v[Probe(p, j)] \notin {m, Nil}
    <3>1. /\ Extends(u, v)
          /\ \/ u = v
             \/ \E k \in Positions : v[k] = Nil /\ u = [v EXCEPT ![k] = m] /\ OnPath(u, k)
          /\ \/ \A j \in Positions : v[Probe(m.pair, j)] # Nil
             \/ \E i \in Positions :
                  u[Probe(m.pair, i)] = m
                  /\ \A j \in Positions : j < i => v[Probe(m.pair, j)] \notin {m, Nil}
      BY <2>6, InsertFacts
    <3>2. m.pair = p
      BY <2>6
    <3> QED BY <3>1, <3>2
  <2>8. IsFiniteSet(filled(u)) /\ Cardinality(filled(u)) <= n
    <3>1. IsFiniteSet(filled(v)) /\ Cardinality(filled(v)) <= n - 1
      BY <2>1, <2>2
    <3>2. Cardinality(filled(v)) \in Nat
      BY <3>1, FS_CardinalityType
    <3>3. CASE u = v
      BY <3>1, <3>2, <3>3
    <3>4. ASSUME NEW k \in Positions, v[k] = Nil, u = [v EXCEPT ![k] = m]
          PROVE  IsFiniteSet(filled(u)) /\ Cardinality(filled(u)) <= n
      <4>1. filled(u) = filled(v) \cup {k} /\ k \notin filled(v)
        BY <2>6, <3>4 DEF Tables
      <4>2. IsFiniteSet(filled(v) \cup {k}) /\ Cardinality(filled(v) \cup {k}) = Cardinality(filled(v)) + 1
        <5> HIDE DEF filled
        <5> QED BY <3>1, <4>1, FS_AddElement
      <4> QED BY <3>1, <3>2, <4>1, <4>2
    <3> QED BY <2>7, <3>3, <3>4
  <2>9. Find(u, p) = m
    <3>1. \E j \in Positions : v[Probe(p, j)] = Nil
      <4>1. PICK D : D = filled(v)
        OBVIOUS
      <4>2. Cardinality(D) <= n - 1 /\ n - 1 \in Nat /\ n - 1 < Size
        BY <1>1, <2>1, <2>2, <4>1, SizeFacts
      <4> QED BY <4>1, <4>2, RoomOnPath
    <3>2. PICK i \in Positions :
            u[Probe(p, i)] = m /\ \A j \in Positions : j < i => v[Probe(p, j)] \notin {m, Nil}
      BY <2>7, <3>1
    <3>3. ASSUME NEW j \in Positions, j < i PROVE u[Probe(p, j)] # Nil /\ u[Probe(p, j)].pair # p
      <4>1. PICK k \in Positions : k = Probe(p, j)
        BY ProbeType
      <4>2. v[k] # Nil /\ v[k] # m /\ u[k] = v[k] /\ v[k] \in Itabs
        BY <2>7, <3>2, <3>3, <4>1 DEF Extends, Tables
      <4>3. v[k].in = Host
        BY <1>3, <2>1, <2>2, <4>2
      <4>4. v[k].pair # p
        BY <2>5, <4>2, <4>3 DEF Itabs, HostItab
      <4> QED BY <4>1, <4>2, <4>4
    <3> QED BY <2>6, <3>2, <3>3, FindFacts
  <2>10. ASSUME NEW j \in 1 .. n PROVE Find(u, HostPairs[j]) = HostItab(HostPairs[j])
    <3>1. CASE j = n
      BY <2>4, <2>5, <2>9, <3>1
    <3>2. CASE j # n
      <4>1. j \in 1 .. n - 1 /\ HostPairs[j] \in Pairs
        BY <1>1, <3>2
      <4>2. Find(v, HostPairs[j]) = HostItab(HostPairs[j])
        BY <2>1, <2>2, <4>1
      <4>3. HostItab(HostPairs[j]) # Nil
        BY <4>1, SizeFacts DEF Itabs, HostItab
      <4> QED BY <2>7, <4>1, <4>2, <4>3, FindKept
    <3> QED BY <3>1, <3>2
  <2> QED BY <2>1, <2>3, <2>8, <2>10
<1>6. N \in G
  <2> HIDE DEF G, N
  <2>1. 0 .. N \subseteq G
    BY <1>1, <1>4, <1>5, SegmentInduction
  <2> QED BY <1>1, <2>1
<1>7. \A p \in ToSet(HostPairs) : Find(HostTable, p) = HostItab(p)
  <2>1. \A j \in 1 .. N : Find(HostTable, HostPairs[j]) = HostItab(HostPairs[j])
    BY <1>2, <1>6
  <2> QED BY <1>1, <2>1 DEF ToSet
<1> QED BY <1>1, <1>2, <1>3, <1>7

(***************************************************************************)
(* What loading and unloading keep.                                        *)
(***************************************************************************)
Distinct(s) == \A i, j \in 1 .. Len(s) : s[i] = s[j] => i = j

LEMMA RemoveAtFacts ==
  ASSUME NEW s \in Seq(Modules), Distinct(s), NEW k \in 1 .. Len(s), NEW r, r = RemoveAt(s, k)
  PROVE  /\ r \in Seq(Modules) /\ Distinct(r) /\ ToSet(r) = ToSet(s) \ {s[k]}
         /\ k = Len(s) => Len(r) = Len(s) - 1 /\ \A i \in 1 .. Len(r) : r[i] = s[i]
<1> DEFINE p == SubSeq(s, 1, k - 1)
           q == SubSeq(s, k + 1, Len(s))
<1>0. p \in Seq(Modules) /\ q \in Seq(Modules)
  OBVIOUS
<1>1. /\ Len(p) = k - 1 /\ \A i \in 1 .. k - 1 : p[i] = s[i]
      /\ Len(q) = Len(s) - k /\ \A i \in 1 .. Len(s) - k : q[i] = s[k + i]
  OBVIOUS
<1>2. r \in Seq(Modules) /\ Len(r) = Len(s) - 1
      /\ \A i \in 1 .. Len(r) : r[i] = IF i < k THEN s[i] ELSE s[i + 1]
  <2>1. r = p \o q
    BY DEF RemoveAt
  <2> HIDE DEF p, q
  <2>2. r \in Seq(Modules) /\ Len(r) = Len(s) - 1
    <3>1. p \o q \in Seq(Modules) /\ Len(p \o q) = Len(p) + Len(q)
      BY <1>0
    <3> QED BY <1>1, <2>1, <3>1
  <2>3. ASSUME NEW i \in 1 .. k - 1 PROVE r[i] = s[i]
    <3>1. i \in 1 .. Len(p) /\ r[i] = p[i]
      BY <1>0, <1>1, <2>1, <2>2
    <3> QED BY <1>1, <3>1
  <2>4. ASSUME NEW i \in k .. Len(r) PROVE r[i] = s[i + 1]
    <3>1. i - (k - 1) \in 1 .. Len(s) - k /\ r[i] = q[i - (k - 1)]
      BY <1>0, <1>1, <2>1, <2>2
    <3> QED BY <1>1, <3>1
  <2> QED BY <2>2, <2>3, <2>4
<1> HIDE DEF p, q
<1>3. Distinct(r)
  BY <1>2 DEF Distinct
<1>4. ToSet(r) \subseteq ToSet(s) \ {s[k]}
  BY <1>2 DEF ToSet, Distinct
<1>5. ASSUME NEW i \in 1 .. Len(s), i # k PROVE s[i] \in ToSet(r)
  <2>1. CASE i < k
    <3>1. i \in 1 .. Len(r) /\ r[i] = s[i]
      BY <1>2, <2>1
    <3> QED BY <1>2, <3>1 DEF ToSet
  <2>2. CASE i > k
    <3>1. i - 1 \in 1 .. Len(r) /\ r[i - 1] = s[i]
      BY <1>2, <2>2
    <3> QED BY <1>2, <3>1 DEF ToSet
  <2> QED BY <1>5, <2>1, <2>2
<1>6. ToSet(s) \ {s[k]} \subseteq ToSet(r)
  BY <1>5 DEF ToSet
<1> QED BY <1>2, <1>3, <1>4, <1>6

\* The itabs of the host are never touched.
HostKept == Extends(entries, HostTable)

\* A module and the host have itabs for their own types; every itab is in a module
\* that is loaded, in the host or on the heap.
Owned ==
  \A k \in Positions : entries[k] # Nil =>
    /\ entries[k].in \in Modules \cup {Host} => Owners(entries[k].pair) \subseteq {entries[k].in, Host}
    /\ orderly => entries[k].in # Heap

Older(a, b) ==
  a = Host \/ \E i, j \in 1 .. Len(loaded) : i <= j /\ loaded[i] = a /\ loaded[j] = b

\* On the path to an itab there are only itabs that are unloaded later, or with it.
OldPath(k) ==
  \E n \in Positions :
    /\ Probe(entries[k].pair, n) = k
    /\ \A j \in Positions : j < n =>
         /\ entries[Probe(entries[k].pair, j)] # Nil
         /\ Older(entries[Probe(entries[k].pair, j)].in, entries[k].in)

ItabInv ==
  /\ entries \in Tables /\ loaded \in Seq(Modules) /\ Distinct(loaded)
  /\ HostKept /\ Owned /\ NoItabOfUnloaded
  /\ orderly => \A k \in Positions : entries[k] # Nil => OldPath(k)

LEMMA InvInit == Init => ItabInv
<1> SUFFICES ASSUME Init PROVE ItabInv
  OBVIOUS
<1>1. entries = HostTable /\ loaded = <<>> /\ entries \in Tables
  BY HostTableFacts DEF Init, HostTable, Empty
<1>2. ASSUME NEW k \in Positions, entries[k] # Nil
      PROVE  entries[k].in = Host /\ Owners(entries[k].pair) = {Host} /\ OnPath(entries, k)
  BY <1>1, <1>2, HostTableFacts, ConstantsAssumption
<1>3. HostKept
  BY <1>1 DEF HostKept, Extends
<1>4. Owned /\ NoItabOfUnloaded
  <2>1. ASSUME NEW k \in Positions, entries[k] # Nil
        PROVE  /\ entries[k].in = Host /\ entries[k].in # Heap
               /\ Owners(entries[k].pair) \subseteq {entries[k].in, Host}
               /\ {entries[k].in} \cup Owners(entries[k].pair) \subseteq ToSet(loaded) \cup {Host, Heap}
    <3>1. entries[k].in = Host /\ Owners(entries[k].pair) = {Host}
      BY <1>2, <2>1
    <3>2. Host # Heap
      BY ConstantsAssumption
    <3> QED BY <3>1, <3>2
  <2> QED BY <2>1 DEF Owned, NoItabOfUnloaded
<1>5. ASSUME NEW k \in Positions, entries[k] # Nil PROVE OldPath(k)
  <2>1. PICK n \in Positions : /\ Probe(entries[k].pair, n) = k
                               /\ \A j \in Positions : j < n => entries[Probe(entries[k].pair, j)] # Nil
    BY <1>2, <1>5 DEF OnPath
  <2>2. \A j \in Positions : Probe(entries[k].pair, j) \in Positions
    BY <1>1, <1>5, ProbeType DEF Tables, Itabs
  <2> QED BY <1>2, <2>1, <2>2 DEF OldPath, Older
<1> QED BY <1>1, <1>3, <1>4, <1>5 DEF ItabInv, Distinct

\* Entries added for pairs whose types are in loaded modules or the host.
LEMMA AddsStep ==
  ASSUME ItabInv, entries' \in Tables, NEW pairs, NEW where \in Modules \cup {Heap},
         Adds(entries', entries, pairs, where), loaded' \in Seq(Modules), orderly' = orderly,
         ToSet(loaded) \subseteq ToSet(loaded'),
         where \in Modules => where \in ToSet(loaded') /\
                              \A p \in ToSet(pairs) : Owners(p) \subseteq {where, Host},
         where = Heap => ~orderly /\ \A p \in ToSet(pairs) : Owners(p) \subseteq ToSet(loaded') \cup {Host}
  PROVE  HostKept' /\ Owned' /\ NoItabOfUnloaded'
<1>1. \A k \in Positions : entries[k] # Nil => entries'[k] = entries[k]
  BY DEF Adds, Extends
<1>2. HostTable \in Tables
  BY HostTableFacts
<1>3. HostKept'
  <2>1. \A k \in Positions : HostTable[k] # Nil => entries'[k] = HostTable[k]
    BY <1>1 DEF ItabInv, HostKept, Extends
  <2> QED BY <2>1 DEF HostKept, Extends, HostTable, Empty
<1>4. ASSUME NEW k \in Positions, entries'[k] # Nil
      PROVE  /\ entries'[k].in \in Modules \cup {Host} =>
                  Owners(entries'[k].pair) \subseteq {entries'[k].in, Host}
             /\ orderly' => entries'[k].in # Heap
             /\ {entries'[k].in} \cup Owners(entries'[k].pair) \subseteq ToSet(loaded') \cup {Host, Heap}
  <2>1. CASE entries[k] # Nil
    <3>1. /\ entries[k].in \in Modules \cup {Host} => Owners(entries[k].pair) \subseteq {entries[k].in, Host}
          /\ orderly => entries[k].in # Heap
          /\ {entries[k].in} \cup Owners(entries[k].pair) \subseteq ToSet(loaded) \cup {Host, Heap}
      BY <2>1 DEF ItabInv, Owned, NoItabOfUnloaded
    <3> QED BY <1>1, <2>1, <3>1
  <2>2. CASE entries[k] = Nil
    <3>1. entries'[k].in = where /\ entries'[k].pair \in ToSet(pairs)
      BY <1>4, <2>2 DEF Adds
    <3> QED BY <3>1, ConstantsAssumption
  <2> QED BY <2>1, <2>2
<1>5. Owned' /\ NoItabOfUnloaded'
  BY <1>4 DEF Owned, NoItabOfUnloaded
<1> QED BY <1>3, <1>5

LEMMA GetItabStep == ASSUME ItabInv, NEW p \in Pairs, GetItab(p) PROVE ItabInv'
<1>1. PICK m \in Itabs : m = [pair |-> p, in |-> Heap]
  BY DEF Itabs
<1>2. entries' = Insert(entries, m) /\ loaded' = loaded /\ ~orderly /\ orderly' = orderly
  BY <1>1 DEF GetItab
<1>3. /\ entries' \in Tables /\ Extends(entries', entries)
      /\ \/ entries' = entries
         \/ \E k \in Positions :
              entries[k] = Nil /\ entries' = [entries EXCEPT ![k] = m] /\ OnPath(entries', k)
  <2>1. PICK t \in Tables : t = entries
    BY DEF ItabInv
  <2>2. PICK u : u = entries'
    OBVIOUS
  <2>3. u = Insert(t, m)
    BY <1>2, <2>1, <2>2
  <2>4. /\ u \in Tables /\ Extends(u, t)
        /\ u = t \/ \E k \in Positions : t[k] = Nil /\ u = [t EXCEPT ![k] = m] /\ OnPath(u, k)
    BY <2>3, InsertFacts
  <2> QED BY <2>1, <2>2, <2>4
<1>4. Adds(entries', entries, <<p>>, Heap)
  BY <1>1, <1>3 DEF Adds, ToSet, ItabInv, Tables
<1>5. HostKept' /\ Owned' /\ NoItabOfUnloaded'
  <2>1. \A q \in ToSet(<<p>>) : q = p
    BY DEF ToSet
  <2>2. Owners(p) \subseteq ToSet(loaded') \cup {Host} /\ loaded' \in Seq(Modules)
    BY <1>2 DEF GetItab, ItabInv
  <2> QED BY <1>2, <1>3, <1>4, <2>1, <2>2, AddsStep, ConstantsAssumption
<1> QED BY <1>2, <1>3, <1>5 DEF ItabInv, Distinct

LEMMA AddItabsStep == ASSUME ItabInv, NEW m \in Modules, AddItabs(m) PROVE ItabInv'
<1>1. entries \in Tables /\ Links[m] \in Seq(Pairs) /\ entries' = InsertAll(entries, Links[m], m)
  BY ConstantsAssumption DEF ItabInv, AddItabs
<1>2. entries' \in Tables /\ Adds(entries', entries, Links[m], m)
  <2>1. PICK t \in Tables : t = entries
    BY <1>1
  <2>2. PICK pairs \in Seq(Pairs) : pairs = Links[m]
    BY <1>1
  <2>3. PICK f \in [0 .. Len(pairs) -> Tables] :
          f[Len(pairs)] = InsertAll(t, pairs, m) /\ \A k \in 0 .. Len(pairs) : Adds(f[k], t, pairs, m)
    BY InsertAllFacts
  <2>4. Len(pairs) \in 0 .. Len(pairs)
    OBVIOUS
  <2> QED BY <1>1, <2>1, <2>2, <2>3, <2>4
<1>3. /\ m \notin ToSet(loaded) /\ loaded' \in Seq(Modules) /\ Len(loaded') = Len(loaded) + 1
      /\ loaded'[Len(loaded) + 1] = m /\ \A i \in 1 .. Len(loaded) : loaded'[i] = loaded[i]
      /\ orderly' = orderly
  BY DEF ItabInv, AddItabs
<1>4. ToSet(loaded) \subseteq ToSet(loaded') /\ m \in ToSet(loaded')
  <2>1. Len(loaded) \in Nat /\ loaded \in Seq(Modules)
    BY DEF ItabInv
  <2> QED BY <1>3, <2>1 DEF ToSet
<1>5. Distinct(loaded')
  <2>1. \A i \in 1 .. Len(loaded) : loaded[i] # m
    BY <1>3 DEF ToSet, ItabInv
  <2> QED BY <1>3, <2>1 DEF Distinct, ItabInv
<1>6. HostKept' /\ Owned' /\ NoItabOfUnloaded'
  <2>1. \A p \in ToSet(Links[m]) : Owners(p) \subseteq {m, Host}
    BY ConstantsAssumption
  <2> QED BY <1>2, <1>3, <1>4, <2>1, AddsStep, ConstantsAssumption
<1>7. ASSUME orderly, NEW k \in Positions, entries'[k] # Nil PROVE OldPath(k)'
  <2>1. /\ entries'[k] \in Itabs /\ entries'[k].pair \in Pairs
        /\ \A j \in Positions : Probe(entries'[k].pair, j) \in Positions
    BY <1>2, <1>7, ProbeType DEF Tables, Itabs
  <2>2. \A a, b : Older(a, b) => Older(a, b)'
    <3>1. Len(loaded) \in Nat
      BY DEF ItabInv
    <3> QED BY <1>3, <3>1 DEF Older
  <2>3. CASE entries[k] # Nil
    <3>1. entries'[k] = entries[k]
      BY <1>2, <2>3 DEF Adds, Extends
    <3>2. PICK n \in Positions :
            /\ Probe(entries[k].pair, n) = k
            /\ \A j \in Positions : j < n =>
                 /\ entries[Probe(entries[k].pair, j)] # Nil
                 /\ Older(entries[Probe(entries[k].pair, j)].in, entries[k].in)
      BY <1>7, <2>3 DEF ItabInv, OldPath
    <3>3. \A j \in Positions : j < n =>
            /\ entries'[Probe(entries[k].pair, j)] = entries[Probe(entries[k].pair, j)]
      BY <1>2, <2>1, <3>1, <3>2 DEF Adds, Extends
    <3> QED BY <2>2, <3>1, <3>2, <3>3 DEF OldPath
  <2>4. CASE entries[k] = Nil
    <3>1. entries'[k].in = m /\ OnPath(entries', k)
      BY <1>2, <1>7, <2>4 DEF Adds
    <3>2. PICK n \in Positions :
            /\ Probe(entries'[k].pair, n) = k
            /\ \A j \in Positions : j < n => entries'[Probe(entries'[k].pair, j)] # Nil
      BY <3>1 DEF OnPath
    <3>3. \A a \in ToSet(loaded') \cup {Host} : Older(a, m)'
      <4>1. Len(loaded) \in Nat /\ Len(loaded') = Len(loaded) + 1
        BY <1>3 DEF ItabInv
      <4>2. ASSUME NEW i \in 1 .. Len(loaded') PROVE Older(loaded[i], m)'
        BY <1>3, <4>1, <4>2 DEF Older
      <4> QED BY <1>3, <4>2 DEF Older, ToSet
    <3>4. \A j \in Positions : entries'[j] # Nil => entries'[j].in \in ToSet(loaded') \cup {Host}
      BY <1>3, <1>6, <1>7 DEF Owned, NoItabOfUnloaded
    <3> QED BY <2>1, <3>1, <3>2, <3>3, <3>4 DEF OldPath
  <2> QED BY <2>3, <2>4
<1> QED BY <1>2, <1>3, <1>5, <1>6, <1>7 DEF ItabInv

LEMMA RemoveItabsStep == ASSUME ItabInv, NEW m \in Modules, RemoveItabs(m) PROVE ItabInv'
<1>1. PICK l \in 1 .. Len(loaded) : loaded[l] = m /\ loaded' = RemoveAt(loaded, l)
  BY DEF RemoveItabs, ItabInv
<1>2. /\ loaded' \in Seq(Modules) /\ Distinct(loaded') /\ ToSet(loaded') = ToSet(loaded) \ {m}
      /\ l = Len(loaded) => Len(loaded') = Len(loaded) - 1
                            /\ \A i \in 1 .. Len(loaded') : loaded'[i] = loaded[i]
  <2>1. PICK s \in Seq(Modules) : s = loaded
    BY DEF ItabInv
  <2>2. PICK r : r = loaded'
    OBVIOUS
  <2>3. Distinct(s) /\ l \in 1 .. Len(s) /\ r = RemoveAt(s, l)
    BY <1>1, <2>1, <2>2 DEF ItabInv
  <2>4. /\ r \in Seq(Modules) /\ Distinct(r) /\ ToSet(r) = ToSet(s) \ {s[l]}
        /\ l = Len(s) => Len(r) = Len(s) - 1 /\ \A i \in 1 .. Len(r) : r[i] = s[i]
    BY <2>3, RemoveAtFacts
  <2> QED BY <1>1, <2>1, <2>2, <2>4
<1>3. /\ entries \in Tables /\ entries' \in Tables /\ orderly' = orderly
      /\ \A k \in Positions : entries'[k] # Nil =>
           entries'[k] = entries[k] /\ entries[k].in # m /\ m \notin Owners(entries[k].pair)
      /\ \A k \in Positions : entries[k] # Nil /\ entries[k].in # m /\ m \notin Owners(entries[k].pair) =>
           entries'[k] = entries[k]
  BY DEF ItabInv, RemoveItabs, Tables, OfModule, Owners
<1>4. HostKept'
  <2>1. ASSUME NEW k \in Positions, HostTable[k] # Nil PROVE entries'[k] = HostTable[k]
    <3>1. entries[k] = HostTable[k] /\ entries[k].in = Host /\ Owners(entries[k].pair) = {Host}
      BY <2>1, HostTableFacts, ConstantsAssumption DEF ItabInv, HostKept, Extends
    <3> QED BY <1>3, <2>1, <3>1, ConstantsAssumption
  <2> QED BY <2>1 DEF HostKept, Extends, HostTable, Empty
<1>5. Owned' /\ NoItabOfUnloaded'
  BY <1>2, <1>3 DEF ItabInv, Owned, NoItabOfUnloaded
<1>6. ASSUME orderly, NEW k \in Positions, entries'[k] # Nil PROVE OldPath(k)'
  <2>1. l = Len(loaded)
    BY <1>1, <1>6 DEF RemoveItabs, InTurn, Last, ItabInv, Distinct
  <2>2. entries'[k] = entries[k] /\ entries[k].in # m /\ entries[k] # Nil
    BY <1>3, <1>6
  <2>3. PICK n \in Positions :
          /\ Probe(entries[k].pair, n) = k
          /\ \A j \in Positions : j < n =>
               /\ entries[Probe(entries[k].pair, j)] # Nil
               /\ Older(entries[Probe(entries[k].pair, j)].in, entries[k].in)
    BY <1>6, <2>2 DEF ItabInv, OldPath
  <2>4. \A a, b : Older(a, b) /\ b # m => a # m /\ Older(a, b)'
    <3>1. \A i \in 1 .. Len(loaded) : loaded[i] # m => i \in 1 .. Len(loaded')
      BY <1>1, <1>2, <2>1 DEF ItabInv
    <3>2. \A i \in 1 .. Len(loaded) : loaded[i] = m => i = Len(loaded)
      BY <1>1, <2>1 DEF ItabInv, Distinct
    <3>3. \A i, j \in 1 .. Len(loaded) : i <= j /\ loaded[j] # m => loaded[i] # m
      BY <1>1, <2>1, <3>2 DEF ItabInv
    <3> QED BY <1>2, <2>1, <3>1, <3>3, ConstantsAssumption DEF Older
  <2>5. ASSUME NEW j \in Positions, j < n
        PROVE  /\ entries'[Probe(entries[k].pair, j)] = entries[Probe(entries[k].pair, j)]
               /\ Older(entries[Probe(entries[k].pair, j)].in, entries[k].in)'
    <3>1. PICK o \in Positions : o = Probe(entries[k].pair, j)
      BY <1>3, <2>2, ProbeType DEF Tables, Itabs
    <3>2. entries[o] # Nil /\ entries[o] \in Itabs /\ Older(entries[o].in, entries[k].in)
      BY <1>3, <2>3, <2>5, <3>1 DEF Tables
    <3>3. entries[o].in # m /\ \A a, b : a = entries[o].in /\ b = entries[k].in => Older(a, b)'
      BY <2>2, <2>4, <3>2
    <3>4. m \notin Owners(entries[o].pair)
      BY <1>6, <3>2, <3>3, ConstantsAssumption DEF ItabInv, Owned, Itabs
    <3> QED BY <1>3, <2>2, <2>4, <3>1, <3>2, <3>3, <3>4
  <2> QED BY <2>2, <2>3, <2>5 DEF OldPath
<1> QED BY <1>2, <1>3, <1>4, <1>5, <1>6 DEF ItabInv

LEMMA InvStep == ItabInv /\ [Next]_vars => ItabInv'
<1> SUFFICES ASSUME ItabInv, [Next]_vars PROVE ItabInv'
  OBVIOUS
<1>1. ASSUME UNCHANGED vars PROVE ItabInv'
  <2>1. entries' = entries /\ loaded' = loaded /\ orderly' = orderly
    BY <1>1 DEF vars
  <2>2. HostKept' /\ (orderly' => \A k \in Positions : entries'[k] # Nil => OldPath(k)')
    BY <2>1 DEF ItabInv, HostKept, Extends, OldPath, Older, HostTable, Empty
  <2>3. Owned' /\ NoItabOfUnloaded'
    BY <2>1 DEF ItabInv, Owned, NoItabOfUnloaded
  <2> QED BY <2>1, <2>2, <2>3 DEF ItabInv, Distinct
<1> QED BY <1>1, GetItabStep, AddItabsStep, RemoveItabsStep DEF Next

LEMMA InvAlways == Spec => []ItabInv
BY InvInit, InvStep, PTL DEF Spec

\* Loading, unloading and type assertions keep the shape of the table, its count and
\* the list of modules.
THEOREM TypeCorrect == Spec => []TypeOK
<1>1. \A t : Filled(t) \in Nat
  <2>1. ASSUME NEW t PROVE Filled(t) \in Nat
    <3>1. IsFiniteSet(Positions)
      BY SizeFacts, FS_Interval DEF Positions
    <3>2. IsFiniteSet({i \in Positions : t[i] # Nil})
      BY <3>1, FS_Subset
    <3> QED BY <3>2, FS_CardinalityType DEF Filled
  <2> QED BY <2>1
<1>2. Init => TypeOK
  BY <1>1, InvInit DEF Init, ItabInv, TypeOK, Tables
<1>3. ItabInv' /\ TypeOK /\ [Next]_vars => TypeOK'
  <2> SUFFICES ASSUME ItabInv', TypeOK, [Next]_vars PROVE TypeOK'
    OBVIOUS
  <2>1. entries' \in [Positions -> Itabs \cup {Nil}] /\ loaded' \in Seq(Modules)
    BY DEF ItabInv, Tables
  <2>2. ASSUME NEW m \in Modules, RemoveItabs(m) PROVE count' \in Int
    <3>1. IsFiniteSet(Positions)
      BY SizeFacts, FS_Interval DEF Positions
    <3>2. Cardinality({i \in Positions : OfModule(m, entries[i])}) \in Nat
      BY <3>1, FS_Subset, FS_CardinalityType
    <3> QED BY <2>2, <3>2 DEF RemoveItabs, TypeOK
  <2>3. ASSUME NEW m \in Modules, AddItabs(m) PROVE count' \in Int
    BY <1>1, <2>3 DEF AddItabs, TypeOK
  <2>4. ASSUME NEW p \in Pairs, GetItab(p) PROVE count' \in Int
    BY <1>1, <2>4 DEF GetItab, TypeOK
  <2>5. count' \in Int
    BY <2>2, <2>3, <2>4 DEF Next, vars, TypeOK
  <2>6. orderly' \in BOOLEAN
    BY DEF TypeOK, Next, vars, GetItab, AddItabs, RemoveItabs
  <2> QED BY <2>1, <2>5, <2>6 DEF TypeOK
<1> QED BY <1>2, <1>3, InvAlways, PTL DEF Spec

\* Whatever hash function, table size and itabs: once a module is unloaded no entry
\* refers to its memory, neither an itab of its own nor one that the runtime made for
\* one of its types (iface.1.10.go:55-74).
THEOREM UnloadedLeavesNoItab == Spec => []NoItabOfUnloaded
<1>1. ItabInv => NoItabOfUnloaded
  BY DEF ItabInv
<1> QED BY <1>1, InvAlways, PTL

\* Freeing entries where they stand never hides an itab of the host, in any order of
\* loading and unloading; and newest first it hides none at all.
THEOREM LookupsSucceed == Spec => []EveryItabFound
<1>1. ItabInv => EveryItabFound
  <2> SUFFICES ASSUME ItabInv PROVE EveryItabFound
    OBVIOUS
  <2>1. ASSUME NEW p \in ToSet(HostPairs) PROVE Find(entries, p) = HostItab(p)
    <3>1. p \in Pairs
      BY ConstantsAssumption DEF ToSet
    <3>2. HostItab(p) # Nil
      BY <3>1, SizeFacts DEF Itabs, HostItab
    <3>3. HostTable \in Tables /\ entries \in Tables /\ Extends(entries, HostTable)
      BY HostTableFacts DEF ItabInv, HostKept
    <3> QED BY <3>1, <3>2, <3>3, HostTableFacts, FindKept
  <2>2. ASSUME orderly, NEW k \in Positions, entries[k] # Nil PROVE Find(entries, entries[k].pair) # Nil
    <3>1. OnPath(entries, k)
      BY <2>2 DEF ItabInv, OldPath, OnPath
    <3>2. entries \in Tables /\ entries[k].pair \in Pairs
      BY <2>2 DEF ItabInv, Tables, Itabs
    <3> QED BY <2>2, <3>1, <3>2, FindFacts
  <2> QED BY <2>1, <2>2 DEF EveryItabFound, HostItab
<1> QED BY <1>1, InvAlways, PTL

================================================================================

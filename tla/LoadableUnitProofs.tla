--------------------------- MODULE LoadableUnitProofs ---------------------------
(***************************************************************************)
(* Theorems about DepBuilder and LoadableUnit, for every set of well       *)
(* formed programs, every kind of call and any number of rounds and slots. *)
(***************************************************************************)
EXTENDS LoadableUnit, WellFoundedInduction, FiniteSetTheorems, TLAPS

(***************************************************************************)
(* Induction without an operator parameter: a set of naturals has a least  *)
(* element, and a recursion over a segment has a solution.                 *)
(***************************************************************************)

LEMMA LeastNatural ==
  ASSUME NEW S \in SUBSET Nat, S # {}
  PROVE  \E n \in S : \A k \in S : n <= k
<1>1. IsWellFoundedOn(OpToRel(<, Nat), Nat)
  BY NatLessThanWellFounded
<1>2. PICK n \in S : \A k \in S : ~ (<<k, n>> \in OpToRel(<, Nat))
  BY <1>1, WFMin
<1>3. \A k \in S : ~(k < n)
  BY <1>2 DEF OpToRel
<1> QED BY <1>3

LEMMA SegmentInduction ==
  ASSUME NEW N \in Nat, NEW G, 0 \in G, \A n \in 1 .. N : n - 1 \in G => n \in G
  PROVE  0 .. N \subseteq G
<1> DEFINE Lacking == {n \in 0 .. N : n \notin G}
<1>1. SUFFICES ASSUME Lacking # {} PROVE FALSE
  OBVIOUS
<1>2. PICK n \in Lacking : \A k \in Lacking : n <= k
  <2>1. Lacking \in SUBSET Nat
    OBVIOUS
  <2> HIDE DEF Lacking
  <2> QED BY <1>1, <2>1, LeastNatural
<1>3. n \in 1 .. N /\ n - 1 \in 0 .. N
  BY <1>2
<1> QED BY <1>2, <1>3

\* h starts from a and takes n steps of F.
Upto(n, T, a, F, h) ==
  h \in [0 .. n -> T] /\ h[0] = a /\ \A k \in 1 .. n : h[k] = F[<<k, h[k - 1]>>]

LEMMA SegmentRecursion ==
  ASSUME NEW N \in Nat, NEW T, NEW a \in T, NEW F \in [(1 .. N) \X T -> T]
  PROVE  \E h : Upto(N, T, a, F, h)
<1> DEFINE G == {n \in 0 .. N : \E h : Upto(n, T, a, F, h)}
<1>1. 0 \in G
  <2>1. Upto(0, T, a, F, [i \in 0 .. 0 |-> a])
    BY DEF Upto
  <2> QED BY <2>1
<1>2. ASSUME NEW n \in 1 .. N, n - 1 \in G PROVE n \in G
  <2>1. PICK h : Upto(n - 1, T, a, F, h)
    BY <1>2
  <2>2. PICK g : g = [i \in 0 .. n |-> IF i = n THEN F[<<n, h[n - 1]>>] ELSE h[i]]
    OBVIOUS
  <2>3. F[<<n, h[n - 1]>>] \in T
    BY <2>1 DEF Upto
  <2>4. g \in [0 .. n -> T] /\ g[0] = a
    BY <2>1, <2>2, <2>3 DEF Upto
  <2>5. ASSUME NEW k \in 1 .. n PROVE g[k] = F[<<k, g[k - 1]>>]
    <3>1. k - 1 \in 0 .. n - 1 /\ g[k - 1] = h[k - 1]
      BY <2>2
    <3>2. CASE k = n
      <4>1. g[n] = F[<<n, h[n - 1]>>]
        BY <2>2
      <4> QED BY <3>1, <3>2, <4>1
    <3>3. CASE k # n
      BY <2>1, <2>2, <3>1, <3>3 DEF Upto
    <3> QED BY <3>2, <3>3
  <2>6. Upto(n, T, a, F, g)
    BY <2>4, <2>5 DEF Upto
  <2> QED BY <2>6
<1>3. 0 .. N \subseteq G
  <2> HIDE DEF G
  <2> QED BY <1>1, <1>2, SegmentInduction
<1> QED BY <1>3

(***************************************************************************)
(* What is reached: Closure takes as many steps as there are nodes, and    *)
(* that is enough, since each step but the last ones adds a node.          *)
(***************************************************************************)

\* The steps of Closure, as a function.
Steps(nodes, from, next, f) ==
  LET N == Cardinality(nodes) IN
  /\ f \in [0 .. N -> SUBSET nodes]
  /\ f[0] = from /\ f[N] = Closure(nodes, from, next)
  /\ \A k \in 1 .. N : f[k] = Onward(next, f[k - 1])

LEMMA ClosureSteps ==
  ASSUME NEW nodes, IsFiniteSet(nodes), NEW from \in SUBSET nodes,
         NEW next \in [nodes -> SUBSET nodes]
  PROVE  \E f : Steps(nodes, from, next, f)
<1> DEFINE N == Cardinality(nodes)
           After(g, n) == IF n = 0 THEN from
                       ELSE UNION {Onward(next, before) : before \in {g[n - 1]}}
           Solves(g) == g = [n \in 0 .. N |-> After(g, n)]
<1>1. N \in Nat
  BY FS_CardinalityType
<1>2. \A B \in SUBSET nodes : Onward(next, B) \in SUBSET nodes
  BY DEF Onward
<1>3. \A B : UNION {Onward(next, before) : before \in {B}} = Onward(next, B)
  OBVIOUS
<1>4. \E g : Solves(g)
  <2>1. PICK F \in [(1 .. N) \X SUBSET nodes -> SUBSET nodes] :
          \A k \in 1 .. N : \A B \in SUBSET nodes : F[<<k, B>>] = Onward(next, B)
    <3> DEFINE G == [x \in (1 .. N) \X SUBSET nodes |-> Onward(next, x[2])]
    <3>1. G \in [(1 .. N) \X SUBSET nodes -> SUBSET nodes]
      BY <1>2
    <3>2. \A k \in 1 .. N : \A B \in SUBSET nodes : G[<<k, B>>] = Onward(next, B)
      OBVIOUS
    <3> QED BY <3>1, <3>2
  <2>2. PICK g : Upto(N, SUBSET nodes, from, F, g)
    BY <1>1, SegmentRecursion, Zenon
  <2>3. ASSUME NEW k \in 1 .. N PROVE g[k] = Onward(next, g[k - 1])
    <3>1. k - 1 \in 0 .. N
      BY <1>1
    <3> QED BY <2>1, <2>2, <3>1 DEF Upto
  <2>4. \A n \in 0 .. N : g[n] = After(g, n)
    BY <1>1, <1>3, <2>2, <2>3 DEF Upto
  <2> HIDE DEF After
  <2>5. g = [n \in 0 .. N |-> After(g, n)]
    <3>1. g \in [0 .. N -> SUBSET nodes]
      BY <2>2 DEF Upto
    <3> QED BY <2>4, <3>1
  <2> QED BY <2>5
<1>5. PICK f : f = CHOOSE g : Solves(g)
  OBVIOUS
<1>6. Solves(f)
  BY <1>4, <1>5
<1>7. f[N] = Closure(nodes, from, next)
  BY <1>5 DEF Closure
<1>8. f[0] = from /\ \A k \in 1 .. N : f[k] = Onward(next, f[k - 1])
  <2>1. f[0] = from
    BY <1>1, <1>6
  <2>2. ASSUME NEW k \in 1 .. N PROVE f[k] = Onward(next, f[k - 1])
    <3>1. k \in 0 .. N /\ k # 0
      BY <1>1
    <3>2. f[k] = After(f, k)
      BY <1>6, <3>1, Zenon
    <3> QED BY <1>3, <3>1, <3>2
  <2> QED BY <2>1, <2>2
<1>9. 0 .. N \subseteq {n \in 0 .. N : f[n] \in SUBSET nodes}
  <2> DEFINE G == {n \in 0 .. N : f[n] \in SUBSET nodes}
  <2>1. 0 \in G
    BY <1>1, <1>8
  <2>2. \A n \in 1 .. N : n - 1 \in G => n \in G
    BY <1>1, <1>2, <1>8
  <2> HIDE DEF G
  <2>3. 0 .. N \subseteq G
    BY <1>1, <2>1, <2>2, SegmentInduction
  <2> QED BY <2>3 DEF G
<1>10. f \in [0 .. N -> SUBSET nodes]
  BY <1>6, <1>9
<1> QED BY <1>7, <1>8, <1>10 DEF Steps

\* Closure holds what it starts from and all that this leads to ...
LEMMA ClosureIsClosed ==
  ASSUME NEW nodes, IsFiniteSet(nodes), NEW from \in SUBSET nodes,
         NEW next \in [nodes -> SUBSET nodes], NEW C, C = Closure(nodes, from, next)
  PROVE  C \in SUBSET nodes /\ from \subseteq C /\ \A s \in C : next[s] \subseteq C
<1> DEFINE N == Cardinality(nodes)
<1>1. N \in Nat
  BY FS_CardinalityType
<1>0. PICK f : Steps(nodes, from, next, f)
  BY ClosureSteps, Zenon
<1>2. /\ f \in [0 .. N -> SUBSET nodes] /\ f[0] = from /\ f[N] = C
      /\ \A k \in 1 .. N : f[k] = Onward(next, f[k - 1])
  BY <1>0 DEF Steps
<1> HIDE DEF N
<1>3. C \in SUBSET nodes
  BY <1>1, <1>2
<1>4. from \subseteq C
  <2> DEFINE G == {n \in 0 .. N : from \subseteq f[n]}
  <2>1. 0 \in G
    BY <1>1, <1>2
  <2>2. \A n \in 1 .. N : n - 1 \in G => n \in G
    BY <1>1, <1>2 DEF Onward
  <2> HIDE DEF G
  <2>3. 0 .. N \subseteq G
    BY <1>1, <2>1, <2>2, SegmentInduction
  <2> QED BY <1>1, <1>2, <2>3 DEF G
<1>5. CASE \E k \in 1 .. N : f[k] = f[k - 1]
  <2>1. PICK k \in 1 .. N : f[k] = f[k - 1]
    BY <1>5
  <2> DEFINE G == {n \in 0 .. N : n < k \/ f[n] = f[k - 1]}
  <2>2. 0 \in G
    BY <1>1
  <2>3. ASSUME NEW n \in 1 .. N, n - 1 \in G PROVE n \in G
    <3>1. CASE n > k
      <4>1. f[n - 1] = f[k - 1]
        BY <1>1, <2>3, <3>1
      <4> QED BY <1>1, <1>2, <2>1, <4>1
    <3>2. CASE n <= k
      BY <1>1, <2>1, <3>2
    <3> QED BY <1>1, <3>1, <3>2
  <2>4. 0 .. N \subseteq G
    <3> HIDE DEF G
    <3> QED BY <1>1, <2>2, <2>3, SegmentInduction
  <2>5. C = f[k - 1]
    <3>1. N \in G /\ N >= k
      BY <1>1, <2>4
    <3> QED BY <1>1, <1>2, <2>1, <3>1
  <2>6. Onward(next, C) = C
    BY <1>2, <2>1, <2>5
  <2> QED BY <1>3, <1>4, <2>6 DEF Onward
<1>6. CASE \A k \in 1 .. N : f[k] # f[k - 1]
  <2> DEFINE G == {n \in 0 .. N : Cardinality(f[n]) >= n}
  <2>0. \A n \in 0 .. N : IsFiniteSet(f[n]) /\ Cardinality(f[n]) \in Nat
    <3>1. ASSUME NEW n \in 0 .. N PROVE IsFiniteSet(f[n]) /\ Cardinality(f[n]) \in Nat
      <4>1. IsFiniteSet(f[n])
        BY <1>2, FS_Subset
      <4> QED BY <4>1, FS_CardinalityType
    <3> QED BY <3>1
  <2>1. 0 \in G
    BY <1>1, <2>0
  <2>2. ASSUME NEW n \in 1 .. N, n - 1 \in G PROVE n \in G
    <3>1. n - 1 \in 0 .. N /\ n \in 0 .. N
      BY <1>1
    <3>2. f[n - 1] \in SUBSET f[n] /\ f[n - 1] # f[n]
      BY <1>2, <1>6 DEF Onward
    <3>3. IsFiniteSet(f[n]) /\ Cardinality(f[n]) \in Nat /\ Cardinality(f[n - 1]) \in Nat
      BY <2>0, <3>1
    <3>4. Cardinality(f[n - 1]) <= Cardinality(f[n]) /\ Cardinality(f[n]) # Cardinality(f[n - 1])
      BY <3>2, <3>3, FS_Subset
    <3>5. Cardinality(f[n - 1]) >= n - 1
      BY <2>2
    <3> QED BY <3>1, <3>3, <3>4, <3>5
  <2>3. 0 .. N \subseteq G
    <3> HIDE DEF G
    <3> QED BY <1>1, <2>1, <2>2, SegmentInduction
  <2>4. Cardinality(C) >= N /\ Cardinality(C) \in Nat
    <3>1. N \in G
      BY <1>1, <2>3
    <3> QED BY <1>1, <1>2, <2>0, <3>1
  <2>5. Cardinality(C) <= N
    BY <1>3, FS_Subset DEF N
  <2>6. C = nodes
    <3>1. Cardinality(nodes) = Cardinality(C)
      BY <1>1, <2>4, <2>5 DEF N
    <3> QED BY <1>3, <3>1, FS_Subset
  <2> QED BY <1>3, <1>4, <2>6
<1> QED BY <1>5, <1>6

\* ... and nothing else.
LEMMA ClosureIsLeast ==
  ASSUME NEW nodes, IsFiniteSet(nodes), NEW from \in SUBSET nodes,
         NEW next \in [nodes -> SUBSET nodes],
         NEW X, from \subseteq X, \A s \in X \cap nodes : next[s] \subseteq X
  PROVE  Closure(nodes, from, next) \subseteq X
<1> DEFINE N == Cardinality(nodes)
<1>1. N \in Nat
  BY FS_CardinalityType
<1>0. PICK f : Steps(nodes, from, next, f)
  BY ClosureSteps, Zenon
<1>2. /\ f \in [0 .. N -> SUBSET nodes] /\ f[0] = from /\ f[N] = Closure(nodes, from, next)
      /\ \A k \in 1 .. N : f[k] = Onward(next, f[k - 1])
  BY <1>0 DEF Steps
<1> HIDE DEF N
<1> DEFINE G == {n \in 0 .. N : f[n] \subseteq X}
<1>3. 0 \in G
  BY <1>1, <1>2
<1>4. ASSUME NEW n \in 1 .. N, n - 1 \in G PROVE n \in G
  <2>1. n - 1 \in 0 .. N /\ f[n - 1] \subseteq X /\ f[n - 1] \subseteq nodes
    BY <1>1, <1>2, <1>4
  <2> QED BY <1>2, <2>1 DEF Onward
<1>5. 0 .. N \subseteq G
  <2> HIDE DEF G
  <2> QED BY <1>1, <1>3, <1>4, SegmentInduction
<1> QED BY <1>1, <1>2, <1>5

(***************************************************************************)
(* What ReadObjs finds in well formed programs.                            *)
(***************************************************************************)

LEMMA SymbolTypes ==
  ASSUME NEW p, WellFormed(p), NEW q
  PROVE  /\ Defined(p, q) \subseteq p.syms /\ Unread(p, q) \subseteq Defined(p, q)
         /\ Fakes(p, q) \subseteq p.syms /\ Forced(p, q) \subseteq p.host
         /\ EdgesOf(p, q) \in [p.syms -> SUBSET p.syms]
         /\ Reached(p, q) \subseteq p.syms /\ Reachable(p, q) \subseteq p.syms
         /\ External(p, q) \subseteq p.syms
<1> USE DEF WellFormed
<1>1. Defined(p, q) \subseteq p.syms /\ Unread(p, q) \subseteq Defined(p, q)
  BY DEF Defined, Unread
<1>2. Fakes(p, q) \subseteq p.syms
  BY DEF Fakes, Unread
<1>3. Forced(p, q) \subseteq p.host
  BY DEF Forced
<1>4. \A s \in p.syms : Edges(p, q, s) \subseteq p.syms
  <2> SUFFICES ASSUME NEW s \in p.syms PROVE Edges(p, q, s) \subseteq p.syms
    OBVIOUS
  <2>1. s \in DOMAIN p.byIndex => TypeOf(p, q, s) \in p.syms
    BY DEF TypeOf
  <2> QED BY <2>1 DEF Edges
<1>5. EdgesOf(p, q) \in [p.syms -> SUBSET p.syms]
  BY <1>4 DEF EdgesOf
<1>6. Reached(p, q) \subseteq p.syms
  <2> DEFINE from == Defined(p, <<q[Len(q)]>>) \cup (Defined(p, q) \cap p.host) \cup Unread(p, q)
  <2>1. from \in SUBSET p.syms
    BY <1>1 DEF Defined
  <2>2. Reached(p, q) = Closure(p.syms, from, EdgesOf(p, q))
    BY DEF Reached
  <2> HIDE DEF from
  <2> QED BY <1>5, <2>1, <2>2, ClosureIsClosed
<1>7. Reachable(p, q) \subseteq p.syms
  <2>1. PICK start : start = Reached(p, q) \cup Forced(p, q)
    OBVIOUS
  <2>2. start \in SUBSET p.syms
    BY <1>3, <1>6, <2>1
  <2>3. Reachable(p, q) = Closure(p.syms, start, EdgesOf(p, q))
    BY <2>1 DEF Reachable
  <2> QED BY <1>5, <2>2, <2>3, ClosureIsClosed
<1>8. External(p, q) \subseteq p.syms
  <2>1. UNION {p.refs[s] : s \in Defined(p, q) \cap Reachable(p, q)} \subseteq p.syms
    <3>1. \A s \in p.syms : p.refs[s] \subseteq p.syms
      OBVIOUS
    <3>2. \A s \in Defined(p, q) \cap Reachable(p, q) : p.refs[s] \subseteq p.syms
      BY <1>1, <3>1
    <3> QED BY <3>2
  <2>2. Fakes(p, q) \subseteq p.syms /\ Forced(p, q) \subseteq p.syms
    BY <1>2, <1>3
  <2> QED BY <2>1, <2>2 DEF External
<1> QED BY <1>1, <1>2, <1>3, <1>5, <1>6, <1>7, <1>8

\* Reachable holds main's symbols, the variables whose type is not read, and all that
\* its symbols lead to.
LEMMA ReachableIsClosed ==
  ASSUME NEW p, WellFormed(p), NEW q
  PROVE  /\ Defined(p, <<q[Len(q)]>>) \subseteq Reachable(p, q)
         /\ Unread(p, q) \subseteq Reachable(p, q)
         /\ \A s \in Reachable(p, q) : Edges(p, q, s) \subseteq Reachable(p, q)
<1> DEFINE main == Defined(p, <<q[Len(q)]>>)
           from == main \cup (Defined(p, q) \cap p.host) \cup Unread(p, q)
<1>1. IsFiniteSet(p.syms) /\ p.host \subseteq p.syms
  BY DEF WellFormed
<1>2. from \in SUBSET p.syms
  <2>1. main \subseteq p.syms
    BY DEF Defined
  <2> QED BY <2>1, SymbolTypes
<1>3. Reached(p, q) = Closure(p.syms, from, EdgesOf(p, q))
  BY DEF Reached
<1>4. from \subseteq Reached(p, q)
  <2> HIDE DEF from
  <2> QED BY <1>1, <1>2, <1>3, SymbolTypes, ClosureIsClosed
<1>5. /\ Reached(p, q) \subseteq Reachable(p, q)
      /\ \A s \in Reachable(p, q) : EdgesOf(p, q)[s] \subseteq Reachable(p, q)
  <2>1. PICK start : start = Reached(p, q) \cup Forced(p, q)
    OBVIOUS
  <2>2. start \in SUBSET p.syms /\ EdgesOf(p, q) \in [p.syms -> SUBSET p.syms]
    BY <1>1, <2>1, SymbolTypes
  <2>3. Reachable(p, q) = Closure(p.syms, start, EdgesOf(p, q))
    BY <2>1 DEF Reachable
  <2>4. /\ start \subseteq Reachable(p, q)
        /\ \A s \in Reachable(p, q) : EdgesOf(p, q)[s] \subseteq Reachable(p, q)
    BY <1>1, <2>2, <2>3, ClosureIsClosed
  <2> QED BY <2>1, <2>4
<1>6. \A s \in Reachable(p, q) : EdgesOf(p, q)[s] = Edges(p, q, s)
  BY SymbolTypes DEF EdgesOf
<1> QED BY <1>4, <1>5, <1>6

\* What ReadObjs asks for are symbols of the program, and packages.
LEMMA QuestionTypes ==
  ASSUME NEW p, WellFormed(p), NEW q
  PROVE  /\ \A known, types, ignored, lib :
              UnresolvedExternalSymbols(p, q, known, types, ignored, lib) \subseteq p.syms
         /\ PackageReferences(p, q) \subseteq {p.pkgOf[s] : s \in p.syms}
         /\ NoPackage \notin PackageReferences(p, q)
<1>1. \A known, types, ignored, lib :
        UnresolvedExternalSymbols(p, q, known, types, ignored, lib) \subseteq p.syms
  BY SymbolTypes DEF UnresolvedExternalSymbols, HostTypesToRebuild, Absent, NotShared
<1>2. Fakes(p, q) \cup Forced(p, q) \subseteq p.syms
  BY SymbolTypes DEF WellFormed
<1>3. \A s \in Fakes(p, q) \cup Forced(p, q) : p.pkgOf[s] # NoPackage
  BY DEF Fakes, Unread, Forced, WellFormed
<1> QED BY <1>1, <1>2, <1>3 DEF PackageReferences

\* Who knows more misses less.
LEMMA AbsentShrinks ==
  ASSUME NEW p, NEW q, NEW known, NEW more, known \subseteq more
  PROVE  Absent(p, q, more) \subseteq Absent(p, q, known)
BY DEF Absent

\* When nothing is missing, the files read and what is known have all that main leads
\* to, and no type is left that is known by its index only.
LEMMA NothingMissing ==
  ASSUME NEW p, WellFormed(p), NEW q, NEW known,
         p.host \subseteq known, known \subseteq p.host \cup p.libs,
         NoPackage \notin PkgsOf(q), Absent(p, q, known) = {}
  PROVE  /\ Unread(p, q) = {}
         /\ \A s \in Reachable(p, q) \cap Defined(p, q) :
              p.refs[s] \subseteq Reachable(p, q) \cap (Defined(p, q) \cup known)
         /\ \A s \in Reachable(p, q) \cap Defined(p, q) \cap DOMAIN p.byIndex :
              p.byIndex[s].type \in Reachable(p, q) \cap Defined(p, q)
<1> DEFINE R == Reachable(p, q)
<1>1. Unread(p, q) = {}
  <2> SUFFICES ASSUME NEW v \in Unread(p, q) PROVE FALSE
    OBVIOUS
  <2>1. PICK fake : fake = p.byIndex[v].fake
    OBVIOUS
  <2>2. v \in DOMAIN p.byIndex /\ v \in Defined(p, q) /\ v \in R
    BY ReachableIsClosed DEF Unread
  <2>3. fake \in p.syms /\ fake \notin p.host \cup p.libs /\ p.definedIn[fake] = NoPackage
    BY <2>1, <2>2 DEF WellFormed
  <2>4. fake \in Edges(p, q, v)
    BY <2>1, <2>2 DEF Edges, TypeOf
  <2>5. fake \in R
    BY <2>2, <2>4, ReachableIsClosed
  <2>6. fake \notin Defined(p, q) /\ fake \notin Forced(p, q)
    BY <2>3, SymbolTypes DEF Defined
  <2>7. fake \in External(p, q)
    <3>1. fake \in Fakes(p, q)
      BY <2>1 DEF Fakes
    <3> QED BY <2>6, <3>1 DEF External
  <2> QED BY <2>3, <2>5, <2>6, <2>7 DEF Absent
<1>2. ASSUME NEW s \in R \cap Defined(p, q), NEW t \in p.refs[s]
      PROVE  t \in R \cap (Defined(p, q) \cup known)
  <2>1. t \in R
    <3>1. t \in Edges(p, q, s)
      BY DEF Edges
    <3> QED BY <3>1, ReachableIsClosed
  <2>2. t \in External(p, q) \/ t \in Defined(p, q)
    BY DEF External
  <2>3. t \in External(p, q) => t \in known \cup Forced(p, q)
    BY <2>1 DEF Absent
  <2> QED BY <2>1, <2>2, <2>3, SymbolTypes
<1>3. ASSUME NEW s \in R \cap Defined(p, q) \cap DOMAIN p.byIndex
      PROVE  p.byIndex[s].type \in R \cap Defined(p, q)
  <2>1. p.byIndex[s].type \in Edges(p, q, s)
    BY <1>1 DEF Edges, TypeOf
  <2>2. p.byIndex[s].type \in p.syms
    BY DEF WellFormed
  <2>3. p.definedIn[p.byIndex[s].type] \in PkgsOf(q)
    BY <1>1 DEF Unread
  <2> QED BY <2>1, <2>2, <2>3, ReachableIsClosed DEF Defined
<1> QED BY <1>1, <1>2, <1>3

(***************************************************************************)
(* The search.                                                             *)
(***************************************************************************)
\* The packages that are read end with main; only packages are read or built, and what
\* main depends on is read or may still be built.
PathsInv ==
  /\ paths \in Seq(Packages)
  /\ paths = <<>> => phase \in {"prepare", "read", "return", "returned"} /\ result \in {"none", "failed"}
  /\ paths # <<>> => paths[Len(paths)] = Main
  /\ NoPackage \notin sortedDeps \cup toStart \cup PkgsOf(paths)
  /\ phase \in {"begin", "start", "wait", "final"} => w.deps \ PkgsOf(paths) \subseteq sortedDeps

\* Who has come past the making of a build directory will remove it, or is a package's
\* call that looks for its absolute path.
StageInv ==
  /\ stage \in 1 .. Len(Stages[call.kind])
  /\ "build dir" \in Passed /\ ~call.keep => "build" \in deferred \/ Stages[call.kind][stage] = "abs"

\* Goroutines build while the caller starts them or waits; what is deferred is removed.
BuildInv ==
  /\ StageInv
  /\ building # {} => phase \in {"start", "wait"}
  /\ toStart # {} => phase = "start"
  /\ phase = "returned" => "build" \notin dirs \cap deferred
  /\ depth > MaxRecursionDepth => phase \in {"begin", "return", "returned"}
  /\ result # "none" <=> phase \in {"return", "returned"}

\* What the last reading asked for covers all that is missing and all types to be
\* rebuilt; the search is settled if that is nothing or cannot be built.
Asked ==
  /\ Absent(w, paths, Known) \subseteq unresolved
  /\ unresolved \cap w.libs \subseteq cgo
  /\ \E types \in ReachableTypes(w, paths) :
       HostTypesToRebuild(w, paths, types, std) \subseteq unresolved
Settled ==
  /\ Asked
  /\ unresolved = {} \/ (Missing = {} /\ w.deps \ PkgsOf(paths) \subseteq sortedDeps)

AskedInv ==
  /\ phase = "begin" => Asked
  /\ phase = "final" \/ result \in {"linked", "unresolved"} => Settled
  /\ result = "linked" => StillMissing(w, paths, Known) = {}
  /\ result = "unresolved" => StillMissing(w, paths, Known) # {}
  /\ std \subseteq w.std

\* A package entered before those that are there.
LEMMA Entered ==
  ASSUME NEW P, NEW p \in P, NEW q \in Seq(P)
  PROVE  /\ <<p>> \o q \in Seq(P) /\ <<p>> \o q # <<>>
         /\ PkgsOf(<<p>> \o q) = {p} \cup PkgsOf(q)
         /\ q # <<>> => (<<p>> \o q)[Len(<<p>> \o q)] = q[Len(q)]
<1> DEFINE r == <<p>> \o q
<1>1. /\ r \in Seq(P) /\ Len(r) = Len(q) + 1 /\ Len(q) \in Nat
      /\ r[1] = p /\ \A i \in 2 .. Len(q) + 1 : r[i] = q[i - 1]
  OBVIOUS
<1> HIDE DEF r
<1>2. r # <<>>
  BY <1>1
<1>3. PkgsOf(r) = {p} \cup PkgsOf(q)
  <2>1. ASSUME NEW x \in PkgsOf(r) PROVE x \in {p} \cup PkgsOf(q)
    <3>1. PICK i \in 1 .. Len(r) : x = r[i]
      BY <2>1 DEF PkgsOf
    <3>2. CASE i = 1
      BY <1>1, <3>1, <3>2
    <3>3. CASE i # 1
      <4>1. i - 1 \in 1 .. Len(q) /\ x = q[i - 1]
        BY <1>1, <3>1, <3>3
      <4> QED BY <4>1 DEF PkgsOf
    <3> QED BY <3>2, <3>3
  <2>2. ASSUME NEW x \in PkgsOf(q) PROVE x \in PkgsOf(r)
    <3>1. PICK i \in 1 .. Len(q) : x = q[i]
      BY <2>2 DEF PkgsOf
    <3>2. i + 1 \in 1 .. Len(r) /\ r[i + 1] = x
      BY <1>1, <3>1
    <3> QED BY <3>2 DEF PkgsOf
  <2>3. p \in PkgsOf(r)
    <3>1. 1 \in 1 .. Len(r)
      BY <1>1
    <3> QED BY <1>1, <3>1 DEF PkgsOf
  <2> QED BY <2>1, <2>2, <2>3
<1>4. q # <<>> => r[Len(r)] = q[Len(q)]
  <2>1. ASSUME q # <<>> PROVE Len(q) # 0
    BY <2>1
  <2> QED BY <1>1, <2>1
<1> QED BY <1>1, <1>2, <1>3, <1>4 DEF r

LEMMA OnlyMain == PkgsOf(<<Main>>) = {Main} /\ PkgsOf(<<>>) = {}
BY DEF PkgsOf

\* The inductive invariant.
IInv == TypeOK /\ PathsInv /\ BuildInv /\ AskedInv

LEMMA StagesThereAre ==
  ASSUME NEW kind \in {"files", "text", "package", "remote"}
  PROVE  Len(Stages[kind]) \in Nat \ {0}
<1>1. /\ Len(FilesStages) = 8 /\ Len(TextStages) = 8
      /\ Len(PackageStages) = 10 /\ Len(RemoteStages) = 11
  BY DEF FilesStages, TextStages, PackageStages, RemoteStages
<1> QED BY <1>1 DEF Stages

LEMMA InitIInv == Init => IInv
<1> SUFFICES ASSUME Init PROVE IInv
  OBVIOUS
<1> USE DEF Init
<1>1. TypeOK
  <2>1. PkgsOf(paths) = {} /\ depth \in 0 .. MaxRecursionDepth + 1
    BY BuilderAssumption, OnlyMain
  <2> QED BY <2>1 DEF TypeOK, Phases, Results
<1>2. PathsInv
  BY OnlyMain DEF PathsInv
<1>3. BuildInv
  <2>1. StageInv
    <3>1. Passed = {}
      BY DEF Passed
    <3>2. Len(Stages[call.kind]) \in Nat \ {0}
      BY BuilderAssumption, StagesThereAre DEF Stages
    <3> QED BY <3>1, <3>2 DEF StageInv
  <2> QED BY <2>1, BuilderAssumption DEF BuildInv
<1>4. AskedInv
  BY DEF AskedInv
<1> QED BY <1>1, <1>2, <1>3, <1>4 DEF IInv

LEMMA StepType ==
  ASSUME IInv, [Next]_vars
  PROVE  TypeOK'
<1> USE DEF context, round, search, prepared, files, Return, Phases, Results
<1>0. TypeOK /\ PathsInv /\ BuildInv
  BY DEF IInv
<1>w. WellFormed(w)
  BY <1>0, ProgramsAssumption DEF TypeOK
<1>p. w' = w /\ call' = call /\ Packages' = Packages
  <2>1. w' = w /\ call' = call
    BY DEF Next, Caller, Prepare, GoList, GoGet, GoListStd, MakeDirectory, AbsPath, WriteText, ExecBuild,
           PrepareFails, ReadMain, ReadFails, TooDeep, NothingToBuild, BeginRound, StartBuild,
           BuildsFail, EndRound, Finish, Cleanup, Goroutine, EndBuild, FreeSlot, Others, OthersBuild, OthersRemove, vars
  <2> QED BY <2>1 DEF Packages
<1>a. ASSUME Advance PROVE stage' \in Nat /\ phase' \in Phases
  <2>1. \/ phase' = "read" /\ stage' = stage
        \/ phase' = phase /\ stage' = stage + 1
    BY <1>a, Zenon DEF Advance
  <2>2. phase \in Phases /\ stage \in Nat
    BY <1>0 DEF TypeOK
  <2> QED BY <2>1, <2>2
<1>1. CASE GoList
  BY <1>0, <1>a, <1>p, <1>1 DEF GoList, TypeOK
<1>2. CASE GoGet
  BY <1>0, <1>a, <1>p, <1>2 DEF GoGet, TypeOK
<1>3. CASE GoListStd
  <2>1. std' \subseteq Packages
    BY <1>3 DEF GoListStd, Packages
  <2> QED BY <1>0, <1>a, <1>p, <1>3, <2>1 DEF GoListStd, TypeOK
<1>4. CASE MakeDirectory
  BY <1>0, <1>a, <1>p, <1>4 DEF MakeDirectory, TypeOK
<1>5. CASE WriteText \/ AbsPath
  BY <1>0, <1>a, <1>p, <1>5 DEF WriteText, AbsPath, TypeOK
<1>6. CASE ExecBuild
  <2>1. archives' \subseteq Packages
    BY <1>0, <1>6 DEF ExecBuild, TypeOK, Packages
  <2> QED BY <1>0, <1>a, <1>p, <1>6, <2>1 DEF ExecBuild, TypeOK
<1>7. CASE PrepareFails
  BY <1>0, <1>p, <1>7 DEF PrepareFails, TypeOK
<1>8. CASE ReadMain
  <2>1. /\ unresolved' \subseteq w.syms
        /\ PackageReferences(w, <<Main>>) \subseteq {w.pkgOf[s] : s \in w.syms}
    BY <1>w, <1>8, QuestionTypes DEF ReadMain
  <2>2. cgo' \subseteq w.libs
    BY <1>0, <1>p, <1>8 DEF ReadMain, AddCGoSymbols, TypeOK
  <2>3. phase' \in Phases /\ result' \in Results
    BY <1>0, <1>p, <1>8 DEF ReadMain, TypeOK
  <2>4. paths' = <<Main>> /\ PkgsOf(paths') \subseteq Packages
    BY <1>8, OnlyMain DEF ReadMain, Packages
  <2>5. sortedDeps' \subseteq Packages
    BY <1>8, <2>1 DEF ReadMain, Packages
  <2> QED BY <1>0, <1>p, <1>8, <2>1, <2>2, <2>3, <2>4, <2>5 DEF ReadMain, TypeOK
<1>9. CASE ReadFails
  BY <1>0, <1>p, <1>9 DEF ReadFails, TypeOK
<1>10. CASE TooDeep
  BY <1>0, <1>p, <1>10 DEF TooDeep, TypeOK
<1>11. CASE NothingToBuild
  BY <1>0, <1>p, <1>11 DEF NothingToBuild, TypeOK
<1>12. CASE BeginRound
  <2>1. Missing \subseteq sortedDeps
    BY DEF Missing
  <2> QED BY <1>0, <1>p, <1>12, <2>1 DEF BeginRound, TypeOK
<1>13. CASE StartBuild
  <2>1. PICK p \in toStart : /\ toStart' = toStart \ {p} /\ building' = building \cup {p}
                             /\ paths' = IF p \in PkgsOf(paths) THEN paths ELSE <<p>> \o paths
    BY <1>13 DEF StartBuild
  <2>2. p \in Packages /\ paths \in Seq(Packages)
    BY <1>0 DEF TypeOK, PathsInv, Packages
  <2>3. PkgsOf(paths') \subseteq PkgsOf(paths) \cup {p}
    BY <2>1, <2>2, Entered
  <2>4. phase' \in Phases
    BY <1>0, <1>p, <1>13 DEF StartBuild, TypeOK
  <2>5. PkgsOf(paths') \subseteq Packages /\ toStart' \cup building' \subseteq Packages
    BY <1>0, <2>1, <2>2, <2>3 DEF TypeOK
  <2>6. UNCHANGED <<context, prepared, files, cgo, sortedDeps, unresolved, depth, freeing, errs, result>>
    BY <1>13 DEF StartBuild
  <2> QED BY <1>0, <1>p, <2>4, <2>5, <2>6 DEF TypeOK
<1>14. CASE BuildsFail
  BY <1>0, <1>p, <1>14 DEF BuildsFail, TypeOK
<1>15. CASE EndRound
  <2>1. /\ unresolved' \subseteq w.syms
        /\ PackageReferences(w, paths) \subseteq {w.pkgOf[s] : s \in w.syms}
    BY <1>w, <1>15, QuestionTypes DEF EndRound
  <2>2. cgo' \subseteq w.libs
    BY <1>0, <1>p, <1>15 DEF EndRound, AddCGoSymbols, TypeOK
  <2>3. depth' \in 0 .. MaxRecursionDepth + 1
    <3>1. depth \in 0 .. MaxRecursionDepth + 1 /\ depth' \in {depth, depth + 1}
      BY <1>0, <1>15 DEF EndRound, TypeOK
    <3>2. ~ (depth > MaxRecursionDepth)
      BY <1>0, <1>15 DEF EndRound, BuildInv
    <3> QED BY <3>1, <3>2, BuilderAssumption
  <2>4. phase' \in Phases
    BY <1>0, <1>p, <1>15 DEF EndRound, TypeOK
  <2>5. sortedDeps' \subseteq Packages
    <3>1. sortedDeps \subseteq Packages /\ PackageReferences(w, paths) \subseteq Packages
      BY <1>0, <2>1 DEF TypeOK, Packages
    <3> QED BY <1>15, <3>1 DEF EndRound
  <2> QED BY <1>0, <1>p, <1>15, <2>1, <2>2, <2>3, <2>4, <2>5 DEF EndRound, TypeOK
<1>16. CASE Finish
  BY <1>0, <1>p, <1>16 DEF Finish, TypeOK
<1>17. CASE Cleanup
  BY <1>0, <1>p, <1>17 DEF Cleanup, TypeOK, Remove
<1>18. ASSUME NEW p \in building \cup freeing, Goroutine(p) PROVE TypeOK'
  <2>1. CASE EndBuild(p)
    BY <1>0, <1>p, <1>18, <2>1 DEF EndBuild, TypeOK
  <2>2. CASE FreeSlot(p)
    BY <1>0, <1>p, <1>18, <2>2 DEF FreeSlot, TypeOK
  <2> QED BY <1>18, <2>1, <2>2 DEF Goroutine
<1>19. CASE OthersRemove
  <2>1. dirs' \subseteq dirs /\ archives' \subseteq archives
    BY <1>19 DEF OthersRemove, Remove
  <2> QED BY <1>0, <1>p, <1>19, <2>1 DEF OthersRemove, TypeOK
<1>21. CASE OthersBuild
  <2>1. archives' \subseteq archives \cup {Main} \cup PkgsOf(paths) /\ dirs' \subseteq dirs \cup {"tmp", "build"}
    BY <1>21 DEF OthersBuild
  <2>2. archives' \subseteq Packages
    BY <1>0, <2>1 DEF TypeOK, Packages
  <2> QED BY <1>0, <1>p, <1>21, <2>1, <2>2 DEF OthersBuild, TypeOK
<1>20. CASE UNCHANGED vars
  BY <1>0, <1>p, <1>20 DEF TypeOK, vars
<1> QED
  BY <1>1, <1>2, <1>3, <1>4, <1>5, <1>6, <1>7, <1>8, <1>9, <1>10, <1>11, <1>12, <1>13, <1>14,
     <1>15, <1>16, <1>17, <1>18, <1>19, <1>20, <1>21 DEF Next, Caller, Prepare, Others

\* The steps that leave the search as it is.
Elsewhere ==
  \/ Prepare \/ PrepareFails \/ ReadFails \/ TooDeep \/ Cleanup \/ Others \/ BuildsFail
  \/ \E p \in building \cup freeing : Goroutine(p)
  \/ UNCHANGED vars

LEMMA Apart ==
  ASSUME Elsewhere
  PROVE  /\ w' = w /\ std' \in {std, w.std, {}}
         /\ std' # std => phase = "prepare"
         /\ cgo' = cgo /\ sortedDeps' = sortedDeps /\ unresolved' = unresolved
         /\ paths' = paths /\ depth' = depth /\ toStart' = toStart
         /\ \/ phase' = phase /\ result' = result
            \/ phase' = "return" /\ result' = "failed"
            \/ phase' = "return" /\ result' = "too deep" /\ phase = "begin"
            \/ phase = "prepare" /\ phase' = "read" /\ result' = result
            \/ phase = "return" /\ phase' = "returned" /\ result' = result
<1> USE DEF context, round, search, prepared, files, Return
<1>1. CASE Prepare
  BY <1>1 DEF Prepare, GoList, GoGet, GoListStd, MakeDirectory, AbsPath, WriteText, ExecBuild, At, Advance
<1>2. CASE PrepareFails \/ ReadFails \/ TooDeep \/ BuildsFail
  BY <1>2 DEF PrepareFails, ReadFails, TooDeep, BuildsFail
<1>3. CASE Cleanup
  BY <1>3 DEF Cleanup
<1>4. CASE Others
  BY <1>4 DEF Others, OthersBuild, OthersRemove
<1>5. CASE \E p \in building \cup freeing : Goroutine(p)
  BY <1>5 DEF Goroutine, EndBuild, FreeSlot
<1>6. CASE UNCHANGED vars
  BY <1>6 DEF vars
<1> QED BY <1>1, <1>2, <1>3, <1>4, <1>5, <1>6 DEF Elsewhere

LEMMA StepContext == [Next]_vars => w' = w /\ call' = call
BY DEF Next, Caller, Prepare, GoList, GoGet, GoListStd, MakeDirectory, AbsPath, WriteText, ExecBuild,
       PrepareFails, ReadMain, ReadFails, TooDeep, NothingToBuild, BeginRound, StartBuild,
       BuildsFail, EndRound, Finish, Cleanup, Goroutine, EndBuild, FreeSlot, Others, OthersBuild, OthersRemove,
       vars, context

LEMMA StepPaths ==
  ASSUME IInv, [Next]_vars
  PROVE  PathsInv'
<1> USE DEF context, round, search, prepared, files, Return
<1>0. TypeOK /\ PathsInv /\ BuildInv
  BY DEF IInv
<1>w. WellFormed(w) /\ NoPackage \notin w.deps \cup {Main}
  BY <1>0, ProgramsAssumption DEF TypeOK
<1>p. Packages' = Packages
  BY StepContext DEF Packages
<1>1. CASE Elsewhere
  <2>1. /\ w' = w /\ sortedDeps' = sortedDeps /\ toStart' = toStart /\ paths' = paths
        /\ \/ phase' = phase /\ result' = result
           \/ phase' = "return" /\ result' = "failed"
           \/ phase' = "return" /\ phase = "begin"
           \/ phase = "prepare" /\ phase' = "read" /\ result' = result
           \/ phase = "return" /\ phase' = "returned" /\ result' = result
    BY <1>1, Apart
  <2>2. paths' = <<>> => phase' \in {"prepare", "read", "return", "returned"} /\ result' \in {"none", "failed"}
    <3>1. paths = <<>> => phase \in {"prepare", "read", "return", "returned"} /\ result \in {"none", "failed"}
      BY <1>0 DEF PathsInv
    <3> QED BY <2>1, <3>1
  <2> QED BY <1>0, <1>p, <2>1, <2>2 DEF PathsInv
<1>2. CASE ReadMain
  <2>1. NoPackage \notin sortedDeps' /\ w.deps \subseteq sortedDeps'
    BY <1>2, <1>w, QuestionTypes DEF ReadMain
  <2>2. paths' = <<Main>> /\ paths' \in Seq(Packages) /\ PkgsOf(paths') = {Main}
    BY <1>2, OnlyMain DEF ReadMain, Packages
  <2>3. w' = w /\ toStart' = toStart
    BY <1>2 DEF ReadMain
  <2> QED BY <1>0, <1>w, <1>p, <2>1, <2>2, <2>3 DEF PathsInv
<1>3. CASE NothingToBuild
  BY <1>0, <1>p, <1>3 DEF NothingToBuild, PathsInv
<1>4. CASE BeginRound
  <2>1. toStart' \subseteq sortedDeps
    BY <1>4 DEF BeginRound, Missing
  <2> QED BY <1>0, <1>p, <1>4, <2>1 DEF BeginRound, PathsInv
<1>5. CASE StartBuild
  <2>1. PICK p \in toStart : /\ toStart' = toStart \ {p} 
                             /\ paths' = IF p \in PkgsOf(paths) THEN paths ELSE <<p>> \o paths
    BY <1>5 DEF StartBuild
  <2>2. p \in Packages /\ p # NoPackage /\ paths \in Seq(Packages)
    BY <1>0 DEF TypeOK, PathsInv
  <2>3. /\ PkgsOf(paths') = PkgsOf(paths) \cup {p} /\ paths' \in Seq(Packages)
        /\ paths # <<>> => paths' # <<>> /\ paths'[Len(paths')] = paths[Len(paths)]
    <3>1. CASE p \in PkgsOf(paths)
      BY <2>1, <2>2, <3>1
    <3>2. CASE p \notin PkgsOf(paths)
      <4>1. paths' = <<p>> \o paths
        BY <2>1, <3>2
      <4> QED BY <2>2, <4>1, Entered
    <3> QED BY <3>1, <3>2
  <2>4. /\ phase = "start" /\ phase' \in {"start", "wait"} /\ sortedDeps' = sortedDeps /\ w' = w
        /\ paths # <<>>
    BY <1>0, <1>5 DEF StartBuild, PathsInv
  <2> QED BY <1>0, <1>p, <2>1, <2>2, <2>3, <2>4 DEF PathsInv
<1>6. CASE EndRound
  <2>1. phase = "wait" /\ paths # <<>> /\ paths' = paths /\ w' = w /\ toStart' = toStart
    BY <1>0, <1>6 DEF EndRound, PathsInv
  <2>2. NoPackage \notin sortedDeps' /\ w.deps \ PkgsOf(paths) \subseteq sortedDeps'
    <3>1. NoPackage \notin PackageReferences(w, paths)
      BY <1>w, QuestionTypes
    <3>2. NoPackage \notin sortedDeps /\ w.deps \ PkgsOf(paths) \subseteq sortedDeps
      BY <1>0, <2>1 DEF PathsInv
    <3>3. \/ sortedDeps' = sortedDeps
          \/ sortedDeps' = (sortedDeps \cup PackageReferences(w, paths)) \ PkgsOf(paths)
      BY <1>6 DEF EndRound
    <3> QED BY <3>1, <3>2, <3>3
  <2> QED BY <1>0, <1>p, <2>1, <2>2 DEF PathsInv
<1>7. CASE Finish
  BY <1>0, <1>p, <1>7 DEF Finish, PathsInv
<1> QED
  BY <1>1, <1>2, <1>3, <1>4, <1>5, <1>6, <1>7 DEF Next, Caller, Elsewhere

\* Who comes past the making of the build directory has it removed on return, at once
\* or, for a package, after the stage that follows.
LEMMA PassingDefers ==
  ASSUME TypeOK, BuildInv, Prepare
  PROVE  StageInv'
<1> USE DEF context, round, search, prepared, files
<1>1. /\ call' = call /\ stage \in Nat /\ call.kind \in {"files", "text", "package", "remote"}
      /\ stage \in 1 .. Len(Stages[call.kind]) /\ stage' \in 1 .. Len(Stages[call.kind])
      /\ \/ stage' = stage /\ stage = Len(Stages[call.kind])
         \/ stage' = stage + 1
      /\ deferred \subseteq deferred'
  <2>1. call' = call /\ Advance /\ deferred \subseteq deferred'
    BY DEF Prepare, GoList, GoGet, GoListStd, MakeDirectory, AbsPath, WriteText, ExecBuild
  <2>2. stage \in Nat /\ call.kind \in {"files", "text", "package", "remote"}
    BY BuilderAssumption DEF TypeOK, Stages
  <2>3. Len(Stages[call.kind]) \in Nat /\ stage \in 1 .. Len(Stages[call.kind])
    BY <2>2, StagesThereAre DEF BuildInv, StageInv
  <2>4. \/ stage' = stage /\ stage = Len(Stages[call.kind])
        \/ stage' = stage + 1 /\ stage # Len(Stages[call.kind])
    BY <2>1, Zenon DEF Advance
  <2> QED BY <2>1, <2>2, <2>3, <2>4
<1>2. PICK now : now = Stages[call.kind][stage]
  OBVIOUS
<1>3. "build dir" \in Passed' => "build dir" \in Passed \/ now = "build dir"
  <2>1. \A i \in 1 .. stage' - 1 : i \in 1 .. stage - 1 \/ i = stage
    <3>1. stage' = stage \/ stage' = stage + 1
      BY <1>1
    <3>2. stage \in Nat
      BY <1>1
    <3> QED BY <3>1, <3>2
  <2> QED BY <1>1, <1>2, <2>1 DEF Passed
<1>4. ~call.keep /\ now = "build dir" /\ call.kind \in {"files", "text"} => "build" \in deferred'
  BY <1>2 DEF Prepare, GoList, GoGet, GoListStd, MakeDirectory, AbsPath, WriteText, ExecBuild, At
<1>5. ~call.keep /\ now = "abs" => "build" \in deferred'
  BY <1>2 DEF Prepare, GoList, GoGet, GoListStd, MakeDirectory, AbsPath, WriteText, ExecBuild, At
<1>6. now = "build dir" /\ call.kind \in {"package", "remote"} => Stages[call.kind][stage'] = "abs"
  <2>1. stage = Len(Stages[call.kind]) \/ stage' = stage + 1
    BY <1>1
  <2>2. CASE call.kind = "package"
    <3>1. Stages[call.kind] = PackageStages
      BY <2>2 DEF Stages
    <3>2. /\ Len(PackageStages) = 10 /\ PackageStages[8] = "abs"
          /\ \A i \in 1 .. 10 : PackageStages[i] = "build dir" => i = 7
      BY DEF PackageStages
    <3>3. ASSUME now = "build dir" PROVE stage = 7
      BY <1>1, <1>2, <3>1, <3>2, <3>3
    <3>4. stage = 7 => stage' = 8
      <4>1. Len(Stages[call.kind]) = 10
        BY <3>1, <3>2
      <4> QED BY <2>1, <4>1
    <3>5. stage = 7 => Stages[call.kind][stage'] = "abs"
      BY <3>1, <3>2, <3>4
    <3> QED BY <3>3, <3>5
  <2>3. CASE call.kind = "remote"
    <3>1. Stages[call.kind] = RemoteStages
      BY <2>3 DEF Stages
    <3>2. /\ Len(RemoteStages) = 11 /\ RemoteStages[10] = "abs"
          /\ \A i \in 1 .. 11 : RemoteStages[i] = "build dir" => i = 9
      BY DEF RemoteStages
    <3>3. ASSUME now = "build dir" PROVE stage = 9
      BY <1>1, <1>2, <3>1, <3>2, <3>3
    <3>4. stage = 9 => stage' = 10
      <4>1. Len(Stages[call.kind]) = 11
        BY <3>1, <3>2
      <4> QED BY <2>1, <4>1
    <3>5. stage = 9 => Stages[call.kind][stage'] = "abs"
      BY <3>1, <3>2, <3>4
    <3> QED BY <3>3, <3>5
  <2> QED BY <2>2, <2>3
<1>7. "build dir" \in Passed /\ ~call.keep => "build" \in deferred \/ now = "abs"
  BY <1>2 DEF BuildInv, StageInv
<1> QED BY <1>1, <1>3, <1>4, <1>5, <1>6, <1>7 DEF StageInv

LEMMA StepBuild ==
  ASSUME IInv, [Next]_vars
  PROVE  BuildInv'
<1> USE DEF context, round, search, prepared, files, Return
<1>0. TypeOK /\ PathsInv /\ BuildInv
  BY DEF IInv
<1>d. depth \in Int /\ MaxRecursionDepth \in Int
  BY <1>0, BuilderAssumption DEF TypeOK
<1>s. ASSUME stage' = stage, call' = call, deferred' = deferred
      PROVE  StageInv'
  BY <1>0, <1>s DEF BuildInv, StageInv, Passed
<1>1. CASE Prepare
  <2>1. /\ phase = "prepare" /\ phase' \in {"prepare", "read"}
        /\ call' = call /\ result' = result /\ toStart' = toStart /\ building' = building
        /\ depth' = depth
    BY <1>1 DEF Prepare, GoList, GoGet, GoListStd, MakeDirectory, AbsPath, WriteText, ExecBuild, At, Advance
  <2>2. StageInv'
    BY <1>0, <1>1, PassingDefers
  <2> QED BY <1>0, <2>1, <2>2 DEF BuildInv
<1>2. CASE PrepareFails \/ ReadFails \/ TooDeep
  BY <1>0, <1>s, <1>2 DEF BuildInv, PrepareFails, ReadFails, TooDeep
<1>11. CASE ReadMain
  <2>1. /\ phase = "read" /\ depth' = depth /\ building' = building /\ toStart' = toStart
        /\ dirs' = dirs /\ deferred' = deferred /\ call' = call
        /\ \/ phase' = "return" /\ result' = "linked"
           \/ phase' = "begin" /\ result' = result
    BY <1>11 DEF ReadMain
  <2> QED BY <1>0, <1>s, <1>11, <2>1 DEF BuildInv, ReadMain
<1>3. CASE NothingToBuild
  BY <1>0, <1>d, <1>s, <1>3 DEF BuildInv, NothingToBuild
<1>12. CASE BeginRound
  BY <1>0, <1>d, <1>s, <1>12 DEF BuildInv, BeginRound
<1>4. CASE StartBuild
  BY <1>0, <1>s, <1>4 DEF BuildInv, StartBuild
<1>5. CASE BuildsFail \/ Finish
  BY <1>0, <1>s, <1>5 DEF BuildInv, BuildsFail, Finish
<1>6. CASE EndRound
  BY <1>0, <1>s, <1>6, BuilderAssumption DEF BuildInv, EndRound, TypeOK
<1>7. CASE Cleanup
  BY <1>0, <1>s, <1>7 DEF BuildInv, Cleanup, Remove
<1>8. ASSUME NEW p \in building \cup freeing, Goroutine(p) PROVE BuildInv'
  <2>1. CASE EndBuild(p)
    BY <1>0, <1>s, <1>8, <2>1 DEF EndBuild, BuildInv
  <2>2. CASE FreeSlot(p)
    BY <1>0, <1>s, <1>8, <2>2 DEF FreeSlot, BuildInv
  <2> QED BY <1>8, <2>1, <2>2 DEF Goroutine
<1>9. CASE Others
  BY <1>0, <1>s, <1>9 DEF Others, OthersBuild, OthersRemove, BuildInv
<1>10. CASE UNCHANGED vars
  BY <1>0, <1>s, <1>10 DEF BuildInv, vars
<1> QED
  BY <1>1, <1>2, <1>3, <1>4, <1>5, <1>6, <1>7, <1>8, <1>9, <1>10, <1>11, <1>12
  DEF Next, Caller

\* A reading asks for all that is missing.
LEMMA Reading ==
  ASSUME NEW types \in ReachableTypes(w, paths'), NEW ignored, w' = w, std' = std,
         unresolved' = UnresolvedExternalSymbols(w, paths', Known, types, ignored, std),
         cgo' = AddCGoSymbols(unresolved')
  PROVE  Asked'
<1>1. /\ Absent(w, paths', Known) \subseteq unresolved'
      /\ HostTypesToRebuild(w, paths', types, std) \subseteq unresolved'
  BY DEF UnresolvedExternalSymbols
<1>2. Known \subseteq Known' /\ unresolved' \cap w.libs \subseteq cgo'
  BY DEF Known, AddCGoSymbols
<1>3. Absent(w, paths', Known') \subseteq Absent(w, paths', Known)
  BY <1>2, AbsentShrinks
<1> QED BY <1>1, <1>2, <1>3 DEF Asked

LEMMA StepAsked ==
  ASSUME IInv, [Next]_vars
  PROVE  AskedInv'
<1> USE DEF context, round, search, prepared, files, Return
<1>0. TypeOK /\ PathsInv /\ BuildInv /\ AskedInv
  BY DEF IInv
<1>1. CASE Elsewhere
  <2>1. std' \subseteq w'.std
    BY <1>0, <1>1, Apart DEF AskedInv
  <2>2. CASE phase = "prepare"
    <3>1. /\ phase' \in {"prepare", "read", "return"}
          /\ result' \in {"none", "failed"}
      BY <1>0, <1>1, <2>2, Apart DEF BuildInv
    <3> QED BY <2>1, <3>1 DEF AskedInv
  <2>3. CASE phase # "prepare"
    <3>1. /\ w' = w /\ cgo' = cgo /\ unresolved' = unresolved /\ paths' = paths /\ std' = std
          /\ sortedDeps' = sortedDeps
      BY <1>1, <2>3, Apart
    <3>2. /\ Asked' = Asked /\ Settled' = Settled
          /\ StillMissing(w, paths, Known)' = StillMissing(w, paths, Known)
      BY <3>1 DEF Asked, Settled, Known, Missing
    <3>3. /\ phase' = "begin" => phase = "begin"
          /\ phase' = "final" => phase = "final"
          /\ result' \in {"linked", "unresolved"} => result = result'
      BY <1>1, <2>3, Apart
    <3> QED BY <1>0, <2>1, <3>2, <3>3 DEF AskedInv
  <2> QED BY <2>2, <2>3
<1>2. CASE ReadMain
  <2>1. PICK types \in ReachableTypes(w, <<Main>>) :
          unresolved' = UnresolvedExternalSymbols(w, <<Main>>, Known, types, w.skip, std)
    BY <1>2 DEF ReadMain
  <2>2. paths' = <<Main>> /\ w' = w /\ std' = std /\ cgo' = AddCGoSymbols(unresolved')
    BY <1>2 DEF ReadMain
  <2>3. Asked'
    BY <2>1, <2>2, Reading
  <2>4. \/ unresolved' = {} /\ phase' = "return" /\ result' = "linked"
        \/ phase' = "begin" /\ result' = "none"
    BY <1>0, <1>2 DEF ReadMain, BuildInv
  <2>5. unresolved' = {} => StillMissing(w', paths', Known') = {}
    BY <2>3 DEF Asked, StillMissing
  <2> QED BY <1>0, <2>2, <2>3, <2>4, <2>5 DEF AskedInv, Settled
<1>3. CASE NothingToBuild
  <2>1. /\ w' = w /\ cgo' = cgo /\ unresolved' = unresolved /\ paths' = paths /\ std' = std
        /\ sortedDeps' = sortedDeps /\ result' = result /\ phase = "begin" /\ phase' = "final"
        /\ Missing = {}
    BY <1>3 DEF NothingToBuild
  <2>2. /\ Asked' = Asked /\ Missing' = Missing
    BY <2>1 DEF Asked, Known, Missing
  <2>3. Settled' /\ result = "none"
    BY <1>0, <2>1, <2>2 DEF Settled, AskedInv, BuildInv, PathsInv
  <2> QED BY <1>0, <2>1, <2>3 DEF AskedInv
<1>4. CASE BeginRound
  <2>1. std' = std /\ w' = w /\ phase' = "start" /\ result' = "none"
    BY <1>0, <1>4 DEF BeginRound, BuildInv
  <2> QED BY <1>0, <2>1 DEF AskedInv
<1>5. CASE StartBuild
  <2>1. std' = std /\ w' = w /\ phase' \in {"start", "wait"} /\ result' = "none"
    BY <1>0, <1>5 DEF StartBuild, BuildInv
  <2> QED BY <1>0, <2>1 DEF AskedInv
<1>6. CASE EndRound
  <2>1. PICK types \in ReachableTypes(w, paths) :
          unresolved' = UnresolvedExternalSymbols(w, paths, Known, types, {}, std)
    BY <1>6 DEF EndRound
  <2>2. paths' = paths /\ w' = w /\ std' = std /\ cgo' = AddCGoSymbols(unresolved')
    BY <1>6 DEF EndRound
  <2>3. Asked'
    BY <2>1, <2>2, Reading
  <2>4. /\ result' = "none"
        /\ \/ unresolved' = {} /\ phase' = "final"
           \/ phase' = "begin"
    BY <1>0, <1>6 DEF EndRound, BuildInv
  <2> QED BY <1>0, <2>2, <2>3, <2>4 DEF AskedInv, Settled
<1>7. CASE Finish
  <2>1. /\ w' = w /\ cgo' = cgo /\ unresolved' = unresolved /\ paths' = paths /\ std' = std
        /\ sortedDeps' = sortedDeps /\ phase = "final" /\ phase' = "return"
    BY <1>7 DEF Finish
  <2>2. /\ Settled' = Settled
        /\ StillMissing(w, paths, Known)' = StillMissing(w, paths, Known)
    BY <2>1 DEF Asked, Settled, Known, Missing
  <2>3. result' = IF StillMissing(w, paths, Known) = {} THEN "linked" ELSE "unresolved"
    BY <1>7 DEF Finish
  <2> QED BY <1>0, <2>1, <2>2, <2>3 DEF AskedInv
<1> QED
  BY <1>1, <1>2, <1>3, <1>4, <1>5, <1>6, <1>7 DEF Next, Caller, Elsewhere

\* The steps of Load leave the search as it is.
LEMMA UnitSteps ==
  ASSUME IInv, [(Next /\ UNCHANGED unitVars) \/ Loading]_allVars
  PROVE  IInv'
<1>1. [Next]_vars
  BY DEF Loading, Load, Initialise, Initialised, allVars
<1> QED BY <1>1, StepType, StepPaths, StepBuild, StepAsked DEF IInv

LEMMA AlwaysIInv == UnitSpec => []IInv
BY InitIInv, UnitSteps, PTL DEF UnitSpec, UnitInit

\* Type correctness: all that is read, asked for and built are symbols and packages
\* of the program, and the recursion is at most one deeper than its limit.
THEOREM TypeCorrect == UnitSpec => []TypeOK
<1>1. IInv => TypeOK
  BY DEF IInv
<1> QED BY <1>1, AlwaysIInv, PTL

\* Whoever returns has waited for the goroutines of its round, and has removed the
\* directory that they built in (jit/jit.go).
THEOREM NothingIsLeft == UnitSpec => []NothingOutlivesTheCall
<1>1. IInv => NothingOutlivesTheCall
  BY DEF IInv, BuildInv, StageInv, NothingOutlivesTheCall
<1> QED BY <1>1, AlwaysIInv, PTL

\* Whatever the order in which types were walked, a search that ends with a linker has
\* asked for every type of the host that may have changed (ld.go:1127), so that its
\* package was read or could not be built.
THEOREM TypesAreBuilt == UnitSpec => []HostTypesRebuilt
<1>1. ASSUME IInv PROVE HostTypesRebuilt
  <2>1. SUFFICES ASSUME Linked, ~w.blind, NEW s \in Defined(w, paths) \cap Reachable(w, paths),
                        NEW t \in w.refs[s] \cap w.types \cap w.host \cap w.named,
                        \A types \in ReachableTypes(w, paths) : t \in types,
                        t \notin Defined(w, paths),
                        w.pkgOf[t] \notin w.std \cup PkgsOf(paths), w.pkgOf[t] \in w.deps,
                        w.pkgOf[t] \notin w.escaped \/ t \notin Forced(w, paths)
                 PROVE  FALSE
    BY DEF HostTypesRebuilt
  <2>2. Settled /\ std \subseteq w.std
    BY <1>1, <2>1 DEF IInv, AskedInv, Linked
  <2>3. PICK types \in ReachableTypes(w, paths) :
          HostTypesToRebuild(w, paths, types, std) \subseteq unresolved
    BY <2>2 DEF Settled, Asked
  <2>4. t \in External(w, paths)
    BY <2>1 DEF External
  <2>5. t \in unresolved
    <3>1. t \in HostTypesToRebuild(w, paths, types, std)
      BY <2>1, <2>2, <2>4 DEF HostTypesToRebuild
    <3> QED BY <2>3, <3>1
  <2>6. w.pkgOf[t] \in sortedDeps /\ Missing = {}
    BY <2>1, <2>2, <2>5 DEF Settled
  <2>7. PackageToBuild(w, paths, t) = w.pkgOf[t]
    BY <2>1 DEF PackageToBuild
  <2> QED BY <2>5, <2>6, <2>7 DEF Missing
<1> QED BY <1>1, AlwaysIInv, PTL

\* What the linker that is handed out has.
LEMMA LinkedHasAll ==
  ASSUME IInv, Linked
  PROVE  /\ Needed \subseteq Defined(w, paths) \cup Known
         /\ Unread(w, paths) = {}
<1> DEFINE R == Reachable(w, paths)
           X == R \cap (Defined(w, paths) \cup Known)
           main == Defined(w, <<Main>>)
           IndexedBy(s) == IF s \in DOMAIN w.byIndex THEN {w.byIndex[s].type} ELSE {}
           uses == [s \in w.syms |->
             IF s \notin Defined(w, paths) THEN {} ELSE w.refs[s] \cup IndexedBy(s)]
<1>1. WellFormed(w)
  BY ProgramsAssumption DEF IInv, TypeOK
<1>2. /\ paths # <<>> /\ paths \in Seq(Packages) /\ paths[Len(paths)] = Main
      /\ NoPackage \notin PkgsOf(paths) /\ Absent(w, paths, Known) = {}
      /\ w.host \subseteq Known /\ Known \subseteq w.host \cup w.libs
  BY DEF IInv, PathsInv, AskedInv, TypeOK, Linked, StillMissing, Known
<1>3. /\ Unread(w, paths) = {}
      /\ \A s \in R \cap Defined(w, paths) : w.refs[s] \subseteq X
      /\ \A s \in R \cap Defined(w, paths) \cap DOMAIN w.byIndex : w.byIndex[s].type \in X
  BY <1>1, <1>2, NothingMissing
<1>4. main \in SUBSET w.syms /\ main \subseteq X
  <2>1. main \subseteq R
    BY <1>1, <1>2, ReachableIsClosed
  <2>2. Main \in PkgsOf(paths) /\ PkgsOf(<<Main>>) = {Main}
    BY <1>2, OnlyMain DEF PkgsOf
  <2> QED BY <2>1, <2>2 DEF Defined
<1>5. uses \in [w.syms -> SUBSET w.syms]
  <2>1. \A s \in w.syms : w.refs[s] \subseteq w.syms /\ IndexedBy(s) \subseteq w.syms
    BY <1>1 DEF WellFormed
  <2> HIDE DEF IndexedBy
  <2> QED BY <2>1
<1>6. \A s \in X \cap w.syms : uses[s] \subseteq X
  BY <1>3
<1>7. Needed = Closure(w.syms, main, uses)
  BY DEF Needed
<1>8. Needed \subseteq X
  <2> HIDE DEF X, main, uses
  <2>1. IsFiniteSet(w.syms)
    BY <1>1 DEF WellFormed
  <2> QED BY <1>4, <1>5, <1>6, <1>7, <2>1, ClosureIsLeast
<1> QED BY <1>3, <1>8

\* What is still missing when the search gives up was asked for, and cannot be had.
LEMMA MissingIsNotObtainable ==
  ASSUME IInv, result = "unresolved", NEW s \in StillMissing(w, paths, Known), Obtainable(s)
  PROVE  FALSE
<1>1. Settled /\ WellFormed(w)
  BY ProgramsAssumption DEF IInv, AskedInv, TypeOK
<1>2. /\ s \in unresolved /\ s \notin Known /\ s \in External(w, paths)
      /\ s \notin Forced(w, paths)
  BY <1>1 DEF Settled, Asked, StillMissing, Absent
<1>3. s \in w.syms /\ s \notin Defined(w, paths)
  BY <1>1, <1>2, SymbolTypes DEF External
<1>4. w.definedIn[s] \notin PkgsOf(paths)
  BY <1>3 DEF Defined
<1>5. s \notin w.host \cup w.libs
  BY <1>1, <1>2 DEF Settled, Asked, Known
<1>6. Main \in PkgsOf(paths)
  BY DEF IInv, PathsInv, PkgsOf
<1>7. Missing = {} /\ w.deps \ PkgsOf(paths) \subseteq sortedDeps
  BY <1>1, <1>2 DEF Settled
<1>8. PackageToBuild(w, paths, s) \notin w.deps \ PkgsOf(paths)
  BY <1>2, <1>7 DEF Missing
<1>9. CASE w.pkgOf[s] \in w.escaped \/ w.pkgOf[s] \notin PkgsOf(paths)
  <2>1. w.pkgOf[s] \notin w.deps \ PkgsOf(paths)
    BY <1>2, <1>8, <1>9 DEF PackageToBuild
  <2> QED BY <1>4, <1>5, <1>6, <1>9, <2>1 DEF Obtainable
<1>10. CASE w.pkgOf[s] \in PkgsOf(paths) \ w.escaped
  BY <1>4, <1>5, <1>6, <1>8, <1>10 DEF Obtainable, PackageToBuild
<1> QED BY <1>9, <1>10

\* For every program, a linker that is handed out is complete, and a search gives up
\* for the lack of a symbol only if no package of the program could have given it,
\* whatever rounds, failing commands and removed directories it met (jit/jit.go).
THEOREM AnswersAreRight == UnitSpec => []AnswerIsRight
<1>1. ASSUME IInv PROVE AnswerIsRight
  <2>1. result = "unresolved" => StillMissing(w, paths, Known) # {}
    BY <1>1 DEF IInv, AskedInv
  <2> QED BY <1>1, <2>1, LinkedHasAll, MissingIsNotObtainable DEF AnswerIsRight
<1> QED BY <1>1, AlwaysIInv, PTL

(***************************************************************************)
(* The order of Autolib.  Imports have a height, greater for a package     *)
(* than for those it imports.                                              *)
(***************************************************************************)
HasHeight(libs, height) ==
  /\ libs \in [DOMAIN libs -> Seq(DOMAIN libs)]
  /\ height \in [DOMAIN libs -> Nat]
  /\ \A p \in DOMAIN libs : \A q \in PkgsOf(libs[p]) : height[q] < height[p]

Frames(P) == [pkg : P, enter : BOOLEAN]
Walks(P) == [stack : Seq(Frames(P)), seen : SUBSET P, out : Seq(P)]

\* Packages come once, after those they import.
Ordered(libs, out) ==
  /\ \A i, j \in 1 .. Len(out) : out[i] = out[j] => i = j
  /\ \A j \in 1 .. Len(out) : \A q \in PkgsOf(libs[out[j]]) : \E i \in 1 .. j - 1 : out[i] = q

\* A package that is still to be left is higher than all above it on the stack, and
\* what it imports is left or above it.
Pending(libs, height, stack, seen, out) ==
  \A i \in 1 .. Len(stack) : ~stack[i].enter =>
    /\ stack[i].pkg \in seen \ PkgsOf(out)
    /\ \A j \in 1 .. i - 1 : height[stack[j].pkg] < height[stack[i].pkg]
    /\ \A q \in PkgsOf(libs[stack[i].pkg]) :
         q \in PkgsOf(out) \/ \E j \in 1 .. i - 1 : stack[j].pkg = q

\* What was entered is left, or will be.
Entering(stack, seen, out) ==
  /\ PkgsOf(out) \subseteq seen
  /\ \A p \in seen : p \in PkgsOf(out) \/ \E i \in 1 .. Len(stack) : stack[i] = Leave(p)

Reaches(stack, out, main) ==
  main \in PkgsOf(out) \/ \E i \in 1 .. Len(stack) : stack[i].pkg = main

WalkInv(libs, height, main, at) ==
  /\ at \in Walks(DOMAIN libs)
  /\ Ordered(libs, at.out) /\ Pending(libs, height, at.stack, at.seen, at.out)
  /\ Entering(at.stack, at.seen, at.out) /\ Reaches(at.stack, at.out, main)

\* One package more in a list.
LEMMA Appended ==
  ASSUME NEW P, NEW q \in Seq(P), NEW p \in P
  PROVE  /\ Append(q, p) \in Seq(P) /\ Len(Append(q, p)) = Len(q) + 1 /\ Len(q) \in Nat
         /\ Append(q, p)[Len(q) + 1] = p /\ \A i \in 1 .. Len(q) : Append(q, p)[i] = q[i]
         /\ PkgsOf(Append(q, p)) = PkgsOf(q) \cup {p}
<1> DEFINE r == Append(q, p)
<1>1. /\ r \in Seq(P) /\ Len(r) = Len(q) + 1 /\ Len(q) \in Nat /\ r[Len(q) + 1] = p
      /\ \A i \in 1 .. Len(q) : r[i] = q[i]
  OBVIOUS
<1> HIDE DEF r
<1>2. ASSUME NEW x \in PkgsOf(r) PROVE x \in PkgsOf(q) \cup {p}
  <2>1. PICK i \in 1 .. Len(r) : x = r[i]
    BY <1>2 DEF PkgsOf
  <2>2. i = Len(q) + 1 \/ i \in 1 .. Len(q)
    BY <1>1
  <2> QED BY <1>1, <2>1, <2>2 DEF PkgsOf
<1>3. ASSUME NEW x \in PkgsOf(q) PROVE x \in PkgsOf(r)
  <2>1. PICK i \in 1 .. Len(q) : x = q[i]
    BY <1>3 DEF PkgsOf
  <2>2. i \in 1 .. Len(r) /\ r[i] = x
    BY <1>1, <2>1
  <2> QED BY <2>2 DEF PkgsOf
<1>4. p \in PkgsOf(r)
  <2>1. Len(q) + 1 \in 1 .. Len(r)
    BY <1>1
  <2> QED BY <1>1, <2>1 DEF PkgsOf
<1>5. PkgsOf(r) = PkgsOf(q) \cup {p}
  BY <1>2, <1>3, <1>4
<1> QED BY <1>1, <1>5 DEF r

LEMMA Popped ==
  ASSUME NEW F, NEW stack \in Seq(F), stack # <<>>
  PROVE  /\ Tail(stack) \in Seq(F) /\ Len(stack) \in Nat \ {0} /\ Len(Tail(stack)) = Len(stack) - 1
         /\ Head(stack) = stack[1] /\ stack[1] \in F
         /\ \A i \in 1 .. Len(stack) - 1 : Tail(stack)[i] = stack[i + 1]
<1>1. Len(stack) \in Nat \ {0}
  OBVIOUS
<1>2. /\ Tail(stack) \in Seq(F) /\ Len(Tail(stack)) = Len(stack) - 1
      /\ \A i \in 1 .. Len(stack) - 1 : Tail(stack)[i] = stack[i + 1]
  OBVIOUS
<1>3. Head(stack) = stack[1] /\ stack[1] \in F
  BY <1>1
<1> QED BY <1>1, <1>2, <1>3

LEMMA Joined ==
  ASSUME NEW F, NEW s \in Seq(F), NEW t \in Seq(F)
  PROVE  /\ s \o t \in Seq(F) /\ Len(s \o t) = Len(s) + Len(t) /\ Len(t) \in Nat
         /\ \A i \in 1 .. Len(s) : (s \o t)[i] = s[i]
         /\ \A i \in Len(s) + 1 .. Len(s) + Len(t) : (s \o t)[i] = t[i - Len(s)]
OBVIOUS

\* The stack after p was entered: at its top what p imports, then p.
Begun(P, stack, p, imports, new) ==
  /\ new \in Seq(Frames(P)) /\ Len(imports) \in Nat /\ Len(new) = Len(stack) + Len(imports)
  /\ \A i \in 1 .. Len(imports) : new[i] = Enter(imports[i])
  /\ new[Len(imports) + 1] = Leave(p)
  /\ \A i \in Len(imports) + 2 .. Len(new) : new[i] = stack[i - Len(imports)]

LEMMA Pushed ==
  ASSUME NEW P, NEW stack \in Seq(Frames(P)), stack # <<>>, NEW p \in P, NEW imports \in Seq(P)
  PROVE  Begun(P, stack, p, imports, WithImports(imports, p, Tail(stack)))
<1> DEFINE m == Len(imports)
           above == [i \in 1 .. m |-> Enter(imports[i])]
           rest == Tail(stack)
           new == WithImports(imports, p, rest)
<1>1. m \in Nat
  OBVIOUS
<1>2. above \in Seq(Frames(P)) /\ Len(above) = m /\ \A i \in 1 .. m : above[i] = Enter(imports[i])
  <2>1. \A i \in 1 .. m : Enter(imports[i]) \in Frames(P)
    BY DEF Enter, Frames
  <2>2. above \in [1 .. m -> Frames(P)]
    BY <2>1
  <2> QED BY <1>1, <2>2
<1>3. Leave(p) \in Frames(P)
  BY DEF Leave, Frames
<1>4. /\ rest \in Seq(Frames(P)) /\ Len(rest) = Len(stack) - 1 /\ Len(stack) \in Nat \ {0}
      /\ \A i \in 1 .. Len(stack) - 1 : rest[i] = stack[i + 1]
  BY Popped
<1> HIDE DEF m, above, rest
<1> DEFINE begun == above \o <<Leave(p)>>
<1>5. /\ begun \in Seq(Frames(P)) /\ Len(begun) = m + 1
      /\ \A i \in 1 .. m : begun[i] = above[i]
  BY <1>1, <1>2, <1>3
<1>6. begun[m + 1] = Leave(p)
  BY <1>1, <1>2, <1>3
<1>7. new = begun \o rest
  BY DEF WithImports, m, above
<1> HIDE DEF begun
<1>8. /\ new \in Seq(Frames(P)) /\ Len(new) = m + 1 + Len(rest)
      /\ \A i \in 1 .. m + 1 : new[i] = begun[i]
      /\ \A i \in m + 2 .. m + 1 + Len(rest) : new[i] = rest[i - (m + 1)]
  <2>1. /\ begun \o rest \in Seq(Frames(P)) /\ Len(begun \o rest) = Len(begun) + Len(rest)
        /\ Len(rest) \in Nat
        /\ \A i \in 1 .. Len(begun) : (begun \o rest)[i] = begun[i]
        /\ \A i \in Len(begun) + 1 .. Len(begun) + Len(rest) :
             (begun \o rest)[i] = rest[i - Len(begun)]
    BY <1>4, <1>5, Joined
  <2>2. Len(begun) = m + 1 /\ (m + 1) + 1 = m + 2
    BY <1>1, <1>5
  <2> QED BY <1>7, <2>1, <2>2
<1> HIDE DEF new
<1>9. ASSUME NEW i \in m + 2 .. Len(new) PROVE new[i] = stack[i - m]
  <2>1. i - (m + 1) \in 1 .. Len(stack) - 1 /\ i \in m + 2 .. m + 1 + Len(rest)
    BY <1>1, <1>4, <1>8
  <2>2. new[i] = rest[i - (m + 1)]
    BY <1>8, <2>1
  <2>3. rest[i - (m + 1)] = stack[(i - (m + 1)) + 1]
    BY <1>4, <2>1
  <2>4. (i - (m + 1)) + 1 = i - m
    BY <1>1, <2>1
  <2> QED BY <2>2, <2>3, <2>4
<1>10. Len(new) = Len(stack) + m
  BY <1>1, <1>4, <1>8
<1>11. \A i \in 1 .. m : new[i] = Enter(imports[i])
  BY <1>1, <1>2, <1>5, <1>8
<1>12. new[m + 1] = Leave(p)
  <2>1. m + 1 \in 1 .. m + 1
    BY <1>1
  <2>2. new[m + 1] = begun[m + 1]
    BY <1>8, <2>1
  <2> QED BY <1>6, <2>2
<1> QED BY <1>1, <1>8, <1>9, <1>10, <1>11, <1>12 DEF m, rest, new, Begun

\* A step of recurseAutolibs keeps all this ...
LEMMA WalkStep ==
  ASSUME NEW libs, NEW height, HasHeight(libs, height), NEW main, NEW at,
         WalkInv(libs, height, main, at), at.stack # <<>>
  PROVE  WalkInv(libs, height, main, RecurseAutolibs(libs, at))
<1> DEFINE P == DOMAIN libs
<1>0. PICK stack, seen, out : stack = at.stack /\ seen = at.seen /\ out = at.out
  OBVIOUS
<1> DEFINE p == stack[1].pkg
<1>1. /\ at = [stack |-> stack, seen |-> seen, out |-> out]
      /\ stack \in Seq(Frames(P)) /\ seen \subseteq P /\ out \in Seq(P) /\ stack # <<>>
  BY <1>0 DEF WalkInv, Walks
<1>r. PICK rest : rest = Tail(stack)
  OBVIOUS
<1>n. PICK new : new = RecurseAutolibs(libs, at)
  OBVIOUS
<1>g. SUFFICES WalkInv(libs, height, main, new)
  BY <1>n
<1>2. /\ rest \in Seq(Frames(P)) /\ Len(stack) \in Nat \ {0}
      /\ Len(rest) = Len(stack) - 1 /\ Head(stack) = stack[1] /\ stack[1] \in Frames(P)
      /\ \A i \in 1 .. Len(stack) - 1 : rest[i] = stack[i + 1]
  BY <1>1, <1>r, Popped
<1>3. p \in P /\ stack[1].enter \in BOOLEAN
  BY <1>2 DEF Frames
<1>4. /\ \A i \in 1 .. Len(stack) : stack[i] \in Frames(P)
      /\ \A i \in 1 .. Len(stack) : stack[i].pkg \in P
  <2>1. \A i \in 1 .. Len(stack) : stack[i] \in Frames(P)
    BY <1>1
  <2> QED BY <2>1 DEF Frames
<1>5. /\ Ordered(libs, out) /\ Pending(libs, height, stack, seen, out)
      /\ Entering(stack, seen, out) /\ Reaches(stack, out, main)
  BY <1>0 DEF WalkInv
<1>h. \A q \in P : height[q] \in Nat
  BY DEF HasHeight
<1>6. CASE ~stack[1].enter
  <2>0. PICK longer : longer = Append(out, p)
    OBVIOUS
  <2>1. new = [stack |-> rest, seen |-> seen, out |-> longer]
    BY <1>1, <1>2, <1>r, <1>n, <1>6, <2>0 DEF RecurseAutolibs
  <2>2. /\ longer \in Seq(P) /\ Len(longer) = Len(out) + 1 /\ Len(out) \in Nat
        /\ longer[Len(out) + 1] = p
        /\ \A i \in 1 .. Len(out) : longer[i] = out[i]
        /\ PkgsOf(longer) = PkgsOf(out) \cup {p}
    BY <1>1, <1>3, <2>0, Appended
  <2>3. new \in Walks(P)
    BY <1>1, <1>2, <2>1, <2>2 DEF Walks
  <2>4. /\ p \in seen \ PkgsOf(out) /\ PkgsOf(libs[p]) \subseteq PkgsOf(out)
    <3>1. 1 \in 1 .. Len(stack) /\ 1 .. 1 - 1 = {}
      BY <1>2
    <3> QED BY <1>5, <1>6, <3>1 DEF Pending
  <2>5. Ordered(libs, longer)
    <3>1. ASSUME NEW j \in 1 .. Len(out) + 1, NEW q \in PkgsOf(libs[longer[j]])
          PROVE  \E i \in 1 .. j - 1 : longer[i] = q
      <4>1. CASE j = Len(out) + 1
        <5>1. q \in PkgsOf(out)
          BY <2>2, <2>4, <3>1, <4>1
        <5>2. PICK i \in 1 .. Len(out) : out[i] = q
          BY <5>1 DEF PkgsOf
        <5>3. i \in 1 .. j - 1 /\ longer[i] = q
          BY <2>2, <4>1, <5>2
        <5> QED BY <5>3
      <4>2. CASE j # Len(out) + 1
        <5>1. j \in 1 .. Len(out) /\ q \in PkgsOf(libs[out[j]])
          BY <2>2, <3>1, <4>2
        <5>2. PICK i \in 1 .. j - 1 : out[i] = q
          BY <1>5, <5>1 DEF Ordered
        <5>3. i \in 1 .. Len(out)
          BY <2>2, <5>1, <5>2
        <5> QED BY <2>2, <5>2, <5>3
      <4> QED BY <4>1, <4>2
    <3>2. ASSUME NEW i \in 1 .. Len(out) + 1, NEW j \in 1 .. Len(out) + 1,
                 longer[i] = longer[j]
          PROVE  i = j
      <4>1. \A k \in 1 .. Len(out) : out[k] # p
        BY <2>4 DEF PkgsOf
      <4>2. \A k \in 1 .. Len(out) + 1 : k = Len(out) + 1 \/ k \in 1 .. Len(out)
        BY <2>2
      <4>3. CASE i \in 1 .. Len(out) /\ j \in 1 .. Len(out)
        BY <1>5, <2>2, <3>2, <4>3 DEF Ordered
      <4>4. CASE i = Len(out) + 1 \/ j = Len(out) + 1
        BY <2>2, <3>2, <4>1, <4>2, <4>4
      <4> QED BY <4>2, <4>3, <4>4
    <3> QED BY <2>2, <3>1, <3>2 DEF Ordered
  <2>6. Pending(libs, height, rest, seen, longer)
    <3> SUFFICES ASSUME NEW i \in 1 .. Len(stack) - 1, ~rest[i].enter
                 PROVE  /\ rest[i].pkg \in seen \ (PkgsOf(out) \cup {p})
                        /\ \A j \in 1 .. i - 1 : height[rest[j].pkg] < height[rest[i].pkg]
                        /\ \A q \in PkgsOf(libs[rest[i].pkg]) :
                             q \in PkgsOf(out) \cup {p} \/ \E j \in 1 .. i - 1 : rest[j].pkg = q
      BY <1>2, <2>1, <2>2 DEF Pending
    <3>1. /\ i + 1 \in 1 .. Len(stack) /\ rest[i] = stack[i + 1] /\ 1 \in 1 .. (i + 1) - 1
          /\ \A j \in 1 .. i - 1 : rest[j] = stack[j + 1] /\ j + 1 \in 1 .. (i + 1) - 1
      BY <1>2
    <3>2. /\ stack[i + 1].pkg \in seen \ PkgsOf(out)
          /\ \A j \in 1 .. (i + 1) - 1 : height[stack[j].pkg] < height[stack[i + 1].pkg]
          /\ \A q \in PkgsOf(libs[stack[i + 1].pkg]) :
               q \in PkgsOf(out) \/ \E j \in 1 .. (i + 1) - 1 : stack[j].pkg = q
      BY <1>5, <3>1 DEF Pending
    <3>3. stack[i + 1].pkg # p
      <4>1. height[p] < height[stack[i + 1].pkg] /\ height[p] \in Nat
        BY <1>3, <1>h, <3>1, <3>2
      <4> QED BY <4>1
    <3>4. ASSUME NEW q \in PkgsOf(libs[stack[i + 1].pkg]), q \notin PkgsOf(out) \cup {p}
          PROVE  \E j \in 1 .. i - 1 : rest[j].pkg = q
      <4>1. PICK j \in 1 .. (i + 1) - 1 : stack[j].pkg = q
        BY <3>2, <3>4
      <4>2. j - 1 \in 1 .. i - 1 /\ rest[j - 1] = stack[j]
        BY <1>2, <3>4, <4>1
      <4> QED BY <4>1, <4>2
    <3> QED BY <3>1, <3>2, <3>3, <3>4
  <2>7. Entering(rest, seen, longer)
    <3>1. PkgsOf(out) \cup {p} \subseteq seen
      BY <1>5, <2>4 DEF Entering
    <3>2. ASSUME NEW q \in seen, q \notin PkgsOf(out) \cup {p}
          PROVE  \E i \in 1 .. Len(stack) - 1 : rest[i] = Leave(q)
      <4>1. PICK i \in 1 .. Len(stack) : stack[i] = Leave(q)
        BY <1>5, <3>2 DEF Entering
      <4>2. i # 1
        BY <3>2, <4>1 DEF Leave
      <4>3. i - 1 \in 1 .. Len(stack) - 1 /\ rest[i - 1] = stack[i]
        BY <1>2, <4>2
      <4> QED BY <4>1, <4>3
    <3> QED BY <1>2, <2>1, <2>2, <3>1, <3>2 DEF Entering
  <2>8. Reaches(rest, longer, main)
    <3>1. ASSUME NEW i \in 1 .. Len(stack), stack[i].pkg = main, main # p
          PROVE  \E k \in 1 .. Len(stack) - 1 : rest[k].pkg = main
      <4>1. i - 1 \in 1 .. Len(stack) - 1 /\ rest[i - 1] = stack[i]
        BY <1>2, <3>1
      <4> QED BY <3>1, <4>1
    <3> QED BY <1>2, <1>5, <2>1, <2>2, <3>1 DEF Reaches
  <2> QED BY <2>1, <2>3, <2>5, <2>6, <2>7, <2>8 DEF WalkInv
<1>7. CASE stack[1].enter /\ p \in seen
  <2>1. new = [stack |-> rest, seen |-> seen, out |-> out]
    BY <1>1, <1>2, <1>r, <1>n, <1>7 DEF RecurseAutolibs
  <2>2. new \in Walks(P)
    BY <1>1, <1>2, <2>1 DEF Walks
  <2>3. p \in PkgsOf(out)
    <3>1. SUFFICES ASSUME NEW i \in 1 .. Len(stack), stack[i] = Leave(p) PROVE FALSE
      BY <1>5, <1>7 DEF Entering
    <3>2. i # 1 /\ ~stack[i].enter /\ stack[i].pkg = p
      BY <1>7, <3>1 DEF Leave
    <3>3. 1 \in 1 .. i - 1
      BY <1>2, <3>2
    <3>4. height[p] < height[p] /\ height[p] \in Nat
      BY <1>3, <1>5, <1>h, <3>2, <3>3 DEF Pending
    <3> QED BY <3>4
  <2>4. Pending(libs, height, rest, seen, out)
    <3> SUFFICES ASSUME NEW i \in 1 .. Len(stack) - 1, ~rest[i].enter
                 PROVE  /\ rest[i].pkg \in seen \ PkgsOf(out)
                        /\ \A j \in 1 .. i - 1 : height[rest[j].pkg] < height[rest[i].pkg]
                        /\ \A q \in PkgsOf(libs[rest[i].pkg]) :
                             q \in PkgsOf(out) \/ \E j \in 1 .. i - 1 : rest[j].pkg = q
      BY <1>2, <2>1 DEF Pending
    <3>1. /\ i + 1 \in 1 .. Len(stack) /\ rest[i] = stack[i + 1]
          /\ \A j \in 1 .. i - 1 : rest[j] = stack[j + 1] /\ j + 1 \in 1 .. (i + 1) - 1
      BY <1>2
    <3>2. /\ stack[i + 1].pkg \in seen \ PkgsOf(out)
          /\ \A j \in 1 .. (i + 1) - 1 : height[stack[j].pkg] < height[stack[i + 1].pkg]
          /\ \A q \in PkgsOf(libs[stack[i + 1].pkg]) :
               q \in PkgsOf(out) \/ \E j \in 1 .. (i + 1) - 1 : stack[j].pkg = q
      BY <1>5, <3>1 DEF Pending
    <3>3. ASSUME NEW q \in PkgsOf(libs[stack[i + 1].pkg]), q \notin PkgsOf(out)
          PROVE  \E j \in 1 .. i - 1 : rest[j].pkg = q
      <4>1. PICK j \in 1 .. (i + 1) - 1 : stack[j].pkg = q
        BY <3>2, <3>3
      <4>2. j - 1 \in 1 .. i - 1 /\ rest[j - 1] = stack[j]
        BY <1>2, <2>3, <3>3, <4>1
      <4> QED BY <4>1, <4>2
    <3> QED BY <3>1, <3>2, <3>3
  <2>5. Entering(rest, seen, out)
    <3>1. ASSUME NEW q \in seen, q \notin PkgsOf(out)
          PROVE  \E i \in 1 .. Len(stack) - 1 : rest[i] = Leave(q)
      <4>1. PICK i \in 1 .. Len(stack) : stack[i] = Leave(q)
        BY <1>5, <3>1 DEF Entering
      <4>2. i # 1
        BY <1>7, <4>1 DEF Leave
      <4>3. i - 1 \in 1 .. Len(stack) - 1 /\ rest[i - 1] = stack[i]
        BY <1>2, <4>2
      <4> QED BY <4>1, <4>3
    <3> QED BY <1>2, <1>5, <2>1, <3>1 DEF Entering
  <2>6. Reaches(rest, out, main)
    <3>1. ASSUME NEW i \in 1 .. Len(stack), stack[i].pkg = main, main # p
          PROVE  \E k \in 1 .. Len(stack) - 1 : rest[k].pkg = main
      <4>1. i - 1 \in 1 .. Len(stack) - 1 /\ rest[i - 1] = stack[i]
        BY <1>2, <3>1
      <4> QED BY <3>1, <4>1
    <3> QED BY <1>2, <1>5, <2>1, <2>3, <3>1 DEF Reaches
  <2> QED BY <1>5, <2>1, <2>2, <2>4, <2>5, <2>6 DEF WalkInv
<1>8. CASE stack[1].enter /\ p \notin seen
  <2>m. PICK m : m = Len(libs[p])
    OBVIOUS
  <2>b. PICK begun : begun = WithImports(libs[p], p, rest)
    OBVIOUS
  <2>1. new = [stack |-> begun, seen |-> seen \cup {p}, out |-> out]
    BY <1>1, <1>2, <1>r, <1>n, <1>8, <2>b DEF RecurseAutolibs
  <2>2. libs[p] \in Seq(P)
    BY <1>3 DEF HasHeight
  <2>3. /\ begun \in Seq(Frames(P)) /\ Len(begun) = Len(stack) + m /\ m \in Nat
        /\ \A i \in 1 .. m : begun[i] = Enter(libs[p][i])
        /\ begun[m + 1] = Leave(p)
        /\ \A i \in m + 2 .. Len(begun) : begun[i] = stack[i - m]
    <3>1. Begun(P, stack, p, libs[p], begun)
      BY <1>1, <1>3, <1>r, <2>b, <2>2, Pushed
    <3> QED BY <2>m, <3>1 DEF Begun
  <2>e. \A q : Enter(q).enter /\ Enter(q).pkg = q
    BY DEF Enter
  <2>4. \A i \in 1 .. m : libs[p][i] \in PkgsOf(libs[p])
    BY <2>m DEF PkgsOf
  <2>5. ASSUME NEW q \in PkgsOf(libs[p]) PROVE \E i \in 1 .. m : begun[i].pkg = q
    <3>1. PICK i \in 1 .. m : libs[p][i] = q
      BY <2>m DEF PkgsOf
    <3>2. begun[i].pkg = q
      BY <2>3, <2>e, <3>1
    <3> QED BY <3>2
  <2>6. new \in Walks(P)
    BY <1>1, <1>3, <2>1, <2>3 DEF Walks
  <2>7. p \notin PkgsOf(out)
    BY <1>5, <1>8 DEF Entering
  <2>8. \A q \in P : height[q] \in Nat
    BY <1>h
  <2>9. \A i \in 1 .. m : begun[i].pkg \in P /\ height[begun[i].pkg] < height[p]
    <3>1. \A q \in PkgsOf(libs[p]) : height[q] < height[p]
      BY <1>3 DEF HasHeight
    <3>2. \A i \in 1 .. m : libs[p][i] \in P
      BY <2>2, <2>m
    <3>3. \A i \in 1 .. m : begun[i].pkg = libs[p][i]
      BY <2>3, <2>e
    <3> QED BY <2>4, <3>1, <3>2, <3>3
  <2>10. \A j \in 1 .. m + 1 : begun[j].pkg = p \/ height[begun[j].pkg] < height[p]
    BY <2>3, <2>9 DEF Leave
  <2>11. Pending(libs, height, begun, seen \cup {p}, out)
    <3> SUFFICES ASSUME NEW i \in 1 .. Len(begun), ~begun[i].enter
                 PROVE  /\ begun[i].pkg \in (seen \cup {p}) \ PkgsOf(out)
                        /\ \A j \in 1 .. i - 1 : height[begun[j].pkg] < height[begun[i].pkg]
                        /\ \A q \in PkgsOf(libs[begun[i].pkg]) :
                             q \in PkgsOf(out) \/ \E j \in 1 .. i - 1 : begun[j].pkg = q
      BY <2>1 DEF Pending
    <3>1. i \notin 1 .. m
      BY <2>3, <2>e
    <3>2. CASE i = m + 1
      <4>1. begun[i].pkg = p
        BY <2>3, <3>2 DEF Leave
      <4>2. i - 1 = m
        BY <2>3, <3>2
      <4> QED BY <2>5, <2>7, <2>9, <4>1, <4>2
    <3>3. CASE i # m + 1
      <4>1. /\ i \in m + 2 .. Len(begun) /\ i - m \in 1 .. Len(stack) /\ begun[i] = stack[i - m]
            /\ 1 \in 1 .. (i - m) - 1
        BY <1>2, <2>3, <3>1, <3>3
      <4>2. /\ stack[i - m].pkg \in seen \ PkgsOf(out)
            /\ \A j \in 1 .. (i - m) - 1 : height[stack[j].pkg] < height[stack[i - m].pkg]
            /\ \A q \in PkgsOf(libs[stack[i - m].pkg]) :
                 q \in PkgsOf(out) \/ \E j \in 1 .. (i - m) - 1 : stack[j].pkg = q
        BY <1>5, <4>1 DEF Pending
      <4>3. ASSUME NEW j \in 1 .. i - 1 PROVE height[begun[j].pkg] < height[begun[i].pkg]
        <5>1. height[p] < height[begun[i].pkg]
          BY <4>1, <4>2
        <5>2. height[p] \in Nat /\ height[begun[i].pkg] \in Nat
          BY <1>3, <1>4, <2>8, <4>1
        <5>3. CASE j \in 1 .. m + 1
          <6>1. begun[j].pkg = p \/ (height[begun[j].pkg] < height[p] /\ height[begun[j].pkg] \in Nat)
            <7>1. j = m + 1 \/ j \in 1 .. m
              BY <2>3, <5>3
            <7> QED BY <2>3, <2>8, <2>9, <7>1 DEF Leave
          <6> QED BY <5>1, <5>2, <6>1
        <5>4. CASE j \notin 1 .. m + 1
          <6>1. j \in m + 2 .. Len(begun) /\ j - m \in 1 .. (i - m) - 1
            BY <1>2, <2>3, <4>1, <5>4
          <6>2. begun[j] = stack[j - m]
            BY <2>3, <6>1
          <6> QED BY <4>1, <4>2, <6>1, <6>2
        <5> QED BY <5>3, <5>4
      <4>4. ASSUME NEW q \in PkgsOf(libs[begun[i].pkg]), q \notin PkgsOf(out)
            PROVE  \E j \in 1 .. i - 1 : begun[j].pkg = q
        <5>1. PICK j \in 1 .. (i - m) - 1 : stack[j].pkg = q
          BY <4>1, <4>2, <4>4
        <5>2. CASE j = 1
          <6>1. m + 1 \in 1 .. i - 1 /\ begun[m + 1].pkg = p
            BY <2>3, <4>1 DEF Leave
          <6> QED BY <5>1, <5>2, <6>1
        <5>3. CASE j # 1
          <6>1. /\ j + m \in 1 .. i - 1 /\ j + m \in m + 2 .. Len(begun) /\ (j + m) - m = j
            BY <1>2, <2>3, <4>1, <5>3
          <6>2. begun[j + m] = stack[j]
            BY <2>3, <6>1
          <6> QED BY <5>1, <6>1, <6>2
        <5> QED BY <5>2, <5>3
      <4> QED BY <4>1, <4>2, <4>3, <4>4
    <3> QED BY <3>2, <3>3
  <2>12. Entering(begun, seen \cup {p}, out)
    <3>1. ASSUME NEW q \in seen \cup {p}, q \notin PkgsOf(out)
          PROVE  \E i \in 1 .. Len(begun) : begun[i] = Leave(q)
      <4>1. CASE q = p
        <5>1. m + 1 \in 1 .. Len(begun)
          BY <1>2, <2>3
        <5> QED BY <2>3, <4>1, <5>1
      <4>2. CASE q # p
        <5>1. PICK i \in 1 .. Len(stack) : stack[i] = Leave(q)
          BY <1>5, <3>1, <4>2 DEF Entering
        <5>2. i # 1
          BY <1>8, <5>1 DEF Leave
        <5>3. i + m \in m + 2 .. Len(begun) /\ i + m \in 1 .. Len(begun) /\ (i + m) - m = i
          BY <2>3, <5>2
        <5>4. begun[i + m] = stack[i]
          BY <2>3, <5>3
        <5> QED BY <5>1, <5>3, <5>4
      <4> QED BY <4>1, <4>2
    <3> QED BY <1>5, <2>1, <3>1 DEF Entering
  <2>13. Reaches(begun, out, main)
    <3>1. ASSUME NEW i \in 1 .. Len(stack), stack[i].pkg = main
          PROVE  \E k \in 1 .. Len(begun) : begun[k].pkg = main
      <4>1. CASE i = 1
        <5>1. m + 1 \in 1 .. Len(begun) /\ begun[m + 1].pkg = p
          BY <1>2, <2>3 DEF Leave
        <5> QED BY <3>1, <4>1, <5>1
      <4>2. CASE i # 1
        <5>1. i + m \in m + 2 .. Len(begun) /\ i + m \in 1 .. Len(begun) /\ (i + m) - m = i
          BY <2>3, <4>2
        <5>2. begun[i + m] = stack[i]
          BY <2>3, <5>1
        <5> QED BY <3>1, <5>1, <5>2
      <4> QED BY <4>1, <4>2
    <3> QED BY <1>5, <2>1, <3>1 DEF Reaches
  <2> QED BY <1>5, <2>1, <2>6, <2>11, <2>12, <2>13 DEF WalkInv
<1> QED BY <1>3, <1>6, <1>7, <1>8

\* ... and takes one of the steps that are left.
StepsLeft(libs, at) == Len(at.stack) + Cardinality(StepsOf(libs, at.seen))

LEMMA StepsAreFinite ==
  ASSUME NEW libs, IsFiniteSet(DOMAIN libs), libs \in [DOMAIN libs -> Seq(DOMAIN libs)], NEW seen
  PROVE  IsFiniteSet(StepsOf(libs, seen)) /\ Cardinality(StepsOf(libs, seen)) \in Nat
<1> DEFINE unseen == DOMAIN libs \ seen
           Of(p) == {p} \X (0 .. Len(libs[p]))
           all == {Of(p) : p \in unseen}
<1>1. IsFiniteSet(unseen)
  BY FS_Subset
<1>2. IsFiniteSet(all)
  <2>1. PICK f : f = [p \in unseen |-> Of(p)]
    OBVIOUS
  <2>2. f \in Surjection(unseen, all)
    BY <2>1 DEF Surjection
  <2> HIDE DEF all, unseen
  <2> QED BY <1>1, <2>2, FS_Surjection
<1>3. \A T \in all : IsFiniteSet(T)
  <2>1. SUFFICES ASSUME NEW p \in unseen PROVE IsFiniteSet(Of(p))
    OBVIOUS
  <2>2. PICK n \in Int : n = Len(libs[p])
    OBVIOUS
  <2>3. IsFiniteSet({p}) /\ IsFiniteSet(0 .. n)
    <3>1. 0 \in Int
      OBVIOUS
    <3> QED BY <2>2, <3>1, FS_Singleton, FS_Interval
  <2>4. IsFiniteSet({p} \X (0 .. n))
    BY <2>3, FS_Product
  <2> QED BY <2>2, <2>4
<1>4. StepsOf(libs, seen) = UNION all
  BY DEF StepsOf
<1>5. IsFiniteSet(UNION all)
  <2> HIDE DEF all
  <2> QED BY <1>2, <1>3, FS_UNION
<1> QED BY <1>4, <1>5, FS_CardinalityType

LEMMA FewerSteps ==
  ASSUME NEW libs, NEW height, HasHeight(libs, height), IsFiniteSet(DOMAIN libs), NEW main, NEW at,
         WalkInv(libs, height, main, at), at.stack # <<>>
  PROVE  StepsLeft(libs, RecurseAutolibs(libs, at)) = StepsLeft(libs, at) - 1
<1> DEFINE P == DOMAIN libs
<1>0. PICK stack, seen, out : stack = at.stack /\ seen = at.seen /\ out = at.out
  OBVIOUS
<1>1. /\ at = [stack |-> stack, seen |-> seen, out |-> out]
      /\ stack \in Seq(Frames(P)) /\ seen \subseteq P /\ out \in Seq(P) /\ stack # <<>>
  BY <1>0 DEF WalkInv, Walks
<1>p. PICK p : p = stack[1].pkg
  OBVIOUS
<1>n. PICK new : new = RecurseAutolibs(libs, at)
  OBVIOUS
<1>2. /\ Len(stack) \in Nat \ {0} /\ Len(Tail(stack)) = Len(stack) - 1
      /\ Head(stack) = stack[1] /\ stack[1] \in Frames(P)
  BY <1>1, Popped
<1>3. p \in P /\ stack[1].enter \in BOOLEAN /\ libs \in [P -> Seq(P)]
  BY <1>2, <1>p DEF Frames, HasHeight
<1>4. IsFiniteSet(StepsOf(libs, seen)) /\ Cardinality(StepsOf(libs, seen)) \in Nat
  BY <1>3, StepsAreFinite
<1>5. CASE ~stack[1].enter \/ p \in seen
  <2>1. new.stack = Tail(stack) /\ new.seen = seen
    BY <1>1, <1>2, <1>p, <1>n, <1>5 DEF RecurseAutolibs
  <2> QED BY <1>0, <1>2, <1>4, <1>n, <2>1 DEF StepsLeft
<1>6. CASE stack[1].enter /\ p \notin seen
  <2>1. /\ new.seen = seen \cup {p} /\ new.stack = WithImports(libs[p], p, Tail(stack))
    BY <1>1, <1>2, <1>p, <1>n, <1>6 DEF RecurseAutolibs
  <2>2. Len(new.stack) = Len(stack) + Len(libs[p]) /\ Len(libs[p]) \in Nat
    <3>1. libs[p] \in Seq(P)
      BY <1>3
    <3>2. Begun(P, stack, p, libs[p], new.stack)
      BY <1>1, <1>3, <2>1, <3>1, Pushed
    <3> QED BY <3>2 DEF Begun
  <2>3. PICK own, others : own = {p} \X (0 .. Len(libs[p])) /\ others = StepsOf(libs, new.seen)
    OBVIOUS
  <2>4. IsFiniteSet(own) /\ Cardinality(own) = Len(libs[p]) + 1
    <3>1. IsFiniteSet({p}) /\ Cardinality({p}) = 1
      BY FS_Singleton
    <3>2. IsFiniteSet(0 .. Len(libs[p])) /\ Cardinality(0 .. Len(libs[p])) = Len(libs[p]) + 1
      <4>1. 0 \in Int /\ Len(libs[p]) \in Int /\ ~(0 > Len(libs[p])) /\ Len(libs[p]) - 0 + 1 = Len(libs[p]) + 1
        BY <2>2
      <4> QED BY <4>1, FS_Interval
    <3>3. IsFiniteSet(own) /\ Cardinality(own) = Cardinality({p}) * Cardinality(0 .. Len(libs[p]))
      BY <2>3, <3>1, <3>2, FS_Product
    <3> QED BY <2>2, <3>1, <3>2, <3>3
  <2>5. IsFiniteSet(others) /\ Cardinality(others) \in Nat
    BY <1>3, <2>3, StepsAreFinite
  <2>6. StepsOf(libs, seen) = own \cup others
    <3>1. P \ seen = {p} \cup (P \ new.seen)
      BY <1>3, <1>6, <2>1
    <3> QED BY <2>3, <3>1 DEF StepsOf
  <2>7. own \cap others = {}
    <3>1. \A x \in own : x[1] = p
      BY <2>3
    <3>2. \A x \in others : x[1] # p
      BY <2>1, <2>3 DEF StepsOf
    <3> QED BY <3>1, <3>2
  <2>8. Cardinality(StepsOf(libs, seen)) = Cardinality(own) + Cardinality(others)
    <3>1. Cardinality(own \cup others) = Cardinality(own) + Cardinality(others) - Cardinality({})
      BY <2>4, <2>5, <2>7, FS_Union
    <3>2. Cardinality({}) = 0
      BY FS_EmptySet
    <3> QED BY <2>2, <2>4, <2>5, <2>6, <3>1, <3>2
  <2>9. StepsLeft(libs, at) = Len(stack) + ((Len(libs[p]) + 1) + Cardinality(others))
    BY <1>0, <2>4, <2>8 DEF StepsLeft
  <2>10. StepsLeft(libs, new) = (Len(stack) + Len(libs[p])) + Cardinality(others)
    BY <2>2, <2>3 DEF StepsLeft
  <2> QED BY <1>2, <1>n, <2>2, <2>5, <2>9, <2>10
<1> QED BY <1>3, <1>5, <1>6

\* Autolib has main, and all that it has comes once and after what it imports.
LEMMA AutolibIsOrdered ==
  ASSUME NEW libs, NEW height, HasHeight(libs, height), IsFiniteSet(DOMAIN libs),
         NEW main \in DOMAIN libs
  PROVE  /\ Autolib(libs, main) \in Seq(DOMAIN libs) /\ Ordered(libs, Autolib(libs, main))
         /\ main \in PkgsOf(Autolib(libs, main))
<1> DEFINE P == DOMAIN libs
           N == 1 + Cardinality(StepsOf(libs, {}))
           start == [stack |-> <<Enter(main)>>, seen |-> {}, out |-> <<>>]
           T == {at \in Walks(P) : WalkInv(libs, height, main, at)}
           After(g, n) == IF n = 0 THEN start ELSE RecurseAutolibs(libs, g[n - 1])
           Solves(g) == g = [n \in 0 .. N |-> After(g, n)]
<1>1. N \in Nat /\ Cardinality(StepsOf(libs, {})) \in Nat
  BY StepsAreFinite DEF HasHeight
<1>2. start \in T
  <2>1. Enter(main) \in Frames(P) /\ Enter(main).enter /\ Enter(main).pkg = main
    BY DEF Frames, Enter
  <2>2. PICK stack : stack = <<Enter(main)>>
    OBVIOUS
  <2>3. stack \in Seq(Frames(P)) /\ Len(stack) = 1 /\ stack[1] = Enter(main)
    BY <2>1, <2>2
  <2>4. Len(<<>>) = 0 /\ <<>> \in Seq(P) /\ PkgsOf(<<>>) = {}
    BY OnlyMain
  <2>5. Ordered(libs, <<>>)
    BY <2>4 DEF Ordered
  <2>6. Pending(libs, height, stack, {}, <<>>) /\ Entering(stack, {}, <<>>) /\ Reaches(stack, <<>>, main)
    BY <2>1, <2>3, <2>4 DEF Pending, Entering, Reaches
  <2>7. start.stack = stack /\ start.seen = {} /\ start.out = <<>> /\ start \in Walks(P)
    BY <2>2, <2>3, <2>4 DEF Walks
  <2> QED BY <2>5, <2>6, <2>7 DEF WalkInv
<1>3. \A at \in T : RecurseAutolibs(libs, at) \in T
  <2> SUFFICES ASSUME NEW at \in T PROVE RecurseAutolibs(libs, at) \in T
    OBVIOUS
  <2>1. CASE at.stack = <<>>
    BY <2>1 DEF RecurseAutolibs
  <2>2. CASE at.stack # <<>>
    <3>1. WalkInv(libs, height, main, RecurseAutolibs(libs, at))
      BY <2>2, WalkStep
    <3> QED BY <3>1 DEF WalkInv
  <2> QED BY <2>1, <2>2
<1> HIDE DEF T, start
<1>4. \E g : Solves(g)
  <2>1. PICK F \in [(1 .. N) \X T -> T] : \A k \in 1 .. N : \A at \in T : F[<<k, at>>] = RecurseAutolibs(libs, at)
    <3> DEFINE G == [x \in (1 .. N) \X T |-> RecurseAutolibs(libs, x[2])]
    <3>1. G \in [(1 .. N) \X T -> T]
      BY <1>3
    <3>2. \A k \in 1 .. N : \A at \in T : G[<<k, at>>] = RecurseAutolibs(libs, at)
      OBVIOUS
    <3> QED BY <3>1, <3>2
  <2>2. PICK g : Upto(N, T, start, F, g)
    BY <1>1, <1>2, SegmentRecursion, Zenon
  <2>3. ASSUME NEW k \in 1 .. N PROVE g[k] = RecurseAutolibs(libs, g[k - 1])
    <3>1. k - 1 \in 0 .. N
      BY <1>1
    <3> QED BY <2>1, <2>2, <3>1 DEF Upto
  <2>4. \A n \in 0 .. N : g[n] = After(g, n)
    BY <1>1, <2>2, <2>3 DEF Upto
  <2> HIDE DEF After
  <2>5. g = [n \in 0 .. N |-> After(g, n)]
    <3>1. g \in [0 .. N -> T]
      BY <2>2 DEF Upto
    <3> QED BY <2>4, <3>1
  <2> QED BY <2>5
<1>5. PICK walk : walk = CHOOSE g : Solves(g)
  OBVIOUS
<1>6. Solves(walk)
  BY <1>4, <1>5
<1>7. walk[N].out = Autolib(libs, main)
  BY <1>5 DEF Autolib, start
<1>8. walk[0] = start /\ \A k \in 1 .. N : walk[k] = RecurseAutolibs(libs, walk[k - 1])
  <2>1. \A k \in 0 .. N : walk[k] = After(walk, k)
    <3> HIDE DEF After
    <3> QED BY <1>6
  <2>2. 0 \in 0 .. N /\ \A k \in 1 .. N : k \in 0 .. N /\ k # 0
    BY <1>1
  <2> QED BY <2>1, <2>2
<1> HIDE DEF Solves
<1> DEFINE G == {n \in 0 .. N : walk[n] \in T /\ (walk[n].stack = <<>> \/ StepsLeft(libs, walk[n]) = N - n)}
<1>9. 0 \in G
  <2>1. StepsLeft(libs, start) = N
    BY <1>1 DEF StepsLeft, start
  <2> QED BY <1>1, <1>2, <1>8, <2>1
<1>10. ASSUME NEW n \in 1 .. N, n - 1 \in G PROVE n \in G
  <2>1. walk[n - 1] \in T /\ walk[n] = RecurseAutolibs(libs, walk[n - 1])
    BY <1>8, <1>10
  <2>2. walk[n] \in T
    BY <1>3, <2>1
  <2>3. CASE walk[n - 1].stack = <<>>
    <3>1. walk[n] = walk[n - 1]
      BY <2>1, <2>3 DEF RecurseAutolibs
    <3> QED BY <1>1, <2>2, <2>3, <3>1
  <2>4. CASE walk[n - 1].stack # <<>>
    <3>1. WalkInv(libs, height, main, walk[n - 1])
      BY <2>1 DEF T
    <3>2. StepsLeft(libs, walk[n]) = StepsLeft(libs, walk[n - 1]) - 1
      BY <2>1, <2>4, <3>1, FewerSteps
    <3>3. StepsLeft(libs, walk[n - 1]) = N - (n - 1)
      BY <1>10, <2>4
    <3>4. StepsLeft(libs, walk[n]) = N - n
      BY <1>1, <3>2, <3>3
    <3> QED BY <1>1, <2>2, <3>4
  <2> QED BY <2>3, <2>4
<1>11. 0 .. N \subseteq G
  <2> HIDE DEF G
  <2> QED BY <1>1, <1>9, <1>10, SegmentInduction
<1>12. PICK end : end = walk[N]
  OBVIOUS
<1>13. WalkInv(libs, height, main, end) /\ (end.stack = <<>> \/ StepsLeft(libs, end) = 0)
  BY <1>1, <1>11, <1>12 DEF T
<1>14. end.stack \in Seq(Frames(P)) /\ end.out \in Seq(P)
  BY <1>13 DEF WalkInv, Walks
<1>15. end.stack = <<>>
  <2>1. Len(end.stack) \in Nat /\ (Len(end.stack) = 0 => end.stack = <<>>)
    BY <1>14
  <2>2. Cardinality(StepsOf(libs, end.seen)) \in Nat
    BY StepsAreFinite DEF HasHeight
  <2> QED BY <1>13, <2>1, <2>2 DEF StepsLeft
<1>16. main \in PkgsOf(end.out)
  <2>1. Reaches(end.stack, end.out, main) /\ Len(end.stack) = 0
    BY <1>13, <1>15 DEF WalkInv
  <2> QED BY <2>1 DEF Reaches
<1>17. Ordered(libs, end.out)
  BY <1>13 DEF WalkInv
<1> QED BY <1>7, <1>12, <1>14, <1>16, <1>17

(***************************************************************************)
(* Load runs the init functions of packages in that order.                 *)
(***************************************************************************)
\* A package that Load knows has run its task or is to; what is to run comes before
\* nothing that it imports.
Runnable ==
  /\ ran \in Seq(Packages) /\ toInit \in Seq(Packages)
  /\ loaded = "no" => ran = <<>> /\ toInit = <<>>
  /\ loaded # "no" => phase = "returned"
  /\ \A p \in PkgsOf(paths) : loaded # "no" /\ RunsOwnTask(p) => p \in PkgsOf(ran) \cup PkgsOf(toInit)
  /\ \A i, j \in 1 .. Len(toInit) :
       i <= j /\ toInit[i] \in Imported => toInit[j] \notin PkgsOf(w.imports[toInit[i]])
LoadInv == Runnable /\ ImportsFirst

LEMMA IndexOf ==
  ASSUME NEW P, NEW list \in Seq(P), \A i, j \in 1 .. Len(list) : list[i] = list[j] => i = j,
         NEW i \in 1 .. Len(list)
  PROVE  Index(list, list[i]) = i - 1
<1>1. PICK k : k = CHOOSE j \in 1 .. Len(list) : list[j] = list[i]
  OBVIOUS
<1>2. k \in 1 .. Len(list) /\ list[k] = list[i]
  BY <1>1
<1>3. k = i
  BY <1>2
<1> QED BY <1>1, <1>3 DEF Index

\* The imports that the archives know have a height as well.
LEMMA KnownImports ==
  ASSUME IInv, paths # <<>>
  PROVE  /\ DOMAIN AutolibsByPkg = DOMAIN w.imports /\ IsFiniteSet(DOMAIN w.imports)
         /\ PkgsOf(paths) \subseteq DOMAIN w.imports /\ Main \in DOMAIN w.imports
         /\ \A p \in PkgsOf(paths) : AutolibsByPkg[p] = w.imports[p]
         /\ \E height : HasHeight(AutolibsByPkg, height)
<1> DEFINE P == DOMAIN w.imports
<1>1. w \in Programs /\ PkgsOf(paths) \subseteq Packages \ {NoPackage} /\ paths[Len(paths)] = Main
      /\ paths \in Seq(Packages)
  BY DEF IInv, TypeOK, PathsInv
<1>2. /\ IsFiniteSet(P) /\ w.imports \in [P -> Seq(P)] /\ Packages \ {NoPackage} \subseteq P
      /\ \E height \in [P -> 0 .. Cardinality(P)] :
           \A q \in P : \A i \in 1 .. Len(w.imports[q]) : height[w.imports[q][i]] < height[q]
  BY <1>1, ImportsAssumption DEF Packages
<1>3. Main \in P
  <2>1. Len(paths) \in 1 .. Len(paths)
    BY <1>1
  <2> QED BY <1>1, <1>2, <2>1 DEF PkgsOf
<1>4. DOMAIN AutolibsByPkg = P /\ \A p \in P : AutolibsByPkg[p] = IF p \in PkgsOf(paths) THEN w.imports[p] ELSE <<>>
  BY DEF AutolibsByPkg
<1>5. PICK height \in [P -> 0 .. Cardinality(P)] :
        \A q \in P : \A i \in 1 .. Len(w.imports[q]) : height[w.imports[q][i]] < height[q]
  BY <1>2
<1>6. HasHeight(AutolibsByPkg, height)
  <2>1. AutolibsByPkg \in [P -> Seq(P)]
    <3>1. \A p \in P : AutolibsByPkg[p] \in Seq(P)
      <4>1. \A p \in P : w.imports[p] \in Seq(P) /\ <<>> \in Seq(P)
        BY <1>2
      <4> QED BY <1>4, <4>1
    <3> QED BY <3>1 DEF AutolibsByPkg
  <2>2. height \in [P -> Nat]
    <3>1. Cardinality(P) \in Nat
      BY <1>2, FS_CardinalityType
    <3> QED BY <1>5, <3>1
  <2>3. ASSUME NEW p \in P, NEW q \in PkgsOf(AutolibsByPkg[p]) PROVE height[q] < height[p]
    <3>1. PICK i \in 1 .. Len(AutolibsByPkg[p]) : q = AutolibsByPkg[p][i]
      BY <2>3 DEF PkgsOf
    <3>2. AutolibsByPkg[p] = w.imports[p]
      <4>1. CASE p \notin PkgsOf(paths)
        BY <1>4, <3>1, <4>1
      <4> QED BY <1>4, <4>1
    <3> QED BY <1>5, <3>1, <3>2
  <2> QED BY <1>4, <2>1, <2>2, <2>3 DEF HasHeight
<1> QED BY <1>1, <1>2, <1>3, <1>4, <1>6

\* Any order that sort.Slice leaves has all packages, and those that main leads to after
\* what they import.
LEMMA OrdersOfLoad ==
  ASSUME IInv, paths # <<>>, NEW order \in InitOrders
  PROVE  /\ order \in Seq(PkgsOf(paths)) /\ PkgsOf(order) = PkgsOf(paths)
         /\ \A i, j \in 1 .. Len(order) :
              i <= j /\ order[i] \in Imported => order[j] \notin PkgsOf(w.imports[order[i]])
<1> DEFINE P == DOMAIN w.imports
           libs == AutolibsByPkg
           n == Len(paths)
<1>1. PICK out : out = Autolib(libs, Main)
  OBVIOUS
<1>2. paths \in Seq(Packages) /\ paths[n] = Main /\ n \in Nat
  BY DEF IInv, PathsInv
<1>3. /\ DOMAIN libs = P /\ IsFiniteSet(P) /\ PkgsOf(paths) \subseteq P /\ Main \in P
      /\ \A p \in PkgsOf(paths) : libs[p] = w.imports[p]
  BY KnownImports
<1>4. PICK height : HasHeight(libs, height)
  BY KnownImports
<1> HIDE DEF libs
<1>5. out \in Seq(P) /\ Ordered(libs, out) /\ Main \in PkgsOf(out)
  BY <1>1, <1>3, <1>4, AutolibIsOrdered
<1>6. /\ order \in [1 .. n -> PkgsOf(paths)]
      /\ \A i, j \in 1 .. n : i < j => Index(out, order[i]) <= Index(out, order[j])
      /\ \A i, j \in 1 .. n : i # j => order[i] # order[j]
  BY <1>1, <1>2 DEF InitOrders, libs
<1>7. order \in Seq(PkgsOf(paths)) /\ Len(order) = n
  BY <1>2, <1>6
<1>8. PkgsOf(order) = PkgsOf(paths)
  <2>1. IsFiniteSet(1 .. n)
    BY <1>2, FS_Interval
  <2>2. PICK f : f = [i \in 1 .. n |-> paths[i]]
    OBVIOUS
  <2>3. f \in Surjection(1 .. n, PkgsOf(paths))
    BY <2>2 DEF Surjection, PkgsOf
  <2>4. IsFiniteSet(PkgsOf(paths)) /\ Cardinality(PkgsOf(paths)) <= Cardinality(1 .. n)
    BY <2>1, <2>3, FS_Surjection
  <2>5. order \in Injection(1 .. n, PkgsOf(paths))
    BY <1>6 DEF Injection, IsInjective
  <2>6. Cardinality(1 .. n) <= Cardinality(PkgsOf(paths))
    BY <2>4, <2>5, FS_Injection
  <2>7. Cardinality(1 .. n) = Cardinality(PkgsOf(paths))
    BY <2>1, <2>4, <2>6, FS_CardinalityType
  <2>8. order \in Surjection(1 .. n, PkgsOf(paths))
    BY <2>4, <2>5, <2>7, FS_Injection
  <2> QED BY <1>7, <2>8 DEF Surjection, PkgsOf
<1>9. Imported \subseteq PkgsOf(out)
  <2>1. PICK next : next = [p \in P |-> PkgsOf(libs[p])]
    OBVIOUS
  <2>2. next \in [P -> SUBSET P]
    <3>1. \A p \in P : libs[p] \in Seq(P)
      BY <1>3, <1>4 DEF HasHeight
    <3>2. \A p \in P : PkgsOf(libs[p]) \subseteq P
      BY <3>1 DEF PkgsOf
    <3> QED BY <2>1, <3>2
  <2>3. ASSUME NEW p \in PkgsOf(out) \cap P PROVE next[p] \subseteq PkgsOf(out)
    <3>1. PICK j \in 1 .. Len(out) : out[j] = p
      BY <2>3 DEF PkgsOf
    <3>2. ASSUME NEW q \in PkgsOf(libs[p]) PROVE q \in PkgsOf(out)
      <4>1. PICK i \in 1 .. j - 1 : out[i] = q
        BY <1>5, <3>1, <3>2 DEF Ordered
      <4>2. i \in 1 .. Len(out)
        BY <1>5, <4>1
      <4> QED BY <4>1, <4>2 DEF PkgsOf
    <3> QED BY <2>1, <2>3, <3>2
  <2>4. {Main} \in SUBSET P /\ {Main} \subseteq PkgsOf(out)
    BY <1>3, <1>5
  <2>5. Imported = Closure(P, {Main}, next)
    BY <2>1 DEF Imported, libs
  <2> HIDE DEF P
  <2> QED BY <1>3, <2>2, <2>3, <2>4, <2>5, ClosureIsLeast
<1>10. ASSUME NEW i \in 1 .. n, NEW j \in 1 .. n, i <= j, order[i] \in Imported,
              order[j] \in PkgsOf(w.imports[order[i]])
       PROVE  FALSE
  <2>1. PICK b \in 1 .. Len(out) : out[b] = order[i]
    BY <1>9, <1>10 DEF PkgsOf
  <2>2. order[j] \in PkgsOf(libs[out[b]])
    BY <1>3, <1>6, <1>10, <2>1
  <2>3. PICK a \in 1 .. b - 1 : out[a] = order[j]
    BY <1>5, <2>2 DEF Ordered
  <2>4. Len(out) \in Nat /\ a \in 1 .. Len(out) /\ a < b
    BY <1>5, <2>3
  <2>5. Index(out, order[i]) = b - 1 /\ Index(out, order[j]) = a - 1
    BY <1>5, <2>1, <2>3, <2>4, IndexOf DEF Ordered
  <2>6. i # j
    BY <1>5, <2>1, <2>3, <2>4 DEF Ordered
  <2>7. Index(out, order[i]) <= Index(out, order[j])
    BY <1>2, <1>6, <1>10, <2>6
  <2> QED BY <2>4, <2>5, <2>7
<1> QED BY <1>7, <1>8, <1>10

\* Nothing is read or started once the call has returned.
LEMMA AfterReturn ==
  ASSUME [Next]_vars, phase = "returned"
  PROVE  phase' = phase /\ w' = w /\ paths' = paths
BY DEF Next, Caller, Prepare, GoList, GoGet, GoListStd, MakeDirectory, AbsPath, WriteText, ExecBuild, At,
       PrepareFails, ReadMain, ReadFails, TooDeep, NothingToBuild, BeginRound, StartBuild,
       BuildsFail, EndRound, Finish, Cleanup, Goroutine, EndBuild, FreeSlot, Others, OthersBuild, OthersRemove,
       vars, context, search

LEMMA StepLoad ==
  ASSUME IInv, LoadInv, [(Next /\ UNCHANGED unitVars) \/ Loading]_allVars
  PROVE  LoadInv'
<1>p. Packages' = Packages
  <2>1. w' = w
    BY StepContext DEF Loading, Load, Initialise, Initialised, allVars, vars
  <2> QED BY <2>1 DEF Packages
<1>0. Runnable /\ ImportsFirst
  BY DEF LoadInv
<1>1. CASE [Next]_vars /\ UNCHANGED unitVars
  <2>1. CASE loaded = "no"
    <3>1. ran' = <<>> /\ toInit' = <<>> /\ loaded' = "no" /\ <<>> \in Seq(Packages) /\ Len(<<>>) = 0
      BY <1>0, <1>1, <2>1 DEF Runnable, unitVars
    <3> QED BY <1>p, <3>1 DEF LoadInv, Runnable, ImportsFirst
  <2>2. CASE loaded # "no"
    <3>1. phase' = phase /\ w' = w /\ paths' = paths /\ toInit' = toInit /\ ran' = ran /\ loaded' = loaded
      BY <1>0, <1>1, <2>2, AfterReturn DEF Runnable, unitVars
    <3>2. Imported' = Imported /\ \A p : RunsOwnTask(p)' = RunsOwnTask(p)
      BY <3>1 DEF Imported, AutolibsByPkg, RunsOwnTask
    <3> QED BY <1>0, <1>p, <3>1, <3>2 DEF LoadInv, Runnable, ImportsFirst
  <2> QED BY <2>1, <2>2
<1>2. CASE Load
  <2>1. /\ loaded = "no" /\ phase = "returned" /\ result = "linked" /\ loaded' = "initialising"
        /\ toInit' \in InitOrders /\ phase' = phase /\ w' = w /\ paths' = paths /\ ran' = ran
    BY <1>2 DEF Load, vars
  <2>2. paths # <<>>
    BY <2>1 DEF IInv, PathsInv
  <2>3. /\ toInit' \in Seq(PkgsOf(paths)) /\ PkgsOf(toInit') = PkgsOf(paths)
        /\ \A i, j \in 1 .. Len(toInit') :
             i <= j /\ toInit'[i] \in Imported => toInit'[j] \notin PkgsOf(w.imports[toInit'[i]])
    BY <2>1, <2>2, OrdersOfLoad
  <2>4. Imported' = Imported
    BY <2>1 DEF Imported, AutolibsByPkg
  <2>5. toInit' \in Seq(Packages)
    <3>1. PkgsOf(paths) \subseteq Packages
      BY DEF IInv, TypeOK
    <3> QED BY <2>3, <3>1
  <2>6. ran' = <<>> /\ <<>> \in Seq(Packages) /\ Len(<<>>) = 0
    BY <1>0, <2>1 DEF Runnable
  <2>7. Runnable'
    BY <1>p, <2>1, <2>3, <2>4, <2>5, <2>6 DEF Runnable
  <2> QED BY <2>6, <2>7 DEF LoadInv, ImportsFirst
<1>3. CASE Initialise
  <2> DEFINE p == Head(toInit)
  <2>1. /\ loaded = "initialising" /\ toInit # <<>> /\ toInit' = Tail(toInit) /\ loaded' = loaded
        /\ ran' = IF RunsOwnTask(p) THEN Append(ran, p) ELSE ran
        /\ phase' = phase /\ w' = w /\ paths' = paths
    BY <1>3 DEF Initialise, vars
  <2>2. Imported' = Imported /\ \A q : RunsOwnTask(q)' = RunsOwnTask(q)
    BY <2>1 DEF Imported, AutolibsByPkg, RunsOwnTask
  <2>3. /\ toInit' \in Seq(Packages) /\ Len(toInit) \in Nat \ {0} /\ Len(toInit') = Len(toInit) - 1
        /\ p = toInit[1] /\ toInit[1] \in Packages
        /\ \A i \in 1 .. Len(toInit) - 1 : toInit'[i] = toInit[i + 1]
    BY <1>0, <2>1, Popped DEF Runnable
  <2>4. /\ ran' \in Seq(Packages) /\ Len(ran) \in Nat /\ \A i \in 1 .. Len(ran) : ran'[i] = ran[i]
        /\ RunsOwnTask(p) => Len(ran') = Len(ran) + 1 /\ ran'[Len(ran) + 1] = p
                             /\ PkgsOf(ran') = PkgsOf(ran) \cup {p}
        /\ ~RunsOwnTask(p) => ran' = ran
    <3>1. ran \in Seq(Packages) /\ p \in Packages
      BY <1>0, <2>3 DEF Runnable
    <3>2. /\ Append(ran, p) \in Seq(Packages) /\ Len(Append(ran, p)) = Len(ran) + 1 /\ Len(ran) \in Nat
          /\ Append(ran, p)[Len(ran) + 1] = p /\ \A i \in 1 .. Len(ran) : Append(ran, p)[i] = ran[i]
          /\ PkgsOf(Append(ran, p)) = PkgsOf(ran) \cup {p}
      BY <3>1, Appended
    <3> HIDE DEF p
    <3> QED BY <2>1, <3>1, <3>2
  <2> HIDE DEF p
  <2>5. ASSUME NEW q \in PkgsOf(paths), RunsOwnTask(q)
        PROVE  q \in PkgsOf(ran') \cup PkgsOf(toInit')
    <3>1. q \in PkgsOf(ran) => q \in PkgsOf(ran')
      BY <2>4
    <3>2. ASSUME q \in PkgsOf(toInit), q # p PROVE q \in PkgsOf(toInit')
      <4>1. PICK i \in 1 .. Len(toInit) : toInit[i] = q
        BY <3>2 DEF PkgsOf
      <4>2. i - 1 \in 1 .. Len(toInit') /\ toInit'[i - 1] = q
        BY <2>3, <3>2, <4>1
      <4> QED BY <4>2 DEF PkgsOf
    <3>3. q = p => q \in PkgsOf(ran')
      BY <2>4, <2>5
    <3> QED BY <1>0, <2>1, <2>5, <3>1, <3>2, <3>3 DEF Runnable
  <2>6. ASSUME NEW i \in 1 .. Len(toInit'), NEW j \in 1 .. Len(toInit'), i <= j, toInit'[i] \in Imported
        PROVE  toInit'[j] \notin PkgsOf(w.imports[toInit'[i]])
    <3>1. /\ i + 1 \in 1 .. Len(toInit) /\ j + 1 \in 1 .. Len(toInit) /\ i + 1 <= j + 1
          /\ toInit'[i] = toInit[i + 1] /\ toInit'[j] = toInit[j + 1]
      BY <2>3, <2>6
    <3> QED BY <1>0, <2>6, <3>1 DEF Runnable
  <2>7. Runnable'
    BY <1>0, <1>p, <2>1, <2>2, <2>3, <2>4, <2>5, <2>6 DEF Runnable
  <2>8. ASSUME NEW i \in 1 .. Len(ran'), ran'[i] \in Imported, NEW k \in 1 .. Len(w.imports[ran'[i]]),
               w.imports[ran'[i]][k] \in PkgsOf(paths), RunsOwnTask(w.imports[ran'[i]][k])
        PROVE  \E j \in 1 .. i - 1 : ran'[j] = w.imports[ran'[i]][k]
    <3>1. CASE i \in 1 .. Len(ran)
      <4>1. ran'[i] = ran[i]
        BY <2>4, <3>1
      <4>2. PICK j \in 1 .. i - 1 : ran[j] = w.imports[ran[i]][k]
        BY <1>0, <2>8, <3>1, <4>1 DEF ImportsFirst
      <4>3. ran'[j] = ran[j]
        BY <2>4, <3>1
      <4> QED BY <4>1, <4>2, <4>3
    <3>2. CASE i \notin 1 .. Len(ran)
      <4>1. RunsOwnTask(p) /\ i = Len(ran) + 1 /\ ran'[i] = p
        BY <2>4, <3>2
      <4>2. PICK q : q = w.imports[p][k]
        OBVIOUS
      <4>3. q \in PkgsOf(w.imports[p]) /\ q \in PkgsOf(paths) /\ RunsOwnTask(q) /\ p \in Imported
        BY <2>8, <4>1, <4>2 DEF PkgsOf
      <4>4. q \notin PkgsOf(toInit)
        <5>1. ASSUME NEW j \in 1 .. Len(toInit) PROVE toInit[j] # q
          <6>1. 1 \in 1 .. Len(toInit) /\ 1 <= j
            BY <2>3
          <6> QED BY <1>0, <2>3, <4>3, <6>1 DEF Runnable
        <5> QED BY <5>1 DEF PkgsOf
      <4>5. q \in PkgsOf(ran)
        BY <1>0, <2>1, <4>3, <4>4 DEF Runnable
      <4>6. PICK j \in 1 .. Len(ran) : ran[j] = q
        BY <4>5 DEF PkgsOf
      <4>7. j \in 1 .. i - 1 /\ ran'[j] = q
        BY <2>4, <4>1, <4>6
      <4> QED BY <4>1, <4>2, <4>7
    <3> QED BY <3>1, <3>2
  <2>9. ImportsFirst'
    <3>1. \A i \in 1 .. Len(ran') : ran'[i] \in Imported =>
            \A k \in 1 .. Len(w.imports[ran'[i]]) :
              w.imports[ran'[i]][k] \in PkgsOf(paths) /\ RunsOwnTask(w.imports[ran'[i]][k]) =>
                \E j \in 1 .. i - 1 : ran'[j] = w.imports[ran'[i]][k]
      BY <2>8
    <3>2. w' = w /\ paths' = paths /\ Imported' = Imported /\ \A q : RunsOwnTask(q)' = RunsOwnTask(q)
      BY <2>1, <2>2
    <3> QED BY <3>1, <3>2 DEF ImportsFirst
  <2> QED BY <2>7, <2>9 DEF LoadInv
<1>4. CASE Initialised
  <2>1. /\ loaded = "initialising" /\ loaded' = "yes" /\ toInit' = toInit /\ ran' = ran
        /\ phase' = phase /\ w' = w /\ paths' = paths
    BY <1>4 DEF Initialised, vars
  <2>2. Imported' = Imported /\ \A p : RunsOwnTask(p)' = RunsOwnTask(p)
    BY <2>1 DEF Imported, AutolibsByPkg, RunsOwnTask
  <2> QED BY <1>0, <1>p, <2>1, <2>2 DEF LoadInv, Runnable, ImportsFirst
<1> QED BY <1>1, <1>2, <1>3, <1>4 DEF Loading, allVars, unitVars

\* When the init functions of a package run, those of the packages it imports have run
\* before them in the module, or in the host, whatever rounds found the packages and
\* whatever order sort.Slice leaves among equals (init.1.21.go:34).
THEOREM ImportsRunFirst == UnitSpec => []ImportsFirst
<1>1. UnitInit => LoadInv
  <2>1. <<>> \in Seq(Packages) /\ Len(<<>>) = 0
    OBVIOUS
  <2> QED BY <2>1 DEF UnitInit, LoadInv, Runnable, ImportsFirst
<1>2. IInv /\ LoadInv /\ [(Next /\ UNCHANGED unitVars) \/ Loading]_allVars => LoadInv'
  BY StepLoad
<1>3. LoadInv => ImportsFirst
  BY DEF LoadInv
<1> QED BY <1>1, <1>2, <1>3, AlwaysIInv, PTL DEF UnitSpec
================================================================================

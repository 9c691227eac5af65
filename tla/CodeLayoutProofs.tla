---------------------------- MODULE CodeLayoutProofs ----------------------------
(***************************************************************************)
(* Theorems about CodeLayout, for all programs and any size of bucket.     *)
(***************************************************************************)
EXTENDS CodeLayout, WellFoundedInduction, SequenceTheorems, TLAPS

(***************************************************************************)
(* Induction without an operator parameter: a set of naturals has a least  *)
(* element, and a recursion over a segment that keeps an invariant has a   *)
(* solution.                                                               *)
(***************************************************************************)

LEMMA LeastNatural ==
  ASSUME NEW S \in SUBSET Nat, S # {}
  PROVE  \E n \in S : \A k \in S : n <= k
<1>1. IsWellFoundedOn(OpToRel(<, Nat), Nat)
  BY NatLessThanWellFounded
<1>2. PICK n \in S : \A k \in S : ~ (<<k, n>> \in OpToRel(<, Nat))
  BY <1>1, WFMin
<1>3. \A k \in S : ~(k < n)
  BY <1>2 DEF OpToRel
<1> QED BY <1>3

LEMMA SegmentInduction ==
  ASSUME NEW N \in Nat, NEW G, 0 \in G, \A n \in 1 .. N : n - 1 \in G => n \in G
  PROVE  0 .. N \subseteq G
<1> DEFINE Missing == {n \in 0 .. N : n \notin G}
<1>1. SUFFICES ASSUME Missing # {} PROVE FALSE
  OBVIOUS
<1>2. PICK n \in Missing : \A k \in Missing : n <= k
  <2>1. Missing \in SUBSET Nat
    OBVIOUS
  <2> HIDE DEF Missing
  <2> QED BY <1>1, <2>1, LeastNatural
<1>3. n \in 1 .. N /\ n - 1 \in 0 .. N
  BY <1>2
<1> QED BY <1>2, <1>3

\* h starts from a, takes n steps of F, and is in Good throughout.
Upto(n, a, F, Good, h) ==
  /\ h = [i \in 0 .. n |-> h[i]] /\ h[0] = a
  /\ \A k \in 1 .. n : h[k] = F[<<k, h[k - 1]>>]
  /\ \A k \in 0 .. n : h[k] \in Good[k]

LEMMA SegmentRecursion ==
  ASSUME NEW N \in Nat, NEW Good, NEW a \in Good[0], NEW F,
         \A k \in 1 .. N : \A x \in Good[k - 1] : F[<<k, x>>] \in Good[k]
  PROVE  \E h : Upto(N, a, F, Good, h)
<1> DEFINE G == {n \in 0 .. N : \E h : Upto(n, a, F, Good, h)}
<1>1. 0 \in G
  <2>1. Upto(0, a, F, Good, [i \in 0 .. 0 |-> a])
    BY DEF Upto
  <2> QED BY <2>1
<1>2. ASSUME NEW n \in 1 .. N, n - 1 \in G PROVE n \in G
  <2>1. PICK h : Upto(n - 1, a, F, Good, h)
    BY <1>2
  <2>2. PICK g : g = [i \in 0 .. n |-> IF i = n THEN F[<<n, h[n - 1]>>] ELSE h[i]]
    OBVIOUS
  <2>3. F[<<n, h[n - 1]>>] \in Good[n]
    BY <2>1 DEF Upto
  <2>4. g = [i \in 0 .. n |-> g[i]] /\ g[0] = a /\ g[n] = F[<<n, h[n - 1]>>]
    BY <2>1, <2>2 DEF Upto
  <2>5. \A k \in 0 .. n - 1 : g[k] = h[k]
    BY <2>2
  <2>6. ASSUME NEW k \in 1 .. n PROVE g[k] = F[<<k, g[k - 1]>>]
    <3>1. k - 1 \in 0 .. n - 1 /\ g[k - 1] = h[k - 1]
      BY <2>5
    <3>2. CASE k = n
      BY <2>4, <3>1, <3>2
    <3>3. CASE k # n
      BY <2>1, <2>5, <3>1, <3>3 DEF Upto
    <3> QED BY <3>2, <3>3
  <2>7. ASSUME NEW k \in 0 .. n PROVE g[k] \in Good[k]
    <3>1. CASE k = n
      BY <2>3, <2>4, <3>1
    <3>2. CASE k # n
      BY <2>1, <2>5, <3>2 DEF Upto
    <3> QED BY <3>1, <3>2
  <2>8. Upto(n, a, F, Good, g)
    BY <2>4, <2>6, <2>7 DEF Upto
  <2> QED BY <2>8
<1>3. 0 .. N \subseteq G
  <2> HIDE DEF G
  <2> QED BY <1>1, <1>2, SegmentInduction
<1> QED BY <1>3

\* Whatever takes the steps is in Good throughout.
LEMMA SegmentInvariant ==
  ASSUME NEW N \in Nat, NEW Good, NEW h, h[0] \in Good[0],
         \A k \in 1 .. N : h[k - 1] \in Good[k - 1] => h[k] \in Good[k]
  PROVE  \A k \in 0 .. N : h[k] \in Good[k]
<1> DEFINE G == {n \in 0 .. N : h[n] \in Good[n]}
<1>1. 0 \in G
  OBVIOUS
<1>2. \A n \in 1 .. N : n - 1 \in G => n \in G
  OBVIOUS
<1> HIDE DEF G
<1>3. 0 .. N \subseteq G
  BY <1>1, <1>2, SegmentInduction
<1> QED BY <1>3 DEF G

(***************************************************************************)
(* Arithmetic.                                                             *)
(***************************************************************************)
LEMMA Division ==
  ASSUME NEW a \in Nat, NEW p \in Nat \ {0}
  PROVE  /\ a \div p \in Nat /\ a % p \in 0 .. p - 1
         /\ a = (a \div p) * p + (a % p)
         /\ (a \div p) * p <= a /\ a < (a \div p) * p + p
OBVIOUS

LEMMA DivisionIs ==
  ASSUME NEW a \in Nat, NEW q \in Nat, NEW p \in Nat \ {0}, q * p <= a, a < q * p + p
  PROVE  a \div p = q
<1> DEFINE d == a \div p
<1>1. d \in Nat /\ d * p <= a /\ a < d * p + p
  BY Division
<1> HIDE DEF d
<1>2. CASE d < q
  <2>1. d + 1 <= q BY <1>1, <1>2
  <2>2. (d + 1) * p <= q * p BY <1>1, <2>1
  <2> QED BY <1>1, <2>2
<1>3. CASE d > q
  <2>1. d >= q + 1 BY <1>1, <1>3
  <2>2. (q + 1) * p <= d * p BY <1>1, <2>1
  <2> QED BY <1>1, <2>2
<1> QED BY <1>1, <1>2, <1>3 DEF d

LEMMA Aligned ==
  ASSUME NEW a \in Nat
  PROVE  /\ Align(a) \in Nat /\ a <= Align(a) /\ Align(a) % PtrSize = 0
         /\ a % PtrSize = 0 => Align(a) = a
BY DEF Align, PtrSize

(***************************************************************************)
(* The layout of a function: where its epilogues are.                      *)
(***************************************************************************)
LEMMA EpilogueSizes ==
  ASSUME NEW r, NEW at \in Nat
  PROVE  /\ EpilogueSize(r, at) \in Nat
         /\ r.type \in RelocTypes("arm64") => EpilogueSize(r, at) % 4 = 0
<1> DEFINE Shorter(op, from) ==
             IF op \in {"MOV", "CMPL", "CALL"} /\ ShortJump(r, from + NearSize(op))
               THEN NearSize(op) - (JmpNear - JmpShort) ELSE NearSize(op)
<1>1. NearSize(ReservedAs(r)) \in {0, 8, 20, 21, 14, 19} /\ NearSize("CALL") = 19
  <2>1. NearSize("CALL") = 19
    BY DEF NearSize, PtrSize, MovQ, CmpL, JmpL, CallFar, JmpNear
  <2>2. \A op : NearSize(op) \in {0, 8, 20, 21, 14, 19}
    BY DEF NearSize, PtrSize, MovQ, CmpL, JmpL, CallFar, JmpNear
  <2> QED BY <2>1, <2>2
<1>2. Shorter("CALL", 0) \in Nat
  BY <1>1 DEF JmpNear, JmpShort
<1>3. Shorter(ReservedAs(r), at) \in Nat
  <2>1. \A op : op \in {"MOV", "CMPL", "CALL"} => NearSize(op) \in {20, 21, 19}
    BY DEF NearSize, PtrSize, MovQ, CmpL, JmpL, CallFar, JmpNear
  <2> QED BY <1>1, <2>1 DEF JmpNear, JmpShort
<1>4. EpilogueSize(r, at) =
        CASE r.type = "CALL" -> Shorter("CALL", 0)
          [] r.type = "PCREL" -> Shorter(ReservedAs(r), at)
          [] r.type \in {"GOTPCREL", "ARM64_GOTPCREL"} -> 8
          [] r.type = "ADDRARM64" -> 16
          [] r.type = "ARM64_LDST" -> 20
          [] r.type = "CALLARM64" -> 16
          [] OTHER -> 0
  BY DEF EpilogueSize, PtrSize
<1> HIDE DEF Shorter
<1>5. EpilogueSize(r, at) \in Nat
  BY <1>2, <1>3, <1>4
<1>6. r.type \in RelocTypes("arm64") => EpilogueSize(r, at) \in {8, 16, 20, 0}
  BY <1>4 DEF RelocTypes
<1> QED BY <1>5, <1>6

\* What Lengths is.
LEMMA LengthsAre ==
  ASSUME NEW f, f.size \in Nat, Len(f.relocs) \in Nat
  PROVE  LET len == Lengths(f) IN
         /\ len[0] = Align(f.size)
         /\ \A i \in 0 .. Len(f.relocs) : len[i] \in Nat /\ len[i] % PtrSize = 0
         /\ \A i \in 1 .. Len(f.relocs) :
              /\ len[i] = Align(len[i - 1] + Reserved(f.relocs[i], len[i - 1]))
              /\ Reserved(f.relocs[i], len[i - 1]) \in Nat
<1> DEFINE N == Len(f.relocs)
           Step(i, before) == Align(before + Reserved(f.relocs[i], before))
           Body(g, i) == IF i = 0 THEN Align(f.size) ELSE Step(i, g[i - 1])
           Whole == {n \in Nat : n % PtrSize = 0}
           Solves(g) == g = [i \in 0 .. Len(f.relocs) |->
                  IF i = 0 THEN Align(f.size) ELSE Align(g[i - 1] + Reserved(f.relocs[i], g[i - 1]))]
           F == [x \in (1 .. N) \X Whole |-> Step(x[1], x[2])]
           Good == [i \in 0 .. N |-> Whole]
<1>1. N \in Nat /\ Align(f.size) \in Whole
  BY Aligned
<1>2. \A i : \A n \in Nat : Reserved(f.relocs[i], n) \in Nat
  BY EpilogueSizes DEF Reserved
<1>3. \A i : \A n \in Whole : Step(i, n) \in Whole
  <2> SUFFICES ASSUME NEW i, NEW n \in Whole PROVE Step(i, n) \in Whole
    OBVIOUS
  <2>1. n + Reserved(f.relocs[i], n) \in Nat
    BY <1>2
  <2> QED BY <2>1, Aligned
<1>4. \E g : Solves(g)
  <2>1. PICK g : Upto(N, Align(f.size), F, Good, g)
    <3>1. Align(f.size) \in Good[0]
      BY <1>1
    <3>2. \A k \in 1 .. N : \A x \in Good[k - 1] : F[<<k, x>>] \in Good[k]
      <4> SUFFICES ASSUME NEW k \in 1 .. N, NEW x \in Good[k - 1] PROVE F[<<k, x>>] \in Good[k]
        OBVIOUS
      <4>1. k - 1 \in 0 .. N /\ k \in 0 .. N
        BY <1>1
      <4>2. x \in Whole /\ Good[k] = Whole
        BY <4>1
      <4>3. F[<<k, x>>] = Step(k, x)
        BY <4>2
      <4> QED BY <1>3, <4>2, <4>3
    <3> HIDE DEF F, Good
    <3> QED BY <1>1, <3>1, <3>2, SegmentRecursion
  <2>2. ASSUME NEW i \in 0 .. N PROVE g[i] = Body(g, i)
    <3>1. CASE i = 0
      BY <2>1, <3>1 DEF Upto
    <3>2. CASE i # 0
      <4>1. i \in 1 .. N /\ i - 1 \in 0 .. N
        BY <1>1, <3>2
      <4>2. g[i - 1] \in Good[i - 1] /\ g[i] = F[<<i, g[i - 1]>>]
        BY <2>1, <4>1 DEF Upto
      <4>3. g[i - 1] \in Whole
        BY <4>1, <4>2
      <4> QED BY <3>2, <4>1, <4>2, <4>3
    <3> QED BY <3>1, <3>2
  <2>3. g = [i \in 0 .. N |-> g[i]]
    BY <2>1 DEF Upto
  <2>4. g = [i \in 0 .. N |-> Body(g, i)]
    <3> HIDE DEF Body
    <3> QED BY <2>2, <2>3
  <2>5. Solves(g)
    BY <2>4
  <2> QED BY <2>5
<1>5. Lengths(f) = CHOOSE g : Solves(g)
  BY DEF Lengths
<1>6. PICK g : g = Lengths(f) /\ Solves(g)
  <2> HIDE DEF Solves
  <2> QED BY <1>4, <1>5
<1>7. g[0] = Align(f.size) /\ \A i \in 1 .. N : g[i] = Step(i, g[i - 1])
  <2>1. \A i \in 0 .. N : g[i] = Body(g, i)
    BY <1>6
  <2> QED BY <1>1, <2>1
<1>8. \A i \in 0 .. N : g[i] \in Whole
  <2>1. g[0] \in Good[0]
    BY <1>1, <1>7
  <2>2. ASSUME NEW k \in 1 .. N, g[k - 1] \in Good[k - 1] PROVE g[k] \in Good[k]
    <3>1. k - 1 \in 0 .. N /\ k \in 0 .. N
      BY <1>1
    <3>2. g[k - 1] \in Whole
      BY <2>2, <3>1
    <3>3. g[k] = Step(k, g[k - 1])
      BY <1>7
    <3> QED BY <1>3, <3>1, <3>2, <3>3
  <2>3. \A k \in 0 .. N : g[k] \in Good[k]
    <3> HIDE DEF Good
    <3> QED BY <1>1, <2>1, <2>2, SegmentInvariant
  <2> QED BY <2>3
<1>9. \A i \in 1 .. N : Reserved(f.relocs[i], g[i - 1]) \in Nat
  <2> SUFFICES ASSUME NEW i \in 1 .. N PROVE Reserved(f.relocs[i], g[i - 1]) \in Nat
    OBVIOUS
  <2>1. i - 1 \in 0 .. N
    BY <1>1
  <2> QED BY <1>2, <1>8, <2>1
<1> QED BY <1>6, <1>7, <1>8, <1>9

LEMMA LengthsGrow ==
  ASSUME NEW f, f.size \in Nat, Len(f.relocs) \in Nat
  PROVE  LET len == Lengths(f) IN
         /\ \A i \in 1 .. Len(f.relocs) : len[i - 1] + Reserved(f.relocs[i], len[i - 1]) <= len[i]
         /\ \A j \in 0 .. Len(f.relocs) : \A i \in 0 .. j : len[i] <= len[j]
<1> DEFINE len == Lengths(f)
           N == Len(f.relocs)
           Good == [j \in 0 .. N |-> {n \in Nat : \A i \in 0 .. j : len[i] <= n}]
<1>1. /\ len[0] \in Nat
      /\ \A i \in 0 .. N : len[i] \in Nat
      /\ \A i \in 1 .. N : len[i] = Align(len[i - 1] + Reserved(f.relocs[i], len[i - 1]))
                           /\ Reserved(f.relocs[i], len[i - 1]) \in Nat
  BY LengthsAre
<1> HIDE DEF len
<1>2. ASSUME NEW i \in 1 .. N PROVE len[i - 1] + Reserved(f.relocs[i], len[i - 1]) <= len[i]
  <2>1. len[i - 1] + Reserved(f.relocs[i], len[i - 1]) \in Nat
    BY <1>1
  <2> QED BY <1>1, <2>1, Aligned
<1>3. len[0] \in Good[0]
  BY <1>1
<1>4. ASSUME NEW k \in 1 .. N, len[k - 1] \in Good[k - 1] PROVE len[k] \in Good[k]
  <2>1. k - 1 \in 0 .. N /\ k \in 0 .. N
    OBVIOUS
  <2>2. len[k - 1] <= len[k]
    <3>1. PICK r : r = Reserved(f.relocs[k], len[k - 1])
      OBVIOUS
    <3>2. r \in Nat /\ len[k - 1] \in Nat /\ len[k] \in Nat
      BY <1>1, <2>1, <3>1
    <3>3. len[k - 1] + r <= len[k]
      BY <1>2, <3>1
    <3> QED BY <3>2, <3>3
  <2>3. \A i \in 0 .. k - 1 : len[i] <= len[k - 1]
    BY <1>4, <2>1
  <2>4. \A i \in 0 .. k : len[i] <= len[k]
    <3> SUFFICES ASSUME NEW i \in 0 .. k PROVE len[i] <= len[k]
      OBVIOUS
    <3>1. CASE i = k
      BY <1>1, <2>1, <3>1
    <3>2. CASE i # k
      <4>1. i \in 0 .. k - 1 /\ i \in 0 .. N
        BY <3>2
      <4>2. len[i] \in Nat /\ len[k - 1] \in Nat /\ len[k] \in Nat
        BY <1>1, <2>1, <4>1
      <4>3. len[i] <= len[k - 1]
        BY <2>3, <4>1
      <4> QED BY <2>2, <4>2, <4>3
    <3> QED BY <3>1, <3>2
  <2> QED BY <1>1, <2>1, <2>4
<1>5. \A k \in 0 .. N : len[k] \in Good[k]
  <2> HIDE DEF Good
  <2> QED BY <1>3, <1>4, SegmentInvariant
<1> QED BY <1>2, <1>5 DEF len

(***************************************************************************)
(* Tables of pc-values.                                                    *)
(***************************************************************************)
Quantal(pc) == pc % PcQuantum = 0

TableOK(table) ==
  /\ table \in Seq(PcPairs) /\ table # <<>>
  /\ \A i \in DOMAIN table :
       Quantal(table[i][2]) /\ \A j \in 1 .. i : table[j][2] <= table[i][2]

EndOf(table) == table[Len(table)][2]
ValueAt(table, pc) == table[PcValue(table, pc)][1]

\* k is the first pair whose end is behind pc.
FirstBehind(table, pc, k) ==
  k \in DOMAIN table /\ pc < table[k][2] /\ \A i \in 1 .. k - 1 : table[i][2] <= pc

LEMMA Pairs ==
  /\ \A e \in PcPairs : e[1] \in Int /\ e[2] \in Nat
  /\ \A value \in Int, end \in Nat :
       <<value, end>> \in PcPairs /\ <<value, end>>[1] = value /\ <<value, end>>[2] = end
BY DEF PcPairs

LEMMA PcValueUnique ==
  ASSUME NEW table \in Seq(PcPairs), NEW pc \in Nat, NEW k, FirstBehind(table, pc, k)
  PROVE  PcValue(table, pc) = k /\ k \in Nat \ {0}
<1> DEFINE behind == {i \in DOMAIN table : pc < table[i][2]}
<1>1. k \in behind /\ k \in Nat \ {0} /\ behind \subseteq Nat
  BY Pairs DEF FirstBehind
<1>2. \A i \in behind : k <= i
  <2> SUFFICES ASSUME NEW i \in behind, i < k PROVE FALSE
    BY <1>1
  <2>1. i \in 1 .. k - 1 /\ table[i][2] \in Nat
    BY <1>1, Pairs
  <2> QED BY <2>1 DEF FirstBehind
<1>3. \A i \in behind : (\A j \in behind : i <= j) => i = k
  BY <1>1, <1>2
<1>4. Min(behind) = k
  <2> HIDE DEF behind
  <2> QED BY <1>1, <1>2, <1>3 DEF Min
<1> QED BY <1>1, <1>4 DEF PcValue

LEMMA PcValueFirst ==
  ASSUME NEW table, TableOK(table), NEW pc \in Nat, pc < EndOf(table)
  PROVE  /\ FirstBehind(table, pc, PcValue(table, pc))
         /\ PcValue(table, pc) \in 1 .. Len(table) /\ ValueAt(table, pc) \in Int
<1> DEFINE behind == {i \in DOMAIN table : pc < table[i][2]}
<1>1. Len(table) \in behind /\ behind \in SUBSET Nat /\ behind # {}
  BY DEF TableOK, EndOf
<1>5. \A i \in DOMAIN table : i \in 1 .. Len(table) /\ table[i] \in PcPairs
  BY DEF TableOK
<1>2. PICK k \in behind : \A i \in behind : k <= i
  <2> HIDE DEF behind
  <2> QED BY <1>1, LeastNatural
<1>3. FirstBehind(table, pc, k)
  <2> SUFFICES ASSUME NEW i \in 1 .. k - 1 PROVE table[i][2] <= pc
    BY <1>2 DEF FirstBehind
  <2>1. i \in DOMAIN table /\ i \notin behind
    <3>1. k \in Nat /\ k <= Len(table) /\ i \in 1 .. Len(table) /\ i < k
      BY <1>1, <1>2, <1>5
    <3>2. i \in DOMAIN table
      BY <3>1 DEF TableOK
    <3> QED BY <1>2, <3>1, <3>2
  <2>2. table[i][2] \in Nat
    BY <2>1, <1>5, Pairs
  <2> QED BY <2>1, <2>2
<1>4. PcValue(table, pc) = k
  BY <1>3, PcValueUnique DEF TableOK
<1> QED BY <1>3, <1>4, <1>5, Pairs DEF FirstBehind, ValueAt

LEMMA Quanta ==
  /\ PcQuantum \in {1, 4} /\ Quantal(0)
  /\ \A from, end \in Nat :
       from <= end /\ Quantal(from) /\ Quantal(end) =>
         from + ((end - from) \div PcQuantum) * PcQuantum = end
<1>1. PcQuantum \in {1, 4}
  BY DEF PcQuantum, Quantum
<1>2. Quantal(0)
  BY <1>1 DEF Quantal
<1> QED BY <1>1, <1>2 DEF Quantal

\* A pair is added, or the last one becomes longer: where the table had a value it
\* keeps it, and up to its new end it has the value of the relocation's place.
LEMMA Patching ==
  ASSUME NEW table, TableOK(table), NEW r, r.offset \in Nat, r.offset < EndOf(table),
         r.epilogueOffset \in Nat \ {0}, NEW end \in Nat, end = r.epilogueOffset + r.epilogueSize,
         Quantal(end), EndOf(table) <= end
  PROVE  LET patched == PatchPcValues(table, r) IN
         /\ TableOK(patched) /\ EndOf(patched) = end
         /\ \A pc \in Nat : pc < EndOf(table) => ValueAt(patched, pc) = ValueAt(table, pc)
         /\ \A pc \in Nat : EndOf(table) <= pc /\ pc < end =>
              PcValue(patched, pc) # 0 /\ ValueAt(patched, pc) = ValueAt(table, r.offset)
<1>16. PICK n : n = Len(table)
  OBVIOUS
<1> DEFINE patched == PatchPcValues(table, r)
           value == ValueAt(table, r.offset)
           from == IF n > 1 THEN table[n - 1][2] ELSE 0
<1>0. table \in Seq(PcPairs) /\ table # <<>>
  BY DEF TableOK
<1>1. n \in Nat \ {0} /\ DOMAIN table = 1 .. n
  BY <1>0, <1>16
<1>2. \A i \in 1 .. n : table[i][1] \in Int /\ table[i][2] \in Nat
  BY <1>0, <1>1, Pairs
<1>3. value \in Int
  BY PcValueFirst
<1>4. /\ from \in Nat /\ from <= EndOf(table) /\ Quantal(from)
      /\ EndOf(table) \in Nat /\ Quantal(EndOf(table))
  <2>1. EndOf(table) \in Nat /\ Quantal(EndOf(table))
    BY <1>1, <1>2, <1>16 DEF EndOf, TableOK
  <2>2. CASE n > 1
    <3>1. n - 1 \in 1 .. n
      BY <1>1, <2>2
    <3> QED BY <1>1, <1>2, <1>16, <2>1, <2>2, <3>1 DEF EndOf, TableOK
  <2>3. CASE ~(n > 1)
    BY <2>1, <2>3, Quanta
  <2> QED BY <2>2, <2>3
<1>5. /\ from + ((end - from) \div PcQuantum) * PcQuantum = end
      /\ EndOf(table) + ((end - EndOf(table)) \div PcQuantum) * PcQuantum = end
  <2>1. from <= end
    BY <1>4
  <2> QED BY <1>4, <2>1, Quanta
<1>6. patched = IF table[n][1] = value THEN [table EXCEPT ![n] = <<value, end>>]
                ELSE Append(table, <<value, end>>)
  BY <1>5, <1>16 DEF PatchPcValues, ValueAt, EndOf
<1>7. \A i \in 1 .. n : \A j \in 1 .. i : table[j][2] <= table[i][2]
  BY <1>1 DEF TableOK
<1>8. \A i \in 1 .. n : Quantal(table[i][2]) /\ table[i][2] <= EndOf(table)
  BY <1>1, <1>7, <1>16 DEF TableOK, EndOf
<1>9. \E m \in {n, n + 1} :
        /\ m = IF table[n][1] = value THEN n ELSE n + 1
        /\ DOMAIN patched = 1 .. m
        /\ patched[m] = <<value, end>>
        /\ \A i \in 1 .. m - 1 : patched[i] = table[i]
  <2> HIDE DEF patched, value
  <2>2. CASE table[n][1] = value
    <3>1. patched = [table EXCEPT ![n] = <<value, end>>]
      BY <1>6, <2>2
    <3>2. DOMAIN patched = 1 .. n
      BY <1>0, <1>1, <3>1
    <3>3. patched[n] = <<value, end>> /\ \A i \in 1 .. n - 1 : patched[i] = table[i]
      BY <1>1, <3>1
    <3> QED BY <2>2, <3>2, <3>3
  <2>3. CASE table[n][1] # value
    <3>1. patched = Append(table, <<value, end>>)
      BY <1>6, <2>3
    <3>2. DOMAIN patched = 1 .. n + 1
      BY <1>0, <1>1, <3>1
    <3>3. patched[n + 1] = <<value, end>> /\ \A i \in 1 .. n : patched[i] = table[i]
      BY <1>0, <1>1, <3>1
    <3>4. PICK m : m = n + 1 /\ m - 1 = n
      BY <1>1
    <3> QED BY <2>3, <3>2, <3>3, <3>4
  <2> QED BY <2>2, <2>3
<1>13. patched \in Seq(PcPairs)
  <2>1. <<value, end>> \in PcPairs
    BY <1>3, Pairs
  <2> HIDE DEF patched, value
  <2> QED BY <1>0, <1>1, <1>6, <2>1
<1>14. PICK m \in {n, n + 1} :
         /\ m = IF table[n][1] = value THEN n ELSE n + 1
         /\ DOMAIN patched = 1 .. m
         /\ patched[m] = <<value, end>>
         /\ \A i \in 1 .. m - 1 : patched[i] = table[i]
  BY <1>9
<1>17. Len(patched) = m
  BY <1>1, <1>13, <1>14
<1>15. patched[m][1] = value /\ patched[m][2] = end
  BY <1>14
<1> HIDE DEF patched, value, from
<1>10. TableOK(patched) /\ EndOf(patched) = end
  <2>1. \A i \in 1 .. m - 1 : patched[i] = table[i] /\ i \in 1 .. n
    BY <1>1, <1>14, <1>15
  <2>2. ASSUME NEW i \in 1 .. m
        PROVE Quantal(patched[i][2]) /\ \A j \in 1 .. i : patched[j][2] <= patched[i][2]
    <3>1. CASE i = m
      <4>1. \A j \in 1 .. m - 1 : patched[j][2] <= end
        BY <1>2, <1>4, <1>8, <2>1
      <4> QED BY <1>14, <1>15, <3>1, <4>1
    <3>2. CASE i # m
      <4>1. i \in 1 .. m - 1 /\ \A j \in 1 .. i : j \in 1 .. m - 1
        BY <1>1, <3>2
      <4> QED BY <1>7, <1>8, <2>1, <4>1
    <3> QED BY <3>1, <3>2
  <2>3. patched # <<>>
    BY <1>1, <1>14
  <2> QED BY <1>13, <1>14, <1>15, <1>17, <2>2, <2>3 DEF TableOK, EndOf
<1>11. ASSUME NEW pc \in Nat, pc < EndOf(table)
       PROVE  ValueAt(patched, pc) = ValueAt(table, pc)
  <2>1. PICK k : k = PcValue(table, pc) /\ k \in 1 .. n /\ FirstBehind(table, pc, k)
    BY <1>11, <1>16, PcValueFirst
  <2>2. k \in 1 .. m /\ \A i \in 1 .. k - 1 : i \in 1 .. m - 1 /\ i \in 1 .. n
    BY <1>1, <1>14, <1>15, <2>1
  <2>3. \A i \in 1 .. k - 1 : patched[i][2] <= pc
    BY <1>14, <1>15, <2>1, <2>2 DEF FirstBehind
  <2>4. pc < patched[k][2] /\ patched[k][1] = table[k][1]
    <3>1. CASE k = m
      <4>1. m = n /\ table[n][1] = value
        BY <1>1, <1>14, <1>15, <2>1, <3>1
      <4>2. pc < end
        BY <1>4, <1>11
      <4> QED BY <1>14, <1>15, <3>1, <4>1, <4>2
    <3>2. CASE k # m
      <4>1. k \in 1 .. m - 1
        BY <1>1, <2>2, <3>2
      <4> QED BY <1>14, <1>15, <2>1, <4>1 DEF FirstBehind
    <3> QED BY <3>1, <3>2
  <2>5. FirstBehind(patched, pc, k)
    BY <1>14, <1>15, <2>2, <2>3, <2>4 DEF FirstBehind
  <2> QED BY <1>13, <2>1, <2>4, <2>5, PcValueUnique DEF ValueAt
<1>12. ASSUME NEW pc \in Nat, EndOf(table) <= pc, pc < end
       PROVE  PcValue(patched, pc) # 0 /\ ValueAt(patched, pc) = value
  <2>1. \A i \in 1 .. m - 1 : patched[i][2] <= pc
    <3> SUFFICES ASSUME NEW i \in 1 .. m - 1 PROVE patched[i][2] <= pc
      OBVIOUS
    <3>1. i \in 1 .. n /\ patched[i] = table[i]
      BY <1>1, <1>14, <1>15
    <3> QED BY <1>2, <1>4, <1>8, <1>12, <3>1
  <2>2. FirstBehind(patched, pc, m)
    BY <1>1, <1>14, <1>15, <1>12, <2>1 DEF FirstBehind
  <2>3. PcValue(patched, pc) = m /\ m # 0
    BY <1>13, <2>2, PcValueUnique
  <2> QED BY <1>14, <1>15, <2>3 DEF ValueAt
<1> QED BY <1>10, <1>11, <1>12 DEF patched, value

\* Relocations of which the epilogues lie one behind the other, after the text that
\* the table is about.
Patchable(original, relocs) ==
  \A i \in 1 .. Len(relocs) :
    LET r == relocs[i] IN
    /\ r.offset \in Nat /\ r.offset < EndOf(original)
    /\ r.epilogueOffset \in Nat /\ r.epilogueSize \in Nat
    /\ r.epilogueOffset # 0 =>
         /\ EndOf(original) <= r.epilogueOffset /\ Quantal(r.epilogueOffset + r.epilogueSize)
         /\ \A j \in 1 .. i - 1 :
              relocs[j].epilogueOffset # 0 =>
                relocs[j].epilogueOffset + relocs[j].epilogueSize <= r.epilogueOffset

\* The table has the values of the original, and those of the first i relocations
\* in their epilogues.
CoversEpilogue(table, original, r) ==
  r.epilogueOffset # 0 =>
    /\ r.epilogueOffset + r.epilogueSize <= EndOf(table)
    /\ \A pc \in Nat : r.epilogueOffset <= pc /\ pc < r.epilogueOffset + r.epilogueSize =>
         PcValue(table, pc) # 0 /\ ValueAt(table, pc) = ValueAt(original, r.offset)

Covers(table, original, relocs, i) ==
  /\ TableOK(table) /\ EndOf(original) <= EndOf(table)
  /\ \/ EndOf(table) = EndOf(original)
     \/ \E j \in 1 .. i : relocs[j].epilogueOffset # 0
                          /\ EndOf(table) = relocs[j].epilogueOffset + relocs[j].epilogueSize
  /\ \A pc \in Nat : pc < EndOf(original) => ValueAt(table, pc) = ValueAt(original, pc)
  /\ \A j \in 1 .. i : CoversEpilogue(table, original, relocs[j])

LEMMA EndsAreNat == \A table : TableOK(table) => EndOf(table) \in Nat
<1> SUFFICES ASSUME NEW table, TableOK(table) PROVE EndOf(table) \in Nat
  OBVIOUS
<1>1. table[Len(table)] \in PcPairs
  BY DEF TableOK
<1> QED BY <1>1, Pairs DEF EndOf

LEMMA PatchStep ==
  ASSUME NEW original, TableOK(original), NEW relocs, Len(relocs) \in Nat, Patchable(original, relocs),
         NEW i \in 1 .. Len(relocs), NEW table, Covers(table, original, relocs, i - 1)
  PROVE  Covers(PatchPcValues(table, relocs[i]), original, relocs, i)
<1> DEFINE r == relocs[i]
           end == r.epilogueOffset + r.epilogueSize
           patched == PatchPcValues(table, r)
<1>1. /\ r.offset \in Nat /\ r.offset < EndOf(original)
      /\ r.epilogueOffset \in Nat /\ r.epilogueSize \in Nat /\ end \in Nat
  BY DEF Patchable
<1>2. TableOK(table) /\ EndOf(table) \in Nat /\ EndOf(original) \in Nat /\ EndOf(original) <= EndOf(table)
  BY EndsAreNat DEF Covers
<1>3. CASE r.epilogueOffset = 0
  <2>1. patched = table
    BY <1>3 DEF PatchPcValues
  <2>2. \A j \in 1 .. i : j \in 1 .. i - 1 \/ j = i
    OBVIOUS
  <2>3. \A j \in 1 .. i - 1 : j \in 1 .. i
    OBVIOUS
  <2>4. CoversEpilogue(table, original, r)
    BY <1>3 DEF CoversEpilogue
  <2> QED BY <2>1, <2>2, <2>3, <2>4 DEF Covers
<1>4. CASE r.epilogueOffset # 0
  <2>1. EndOf(table) <= r.epilogueOffset
    <3>1. EndOf(original) <= r.epilogueOffset
      BY <1>4 DEF Patchable
    <3>2. \A j \in 1 .. i - 1 : relocs[j].epilogueOffset # 0 =>
            relocs[j].epilogueOffset + relocs[j].epilogueSize <= r.epilogueOffset
      BY <1>4 DEF Patchable
    <3> QED BY <3>1, <3>2 DEF Covers
  <2>2. r.offset < EndOf(table) /\ EndOf(table) <= end
    BY <1>1, <1>2, <2>1
  <2>3. Quantal(end)
    BY <1>4 DEF Patchable
  <2>4. r.epilogueOffset \in Nat \ {0}
    BY <1>1, <1>4
  <2>5. /\ TableOK(patched) /\ EndOf(patched) = end
        /\ \A pc \in Nat : pc < EndOf(table) => ValueAt(patched, pc) = ValueAt(table, pc)
        /\ \A pc \in Nat : EndOf(table) <= pc /\ pc < end =>
             PcValue(patched, pc) # 0 /\ ValueAt(patched, pc) = ValueAt(table, r.offset)
    <3> HIDE DEF r
    <3> QED BY <1>1, <1>2, <2>2, <2>3, <2>4, Patching
  <2>6. \A pc \in Nat : pc < EndOf(original) => ValueAt(table, pc) = ValueAt(original, pc)
    BY DEF Covers
  <2>7. ValueAt(table, r.offset) = ValueAt(original, r.offset)
    BY <1>1, <2>6
  <2> HIDE DEF patched, end
  <2>8. \A pc \in Nat : pc < EndOf(original) => ValueAt(patched, pc) = ValueAt(original, pc)
    BY <1>2, <2>5, <2>6
  <2>9. ASSUME NEW j \in 1 .. i PROVE CoversEpilogue(patched, original, relocs[j])
    <3>1. CASE j = i
      <4>1. \A pc \in Nat : r.epilogueOffset <= pc /\ pc < end => EndOf(table) <= pc
        BY <1>1, <1>2, <2>1
      <4>2. \A pc \in Nat : r.epilogueOffset <= pc /\ pc < end =>
              PcValue(patched, pc) # 0 /\ ValueAt(patched, pc) = ValueAt(original, r.offset)
        BY <2>5, <2>7, <4>1
      <4> QED BY <1>1, <2>5, <3>1, <4>2 DEF CoversEpilogue, end
    <3>2. CASE j # i
      <4>1. j \in 1 .. i - 1 /\ j \in 1 .. Len(relocs)
        BY <3>2
      <4> DEFINE s == relocs[j]
                 last == s.epilogueOffset + s.epilogueSize
      <4>2. SUFFICES ASSUME s.epilogueOffset # 0 PROVE CoversEpilogue(patched, original, s)
        BY DEF CoversEpilogue
      <4>3. last \in Nat
        BY <4>1 DEF Patchable
      <4>4. /\ last <= EndOf(table)
            /\ \A pc \in Nat : s.epilogueOffset <= pc /\ pc < last =>
                 ValueAt(table, pc) = ValueAt(original, s.offset)
        BY <4>1, <4>2 DEF Covers, CoversEpilogue
      <4>5. last <= EndOf(patched)
        BY <1>1, <1>2, <2>2, <2>5, <4>3, <4>4
      <4>6. ASSUME NEW pc \in Nat, s.epilogueOffset <= pc, pc < last
            PROVE  PcValue(patched, pc) # 0 /\ ValueAt(patched, pc) = ValueAt(original, s.offset)
        <5>1. pc < EndOf(table) /\ pc < EndOf(patched)
          BY <1>1, <1>2, <2>5, <4>3, <4>4, <4>5, <4>6
        <5>2. PcValue(patched, pc) \in 1 .. Len(patched)
          BY <2>5, <5>1, PcValueFirst
        <5>3. Len(patched) \in Nat
          BY <2>5 DEF TableOK
        <5> QED BY <2>5, <4>4, <4>6, <5>1, <5>2, <5>3
      <4> QED BY <4>5, <4>6 DEF CoversEpilogue
    <3> QED BY <3>1, <3>2
  <2>10. EndOf(original) <= EndOf(patched)
    BY <1>1, <1>2, <2>2, <2>5
  <2>11. \E j \in 1 .. i : relocs[j].epilogueOffset # 0
           /\ EndOf(patched) = relocs[j].epilogueOffset + relocs[j].epilogueSize
    BY <1>4, <2>5 DEF end
  <2>12. Covers(patched, original, relocs, i)
    BY <2>5, <2>8, <2>9, <2>10, <2>11 DEF Covers
  <2> QED BY <2>12 DEF patched
<1> QED BY <1>3, <1>4

LEMMA PatchAllCovers ==
  ASSUME NEW original, TableOK(original), NEW relocs, Len(relocs) \in Nat, Patchable(original, relocs)
  PROVE  Covers(PatchAll(original, relocs), original, relocs, Len(relocs))
<1> DEFINE N == Len(relocs)
           Body(g, i) == IF i = 0 THEN original ELSE PatchPcValues(g[i - 1], relocs[i])
           Solves(g) == g = [i \in 0 .. Len(relocs) |->
                               IF i = 0 THEN original ELSE PatchPcValues(g[i - 1], relocs[i])]
           F == [x \in (1 .. N) \X Seq(PcPairs) |-> PatchPcValues(x[2], relocs[x[1]])]
           Good == [i \in 0 .. N |-> {t \in Seq(PcPairs) : Covers(t, original, relocs, i)}]
<1>1. \A t, i : Covers(t, original, relocs, i) => t \in Seq(PcPairs)
  BY DEF Covers, TableOK
<1>2. original \in Good[0]
  <2>1. Covers(original, original, relocs, 0)
    BY EndsAreNat DEF Covers
  <2> QED BY <1>1, <2>1
<1>3. ASSUME NEW k \in 1 .. N, NEW t \in Good[k - 1] PROVE PatchPcValues(t, relocs[k]) \in Good[k]
  <2>1. k - 1 \in 0 .. N /\ k \in 0 .. N
    OBVIOUS
  <2>2. Covers(t, original, relocs, k - 1)
    BY <2>1
  <2>3. Covers(PatchPcValues(t, relocs[k]), original, relocs, k)
    BY <2>2, PatchStep
  <2> QED BY <1>1, <2>1, <2>3
<1>4. \A i \in 0 .. N : Good[i] \subseteq Seq(PcPairs)
  OBVIOUS
<1>5. \E g : Solves(g)
  <2>1. PICK g : Upto(N, original, F, Good, g)
    <3>1. \A k \in 1 .. N : \A x \in Good[k - 1] : F[<<k, x>>] \in Good[k]
      <4> SUFFICES ASSUME NEW k \in 1 .. N, NEW x \in Good[k - 1] PROVE F[<<k, x>>] \in Good[k]
        OBVIOUS
      <4>1. k - 1 \in 0 .. N
        OBVIOUS
      <4>2. x \in Seq(PcPairs)
        BY <1>4, <4>1
      <4>3. F[<<k, x>>] = PatchPcValues(x, relocs[k])
        BY <4>2
      <4> QED BY <1>3, <4>3
    <3> HIDE DEF F, Good
    <3> QED BY <1>2, <3>1, SegmentRecursion
  <2>2. ASSUME NEW i \in 0 .. N PROVE g[i] = Body(g, i)
    <3>1. CASE i = 0
      BY <2>1, <3>1 DEF Upto
    <3>2. CASE i # 0
      <4>1. i \in 1 .. N /\ i - 1 \in 0 .. N
        BY <3>2
      <4>2. g[i - 1] \in Good[i - 1] /\ g[i] = F[<<i, g[i - 1]>>]
        BY <2>1, <4>1 DEF Upto
      <4>3. g[i - 1] \in Seq(PcPairs)
        BY <1>4, <4>1, <4>2
      <4> QED BY <3>2, <4>1, <4>2, <4>3
    <3> QED BY <3>1, <3>2
  <2>3. g = [i \in 0 .. N |-> g[i]]
    BY <2>1 DEF Upto
  <2>4. g = [i \in 0 .. N |-> Body(g, i)]
    <3> HIDE DEF Body
    <3> QED BY <2>2, <2>3
  <2>5. Solves(g)
    BY <2>4
  <2> QED BY <2>5
<1>6. PICK g : g = CHOOSE h : Solves(h)
  OBVIOUS
<1>7. Solves(g)
  <2> HIDE DEF Solves
  <2> QED BY <1>5, <1>6
<1>8. g[N] = PatchAll(original, relocs)
  BY <1>6 DEF PatchAll
<1>9. g[N] \in Good[N]
  <2>1. g[0] \in Good[0]
    BY <1>2, <1>7
  <2>2. ASSUME NEW k \in 1 .. N, g[k - 1] \in Good[k - 1] PROVE g[k] \in Good[k]
    <3>1. k \in 0 .. N /\ k # 0
      OBVIOUS
    <3>2. g[k] = PatchPcValues(g[k - 1], relocs[k])
      BY <1>7, <3>1
    <3> HIDE DEF Good
    <3> QED BY <1>3, <2>2, <3>2
  <2>3. \A k \in 0 .. N : g[k] \in Good[k]
    <3> HIDE DEF Good
    <3> QED BY <2>1, <2>2, SegmentInvariant
  <2> QED BY <2>3
<1> QED BY <1>8, <1>9

(***************************************************************************)
(* What addSymbol makes of a function.                                     *)
(***************************************************************************)
RelocLaidOut(g, i) ==
  LET r == g.relocs[i] IN
  /\ r.type \in RelocTypes(program.arch)
  /\ r.offset \in Nat /\ r.offset + RelocSize <= g.size
  /\ r.epilogueOffset \in Nat /\ r.epilogueSize \in Nat
  /\ HasEpilogue(r) =>
       /\ g.size <= r.epilogueOffset /\ r.epilogueOffset + r.epilogueSize <= g.len
       /\ r.epilogueSize = EpilogueSize(r, r.epilogueOffset)
       /\ \A j \in 1 .. i - 1 :
            HasEpilogue(g.relocs[j]) =>
              g.relocs[j].epilogueOffset + g.relocs[j].epilogueSize <= r.epilogueOffset
  /\ ~HasEpilogue(r) => r.epilogueOffset = 0 /\ r.epilogueSize = 0

IsLayout(f, g) ==
  /\ g.size = f.size /\ g.size \in Nat \ {0} /\ g.len \in Nat /\ g.offset \in Nat /\ g.size <= g.len
  /\ Len(g.relocs) \in Nat /\ DOMAIN g.relocs = 1 .. Len(g.relocs)
  /\ \A i \in 1 .. Len(g.relocs) : RelocLaidOut(g, i)
  /\ TableOK(f.pcvalues) /\ EndOf(f.pcvalues) = f.size
  /\ Covers(g.pcvalues, f.pcvalues, g.relocs, Len(g.relocs))

LEMMA Originals ==
  ASSUME program \in Programs, NEW n \in DOMAIN program.functions
  PROVE  LET f == program.functions[n] IN
         /\ f.size \in Nat \ {0} /\ Quantal(f.size)
         /\ Len(f.relocs) \in Nat /\ DOMAIN f.relocs = 1 .. Len(f.relocs)
         /\ \A i \in 1 .. Len(f.relocs) :
              /\ f.relocs[i].type \in RelocTypes(program.arch) /\ f.relocs[i].offset \in Nat
              /\ f.relocs[i].offset + RelocSize <= f.size
         /\ TableOK(f.pcvalues) /\ EndOf(f.pcvalues) = f.size
<1> DEFINE f == program.functions[n]
<1>1. WellFormed(program.arch, f)
  BY ProgramsAssumption
<1> HIDE DEF f
<1>2. f.size \in Nat \ {0} /\ Quantal(f.size)
  BY <1>1 DEF WellFormed, Quantal, PcQuantum
<1>3. /\ Len(f.relocs) \in Nat /\ DOMAIN f.relocs = 1 .. Len(f.relocs)
      /\ \A i \in 1 .. Len(f.relocs) :
           /\ f.relocs[i].type \in RelocTypes(program.arch) /\ f.relocs[i].offset \in Nat
           /\ f.relocs[i].offset + RelocSize <= f.size
  <2> DEFINE Relocs == [type : RelocTypes(program.arch), offset : Nat, toString : BOOLEAN,
                        opcode : STRING, next : STRING, rax : BOOLEAN, odd : BOOLEAN]
  <2>1. f.relocs \in Seq(Relocs) /\ \A i \in DOMAIN f.relocs : f.relocs[i].offset + RelocSize <= f.size
    BY <1>1 DEF WellFormed
  <2>2. \A r \in Relocs : r.type \in RelocTypes(program.arch) /\ r.offset \in Nat
    OBVIOUS
  <2> HIDE DEF Relocs
  <2>3. Len(f.relocs) \in Nat /\ DOMAIN f.relocs = 1 .. Len(f.relocs)
    BY <2>1
  <2>4. \A i \in 1 .. Len(f.relocs) : f.relocs[i] \in Relocs
    BY <2>1
  <2> QED BY <2>1, <2>2, <2>3, <2>4
<1>4. TableOK(f.pcvalues) /\ EndOf(f.pcvalues) = f.size
  BY <1>1 DEF WellFormed, TableOK, EndOf, Quantal, PcQuantum
<1> QED BY <1>2, <1>3, <1>4 DEF f

LEMMA LaidOutIs ==
  ASSUME program \in Programs, codeLen \in Nat, NEW n \in DOMAIN program.functions
  PROVE  LET f == program.functions[n]
             g == LaidOut(f) IN
         IsLayout(f, g) /\ g.offset = codeLen
<1> DEFINE f == program.functions[n]
           g == LaidOut(f)
           len == Lengths(f)
           N == Len(f.relocs)
<1>1. /\ f.size \in Nat \ {0} /\ Quantal(f.size)
      /\ N \in Nat
      /\ \A i \in 1 .. N :
           /\ f.relocs[i].type \in RelocTypes(program.arch) /\ f.relocs[i].offset \in Nat
           /\ f.relocs[i].offset + RelocSize <= f.size
      /\ TableOK(f.pcvalues) /\ EndOf(f.pcvalues) = f.size
  BY Originals
<1> HIDE DEF f
<1>2. PICK relocs : relocs = [i \in 1 .. N |-> Reserve(f.relocs[i], len[i - 1])]
  OBVIOUS
<1>3. /\ g.size = f.size /\ g.relocs = relocs /\ g.pcvalues = PatchAll(f.pcvalues, relocs)
      /\ g.offset = codeLen /\ g.len = len[N]
  BY <1>2 DEF LaidOut
<1>4. Len(relocs) = N /\ DOMAIN relocs = 1 .. N
  BY <1>1, <1>2
<1>5. /\ len[0] = Align(f.size) /\ \A i \in 0 .. N : len[i] \in Nat /\ len[i] % PtrSize = 0
      /\ \A i \in 1 .. N : Reserved(f.relocs[i], len[i - 1]) \in Nat
  BY <1>1, LengthsAre
<1>6. /\ \A i \in 1 .. N : len[i - 1] + Reserved(f.relocs[i], len[i - 1]) <= len[i]
      /\ \A j \in 0 .. N : \A i \in 0 .. j : len[i] <= len[j]
  BY <1>1, LengthsGrow
<1> HIDE DEF g, len, N
<1>7. \A i \in 0 .. N : f.size <= len[i] /\ len[i] <= len[N]
  <2>1. f.size <= len[0]
    BY <1>1, <1>5, Aligned
  <2>2. 0 \in 0 .. N /\ N \in 0 .. N
    BY <1>1
  <2> QED BY <1>1, <1>5, <1>6, <2>1, <2>2
<1>8. ASSUME NEW i \in 1 .. N
      PROVE  LET r == relocs[i] IN
             /\ r.type = f.relocs[i].type /\ r.offset = f.relocs[i].offset
             /\ r.opcode = f.relocs[i].opcode /\ r.next = f.relocs[i].next
             /\ r.epilogueOffset = IF HasEpilogue(r) THEN len[i - 1] ELSE 0
             /\ r.epilogueSize = IF HasEpilogue(r) THEN EpilogueSize(r, len[i - 1]) ELSE 0
             /\ r.epilogueSize = Reserved(f.relocs[i], len[i - 1])
  <2>1. relocs[i] = Reserve(f.relocs[i], len[i - 1])
    BY <1>2
  <2> DEFINE r == relocs[i]
  <2>2. /\ r.type = f.relocs[i].type /\ r.offset = f.relocs[i].offset
        /\ r.opcode = f.relocs[i].opcode /\ r.next = f.relocs[i].next /\ r.toString = f.relocs[i].toString
        /\ r.epilogueOffset = IF HasEpilogue(f.relocs[i]) THEN len[i - 1] ELSE 0
        /\ r.epilogueSize = Reserved(f.relocs[i], len[i - 1])
    BY <2>1 DEF Reserve
  <2> HIDE DEF r
  <2>3. HasEpilogue(r) <=> HasEpilogue(f.relocs[i])
    BY <2>2 DEF HasEpilogue
  <2>4. EpilogueSize(r, len[i - 1]) = EpilogueSize(f.relocs[i], len[i - 1])
    BY <2>2 DEF EpilogueSize, ReservedAs, ShortJump
  <2> QED BY <2>2, <2>3, <2>4 DEF Reserved, r
<1>9. ASSUME NEW i \in 1 .. N PROVE i - 1 \in 0 .. N /\ len[i - 1] \in Nat /\ len[i] \in Nat
  BY <1>1, <1>5
<1>10. ASSUME NEW i \in 1 .. N, NEW j \in 1 .. i - 1, HasEpilogue(relocs[i]), HasEpilogue(relocs[j])
       PROVE  relocs[j].epilogueOffset + relocs[j].epilogueSize <= relocs[i].epilogueOffset
  <2>1. j \in 1 .. N /\ j \in 0 .. i - 1 /\ j \in 0 .. N /\ i - 1 \in 0 .. N
    BY <1>1
  <2>2. len[j] <= len[i - 1]
    BY <1>6, <2>1
  <2>3. len[j - 1] + Reserved(f.relocs[j], len[j - 1]) <= len[j]
    BY <1>6, <2>1
  <2>4. len[j - 1] \in Nat /\ len[j] \in Nat /\ len[i - 1] \in Nat /\ Reserved(f.relocs[j], len[j - 1]) \in Nat
    BY <1>5, <1>9, <2>1
  <2>5. /\ relocs[j].epilogueOffset = len[j - 1] /\ relocs[j].epilogueSize = Reserved(f.relocs[j], len[j - 1])
        /\ relocs[i].epilogueOffset = len[i - 1]
    BY <1>8, <1>10, <2>1
  <2> QED BY <2>2, <2>3, <2>4, <2>5
<1>11. ASSUME NEW i \in 1 .. N PROVE RelocLaidOut(g, i)
  <2> DEFINE r == relocs[i]
  <2>1. /\ r.type \in RelocTypes(program.arch) /\ r.offset \in Nat /\ r.offset + RelocSize <= g.size
    BY <1>1, <1>3, <1>8
  <2>2. /\ len[i - 1] \in Nat /\ len[N] \in Nat /\ f.size <= len[i - 1] /\ f.size \in Nat
        /\ len[i - 1] + Reserved(f.relocs[i], len[i - 1]) <= len[i] /\ len[i] <= len[N] /\ len[i] \in Nat
        /\ Reserved(f.relocs[i], len[i - 1]) \in Nat
    <3>1. i \in 0 .. N /\ i - 1 \in 0 .. N /\ N \in 0 .. N
      BY <1>1
    <3> QED BY <1>1, <1>5, <1>6, <1>7, <3>1
  <2>3. CASE HasEpilogue(r)
    <3>1. /\ r.epilogueOffset = len[i - 1] /\ r.epilogueSize = EpilogueSize(r, r.epilogueOffset)
          /\ r.epilogueSize = Reserved(f.relocs[i], len[i - 1])
      BY <1>8, <2>3
    <3>2. g.size <= r.epilogueOffset /\ r.epilogueOffset + r.epilogueSize <= g.len
      BY <1>3, <2>2, <3>1
    <3>3. \A j \in 1 .. i - 1 : HasEpilogue(relocs[j]) =>
            relocs[j].epilogueOffset + relocs[j].epilogueSize <= r.epilogueOffset
      BY <1>10, <2>3
    <3>4. r.epilogueOffset \in Nat /\ r.epilogueSize \in Nat
      BY <2>2, <3>1
    <3> HIDE DEF r
    <3>5. r = g.relocs[i] /\ g.relocs = relocs
      BY <1>3 DEF r
    <3> QED BY <2>1, <2>3, <3>1, <3>2, <3>3, <3>4, <3>5 DEF RelocLaidOut
  <2>4. CASE ~HasEpilogue(r)
    <3>1. r.epilogueOffset = 0 /\ r.epilogueSize = 0
      BY <1>8, <2>4
    <3> HIDE DEF r
    <3>2. r = g.relocs[i]
      BY <1>3 DEF r
    <3> QED BY <2>1, <2>4, <3>1, <3>2 DEF RelocLaidOut
  <2> QED BY <2>3, <2>4
<1>12. Patchable(f.pcvalues, relocs)
  <2> SUFFICES ASSUME NEW i \in 1 .. N
      PROVE  LET r == relocs[i] IN
             /\ r.offset \in Nat /\ r.offset < EndOf(f.pcvalues)
             /\ r.epilogueOffset \in Nat /\ r.epilogueSize \in Nat
             /\ r.epilogueOffset # 0 =>
                  /\ EndOf(f.pcvalues) <= r.epilogueOffset
                  /\ Quantal(r.epilogueOffset + r.epilogueSize)
                  /\ \A j \in 1 .. i - 1 : relocs[j].epilogueOffset # 0 =>
                       relocs[j].epilogueOffset + relocs[j].epilogueSize <= r.epilogueOffset
    BY <1>4 DEF Patchable
  <2> DEFINE r == relocs[i]
  <2>1. RelocLaidOut(g, i) /\ r = g.relocs[i] /\ g.size = f.size
    BY <1>3, <1>11
  <2>2. r.offset \in Nat /\ r.offset < EndOf(f.pcvalues) /\ r.epilogueOffset \in Nat /\ r.epilogueSize \in Nat
    BY <1>1, <2>1 DEF RelocLaidOut, RelocSize
  <2>3. ASSUME r.epilogueOffset # 0
        PROVE  /\ EndOf(f.pcvalues) <= r.epilogueOffset
               /\ Quantal(r.epilogueOffset + r.epilogueSize)
               /\ \A j \in 1 .. i - 1 : relocs[j].epilogueOffset # 0 =>
                    relocs[j].epilogueOffset + relocs[j].epilogueSize <= r.epilogueOffset
    <3>1. HasEpilogue(r)
      BY <1>8, <2>3
    <3>2. EndOf(f.pcvalues) <= r.epilogueOffset
      BY <1>1, <2>1, <3>1 DEF RelocLaidOut
    <3>3. \A j \in 1 .. i - 1 : relocs[j].epilogueOffset # 0 => j \in 1 .. N /\ HasEpilogue(relocs[j])
      <4> SUFFICES ASSUME NEW j \in 1 .. i - 1, relocs[j].epilogueOffset # 0 PROVE j \in 1 .. N /\ HasEpilogue(relocs[j])
        OBVIOUS
      <4>1. j \in 1 .. N
        BY <1>1
      <4> QED BY <1>8, <4>1
    <3>4. r.epilogueOffset = len[i - 1] /\ r.epilogueSize = EpilogueSize(r, len[i - 1])
      BY <1>8, <3>1
    <3>5. Quantal(r.epilogueOffset + r.epilogueSize)
      <4>1. len[i - 1] \in Nat /\ len[i - 1] % 8 = 0
        BY <1>5, <1>9 DEF PtrSize
      <4>2. CASE program.arch = "arm64"
        <5>1. r.epilogueSize \in Nat /\ r.epilogueSize % 4 = 0
          <6>1. r.type \in RelocTypes("arm64")
            BY <2>1, <4>2 DEF RelocLaidOut
          <6> HIDE DEF r
          <6> QED BY <3>4, <4>1, <6>1, EpilogueSizes
        <5>2. (r.epilogueOffset + r.epilogueSize) % 4 = 0
          <6> HIDE DEF r
          <6> QED BY <3>4, <4>1, <5>1
        <5> QED BY <4>2, <5>2 DEF Quantal, PcQuantum, Quantum
      <4>3. CASE program.arch # "arm64"
        <5>1. (r.epilogueOffset + r.epilogueSize) % 1 = 0
          <6> HIDE DEF r
          <6> QED BY <2>2
        <5> QED BY <4>3, <5>1 DEF Quantal, PcQuantum, Quantum
      <4> QED BY <4>2, <4>3
    <3> QED BY <1>10, <3>1, <3>2, <3>3, <3>5
  <2> QED BY <2>2, <2>3
<1>13. Covers(g.pcvalues, f.pcvalues, g.relocs, Len(g.relocs))
  <2>1. Len(relocs) \in Nat
    BY <1>1, <1>4
  <2> QED BY <1>1, <1>3, <1>12, <2>1, PatchAllCovers
<1>14. g.len \in Nat /\ g.size <= g.len
  <2>1. N \in 0 .. N
    BY <1>1
  <2> QED BY <1>1, <1>3, <1>5, <1>7, <2>1
<1>15. IsLayout(f, g) /\ g.offset = codeLen
  BY <1>1, <1>3, <1>4, <1>11, <1>13, <1>14 DEF IsLayout
<1> QED BY <1>15 DEF f, g

(***************************************************************************)
(* Stubs: each is as long as the space reserved for it, or shorter.        *)
(***************************************************************************)

MayFill(r) == CanFill(r) /\ (r.epilogueSize > 0 \/ Unasked(r))

LEMMA Jumps ==
  ASSUME NEW r, r.offset \in Nat, r.epilogueOffset \in Nat, r.offset + RelocSize <= r.epilogueOffset,
         NEW n \in Nat
  PROVE  /\ ShortJump(r, r.epilogueOffset + n) <=> r.epilogueOffset + n < r.offset + 130
         /\ WithJump(r, n) = n + IF r.epilogueOffset + n < r.offset + 130 THEN 2 ELSE 5
BY DEF ShortJump, WithJump, RelocSize, JmpShort, JmpNear

LEMMA PcrelFits ==
  ASSUME NEW r, r.type = "PCREL", r.offset \in Nat, r.epilogueOffset \in Nat,
         r.offset + RelocSize <= r.epilogueOffset,
         CanFill(r), EpilogueSize(r, r.epilogueOffset) > 0
  PROVE  /\ PcrelStub(r) \in Nat /\ 1 <= PcrelStub(r)
         /\ ~(r.opcode = "JMP" /\ r.next = "CALL") =>
              PcrelStub(r) <= EpilogueSize(r, r.epilogueOffset)
<1> DEFINE at == r.epilogueOffset
           short(n) == at + n < r.offset + 130
           size == EpilogueSize(r, at)
<1>1. /\ \A n \in Nat : ShortJump(r, at + n) <=> short(n)
      /\ \A n \in Nat : WithJump(r, n) = n + IF short(n) THEN 2 ELSE 5
  BY Jumps
<1>2. \A op : NearSize(op) = CASE op = "LEA" -> 8 [] op = "MOV" -> 20 [] op = "CMPL" -> 21
                               [] op = "JMP" -> 14 [] op = "CALL2" -> 8 [] op = "CALL" -> 19 [] OTHER -> 0
  BY DEF NearSize, PtrSize, MovQ, JmpNear, CmpL, JmpL, CallFar
<1>3. size = IF ReservedAs(r) \in {"MOV", "CMPL", "CALL"} /\ ShortJump(r, at + NearSize(ReservedAs(r)))
               THEN NearSize(ReservedAs(r)) - 3 ELSE NearSize(ReservedAs(r))
  BY DEF EpilogueSize, JmpNear, JmpShort
<1>4. FilledAs(r) # "none"
  BY DEF CanFill
<1>5. /\ ReservedAs(r) \in {"LEA", "MOV", "CMPL", "JMP", "CALL2", "CALL"}
      /\ FilledAs(r) \in {"LEA", "MOV", "CMPL", "CALL2", "CALL", "JMP"}
      /\ FilledAs(r) # ReservedAs(r) =>
           \/ r.opcode = "JMP" /\ r.next = "CALL"
           \/ ReservedAs(r) \in {"CALL", "JMP"} /\ FilledAs(r) = "CALL2"
  <2>1. ReservedAs(r) # "none"
    BY <1>2, <1>3
  <2> QED BY <1>4, <2>1 DEF ReservedAs, FilledAs
<1>6. PcrelStub(r) = CASE FilledAs(r) \in {"LEA", "CALL2"} -> 8
                       [] FilledAs(r) = "MOV" -> WithJump(r, IF r.rax THEN 10 ELSE 15)
                       [] FilledAs(r) = "CMPL" -> WithJump(r, 16)
                       [] FilledAs(r) = "JMP" -> 14
                       [] FilledAs(r) = "CALL" -> WithJump(r, 6) + 8
  BY <1>5 DEF PcrelStub, PtrSize, MovQ, MovQRax, CmpL, JmpL, CallStub, CallFar
<1>7. /\ WithJump(r, 15) \in {17, 20} /\ WithJump(r, 10) \in {12, 15}
      /\ WithJump(r, 16) \in {18, 21} /\ WithJump(r, 6) \in {8, 11}
      /\ (short(15) => WithJump(r, 15) = 17) /\ (short(10) => WithJump(r, 10) = 12)
      /\ (short(16) => WithJump(r, 16) = 18) /\ (short(6) => WithJump(r, 6) = 8)
  BY <1>1
<1>8. \A m, n \in Nat : m <= n /\ short(n) => short(m)
  OBVIOUS
<1>9. PcrelStub(r) \in Nat /\ 1 <= PcrelStub(r)
  BY <1>5, <1>6, <1>7
<1>10. ASSUME FilledAs(r) = ReservedAs(r) PROVE PcrelStub(r) <= size
  <2>1. CASE ReservedAs(r) \in {"LEA", "CALL2", "JMP"}
    BY <1>2, <1>3, <1>6, <1>10, <2>1
  <2>2. CASE ReservedAs(r) = "MOV"
    <3>1. size = IF short(20) THEN 17 ELSE 20
      BY <1>1, <1>2, <1>3, <2>2
    <3>2. PcrelStub(r) \in {WithJump(r, 10), WithJump(r, 15)}
      BY <1>6, <1>10, <2>2
    <3>3. short(20) => short(15)
      BY <1>8
    <3> QED BY <1>7, <3>1, <3>2, <3>3
  <2>3. CASE ReservedAs(r) = "CMPL"
    <3>1. size = IF short(21) THEN 18 ELSE 21
      BY <1>1, <1>2, <1>3, <2>3
    <3>2. PcrelStub(r) = WithJump(r, 16)
      BY <1>6, <1>10, <2>3
    <3>3. short(21) => short(16)
      BY <1>8
    <3> QED BY <1>7, <3>1, <3>2, <3>3
  <2>4. CASE ReservedAs(r) = "CALL"
    <3>1. size = IF short(19) THEN 16 ELSE 19
      BY <1>1, <1>2, <1>3, <2>4
    <3>2. PcrelStub(r) = WithJump(r, 6) + 8
      BY <1>6, <1>10, <2>4
    <3>3. short(19) => short(6)
      BY <1>8
    <3> QED BY <1>7, <3>1, <3>2, <3>3
  <2> QED BY <1>5, <2>1, <2>2, <2>3, <2>4
<1>11. ASSUME ReservedAs(r) \in {"CALL", "JMP"}, FilledAs(r) = "CALL2" PROVE PcrelStub(r) <= size
  <2>1. PcrelStub(r) = 8
    BY <1>6, <1>11
  <2>2. size \in {14, 16, 19}
    BY <1>2, <1>3, <1>11
  <2> QED BY <2>1, <2>2
<1> QED BY <1>5, <1>9, <1>10, <1>11

\* r has its place in the function g.
LEMMA StubFits ==
  ASSUME NEW g, g.size \in Nat, NEW i, RelocLaidOut(g, i), NEW r, r = g.relocs[i], MayFill(r),
         program.arch \in {"amd64", "arm64"}
  PROVE  /\ r.epilogueSize > 0 => StubSize(r) \in Nat /\ 1 <= StubSize(r)
         /\ ~TooShort(r) => HasEpilogue(r) /\ StubSize(r) <= r.epilogueSize /\ r.epilogueSize > 0
<1>1. /\ r.type \in {"ADDR", "ADDRARM64", "ARM64_LDST", "CALLARM64", "ARM64_GOTPCREL",
                      "CALL", "PCREL", "GOTPCREL"}
      /\ r.offset \in Nat /\ r.offset + RelocSize <= g.size
      /\ r.epilogueOffset \in Nat /\ r.epilogueSize \in Nat
      /\ HasEpilogue(r) => g.size <= r.epilogueOffset /\ r.epilogueSize = EpilogueSize(r, r.epilogueOffset)
      /\ r.epilogueSize > 0 => HasEpilogue(r)
  BY DEF RelocLaidOut, RelocTypes
<1>2. HasEpilogue(r) => r.type # "ADDR"
  BY DEF HasEpilogue
<1>3. CanFill(r) /\ (r.epilogueSize > 0 \/ Unasked(r))
  BY DEF MayFill
<1>4. SUFFICES ASSUME HasEpilogue(r)
      PROVE  /\ r.epilogueSize > 0 => StubSize(r) \in Nat /\ 1 <= StubSize(r)
             /\ ~TooShort(r) => StubSize(r) <= r.epilogueSize /\ r.epilogueSize > 0
  BY <1>1, <1>3 DEF TooShort
<1>5. r.offset + RelocSize <= r.epilogueOffset
  BY <1>1, <1>4 DEF RelocSize
<1>6. CASE r.type = "PCREL"
  <2>1. StubSize(r) = PcrelStub(r)
    BY <1>6 DEF StubSize
  <2>2. EpilogueSize(r, r.epilogueOffset) > 0
    BY <1>1, <1>3, <1>4, <1>6 DEF Unasked
  <2>3. ~TooShort(r) => ~(r.opcode = "JMP" /\ r.next = "CALL")
    BY <1>6 DEF TooShort
  <2> QED BY <1>1, <1>3, <1>4, <1>5, <1>6, <2>1, <2>2, <2>3, PcrelFits
<1>7. CASE r.type = "CALL"
  <2>1. StubSize(r) = WithJump(r, 6) + 8
    BY <1>7 DEF StubSize, CallStub, CallFar, PtrSize
  <2>2. WithJump(r, 6) = 6 + IF r.epilogueOffset + 6 < r.offset + 130 THEN 2 ELSE 5
    BY <1>1, <1>5, Jumps
  <2>3. r.epilogueSize = IF ShortJump(r, 0 + NearSize("CALL"))
                           THEN NearSize("CALL") - 3 ELSE NearSize("CALL")
    BY <1>1, <1>4, <1>7 DEF EpilogueSize, JmpNear, JmpShort
  <2>4. NearSize("CALL") = 19
    BY DEF NearSize, PtrSize, CallFar, JmpNear
  <2>5. ShortJump(r, 19) => r.offset < 17
    BY <1>1 DEF ShortJump, RelocSize, JmpShort
  <2>6. ~TooShort(r) => r.offset >= 17 \/ r.epilogueOffset < r.offset + 124
    BY <1>1, <1>7 DEF TooShort
  <2> QED BY <1>1, <1>7, <2>1, <2>2, <2>3, <2>4, <2>5, <2>6
<1>8. CASE r.type \in {"GOTPCREL", "ADDRARM64", "ARM64_LDST", "CALLARM64", "ARM64_GOTPCREL"}
  BY <1>1, <1>4, <1>8 DEF StubSize, CallArmStub, AdrpStub, EpilogueSize, PtrSize
<1> QED BY <1>1, <1>2, <1>4, <1>6, <1>7, <1>8

\* What is not reserved for them: the bytes of the longer jump back, or all of them.
LEMMA StubSticksOut ==
  ASSUME NEW g, g.size \in Nat, NEW i, RelocLaidOut(g, i), NEW r, r = g.relocs[i], MayFill(r),
         program.arch \in {"amd64", "arm64"}, TooShort(r), HasEpilogue(r)
  PROVE  StubSize(r) \in Nat /\ r.epilogueSize < StubSize(r)
<1>1. /\ r.offset \in Nat /\ r.offset + RelocSize <= g.size
      /\ r.epilogueOffset \in Nat /\ r.epilogueSize \in Nat /\ g.size <= r.epilogueOffset
      /\ r.epilogueSize = EpilogueSize(r, r.epilogueOffset)
  BY DEF RelocLaidOut
<1>2. r.offset + RelocSize <= r.epilogueOffset
  BY <1>1 DEF RelocSize
<1>3. WithJump(r, 6) = 6 + IF r.epilogueOffset + 6 < r.offset + 130 THEN 2 ELSE 5
  BY <1>1, <1>2, Jumps
<1>4. CASE r.type = "CALL" /\ r.offset < 17 /\ r.epilogueOffset >= r.offset + 124
  <2>1. StubSize(r) = WithJump(r, 6) + 8
    BY <1>4 DEF StubSize, CallStub, CallFar, PtrSize
  <2>2. ShortJump(r, 0 + 19)
    BY <1>1, <1>4 DEF ShortJump, RelocSize, JmpShort
  <2>3. NearSize("CALL") = 19
    BY DEF NearSize, PtrSize, CallFar, JmpNear
  <2>4. r.epilogueSize = 16
    BY <1>1, <1>4, <2>2, <2>3 DEF EpilogueSize, JmpNear, JmpShort
  <2>5. WithJump(r, 6) = 11
    BY <1>1, <1>3, <1>4
  <2> QED BY <2>1, <2>4, <2>5
<1>5. CASE r.type = "PCREL" /\ r.opcode = "JMP" /\ r.next = "CALL"
  <2>1. ReservedAs(r) = "JMP" /\ FilledAs(r) = "CALL"
    BY <1>5 DEF ReservedAs, FilledAs
  <2>2. StubSize(r) = WithJump(r, 6) + 8
    BY <1>5, <2>1 DEF StubSize, PcrelStub, CallStub, CallFar, PtrSize
  <2>3. NearSize("JMP") = 14
    BY DEF NearSize, PtrSize, JmpL
  <2>4. r.epilogueSize = 14
    BY <1>1, <1>5, <2>1, <2>3 DEF EpilogueSize
  <2>5. WithJump(r, 6) \in {8, 11}
    BY <1>1, <1>3
  <2> QED BY <2>2, <2>4, <2>5
<1> QED BY <1>4, <1>5 DEF TooShort

(***************************************************************************)
(* The table that finds functions: an entry never points behind the        *)
(* function of a pc, and the runtime's search goes on from there.          *)
(***************************************************************************)
Ordered ==
  /\ Len(placed) \in Nat /\ codeLen \in Nat /\ Entry(0) = 0
  /\ \A n \in 1 .. Len(placed) :
       /\ placed[n].offset \in Nat /\ placed[n].offset <= codeLen
       /\ \A m \in 1 .. n : placed[m].offset <= placed[n].offset

LEMMA EntriesAscend ==
  ASSUME Ordered
  PROVE  /\ \A k \in 0 .. Len(placed) : Entry(k) \in Nat
         /\ \A k \in 0 .. Len(placed) : \A j \in 0 .. k : Entry(j) <= Entry(k)
<1>1. ASSUME NEW k \in 0 .. Len(placed) PROVE Entry(k) \in Nat /\ Entry(k) <= codeLen
  <2>1. CASE k < Len(placed)
    <3>1. k + 1 \in 1 .. Len(placed)
      BY <2>1 DEF Ordered
    <3> QED BY <2>1, <3>1 DEF Ordered, Entry
  <2>2. CASE ~(k < Len(placed))
    BY <2>2 DEF Ordered, Entry
  <2> QED BY <2>1, <2>2
<1>2. ASSUME NEW k \in 0 .. Len(placed), NEW j \in 0 .. k PROVE Entry(j) <= Entry(k)
  <2>1. j \in 0 .. Len(placed) /\ Len(placed) \in Nat
    BY DEF Ordered
  <2>2. CASE k < Len(placed)
    <3>1. k + 1 \in 1 .. Len(placed) /\ j + 1 \in 1 .. k + 1 /\ j < Len(placed)
      BY <2>1, <2>2
    <3> QED BY <2>2, <3>1 DEF Ordered, Entry
  <2>3. CASE ~(k < Len(placed))
    <3>1. Entry(k) = codeLen
      BY <2>3 DEF Entry
    <3> QED BY <1>1, <2>1, <3>1
  <2> QED BY <2>2, <2>3
<1> QED BY <1>1, <1>2

SubBuckets == 0 .. NSub - 1
Buckets == [idx : Nat, sub : [SubBuckets -> Nat]]

\* The bucket with the given number after k functions.
BucketOK(bucket, number, k) ==
  /\ bucket.idx \in Nat /\ bucket.sub \in [SubBuckets -> Nat]
  /\ \A j \in SubBuckets :
       /\ bucket.idx + bucket.sub[j] <= k
       /\ Entry(bucket.idx + bucket.sub[j]) <= number * PcBucketSize + j * SubSize

TabOK(table, k) ==
  /\ table \in Seq(Buckets)
  /\ k = 0 => table = <<>>
  /\ k > 0 => Len(table) = Entry(k) \div PcBucketSize + 1
  /\ \A m \in 1 .. Len(table) : BucketOK(table[m], m - 1, k)

LEMMA Sizes ==
  /\ PcBucketSize \in Nat \ {0} /\ NSub \in Nat \ {0} /\ ByteMod \in Nat \ {0}
  /\ SubSize \in Nat \ {0} /\ SubSize * NSub = PcBucketSize
<1>1. PcBucketSize \in Nat \ {0} /\ NSub \in Nat \ {0} /\ ByteMod \in Nat \ {0} /\ PcBucketSize % NSub = 0
  BY ConstantsAssumption
<1>2. SubSize \in Nat /\ PcBucketSize = SubSize * NSub + 0
  BY <1>1, Division DEF SubSize
<1>3. SubSize # 0
  BY <1>1, <1>2
<1> QED BY <1>1, <1>2, <1>3

\* The subbucket of a place in a bucket.
LEMMA SubBucketOf ==
  ASSUME NEW pc \in Nat
  PROVE  LET q == pc \div PcBucketSize
             j == (pc % PcBucketSize) \div SubSize IN
         /\ q \in Nat /\ j \in SubBuckets
         /\ q * PcBucketSize + j * SubSize <= pc
         /\ pc < q * PcBucketSize + (j + 1) * SubSize
         /\ pc < (q + 1) * PcBucketSize
<1> DEFINE q == pc \div PcBucketSize
           rest == pc % PcBucketSize
           j == rest \div SubSize
<1>1. q \in Nat /\ rest \in 0 .. PcBucketSize - 1 /\ pc = q * PcBucketSize + rest
  BY Sizes, Division
<1>2. rest \in Nat /\ rest < PcBucketSize
  BY <1>1, Sizes
<1> HIDE DEF q, rest
<1>3. j \in Nat /\ j * SubSize <= rest /\ rest < j * SubSize + SubSize
  BY <1>2, Sizes, Division
<1> HIDE DEF j
<1>4. j * SubSize \in Nat /\ q * PcBucketSize \in Nat /\ (j + 1) * SubSize = j * SubSize + SubSize
      /\ (q + 1) * PcBucketSize = q * PcBucketSize + PcBucketSize
  BY <1>1, <1>3, Sizes
<1>5. j < NSub
  <2>1. SUFFICES ASSUME j >= NSub PROVE FALSE
    BY <1>3, Sizes
  <2>2. j * SubSize >= NSub * SubSize
    BY <1>3, <2>1, Sizes
  <2> QED BY <1>2, <1>3, <1>4, <2>2, Sizes
<1>6. j \in SubBuckets
  BY <1>3, <1>5, Sizes DEF SubBuckets
<1> QED BY <1>1, <1>2, <1>3, <1>4, <1>6, Sizes DEF q, rest, j

LEMMA AddBucketsKeeps ==
  ASSUME Ordered, NEW k \in 0 .. Len(placed) - 1, NEW table, TabOK(table, k)
  PROVE  TabOK(AddBuckets(table, k), k + 1)
<1> DEFINE lb == Entry(k) \div PcBucketSize
           li == (Entry(k) % PcBucketSize) \div SubSize
           b == Entry(k + 1) \div PcBucketSize
           i == IF lb < b THEN NSub - 1 ELSE (Entry(k + 1) % PcBucketSize) \div SubSize
           new == [idx |-> k, sub |-> [n \in 0 .. NSub - 1 |-> 0]]
           more == b - Len(table) + 1
           grown == table \o [m \in 1 .. more |-> new]
           Sub(old, idx) == [n \in 0 .. NSub - 1 |->
                               IF n \in li + 1 .. i /\ old[n] = 0 THEN (k - idx) % ByteMod ELSE old[n]]
           result == AddBuckets(table, k)
<1>1. /\ k \in Nat /\ k \in 0 .. Len(placed) /\ k + 1 \in 0 .. Len(placed)
      /\ Entry(k) \in Nat /\ Entry(k + 1) \in Nat /\ Entry(k) <= Entry(k + 1)
  <2>1. Len(placed) \in Nat
    BY DEF Ordered
  <2>2. k \in Nat /\ k \in 0 .. Len(placed) /\ k + 1 \in 0 .. Len(placed) /\ k \in 0 .. k + 1
    BY <2>1
  <2> QED BY <2>2, EntriesAscend
<1>2. \A n \in 0 .. k : n \in 0 .. Len(placed) /\ Entry(n) \in Nat /\ Entry(n) <= Entry(k)
  <2>1. \A n \in 0 .. k : n \in 0 .. Len(placed)
    BY <1>1
  <2> QED BY <1>1, <2>1, EntriesAscend
<1>3. /\ lb \in Nat /\ li \in SubBuckets /\ lb * PcBucketSize + li * SubSize <= Entry(k)
      /\ Entry(k) < lb * PcBucketSize + (li + 1) * SubSize
      /\ Entry(k) < (lb + 1) * PcBucketSize
  BY <1>1, SubBucketOf
<1>4. b \in Nat /\ lb <= b
  <2>1. b \in Nat /\ Entry(k + 1) < (b + 1) * PcBucketSize /\ lb * PcBucketSize <= Entry(k)
    BY <1>1, SubBucketOf, Sizes, Division
  <2> HIDE DEF b, lb
  <2>2. lb * PcBucketSize < (b + 1) * PcBucketSize
    <3>1. lb * PcBucketSize \in Nat /\ (b + 1) * PcBucketSize \in Nat
      BY <1>3, <2>1, Sizes
    <3> QED BY <1>1, <2>1, <3>1
  <2>3. lb < b + 1
    <3>1. SUFFICES ASSUME b + 1 <= lb PROVE FALSE
      BY <1>3, <2>1
    <3>2. (b + 1) * PcBucketSize <= lb * PcBucketSize
      BY <1>3, <2>1, <3>1, Sizes
    <3>3. lb * PcBucketSize \in Nat /\ (b + 1) * PcBucketSize \in Nat
      BY <1>3, <2>1, Sizes
    <3> QED BY <2>2, <3>2, <3>3
  <2> QED BY <1>3, <2>1, <2>3
<1>5. /\ table \in Seq(Buckets) /\ Len(table) \in Nat
      /\ IF k = 0 THEN Len(table) = 0 /\ lb = 0 /\ Entry(k) = 0 ELSE Len(table) = lb + 1
  <2>1. k = 0 => Entry(k) = 0 /\ lb = 0
    <3>1. 0 \div PcBucketSize = 0
      BY Sizes, DivisionIs
    <3> QED BY <3>1 DEF Ordered
  <2> QED BY <1>1, <2>1 DEF TabOK
<1>6. more \in Nat /\ Len(table) + more = b + 1 /\ Len(table) <= b + 1
  BY <1>3, <1>4, <1>5
<1> HIDE DEF lb, li, b, i, more
<1>7. result = [grown EXCEPT ![lb + 1].sub = Sub(@, grown[lb + 1].idx)]
  BY DEF AddBuckets, lb, li, b, i, more
<1> HIDE DEF result
<1>8. new \in Buckets
  BY <1>1 DEF Buckets, SubBuckets
<1>9. /\ grown \in Seq(Buckets) /\ Len(grown) = b + 1
      /\ \A m \in 1 .. Len(table) : grown[m] = table[m]
      /\ \A m \in Len(table) + 1 .. b + 1 : grown[m] = new
  <2>1. PICK tail : tail = [m \in 1 .. more |-> new]
    OBVIOUS
  <2>2. tail \in Seq(Buckets) /\ Len(tail) = more /\ \A m \in 1 .. more : tail[m] = new
    BY <1>6, <1>8, <2>1
  <2>3. grown = table \o tail
    BY <2>1
  <2> HIDE DEF grown, new
  <2>4. grown \in Seq(Buckets) /\ Len(grown) = b + 1
    <3>1. grown \in Seq(Buckets) /\ Len(grown) = Len(table) + Len(tail)
      BY <1>5, <2>2, <2>3
    <3> QED BY <1>6, <2>2, <3>1
  <2>5. \A m \in 1 .. Len(table) : grown[m] = table[m]
    BY <1>5, <2>2, <2>3
  <2>6. ASSUME NEW m \in Len(table) + 1 .. b + 1 PROVE grown[m] = new
    <3>1. m - Len(table) \in 1 .. more /\ m \in 1 .. Len(table) + more /\ ~(m <= Len(table))
      BY <1>5, <1>6
    <3>2. grown[m] = tail[m - Len(table)]
      BY <1>5, <2>2, <2>3, <3>1
    <3> QED BY <2>2, <3>1, <3>2
  <2> QED BY <2>4, <2>5, <2>6
<1>10. ASSUME NEW m \in 1 .. b + 1 PROVE BucketOK(grown[m], m - 1, k)
  <2>1. CASE m \in 1 .. Len(table)
    BY <1>9, <2>1 DEF TabOK
  <2>2. CASE m \notin 1 .. Len(table)
    <3>1. m \in Len(table) + 1 .. b + 1 /\ m - 1 \in Nat
      BY <1>5, <2>2
    <3>2. Entry(k) <= (m - 1) * PcBucketSize
      <4>1. CASE k = 0
        <5>1. (m - 1) * PcBucketSize \in Nat
          BY <3>1, Sizes
        <5> QED BY <1>5, <4>1, <5>1
      <4>2. CASE k # 0
        <5>1. lb + 1 <= m - 1
          BY <1>3, <1>5, <3>1, <4>2
        <5>2. (lb + 1) * PcBucketSize <= (m - 1) * PcBucketSize
          BY <1>3, <3>1, <5>1, Sizes
        <5>3. (lb + 1) * PcBucketSize \in Nat /\ (m - 1) * PcBucketSize \in Nat
          BY <1>3, <3>1, Sizes
        <5> QED BY <1>1, <1>3, <5>2, <5>3
      <4> QED BY <4>1, <4>2
    <3>3. \A j \in SubBuckets : Entry(k) <= (m - 1) * PcBucketSize + j * SubSize
      <4> SUFFICES ASSUME NEW j \in SubBuckets PROVE Entry(k) <= (m - 1) * PcBucketSize + j * SubSize
        OBVIOUS
      <4>1. j * SubSize \in Nat /\ (m - 1) * PcBucketSize \in Nat
        BY <3>1, Sizes DEF SubBuckets
      <4> QED BY <1>1, <3>2, <4>1
    <3>4. new.idx = k /\ new.sub \in [SubBuckets -> Nat] /\ \A j \in SubBuckets : new.idx + new.sub[j] = k
      BY <1>1 DEF SubBuckets
    <3>5. grown[m] = new
      BY <1>9, <3>1
    <3> HIDE DEF new, grown
    <3> QED BY <1>1, <3>3, <3>4, <3>5 DEF BucketOK
  <2> QED BY <2>1, <2>2
<1>11. lb + 1 \in 1 .. b + 1 /\ lb + 1 - 1 = lb
  BY <1>3, <1>4
<1> HIDE DEF grown
<1> DEFINE old == grown[lb + 1]
           changed == [old EXCEPT !.sub = Sub(old.sub, old.idx)]
<1>12. /\ DOMAIN result = 1 .. b + 1
       /\ result = [grown EXCEPT ![lb + 1] = changed]
       /\ \A m \in 1 .. b + 1 : result[m] = IF m = lb + 1 THEN changed ELSE grown[m]
  <2>1. result = [grown EXCEPT ![lb + 1] = changed]
    BY <1>7
  <2> HIDE DEF changed
  <2>2. DOMAIN grown = 1 .. b + 1
    BY <1>4, <1>9
  <2>3. DOMAIN result = 1 .. b + 1 /\ \A m \in 1 .. b + 1 : result[m] = IF m = lb + 1 THEN changed ELSE grown[m]
    BY <2>1, <2>2
  <2> QED BY <2>1, <2>3
<1>13. BucketOK(old, lb, k) /\ old \in Buckets
  <2>1. PICK m : m = lb + 1 /\ m - 1 = lb /\ m \in 1 .. b + 1
    BY <1>3, <1>11
  <2>2. BucketOK(grown[m], m - 1, k)
    BY <1>10, <2>1
  <2>3. grown[m] \in Buckets
    BY <1>9, <2>1
  <2> QED BY <2>1, <2>2, <2>3
<1>14. /\ changed \in Buckets /\ changed.idx = old.idx
       /\ \A j \in SubBuckets : changed.sub[j] =
            IF j \in li + 1 .. i /\ old.sub[j] = 0 THEN (k - old.idx) % ByteMod ELSE old.sub[j]
  <2>1. \A x \in Int : x % ByteMod \in Nat
    BY Sizes
  <2>2. old.idx \in Nat /\ old.sub \in [SubBuckets -> Nat]
    BY <1>13 DEF BucketOK
  <2>3. Sub(old.sub, old.idx) \in [SubBuckets -> Nat]
    <3>1. (k - old.idx) % ByteMod \in Nat
      <4>1. PICK x : x = k - old.idx /\ x \in Int
        BY <1>1, <2>2
      <4> QED BY <2>1, <4>1
    <3> HIDE DEF old
    <3> QED BY <2>2, <3>1 DEF SubBuckets
  <2>4. changed.idx = old.idx /\ changed.sub = Sub(old.sub, old.idx)
    <3> HIDE DEF old, Sub
    <3> QED BY <1>13 DEF Buckets
  <2>5. changed \in Buckets
    <3> HIDE DEF old, Sub
    <3> QED BY <1>13, <2>3 DEF Buckets
  <2> HIDE DEF changed, old
  <2> QED BY <2>4, <2>5 DEF SubBuckets
<1> HIDE DEF changed, old
<1>15. BucketOK(changed, lb, k + 1)
  <2>1. /\ old.idx \in Nat /\ old.sub \in [SubBuckets -> Nat] /\ changed.sub \in [SubBuckets -> Nat]
    BY <1>13, <1>14 DEF BucketOK, Buckets
  <2>2. ASSUME NEW j \in SubBuckets
        PROVE  /\ changed.idx + changed.sub[j] <= k + 1
               /\ Entry(changed.idx + changed.sub[j]) <= lb * PcBucketSize + j * SubSize
    <3>1. old.idx + old.sub[j] <= k /\ Entry(old.idx + old.sub[j]) <= lb * PcBucketSize + j * SubSize
      BY <1>13 DEF BucketOK
    <3>2. old.sub[j] \in Nat /\ old.idx <= k
      BY <1>1, <2>1, <3>1
    <3>3. CASE j \in li + 1 .. i /\ old.sub[j] = 0
      <4>1. changed.idx + changed.sub[j] = old.idx + ((k - old.idx) % ByteMod)
        BY <1>14, <3>3
      <4>2. k - old.idx \in Nat
        BY <1>1, <2>1, <3>2
      <4>3. \A x \in Nat : x % ByteMod \in Nat /\ x % ByteMod <= x
        <5> SUFFICES ASSUME NEW x \in Nat PROVE x % ByteMod \in Nat /\ x % ByteMod <= x
          OBVIOUS
        <5>1. x \div ByteMod \in Nat /\ x % ByteMod \in 0 .. ByteMod - 1 /\ x = (x \div ByteMod) * ByteMod + (x % ByteMod)
          BY Sizes, Division
        <5>2. (x \div ByteMod) * ByteMod \in Nat
          BY <5>1, Sizes
        <5> QED BY <5>1, <5>2, Sizes
      <4>4. PICK d : d = (k - old.idx) % ByteMod /\ d \in Nat /\ d <= k - old.idx
        BY <4>2, <4>3
      <4>5. changed.idx + changed.sub[j] = old.idx + d /\ old.idx + d \in 0 .. k
        BY <1>1, <2>1, <4>1, <4>4
      <4>6. Entry(old.idx + d) <= Entry(k) /\ Entry(old.idx + d) \in Nat
        BY <1>2, <4>5
      <4>7. li + 1 <= j /\ li \in Nat /\ j \in Nat
        BY <1>3, <3>3, Sizes DEF SubBuckets
      <4>8. (li + 1) * SubSize <= j * SubSize
        BY <4>7, Sizes
      <4>9. lb * PcBucketSize \in Nat /\ (li + 1) * SubSize \in Nat /\ j * SubSize \in Nat
        BY <1>3, <4>7, Sizes
      <4>10. Entry(old.idx + d) <= lb * PcBucketSize + j * SubSize
        BY <1>1, <1>3, <4>6, <4>8, <4>9
      <4> QED BY <1>1, <4>5, <4>10
    <3>4. CASE ~(j \in li + 1 .. i /\ old.sub[j] = 0)
      <4>1. changed.idx + changed.sub[j] = old.idx + old.sub[j]
        BY <1>14, <3>4
      <4> QED BY <1>1, <2>1, <3>1, <3>2, <4>1
    <3> QED BY <3>3, <3>4
  <2> QED BY <1>14, <2>1, <2>2 DEF BucketOK
<1>16. ASSUME NEW m \in 1 .. b + 1 PROVE BucketOK(result[m], m - 1, k + 1)
  <2>1. CASE m = lb + 1
    <3>1. result[m] = changed
      BY <1>12, <2>1
    <3>2. m - 1 = lb
      BY <1>3, <2>1
    <3> QED BY <1>15, <3>1, <3>2
  <2>2. CASE m # lb + 1
    <3>1. result[m] = grown[m] /\ BucketOK(grown[m], m - 1, k)
      BY <1>10, <1>12, <2>2
    <3>2. ASSUME NEW n \in Nat, n <= k PROVE n <= k + 1
      BY <1>1, <3>2
    <3> QED BY <1>1, <3>1, <3>2 DEF BucketOK
  <2> QED BY <2>1, <2>2
<1>17. result \in Seq(Buckets) /\ Len(result) = b + 1
  BY <1>9, <1>11, <1>12, <1>14
<1>18. k + 1 > 0 /\ k + 1 # 0
  BY <1>1
<1> QED BY <1>16, <1>17, <1>18 DEF TabOK, result, b

LEMMA FindFuncTabOK ==
  ASSUME Ordered
  PROVE  TabOK(FindFuncTab, Len(placed))
<1> DEFINE Solves(g) == g = [k \in 0 .. Len(placed) |->
                               IF k = 0 THEN <<>> ELSE AddBuckets(g[k - 1], k - 1)]
           Body(g, k) == IF k = 0 THEN <<>> ELSE AddBuckets(g[k - 1], k - 1)
<1>1. PICK N : N = Len(placed) /\ N \in Nat
  BY DEF Ordered
<1> DEFINE F == [x \in (1 .. N) \X Seq(Buckets) |-> AddBuckets(x[2], x[1] - 1)]
           Good == [k \in 0 .. N |-> {t \in Seq(Buckets) : TabOK(t, k)}]
<1>2. <<>> \in Good[0]
  <2>1. <<>> \in Seq(Buckets)
    OBVIOUS
  <2>2. TabOK(<<>>, 0)
    BY <2>1 DEF TabOK
  <2> QED BY <1>1, <2>1, <2>2
<1>3. ASSUME NEW k \in 1 .. N, NEW t \in Good[k - 1] PROVE AddBuckets(t, k - 1) \in Good[k]
  <2>1. k - 1 \in 0 .. N /\ k \in 0 .. N /\ k - 1 \in 0 .. Len(placed) - 1 /\ k - 1 + 1 = k
    BY <1>1
  <2>2. TabOK(t, k - 1)
    BY <2>1
  <2>3. PICK j : j = k - 1 /\ j + 1 = k
    BY <2>1
  <2>4. TabOK(AddBuckets(t, k - 1), k)
    BY <2>1, <2>2, <2>3, AddBucketsKeeps
  <2>5. AddBuckets(t, k - 1) \in Seq(Buckets)
    BY <2>4 DEF TabOK
  <2> QED BY <2>1, <2>4, <2>5
<1>4. \A k \in 0 .. N : Good[k] \subseteq Seq(Buckets)
  OBVIOUS
<1>5. \E g : Solves(g)
  <2>1. PICK g : Upto(N, <<>>, F, Good, g)
    <3>1. \A k \in 1 .. N : \A x \in Good[k - 1] : F[<<k, x>>] \in Good[k]
      <4> SUFFICES ASSUME NEW k \in 1 .. N, NEW x \in Good[k - 1] PROVE F[<<k, x>>] \in Good[k]
        OBVIOUS
      <4>1. k - 1 \in 0 .. N
        BY <1>1
      <4>2. x \in Seq(Buckets)
        BY <1>4, <4>1
      <4>3. F[<<k, x>>] = AddBuckets(x, k - 1)
        BY <4>2
      <4> QED BY <1>3, <4>3
    <3> HIDE DEF F, Good
    <3> QED BY <1>1, <1>2, <3>1, SegmentRecursion
  <2>2. ASSUME NEW k \in 0 .. N PROVE g[k] = Body(g, k)
    <3>1. CASE k = 0
      BY <2>1, <3>1 DEF Upto
    <3>2. CASE k # 0
      <4>1. k \in 1 .. N /\ k - 1 \in 0 .. N
        BY <1>1, <3>2
      <4>2. g[k - 1] \in Good[k - 1] /\ g[k] = F[<<k, g[k - 1]>>]
        BY <2>1, <4>1 DEF Upto
      <4>3. g[k - 1] \in Seq(Buckets)
        BY <1>4, <4>1, <4>2
      <4> QED BY <3>2, <4>1, <4>2, <4>3
    <3> QED BY <3>1, <3>2
  <2>3. g = [k \in 0 .. N |-> g[k]]
    BY <2>1 DEF Upto
  <2>4. g = [k \in 0 .. N |-> Body(g, k)]
    <3> HIDE DEF Body
    <3> QED BY <2>2, <2>3
  <2>5. Solves(g)
    BY <1>1, <2>4
  <2> QED BY <2>5
<1>6. PICK g : g = CHOOSE h : Solves(h)
  OBVIOUS
<1>7. Solves(g)
  <2> HIDE DEF Solves
  <2> QED BY <1>5, <1>6
<1>8. g[N] = FindFuncTab
  BY <1>1, <1>6 DEF FindFuncTab
<1>9. g[N] \in Good[N]
  <2>1. g[0] \in Good[0]
    BY <1>1, <1>2, <1>7
  <2>2. ASSUME NEW k \in 1 .. N, g[k - 1] \in Good[k - 1] PROVE g[k] \in Good[k]
    <3>1. k \in 0 .. Len(placed) /\ k # 0
      BY <1>1
    <3>2. g[k] = AddBuckets(g[k - 1], k - 1)
      BY <1>7, <3>1
    <3> HIDE DEF Good
    <3> QED BY <1>3, <2>2, <3>2
  <2>3. \A k \in 0 .. N : g[k] \in Good[k]
    <3> HIDE DEF Good
    <3> QED BY <1>1, <2>1, <2>2, SegmentInvariant
  <2> QED BY <1>1, <2>3
<1> QED BY <1>1, <1>8, <1>9

LEMMA EveryPcIsFound ==
  ASSUME Ordered, TabOK(buckets, Len(placed)),
         NEW k \in 0 .. Len(placed) - 1, NEW pc \in Entry(k) .. Entry(k + 1) - 1
  PROVE  FindFunc(pc) = k + 1
<1> DEFINE q == pc \div PcBucketSize
           j == (pc % PcBucketSize) \div SubSize
           bucket == buckets[q + 1]
           first == bucket.idx + bucket.sub[j]
           behind == {n \in first .. Len(placed) : pc < Ftab(n + 1)}
<1>1. /\ Len(placed) \in Nat /\ k \in Nat /\ k \in 0 .. Len(placed) /\ k + 1 \in 0 .. Len(placed)
      /\ Entry(k) \in Nat /\ Entry(k + 1) \in Nat /\ Entry(Len(placed)) \in Nat
      /\ Entry(k + 1) <= Entry(Len(placed))
  <2>1. Len(placed) \in Nat
    BY DEF Ordered
  <2>2. k \in Nat /\ k \in 0 .. Len(placed) /\ k + 1 \in 0 .. Len(placed) /\ Len(placed) \in 0 .. Len(placed)
    BY <2>1
  <2> QED BY <2>1, <2>2, EntriesAscend
<1>2. pc \in Nat /\ Entry(k) <= pc /\ pc < Entry(k + 1)
  BY <1>1
<1>3. /\ q \in Nat /\ j \in SubBuckets /\ q * PcBucketSize + j * SubSize <= pc
      /\ q * PcBucketSize \in Nat /\ q * PcBucketSize <= pc
  <2>1. q \in Nat /\ j \in SubBuckets /\ q * PcBucketSize + j * SubSize <= pc
    BY <1>2, SubBucketOf
  <2>2. j * SubSize \in Nat /\ q * PcBucketSize \in Nat
    BY <2>1, Sizes DEF SubBuckets
  <2> QED BY <1>2, <2>1, <2>2
<1>4. q + 1 \in 1 .. Len(buckets) /\ q + 1 - 1 = q
  <2> DEFINE b == Entry(Len(placed)) \div PcBucketSize
  <2>1. b \in Nat /\ Entry(Len(placed)) < (b + 1) * PcBucketSize
    BY <1>1, SubBucketOf
  <2>2. Len(buckets) = b + 1
    BY <1>1 DEF TabOK
  <2> HIDE DEF b, q
  <2>3. q < b + 1
    <3>1. SUFFICES ASSUME b + 1 <= q PROVE FALSE
      BY <1>3, <2>1
    <3>2. (b + 1) * PcBucketSize <= q * PcBucketSize
      BY <1>3, <2>1, <3>1, Sizes
    <3>3. (b + 1) * PcBucketSize \in Nat
      BY <2>1, Sizes
    <3> QED BY <1>1, <1>2, <1>3, <2>1, <3>2, <3>3
  <2> QED BY <1>3, <2>1, <2>2, <2>3
<1>5. BucketOK(bucket, q, Len(placed))
  <2>1. PICK m : m = q + 1 /\ m - 1 = q /\ m \in 1 .. Len(buckets)
    BY <1>3, <1>4
  <2>2. BucketOK(buckets[m], m - 1, Len(placed))
    BY <2>1 DEF TabOK
  <2> QED BY <2>1, <2>2
<1> HIDE DEF q, j, bucket
<1>6. first \in Nat /\ first <= Len(placed) /\ Entry(first) <= pc
  <2>1. first \in Nat /\ first <= Len(placed) /\ Entry(first) <= q * PcBucketSize + j * SubSize
    BY <1>3, <1>5 DEF BucketOK
  <2>2. Entry(first) \in Nat /\ j * SubSize \in Nat
    <3>1. first \in 0 .. Len(placed)
      BY <1>1, <2>1
    <3>2. j \in Nat
      BY <1>3, Sizes DEF SubBuckets
    <3> QED BY <3>1, <3>2, EntriesAscend, Sizes
  <2> QED BY <1>2, <1>3, <2>1, <2>2
<1> HIDE DEF first
<1>7. first <= k
  <2>1. SUFFICES ASSUME k + 1 <= first PROVE FALSE
    BY <1>1, <1>6
  <2>2. Entry(k + 1) <= Entry(first) /\ Entry(first) \in Nat
    <3>1. first \in 0 .. Len(placed) /\ k + 1 \in 0 .. first
      BY <1>1, <1>6, <2>1
    <3> QED BY <3>1, EntriesAscend
  <2> QED BY <1>1, <1>2, <1>6, <2>2
<1>8. \A n \in Nat : Ftab(n + 1) = Entry(n)
  <2> SUFFICES ASSUME NEW n \in Nat PROVE Ftab(n + 1) = Entry(n)
    OBVIOUS
  <2>1. n + 1 # 0 /\ n + 1 - 1 = n
    OBVIOUS
  <2>2. PICK m : m = n + 1 /\ m # 0 /\ m - 1 = n
    BY <2>1
  <2> QED BY <2>2 DEF Ftab
<1>9. k + 1 \in behind
  BY <1>1, <1>2, <1>6, <1>7, <1>8
<1>10. \A n \in behind : n \in Nat /\ k + 1 <= n
  <2> SUFFICES ASSUME NEW n \in behind PROVE n \in Nat /\ k + 1 <= n
    OBVIOUS
  <2>1. n \in Nat /\ n \in 0 .. Len(placed) /\ pc < Entry(n)
    BY <1>1, <1>6, <1>8
  <2>2. n > k
    <3>1. SUFFICES ASSUME n <= k PROVE FALSE
      BY <1>1, <2>1
    <3>2. Entry(n) <= Entry(k) /\ Entry(n) \in Nat
      BY <1>1, <2>1, <3>1, EntriesAscend
    <3> QED BY <1>1, <1>2, <2>1, <3>2
  <2> QED BY <1>1, <2>1, <2>2
<1> HIDE DEF behind
<1>11. Min(behind) = k + 1
  <2>1. \A n \in behind : (\A m \in behind : n <= m) => n = k + 1
    BY <1>1, <1>9, <1>10
  <2> QED BY <1>9, <1>10, <2>1 DEF Min
<1>12. behind # {}
  BY <1>9
<1>13. FindFunc(pc) = IF behind = {} THEN -1 ELSE Min(behind)
  BY DEF FindFunc, behind, first, bucket, q, j
<1> QED BY <1>11, <1>12, <1>13

(***************************************************************************)
(* The invariant: the functions lie one behind the other, each laid out as *)
(* LaidOutIs says, and the table finds them when it is built.              *)
(***************************************************************************)
IsSequence(s) == s \in Seq({s[n] : n \in DOMAIN s})

Behind(n) == placed[n].offset + placed[n].len

LayoutInv ==
  /\ program \in Programs /\ phase \in Phases /\ codeLen \in Nat
  /\ IsSequence(placed)
  /\ Len(placed) <= Len(program.functions)
  /\ phase = "add" => Len(placed) < Len(program.functions)
  /\ IF placed = <<>> THEN codeLen = 0 ELSE placed[1].offset = 0
  /\ \A n \in 1 .. Len(placed) :
       /\ IsLayout(program.functions[n], placed[n])
       /\ Behind(n) <= codeLen
       /\ \A m \in 1 .. n - 1 : Behind(m) <= placed[n].offset
  /\ phase \in {"deduplicate", "built"} => TabOK(buckets, Len(placed))

\* x is a relocation of a function that is placed.
IsPlace(x) ==
  /\ x = <<x[1], x[2]>>
  /\ x[1] \in 1 .. Len(placed) /\ x[2] \in 1 .. Len(placed[x[1]].relocs)

\* It starts from the instruction as it first was.
KeepsOriginal(r) == r.type = "PCREL" \/ IsAdrp(r)

\* What an instruction may have become.
Outcome(x, c) ==
  \/ c = IF x \in far THEN "stub" ELSE "near"
  \/ IsCmpl(Reloc(x)) /\ x \in filled
  \/ Misread(Reloc(x)) /\ x \in far

RelocInv ==
  /\ \A x \in todo \cup DOMAIN code : IsPlace(x)
  /\ phase = "add" => DOMAIN code = {} /\ stubs = {}
  /\ far \subseteq filled /\ filled \subseteq DOMAIN code /\ saved \subseteq DOMAIN code
  /\ \A x \in filled : MayFill(Reloc(x))
  /\ \A x \in DOMAIN code :
       /\ KeepsOriginal(Reloc(x)) => x \in saved
       /\ Outcome(x, code[x])
  /\ \A s \in stubs : s[1] \in far /\ s = Stub(s[1])

\* No stub is overwritten, but by one that is too long.
StubsThere == phase # "failed" => \A x \in far : Spared(x) => Stub(x) \in stubs

Inv == LayoutInv /\ RelocInv

LEMMA Appended ==
  ASSUME NEW s, IsSequence(s), NEW e
  PROVE  /\ Len(s) \in Nat /\ DOMAIN s = 1 .. Len(s)
         /\ IsSequence(Append(s, e)) /\ Len(Append(s, e)) = Len(s) + 1
         /\ Append(s, e)[Len(s) + 1] = e
         /\ \A n \in 1 .. Len(s) : Append(s, e)[n] = s[n]
<1> DEFINE S == {s[n] : n \in DOMAIN s} \cup {e}
<1>1. s \in Seq(S) /\ e \in S
  <2>1. PICK R : R = {s[n] : n \in DOMAIN s} /\ s \in Seq(R)
    BY DEF IsSequence
  <2>2. R \subseteq S
    BY <2>1
  <2> HIDE DEF S
  <2>3. s \in Seq(S)
    BY <2>1, <2>2
  <2> QED BY <2>3 DEF S
<1> HIDE DEF S
<1>2. Len(s) \in Nat /\ DOMAIN s = 1 .. Len(s)
  BY <1>1
<1>3. PICK t : t = Append(s, e)
  OBVIOUS
<1>4. /\ t \in Seq(S) /\ Len(t) = Len(s) + 1 /\ t[Len(s) + 1] = e
      /\ \A i \in 1 .. Len(s) : t[i] = s[i]
  <2>1. /\ Append(s, e) \in Seq(S) /\ Len(Append(s, e)) = Len(s) + 1 /\ Append(s, e)[Len(s) + 1] = e
        /\ \A i \in 1 .. Len(s) : Append(s, e)[i] = s[i]
    BY ONLY <1>1, AppendProperties
  <2> QED BY ONLY <1>3, <2>1, Zenon
<1>5. IsSequence(t)
  <2>1. PICK n : n = Len(t) /\ n \in Nat
    BY <1>4
  <2>2. t \in [1 .. n -> S]
    BY <1>4, <2>1
  <2>3. PICK T : T = {t[i] : i \in DOMAIN t}
    OBVIOUS
  <2>4. t \in [1 .. n -> T]
    BY <2>2, <2>3
  <2>5. t \in Seq(T)
    BY ONLY <2>1, <2>4, SeqDef
  <2> QED BY <2>3, <2>5 DEF IsSequence
<1> QED BY ONLY <1>2, <1>3, <1>4, <1>5, Zenon

\* What is laid out stays so while the program is the same.
LEMMA LayoutStays ==
  ASSUME program' = program
  PROVE  /\ \A r : HasEpilogue(r)' <=> HasEpilogue(r)
         /\ \A f, g : IsLayout(f, g)' <=> IsLayout(f, g)
<1>1. ASSUME NEW r PROVE HasEpilogue(r)' <=> HasEpilogue(r)
  BY DEF HasEpilogue
<1>2. ASSUME NEW pc PROVE Quantal(pc)' <=> Quantal(pc)
  BY DEF Quantal, PcQuantum
<1>3. ASSUME NEW table PROVE TableOK(table)' <=> TableOK(table)
  BY <1>2 DEF TableOK
<1>4. ASSUME NEW table, NEW original, NEW relocs, NEW i
      PROVE Covers(table, original, relocs, i)' <=> Covers(table, original, relocs, i)
  BY <1>3 DEF Covers
<1>5. ASSUME NEW g, NEW i PROVE RelocLaidOut(g, i)' <=> RelocLaidOut(g, i)
  BY <1>1 DEF RelocLaidOut
<1>6. ASSUME NEW f, NEW g PROVE IsLayout(f, g)' <=> IsLayout(f, g)
  BY <1>3, <1>4, <1>5 DEF IsLayout
<1> QED BY <1>1, <1>6

LEMMA LayoutInvInit == ASSUME Init PROVE LayoutInv
<1>1. placed = <<>> /\ Len(placed) = 0
  BY DEF Init
<1>2. IsSequence(placed)
  <2>1. placed \in Seq({placed[n] : n \in DOMAIN placed})
    BY <1>1
  <2> QED BY <2>1 DEF IsSequence
<1>3. program \in Programs /\ Len(program.functions) \in Nat \ {0}
  BY ProgramsAssumption DEF Init
<1>4. 1 .. Len(placed) = {}
  BY <1>1
<1> QED BY <1>1, <1>2, <1>3, <1>4 DEF Init, LayoutInv, Phases

LEMMA LayoutOrdered ==
  ASSUME LayoutInv
  PROVE  Ordered
<1>1. Len(placed) \in Nat /\ codeLen \in Nat /\ DOMAIN placed = 1 .. Len(placed)
  BY DEF LayoutInv, IsSequence
<1>2. ASSUME NEW n \in 1 .. Len(placed)
      PROVE  /\ placed[n].offset \in Nat /\ placed[n].len \in Nat /\ Behind(n) <= codeLen
             /\ \A m \in 1 .. n - 1 : Behind(m) <= placed[n].offset
  BY DEF LayoutInv, IsLayout
<1>3. Entry(0) = 0
  <2>1. CASE placed = <<>>
    <3>1. Len(placed) = 0 /\ codeLen = 0
      BY <2>1 DEF LayoutInv
    <3> QED BY <3>1 DEF Entry
  <2>2. CASE placed # <<>>
    <3>1. Len(placed) # 0
      BY <2>2, EmptySeq DEF LayoutInv, IsSequence
    <3>2. placed[1].offset = 0
      BY <2>2 DEF LayoutInv
    <3>3. PICK one : one = 0 + 1 /\ one = 1
      OBVIOUS
    <3> QED BY <1>1, <3>1, <3>2, <3>3 DEF Entry
  <2> QED BY <2>1, <2>2
<1>4. ASSUME NEW n \in 1 .. Len(placed)
      PROVE  /\ placed[n].offset \in Nat /\ placed[n].offset <= codeLen
             /\ \A m \in 1 .. n : placed[m].offset <= placed[n].offset
  <2>1. placed[n].offset <= codeLen
    BY <1>1, <1>2 DEF Behind
  <2>2. ASSUME NEW m \in 1 .. n PROVE placed[m].offset <= placed[n].offset
    <3>1. m \in 1 .. Len(placed)
      BY <1>1
    <3>2. CASE m = n
      BY <1>2, <3>2
    <3>3. CASE m # n
      <4>1. m \in 1 .. n - 1
        BY <3>3
      <4>2. Behind(m) <= placed[n].offset
        BY <1>2, <4>1
      <4>3. placed[m].offset \in Nat /\ placed[m].len \in Nat /\ placed[n].offset \in Nat
        BY <1>2, <3>1
      <4> QED BY <4>2, <4>3 DEF Behind
    <3> QED BY <3>2, <3>3
  <2> QED BY <1>2, <2>1, <2>2
<1> QED BY <1>1, <1>3, <1>4 DEF Ordered

LEMMA TabStays ==
  ASSUME UNCHANGED <<placed, codeLen>>
  PROVE  \A table, k : TabOK(table, k)' <=> TabOK(table, k)
<1>1. ASSUME NEW k PROVE Entry(k)' = Entry(k)
  BY DEF Entry
<1>2. ASSUME NEW bucket, NEW number, NEW k PROVE BucketOK(bucket, number, k)' <=> BucketOK(bucket, number, k)
  BY <1>1 DEF BucketOK
<1> QED BY <1>1, <1>2 DEF TabOK

\* All but AddSymbol leave the layout alone.
LEMMA LayoutInvStays ==
  ASSUME LayoutInv, UNCHANGED <<program, placed, codeLen>>,
         phase' \in Phases, phase' = "add" => phase = "add",
         phase' \in {"deduplicate", "built"} => TabOK(buckets', Len(placed))
  PROVE  LayoutInv'
<1>1. \A f, g : IsLayout(f, g)' <=> IsLayout(f, g)
  BY LayoutStays
<1>2. phase' \in {"deduplicate", "built"} => TabOK(buckets, Len(placed))'
  <2>1. PICK t, k : t = buckets' /\ k = Len(placed)
    OBVIOUS
  <2>2. TabOK(t, k)' <=> TabOK(t, k)
    BY TabStays
  <2> QED BY <2>1, <2>2 DEF TabOK, BucketOK, Entry
<1>3. /\ (program \in Programs)' /\ (codeLen \in Nat)' /\ IsSequence(placed)'
      /\ Len(placed') <= Len(program'.functions)
      /\ phase' = "add" => Len(placed') < Len(program'.functions)
      /\ IF placed' = <<>> THEN codeLen' = 0 ELSE placed'[1].offset = 0
  BY DEF LayoutInv, IsSequence
<1>4. ASSUME NEW n \in 1 .. Len(placed')
      PROVE  /\ IsLayout(program.functions[n], placed[n])'
             /\ Behind(n)' <= codeLen'
             /\ \A m \in 1 .. n - 1 : Behind(m)' <= placed'[n].offset
  <2>1. PICK f, g : f = program.functions[n] /\ g = placed[n] /\ n \in 1 .. Len(placed)
    OBVIOUS
  <2>2. IsLayout(f, g)'
    BY <1>1, <2>1 DEF LayoutInv
  <2>3. f = program.functions[n]' /\ g = placed[n]'
    BY <2>1
  <2> QED BY <2>1, <2>2, <2>3 DEF LayoutInv, Behind
<1> QED BY <1>2, <1>3, <1>4 DEF LayoutInv

\* A function is added behind the others.
LEMMA Adding ==
  ASSUME LayoutInv, AddSymbol
  PROVE  \E N, g :
           /\ N \in 1 .. Len(program.functions) /\ N = Len(placed) + 1 /\ Len(placed') = N /\ placed'[N] = g /\ IsSequence(placed)'
           /\ \A n \in 1 .. Len(placed) : placed'[n] = placed[n]
           /\ IsLayout(program.functions[N], g) /\ g.offset = codeLen
           /\ codeLen' = codeLen + g.len
           /\ todo' = todo \cup {<<N, i>> : i \in DOMAIN g.relocs}
           /\ phase' \in {"add", "build", "relocate"} /\ (phase' = "add" => N < Len(program.functions))
<1>1. PICK N, g : N = Len(placed) + 1 /\ g = LaidOut(program.functions[N])
  OBVIOUS
<1>2. /\ Len(program.functions) \in Nat /\ DOMAIN program.functions = 1 .. Len(program.functions)
      /\ Len(placed) < Len(program.functions) /\ codeLen \in Nat /\ program \in Programs
      /\ IsSequence(placed)
  BY ProgramsAssumption DEF LayoutInv, AddSymbol
<1>3. /\ placed' = Append(placed, g) /\ codeLen' = codeLen + g.len
      /\ todo' = todo \cup {<<N, i>> : i \in DOMAIN g.relocs}
      /\ phase' = IF N < Len(program.functions) THEN "add" ELSE IF todo' = {} THEN "build" ELSE "relocate"
  BY <1>1 DEF AddSymbol
<1>4. Len(placed) \in Nat /\ IsSequence(placed') /\ Len(placed') = N /\ placed'[N] = g
      /\ \A n \in 1 .. Len(placed) : placed'[n] = placed[n]
  <2>1. /\ Len(placed) \in Nat
        /\ IsSequence(Append(placed, g)) /\ Len(Append(placed, g)) = Len(placed) + 1
        /\ Append(placed, g)[Len(placed) + 1] = g
        /\ \A n \in 1 .. Len(placed) : Append(placed, g)[n] = placed[n]
    BY ONLY <1>2, Appended
  <2> QED BY ONLY <1>1, <1>3, <2>1, Zenon
<1>5. N \in 1 .. Len(program.functions)
  BY <1>1, <1>2, <1>4
<1>6. IsLayout(program.functions[N], g) /\ g.offset = codeLen
  BY <1>1, <1>2, <1>5, LaidOutIs
<1>7. phase' \in {"add", "build", "relocate"} /\ (phase' = "add" => N < Len(program.functions))
  BY <1>3
<1>8. IsSequence(placed)'
  BY <1>4 DEF IsSequence
<1> QED BY <1>1, <1>3, <1>4, <1>5, <1>6, <1>7, <1>8

LEMMA LayoutInvAdd ==
  ASSUME LayoutInv, AddSymbol
  PROVE  LayoutInv'
<1>1. PICK N, g :
        /\ N \in 1 .. Len(program.functions) /\ N = Len(placed) + 1 /\ Len(placed') = N /\ placed'[N] = g /\ IsSequence(placed)'
        /\ \A n \in 1 .. Len(placed) : placed'[n] = placed[n]
        /\ IsLayout(program.functions[N], g) /\ g.offset = codeLen
        /\ codeLen' = codeLen + g.len
        /\ phase' \in {"add", "build", "relocate"} /\ (phase' = "add" => N < Len(program.functions))
  BY Adding
<1>2. program' = program
  BY DEF AddSymbol
<1>3. \A x, y : IsLayout(x, y)' <=> IsLayout(x, y)
  BY <1>2, LayoutStays
<1>4. Len(placed) \in Nat /\ codeLen \in Nat /\ g.len \in Nat /\ g.offset \in Nat /\ codeLen' \in Nat
      /\ Len(program.functions) \in Nat
  <2>1. Len(placed) \in Nat
    BY DEF LayoutInv, IsSequence
  <2>2. codeLen \in Nat /\ Len(program.functions) \in Nat
    BY ProgramsAssumption DEF LayoutInv
  <2>3. g.len \in Nat /\ g.offset \in Nat
    BY <1>1 DEF IsLayout
  <2> QED BY <1>1, <2>1, <2>2, <2>3
<1>5. \A n \in 1 .. N : n # N => n \in 1 .. Len(placed)
  <2>1. N = Len(placed) + 1 /\ Len(placed) \in Nat
    BY <1>1, <1>4
  <2> QED BY <2>1
<1>6. ASSUME NEW n \in 1 .. Len(placed)
      PROVE  /\ Behind(n) \in Nat /\ placed[n].offset \in Nat /\ Behind(n) <= codeLen
             /\ \A m \in 1 .. n - 1 : Behind(m) <= placed[n].offset
             /\ IsLayout(program.functions[n], placed[n])
  BY DEF LayoutInv, IsLayout, Behind
<1>7. ASSUME NEW n \in 1 .. N
      PROVE  /\ IsLayout(program.functions[n], placed[n])'
             /\ Behind(n)' <= codeLen'
             /\ \A m \in 1 .. n - 1 : Behind(m)' <= placed'[n].offset
  <2>0. ASSUME NEW m \in 1 .. Len(placed) PROVE Behind(m)' = Behind(m)
    BY <1>1 DEF Behind
  <2>1. CASE n = N
    <3>1. IsLayout(program.functions[N], g)'
      <4>1. PICK f : f = program.functions[N]
        OBVIOUS
      <4>2. IsLayout(f, g)'
        BY <1>1, <1>3, <4>1
      <4> QED BY <1>2, <4>1, <4>2
    <3>2. Behind(n)' = codeLen'
      BY <1>1, <2>1 DEF Behind
    <3>3. ASSUME NEW m \in 1 .. n - 1 PROVE Behind(m)' <= placed'[n].offset
      <4>1. m \in 1 .. Len(placed)
        BY <1>1, <1>4, <2>1
      <4>2. Behind(m) <= codeLen /\ placed'[n].offset = codeLen
        BY <1>1, <1>6, <2>1, <4>1
      <4> QED BY <2>0, <4>1, <4>2
    <3>4. IsLayout(program.functions[n], placed[n])'
      BY <1>1, <2>1, <3>1
    <3> QED BY <1>4, <3>2, <3>3, <3>4
  <2>2. CASE n # N
    <3>1. n \in 1 .. Len(placed)
      BY <1>5, <2>2
    <3>2. IsLayout(program.functions[n], placed[n])'
      <4>1. PICK f, h : f = program.functions[n] /\ h = placed[n]
        OBVIOUS
      <4>2. IsLayout(f, h)'
        BY <1>3, <1>6, <3>1, <4>1
      <4>3. f = program.functions[n]' /\ h = placed[n]'
        BY <1>1, <1>2, <3>1, <4>1
      <4> QED BY <4>2, <4>3
    <3>3. Behind(n)' <= codeLen'
      <4>1. Behind(n) \in Nat /\ Behind(n) <= codeLen
        BY <1>6, <3>1
      <4>2. codeLen <= codeLen'
        BY <1>1, <1>4
      <4> QED BY <1>4, <2>0, <3>1, <4>1, <4>2
    <3>4. ASSUME NEW m \in 1 .. n - 1 PROVE Behind(m)' <= placed'[n].offset
      <4>1. m \in 1 .. Len(placed)
        BY <1>4, <3>1
      <4>2. Behind(m) <= placed[n].offset
        BY <1>6, <3>1
      <4> QED BY <1>1, <2>0, <3>1, <4>1, <4>2
    <3> QED BY <3>2, <3>3, <3>4
  <2> QED BY <2>1, <2>2
<1>8. IF placed' = <<>> THEN codeLen' = 0 ELSE placed'[1].offset = 0
  <2>1. placed' # <<>>
    BY <1>1, <1>4
  <2>2. CASE placed = <<>>
    <3>1. Len(placed) = 0 /\ codeLen = 0
      BY <2>2 DEF LayoutInv
    <3>2. N = 1
      BY <1>1, <3>1
    <3> QED BY <1>1, <2>1, <3>1, <3>2
  <2>3. CASE placed # <<>>
    <3>1. Len(placed) # 0
      BY <2>3, EmptySeq DEF LayoutInv, IsSequence
    <3>2. 1 \in 1 .. Len(placed) /\ placed[1].offset = 0
      BY <1>4, <2>3, <3>1 DEF LayoutInv
    <3> QED BY <1>1, <2>1, <3>2
  <2> QED BY <2>2, <2>3
<1>9. phase' \in Phases /\ phase' \notin {"deduplicate", "built"}
  BY <1>1 DEF Phases
<1>10. Len(placed') <= Len(program'.functions) /\ (phase' = "add" => Len(placed') < Len(program'.functions))
  BY <1>1, <1>2, <1>4
<1>11. program' \in Programs
  BY <1>2 DEF LayoutInv
<1>12. \A n \in 1 .. Len(placed') :
         /\ IsLayout(program.functions[n], placed[n])'
         /\ Behind(n)' <= codeLen'
         /\ \A m \in 1 .. n - 1 : Behind(m)' <= placed'[n].offset
  BY <1>1, <1>7
<1> QED BY <1>1, <1>4, <1>8, <1>9, <1>10, <1>11, <1>12 DEF LayoutInv

LEMMA LayoutInvNext ==
  ASSUME LayoutInv, [Next]_vars
  PROVE  LayoutInv'
<1>1. CASE AddSymbol
  BY <1>1, LayoutInvAdd
<1>2. ASSUME NEW x \in todo, RelocateNear(x) \/ RelocateFar(x) PROVE LayoutInv'
  <2>1. UNCHANGED <<program, placed, codeLen, buckets>>
    BY <1>2 DEF RelocateNear, RelocateFar, Applied
  <2>2. /\ phase \in {"relocate", "deduplicate"}
        /\ phase' = IF todo' # {} THEN phase ELSE IF phase = "relocate" THEN "build" ELSE "built"
    BY <1>2 DEF RelocateNear, RelocateFar, Relocating, Applied
  <2>3. /\ phase' \in Phases /\ phase' # "add"
        /\ phase' \in {"deduplicate", "built"} => phase = "deduplicate"
    BY <2>2 DEF Phases
  <2> QED BY <2>1, <2>3, LayoutInvStays DEF LayoutInv
<1>3. ASSUME NEW x \in todo, FailFar(x) PROVE LayoutInv'
  <2>1. UNCHANGED <<program, placed, codeLen>> /\ phase' = "failed"
    BY <1>3 DEF FailFar
  <2> QED BY <2>1, LayoutInvStays DEF Phases
<1>4. CASE BuildModule
  <2>1. /\ UNCHANGED <<program, placed, codeLen>> /\ buckets' = FindFuncTab
        /\ phase' \in {"built", "deduplicate"}
    BY <1>4 DEF BuildModule
  <2>2. TabOK(buckets', Len(placed))
    BY <2>1, FindFuncTabOK, LayoutOrdered
  <2> QED BY <2>1, <2>2, LayoutInvStays DEF Phases
<1>5. CASE UNCHANGED vars
  <2>1. UNCHANGED <<program, placed, codeLen, buckets, phase>>
    BY <1>5 DEF vars
  <2> QED BY <2>1, LayoutInvStays DEF LayoutInv
<1> QED BY <1>1, <1>2, <1>3, <1>4, <1>5 DEF Next, Finished

LEMMA RelocInvInit == ASSUME Init PROVE RelocInv
BY DEF Init, RelocInv

\* The relocations of the functions that were placed stay where they are.
LEMMA PlacesKept ==
  ASSUME LayoutInv, AddSymbol, NEW x, IsPlace(x)
  PROVE  IsPlace(x)'
<1>1. PICK N, g :
        /\ N = Len(placed) + 1 /\ Len(placed') = N
        /\ \A n \in 1 .. Len(placed) : placed'[n] = placed[n]
  BY Adding
<1>2. Len(placed) \in Nat
  BY DEF LayoutInv, IsSequence
<1>3. x[1] \in 1 .. Len(placed) /\ placed'[x[1]] = placed[x[1]]
  BY <1>1 DEF IsPlace
<1>4. x[1] \in 1 .. Len(placed')
  BY <1>1, <1>2, <1>3
<1> QED BY <1>3, <1>4 DEF IsPlace

LEMMA RelocInvAdd ==
  ASSUME LayoutInv, RelocInv, AddSymbol
  PROVE  RelocInv'
<1>1. PICK N, g :
        /\ N = Len(placed) + 1 /\ Len(placed') = N /\ placed'[N] = g
        /\ N \in 1 .. Len(program.functions) /\ IsLayout(program.functions[N], g)
        /\ todo' = todo \cup {<<N, i>> : i \in DOMAIN g.relocs}
  BY Adding
<1>2. /\ DOMAIN code = {} /\ stubs = {} /\ far = {} /\ filled = {} /\ saved = {}
      /\ UNCHANGED <<code, stubs, far, filled, saved>>
  BY DEF AddSymbol, RelocInv, instructions
<1>3. ASSUME NEW x \in todo' PROVE IsPlace(x)'
  <2>1. CASE x \in todo
    BY <2>1, PlacesKept DEF RelocInv
  <2>2. CASE x \notin todo
    <3>1. PICK i \in DOMAIN g.relocs : x = <<N, i>>
      BY <1>1, <2>2
    <3>2. DOMAIN g.relocs = 1 .. Len(g.relocs)
      BY <1>1 DEF IsLayout
    <3>3. N \in 1 .. Len(placed')
      BY <1>1
    <3> QED BY <1>1, <3>1, <3>2, <3>3 DEF IsPlace
  <2> QED BY <2>1, <2>2
<1>4. /\ DOMAIN code' = {} /\ stubs' = {} /\ far' = {} /\ filled' = {} /\ saved' = {}
      /\ \A x \in todo' : IsPlace(x)'
  BY <1>2, <1>3
<1> QED BY ONLY <1>4 DEF RelocInv

\* The functions being placed, a relocation is where it was and so is its stub.
LEMMA PlacesStay ==
  ASSUME UNCHANGED placed
  PROVE  \A x : /\ IsPlace(x)' <=> IsPlace(x)
                /\ Reloc(x)' = Reloc(x) /\ Stub(x)' = Stub(x)
                /\ MayFill(Reloc(x))' <=> MayFill(Reloc(x))
                /\ KeepsOriginal(Reloc(x))' <=> KeepsOriginal(Reloc(x))
                /\ IsCmpl(Reloc(x))' <=> IsCmpl(Reloc(x))
                /\ Misread(Reloc(x))' <=> Misread(Reloc(x))
<1> SUFFICES ASSUME NEW x
             PROVE  /\ IsPlace(x)' <=> IsPlace(x)
                    /\ Reloc(x)' = Reloc(x) /\ Stub(x)' = Stub(x)
                    /\ MayFill(Reloc(x))' <=> MayFill(Reloc(x))
                    /\ KeepsOriginal(Reloc(x))' <=> KeepsOriginal(Reloc(x))
                    /\ IsCmpl(Reloc(x))' <=> IsCmpl(Reloc(x))
                    /\ Misread(Reloc(x))' <=> Misread(Reloc(x))
  OBVIOUS
<1>1. IsPlace(x)' <=> IsPlace(x)
  BY DEF IsPlace
<1>2. Reloc(x)' = Reloc(x)
  BY DEF Reloc
<1>3. Epilogue(x)' = Epilogue(x)
  BY <1>2 DEF Epilogue
<1>4. Stub(x)' = Stub(x)
  BY <1>2, <1>3 DEF Stub
<1>5. MayFill(Reloc(x))' <=> MayFill(Reloc(x))
  BY <1>2 DEF MayFill, CanFill, Unasked
<1>6. KeepsOriginal(Reloc(x))' <=> KeepsOriginal(Reloc(x))
  BY <1>2 DEF KeepsOriginal, IsAdrp
<1>7. (IsCmpl(Reloc(x))' <=> IsCmpl(Reloc(x))) /\ (Misread(Reloc(x))' <=> Misread(Reloc(x)))
  BY <1>2 DEF IsCmpl, Misread
<1> QED BY <1>1, <1>2, <1>4, <1>5, <1>6, <1>7

LEMMA RelocInvSame ==
  ASSUME RelocInv, UNCHANGED <<placed, far, filled, code, saved>>, stubs' \subseteq stubs,
         \A x \in todo' : IsPlace(x), phase' = "add" => phase = "add"
  PROVE  RelocInv'
<1>1. \A x : /\ IsPlace(x)' <=> IsPlace(x)
             /\ Stub(x)' = Stub(x)
             /\ MayFill(Reloc(x))' <=> MayFill(Reloc(x))
             /\ KeepsOriginal(Reloc(x))' <=> KeepsOriginal(Reloc(x))
             /\ IsCmpl(Reloc(x))' <=> IsCmpl(Reloc(x))
             /\ Misread(Reloc(x))' <=> Misread(Reloc(x))
  BY PlacesStay
<1>2. \A x \in todo' \cup DOMAIN code' : IsPlace(x)'
  BY <1>1 DEF RelocInv
<1>3. phase' = "add" => DOMAIN code' = {} /\ stubs' = {}
  BY DEF RelocInv
<1>4. /\ far' \subseteq filled' /\ filled' \subseteq DOMAIN code' /\ saved' \subseteq DOMAIN code'
      /\ \A x \in filled' : MayFill(Reloc(x))'
  BY <1>1 DEF RelocInv
<1>5. ASSUME NEW x \in DOMAIN code'
      PROVE  (KeepsOriginal(Reloc(x))' => x \in saved') /\ Outcome(x, code[x])'
  <2>1. x \in DOMAIN code /\ (KeepsOriginal(Reloc(x)) => x \in saved) /\ Outcome(x, code[x])
    BY DEF RelocInv
  <2>2. Outcome(x, code[x])'
    BY <1>1, <2>1 DEF Outcome
  <2> QED BY <1>1, <2>1, <2>2
<1>6. \A y \in stubs' : y[1] \in far' /\ y = Stub(y[1])'
  BY <1>1 DEF RelocInv
<1> QED BY ONLY <1>2, <1>3, <1>4, <1>5, <1>6 DEF RelocInv

\* An instruction relocated once more starts from what it was, or is a CMPL whose stub
\* was written.
LEMMA StartsRight ==
  ASSUME RelocInv, NEW x, KeepsOriginal(Reloc(x))
  PROVE  Start(x) = "original" \/ (Start(x) = "cut" /\ IsCmpl(Reloc(x)) /\ x \in filled)
<1>1. CASE x \notin DOMAIN code
  BY <1>1 DEF Start
<1>2. CASE x \in DOMAIN code
  <2>1. x \in saved /\ Outcome(x, code[x]) /\ far \subseteq filled
    BY <1>2 DEF RelocInv
  <2>2. code[x] # "near" => x \in filled
    BY <2>1 DEF Outcome
  <2> QED BY <1>2, <2>1, <2>2 DEF Start
<1> QED BY <1>1, <1>2

LEMMA BecomesRight ==
  ASSUME RelocInv, NEW x, NEW outcome
  PROVE  \/ Became(x, outcome) = outcome
         \/ IsCmpl(Reloc(x)) /\ x \in filled
         \/ outcome = "stub" /\ Misread(Reloc(x))
<1>1. CASE KeepsOriginal(Reloc(x))
  <2>1. Start(x) = "original" \/ (Start(x) = "cut" /\ IsCmpl(Reloc(x)) /\ x \in filled)
    BY <1>1, StartsRight
  <2> QED BY <2>1 DEF Became
<1>2. CASE ~KeepsOriginal(Reloc(x))
  <2>1. ~IsAdrp(Reloc(x)) /\ Reloc(x).type # "PCREL" /\ ~IsCmpl(Reloc(x))
    BY <1>2 DEF KeepsOriginal, IsCmpl
  <2>2. Start(x) # "cut"
    <3>1. x \in DOMAIN code => code[x] # "cut"
      BY <2>1 DEF RelocInv, Outcome, Misread
    <3> QED BY <2>1, <3>1 DEF Start
  <2> QED BY <2>1, <2>2 DEF Became
<1> QED BY <1>1, <1>2

LEMMA RelocInvApplied ==
  ASSUME RelocInv, NEW x \in todo, NEW outcome, Applied(x, outcome), Relocating(x),
         \/ outcome = "near" /\ far' = far \ {x} /\ filled' = filled
         \/ outcome = "stub" /\ far' = far \cup {x} /\ filled' = filled \cup {x} /\ MayFill(Reloc(x)),
         \A s \in stubs' : s[1] \in far' /\ s = Stub(s[1])
  PROVE  RelocInv'
<1>0. UNCHANGED placed
  BY DEF Applied
<1>1. \A y : /\ IsPlace(y)' <=> IsPlace(y)
             /\ Stub(y)' = Stub(y)
             /\ MayFill(Reloc(y))' <=> MayFill(Reloc(y))
             /\ KeepsOriginal(Reloc(y))' <=> KeepsOriginal(Reloc(y))
             /\ IsCmpl(Reloc(y))' <=> IsCmpl(Reloc(y))
             /\ Misread(Reloc(y))' <=> Misread(Reloc(y))
  BY <1>0, PlacesStay
<1>2. /\ code' = [y \in DOMAIN code \cup {x} |-> IF y = x THEN Became(x, outcome) ELSE code[y]]
      /\ todo' = todo \ {x}
  BY DEF Applied
<1>3. saved' = IF KeepsOriginal(Reloc(x)) THEN saved \cup {x} ELSE saved
  BY DEF Applied, KeepsOriginal
<1>4. DOMAIN code' = DOMAIN code \cup {x} /\ filled \subseteq filled' /\ filled' \subseteq filled \cup {x}
  BY <1>2
<1>5. ASSUME NEW y \in todo' \cup DOMAIN code' PROVE IsPlace(y)'
  <2>1. y \in todo \cup DOMAIN code
    BY <1>2, <1>4
  <2> QED BY <1>1, <2>1 DEF RelocInv
<1>6. phase' # "add"
  BY DEF Applied, Relocating
<1>7. far' \subseteq filled' /\ filled' \subseteq DOMAIN code' /\ saved' \subseteq DOMAIN code'
  BY <1>3, <1>4 DEF RelocInv
<1>8. ASSUME NEW y \in filled' PROVE MayFill(Reloc(y))'
  BY <1>1 DEF RelocInv
<1>9. ASSUME NEW y \in DOMAIN code'
      PROVE  (KeepsOriginal(Reloc(y))' => y \in saved') /\ Outcome(y, code[y])'
  <2>1. CASE y = x
    <3>1. code'[x] = Became(x, outcome)
      BY <1>2
    <3>2. outcome = IF x \in far' THEN "stub" ELSE "near"
      OBVIOUS
    <3>3. \/ Became(x, outcome) = outcome
          \/ IsCmpl(Reloc(x)) /\ x \in filled'
          \/ x \in far' /\ Misread(Reloc(x))
      BY <1>4, BecomesRight
    <3>4. Outcome(x, code[x])'
      BY <1>1, <3>1, <3>2, <3>3 DEF Outcome
    <3> QED BY <1>1, <1>3, <2>1, <3>4
  <2>2. CASE y # x
    <3>1. y \in DOMAIN code /\ code'[y] = code[y]
      BY <1>2, <2>2
    <3>2. (y \in far' <=> y \in far) /\ (y \in filled => y \in filled')
      BY <1>4, <2>2
    <3>3. (KeepsOriginal(Reloc(y)) => y \in saved) /\ Outcome(y, code[y])
      BY <3>1 DEF RelocInv
    <3>4. Outcome(y, code[y])'
      BY <1>1, <3>1, <3>2, <3>3 DEF Outcome
    <3> QED BY <1>1, <1>3, <3>3, <3>4
  <2> QED BY <2>1, <2>2
<1>10. \A s \in stubs' : s[1] \in far' /\ s = Stub(s[1])'
  BY <1>1
<1> QED BY ONLY <1>5, <1>6, <1>7, <1>8, <1>9, <1>10 DEF RelocInv

\* What the layout says of a relocation.
LEMMA PlaceLaidOut ==
  ASSUME LayoutInv, NEW x, IsPlace(x)
  PROVE  LET g == placed[x[1]] IN
         /\ RelocLaidOut(g, x[2]) /\ Reloc(x) = g.relocs[x[2]]
         /\ g.size \in Nat \ {0} /\ g.offset \in Nat /\ g.len \in Nat
         /\ program.arch \in {"amd64", "arm64"}
<1>1. x[1] \in 1 .. Len(placed) /\ x[2] \in 1 .. Len(placed[x[1]].relocs)
  BY DEF IsPlace
<1>2. IsLayout(program.functions[x[1]], placed[x[1]]) /\ program \in Programs
  BY <1>1 DEF LayoutInv
<1> QED BY <1>1, <1>2, ProgramsAssumption DEF IsLayout, Reloc

LEMMA StubPositive ==
  ASSUME LayoutInv, NEW x, IsPlace(x), MayFill(Reloc(x)), Reloc(x).epilogueSize > 0
  PROVE  /\ Epilogue(x) \in Nat /\ StubSize(Reloc(x)) \in Nat /\ 1 <= StubSize(Reloc(x))
         /\ Reloc(x).epilogueSize \in Nat
<1>1. PICK g, i : g = placed[x[1]] /\ i = x[2]
  OBVIOUS
<1>2. /\ RelocLaidOut(g, i) /\ Reloc(x) = g.relocs[i] /\ g.size \in Nat /\ g.offset \in Nat
      /\ program.arch \in {"amd64", "arm64"}
  BY <1>1, PlaceLaidOut
<1>3. StubSize(Reloc(x)) \in Nat /\ 1 <= StubSize(Reloc(x))
  BY <1>2, StubFits
<1>4. Reloc(x).epilogueOffset \in Nat /\ Reloc(x).epilogueSize \in Nat
  BY <1>2 DEF RelocLaidOut
<1> QED BY <1>1, <1>2, <1>3, <1>4 DEF Epilogue

LEMMA RelocInvNear ==
  ASSUME LayoutInv, RelocInv, NEW x \in todo, RelocateNear(x)
  PROVE  RelocInv'
<1>1. /\ Applied(x, "near") /\ Relocating(x) /\ far' = far \ {x} /\ filled' = filled
      /\ stubs' = Cleared(x) /\ ~Unasked(Reloc(x))
  BY DEF RelocateNear, Unasked
<1>2. ASSUME NEW s \in stubs' PROVE s[1] \in far' /\ s = Stub(s[1])
  <2>1. s \in stubs /\ s \notin Overwritten(Epilogue(x), Epilogue(x) + Reloc(x).epilogueSize - 1)
    BY <1>1 DEF Cleared
  <2>2. s[1] \in far /\ s = Stub(s[1])
    BY <2>1 DEF RelocInv
  <2>3. SUFFICES ASSUME s[1] = x PROVE FALSE
    BY <1>1, <2>2
  <2>4. MayFill(Reloc(x)) /\ IsPlace(x)
    BY <2>2, <2>3 DEF RelocInv
  <2>5. Reloc(x).epilogueSize > 0
    BY <1>1, <2>4 DEF MayFill
  <2>6. /\ Epilogue(x) \in Nat /\ StubSize(Reloc(x)) \in Nat /\ 1 <= StubSize(Reloc(x))
        /\ Reloc(x).epilogueSize \in Nat
    BY <2>4, <2>5, StubPositive
  <2>7. s[2] = Epilogue(x) /\ s[3] = Epilogue(x) + StubSize(Reloc(x)) - 1
    <3>1. s = <<x, Epilogue(x), Epilogue(x) + StubSize(Reloc(x)) - 1>>
      BY <2>2, <2>3 DEF Stub
    <3> QED BY <3>1
  <2> QED BY <2>1, <2>5, <2>6, <2>7 DEF Overwritten
<1> QED BY <1>1, <1>2, RelocInvApplied

LEMMA RelocInvFar ==
  ASSUME LayoutInv, RelocInv, NEW x \in todo, RelocateFar(x)
  PROVE  RelocInv'
<1>1. /\ Applied(x, "stub") /\ Relocating(x) /\ far' = far \cup {x} /\ filled' = filled \cup {x}
      /\ stubs' \subseteq stubs \cup {Stub(x)}
  BY DEF RelocateFar, Cleared
<1>2. MayFill(Reloc(x))
  BY DEF RelocateFar, MayFill
<1>3. Stub(x)[1] = x
  BY DEF Stub
<1>4. \A s \in stubs' : s[1] \in far' /\ s = Stub(s[1])
  BY <1>1, <1>3 DEF RelocInv
<1> QED BY <1>1, <1>2, <1>4, RelocInvApplied

LEMMA InvNext ==
  ASSUME Inv, [Next]_vars
  PROVE  Inv'
<1> USE DEF Inv
<1>0. LayoutInv'
  BY LayoutInvNext
<1>1. CASE AddSymbol
  BY <1>0, <1>1, RelocInvAdd
<1>2. ASSUME NEW x \in todo, RelocateNear(x) PROVE RelocInv'
  BY <1>2, RelocInvNear
<1>3. ASSUME NEW x \in todo, RelocateFar(x) PROVE RelocInv'
  BY <1>3, RelocInvFar
<1>4. ASSUME NEW x \in todo, FailFar(x) PROVE RelocInv'
  <2>1. UNCHANGED <<placed, far, filled, code, saved, todo>> /\ phase' # "add" /\ stubs' \subseteq stubs
    BY <1>4 DEF FailFar, Cleared, instructions
  <2> QED BY <2>1, RelocInvSame DEF RelocInv
<1>5. CASE BuildModule
  <2>1. UNCHANGED <<placed, far, filled, stubs, code, saved>> /\ phase' # "add" /\ todo' \subseteq DOMAIN code
    BY <1>5 DEF BuildModule, instructions, OfTypes
  <2> QED BY <1>0, <2>1, RelocInvSame DEF RelocInv
<1>6. CASE UNCHANGED vars
  <2>1. UNCHANGED <<placed, far, filled, stubs, code, saved, todo, phase>>
    BY <1>6 DEF vars
  <2> QED BY <1>0, <2>1, RelocInvSame DEF RelocInv
<1> QED BY <1>0, <1>1, <1>2, <1>3, <1>4, <1>5, <1>6 DEF Next, Finished

(***************************************************************************)
(* No stub is overwritten, because each lies in its own epilogue.          *)
(***************************************************************************)
EpilogueEnd(x) == Epilogue(x) + Reloc(x).epilogueSize

LEMMA EpiloguesAre ==
  ASSUME LayoutInv, NEW x, IsPlace(x)
  PROVE  LET g == placed[x[1]] IN
         /\ Epilogue(x) \in Nat /\ Reloc(x).epilogueSize \in Nat
         /\ HasEpilogue(Reloc(x)) =>
              g.offset + g.size <= Epilogue(x) /\ EpilogueEnd(x) <= g.offset + g.len
         /\ ~HasEpilogue(Reloc(x)) => Reloc(x).epilogueSize = 0
<1>1. PICK g, i : g = placed[x[1]] /\ i = x[2]
  OBVIOUS
<1>2. /\ RelocLaidOut(g, i) /\ Reloc(x) = g.relocs[i]
      /\ g.size \in Nat /\ g.offset \in Nat /\ g.len \in Nat
  BY <1>1, PlaceLaidOut
<1>3. PICK r : r = Reloc(x)
  OBVIOUS
<1>4. /\ r.epilogueOffset \in Nat /\ r.epilogueSize \in Nat
      /\ HasEpilogue(r) => g.size <= r.epilogueOffset /\ r.epilogueOffset + r.epilogueSize <= g.len
      /\ ~HasEpilogue(r) => r.epilogueSize = 0
  BY <1>2, <1>3 DEF RelocLaidOut
<1>5. Epilogue(x) = g.offset + r.epilogueOffset
  BY <1>1, <1>3 DEF Epilogue
<1> QED BY <1>1, <1>2, <1>3, <1>4, <1>5 DEF EpilogueEnd

LEMMA EpiloguesDisjoint ==
  ASSUME LayoutInv, NEW x, IsPlace(x), NEW y, IsPlace(y), x # y,
         HasEpilogue(Reloc(x)), HasEpilogue(Reloc(y))
  PROVE  EpilogueEnd(x) <= Epilogue(y) \/ EpilogueEnd(y) <= Epilogue(x)
<1>1. ASSUME NEW a, IsPlace(a), NEW b, IsPlace(b), HasEpilogue(Reloc(a)), HasEpilogue(Reloc(b)),
             a[1] < b[1]
      PROVE  EpilogueEnd(a) <= Epilogue(b)
  <2>1. /\ a[1] \in 1 .. Len(placed) /\ b[1] \in 1 .. Len(placed) /\ a[1] \in 1 .. b[1] - 1
        /\ Len(placed) \in Nat
    <3>1. Len(placed) \in Nat
      BY DEF LayoutInv, IsSequence
    <3>2. a[1] \in 1 .. Len(placed) /\ b[1] \in 1 .. Len(placed)
      BY <1>1 DEF IsPlace
    <3> QED BY <1>1, <3>1, <3>2
  <2>2. Behind(a[1]) <= placed[b[1]].offset
    BY <2>1 DEF LayoutInv
  <2>3. EpilogueEnd(a) <= Behind(a[1]) /\ placed[b[1]].offset + placed[b[1]].size <= Epilogue(b)
    BY <1>1, EpiloguesAre DEF Behind
  <2>4. /\ placed[b[1]].offset \in Nat /\ placed[b[1]].size \in Nat /\ Epilogue(b) \in Nat
        /\ Behind(a[1]) \in Nat /\ EpilogueEnd(a) \in Nat
    <3>1. /\ placed[a[1]].offset \in Nat /\ placed[a[1]].len \in Nat
          /\ placed[b[1]].offset \in Nat /\ placed[b[1]].size \in Nat
      BY <1>1, PlaceLaidOut
    <3>2. Epilogue(a) \in Nat /\ Reloc(a).epilogueSize \in Nat /\ Epilogue(b) \in Nat
      BY <1>1, EpiloguesAre
    <3> QED BY <3>1, <3>2 DEF Behind, EpilogueEnd
  <2> QED BY <2>2, <2>3, <2>4
<1>2. ASSUME NEW a, IsPlace(a), NEW b, IsPlace(b), HasEpilogue(Reloc(a)), HasEpilogue(Reloc(b)),
             a[1] = b[1], a[2] < b[2]
      PROVE  EpilogueEnd(a) <= Epilogue(b)
  <2>1. PICK g : g = placed[a[1]] /\ g = placed[b[1]]
    BY <1>2
  <2>2. /\ RelocLaidOut(g, b[2]) /\ RelocLaidOut(g, a[2])
        /\ Reloc(a) = g.relocs[a[2]] /\ Reloc(b) = g.relocs[b[2]] /\ g.offset \in Nat
    BY <1>2, <2>1, PlaceLaidOut
  <2>3. a[2] \in 1 .. b[2] - 1
    BY <1>2 DEF IsPlace
  <2>4. /\ Reloc(a).epilogueOffset + Reloc(a).epilogueSize <= Reloc(b).epilogueOffset
        /\ Reloc(a).epilogueOffset \in Nat /\ Reloc(a).epilogueSize \in Nat
        /\ Reloc(b).epilogueOffset \in Nat
    BY <1>2, <2>2, <2>3 DEF RelocLaidOut
  <2>5. Epilogue(a) = g.offset + Reloc(a).epilogueOffset /\ Epilogue(b) = g.offset + Reloc(b).epilogueOffset
    BY <2>1 DEF Epilogue
  <2> QED BY <2>2, <2>4, <2>5 DEF EpilogueEnd
<1>3. x[1] \in Nat /\ x[2] \in Nat /\ y[1] \in Nat /\ y[2] \in Nat /\ (x[1] # y[1] \/ x[2] # y[2])
  BY DEF IsPlace
<1>4. CASE x[1] < y[1]
  BY <1>1, <1>4
<1>5. CASE y[1] < x[1]
  BY <1>1, <1>5
<1>6. CASE x[1] = y[1] /\ x[2] < y[2]
  BY <1>2, <1>6
<1>7. CASE x[1] = y[1] /\ y[2] < x[2]
  BY <1>2, <1>7
<1> QED BY <1>3, <1>4, <1>5, <1>6, <1>7

LEMMA StubInside ==
  ASSUME LayoutInv, NEW x, IsPlace(x), MayFill(Reloc(x)), ~TooShort(Reloc(x))
  PROVE  /\ HasEpilogue(Reloc(x))
         /\ Stub(x)[2] = Epilogue(x) /\ Stub(x)[3] \in Nat
         /\ Epilogue(x) <= Stub(x)[3] /\ Stub(x)[3] < EpilogueEnd(x)
<1>1. PICK g, i : g = placed[x[1]] /\ i = x[2]
  OBVIOUS
<1>2. PICK r : r = Reloc(x)
  OBVIOUS
<1>3. /\ RelocLaidOut(g, i) /\ r = g.relocs[i] /\ g.size \in Nat
      /\ program.arch \in {"amd64", "arm64"}
  BY <1>1, <1>2, PlaceLaidOut
<1>5. HasEpilogue(r) /\ StubSize(r) <= r.epilogueSize /\ r.epilogueSize > 0
  BY <1>2, <1>3, StubFits
<1>6. StubSize(r) \in Nat /\ 1 <= StubSize(r)
  BY <1>2, <1>3, <1>5, StubFits
<1>7. Epilogue(x) \in Nat /\ r.epilogueSize \in Nat
  BY <1>2, EpiloguesAre
<1>8. Stub(x)[2] = Epilogue(x) /\ Stub(x)[3] = Epilogue(x) + StubSize(r) - 1
  BY <1>2 DEF Stub
<1> QED BY <1>2, <1>5, <1>6, <1>7, <1>8 DEF EpilogueEnd

\* Whatever is written to the epilogue of x leaves the stub of y.
LEMMA StubSurvives ==
  ASSUME LayoutInv, NEW x, IsPlace(x), NEW y, IsPlace(y), x # y,
         MayFill(Reloc(y)), ~TooShort(Reloc(y)), NEW last \in Int, last < EpilogueEnd(x)
  PROVE  Stub(y) \notin Overwritten(Epilogue(x), last)
<1>1. /\ HasEpilogue(Reloc(y)) /\ Stub(y)[2] = Epilogue(y) /\ Stub(y)[3] \in Nat
      /\ Stub(y)[3] < EpilogueEnd(y)
  BY StubInside
<1>2. /\ Epilogue(x) \in Nat /\ Reloc(x).epilogueSize \in Nat
      /\ Epilogue(y) \in Nat /\ Reloc(y).epilogueSize \in Nat
      /\ ~HasEpilogue(Reloc(x)) => Reloc(x).epilogueSize = 0
  BY EpiloguesAre
<1>3. EpilogueEnd(x) \in Nat /\ EpilogueEnd(y) \in Nat
  BY <1>2 DEF EpilogueEnd
<1>4. SUFFICES ASSUME Epilogue(x) <= last, Epilogue(x) <= Stub(y)[3], Stub(y)[2] <= last PROVE FALSE
  BY DEF Overwritten
<1>5. HasEpilogue(Reloc(x))
  BY <1>2, <1>4 DEF EpilogueEnd
<1>6. EpilogueEnd(x) <= Epilogue(y) \/ EpilogueEnd(y) <= Epilogue(x)
  BY <1>1, <1>5, EpiloguesDisjoint
<1> QED BY <1>1, <1>2, <1>3, <1>4, <1>6

\* A stub that is spared after a step was so before.
LEMMA SparedBefore ==
  ASSUME UNCHANGED <<program, placed>>, filled \subseteq filled', NEW x
  PROVE  /\ \A y : TooShort(Reloc(y))' <=> TooShort(Reloc(y))
         /\ Spared(x)' => Spared(x) /\ \A y \in filled' : TooShort(Reloc(y)) => ~Meet(Stub(x), Stub(y))
<1>1. ASSUME NEW y PROVE (TooShort(Reloc(y))' <=> TooShort(Reloc(y))) /\ Stub(y)' = Stub(y)
  <2>1. Reloc(y)' = Reloc(y) /\ Stub(y)' = Stub(y)
    BY PlacesStay
  <2>2. HasEpilogue(Reloc(y))' <=> HasEpilogue(Reloc(y))
    BY <2>1 DEF HasEpilogue
  <2>3. TooShort(Reloc(y))' <=> TooShort(Reloc(y))
    BY <2>1, <2>2 DEF TooShort, Unasked
  <2> QED BY <2>1, <2>3
<1>2. ASSUME Spared(x)'
      PROVE  ~TooShort(Reloc(x)) /\ \A y \in filled' : TooShort(Reloc(y)) => ~Meet(Stub(x), Stub(y))
  <2>1. ~TooShort(Reloc(x))'
    BY <1>2 DEF Spared
  <2>2. ASSUME NEW y \in filled', TooShort(Reloc(y)) PROVE ~Meet(Stub(x), Stub(y))
    <3>1. ~Meet(Stub(x)', Stub(y)')
      <4>1. TooShort(Reloc(y))'
        BY <1>1, <2>2
      <4> QED BY <1>2, <4>1 DEF Spared, Meet
    <3> QED BY <1>1, <3>1
  <2> QED BY <1>1, <2>1, <2>2
<1> QED BY <1>1, <1>2 DEF Spared

LEMMA StubsThereNext ==
  ASSUME Inv, StubsThere, [Next]_vars
  PROVE  StubsThere'
<1> USE DEF Inv
<1>1. CASE AddSymbol
  <2>1. far' = {}
    BY <1>1 DEF AddSymbol, RelocInv
  <2> QED BY <2>1 DEF StubsThere
<1>2. ASSUME NEW x \in todo, RelocateNear(x) \/ RelocateFar(x) PROVE StubsThere'
  <2>1. UNCHANGED <<program, placed>> /\ filled \subseteq filled' /\ phase # "failed"
    BY <1>2 DEF RelocateNear, RelocateFar, Applied, Relocating
  <2>2. IsPlace(x)
    BY DEF RelocInv
  <2>3. Epilogue(x) \in Nat /\ Reloc(x).epilogueSize \in Nat
    BY <2>2, EpiloguesAre
  <2>4. ASSUME NEW y \in far', y # x, Spared(y)' PROVE Stub(y) \in stubs'
    <3>0. Spared(y) /\ \A z \in filled' : TooShort(Reloc(z)) => ~Meet(Stub(y), Stub(z))
      BY <2>1, <2>4, SparedBefore
    <3>1. y \in far /\ Stub(y) \in stubs
      BY <1>2, <2>1, <2>4, <3>0 DEF RelocateNear, RelocateFar, StubsThere
    <3>2. IsPlace(y) /\ MayFill(Reloc(y)) /\ ~TooShort(Reloc(y))
      BY <3>0, <3>1 DEF RelocInv, Spared
    <3>3. Stub(y) \in Cleared(x)
      <4>1. PICK last : last = Epilogue(x) + Reloc(x).epilogueSize - 1
        OBVIOUS
      <4>2. last \in Int /\ last < EpilogueEnd(x)
        BY <2>3, <4>1 DEF EpilogueEnd
      <4>3. Stub(y) \notin Overwritten(Epilogue(x), last)
        BY <2>2, <2>4, <3>2, <4>2, StubSurvives
      <4> QED BY <3>1, <4>1, <4>3 DEF Cleared
    <3>4. RelocateFar(x) => Stub(y) \notin Overwritten(Stub(x)[2], Stub(x)[3])
      <4>1. SUFFICES ASSUME RelocateFar(x) PROVE Stub(y) \notin Overwritten(Stub(x)[2], Stub(x)[3])
        OBVIOUS
      <4>2. MayFill(Reloc(x)) /\ x \in filled'
        BY <4>1 DEF RelocateFar, MayFill
      <4>3. CASE TooShort(Reloc(x))
        BY <3>0, <4>2, <4>3 DEF Meet, Overwritten
      <4>4. CASE ~TooShort(Reloc(x))
        <5>1. Stub(x)[2] = Epilogue(x) /\ Stub(x)[3] \in Nat /\ Stub(x)[3] < EpilogueEnd(x)
          BY <2>2, <4>2, <4>4, StubInside
        <5>2. PICK last : last = Stub(x)[3]
          OBVIOUS
        <5>3. Stub(y) \notin Overwritten(Epilogue(x), last)
          BY <2>2, <2>4, <3>2, <5>1, <5>2, StubSurvives
        <5> QED BY <5>1, <5>2, <5>3
      <4> QED BY <4>3, <4>4
    <3> QED BY <1>2, <3>3, <3>4 DEF RelocateNear, RelocateFar
  <2>5. x \in far' => Stub(x) \in stubs'
    BY <1>2 DEF RelocateNear, RelocateFar
  <2>6. \A y : Stub(y)' = Stub(y)
    BY <2>1, PlacesStay
  <2> QED BY <2>4, <2>5, <2>6 DEF StubsThere
<1>3. CASE UNCHANGED <<program, placed, far, filled, stubs>> /\ (phase = "failed" => phase' = "failed")
  <2>1. \A y : Stub(y)' = Stub(y) /\ (Spared(y)' => Spared(y))
    BY <1>3, PlacesStay, SparedBefore
  <2> QED BY <1>3, <2>1 DEF StubsThere
<1>4. ASSUME NEW x \in todo, FailFar(x) PROVE StubsThere'
  BY <1>4 DEF FailFar, StubsThere
<1>5. CASE BuildModule
  BY <1>3, <1>5 DEF BuildModule
<1>6. CASE UNCHANGED vars
  BY <1>3, <1>6 DEF vars
<1> QED BY <1>1, <1>2, <1>4, <1>5, <1>6 DEF Next, Finished

(***************************************************************************)
(* The theorems.                                                           *)
(***************************************************************************)
LEMMA InvHolds == Spec => []Inv
<1>1. Init => Inv
  BY LayoutInvInit, RelocInvInit DEF Inv
<1>2. Inv /\ [Next]_vars => Inv'
  BY InvNext
<1> QED BY <1>1, <1>2, PTL DEF Spec

\* For every program a compiler can hand over, the state keeps its type: what is
\* relocated too far was relocated, and a stub belongs to such a relocation.
THEOREM TypeCorrect == Spec => []TypeOK
<1>1. Inv => TypeOK
  BY DEF Inv, LayoutInv, RelocInv, TypeOK
<1> QED BY <1>1, InvHolds, PTL

\* For every program a compiler can hand over, whatever the order of the relocations,
\* whichever of them are too far and however often they are relocated again: a stub lies
\* in the epilogue of its own function, and no other is written over it.  What addSymbol
\* reserves falls short of what relocate writes for three kinds of relocations (TooShort),
\* always for these and for no other, and only one of these reaches another stub or other
\* text.
THEOREM StubsStayIntact == Spec => []StubsIntact
<1>1. Init => StubsThere
  <2>1. ASSUME Init PROVE far = {}
    BY <2>1 DEF Init
  <2> QED BY <2>1 DEF StubsThere
<1>2. Inv /\ StubsThere /\ [Next]_vars => StubsThere'
  BY StubsThereNext
<1>3. Inv /\ StubsThere => StubsIntact
  <2> SUFFICES ASSUME Inv, StubsThere, phase # "failed" PROVE StubsIntact
    BY DEF StubsIntact
  <2>1. ASSUME NEW x \in filled, ~TooShort(Reloc(x))
        PROVE  Fits(x) /\ Stub(x)[3] < placed[x[1]].offset + placed[x[1]].len
    <3>1. LayoutInv /\ IsPlace(x) /\ MayFill(Reloc(x))
      BY DEF Inv, RelocInv
    <3>2. /\ HasEpilogue(Reloc(x)) /\ Stub(x)[2] = Epilogue(x) /\ Stub(x)[3] \in Nat
          /\ Stub(x)[3] < EpilogueEnd(x)
      BY <2>1, <3>1, StubInside
    <3>3. PICK f : f = placed[x[1]]
      OBVIOUS
    <3>4. /\ Epilogue(x) \in Nat /\ EpilogueEnd(x) \in Nat
          /\ f.offset + f.size <= Epilogue(x) /\ EpilogueEnd(x) <= f.offset + f.len
      BY <3>1, <3>2, <3>3, EpiloguesAre DEF EpilogueEnd
    <3>5. f.offset \in Nat /\ f.len \in Nat
      BY <3>1, <3>3, PlaceLaidOut
    <3> QED BY <3>2, <3>3, <3>4, <3>5 DEF Fits, EpilogueEnd
  <2>4. ASSUME NEW x \in filled, TooShort(Reloc(x)) PROVE ~Fits(x)
    <3>1. LayoutInv /\ IsPlace(x) /\ MayFill(Reloc(x))
      BY DEF Inv, RelocInv
    <3>2. PICK f, i, r : f = placed[x[1]] /\ i = x[2] /\ r = Reloc(x)
      OBVIOUS
    <3>3. /\ RelocLaidOut(f, i) /\ r = f.relocs[i]
          /\ f.size \in Nat \ {0} /\ f.offset \in Nat /\ program.arch \in {"amd64", "arm64"}
      BY <3>1, <3>2, PlaceLaidOut
    <3>4. Stub(x)[2] = f.offset + r.epilogueOffset /\ r.epilogueOffset \in Nat /\ r.epilogueSize \in Nat
      BY <3>2, <3>3 DEF Stub, Epilogue, RelocLaidOut
    <3>5. Stub(x)[3] = f.offset + r.epilogueOffset + StubSize(r) - 1
      BY <3>2 DEF Stub, Epilogue
    <3>6. CASE HasEpilogue(r)
      <4>1. StubSize(r) \in Nat /\ r.epilogueSize < StubSize(r)
        BY <2>4, <3>1, <3>2, <3>3, <3>6, StubSticksOut
      <4>2. ~(Stub(x)[3] < f.offset + r.epilogueOffset + r.epilogueSize)
        BY <3>3, <3>4, <3>5, <4>1
      <4> QED BY <3>2, <4>2 DEF Fits, Epilogue
    <3>7. CASE ~HasEpilogue(r)
      <4>1. r.epilogueOffset = 0
        BY <3>3, <3>7 DEF RelocLaidOut
      <4>2. ~(f.offset + f.size <= Stub(x)[2])
        BY <3>3, <3>4, <4>1
      <4> QED BY <3>2, <4>2 DEF Fits
    <3> QED BY <3>6, <3>7
  <2>2. \A x \in far : Spared(x) => Stub(x) \in stubs
    BY DEF StubsThere
  <2>3. \A x \in DOMAIN code :
          \/ code[x] = IF x \in far THEN "stub" ELSE "near"
          \/ IsCmpl(Reloc(x)) /\ x \in filled
          \/ Misread(Reloc(x)) /\ x \in far
    BY DEF Inv, RelocInv, Outcome
  <2> QED BY <2>1, <2>2, <2>3, <2>4 DEF StubsIntact
<1> QED BY <1>1, <1>2, <1>3, InvHolds, PTL DEF Spec

\* For every well-formed table: in the text of a function the runtime finds the
\* values that the compiler gave, and in each epilogue the value of the instruction
\* that jumps there, so that a goroutine stopped in a stub can be unwound.
THEOREM EpiloguesUnwind == Spec => []PcValuesCover
<1>1. Inv => PcValuesCover
  <2> SUFFICES ASSUME Inv, NEW n \in DOMAIN placed
               PROVE  LET f == placed[n]
                          original == program.functions[n].pcvalues IN
                      /\ \A pc \in 0 .. f.size - 1 : ValueAt(f.pcvalues, pc) = ValueAt(original, pc)
                      /\ \A i \in DOMAIN f.relocs :
                           LET r == f.relocs[i] IN
                           \A pc \in r.epilogueOffset .. r.epilogueOffset + r.epilogueSize - 1 :
                             PcValue(f.pcvalues, pc) # 0
                               /\ ValueAt(f.pcvalues, pc) = ValueAt(original, r.offset)
    BY DEF PcValuesCover, ValueAt
  <2>1. PICK f, original : f = placed[n] /\ original = program.functions[n].pcvalues
    OBVIOUS
  <2>2. n \in 1 .. Len(placed)
    BY DEF Inv, LayoutInv, IsSequence
  <2>3. IsLayout(program.functions[n], f)
    BY <2>1, <2>2 DEF Inv, LayoutInv
  <2>4. /\ EndOf(original) = f.size /\ f.size \in Nat \ {0} /\ DOMAIN f.relocs = 1 .. Len(f.relocs)
        /\ Covers(f.pcvalues, original, f.relocs, Len(f.relocs))
        /\ \A i \in DOMAIN f.relocs : RelocLaidOut(f, i)
    BY <2>1, <2>3 DEF IsLayout
  <2>5. ASSUME NEW pc \in 0 .. f.size - 1 PROVE ValueAt(f.pcvalues, pc) = ValueAt(original, pc)
    BY <2>4 DEF Covers
  <2>6. ASSUME NEW i \in DOMAIN f.relocs, NEW r, r = f.relocs[i],
               NEW pc \in r.epilogueOffset .. r.epilogueOffset + r.epilogueSize - 1
        PROVE  PcValue(f.pcvalues, pc) # 0 /\ ValueAt(f.pcvalues, pc) = ValueAt(original, r.offset)
    <3>1. /\ r.epilogueOffset \in Nat /\ r.epilogueSize \in Nat
          /\ HasEpilogue(r) => f.size <= r.epilogueOffset
          /\ ~HasEpilogue(r) => r.epilogueSize = 0
      BY <2>4, <2>6 DEF RelocLaidOut
    <3>2. /\ pc \in Nat /\ r.epilogueOffset <= pc /\ pc < r.epilogueOffset + r.epilogueSize
          /\ r.epilogueOffset # 0
      BY <2>4, <2>6, <3>1
    <3>3. CoversEpilogue(f.pcvalues, original, r)
      BY <2>4, <2>6 DEF Covers
    <3> QED BY <3>2, <3>3 DEF CoversEpilogue
  <2> QED BY <2>1, <2>5, <2>6
<1> QED BY <1>1, InvHolds, PTL

\* For every size of bucket that is a multiple of the subbuckets, and however many
\* functions share a bucket, the runtime's lookup starts at or before the function
\* of the pc and so finds it, although a subbucket keeps the index modulo 256.
THEOREM RuntimeFindsFunctions == Spec => []FindFuncFinds
<1>1. Inv => FindFuncFinds
  <2> SUFFICES ASSUME Inv, phase = "built", NEW k \in 0 .. Len(placed) - 1,
                      NEW pc \in Entry(k) .. Entry(k + 1) - 1
               PROVE  FindFunc(pc) = k + 1
    BY DEF FindFuncFinds
  <2>1. LayoutInv /\ TabOK(buckets, Len(placed))
    BY DEF Inv, LayoutInv
  <2> QED BY <2>1, LayoutOrdered, EveryPcIsFound
<1> QED BY <1>1, InvHolds, PTL
=============================================================================

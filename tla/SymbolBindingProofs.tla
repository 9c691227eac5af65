--------------------------- MODULE SymbolBindingProofs ---------------------------
(***************************************************************************)
(* Theorems about SymbolRegistry, DataLayout, SymbolBinding and            *)
(* ModuleTables, for all programs and modules that are as the assumptions  *)
(* of SymbolBinding and ModuleTables say.                                  *)
(***************************************************************************)
EXTENDS ModuleTables, WellFoundedInduction, FiniteSetTheorems, SequenceTheorems, TLAPS

(***************************************************************************)
(* Induction without an operator parameter: a set of naturals has a least  *)
(* element, and a recursion over a segment has a solution.                 *)
(***************************************************************************)

LEMMA LeastNatural ==
  ASSUME NEW S \in SUBSET Nat, S # {}
  PROVE  \E n \in S : \A k \in S : n <= k
<1>1. IsWellFoundedOn(OpToRel(<, Nat), Nat)
  BY NatLessThanWellFounded
<1>2. PICK n \in S : \A k \in S : ~ (<<k, n>> \in OpToRel(<, Nat))
  BY <1>1, WFMin
<1>3. \A k \in S : ~(k < n)
  BY <1>2 DEF OpToRel
<1> QED BY <1>3

LEMMA SegmentInduction ==
  ASSUME NEW N \in Nat, NEW G, 0 \in G, \A n \in 1 .. N : n - 1 \in G => n \in G
  PROVE  0 .. N \subseteq G
<1> DEFINE Lacking == {n \in 0 .. N : n \notin G}
<1>1. SUFFICES ASSUME Lacking # {} PROVE FALSE
  OBVIOUS
<1>2. PICK n \in Lacking : \A k \in Lacking : n <= k
  <2>1. Lacking \in SUBSET Nat
    OBVIOUS
  <2> HIDE DEF Lacking
  <2> QED BY <1>1, <2>1, LeastNatural
<1>3. n \in 1 .. N /\ n - 1 \in 0 .. N
  BY <1>2
<1> QED BY <1>2, <1>3

\* h starts from a and takes n steps of F.
Upto(n, T, a, F, h) ==
  h \in [0 .. n -> T] /\ h[0] = a /\ \A k \in 1 .. n : h[k] = F[<<k, h[k - 1]>>]

LEMMA SegmentRecursion ==
  ASSUME NEW N \in Nat, NEW T, NEW a \in T, NEW F \in [(1 .. N) \X T -> T]
  PROVE  \E h : Upto(N, T, a, F, h)
<1> DEFINE G == {n \in 0 .. N : \E h : Upto(n, T, a, F, h)}
<1>1. 0 \in G
  <2>1. Upto(0, T, a, F, [i \in 0 .. 0 |-> a])
    BY DEF Upto
  <2> QED BY <2>1
<1>2. ASSUME NEW n \in 1 .. N, n - 1 \in G PROVE n \in G
  <2>1. PICK h : Upto(n - 1, T, a, F, h)
    BY <1>2
  <2>2. PICK g : g = [i \in 0 .. n |-> IF i = n THEN F[<<n, h[n - 1]>>] ELSE h[i]]
    OBVIOUS
  <2>3. F[<<n, h[n - 1]>>] \in T
    BY <2>1 DEF Upto
  <2>4. g \in [0 .. n -> T] /\ g[0] = a
    BY <2>1, <2>2, <2>3 DEF Upto
  <2>5. ASSUME NEW k \in 1 .. n PROVE g[k] = F[<<k, g[k - 1]>>]
    <3>1. k - 1 \in 0 .. n - 1 /\ g[k - 1] = h[k - 1]
      BY <2>2
    <3>2. CASE k = n
      <4>1. g[n] = F[<<n, h[n - 1]>>]
        BY <2>2
      <4> QED BY <3>1, <3>2, <4>1
    <3>3. CASE k # n
      BY <2>1, <2>2, <3>1, <3>3 DEF Upto
    <3> QED BY <3>2, <3>3
  <2>6. Upto(n, T, a, F, g)
    BY <2>4, <2>5 DEF Upto
  <2> QED BY <2>6
<1>3. 0 .. N \subseteq G
  <2> HIDE DEF G
  <2> QED BY <1>1, <1>2, SegmentInduction
<1> QED BY <1>3

(***************************************************************************)
(* The type hash: Hashed takes as many steps as there are types, and never *)
(* leaves a set of types that has the type links and what its types are    *)
(* built of.                                                               *)
(***************************************************************************)

\* One step.
Onward(h, S) == S \cup UNION {Range(h.types[t].elems) : t \in S}

LEMMA HashedIsLeast ==
  ASSUME NEW h, IsProgram(h), NEW R \in SUBSET DOMAIN h.types, Range(h.links) \subseteq R,
         \A t \in R : Range(h.types[t].elems) \subseteq R
  PROVE  Hashed(h) \subseteq R
<1> DEFINE N == Cardinality(DOMAIN h.types)
           After(g, n) == IF n = 0 THEN Range(h.links) ELSE Onward(h, g[n - 1])
           Solves(g) == g = [n \in 0 .. N |-> After(g, n)]
<1>1. N \in Nat
  BY FS_CardinalityType DEF IsProgram
<1>2. \A B \in SUBSET R : Onward(h, B) \in SUBSET R
  BY DEF Onward
<1>3. \E g : Solves(g)
  <2>1. PICK F \in [(1 .. N) \X SUBSET R -> SUBSET R] :
          \A k \in 1 .. N : \A B \in SUBSET R : F[<<k, B>>] = Onward(h, B)
    <3> DEFINE G == [x \in (1 .. N) \X SUBSET R |-> Onward(h, x[2])]
    <3>1. G \in [(1 .. N) \X SUBSET R -> SUBSET R]
      BY <1>2
    <3>2. \A k \in 1 .. N : \A B \in SUBSET R : G[<<k, B>>] = Onward(h, B)
      OBVIOUS
    <3> QED BY <3>1, <3>2
  <2>2. PICK g : Upto(N, SUBSET R, Range(h.links), F, g)
    <3>1. Range(h.links) \in SUBSET R
      OBVIOUS
    <3> HIDE DEF N
    <3> QED BY <1>1, <3>1, SegmentRecursion, Zenon
  <2>3. ASSUME NEW k \in 1 .. N PROVE g[k] = Onward(h, g[k - 1])
    <3>1. k - 1 \in 0 .. N
      BY <1>1
    <3> QED BY <2>1, <2>2, <3>1 DEF Upto
  <2>4. \A n \in 0 .. N : g[n] = After(g, n)
    BY <1>1, <2>2, <2>3 DEF Upto
  <2> HIDE DEF After
  <2>5. g = [n \in 0 .. N |-> After(g, n)]
    <3>1. g \in [0 .. N -> SUBSET R]
      BY <2>2 DEF Upto
    <3> QED BY <2>4, <3>1
  <2> QED BY <2>5
<1>4. PICK f : f = CHOOSE g : Solves(g)
  OBVIOUS
<1>5. Solves(f)
  BY <1>3, <1>4
<1>6. f[N] = Hashed(h)
  BY <1>4 DEF Hashed, Onward
<1>7. f[0] = Range(h.links) /\ \A k \in 1 .. N : f[k] = Onward(h, f[k - 1])
  <2>1. f[0] = Range(h.links)
    BY <1>1, <1>5
  <2>2. ASSUME NEW k \in 1 .. N PROVE f[k] = Onward(h, f[k - 1])
    <3>1. k \in 0 .. N /\ k # 0
      BY <1>1
    <3>2. f[k] = After(f, k)
      BY <1>5, <3>1, Zenon
    <3> QED BY <3>1, <3>2
  <2> QED BY <2>1, <2>2
<1>8. 0 .. N \subseteq {n \in 0 .. N : f[n] \in SUBSET R}
  <2> DEFINE G == {n \in 0 .. N : f[n] \in SUBSET R}
  <2>1. 0 \in G
    BY <1>1, <1>7
  <2>2. \A n \in 1 .. N : n - 1 \in G => n \in G
    BY <1>1, <1>2, <1>7
  <2> HIDE DEF G
  <2>3. 0 .. N \subseteq G
    BY <1>1, <2>1, <2>2, SegmentInduction
  <2> QED BY <2>3 DEF G
<1>9. N \in 0 .. N
  BY <1>1
<1> HIDE DEF N
<1> QED BY <1>6, <1>8, <1>9

LEMMA HashedAreTypes ==
  ASSUME NEW h, IsProgram(h)
  PROVE  Hashed(h) \subseteq DOMAIN h.types
<1>1. PICK T : T = DOMAIN h.types
  OBVIOUS
<1>2. h.links \in Seq(T) /\ \A t \in T : h.types[t].elems \in Seq(T)
  BY <1>1 DEF IsProgram
<1>3. Range(h.links) \subseteq T /\ \A t \in T : Range(h.types[t].elems) \subseteq T
  BY <1>2 DEF Range
<1> QED BY <1>1, <1>3, HashedIsLeast

(***************************************************************************)
(* The registry.                                                           *)
(***************************************************************************)

Given == host \in Hosts /\ module \in Modules

\* Every address is that of what the name stands for, or zero for an init task.
AddressesTrue ==
  \A n \in DOMAIN symPtr :
    \/ \E t \in DOMAIN host.types : n = TypeName(t) /\ symPtr[n] = HostType(t)
    \/ /\ n \in DOMAIN host.funcs \cup host.data \cup DOMAIN host.itabs
       /\ symPtr[n] = HostSymbol(n)
    \/ n[1] = "init" /\ symPtr[n] = Zero

\* Once functions are registered, so are their packages, and in the end the init
\* tasks of all packages.
PackagesSeen ==
  /\ stage # "types" => \A f \in DOMAIN host.funcs : host.funcs[f] \in pkgSet
  /\ stage = "registered" => \A pkg \in pkgSet : InitTask(pkg) \in DOMAIN symPtr
  /\ stage # "types" /\ todo # <<>> => caller = "RegTypes"

RegistryInv ==
  /\ Given /\ todo \in Seq(DOMAIN host.types)
  /\ stage \in {"types", "functions", "registered"}
  /\ AddressesTrue /\ PackagesSeen

LEMMA ProgramsAre ==
  ASSUME Given
  PROVE  /\ IsProgram(host) /\ PackagesAreRead(host) /\ ItabsAreNamed(host)
         /\ IsLinkable(module) /\ IsModule(module) /\ PackagesAreBrought(module)
         /\ NamesFail \/ NamesAreMade(host, module)
BY HostsAssumption, ModulesAssumption, NamesAssumption DEF Given, NamesFail

LEMMA RegisterTypeKeeps ==
  ASSUME RegistryInv, RegisterType, UNCHANGED module
  PROVE  RegistryInv'
<1>1. PICK t, name : t = Head(todo) /\ name = TypeName(t)
  OBVIOUS
<1>2. /\ todo # <<>> /\ t \in DOMAIN host.types /\ Tail(todo) \in Seq(DOMAIN host.types)
      /\ host.types[t].elems \in Seq(DOMAIN host.types)
  <2>1. todo # <<>> BY DEF RegisterType
  <2>2. IsProgram(host) BY ProgramsAre DEF RegistryInv
  <2> QED BY <1>1, <2>1, <2>2 DEF RegistryInv, IsProgram
<1>3. /\ UNCHANGED <<host, caller, stage>>
      /\ pkgSet \subseteq pkgSet' /\ (caller # "typelinks" => pkgSet' = pkgSet)
      /\ IF name \in DOMAIN symPtr THEN symPtr' = symPtr /\ todo' = <<>> \o Tail(todo)
         ELSE symPtr' = Put(symPtr, name, HostType(t)) /\ todo' = host.types[t].elems \o Tail(todo)
  BY <1>1 DEF RegisterType
<1>4. todo' \in Seq(DOMAIN host.types)
  <2>1. PICK elems, T : elems = host.types[t].elems /\ T = DOMAIN host.types
    OBVIOUS
  <2>2. elems \in Seq(T) /\ Tail(todo) \in Seq(T) /\ <<>> \in Seq(T)
    BY <1>2, <2>1
  <2>3. todo' = <<>> \o Tail(todo) \/ todo' = elems \o Tail(todo)
    BY <1>3, <2>1
  <2>4. <<>> \o Tail(todo) \in Seq(T) /\ elems \o Tail(todo) \in Seq(T)
    BY <2>2
  <2> QED BY <2>1, <2>3, <2>4
<1>5. ASSUME NEW n \in DOMAIN symPtr PROVE n \in DOMAIN symPtr' /\ symPtr'[n] = symPtr[n]
  BY <1>3 DEF Put
<1>6. ASSUME NEW n \in DOMAIN symPtr', n \notin DOMAIN symPtr
      PROVE  n = TypeName(t) /\ symPtr'[n] = HostType(t)
  <2>1. symPtr' = Put(symPtr, name, HostType(t))
    BY <1>3, <1>6
  <2>2. n = name
    BY <1>6, <2>1 DEF Put
  <2> QED BY <1>1, <2>1, <2>2 DEF Put
<1>7. \A u : TypeName(u)' = TypeName(u)
  BY <1>3 DEF TypeName, NameIn
<1>8. AddressesTrue'
  <2> SUFFICES ASSUME NEW n \in DOMAIN symPtr'
               PROVE  \/ \E u \in DOMAIN host.types : n = TypeName(u) /\ symPtr'[n] = HostType(u)
                      \/ /\ n \in DOMAIN host.funcs \cup host.data \cup DOMAIN host.itabs
                         /\ symPtr'[n] = HostSymbol(n)
                      \/ n[1] = "init" /\ symPtr'[n] = Zero
    BY <1>3, <1>7 DEF AddressesTrue, HostType, HostSymbol, Zero
  <2>1. CASE n \in DOMAIN symPtr
    BY <2>1, <1>5 DEF RegistryInv, AddressesTrue
  <2>2. CASE n \notin DOMAIN symPtr
    BY <2>2, <1>2, <1>6
  <2> QED BY <2>1, <2>2
<1>9. PackagesSeen'
  BY <1>2, <1>3, <1>5 DEF RegistryInv, PackagesSeen, InitTask
<1> QED BY <1>3, <1>4, <1>8, <1>9 DEF RegistryInv, Given

LEMMA RegisterFunctionsKeeps ==
  ASSUME RegistryInv, RegisterFunctions, UNCHANGED module
  PROVE  RegistryInv'
<1>1. /\ UNCHANGED <<host, todo, caller>> /\ stage = "types" /\ todo = <<>> /\ stage' = "functions"
      /\ symPtr' = Merge(symPtr, [f \in DOMAIN host.funcs |-> HostSymbol(f)])
      /\ pkgSet' = pkgSet \cup {FuncPkgPath(f[2]) : f \in DOMAIN host.funcs}
  BY DEF RegisterFunctions
<1>2. PackagesAreRead(host)
  BY ProgramsAre DEF RegistryInv
<1>3. ASSUME NEW n \in DOMAIN symPtr PROVE symPtr'[n] = symPtr[n]
  BY <1>1 DEF Merge
<1>4. ASSUME NEW n \in DOMAIN symPtr', n \notin DOMAIN symPtr
      PROVE  n \in DOMAIN host.funcs /\ symPtr'[n] = HostSymbol(n)
  BY <1>1, <1>4 DEF Merge
<1>5. \A u : TypeName(u)' = TypeName(u)
  BY <1>1 DEF TypeName, NameIn
<1>6. AddressesTrue'
  <2> SUFFICES ASSUME NEW n \in DOMAIN symPtr'
               PROVE  \/ \E u \in DOMAIN host.types : n = TypeName(u) /\ symPtr'[n] = HostType(u)
                      \/ /\ n \in DOMAIN host.funcs \cup host.data \cup DOMAIN host.itabs
                         /\ symPtr'[n] = HostSymbol(n)
                      \/ n[1] = "init" /\ symPtr'[n] = Zero
    BY <1>1, <1>5 DEF AddressesTrue, HostType, HostSymbol, Zero
  <2>1. CASE n \in DOMAIN symPtr
    BY <2>1, <1>3 DEF RegistryInv, AddressesTrue
  <2>2. CASE n \notin DOMAIN symPtr
    BY <2>2, <1>4
  <2> QED BY <2>1, <2>2
<1>7. PackagesSeen'
  <2>1. \A f \in DOMAIN host.funcs : host.funcs[f] \in pkgSet'
    BY <1>1, <1>2 DEF PackagesAreRead
  <2> QED BY <1>1, <2>1 DEF PackagesSeen
<1> QED BY <1>1, <1>6, <1>7 DEF RegistryInv, Given

LEMMA RegisterDataKeeps ==
  ASSUME RegistryInv, RegisterData, UNCHANGED module
  PROVE  RegistryInv'
<1>1. PICK file, found, tasksOf :
        /\ file = [d \in host.data \cup DOMAIN host.itabs |-> HostSymbol(d)]
        /\ found = Merge(file, symPtr)
        /\ tasksOf = {InitTask(p) : p \in pkgSet}
  OBVIOUS
<1>2. /\ UNCHANGED <<host, todo, caller, pkgSet>> /\ stage = "functions" /\ stage' = "registered"
      /\ symPtr' = Merge(found, [i \in tasksOf |-> Zero])
  BY <1>1 DEF RegisterData
<1>4. ASSUME NEW n \in DOMAIN found
      PROVE  \/ n \in DOMAIN symPtr /\ found[n] = symPtr[n]
             \/ /\ n \in host.data \cup DOMAIN host.itabs
                /\ found[n] = HostSymbol(n)
  <2>1. CASE n \in host.data \cup DOMAIN host.itabs
    BY <1>1, <2>1 DEF Merge
  <2>2. CASE n \notin host.data \cup DOMAIN host.itabs
    <3>1. n \notin DOMAIN file
      BY <1>1, <2>2
    <3>2. found = [k \in DOMAIN file \cup DOMAIN symPtr |->
                     IF k \in DOMAIN file THEN file[k] ELSE symPtr[k]]
      BY <1>1 DEF Merge
    <3>3. n \in DOMAIN symPtr
      BY <1>4, <3>1, <3>2
    <3>4. found[n] = symPtr[n]
      BY <3>1, <3>2, <3>3
    <3> QED BY <3>3, <3>4
  <2> QED BY <2>1, <2>2
<1>5. ASSUME NEW n \in DOMAIN symPtr'
      PROVE  \/ n \in DOMAIN found /\ symPtr'[n] = found[n]
             \/ n \in tasksOf /\ symPtr'[n] = Zero
  BY <1>2 DEF Merge
<1>6. \A u : TypeName(u)' = TypeName(u)
  BY <1>2 DEF TypeName, NameIn
<1>7. AddressesTrue'
  <2> SUFFICES ASSUME NEW n \in DOMAIN symPtr'
               PROVE  \/ \E u \in DOMAIN host.types : n = TypeName(u) /\ symPtr'[n] = HostType(u)
                      \/ /\ n \in DOMAIN host.funcs \cup host.data \cup DOMAIN host.itabs
                         /\ symPtr'[n] = HostSymbol(n)
                      \/ n[1] = "init" /\ symPtr'[n] = Zero
    BY <1>2, <1>6 DEF AddressesTrue, HostType, HostSymbol, Zero
  <2>1. CASE n \in tasksOf /\ symPtr'[n] = Zero
    BY <1>1, <2>1 DEF InitTask
  <2>2. CASE n \in DOMAIN found /\ symPtr'[n] = found[n]
    BY <2>2, <1>4 DEF RegistryInv, AddressesTrue
  <2> QED BY <1>5, <2>1, <2>2
<1>8. PackagesSeen'
  <2>1. \A p \in pkgSet : InitTask(p) \in DOMAIN symPtr'
    BY <1>1, <1>2 DEF Merge
  <2>2. \A f \in DOMAIN host.funcs : host.funcs[f] \in pkgSet
    BY <1>2 DEF RegistryInv, PackagesSeen
  <2>3. todo # <<>> => caller = "RegTypes"
    BY <1>2 DEF RegistryInv, PackagesSeen
  <2> QED BY <1>2, <2>1, <2>2, <2>3 DEF PackagesSeen, InitTask
<1> QED BY <1>2, <1>7, <1>8 DEF RegistryInv, Given

LEMMA SingleSequence ==
  ASSUME NEW T, NEW t \in T
  PROVE  <<t>> \in Seq(T)
OBVIOUS

LEMMA RegTypesKeeps ==
  ASSUME RegistryInv, NEW t \in DOMAIN host.types, RegTypes(t), UNCHANGED module
  PROVE  RegistryInv'
<1>1. UNCHANGED <<host, symPtr, pkgSet, stage>> /\ todo' = <<t>> /\ caller' = "RegTypes"
  BY DEF RegTypes
<1>2. todo' \in Seq(DOMAIN host.types)
  BY <1>1, SingleSequence
<1>3. AddressesTrue'
  BY <1>1 DEF RegistryInv, AddressesTrue, TypeName, NameIn, HostType, HostSymbol, Zero
<1>4. PackagesSeen'
  BY <1>1 DEF RegistryInv, PackagesSeen, InitTask
<1> QED BY <1>1, <1>2, <1>3, <1>4 DEF RegistryInv, Given

LEMMA RegistryKeeps ==
  ASSUME RegistryInv, RegistryNext \/ UNCHANGED registryVars, UNCHANGED module
  PROVE  RegistryInv'
<1>1. CASE UNCHANGED registryVars
  <2>1. UNCHANGED <<host, todo, caller, symPtr, pkgSet, stage>>
    BY <1>1 DEF registryVars
  <2> QED BY <2>1 DEF RegistryInv, Given, AddressesTrue, PackagesSeen, TypeName, NameIn, HostType,
                      HostSymbol, Zero, InitTask
<1>2. CASE RegistryNext
  BY <1>2, RegisterTypeKeeps, RegisterFunctionsKeeps, RegisterDataKeeps, RegTypesKeeps DEF RegistryNext
<1> QED BY <1>1, <1>2

LEMMA RegistryBegins ==
  ASSUME RegistryInit(Hosts), module \in Modules
  PROVE  RegistryInv
<1>1. Given
  BY DEF RegistryInit, Given
<1>2. todo \in Seq(DOMAIN host.types)
  BY <1>1, ProgramsAre DEF RegistryInit, IsProgram
<1>3. DOMAIN symPtr = {}
  BY DEF RegistryInit
<1> QED BY <1>1, <1>2, <1>3 DEF RegistryInit, RegistryInv, AddressesTrue, PackagesSeen

(***************************************************************************)
(* The binding.                                                            *)
(***************************************************************************)

Names == DOMAIN module.symbols
\* What a name stands for in symbolMap, unless it is an itab's.
Entry(n) == IF KeepsItsOwn(n) THEN Own(n) ELSE symPtr[n]

\* What a place is filled in with first, and in the end.
AtFirst(n) == IF n \in DOMAIN Originals /\ ~IsType(n) /\ ~SkippedByPackage(n) THEN Originals[n] ELSE Entry(n)
IsReplaced(n) ==
  Symbol(n).defined /\ Equals(n) # {} /\ host.types[Candidate(n)].pkg \notin module.skip
InTheEnd(n) == IF IsReplaced(n) THEN HostType(Candidate(n)) ELSE Entry(n)

\* The linker's part comes after the registry's, and the binding after both.
PhasesInv ==
  /\ phase \in {"registering", "failed", "relocating", "untyped", "deduplicating", "panic", "loaded"}
  /\ phase # "registering" => Registered
  /\ phase \in {"registering", "failed"} => symbolMap = <<>> /\ itablinks = <<>>
  /\ pending \subseteq Places(module) /\ DOMAIN places = Places(module)
  /\ phase = "deduplicating" => pending \subseteq OwnTypes
  /\ phase = "loaded" => pending = {}

\* The tables: itabs come into the map as they are made.
TablesInv ==
  phase \notin {"registering", "failed"} =>
    /\ firstModule = Originals
    /\ \A n \in Names :
         /\ Symbol(n).defined \/ n \in DOMAIN symPtr
         /\ ~IsItab(n) => n \in DOMAIN symbolMap /\ symbolMap[n] = Entry(n)
         /\ IsItab(n) => (n \in DOMAIN symbolMap <=> n \in DOMAIN symPtr \cup Range(itablinks))
         /\ IsItab(n) /\ n \in DOMAIN symbolMap =>
              symbolMap[n] = IF n \in Range(itablinks) THEN Own(n) ELSE symPtr[n]

\* The itabs made are used, and made once unless their packages are skipped.
ItablinksInv ==
  /\ itablinks \in Seq({n \in Names : IsItab(n)})
  /\ \A i, j \in DOMAIN itablinks : itablinks[i] = itablinks[j] => i = j \/ SkippedItab(itablinks[i])
  /\ \A n \in Range(itablinks) :
       \E p \in Places(module) :
         Target(p) = n /\ places[p] = Own(n) /\ (phase = "relocating" => p \notin pending)

\* What a place that has been filled in holds.
Holds(p) ==
  LET n == Target(p) IN
  IF IsItab(n)
  THEN \/ places[p] = Own(n) /\ n \in Range(itablinks)
       \/ places[p] = symPtr[n] /\ n \in DOMAIN symPtr /\ ~SkippedItab(n)
  ELSE IF ~IsType(n) THEN places[p] = AtFirst(n)
  ELSE phase # "panic" =>
         places[p] = IF phase = "relocating" \/ p \in pending THEN Entry(n) ELSE InTheEnd(n)

PlacesInv ==
  /\ phase = "relocating" => \A p \in Places(module) \ pending : Holds(p)
  /\ phase \in {"deduplicating", "panic", "loaded"} => \A p \in Places(module) : Holds(p)

ExportsInv ==
  phase = "loaded" =>
    exports = {[symbol |-> e.symbol, addr |-> symbolMap[e.symbol],
                typeName |-> e.type, type |-> ExportedType(e.type)] : e \in module.exports}

BindingInv == RegistryInv /\ PhasesInv /\ TablesInv /\ ItablinksInv /\ PlacesInv /\ ExportsInv

LEMMA Unmoved ==
  ASSUME UNCHANGED <<host, module, symPtr>>
  PROVE  /\ Names' = Names /\ Places(module)' = Places(module) /\ OwnTypes' = OwnTypes
         /\ Originals' = Originals
         /\ \A n : /\ Symbol(n)' = Symbol(n) /\ Entry(n)' = Entry(n) /\ AtFirst(n)' = AtFirst(n)
                   /\ InTheEnd(n)' = InTheEnd(n) /\ SkippedItab(n)' = SkippedItab(n)
         /\ \A p : Target(p)' = Target(p)
<1>1. /\ Names' = Names /\ Places(module)' = Places(module)
      /\ \A n : Symbol(n)' = Symbol(n)
      /\ \A p : Target(p)' = Target(p)
  BY DEF Names, Places, Symbol, Target
<1>2. OwnTypes' = OwnTypes
  BY <1>1 DEF OwnTypes
<1>3. Originals' = Originals
  BY DEF Originals, IsDuplicate, Symbol, IsItab, IsText, IsKeptFirst, SkippedByName, IsVariant, IsType
<1>4. \A n : Entry(n)' = Entry(n)
  BY DEF Entry, KeepsItsOwn, Symbol, Own, IsText, IsKeptFirst, SkippedByName, IsType
<1>5. \A n : AtFirst(n)' = AtFirst(n)
  BY <1>3, <1>4 DEF AtFirst, IsType, SkippedByPackage, Symbol
<1>6. \A n : InTheEnd(n)' = InTheEnd(n)
  BY <1>4 DEF InTheEnd, IsReplaced, Symbol, HostType, Candidate, Equals
<1>7. \A n : SkippedItab(n)' = SkippedItab(n)
  BY DEF SkippedItab
<1> QED BY <1>1, <1>2, <1>3, <1>4, <1>5, <1>6, <1>7

LEMMA LayoutKeeps ==
  ASSUME LayoutNext \/ UNCHANGED layoutVars
  PROVE  UNCHANGED module
BY DEF LayoutNext, AddNext, AddSymbol, ReadTable, AddInlineTree, Refer, Return, GoOn, layoutVars

LEMMA BindingBegins ==
  ASSUME Init
  PROVE  BindingInv
<1>1. /\ RegistryInit(Hosts) /\ module \in Modules
      /\ symbolMap = <<>> /\ firstModule = <<>> /\ places = [p \in Places(module) |-> Zero]
      /\ itablinks = <<>> /\ pending = {} /\ phase = "registering"
  BY DEF Init, LayoutInit
<1>2. RegistryInv
  BY <1>1, RegistryBegins
<1>3. PhasesInv
  BY <1>1 DEF PhasesInv
<1>4. ItablinksInv
  <2>1. itablinks \in Seq({n \in Names : IsItab(n)}) /\ DOMAIN itablinks = {} /\ Range(itablinks) = {}
    BY <1>1 DEF Range
  <2> QED BY <2>1 DEF ItablinksInv
<1> QED BY <1>1, <1>2, <1>3, <1>4 DEF BindingInv, TablesInv, PlacesInv, ExportsInv

\* Before the tables are made there is nothing to be kept but the places.
LEMMA EarlierStepsKeep ==
  ASSUME BindingInv, Register \/ Place
  PROVE  BindingInv'
<1>1. /\ phase = "registering" /\ phase' = "registering" /\ module' = module
      /\ UNCHANGED <<symbolMap, firstModule, places, itablinks, pending>>
      /\ RegistryNext \/ UNCHANGED registryVars
  <2>1. CASE Register
    BY <2>1 DEF Register, others, tables, layoutVars
  <2>2. CASE Place
    BY <2>2, LayoutKeeps DEF Place, others, tables
  <2> QED BY <2>1, <2>2
<1>2. RegistryInv'
  BY <1>1, RegistryKeeps DEF BindingInv
<1>3. Names' = Names /\ Places(module)' = Places(module)
  BY <1>1 DEF Names, Places
<1>4. PhasesInv'
  BY <1>1, <1>3 DEF BindingInv, PhasesInv
<1>5. ItablinksInv'
  <2>1. itablinks' = <<>>
    BY <1>1 DEF BindingInv, PhasesInv
  <2>2. /\ itablinks' \in Seq({n \in Names' : IsItab(n)'})
        /\ DOMAIN itablinks' = {} /\ Range(itablinks)' = {}
    BY <2>1 DEF Range
  <2> QED BY <2>2 DEF ItablinksInv
<1> QED BY <1>1, <1>2, <1>4, <1>5 DEF BindingInv, TablesInv, PlacesInv, ExportsInv

LEMMA AddSymbolMapKeeps ==
  ASSUME BindingInv, AddSymbolMap
  PROVE  BindingInv'
<1>1. /\ UNCHANGED registryVars /\ UNCHANGED <<host, module, symPtr, places, itablinks>>
      /\ phase = "registering" /\ Registered /\ Registered'
  BY DEF AddSymbolMap, registryVars, layoutVars, Registered
<1>2. RegistryInv'
  BY <1>1, RegistryKeeps DEF BindingInv
<1>3. /\ Names' = Names /\ Places(module)' = Places(module) /\ Originals' = Originals
      /\ \A n : Symbol(n)' = Symbol(n) /\ Entry(n)' = Entry(n)
  BY <1>1, Unmoved
<1>4. ItablinksInv'
  <2>1. itablinks' = <<>>
    BY <1>1 DEF BindingInv, PhasesInv
  <2>2. /\ itablinks' \in Seq({n \in Names' : IsItab(n)'})
        /\ DOMAIN itablinks' = {} /\ Range(itablinks)' = {}
    BY <2>1 DEF Range
  <2> QED BY <2>2 DEF ItablinksInv
<1>5. CASE phase' = "failed" /\ UNCHANGED <<tables, pending>>
  <2>1. PhasesInv'
    BY <1>1, <1>3, <1>5 DEF BindingInv, PhasesInv, tables
  <2> QED BY <1>2, <1>4, <1>5, <2>1 DEF BindingInv, TablesInv, PlacesInv, ExportsInv
<1>6. CASE /\ \A n \in Names : Symbol(n).defined \/ n \in DOMAIN symPtr
           /\ symbolMap' = [n \in {n \in Names : IsItab(n) => n \in DOMAIN symPtr}
                              |-> IF ~IsItab(n) /\ KeepsItsOwn(n) THEN Own(n) ELSE symPtr[n]]
           /\ firstModule' = Originals /\ pending' = Places(module) /\ phase' = "relocating"
  <2>1. PhasesInv'
    BY <1>1, <1>3, <1>6 DEF BindingInv, PhasesInv
  <2>2. Range(itablinks)' = {}
    BY <1>1 DEF BindingInv, PhasesInv, Range
  <2>3. TablesInv'
    <3>1. ASSUME NEW n \in Names
          PROVE  /\ n \in DOMAIN symbolMap' <=> (IsItab(n) => n \in DOMAIN symPtr)
                 /\ ~IsItab(n) => symbolMap'[n] = Entry(n)
                 /\ IsItab(n) /\ n \in DOMAIN symbolMap' => symbolMap'[n] = symPtr[n]
      BY <1>6 DEF Entry
    <3> QED BY <1>1, <1>3, <1>6, <2>2, <3>1 DEF TablesInv, IsItab
  <2>4. PlacesInv'
    BY <1>3, <1>6 DEF PlacesInv
  <2> QED BY <1>2, <1>4, <1>6, <2>1, <2>3, <2>4 DEF BindingInv, ExportsInv
<1> QED BY <1>5, <1>6 DEF AddSymbolMap, Names

LEMMA ItsAddresses ==
  ASSUME RegistryInv, NEW n \in DOMAIN symPtr
  PROVE  /\ ~IsOwn(symPtr[n])
         /\ IsItab(n) => n \in DOMAIN host.itabs /\ symPtr[n] # Zero
         /\ IsType(n) => \E t \in DOMAIN host.types : n = TypeName(t) /\ symPtr[n] = HostType(t)
<1>1. IsProgram(host)
  BY ProgramsAre DEF RegistryInv
<1>2. CASE \E t \in DOMAIN host.types : n = TypeName(t) /\ symPtr[n] = HostType(t)
  BY <1>2 DEF IsOwn, IsItab, HostType, TypeName, NameIn
<1>3. CASE n \in DOMAIN host.funcs \cup host.data \cup DOMAIN host.itabs /\ symPtr[n] = HostSymbol(n)
  <2>1. /\ n \in DOMAIN host.funcs => n[1] = "func"
        /\ n \in host.data => n[1] \in {"var", "init"}
        /\ n \in DOMAIN host.itabs => n[1] = "itab"
    BY <1>1 DEF IsProgram
  <2> QED BY <1>3, <2>1 DEF IsOwn, IsItab, IsType, HostSymbol, Zero
<1>4. CASE n[1] = "init" /\ symPtr[n] = Zero
  <2>1. Zero[1] = "zero"
    BY DEF Zero
  <2> QED BY <1>4, <2>1 DEF IsOwn, IsItab, IsType
<1> QED BY <1>2, <1>3, <1>4 DEF RegistryInv, AddressesTrue

\* What relocate finds for a name of a place.
LEMMA BoundIs ==
  ASSUME BindingInv, phase = "relocating", NEW n \in Names
  PROVE  /\ ~IsItab(n) => Bound(n) = IF IsType(n) THEN Entry(n) ELSE AtFirst(n)
         /\ NeedsItab(n) => IsItab(n) /\ (SkippedItab(n) \/ n \notin Range(itablinks))
         /\ IsItab(n) /\ ~NeedsItab(n) =>
              \/ n \in Range(itablinks) /\ Bound(n) = Own(n)
              \/ n \in DOMAIN symPtr /\ ~SkippedItab(n) /\ Bound(n) = symPtr[n]
<1>1. /\ firstModule = Originals
      /\ ~IsItab(n) => n \in DOMAIN symbolMap /\ symbolMap[n] = Entry(n)
      /\ IsItab(n) => (n \in DOMAIN symbolMap <=> n \in DOMAIN symPtr \cup Range(itablinks))
      /\ IsItab(n) /\ n \in DOMAIN symbolMap =>
           symbolMap[n] = IF n \in Range(itablinks) THEN Own(n) ELSE symPtr[n]
  BY DEF BindingInv, TablesInv
<1>2. ~IsItab(n) => Bound(n) = IF IsType(n) THEN Entry(n) ELSE AtFirst(n)
  BY <1>1 DEF Bound, Lookup, AtFirst
<1>3. ASSUME IsItab(n)
      PROVE  /\ n \in DOMAIN Originals => n \in DOMAIN symPtr /\ Originals[n] = symPtr[n]
             /\ n \in DOMAIN symPtr => symPtr[n] # Zero
             /\ Own(n) # Zero
  <2>1. ~IsVariant(n)
    BY <1>3 DEF IsVariant, IsItab, IsType
  <2>2. n \in DOMAIN Originals => n \in DOMAIN symPtr /\ Originals[n] = symPtr[n]
    BY <2>1 DEF Originals, IsDuplicate
  <2>3. n \in DOMAIN symPtr => symPtr[n] # Zero
    BY <1>3, ItsAddresses DEF BindingInv
  <2> QED BY <2>2, <2>3 DEF Own, Zero
<1>4. ASSUME IsItab(n)
      PROVE  Bound(n) = Zero => n \notin Range(itablinks)
  BY <1>1, <1>3, <1>4 DEF Bound, Lookup
<1>5. ASSUME IsItab(n), Bound(n) # Zero, ~SkippedItab(n)
      PROVE  \/ n \in Range(itablinks) /\ Bound(n) = Own(n)
             \/ n \in DOMAIN symPtr /\ Bound(n) = symPtr[n]
  BY <1>1, <1>3, <1>5 DEF Bound, Lookup
<1> QED BY <1>2, <1>4, <1>5 DEF NeedsItab

LEMMA AppendedRange ==
  ASSUME NEW S, NEW s \in Seq(S), NEW e \in S
  PROVE  /\ Append(s, e) \in Seq(S) /\ Range(Append(s, e)) = Range(s) \cup {e}
         /\ DOMAIN Append(s, e) = DOMAIN s \cup {Len(s) + 1} /\ Len(s) + 1 \notin DOMAIN s
         /\ \A i \in DOMAIN s : Append(s, e)[i] = s[i]
         /\ Append(s, e)[Len(s) + 1] = e
<1>1. /\ DOMAIN Append(s, e) = DOMAIN s \cup {Len(s) + 1} /\ Len(s) + 1 \notin DOMAIN s
      /\ \A i \in DOMAIN s : Append(s, e)[i] = s[i]
      /\ Append(s, e)[Len(s) + 1] = e
  OBVIOUS
<1>2. Range(Append(s, e)) = Range(s) \cup {e}
  BY <1>1 DEF Range
<1> QED BY <1>1, <1>2

LEMMA TargetsAre ==
  ASSUME Given, NEW p \in Places(module)
  PROVE  /\ p[1] \in Names /\ p[2] \in DOMAIN Symbol(p[1]).refs /\ p = <<p[1], p[2]>>
         /\ Target(p) \in Names
<1>1. PICK s \in Names : p \in {s} \X DOMAIN module.symbols[s].refs
  BY DEF Places, Names
<1>2. p = <<s, p[2]>> /\ p[1] = s /\ p[2] \in DOMAIN module.symbols[s].refs
  BY <1>1
<1>3. module.symbols[s].refs \in Seq(Names)
  BY ProgramsAre DEF IsLinkable, Names
<1>4. module.symbols[s].refs[p[2]] \in Names
  BY <1>2, <1>3
<1> QED BY <1>1, <1>2, <1>4 DEF Target, Symbol

LEMMA RelocateKeeps ==
  ASSUME BindingInv, NEW p \in pending, Relocate(p)
  PROVE  BindingInv'
<1>1. /\ UNCHANGED registryVars /\ UNCHANGED <<host, module, symPtr, firstModule>>
      /\ phase = "relocating" /\ phase' = "relocating" /\ pending' = pending \ {p}
      /\ Registered /\ Registered'
  BY DEF Relocate, registryVars, layoutVars, Registered, BindingInv, PhasesInv
<1>2. RegistryInv'
  BY <1>1, RegistryKeeps DEF BindingInv
<1>3. /\ Names' = Names /\ Places(module)' = Places(module) /\ Originals' = Originals
      /\ \A n : /\ Symbol(n)' = Symbol(n) /\ Entry(n)' = Entry(n) /\ AtFirst(n)' = AtFirst(n)
                /\ SkippedItab(n)' = SkippedItab(n)
      /\ \A q : Target(q)' = Target(q)
  BY <1>1, Unmoved
<1>4. /\ p \in Places(module) /\ DOMAIN places = Places(module) /\ pending \subseteq Places(module)
      /\ itablinks \in Seq({n \in Names : IsItab(n)})
      /\ \A i, j \in DOMAIN itablinks :
           itablinks[i] = itablinks[j] => i = j \/ SkippedItab(itablinks[i])
      /\ \A n \in Range(itablinks) :
           \E q \in Places(module) \ pending : Target(q) = n /\ places[q] = Own(n)
  BY <1>1 DEF BindingInv, PhasesInv, ItablinksInv
<1>5. PICK name : name = Target(p) /\ name \in Names
  BY <1>4, TargetsAre DEF BindingInv, RegistryInv
<1>6. PICK value : /\ places' = [places EXCEPT ![p] = value]
                   /\ \/ NeedsItab(name) /\ value = Own(name)
                      \/ ~NeedsItab(name) /\ value = Bound(name)
  BY <1>5 DEF Relocate
<1>7. /\ DOMAIN places' = Places(module) /\ places'[p] = value
      /\ \A q \in Places(module) \ {p} : places'[q] = places[q]
  BY <1>4, <1>6
<1>8. \/ /\ NeedsItab(name) /\ symbolMap' = Put(symbolMap, name, Own(name))
         /\ itablinks' = Append(itablinks, name)
      \/ ~NeedsItab(name) /\ symbolMap' = symbolMap /\ itablinks' = itablinks
  BY <1>5 DEF Relocate
<1>9. /\ ~IsItab(name) => Bound(name) = IF IsType(name) THEN Entry(name) ELSE AtFirst(name)
      /\ NeedsItab(name) => IsItab(name) /\ (SkippedItab(name) \/ name \notin Range(itablinks))
      /\ IsItab(name) /\ ~NeedsItab(name) =>
           \/ name \in Range(itablinks) /\ Bound(name) = Own(name)
           \/ name \in DOMAIN symPtr /\ ~SkippedItab(name) /\ Bound(name) = symPtr[name]
  BY <1>1, <1>5, BoundIs
<1>10. PhasesInv'
  BY <1>1, <1>3, <1>4, <1>7 DEF PhasesInv
<1>11. \A n : Own(n)' = Own(n) /\ IsItab(n)' = IsItab(n) /\ IsType(n)' = IsType(n)
  BY DEF Own, IsItab, IsType
<1>12. Range(itablinks)' = Range(itablinks) \cup IF NeedsItab(name) THEN {name} ELSE {}
  <2>1. CASE NeedsItab(name)
    <3>1. name \in {n \in Names : IsItab(n)}
      BY <1>5, <1>9, <2>1
    <3>2. Range(Append(itablinks, name)) = Range(itablinks) \cup {name}
      BY <1>4, <3>1, AppendedRange
    <3> QED BY <1>8, <2>1, <3>2
  <2>2. CASE ~NeedsItab(name)
    BY <1>8, <2>2 DEF Range
  <2> QED BY <2>1, <2>2
<1>13. TablesInv'
  <2>1. /\ firstModule = Originals
        /\ \A n \in Names :
             /\ Symbol(n).defined \/ n \in DOMAIN symPtr
             /\ ~IsItab(n) => n \in DOMAIN symbolMap /\ symbolMap[n] = Entry(n)
             /\ IsItab(n) => (n \in DOMAIN symbolMap <=> n \in DOMAIN symPtr \cup Range(itablinks))
             /\ IsItab(n) /\ n \in DOMAIN symbolMap =>
                  symbolMap[n] = IF n \in Range(itablinks) THEN Own(n) ELSE symPtr[n]
    BY <1>1 DEF BindingInv, TablesInv
  <2>2. CASE ~NeedsItab(name)
    <3>1. symbolMap' = symbolMap /\ Range(itablinks)' = Range(itablinks)
      BY <1>8, <1>12, <2>2
    <3> QED BY <1>1, <1>3, <1>11, <2>1, <3>1 DEF TablesInv
  <2>3. CASE NeedsItab(name)
    <3>1. /\ symbolMap' = Put(symbolMap, name, Own(name)) /\ IsItab(name)
          /\ Range(itablinks)' = Range(itablinks) \cup {name}
      BY <1>8, <1>9, <1>12, <2>3
    <3>2. /\ DOMAIN symbolMap' = DOMAIN symbolMap \cup {name}
          /\ symbolMap'[name] = Own(name)
          /\ \A n \in DOMAIN symbolMap : n # name => symbolMap'[n] = symbolMap[n]
      BY <3>1 DEF Put
    <3> QED BY <1>1, <1>3, <1>11, <2>1, <3>1, <3>2 DEF TablesInv
  <2> QED BY <2>2, <2>3
<1>14. ItablinksInv'
  <2>1. \A n \in Range(itablinks) :
          \E q \in Places(module) \ pending' : Target(q) = n /\ places'[q] = Own(n)
    <3> SUFFICES ASSUME NEW n \in Range(itablinks)
                 PROVE  \E q \in Places(module) \ pending' : Target(q) = n /\ places'[q] = Own(n)
      OBVIOUS
    <3>1. PICK q \in Places(module) \ pending : Target(q) = n /\ places[q] = Own(n)
      BY <1>4
    <3> QED BY <1>1, <1>7, <3>1
  <2>2. CASE ~NeedsItab(name)
    <3>1. itablinks' = itablinks /\ Range(itablinks)' = Range(itablinks)
      BY <1>8, <1>12, <2>2
    <3> QED BY <1>3, <1>4, <1>11, <2>1, <3>1 DEF ItablinksInv
  <2>3. CASE NeedsItab(name)
    <3>1. /\ itablinks' = Append(itablinks, name) /\ name \in {n \in Names : IsItab(n)}
          /\ SkippedItab(name) \/ name \notin Range(itablinks)
      BY <1>5, <1>8, <1>9, <1>12, <2>3
    <3>2. PICK last : /\ last \notin DOMAIN itablinks /\ itablinks'[last] = name
                      /\ DOMAIN itablinks' = DOMAIN itablinks \cup {last}
                      /\ \A i \in DOMAIN itablinks : itablinks'[i] = itablinks[i]
      BY <1>4, <3>1, AppendedRange
    <3>3. itablinks' \in Seq({n \in Names : IsItab(n)})
      BY <1>4, <3>1, AppendedRange
    <3>4. \A i, j \in DOMAIN itablinks' :
            itablinks'[i] = itablinks'[j] => i = j \/ SkippedItab(itablinks'[i])
      <4>1. ASSUME NEW i \in DOMAIN itablinks, itablinks[i] = name PROVE SkippedItab(name)
        BY <3>1, <4>1 DEF Range
      <4> QED BY <1>4, <3>2, <4>1
    <3>5. p \in Places(module) \ pending' /\ Target(p) = name /\ places'[p] = Own(name)
      BY <1>1, <1>4, <1>5, <1>6, <1>7, <2>3
    <3>6. \A n \in Range(itablinks)' : n \in Range(itablinks) \/ n = name
      BY <1>12
    <3> QED BY <1>3, <1>11, <2>1, <3>3, <3>4, <3>5, <3>6 DEF ItablinksInv
  <2> QED BY <2>2, <2>3
<1>15. PlacesInv'
  <2>1. ASSUME NEW q \in Places(module), q \notin pending'
        PROVE  Holds(q)'
    <3>1. CASE q = p
      <4>1. Target(q)' = name /\ places'[q] = value /\ phase' = "relocating"
        BY <1>1, <1>3, <1>5, <1>7, <3>1
      <4>2. CASE IsItab(name) /\ NeedsItab(name)
        BY <1>1, <1>6, <1>11, <1>12, <4>1, <4>2 DEF Holds
      <4>3. CASE IsItab(name) /\ ~NeedsItab(name)
        BY <1>1, <1>3, <1>6, <1>9, <1>11, <1>12, <4>1, <4>3 DEF Holds
      <4>4. CASE ~IsItab(name)
        BY <1>3, <1>6, <1>9, <1>11, <4>1, <4>4 DEF Holds
      <4> QED BY <4>2, <4>3, <4>4
    <3>2. CASE q # p
      <4>1. Holds(q) /\ places'[q] = places[q]
        BY <1>1, <1>7, <2>1, <3>2 DEF BindingInv, PlacesInv
      <4> QED BY <1>1, <1>3, <1>11, <1>12, <4>1 DEF Holds
    <3> QED BY <3>1, <3>2
  <2> QED BY <1>1, <1>3, <2>1 DEF PlacesInv
<1> QED BY <1>1, <1>2, <1>10, <1>13, <1>14, <1>15 DEF BindingInv, ExportsInv

LEMMA BuildModuleKeeps ==
  ASSUME BindingInv, BuildModule
  PROVE  BindingInv'
<1>1. /\ UNCHANGED registryVars /\ UNCHANGED <<host, module, symPtr, tables, places, itablinks>>
      /\ UNCHANGED <<symbolMap, firstModule>>
      /\ phase = "relocating" /\ pending = {}
      /\ \/ phase' = "deduplicating" /\ pending' = OwnTypes
         \/ phase' = "untyped" /\ pending' = {}
      /\ Registered /\ Registered'
  BY DEF BuildModule, registryVars, layoutVars, tables, Registered, BindingInv, PhasesInv
<1>2. RegistryInv'
  BY <1>1, RegistryKeeps DEF BindingInv
<1>3. /\ Names' = Names /\ Places(module)' = Places(module) /\ OwnTypes' = OwnTypes
      /\ Originals' = Originals
      /\ \A n : /\ Symbol(n)' = Symbol(n) /\ Entry(n)' = Entry(n) /\ AtFirst(n)' = AtFirst(n)
                /\ InTheEnd(n)' = InTheEnd(n) /\ SkippedItab(n)' = SkippedItab(n)
      /\ \A q : Target(q)' = Target(q)
  BY <1>1, Unmoved
<1>4. \A n : Own(n)' = Own(n) /\ IsItab(n)' = IsItab(n) /\ IsType(n)' = IsType(n)
  BY DEF Own, IsItab, IsType
<1>5. Range(itablinks)' = Range(itablinks)
  BY <1>1 DEF Range
<1>6. PhasesInv'
  BY <1>1, <1>3 DEF BindingInv, PhasesInv, OwnTypes
<1>7. TablesInv'
  BY <1>1, <1>3, <1>4, <1>5 DEF BindingInv, TablesInv
<1>8. ItablinksInv'
  BY <1>1, <1>3, <1>4, <1>5 DEF BindingInv, ItablinksInv
<1>9. PlacesInv'
  <2>1. ASSUME NEW q \in Places(module), phase' = "deduplicating"
        PROVE  Holds(q)'
    <3>1. Holds(q) /\ pending' = OwnTypes
      BY <1>1, <2>1 DEF BindingInv, PlacesInv
    <3>2. CASE q \in OwnTypes \/ ~IsType(Target(q))
      BY <1>1, <1>3, <1>4, <1>5, <2>1, <3>1, <3>2 DEF Holds
    <3>3. CASE q \notin OwnTypes /\ IsType(Target(q))
      <4>1. ~Symbol(Target(q)).defined
        BY <3>3 DEF OwnTypes
      <4>2. InTheEnd(Target(q)) = Entry(Target(q))
        BY <4>1 DEF InTheEnd, IsReplaced
      <4> QED BY <1>1, <1>3, <1>4, <1>5, <2>1, <3>1, <4>2 DEF Holds
    <3> QED BY <3>2, <3>3
  <2> QED BY <1>1, <1>3, <2>1 DEF PlacesInv
<1> QED BY <1>1, <1>2, <1>6, <1>7, <1>8, <1>9 DEF BindingInv, ExportsInv

LEMMA DeduplicateKeeps ==
  ASSUME BindingInv, NEW p \in pending, Deduplicate(p)
  PROVE  BindingInv'
<1>1. /\ UNCHANGED registryVars /\ UNCHANGED <<host, module, symPtr, symbolMap, firstModule, itablinks>>
      /\ phase = "deduplicating" /\ phase' \in {"deduplicating", "panic"}
      /\ pending' = pending \ {p} /\ Registered /\ Registered'
  BY DEF Deduplicate, registryVars, layoutVars, tables, Registered, BindingInv, PhasesInv
<1>2. RegistryInv'
  BY <1>1, RegistryKeeps DEF BindingInv
<1>3. /\ Names' = Names /\ Places(module)' = Places(module) /\ OwnTypes' = OwnTypes
      /\ Originals' = Originals
      /\ \A n : /\ Symbol(n)' = Symbol(n) /\ Entry(n)' = Entry(n) /\ AtFirst(n)' = AtFirst(n)
                /\ InTheEnd(n)' = InTheEnd(n) /\ SkippedItab(n)' = SkippedItab(n)
      /\ \A q : Target(q)' = Target(q)
  BY <1>1, Unmoved
<1>4. \A n : Own(n)' = Own(n) /\ IsItab(n)' = IsItab(n) /\ IsType(n)' = IsType(n)
  BY DEF Own, IsItab, IsType
<1>5. Range(itablinks)' = Range(itablinks)
  BY <1>1 DEF Range
<1>6. /\ p \in OwnTypes /\ p \in Places(module) /\ DOMAIN places = Places(module)
      /\ pending \subseteq OwnTypes /\ pending \subseteq Places(module)
      /\ IsType(Target(p)) /\ Symbol(Target(p)).defined
  BY <1>1 DEF BindingInv, PhasesInv, OwnTypes
<1>7. PICK name, t : name = Target(p) /\ t = Candidate(name)
  OBVIOUS
<1>8. IF phase' = "deduplicating" /\ IsReplaced(name)
      THEN places' = [places EXCEPT ![p] = HostType(t)]
      ELSE places' = places
  BY <1>1, <1>6, <1>7 DEF Deduplicate, IsReplaced
<1>9. /\ DOMAIN places' = Places(module)
      /\ \A q \in Places(module) \ {p} : places'[q] = places[q]
      /\ places'[p] = IF phase' = "deduplicating" /\ IsReplaced(name) THEN HostType(t) ELSE places[p]
  BY <1>6, <1>8
<1>10. PhasesInv'
  BY <1>1, <1>3, <1>6, <1>9 DEF PhasesInv
<1>11. TablesInv'
  BY <1>1, <1>3, <1>4, <1>5 DEF BindingInv, TablesInv
<1>12. ItablinksInv'
  <2>1. \A n \in Range(itablinks) : \E q \in Places(module) : Target(q) = n /\ places'[q] = Own(n)
    <3> SUFFICES ASSUME NEW n \in Range(itablinks)
                 PROVE  \E q \in Places(module) : Target(q) = n /\ places'[q] = Own(n)
      OBVIOUS
    <3>1. PICK q \in Places(module) : Target(q) = n /\ places[q] = Own(n)
      BY DEF BindingInv, ItablinksInv
    <3>2. IsItab(n)
      <4>1. itablinks \in Seq({i \in Names : IsItab(i)})
        BY DEF BindingInv, ItablinksInv
      <4> QED BY <4>1 DEF Range
    <3>3. q # p
      BY <1>6, <3>1, <3>2 DEF IsItab, IsType
    <3> QED BY <1>9, <3>1, <3>3
  <2>2. phase' # "relocating"
    BY <1>1
  <2> QED BY <1>1, <1>3, <1>4, <1>5, <2>1, <2>2 DEF BindingInv, ItablinksInv
<1>13. PlacesInv'
  <2>1. ASSUME NEW q \in Places(module)
        PROVE  Holds(q)'
    <3>1. Holds(q) /\ Holds(p)
      BY <1>1, <1>6 DEF BindingInv, PlacesInv
    <3>2. CASE q = p
      <4>1. places[p] = Entry(name) /\ IsType(name) /\ ~IsItab(name)
        BY <1>1, <1>6, <1>7, <3>1 DEF Holds, IsItab, IsType
      <4>2. phase' # "panic" => places'[p] = InTheEnd(name)
        BY <1>1, <1>7, <1>9, <4>1 DEF InTheEnd
      <4>3. p \notin pending'
        BY <1>1
      <4>4. Target(q)' = name
        BY <1>3, <1>7, <3>2
      <4> QED BY <1>1, <1>3, <1>4, <3>2, <4>1, <4>2, <4>3, <4>4 DEF Holds
    <3>3. CASE q # p
      <4>1. places'[q] = places[q] /\ (q \in pending' <=> q \in pending)
        BY <1>1, <1>9, <3>3
      <4> QED BY <1>1, <1>3, <1>4, <1>5, <3>1, <4>1 DEF Holds
    <3> QED BY <3>2, <3>3
  <2> QED BY <1>1, <1>3, <2>1 DEF PlacesInv
<1> QED BY <1>1, <1>2, <1>10, <1>11, <1>12, <1>13 DEF BindingInv, ExportsInv

LEMMA BuildExportsKeeps ==
  ASSUME BindingInv, BuildExports
  PROVE  BindingInv'
<1>1. /\ UNCHANGED registryVars
      /\ UNCHANGED <<host, module, symPtr, symbolMap, firstModule, places, itablinks, pending, deduped>>
      /\ phase = "deduplicating" /\ phase' = "loaded" /\ pending = {}
      /\ Registered /\ Registered'
      /\ exports' = {[symbol |-> e.symbol, addr |-> symbolMap[e.symbol],
                      typeName |-> e.type, type |-> ExportedType(e.type)] : e \in module.exports}
  BY DEF BuildExports, registryVars, layoutVars, tables, Registered, BindingInv, PhasesInv
<1>2. RegistryInv'
  BY <1>1, RegistryKeeps DEF BindingInv
<1>3. /\ Names' = Names /\ Places(module)' = Places(module) /\ Originals' = Originals
      /\ \A n : /\ Symbol(n)' = Symbol(n) /\ Entry(n)' = Entry(n) /\ AtFirst(n)' = AtFirst(n)
                /\ InTheEnd(n)' = InTheEnd(n) /\ SkippedItab(n)' = SkippedItab(n)
      /\ \A q : Target(q)' = Target(q)
  BY <1>1, Unmoved
<1>4. \A n : Own(n)' = Own(n) /\ IsItab(n)' = IsItab(n) /\ IsType(n)' = IsType(n)
  BY DEF Own, IsItab, IsType
<1>5. Range(itablinks)' = Range(itablinks)
  BY <1>1 DEF Range
<1>6. PhasesInv'
  BY <1>1, <1>3 DEF BindingInv, PhasesInv
<1>7. TablesInv'
  BY <1>1, <1>3, <1>4, <1>5 DEF BindingInv, TablesInv
<1>8. ItablinksInv'
  BY <1>1, <1>3, <1>4, <1>5 DEF BindingInv, ItablinksInv
<1>9. PlacesInv'
  <2>1. ASSUME NEW q \in Places(module)
        PROVE  Holds(q)'
    <3>1. Holds(q)
      BY <1>1 DEF BindingInv, PlacesInv
    <3> QED BY <1>1, <1>3, <1>4, <1>5, <3>1 DEF Holds
  <2> QED BY <1>1, <1>3, <2>1 DEF PlacesInv
<1>10. ExportsInv'
  <2>1. \A n : ExportedType(n)' = ExportedType(n)
    BY <1>1 DEF ExportedType, Lookup, HostType, Symbol, Zero
  <2> QED BY <1>1, <2>1 DEF ExportsInv
<1> QED BY <1>2, <1>6, <1>7, <1>8, <1>9, <1>10 DEF BindingInv

LEMMA StutteringKeeps ==
  ASSUME BindingInv, UNCHANGED vars
  PROVE  BindingInv'
<1>1. /\ UNCHANGED registryVars
      /\ UNCHANGED <<host, module, symPtr, symbolMap, firstModule, places, itablinks, pending, deduped,
                     exports, phase>>
      /\ Registered' = Registered
  BY DEF vars, registryVars, layoutVars, tables, Registered
<1>2. RegistryInv'
  BY <1>1, RegistryKeeps DEF BindingInv
<1>3. /\ Names' = Names /\ Places(module)' = Places(module) /\ Originals' = Originals
      /\ OwnTypes' = OwnTypes
      /\ \A n : /\ Symbol(n)' = Symbol(n) /\ Entry(n)' = Entry(n) /\ AtFirst(n)' = AtFirst(n)
                /\ InTheEnd(n)' = InTheEnd(n) /\ SkippedItab(n)' = SkippedItab(n)
      /\ \A q : Target(q)' = Target(q)
  BY <1>1, Unmoved
<1>4. \A n : Own(n)' = Own(n) /\ IsItab(n)' = IsItab(n) /\ IsType(n)' = IsType(n)
  BY DEF Own, IsItab, IsType
<1>5. Range(itablinks)' = Range(itablinks)
  BY <1>1 DEF Range
<1>6. PhasesInv'
  BY <1>1, <1>3 DEF BindingInv, PhasesInv
<1>7. TablesInv'
  BY <1>1, <1>3, <1>4, <1>5 DEF BindingInv, TablesInv
<1>8. ItablinksInv'
  BY <1>1, <1>3, <1>4, <1>5 DEF BindingInv, ItablinksInv
<1>9. PlacesInv'
  <2>1. ASSUME NEW q PROVE Holds(q)' = Holds(q)
    BY <1>1, <1>3, <1>4, <1>5 DEF Holds
  <2> QED BY <1>1, <1>3, <2>1 DEF BindingInv, PlacesInv
<1>10. ExportsInv'
  <2>1. \A n : ExportedType(n)' = ExportedType(n)
    BY <1>1 DEF ExportedType, Lookup, HostType, Symbol, Zero
  <2> QED BY <1>1, <2>1 DEF BindingInv, ExportsInv
<1> QED BY <1>2, <1>6, <1>7, <1>8, <1>9, <1>10 DEF BindingInv

LEMMA BindingHolds == Spec => []BindingInv
<1>1. Init => BindingInv
  BY BindingBegins
<1>2. BindingInv /\ [Next]_vars => BindingInv'
  BY EarlierStepsKeep, AddSymbolMapKeeps, RelocateKeeps, BuildModuleKeeps, DeduplicateKeeps,
     BuildExportsKeeps, StutteringKeeps DEF Next
<1> QED BY <1>1, <1>2, PTL DEF Spec

\* What holds of the places and exports of a module that is loaded.
LEMMA LoadedIs ==
  ASSUME BindingInv, Loaded
  PROVE  /\ Given /\ AddressesTrue /\ stage = "registered" /\ PackagesSeen
         /\ firstModule = Originals
         /\ \A n \in Names : Symbol(n).defined \/ n \in DOMAIN symPtr
         /\ \A n \in Names : ~IsItab(n) => n \in DOMAIN symbolMap /\ symbolMap[n] = Entry(n)
         /\ \A p \in Places(module) :
              LET n == Target(p) IN
              /\ n \in Names
              /\ IsItab(n) =>
                   \/ places[p] = Own(n) /\ n \in Range(itablinks)
                   \/ places[p] = symPtr[n] /\ n \in DOMAIN symPtr /\ ~SkippedItab(n)
              /\ IsType(n) => places[p] = InTheEnd(n)
              /\ ~IsItab(n) /\ ~IsType(n) => places[p] = AtFirst(n)
<1>1. /\ Given /\ AddressesTrue /\ PackagesSeen /\ phase = "loaded" /\ pending = {}
      /\ stage = "registered"
  BY DEF BindingInv, RegistryInv, PhasesInv, Loaded, Registered
<1>2. /\ firstModule = Originals
      /\ \A n \in Names : Symbol(n).defined \/ n \in DOMAIN symPtr
      /\ \A n \in Names : ~IsItab(n) => n \in DOMAIN symbolMap /\ symbolMap[n] = Entry(n)
  BY <1>1 DEF BindingInv, TablesInv
<1>3. ASSUME NEW p \in Places(module)
      PROVE  LET n == Target(p) IN
             /\ n \in Names
             /\ IsItab(n) =>
                  \/ places[p] = Own(n) /\ n \in Range(itablinks)
                  \/ places[p] = symPtr[n] /\ n \in DOMAIN symPtr /\ ~SkippedItab(n)
             /\ IsType(n) => places[p] = InTheEnd(n)
             /\ ~IsItab(n) /\ ~IsType(n) => places[p] = AtFirst(n)
  <2>1. Target(p) \in Names
    BY <1>1, TargetsAre
  <2>2. Holds(p)
    BY <1>1 DEF BindingInv, PlacesInv
  <2> QED BY <1>1, <2>1, <2>2 DEF Holds, IsItab, IsType
<1> QED BY <1>1, <1>2, <1>3

\* Where the program's copy is known and the two ways to ask for skipped packages agree,
\* a function, variable or init task is the module's own if it has it and skips it.
LEMMA SharedIs ==
  ASSUME BindingInv, Loaded, NEW p \in Places(module), NEW n, n = Target(p),
         n[1] \in {"func", "var", "init"}, n \in DOMAIN symPtr,
         SkippedByName(n) <=> SkippedByPackage(n)
  PROVE  IsOwn(places[p]) <=> SkippedByPackage(n) /\ Symbol(n).defined
<1>1. places[p] = AtFirst(n) /\ n \in Names /\ Given /\ RegistryInv
  BY LoadedIs DEF IsItab, IsType, BindingInv
<1>2. ~IsType(n) /\ ~IsItab(n) /\ ~IsOwn(symPtr[n]) /\ IsOwn(Own(n))
  BY <1>1, ItsAddresses DEF IsType, IsItab, IsOwn, Own
<1>3. CASE ~SkippedByPackage(n)
  <2>1. IsDuplicate(n)
    BY <1>2, <1>3 DEF IsDuplicate
  <2>2. n \in DOMAIN Originals /\ Originals[n] = symPtr[n]
    BY <1>1, <2>1 DEF Originals, Names
  <2> QED BY <1>1, <1>2, <1>3, <2>2 DEF AtFirst
<1>4. CASE SkippedByPackage(n)
  <2>1. places[p] = Entry(n)
    BY <1>1, <1>4 DEF AtFirst
  <2>2. KeepsItsOwn(n) <=> Symbol(n).defined
    BY <1>4 DEF KeepsItsOwn
  <2> QED BY <1>2, <1>4, <2>1, <2>2 DEF Entry
<1> QED BY <1>3, <1>4

LEMMA ExportedVariables ==
  ASSUME BindingInv, Loaded, NEW e \in exports, NEW p \in Places(module), NEW n, n = Target(p),
         n[1] = "var", n = e.symbol, Symbol(n).pkg # Main
  PROVE  places[p] = e.addr
<1>1. places[p] = AtFirst(n) /\ n \in Names /\ Given /\ symbolMap[n] = Entry(n)
  BY LoadedIs DEF IsItab, IsType
<1>2. e.addr = symbolMap[n]
  BY DEF BindingInv, ExportsInv, Loaded
<1>3. CASE AtFirst(n) = Entry(n)
  BY <1>1, <1>2, <1>3
<1>4. CASE n \in DOMAIN Originals /\ ~SkippedByPackage(n)
  <2>1. ~IsType(n) /\ ~IsItab(n) /\ ~IsText(n) /\ ~IsVariant(n)
    BY DEF IsType, IsItab, IsText, IsVariant
  <2>2. ~IsKeptFirst(n)
    <3>1. IsPrefix(Main \o <<".">>, n[2]) => Symbol(n).pkg = Main
      BY <1>1, ProgramsAre DEF PackagesAreBrought, Names, Symbol
    <3> QED BY <2>1, <3>1 DEF IsKeptFirst, InitTask
  <2>3. IsDuplicate(n) /\ Originals[n] = symPtr[n]
    BY <1>4, <2>1 DEF Originals, IsDuplicate
  <2>4. ~KeepsItsOwn(n)
    BY <2>1, <2>2, <2>3 DEF KeepsItsOwn, IsDuplicate
  <2> QED BY <1>1, <1>2, <2>1, <2>3, <2>4 DEF AtFirst, Entry
<1> QED BY <1>3, <1>4 DEF AtFirst

\* The init task of a package of the program's functions is known.
LEMMA ProgramsTasks ==
  ASSUME BindingInv, Loaded, NEW p \in Places(module), NEW n, n = Target(p), n[1] = "init",
         NEW f \in DOMAIN host.funcs, host.funcs[f] = Symbol(n).pkg, ~SkippedByName(n)
  PROVE  ~IsOwn(places[p])
<1>1. n \in Names /\ Given /\ stage = "registered" /\ PackagesSeen
  BY LoadedIs
<1>2. n = <<n[1], n[2]>> /\ n[2] \in Seq(STRING)
  BY <1>1, ProgramsAre DEF IsModule, IsPair, Names
<1>3. n[2] = Symbol(n).pkg
  BY <1>1, ProgramsAre DEF PackagesAreBrought, Names, Symbol
<1>4. n \in DOMAIN symPtr
  BY <1>1, <1>2, <1>3 DEF PackagesSeen, InitTask
<1>5. IsPrefix(n[2], n[2])
  BY <1>2 DEF IsPrefix
<1>6. ~SkippedByPackage(n)
  BY <1>3, <1>5 DEF SkippedByPackage, SkippedByName
<1> QED BY <1>4, <1>6, SharedIs

\* A package is the program's or the module's own, with its functions, its exported variables
\* and the task that initialises it (addSymbolMap, relocate, buildExports).
THEOREM PackagesStayWhole == Spec => []PackagesAreWhole
<1>1. BindingInv => PackagesAreWhole
  <2> SUFFICES ASSUME BindingInv, Loaded
               PROVE  PackagesAreWhole
    BY DEF PackagesAreWhole
  <2>1. Given /\ PackagesAreBrought(module)
    BY LoadedIs, ProgramsAre
  <2>2. ASSUME NEW p \in Places(module), NEW q \in Places(module),
               Target(p)[1] \in {"func", "var", "init"}, Target(q)[1] \in {"func", "var", "init"},
               Target(p) \in DOMAIN symPtr, Target(q) \in DOMAIN symPtr,
               SkippedByName(Target(p)) <=> SkippedByPackage(Target(p)),
               SkippedByName(Target(q)) <=> SkippedByPackage(Target(q)),
               Symbol(Target(p)).pkg = Symbol(Target(q)).pkg
        PROVE  IsOwn(places[p]) <=> IsOwn(places[q])
    <3>1. /\ IsOwn(places[p]) <=> SkippedByPackage(Target(p)) /\ Symbol(Target(p)).defined
          /\ IsOwn(places[q]) <=> SkippedByPackage(Target(q)) /\ Symbol(Target(q)).defined
      BY <2>2, SharedIs
    <3>2. Target(p) \in Names /\ Target(q) \in Names
      BY <2>1, TargetsAre
    <3>3. SkippedByPackage(Target(p)) => Symbol(Target(p)).defined = Symbol(Target(q)).defined
      BY <2>1, <2>2, <3>2 DEF PackagesAreBrought, SkippedByPackage, Symbol, Names
    <3> QED BY <2>2, <3>1, <3>3 DEF SkippedByPackage
  <2>3. ASSUME NEW e \in exports, NEW p \in Places(module), Target(p)[1] = "var", Target(p) = e.symbol,
               Symbol(e.symbol).pkg # Main
        PROVE  places[p] = e.addr
    BY <2>3, ExportedVariables
  <2>4. ASSUME NEW p \in Places(module), Target(p)[1] = "init", NEW f \in DOMAIN host.funcs,
               host.funcs[f] = Symbol(Target(p)).pkg, ~SkippedByName(Target(p))
        PROVE  ~IsOwn(places[p])
    BY <2>4, ProgramsTasks
  <2> QED BY <2>2, <2>3, <2>4 DEF PackagesAreWhole, Pointing
<1> QED BY <1>1, BindingHolds, PTL

LEMMA ItablinksAreExact ==
  ASSUME BindingInv, Loaded
  PROVE  ItablinksExact
<1>1. /\ RegistryInv
      /\ itablinks \in Seq({n \in Names : IsItab(n)})
      /\ \A i, j \in DOMAIN itablinks :
           itablinks[i] = itablinks[j] => i = j \/ SkippedItab(itablinks[i])
      /\ \A n \in Range(itablinks) : \E p \in Places(module) : Target(p) = n /\ places[p] = Own(n)
  BY DEF BindingInv, ItablinksInv
<1>2. PICK used : used = {places[p] : p \in Pointing("itab")}
  OBVIOUS
<1>3. ASSUME NEW p \in Pointing("itab")
      PROVE  /\ places[p] # Zero
             /\ IsOwn(places[p]) => \E n \in Range(itablinks) : places[p] = Own(n)
  <2>1. p \in Places(module) /\ IsItab(Target(p))
    BY DEF Pointing, IsItab
  <2>2. \/ places[p] = Own(Target(p)) /\ Target(p) \in Range(itablinks)
        \/ places[p] = symPtr[Target(p)] /\ Target(p) \in DOMAIN symPtr
    BY <2>1, LoadedIs
  <2>3. CASE places[p] = Own(Target(p)) /\ Target(p) \in Range(itablinks)
    BY <2>3 DEF Own, Zero
  <2>4. CASE places[p] = symPtr[Target(p)] /\ Target(p) \in DOMAIN symPtr
    BY <1>1, <2>1, <2>4, ItsAddresses
  <2> QED BY <2>2, <2>3, <2>4
<1>4. Zero \notin used
  BY <1>2, <1>3
<1>5. {Own(n) : n \in Range(itablinks)} = {a \in used : IsOwn(a)}
  <2>1. ASSUME NEW n \in Range(itablinks)
        PROVE  Own(n) \in used /\ IsOwn(Own(n))
    <3>1. PICK p \in Places(module) : Target(p) = n /\ places[p] = Own(n)
      BY <1>1
    <3>2. n[1] = "itab"
      BY <1>1 DEF Range, IsItab
    <3> QED BY <1>2, <3>1, <3>2 DEF Pointing, IsOwn, Own
  <2>2. ASSUME NEW a \in used, IsOwn(a)
        PROVE  \E n \in Range(itablinks) : a = Own(n)
    BY <1>2, <1>3, <2>2
  <2> QED BY <2>1, <2>2
<1>6. ASSUME NEW n \in Range(itablinks), ~SkippedItab(n)
      PROVE  Cardinality({i \in DOMAIN itablinks : itablinks[i] = n}) = 1
  <2>1. PICK i \in DOMAIN itablinks : itablinks[i] = n
    BY DEF Range
  <2>2. ASSUME NEW j \in DOMAIN itablinks, itablinks[j] = n PROVE j = i
    BY <1>1, <1>6, <2>1, <2>2
  <2>3. {j \in DOMAIN itablinks : itablinks[j] = n} = {i}
    BY <2>1, <2>2
  <2>4. Cardinality({i}) = 1
    BY FS_Singleton
  <2> QED BY <2>3, <2>4
<1> QED BY <1>2, <1>4, <1>5, <1>6 DEF ItablinksExact

\* Where the program's itab is used, its type has that address.
LEMMA ItabsTypes ==
  ASSUME BindingInv, Loaded,
         NEW i \in Pointing("itab"), NEW p \in Pointing("type"), ~IsOwn(places[i]),
         NEW itab, NEW type, NEW its,
         itab = Target(i), type = Target(p), its = host.itabs[itab],
         its \in Hashed(host), InProgram(ClassOf(type)) = {its},
         NamesFail => Symbol(type).defined
  PROVE  places[p] = HostType(its)
<1>1. /\ i \in Places(module) /\ p \in Places(module) /\ IsItab(itab) /\ IsType(type)
      /\ RegistryInv /\ Given
  BY LoadedIs DEF Pointing, IsItab, IsType, BindingInv
<1>2. type \in Names /\ places[p] = InTheEnd(type) /\ (Symbol(type).defined \/ type \in DOMAIN symPtr)
  BY <1>1, LoadedIs
<1>3. itab \in DOMAIN symPtr /\ ~SkippedItab(itab)
  <2>1. IsOwn(Own(itab))
    BY DEF IsOwn, Own
  <2> QED BY <1>1, <2>1, LoadedIs
<1>4. host.types[its].pkg \notin module.skip
  <2>1. itab \in DOMAIN host.itabs
    BY <1>1, <1>3, ItsAddresses
  <2>2. IsPrefix(host.types[its].pkg, Unstarred(itab[2]))
    <3>1. ItabsAreNamed(host)
      BY <1>1, ProgramsAre
    <3> QED BY <2>1, <3>1 DEF ItabsAreNamed
  <2> QED BY <1>3, <2>2 DEF SkippedItab
<1>5. CASE Symbol(type).defined
  <2>1. Equals(type) = {its}
    <3>1. Hashed(host) \subseteq DOMAIN host.types
      BY <1>1, ProgramsAre, HashedAreTypes
    <3> QED BY <3>1 DEF Equals, InProgram, ClassOf
  <2>2. Candidate(type) = its
    BY <2>1 DEF Candidate
  <2> QED BY <1>2, <1>4, <1>5, <2>1, <2>2 DEF InTheEnd, IsReplaced
<1>6. CASE ~Symbol(type).defined
  <2>1. places[p] = symPtr[type] /\ type \in DOMAIN symPtr
    BY <1>2, <1>6 DEF InTheEnd, IsReplaced, Entry, KeepsItsOwn
  <2>2. PICK t \in DOMAIN host.types : type = NameIn(host, t) /\ symPtr[type] = HostType(t)
    BY <1>1, <2>1, ItsAddresses DEF TypeName
  <2>3. host.types[t].class = module.symbols[type].class
    <3>1. NamesAreMade(host, module)
      BY <1>1, <1>6, ProgramsAre
    <3> QED BY <1>1, <1>2, <1>6, <2>2, <3>1 DEF NamesAreMade, Names, Symbol
  <2>4. t = its
    BY <2>3 DEF InProgram, ClassOf, Symbol
  <2> QED BY <2>1, <2>2, <2>4
<1> QED BY <1>5, <1>6

\* The itabs handed to the runtime are those used, and code and itabs have one copy
\* of each type (relocate, deduplicateTypeDescriptors).
THEOREM ItabsStayInAgreement == Spec => []ItabsAgree
<1>1. BindingInv => ItabsAgree
  <2> SUFFICES ASSUME BindingInv, Loaded
               PROVE  ItabsAgree
    BY DEF ItabsAgree
  <2>1. ItablinksExact
    BY ItablinksAreExact
  <2>2. ASSUME NEW i \in Pointing("itab"), NEW p \in Pointing("type"),
               Target(p) = Symbol(Target(i)).refs[1], IsOwn(places[i])
        PROVE  places[p] = places[<<Target(i), 1>>]
    <3>1. Given /\ i \in Places(module) /\ p \in Places(module) /\ IsItab(Target(i))
          /\ IsType(Target(p)) /\ Target(i) \in Names
      BY LoadedIs DEF Pointing, IsItab, IsType
    <3>2. /\ Symbol(Target(i)).refs \in Seq(Names) /\ Symbol(Target(i)).refs # <<>>
      BY <3>1, ProgramsAre DEF IsLinkable, IsModule, Names, Symbol
    <3>3. 1 \in DOMAIN Symbol(Target(i)).refs
      BY <3>2
    <3>4. <<Target(i), 1>> \in {Target(i)} \X DOMAIN module.symbols[Target(i)].refs
      BY <3>3 DEF Symbol
    <3>5. <<Target(i), 1>> \in Places(module)
      BY <3>1, <3>4 DEF Places, Names
    <3>6. Target(<<Target(i), 1>>) = Target(p)
      <4>1. Target(<<Target(i), 1>>) = Symbol(Target(i)).refs[1]
        BY DEF Target
      <4> QED BY <2>2, <4>1
    <3> QED BY <3>1, <3>5, <3>6, LoadedIs
  <2>3. ASSUME NEW i \in Pointing("itab"), NEW p \in Pointing("type"),
               Target(p) = Symbol(Target(i)).refs[1], ~IsOwn(places[i]),
               host.itabs[Target(i)] \in Hashed(host),
               InProgram(ClassOf(Target(p))) = {host.itabs[Target(i)]},
               NamesFail => Symbol(Target(p)).defined
        PROVE  places[p] = HostType(host.itabs[Target(i)])
    BY <2>3, ItabsTypes
  <2> QED BY <2>1, <2>2, <2>3 DEF ItabsAgree
<1> QED BY <1>1, BindingHolds, PTL

(***************************************************************************)
(* The types.                                                              *)
(***************************************************************************)

IsRegistered(t) == TypeName(t) \in DOMAIN symPtr

\* What a type is built of is registered with it, or is still to come, as the types of
\* the type links are.
WalkInv ==
  /\ \A l \in Range(host.links) : IsRegistered(l) \/ l \in Range(todo)
  /\ \A t \in DOMAIN host.types :
       IsRegistered(t) /\ symPtr[TypeName(t)] = HostType(t) =>
         \A e \in Range(host.types[t].elems) : IsRegistered(e) \/ e \in Range(todo)

\* deduplicatedTypes has what every place was compared with that the pass came by.
DedupedInv ==
  /\ phase \in {"registering", "failed", "relocating", "untyped"} => deduped = <<>>
  /\ \A n \in DOMAIN deduped : Equals(n) # {} /\ deduped[n] = HostType(Candidate(n))
  /\ phase \in {"deduplicating", "loaded"} =>
       \A p \in OwnTypes \ pending : Equals(Target(p)) # {} => Target(p) \in DOMAIN deduped
  /\ phase = "panic" =>
       \E p \in OwnTypes :
         LET n == Target(p) IN
         Equals(n) # {} /\ HostType(Candidate(n)) # Lookup(firstModule, n) /\ ~IsVariant(n)

LEMMA JoinedRange ==
  ASSUME NEW S, NEW s \in Seq(S), NEW r \in Seq(S)
  PROVE  Range(s \o r) = Range(s) \cup Range(r)
<1>1. /\ \A i \in DOMAIN s : i \in DOMAIN (s \o r) /\ (s \o r)[i] = s[i]
      /\ \A i \in DOMAIN r : Len(s) + i \in DOMAIN (s \o r) /\ (s \o r)[Len(s) + i] = r[i]
      /\ \A i \in DOMAIN (s \o r) :
           i \in DOMAIN s \/ (i - Len(s) \in DOMAIN r /\ (s \o r)[i] = r[i - Len(s)])
  OBVIOUS
<1>2. PICK joined : joined = s \o r
  OBVIOUS
<1>3. \A q, e : e \in Range(q) <=> \E i \in DOMAIN q : e = q[i]
  BY DEF Range
<1>4. ASSUME NEW e \in Range(s) PROVE e \in Range(joined)
  <2>1. PICK i \in DOMAIN s : e = s[i]
    BY <1>3, <1>4
  <2>2. i \in DOMAIN joined /\ e = joined[i]
    BY <1>1, <1>2, <2>1
  <2> QED BY <1>3, <2>2
<1>5. ASSUME NEW e \in Range(r) PROVE e \in Range(joined)
  <2>1. PICK i \in DOMAIN r : e = r[i]
    BY <1>3, <1>5
  <2>2. Len(s) + i \in DOMAIN joined /\ e = joined[Len(s) + i]
    BY <1>1, <1>2, <2>1
  <2> QED BY <1>3, <2>2
<1>6. ASSUME NEW e \in Range(joined) PROVE e \in Range(s) \/ e \in Range(r)
  <2>1. PICK i \in DOMAIN joined : e = joined[i]
    BY <1>3, <1>6
  <2>2. \/ i \in DOMAIN s /\ e = s[i]
        \/ i - Len(s) \in DOMAIN r /\ e = r[i - Len(s)]
    BY <1>1, <1>2, <2>1
  <2> QED BY <1>3, <2>2
<1> QED BY <1>2, <1>4, <1>5, <1>6

LEMMA HeadAndTail ==
  ASSUME NEW S, NEW s \in Seq(S), s # <<>>
  PROVE  Range(s) = {Head(s)} \cup Range(Tail(s)) /\ Tail(s) \in Seq(S)
<1>1. /\ Head(s) = s[1] /\ 1 \in DOMAIN s /\ Tail(s) \in Seq(S)
      /\ \A i \in DOMAIN Tail(s) : i + 1 \in DOMAIN s /\ Tail(s)[i] = s[i + 1]
      /\ \A i \in DOMAIN s : i = 1 \/ (i - 1 \in DOMAIN Tail(s) /\ Tail(s)[i - 1] = s[i])
  OBVIOUS
<1>2. PICK tail, head : tail = Tail(s) /\ head = Head(s)
  OBVIOUS
<1>3. \A q, e : e \in Range(q) <=> \E i \in DOMAIN q : e = q[i]
  BY DEF Range
<1>4. head \in Range(s)
  BY <1>1, <1>2, <1>3
<1>5. ASSUME NEW e \in Range(tail) PROVE e \in Range(s)
  <2>1. PICK i \in DOMAIN tail : e = tail[i]
    BY <1>3, <1>5
  <2>2. i + 1 \in DOMAIN s /\ e = s[i + 1]
    BY <1>1, <1>2, <2>1
  <2> QED BY <1>3, <2>2
<1>6. ASSUME NEW e \in Range(s), e # head PROVE e \in Range(tail)
  <2>1. PICK i \in DOMAIN s : e = s[i]
    BY <1>3, <1>6
  <2>2. i - 1 \in DOMAIN tail /\ e = tail[i - 1]
    BY <1>1, <1>2, <1>6, <2>1
  <2> QED BY <1>3, <2>2
<1> QED BY <1>1, <1>2, <1>4, <1>5, <1>6

LEMMA WalkSteps ==
  ASSUME RegistryInv, WalkInv, RegisterType
  PROVE  WalkInv'
<1>1. PICK t, name, T, elems :
        t = Head(todo) /\ name = TypeName(t) /\ T = DOMAIN host.types /\ elems = host.types[t].elems
  OBVIOUS
<1>2. todo # <<>> /\ t \in T /\ Tail(todo) \in Seq(T) /\ elems \in Seq(T) /\ todo \in Seq(T)
  <2>1. todo # <<>> BY DEF RegisterType
  <2>2. todo \in Seq(T)
    BY <1>1 DEF RegistryInv
  <2>3. \A u \in T : host.types[u].elems \in Seq(T)
    BY <1>1, ProgramsAre DEF RegistryInv, IsProgram
  <2> QED BY <1>1, <2>1, <2>2, <2>3
<1>3. /\ host' = host
      /\ IF name \in DOMAIN symPtr THEN symPtr' = symPtr /\ todo' = <<>> \o Tail(todo)
         ELSE symPtr' = Put(symPtr, name, HostType(t)) /\ todo' = elems \o Tail(todo)
  BY <1>1 DEF RegisterType
<1>4. Range(todo) = {t} \cup Range(Tail(todo))
  BY <1>1, <1>2, HeadAndTail
<1>5. Range(todo)' = (IF name \in DOMAIN symPtr THEN {} ELSE Range(elems)) \cup Range(Tail(todo))
  <2>1. CASE name \in DOMAIN symPtr
    <3>1. todo' = Tail(todo)
      BY <1>2, <1>3, <2>1
    <3> QED BY <2>1, <3>1 DEF Range
  <2>2. CASE name \notin DOMAIN symPtr
    <3>1. Range(elems \o Tail(todo)) = Range(elems) \cup Range(Tail(todo))
      <4>1. elems \in Seq(T) /\ Tail(todo) \in Seq(T)
        BY <1>2
      <4> QED BY <4>1, JoinedRange
    <3>2. todo' = elems \o Tail(todo)
      BY <1>3, <2>2
    <3>3. Range(todo)' = Range(elems \o Tail(todo))
      BY <3>2 DEF Range
    <3> QED BY <2>2, <3>1, <3>3
  <2> QED BY <2>1, <2>2
<1>6. \A u : TypeName(u)' = TypeName(u) /\ HostType(u)' = HostType(u)
  BY <1>3 DEF TypeName, NameIn, HostType
<1>7. DOMAIN symPtr' = DOMAIN symPtr \cup {name}
  BY <1>3 DEF Put
<1>8. \A n \in DOMAIN symPtr : symPtr'[n] = symPtr[n]
  BY <1>3 DEF Put
<1>9. name \notin DOMAIN symPtr => symPtr'[name] = HostType(t)
  BY <1>3 DEF Put
<1>10. ASSUME NEW e, IsRegistered(e) \/ e \in Range(todo)
       PROVE  IsRegistered(e)' \/ e \in Range(todo)'
  BY <1>1, <1>4, <1>5, <1>6, <1>7, <1>10 DEF IsRegistered
<1>11. ASSUME NEW u \in T, IsRegistered(u)', symPtr'[TypeName(u)] = HostType(u),
              NEW e \in Range(host.types[u].elems)
       PROVE  IsRegistered(e)' \/ e \in Range(todo)'
  <2>1. CASE IsRegistered(u)
    <3>1. symPtr[TypeName(u)] = HostType(u)
      BY <1>8, <1>11, <2>1 DEF IsRegistered
    <3>2. IsRegistered(e) \/ e \in Range(todo)
      BY <1>1, <1>11, <2>1, <3>1 DEF WalkInv
    <3> QED BY <3>2, <1>10
  <2>2. CASE ~IsRegistered(u)
    <3>1. TypeName(u) = name /\ name \notin DOMAIN symPtr
      BY <1>6, <1>7, <1>11, <2>2 DEF IsRegistered
    <3>2. HostType(u) = HostType(t)
      BY <1>9, <1>11, <3>1
    <3>3. u = t
      BY <3>2 DEF HostType
    <3> QED BY <1>1, <1>5, <1>11, <3>1, <3>3
  <2> QED BY <2>1, <2>2
<1>12. \A l \in Range(host.links) : IsRegistered(l)' \/ l \in Range(todo)'
  BY <1>10 DEF WalkInv
<1> QED BY <1>1, <1>3, <1>6, <1>11, <1>12 DEF WalkInv

\* Later steps register no types.
LEMMA WalkRests ==
  ASSUME RegistryInv, WalkInv, host' = host, Range(todo) \subseteq Range(todo)',
         \A t : IsRegistered(t)' <=> IsRegistered(t),
         \A t : IsRegistered(t) => symPtr'[TypeName(t)] = symPtr[TypeName(t)]
  PROVE  WalkInv'
<1>1. \A u : TypeName(u)' = TypeName(u) /\ HostType(u)' = HostType(u)
  BY DEF TypeName, NameIn, HostType
<1> QED BY <1>1 DEF WalkInv

LEMMA WalkKeeps ==
  ASSUME RegistryInv, WalkInv, RegistryNext \/ UNCHANGED registryVars
  PROVE  WalkInv'
<1>1. CASE RegisterType
  BY <1>1, WalkSteps
<1>2. CASE UNCHANGED registryVars
  <2>1. UNCHANGED <<host, todo, symPtr>>
    BY <1>2 DEF registryVars
  <2>2. Range(todo)' = Range(todo) /\ \A t : IsRegistered(t)' <=> IsRegistered(t)
    BY <2>1 DEF Range, IsRegistered, TypeName, NameIn
  <2> QED BY <2>1, <2>2, WalkRests
<1>3. CASE RegisterFunctions
  <2>1. /\ UNCHANGED <<host, todo>>
        /\ symPtr' = Merge(symPtr, [f \in DOMAIN host.funcs |-> HostSymbol(f)])
    BY <1>3 DEF RegisterFunctions
  <2>2. \A f \in DOMAIN host.funcs : f[1] = "func"
    BY ProgramsAre DEF RegistryInv, IsProgram
  <2>3. \A t : TypeName(t)' = TypeName(t) /\ TypeName(t)[1] = "type"
    BY <2>1 DEF TypeName, NameIn
  <2>4. /\ DOMAIN symPtr' = DOMAIN symPtr \cup DOMAIN host.funcs
        /\ \A n \in DOMAIN symPtr : symPtr'[n] = symPtr[n]
    BY <2>1 DEF Merge
  <2>5. \A t : IsRegistered(t)' <=> IsRegistered(t)
    BY <2>2, <2>3, <2>4 DEF IsRegistered
  <2>6. Range(todo)' = Range(todo)
    BY <2>1 DEF Range
  <2> QED BY <2>1, <2>4, <2>5, <2>6, WalkRests DEF IsRegistered
<1>4. CASE RegisterData
  <2>1. PICK file, found, tasksOf :
          /\ file = [d \in host.data \cup DOMAIN host.itabs |-> HostSymbol(d)]
          /\ found = Merge(file, symPtr)
          /\ tasksOf = {InitTask(p) : p \in pkgSet}
    OBVIOUS
  <2>2. UNCHANGED <<host, todo>> /\ symPtr' = Merge(found, [i \in tasksOf |-> Zero])
    BY <1>4, <2>1 DEF RegisterData
  <2>3. \A d \in host.data \cup DOMAIN host.itabs : d[1] # "type"
    BY ProgramsAre DEF RegistryInv, IsProgram
  <2>4. \A d \in tasksOf : d[1] # "type"
    BY <2>1 DEF InitTask
  <2>5. \A t : TypeName(t)' = TypeName(t) /\ TypeName(t)[1] = "type"
    BY <2>2 DEF TypeName, NameIn
  <2>6. /\ DOMAIN found = host.data \cup DOMAIN host.itabs \cup DOMAIN symPtr
        /\ \A n \in DOMAIN symPtr : n[1] = "type" => found[n] = symPtr[n]
    <3>1. DOMAIN file = host.data \cup DOMAIN host.itabs
      BY <2>1
    <3>2. found = [k \in DOMAIN file \cup DOMAIN symPtr |->
                     IF k \in DOMAIN file THEN file[k] ELSE symPtr[k]]
      BY <2>1 DEF Merge
    <3> QED BY <2>3, <3>1, <3>2
  <2>7. /\ DOMAIN symPtr' = DOMAIN found \cup tasksOf
        /\ \A n \in DOMAIN found : symPtr'[n] = found[n]
    BY <2>2 DEF Merge
  <2>8. \A t : IsRegistered(t)' <=> IsRegistered(t)
    BY <2>3, <2>4, <2>5, <2>6, <2>7 DEF IsRegistered
  <2>9. \A t : IsRegistered(t) => symPtr'[TypeName(t)] = symPtr[TypeName(t)]
    BY <2>5, <2>6, <2>7 DEF IsRegistered
  <2>10. Range(todo)' = Range(todo)
    BY <2>2 DEF Range
  <2> QED BY <2>2, <2>8, <2>9, <2>10, WalkRests
<1>5. ASSUME NEW t \in DOMAIN host.types, RegTypes(t) PROVE WalkInv'
  <2>1. UNCHANGED <<host, symPtr>> /\ todo = <<>>
    BY <1>5 DEF RegTypes
  <2>2. Range(todo) = {}
    BY <2>1 DEF Range
  <2>3. \A u : IsRegistered(u)' <=> IsRegistered(u)
    BY <2>1 DEF IsRegistered, TypeName, NameIn
  <2> QED BY <2>1, <2>2, <2>3, WalkRests
<1> QED BY <1>1, <1>2, <1>3, <1>4, <1>5 DEF RegistryNext

\* In the end all types of the type hash are registered, unless names fail.
LEMMA AllAreRegistered ==
  ASSUME RegistryInv, WalkInv, todo = <<>>, ~NamesFail, NEW t \in Hashed(host)
  PROVE  TypeName(t) \in DOMAIN symPtr /\ symPtr[TypeName(t)] = HostType(t)
<1>1. IsProgram(host)
  BY ProgramsAre DEF RegistryInv
<1>2. \A u, v \in DOMAIN host.types : TypeName(u) = TypeName(v) => u = v
  BY DEF NamesFail, NamesFailIn, TypeName
<1>3. ASSUME NEW u \in DOMAIN host.types, IsRegistered(u)
      PROVE  symPtr[TypeName(u)] = HostType(u)
  <2>1. IsType(TypeName(u))
    BY DEF IsType, TypeName, NameIn
  <2>2. PICK v \in DOMAIN host.types : TypeName(u) = TypeName(v) /\ symPtr[TypeName(u)] = HostType(v)
    BY <1>3, <2>1, ItsAddresses DEF IsRegistered
  <2> QED BY <1>2, <2>2
<1>4. PICK R : R = {u \in DOMAIN host.types : IsRegistered(u)}
  OBVIOUS
<1>5. /\ Range(host.links) \subseteq DOMAIN host.types
      /\ \A u \in DOMAIN host.types : Range(host.types[u].elems) \subseteq DOMAIN host.types
  <2>1. PICK T : T = DOMAIN host.types
    OBVIOUS
  <2>2. host.links \in Seq(T) /\ \A u \in T : host.types[u].elems \in Seq(T)
    BY <1>1, <2>1 DEF IsProgram
  <2> QED BY <2>1, <2>2 DEF Range
<1>6. Range(todo) = {}
  BY DEF Range
<1>7. Range(host.links) \subseteq R /\ \A u \in R : Range(host.types[u].elems) \subseteq R
  BY <1>3, <1>4, <1>5, <1>6 DEF WalkInv
<1>8. Hashed(host) \subseteq R
  BY <1>1, <1>4, <1>7, HashedIsLeast
<1> QED BY <1>3, <1>4, <1>8 DEF IsRegistered

TypesInv == BindingInv /\ WalkInv /\ DedupedInv

LEMMA Compared ==
  ASSUME UNCHANGED <<host, module>>
  PROVE  /\ OwnTypes' = OwnTypes
         /\ \A n : /\ Equals(n)' = Equals(n) /\ HostType(Candidate(n))' = HostType(Candidate(n))
                   /\ IsVariant(n)' = IsVariant(n)
         /\ \A p : Target(p)' = Target(p)
<1>1. \A p : Target(p)' = Target(p)
  BY DEF Target, Symbol
<1>2. OwnTypes' = OwnTypes
  BY <1>1 DEF OwnTypes, Places, Symbol, IsType
<1>3. \A n : Equals(n)' = Equals(n)
  BY DEF Equals, Symbol
<1>4. \A n : HostType(Candidate(n))' = HostType(Candidate(n))
  BY <1>3 DEF HostType, Candidate
<1>5. \A n : IsVariant(n)' = IsVariant(n)
  BY DEF IsVariant, IsType
<1> QED BY <1>1, <1>2, <1>3, <1>4, <1>5

LEMMA DedupedKeeps ==
  ASSUME BindingInv, DedupedInv, [Next]_vars
  PROVE  DedupedInv'
<1>1. CASE Register \/ Place \/ AddSymbolMap \/ \E p \in pending : Relocate(p)
  <2>1. /\ phase \in {"registering", "relocating"} /\ deduped' = deduped
        /\ phase' \in {"registering", "failed", "relocating"}
    BY <1>1 DEF Register, Place, AddSymbolMap, Relocate, others
  <2>2. deduped' = <<>> /\ DOMAIN deduped' = {}
    BY <2>1 DEF DedupedInv
  <2> QED BY <2>1, <2>2 DEF DedupedInv
<1>2. CASE BuildModule
  <2>1. /\ UNCHANGED <<host, module, deduped>> /\ phase = "relocating"
        /\ (phase' = "deduplicating" /\ pending' = OwnTypes) \/ phase' = "untyped"
    BY <1>2 DEF BuildModule, registryVars, layoutVars
  <2>2. deduped' = <<>> /\ DOMAIN deduped' = {}
    BY <2>1 DEF DedupedInv
  <2>3. phase' = "untyped" \/ OwnTypes' \ pending' = {}
    BY <2>1, Compared
  <2> QED BY <2>1, <2>2, <2>3 DEF DedupedInv
<1>3. CASE UNCHANGED vars \/ BuildExports
  <2>1. /\ UNCHANGED <<host, module, firstModule, deduped, pending>>
        /\ phase' = phase \/ (phase = "deduplicating" /\ phase' = "loaded")
    BY <1>3 DEF BuildExports, vars, registryVars, layoutVars, tables
  <2>2. \A n : Lookup(firstModule, n)' = Lookup(firstModule, n)
    BY <2>1 DEF Lookup, Zero
  <2> QED BY <2>1, <2>2, Compared DEF DedupedInv
<1>4. ASSUME NEW p \in pending, Deduplicate(p)
      PROVE  DedupedInv'
  <2>1. PICK name : name = Target(p)
    OBVIOUS
  <2>2. /\ UNCHANGED <<host, module, firstModule>> /\ phase = "deduplicating"
        /\ pending' = pending \ {p}
        /\ \/ Equals(name) = {} /\ UNCHANGED <<deduped, phase>>
           \/ /\ Equals(name) # {} /\ HostType(Candidate(name)) # Lookup(firstModule, name)
              /\ ~IsVariant(name) /\ phase' = "panic" /\ deduped' = deduped
           \/ /\ Equals(name) # {} /\ deduped' = Put(deduped, name, HostType(Candidate(name)))
              /\ phase' = phase
    BY <1>4, <2>1 DEF Deduplicate, registryVars, layoutVars, tables
  <2>3. \A n : Lookup(firstModule, n)' = Lookup(firstModule, n)
    BY <2>2 DEF Lookup, Zero
  <2>4. p \in OwnTypes
    BY <2>2 DEF BindingInv, PhasesInv
  <2>5. /\ DOMAIN deduped' = DOMAIN deduped \cup IF deduped' = deduped THEN {} ELSE {name}
        /\ \A n \in DOMAIN deduped' : Equals(n) # {} /\ deduped'[n] = HostType(Candidate(n))
    BY <2>2 DEF Put, DedupedInv
  <2>6. phase' # "panic" /\ Equals(name) # {} => name \in DOMAIN deduped'
    BY <2>2 DEF Put
  <2>7. ASSUME NEW q \in OwnTypes \ pending', Equals(Target(q)) # {}, phase' = "deduplicating"
        PROVE  Target(q) \in DOMAIN deduped'
    BY <2>1, <2>2, <2>5, <2>6, <2>7 DEF DedupedInv
  <2>8. phase' \in {"deduplicating", "panic"}
    BY <2>2
  <2>9. phase' = "panic" =>
          Equals(name) # {} /\ HostType(Candidate(name)) # Lookup(firstModule, name) /\ ~IsVariant(name)
    BY <2>2
  <2>10. /\ OwnTypes' = OwnTypes
         /\ \A n : /\ Equals(n)' = Equals(n) /\ HostType(Candidate(n))' = HostType(Candidate(n))
                   /\ IsVariant(n)' = IsVariant(n)
         /\ \A q : Target(q)' = Target(q)
    BY <2>2, Compared
  <2> QED BY <2>1, <2>3, <2>4, <2>5, <2>7, <2>8, <2>9, <2>10 DEF DedupedInv
<1> QED BY <1>1, <1>2, <1>3, <1>4 DEF Next

LEMMA TypesHold == Spec => []TypesInv
<1>1. Init => WalkInv
  <2> SUFFICES ASSUME Init PROVE WalkInv
    OBVIOUS
  <2>1. todo = host.links /\ DOMAIN symPtr = {}
    BY DEF Init, RegistryInit
  <2> QED BY <2>1 DEF WalkInv, IsRegistered
<1>2. Init => DedupedInv
  BY DEF Init, DedupedInv
<1>3. BindingInv /\ WalkInv /\ [Next]_vars => WalkInv'
  <2> SUFFICES ASSUME BindingInv, WalkInv, [Next]_vars PROVE WalkInv'
    OBVIOUS
  <2>1. RegistryNext \/ UNCHANGED registryVars
    BY DEF Next, vars, Register, Place, AddSymbolMap, Relocate, BuildModule, Deduplicate, BuildExports
  <2> QED BY <2>1, WalkKeeps DEF BindingInv
<1>4. Init => BindingInv
  BY BindingBegins
<1>5. BindingInv /\ DedupedInv /\ [Next]_vars => DedupedInv'
  BY DedupedKeeps
<1> QED BY <1>1, <1>2, <1>3, <1>4, <1>5, BindingHolds, PTL DEF Spec, TypesInv

\* What a module is bound to by the name of a type that the program has under it.
LEMMA OriginalsOfTypes ==
  ASSUME Given, NEW n \in Names, IsType(n), n \in DOMAIN symPtr
  PROVE  n \in DOMAIN Originals /\ Originals[n] = symPtr[n]
<1>1. IsDuplicate(n)
  BY DEF IsDuplicate, IsKeptFirst
<1> QED BY <1>1 DEF Originals, Names

\* A type that the module does not define is found by its name.
LEMMA ExternalTypes ==
  ASSUME Given, AddressesTrue, RegistryInv, ~NamesFail,
         NEW n \in Names, IsType(n), ~Symbol(n).defined, n \in DOMAIN symPtr
  PROVE  \E t \in InProgram(ClassOf(n)) : symPtr[n] = HostType(t)
<1>1. PICK t \in DOMAIN host.types : n = NameIn(host, t) /\ symPtr[n] = HostType(t)
  BY ItsAddresses DEF TypeName
<1>2. NamesAreMade(host, module)
  BY ProgramsAre
<1>3. host.types[t].class = module.symbols[n].class
  BY <1>1, <1>2 DEF NamesAreMade, Names, Symbol
<1> QED BY <1>1, <1>3 DEF InProgram, ClassOf, Symbol

\* A type that the program has is found by the name made for it, which may be without a
\* number or mark that the symbol's has.
LEMMA FoundByName ==
  ASSUME RegistryInv, WalkInv, todo = <<>>, ~NamesFail,
         NEW n \in Names, IsType(n), NEW t \in Hashed(host), t \in InProgram(ClassOf(n))
  PROVE  n \in DOMAIN Originals /\ Originals[n] = HostType(t)
<1>1. Given /\ IsProgram(host) /\ NamesAreMade(host, module)
  BY ProgramsAre DEF RegistryInv
<1>2. /\ TypeName(t) \in DOMAIN symPtr /\ symPtr[TypeName(t)] = HostType(t)
      /\ t \in DOMAIN host.types
  BY <1>1, AllAreRegistered, HashedAreTypes
<1>3. host.types[t].class = module.symbols[n].class
  BY DEF InProgram, ClassOf, Symbol
<1>4. TypeName(t) = IF IsVariant(n) THEN <<"type", Variant(n[2])>> ELSE n
  BY <1>1, <1>2, <1>3 DEF NamesAreMade, Names, TypeName
<1>5. CASE ~IsVariant(n)
  BY <1>1, <1>2, <1>4, <1>5, OriginalsOfTypes
<1>6. CASE IsVariant(n)
  <2>1. n \notin DOMAIN symPtr
    <3> SUFFICES ASSUME n \in DOMAIN symPtr PROVE FALSE
      OBVIOUS
    <3>1. PICK u \in DOMAIN host.types : n = NameIn(host, u)
      BY ItsAddresses DEF TypeName
    <3> QED BY <1>1, <1>6, <3>1 DEF NamesAreMade, Names
  <2>2. <<n[1], Variant(n[2])>> = TypeName(t)
    BY <1>4, <1>6 DEF IsType
  <2> QED BY <1>2, <1>6, <2>1, <2>2 DEF Originals, Names
<1> QED BY <1>5, <1>6

\* The panic over a type that equals one of the program's, as deduplicating comes by it.
LEMMA PanicsForNames ==
  ASSUME TypesInv, phase = "panic"
  PROVE  NamesFail
<1> SUFFICES ASSUME ~NamesFail PROVE FALSE
  OBVIOUS
<1>1. PICK p \in OwnTypes :
        /\ Equals(Target(p)) # {} /\ HostType(Candidate(Target(p))) # Lookup(firstModule, Target(p))
        /\ ~IsVariant(Target(p))
  BY DEF TypesInv, DedupedInv
<1>2. PICK n, t : n = Target(p) /\ t = Candidate(n)
  OBVIOUS
<1>3. /\ RegistryInv /\ WalkInv /\ todo = <<>> /\ firstModule = Originals /\ Given
  BY DEF TypesInv, BindingInv, PhasesInv, TablesInv, Registered, RegistryInv
<1>4. n \in Names /\ IsType(n)
  BY <1>2, <1>3, TargetsAre DEF OwnTypes
<1>5. t \in Equals(n)
  BY <1>1, <1>2 DEF Candidate
<1>6. t \in Hashed(host) /\ t \in InProgram(ClassOf(n))
  <2>1. Hashed(host) \subseteq DOMAIN host.types
    BY <1>3, ProgramsAre, HashedAreTypes
  <2> QED BY <1>5, <2>1 DEF Equals, InProgram, ClassOf
<1>7. n \in DOMAIN Originals /\ Originals[n] = HostType(t)
  BY <1>3, <1>4, <1>6, FoundByName
<1> QED BY <1>1, <1>2, <1>3, <1>7 DEF Lookup

\* Whether an address is that of the type it should be.
IsRight(n, addr) ==
  addr \in IF InProgram(ClassOf(n)) = {} THEN {Own(n)} ELSE {HostType(t) : t \in InProgram(ClassOf(n))}

LEMMA EqualsAre ==
  ASSUME Given, NEW n, IsComparable(ClassOf(n))
  PROVE  Equals(n) = InProgram(ClassOf(n))
<1>1. Hashed(host) \subseteq DOMAIN host.types
  BY ProgramsAre, HashedAreTypes
<1> QED BY <1>1 DEF IsComparable, Equals, InProgram, ClassOf

LEMMA PlacesAreRight ==
  ASSUME TypesInv, Loaded, NEW p \in Pointing("type"), NEW n, n = Target(p),
         IsComparable(ClassOf(n)), ~IsSkipped(ClassOf(n)), NamesFail => Symbol(n).defined
  PROVE  IsRight(n, places[p])
<1>1. /\ p \in Places(module) /\ IsType(n) /\ n \in Names /\ places[p] = InTheEnd(n)
      /\ Given /\ AddressesTrue /\ RegistryInv /\ (Symbol(n).defined \/ n \in DOMAIN symPtr)
  BY LoadedIs DEF Pointing, IsType, TypesInv, BindingInv
<1>2. Equals(n) = InProgram(ClassOf(n))
  BY <1>1, EqualsAre
<1>3. CASE Symbol(n).defined /\ Equals(n) # {}
  <2>1. Candidate(n) \in InProgram(ClassOf(n))
    BY <1>2, <1>3 DEF Candidate
  <2>2. host.types[Candidate(n)].pkg \notin module.skip
    BY <2>1 DEF IsSkipped
  <2> QED BY <1>1, <1>3, <2>1, <2>2 DEF InTheEnd, IsReplaced, IsRight
<1>4. CASE Symbol(n).defined /\ Equals(n) = {}
  <2>1. KeepsItsOwn(n)
    BY <1>1, <1>4 DEF KeepsItsOwn, IsKeptFirst
  <2> QED BY <1>1, <1>2, <1>4, <2>1 DEF InTheEnd, IsReplaced, IsRight, Entry
<1>5. CASE ~Symbol(n).defined
  <2>1. places[p] = symPtr[n]
    BY <1>1, <1>5 DEF InTheEnd, IsReplaced, Entry, KeepsItsOwn
  <2>2. \E t \in InProgram(ClassOf(n)) : symPtr[n] = HostType(t)
    BY <1>1, <1>5, ExternalTypes
  <2> QED BY <2>1, <2>2 DEF IsRight
<1> QED BY <1>3, <1>4, <1>5

LEMMA ExportsAreRight ==
  ASSUME TypesInv, Loaded, NEW n \in Names, IsType(n),
         IsComparable(ClassOf(n)), ~IsSkipped(ClassOf(n)),
         NamesFail => /\ Symbol(n).defined
                      /\ InProgram(ClassOf(n)) = {} \/ \E p \in Places(module) : Target(p) = n
  PROVE  IsRight(n, ExportedType(n))
<1>1. /\ Given /\ AddressesTrue /\ RegistryInv /\ WalkInv /\ todo = <<>> /\ pending = {}
      /\ firstModule = Originals /\ symbolMap[n] = Entry(n) /\ (Symbol(n).defined \/ n \in DOMAIN symPtr)
      /\ \A m \in DOMAIN deduped : Equals(m) # {} /\ deduped[m] = HostType(Candidate(m))
      /\ \A p \in OwnTypes : Equals(Target(p)) # {} => Target(p) \in DOMAIN deduped
  BY LoadedIs DEF IsType, IsItab, Loaded, TypesInv, BindingInv, PhasesInv, Registered, DedupedInv
<1>2. Equals(n) = InProgram(ClassOf(n))
  BY <1>1, EqualsAre
<1>3. PICK equal : equal = {t \in DOMAIN host.types : /\ Lookup(firstModule, n) = HostType(t)
                                                      /\ host.types[t].class = Symbol(n).class}
  OBVIOUS
<1>4. ExportedType(n) = IF n \in DOMAIN deduped THEN deduped[n] ELSE
                        IF equal # {} THEN firstModule[n] ELSE symbolMap[n]
  BY <1>3 DEF ExportedType
<1>5. CASE n \in DOMAIN deduped
  <2>1. Candidate(n) \in InProgram(ClassOf(n)) /\ deduped[n] = HostType(Candidate(n))
    BY <1>1, <1>2, <1>5 DEF Candidate
  <2> QED BY <1>4, <1>5, <2>1 DEF IsRight
<1>6. CASE n \notin DOMAIN deduped /\ equal # {}
  <2>1. PICK t \in DOMAIN host.types :
          Lookup(firstModule, n) = HostType(t) /\ host.types[t].class = Symbol(n).class
    BY <1>3, <1>6
  <2>2. HostType(t) # Zero
    BY DEF HostType, Zero
  <2>3. firstModule[n] = HostType(t)
    BY <2>1, <2>2 DEF Lookup
  <2>4. t \in InProgram(ClassOf(n))
    BY <2>1 DEF InProgram, ClassOf
  <2> QED BY <1>4, <1>6, <2>3, <2>4 DEF IsRight
<1>7. CASE n \notin DOMAIN deduped /\ equal = {}
  <2>1. Symbol(n).defined
    <3> SUFFICES ASSUME ~Symbol(n).defined PROVE FALSE
      OBVIOUS
    <3>1. PICK t \in InProgram(ClassOf(n)) : symPtr[n] = HostType(t)
      BY <1>1, ExternalTypes
    <3>2. Lookup(firstModule, n) = HostType(t)
      BY <1>1, <3>1, OriginalsOfTypes DEF Lookup
    <3> QED BY <1>3, <1>7, <3>1, <3>2 DEF InProgram, ClassOf
  <2>2. InProgram(ClassOf(n)) = {}
    <3> SUFFICES ASSUME NEW t \in InProgram(ClassOf(n)) PROVE FALSE
      OBVIOUS
    <3>1. ~\E p \in Places(module) : Target(p) = n
      BY <1>1, <1>2, <1>7, <2>1 DEF OwnTypes
    <3>2. ~NamesFail
      BY <3>1
    <3>3. t \in Hashed(host)
      BY DEF IsComparable
    <3>4. Lookup(firstModule, n) = HostType(t)
      BY <1>1, <3>2, <3>3, FoundByName DEF Lookup
    <3> QED BY <1>3, <1>7, <3>4 DEF InProgram, ClassOf
  <2>3. KeepsItsOwn(n)
    BY <2>1 DEF KeepsItsOwn, IsKeptFirst
  <2> QED BY <1>1, <1>4, <1>7, <2>2, <2>3 DEF IsRight, Entry
<1> QED BY <1>5, <1>6, <1>7

\* Code, data and exports name the program's types where it has them, and nothing panics
\* while names are what the compiler makes them (deduplicateTypeDescriptors, buildExports).
THEOREM TypesStayInAgreement == Spec => []TypesAgree
<1>1. TypesInv => TypesAgree
  <2> SUFFICES ASSUME TypesInv PROVE TypesAgree
    OBVIOUS
  <2>1. phase = "panic" => NamesFail
    BY PanicsForNames
  <2>2. ASSUME Loaded, NEW p \in Pointing("type"), IsComparable(ClassOf(Target(p))),
               ~IsSkipped(ClassOf(Target(p))), NamesFail => Symbol(Target(p)).defined
        PROVE  IsRight(Target(p), places[p])
    BY <2>2, PlacesAreRight
  <2>3. ASSUME Loaded, NEW e \in exports, IsComparable(ClassOf(e.typeName)),
               ~IsSkipped(ClassOf(e.typeName)),
               NamesFail => /\ Symbol(e.typeName).defined
                            /\ \/ InProgram(ClassOf(e.typeName)) = {}
                               \/ \E p \in Places(module) : Target(p) = e.typeName
        PROVE  IsRight(e.typeName, e.type)
    <3>1. Given /\ ExportsInv
      BY <2>3, LoadedIs DEF TypesInv, BindingInv
    <3>2. PICK x \in module.exports : e.typeName = x.type /\ e.type = ExportedType(x.type)
      BY <2>3, <3>1 DEF ExportsInv, Loaded
    <3>3. x.type \in Names /\ IsType(x.type)
      BY <3>1, <3>2, ProgramsAre DEF IsModule, Names
    <3>4. /\ IsComparable(ClassOf(x.type)) /\ ~IsSkipped(ClassOf(x.type))
          /\ NamesFail => /\ Symbol(x.type).defined
                          /\ \/ InProgram(ClassOf(x.type)) = {}
                             \/ \E p \in Places(module) : Target(p) = x.type
      BY <2>3, <3>2
    <3>5. IsRight(x.type, ExportedType(x.type))
      BY <2>3, <3>3, <3>4, ExportsAreRight
    <3> QED BY <3>2, <3>5
  <2>4. ASSUME Loaded,
               NEW u \in {<<Target(p), places[p]>> : p \in Pointing("type")}
                          \cup {<<e.typeName, e.type>> : e \in exports},
               IsComparable(ClassOf(u[1])), ~IsSkipped(ClassOf(u[1])),
               NamesFail => /\ Symbol(u[1]).defined
                            /\ \/ InProgram(ClassOf(u[1])) = {}
                               \/ \E p \in Places(module) : Target(p) = u[1]
        PROVE  IsRight(u[1], u[2])
    <3>1. CASE \E p \in Pointing("type") : u = <<Target(p), places[p]>>
      <4>1. PICK p \in Pointing("type") : u[1] = Target(p) /\ u[2] = places[p]
        BY <3>1
      <4> QED BY <2>2, <2>4, <4>1
    <3>2. CASE \E e \in exports : u = <<e.typeName, e.type>>
      <4>1. PICK e \in exports : u[1] = e.typeName /\ u[2] = e.type
        BY <3>2
      <4> QED BY <2>3, <2>4, <4>1
    <3> QED BY <2>4, <3>1, <3>2
  <2> QED BY <2>1, <2>4 DEF TypesAgree, IsRight
<1> QED BY <1>1, TypesHold, PTL

(***************************************************************************)
(* The layout.                                                             *)
(***************************************************************************)

Size(n) == Symbol(n).size
Kind(n) == Symbol(n).kind

\* Symbols are within their sections as far as those have grown, and next to each other.
PlacedInv ==
  /\ sizes \in [Sections -> Nat]
  /\ DOMAIN offsets \subseteq Names
  /\ \A n \in DOMAIN offsets : offsets[n] \in Nat /\ offsets[n] + Size(n) <= sizes[Kind(n)]
  /\ \A m, n \in DOMAIN offsets :
       m # n /\ Kind(m) = Kind(n) /\ Size(m) > 0 /\ Size(n) > 0 =>
         offsets[m] + Size(m) <= offsets[n] \/ offsets[n] + Size(n) <= offsets[m]

\* A symbol that is added is the module's, and the call that adds it is under way or has
\* gone through all its steps.
HasReturned(n) == steps[n] > RefStep(n, Len(Symbol(n).refs))

CallsInv ==
  /\ roots \in Seq({n \in Names : Symbol(n).defined})
  /\ calls \in Seq(DOMAIN offsets)
  /\ steps \in [DOMAIN offsets -> Nat \ {0}]
  /\ \A n \in DOMAIN offsets : Symbol(n).defined /\ (n \in Range(calls) \/ HasReturned(n))

LayoutInv == module \in Modules /\ PlacedInv /\ CallsInv

LEMMA SymbolsAre ==
  ASSUME module \in Modules, NEW n \in Names
  PROVE  /\ Kind(n) \in Sections /\ Size(n) \in Nat
         /\ Symbol(n).refs \in Seq(Names) /\ Symbol(n).funcdata \in Seq(Names \cup {NoName})
         /\ TreeStep(n) \in Nat \ {0} /\ TreeStep(n) = Len(Symbol(n).funcdata) + 1
<1>1. /\ Kind(n) \in Sections /\ Size(n) \in Nat
      /\ Symbol(n).refs \in Seq(Names) /\ Symbol(n).funcdata \in Seq(Names \cup {NoName})
  BY ModulesAssumption DEF IsLinkable, Kind, Size, Symbol, Names
<1> QED BY <1>1, LenProperties DEF TreeStep

\* Only a function has tables, and those are in the objects.
LEMMA TablesAre ==
  ASSUME module \in Modules, NEW n \in Names
  PROVE  /\ Kind(n) # "text" => Symbol(n).funcdata = <<>> /\ ~Symbol(n).inlines
         /\ \A i \in DOMAIN Symbol(n).funcdata :
              LET t == Symbol(n).funcdata[i] IN
              t # NoName => t \in Names /\ Symbol(t).defined /\ Kind(t) = "noptrdata" /\ Size(t) > 0
<1>1. FunctionsAreWhole(module) /\ Symbol(n).funcdata \in Seq(Names \cup {NoName})
  BY FunctionsAssumption, SymbolsAre
<1>2. Kind(n) # "text" => Symbol(n).funcdata = <<>> /\ ~Symbol(n).inlines
  BY <1>1 DEF FunctionsAreWhole, Kind, Symbol, Names
<1>3. ASSUME NEW i \in DOMAIN Symbol(n).funcdata, NEW t, t = Symbol(n).funcdata[i], t # NoName
      PROVE  t \in Names /\ Symbol(t).defined /\ Kind(t) = "noptrdata" /\ Size(t) > 0
  <2>1. t \in Names
    BY <1>1, <1>3
  <2>2. Kind(n) = "text"
    <3> SUFFICES ASSUME Kind(n) # "text" PROVE FALSE
      OBVIOUS
    <3>1. DOMAIN Symbol(n).funcdata = {}
      BY <1>2
    <3> QED BY <1>3, <3>1
  <2>3. TablesAreGiven(module, Symbol(n))
    BY <1>1, <2>2 DEF FunctionsAreWhole, Kind, Symbol, Names
  <2>4. t \in Range(Symbol(n).funcdata) \ {NoName}
    BY <1>3 DEF Range
  <2> QED BY <2>1, <2>3, <2>4 DEF TablesAreGiven, Kind, Size, Symbol
<1> QED BY <1>2, <1>3

LEMMA LayoutBegins ==
  ASSUME LayoutInit(Modules)
  PROVE  LayoutInv
<1>1. module \in Modules /\ offsets = <<>> /\ DOMAIN offsets = {}
      /\ sizes = [s \in Sections |-> IF s = "noptrdata" THEN 1 ELSE 0]
      /\ roots = module.order /\ calls = <<>> /\ steps = <<>>
  BY DEF LayoutInit, InitLinker
<1>2. roots \in Seq({n \in Names : Symbol(n).defined})
  <2>1. PICK S : S = {n \in Names : Symbol(n).defined}
    OBVIOUS
  <2>2. roots \in Seq(Names)
    BY <1>1, ModulesAssumption DEF IsLinkable, Names
  <2>3. \A i \in DOMAIN roots : roots[i] \in S
    <3>1. \A n \in Range(roots) : Symbol(n).defined
      BY <1>1, FunctionsAssumption DEF FunctionsAreWhole, Symbol
    <3> QED BY <2>1, <2>2, <3>1 DEF Range
  <2>4. DOMAIN roots = 1 .. Len(roots) /\ Len(roots) \in Nat /\ roots = [i \in 1 .. Len(roots) |-> roots[i]]
    BY <2>2
  <2> QED BY <2>1, <2>3, <2>4
<1>3. sizes \in [Sections -> Nat]
  BY <1>1
<1>4. steps \in [DOMAIN offsets -> Nat \ {0}] /\ calls \in Seq(DOMAIN offsets)
  BY <1>1
<1> QED BY <1>1, <1>2, <1>3, <1>4 DEF LayoutInv, PlacedInv, CallsInv

(***************************************************************************)
(* What the steps of the layout do: add a symbol, note a table of a        *)
(* function, make its inline tree, or leave all tables alone.              *)
(***************************************************************************)

Takes(name) == name \in Names \ DOMAIN offsets /\ Symbol(name).defined /\ AddSymbol(name)

Notes(f, i) ==
  LET table == Symbol(f).funcdata[i] IN
  /\ f \in DOMAIN offsets /\ steps[f] = i /\ i \in DOMAIN Symbol(f).funcdata
  /\ table # NoName => table \in DOMAIN offsets
  /\ funcdata' = [funcdata EXCEPT ![f] = Append(@, IF table = NoName THEN 0 ELSE offsets[table])]
  /\ steps' = [steps EXCEPT ![f] = @ + 1]
  /\ UNCHANGED <<module, offsets, sizes, funcs, pcVars>>

MakesTree(f) ==
  /\ f \in DOMAIN offsets /\ Symbol(f).inlines /\ steps[f] = TreeStep(f)
  /\ funcdata' = [funcdata EXCEPT ![f] = WithEntry(@, InlTree, sizes["noptrdata"])]
  /\ pcs' = [pcs EXCEPT ![f] = WithEntry(@, InlTreeIndex, pctab)]
  /\ pctab' = Align(pctab + Symbol(f).pcinline)
  /\ sizes' = [sizes EXCEPT !["noptrdata"] = @ + InlTreeSize]
  /\ steps' = [steps EXCEPT ![f] = @ + 1]
  /\ UNCHANGED <<module, offsets, funcs>>

Passes ==
  /\ DOMAIN offsets' = DOMAIN offsets
  /\ \A n \in DOMAIN offsets : offsets'[n] = offsets[n] \/ (offsets'[n] = 0 /\ Size(n) = 0)
  /\ \A n \in DOMAIN offsets :
       \/ steps'[n] = steps[n]
       \/ steps'[n] > TreeStep(n) /\ (steps[n] <= TreeStep(n) => ~Symbol(n).inlines)
            /\ steps[n] >= TreeStep(n)
  /\ UNCHANGED <<module, sizes, funcs, funcdata, pcVars>>

LEMMA RunningIs ==
  ASSUME LayoutInv, Running
  PROVE  /\ Adding \in DOMAIN offsets /\ Adding \in Names /\ Step \in Nat \ {0} /\ Step = steps[Adding]
         /\ Tail(calls) \in Seq(DOMAIN offsets)
         /\ \A n \in Range(calls) : n = Adding \/ n \in Range(Tail(calls))
<1>1. PICK S : S = DOMAIN offsets
  OBVIOUS
<1>2. calls \in Seq(S) /\ calls # <<>> /\ steps \in [S -> Nat \ {0}] /\ S \subseteq Names
  BY <1>1 DEF LayoutInv, CallsInv, PlacedInv, Running
<1>3. Head(calls) \in S /\ Tail(calls) \in Seq(S)
  BY <1>2
<1>4. ASSUME NEW n \in Range(calls) PROVE n = Head(calls) \/ n \in Range(Tail(calls))
  <2>1. PICK i \in 1 .. Len(calls) : n = calls[i]
    BY <1>2 DEF Range
  <2>2. CASE i = 1
    BY <1>2, <2>1, <2>2
  <2>3. CASE i # 1
    <3>1. i - 1 \in 1 .. Len(Tail(calls)) /\ Tail(calls)[i - 1] = calls[i] /\ DOMAIN Tail(calls) = 1 .. Len(Tail(calls))
      BY <1>2, <2>1, <2>3
    <3> QED BY <2>1, <3>1 DEF Range
  <2> QED BY <2>2, <2>3
<1> QED BY <1>1, <1>2, <1>3, <1>4 DEF Adding, Step

LEMMA LayoutNextIs ==
  ASSUME LayoutInv, LayoutNext
  PROVE  \/ \E name : Takes(name)
         \/ \E f, i : Notes(f, i)
         \/ \E f : MakesTree(f)
         \/ Passes
<1>1. /\ module \in Modules /\ steps \in [DOMAIN offsets -> Nat \ {0}] /\ DOMAIN offsets \subseteq Names
      /\ roots \in Seq({n \in Names : Symbol(n).defined})
  BY DEF LayoutInv, CallsInv, PlacedInv
<1>2. \A n \in DOMAIN offsets : steps[n] \in Nat /\ TreeStep(n) \in Nat
  BY <1>1, SymbolsAre
<1>3. CASE AddNext
  <2>1. PICK S : S = {n \in Names : Symbol(n).defined}
    OBVIOUS
  <2>2. Head(roots) \in S
    BY <1>1, <1>3, <2>1 DEF AddNext
  <2>3. CASE IsAdded(Head(roots))
    <3>1. Passes
      BY <1>3, <2>3 DEF AddNext, Passes, IsAdded
    <3> QED BY <3>1
  <2>4. CASE ~IsAdded(Head(roots))
    <3>1. Takes(Head(roots))
      BY <1>3, <2>1, <2>2, <2>4 DEF AddNext, Takes, IsAdded
    <3> QED BY <3>1
  <2> QED BY <2>3, <2>4
<1>4. CASE ReadTable
  <2>1. Adding \in DOMAIN offsets /\ Adding \in Names /\ Step \in Nat \ {0} /\ Step = steps[Adding]
    BY <1>4, RunningIs DEF ReadTable
  <2>2. PICK table : table = Symbol(Adding).funcdata[Step]
    OBVIOUS
  <2>3. Step \in DOMAIN Symbol(Adding).funcdata
    <3>1. Symbol(Adding).funcdata \in Seq(Names \cup {NoName}) /\ Step < Len(Symbol(Adding).funcdata) + 1
      BY <1>1, <1>4, <2>1, SymbolsAre DEF ReadTable
    <3>2. DOMAIN Symbol(Adding).funcdata = 1 .. Len(Symbol(Adding).funcdata) /\ Len(Symbol(Adding).funcdata) \in Nat
      BY <3>1
    <3> QED BY <2>1, <3>1, <3>2
  <2>4. CASE table # NoName /\ table \notin DOMAIN offsets
    <3>1. table \in Names /\ Symbol(table).defined
      BY <1>1, <2>1, <2>2, <2>3, <2>4, TablesAre
    <3>2. Takes(table)
      BY <1>4, <2>2, <2>4, <3>1 DEF ReadTable, Takes, IsAdded
    <3> QED BY <3>2
  <2>5. CASE ~(table # NoName /\ table \notin DOMAIN offsets)
    <3>1. Notes(Adding, Step)
      BY <1>4, <2>1, <2>2, <2>3, <2>5 DEF ReadTable, Notes, IsAdded, GoOn
    <3> QED BY <3>1
  <2> QED BY <2>4, <2>5
<1>5. CASE AddInlineTree
  <2>1. Adding \in DOMAIN offsets /\ Step = steps[Adding]
    BY <1>5, RunningIs DEF AddInlineTree
  <2>2. CASE Symbol(Adding).inlines
    <3>1. MakesTree(Adding)
      BY <1>5, <2>1, <2>2 DEF AddInlineTree, MakesTree, GoOn
    <3> QED BY <3>1
  <2>3. CASE ~Symbol(Adding).inlines
    <3>1. /\ steps' = [steps EXCEPT ![Adding] = @ + 1] /\ steps[Adding] = TreeStep(Adding)
          /\ UNCHANGED <<module, offsets, sizes, funcs, funcdata, pcVars>>
      BY <1>5, <2>1, <2>3 DEF AddInlineTree, GoOn
    <3>2. Passes
      BY <1>1, <1>2, <2>1, <2>3, <3>1 DEF Passes
    <3> QED BY <3>2
  <2> QED BY <2>2, <2>3
<1>6. CASE Refer
  <2>1. Adding \in DOMAIN offsets /\ Adding \in Names /\ Step = steps[Adding] /\ Step > TreeStep(Adding)
    BY <1>6, RunningIs DEF Refer
  <2>2. PICK i, ref :
          /\ i \in DOMAIN Symbol(Adding).refs /\ ref = Symbol(Adding).refs[i]
          /\ IF Symbol(ref).defined /\ ~IsAdded(ref) THEN AddSymbol(ref)
             ELSE /\ offsets' = IF Symbol(ref).defined /\ Symbol(ref).size = 0
                                THEN [offsets EXCEPT ![ref] = 0] ELSE offsets
                  /\ GoOn /\ UNCHANGED <<sizes, funcs, funcdata, pcVars>>
    BY <1>6 DEF Refer
  <2>3. ref \in Names
    BY <1>1, <2>1, <2>2, SymbolsAre
  <2>4. CASE Symbol(ref).defined /\ ~IsAdded(ref)
    <3>1. Takes(ref)
      BY <2>2, <2>3, <2>4 DEF Takes, IsAdded
    <3> QED BY <3>1
  <2>5. CASE ~(Symbol(ref).defined /\ ~IsAdded(ref))
    <3>1. /\ steps' = [steps EXCEPT ![Adding] = @ + 1]
          /\ UNCHANGED <<module, sizes, funcs, funcdata, pcVars>>
      BY <2>2, <2>5 DEF GoOn
    <3>2. /\ DOMAIN offsets' = DOMAIN offsets
          /\ \A n \in DOMAIN offsets : offsets'[n] = offsets[n] \/ (offsets'[n] = 0 /\ Size(n) = 0)
      BY <2>2, <2>5 DEF Size
    <3>3. Passes
      BY <1>1, <1>2, <2>1, <3>1, <3>2 DEF Passes
    <3> QED BY <3>3
  <2> QED BY <2>4, <2>5
<1>7. CASE Return
  <2>1. Passes
    BY <1>7 DEF Return, Passes
  <2> QED BY <2>1
<1> QED BY <1>3, <1>4, <1>5, <1>6, <1>7 DEF LayoutNext

LEMMA TakesIs ==
  ASSUME LayoutInv, NEW name, Takes(name)
  PROVE  /\ name \in Names /\ name \notin DOMAIN offsets /\ Kind(name) \in Sections /\ Size(name) \in Nat
         /\ UNCHANGED module
         /\ DOMAIN offsets' = DOMAIN offsets \cup {name} /\ offsets'[name] = sizes[Kind(name)]
         /\ \A n \in DOMAIN offsets : offsets'[n] = offsets[n]
         /\ sizes' \in [Sections -> Nat] /\ sizes'[Kind(name)] = sizes[Kind(name)] + Size(name)
         /\ \A s \in Sections : s # Kind(name) => sizes'[s] = sizes[s]
         /\ DOMAIN steps' = DOMAIN steps \cup {name} /\ steps'[name] = 1
         /\ \A n \in DOMAIN offsets : steps'[n] = steps[n]
<1>1. /\ name \in Names /\ name \notin DOMAIN offsets /\ module \in Modules /\ AddSymbol(name)
      /\ sizes \in [Sections -> Nat]
  BY DEF Takes, LayoutInv, PlacedInv
<1>2. Kind(name) \in Sections /\ Size(name) \in Nat
  BY <1>1, SymbolsAre
<1>3. /\ offsets' = Put(offsets, name, sizes[Kind(name)])
      /\ sizes' = [sizes EXCEPT ![Kind(name)] = @ + Size(name)]
      /\ steps' = Put(steps, name, 1) /\ UNCHANGED module
  BY <1>1 DEF AddSymbol, Kind, Size
<1>4. DOMAIN steps = DOMAIN offsets
  BY DEF LayoutInv, CallsInv
<1>5. /\ DOMAIN offsets' = DOMAIN offsets \cup {name} /\ offsets'[name] = sizes[Kind(name)]
      /\ \A n \in DOMAIN offsets : offsets'[n] = offsets[n]
      /\ DOMAIN steps' = DOMAIN steps \cup {name} /\ steps'[name] = 1
      /\ \A n \in DOMAIN offsets : steps'[n] = steps[n]
  BY <1>1, <1>3, <1>4 DEF Put
<1>6. /\ sizes' \in [Sections -> Nat] /\ sizes'[Kind(name)] = sizes[Kind(name)] + Size(name)
      /\ \A s \in Sections : s # Kind(name) => sizes'[s] = sizes[s]
  BY <1>1, <1>2, <1>3
<1> QED BY <1>1, <1>2, <1>3, <1>5, <1>6

LEMMA PlacedKeeps ==
  ASSUME LayoutInv, LayoutNext
  PROVE  PlacedInv'
<1>1. /\ module' = module /\ module \in Modules
      /\ sizes \in [Sections -> Nat] /\ DOMAIN offsets \subseteq Names
      /\ \A n \in DOMAIN offsets : offsets[n] \in Nat /\ offsets[n] + Size(n) <= sizes[Kind(n)]
      /\ \A m, n \in DOMAIN offsets :
           m # n /\ Kind(m) = Kind(n) /\ Size(m) > 0 /\ Size(n) > 0 =>
             offsets[m] + Size(m) <= offsets[n] \/ offsets[n] + Size(n) <= offsets[m]
  BY LayoutKeeps DEF LayoutInv, PlacedInv
<1>2. /\ Names' = Names /\ \A n : Size(n)' = Size(n) /\ Kind(n)' = Kind(n)
  BY <1>1 DEF Names, Size, Kind, Symbol
<1>3. ASSUME NEW name, Takes(name) PROVE PlacedInv'
  <2>1. /\ name \in Names /\ name \notin DOMAIN offsets /\ Kind(name) \in Sections /\ Size(name) \in Nat
        /\ DOMAIN offsets' = DOMAIN offsets \cup {name} /\ offsets'[name] = sizes[Kind(name)]
        /\ \A n \in DOMAIN offsets : offsets'[n] = offsets[n]
        /\ sizes' \in [Sections -> Nat] /\ sizes'[Kind(name)] = sizes[Kind(name)] + Size(name)
        /\ \A s \in Sections : s # Kind(name) => sizes'[s] = sizes[s]
    BY <1>3, TakesIs
  <2>2. ASSUME NEW n \in DOMAIN offsets
        PROVE  /\ Kind(n) \in Sections /\ Size(n) \in Nat
               /\ sizes[Kind(n)] \in Nat /\ sizes'[Kind(n)] >= sizes[Kind(n)]
    <3>1. Kind(n) \in Sections /\ Size(n) \in Nat
      BY <1>1, SymbolsAre
    <3> QED BY <1>1, <2>1, <3>1
  <2>3. \A n \in DOMAIN offsets' : offsets'[n] \in Nat /\ offsets'[n] + Size(n) <= sizes'[Kind(n)]
    <3>1. ASSUME NEW n \in DOMAIN offsets
          PROVE  offsets'[n] \in Nat /\ offsets'[n] + Size(n) <= sizes'[Kind(n)]
      <4>1. offsets'[n] = offsets[n] /\ offsets[n] \in Nat /\ offsets[n] + Size(n) <= sizes[Kind(n)]
        BY <1>1, <2>1
      <4>2. Size(n) \in Nat /\ sizes[Kind(n)] \in Nat /\ sizes'[Kind(n)] \in Nat
        BY <2>1, <2>2
      <4> QED BY <2>2, <4>1, <4>2
    <3>2. offsets'[name] \in Nat /\ offsets'[name] + Size(name) <= sizes'[Kind(name)]
      BY <1>1, <2>1
    <3> QED BY <2>1, <3>1, <3>2
  <2>4. ASSUME NEW m \in DOMAIN offsets', NEW n \in DOMAIN offsets', m # n, Kind(m) = Kind(n),
               Size(m) > 0, Size(n) > 0
        PROVE  offsets'[m] + Size(m) <= offsets'[n] \/ offsets'[n] + Size(n) <= offsets'[m]
    <3>1. CASE m \in DOMAIN offsets /\ n \in DOMAIN offsets
      BY <1>1, <2>1, <2>4, <3>1
    <3>2. CASE m = name
      <4>1. n \in DOMAIN offsets /\ offsets[n] + Size(n) <= sizes[Kind(n)]
        BY <1>1, <2>1, <2>4, <3>2
      <4> QED BY <2>1, <2>4, <3>2, <4>1
    <3>3. CASE n = name
      <4>1. m \in DOMAIN offsets /\ offsets[m] + Size(m) <= sizes[Kind(m)]
        BY <1>1, <2>1, <2>4, <3>3
      <4> QED BY <2>1, <2>4, <3>3, <4>1
    <3> QED BY <2>1, <3>1, <3>2, <3>3
  <2>5. DOMAIN offsets' \subseteq Names
    BY <1>1, <2>1
  <2> QED BY <1>2, <2>1, <2>3, <2>4, <2>5 DEF PlacedInv
<1>4. ASSUME NEW f, NEW i, Notes(f, i) PROVE PlacedInv'
  <2>1. UNCHANGED <<offsets, sizes>>
    BY <1>4 DEF Notes
  <2> QED BY <1>1, <1>2, <2>1 DEF PlacedInv
<1>5. ASSUME NEW f, MakesTree(f) PROVE PlacedInv'
  <2>1. UNCHANGED offsets /\ sizes' = [sizes EXCEPT !["noptrdata"] = @ + InlTreeSize]
    BY <1>5 DEF MakesTree
  <2>2. "noptrdata" \in Sections /\ InlTreeSize \in Nat
    BY DEF Sections, InlTreeSize
  <2>3. /\ sizes' \in [Sections -> Nat]
        /\ \A s \in Sections : sizes'[s] >= sizes[s] /\ sizes[s] \in Nat /\ sizes'[s] \in Nat
    <3>1. sizes["noptrdata"] + InlTreeSize \in Nat /\ sizes["noptrdata"] + InlTreeSize >= sizes["noptrdata"]
      BY <1>1, <2>2
    <3> QED BY <1>1, <2>1, <2>2, <3>1
  <2>4. \A n \in DOMAIN offsets : offsets[n] + Size(n) <= sizes'[Kind(n)]
    <3> SUFFICES ASSUME NEW n \in DOMAIN offsets PROVE offsets[n] + Size(n) <= sizes'[Kind(n)]
      OBVIOUS
    <3>1. /\ Kind(n) \in Sections /\ Size(n) \in Nat /\ offsets[n] \in Nat
          /\ offsets[n] + Size(n) <= sizes[Kind(n)]
      BY <1>1, SymbolsAre
    <3> QED BY <2>3, <3>1
  <2> QED BY <1>1, <1>2, <2>1, <2>3, <2>4 DEF PlacedInv
<1>6. ASSUME Passes PROVE PlacedInv'
  <2>1. /\ UNCHANGED sizes /\ DOMAIN offsets' = DOMAIN offsets
        /\ \A n \in DOMAIN offsets : offsets'[n] = offsets[n] \/ (offsets'[n] = 0 /\ Size(n) = 0)
    BY <1>6 DEF Passes
  <2>2. \A n \in DOMAIN offsets' : offsets'[n] \in Nat /\ offsets'[n] + Size(n) <= sizes[Kind(n)]
    <3> SUFFICES ASSUME NEW n \in DOMAIN offsets
                 PROVE  offsets'[n] \in Nat /\ offsets'[n] + Size(n) <= sizes[Kind(n)]
      BY <2>1
    <3>1. Kind(n) \in Sections /\ sizes[Kind(n)] \in Nat
      BY <1>1, SymbolsAre
    <3>2. CASE offsets'[n] = offsets[n]
      BY <1>1, <3>2
    <3>3. CASE offsets'[n] = 0 /\ Size(n) = 0
      BY <3>1, <3>3
    <3> QED BY <2>1, <3>2, <3>3
  <2>3. \A n \in DOMAIN offsets : Size(n) > 0 => offsets'[n] = offsets[n]
    BY <2>1
  <2> QED BY <1>1, <1>2, <2>1, <2>2, <2>3 DEF PlacedInv
<1> QED BY <1>3, <1>4, <1>5, <1>6, LayoutNextIs

LEMMA JoinedOne ==
  ASSUME NEW S, NEW a \in S, NEW s \in Seq(S)
  PROVE  <<a>> \o s \in Seq(S) /\ Range(<<a>> \o s) = {a} \cup Range(s)
<1>1. PICK t : t = <<a>> \o s
  OBVIOUS
<1>2. /\ <<a>> \in Seq(S) /\ Len(<<a>>) = 1 /\ <<a>>[1] = a
  OBVIOUS
<1>3. /\ t \in Seq(S) /\ Len(t) = 1 + Len(s)
      /\ \A i \in 1 .. 1 + Len(s) : t[i] = IF i <= 1 THEN <<a>>[i] ELSE s[i - 1]
  BY <1>1, <1>2, ConcatProperties
<1>4. Len(s) \in Nat /\ DOMAIN s = 1 .. Len(s) /\ DOMAIN t = 1 .. 1 + Len(s)
  BY <1>3
<1>5. \A x \in Range(t) : x = a \/ x \in Range(s)
  <2> SUFFICES ASSUME NEW i \in DOMAIN t, t[i] # a PROVE t[i] \in Range(s)
    BY DEF Range
  <2>1. i # 1 /\ i \in Int /\ i - 1 \in DOMAIN s
    BY <1>2, <1>3, <1>4
  <2>2. t[i] = s[i - 1]
    BY <1>3, <1>4, <2>1
  <2> QED BY <2>1, <2>2 DEF Range
<1>6. a \in Range(t) /\ \A x \in Range(s) : x \in Range(t)
  <2>1. t[1] = a /\ 1 \in DOMAIN t
    BY <1>2, <1>3, <1>4
  <2>2. \A i \in DOMAIN s : i + 1 \in DOMAIN t /\ t[i + 1] = s[i]
    <3> SUFFICES ASSUME NEW i \in DOMAIN s PROVE i + 1 \in DOMAIN t /\ t[i + 1] = s[i]
      OBVIOUS
    <3>1. i \in Int /\ i + 1 \in DOMAIN t /\ ~(i + 1 <= 1) /\ (i + 1) - 1 = i
      BY <1>4
    <3> QED BY <1>3, <1>4, <3>1
  <2> QED BY <2>1, <2>2 DEF Range
<1> QED BY <1>1, <1>3, <1>5, <1>6

LEMMA CallsKeep ==
  ASSUME LayoutInv, LayoutNext
  PROVE  CallsInv'
<1> DEFINE D == {n \in Names : Symbol(n).defined}
<1>1. /\ module' = module /\ module \in Modules /\ DOMAIN offsets \subseteq Names
      /\ roots \in Seq(D)
      /\ calls \in Seq(DOMAIN offsets)
      /\ steps \in [DOMAIN offsets -> Nat \ {0}]
      /\ \A n \in DOMAIN offsets : Symbol(n).defined /\ (n \in Range(calls) \/ HasReturned(n))
  BY LayoutKeeps DEF LayoutInv, PlacedInv, CallsInv
<1>2. /\ Names' = Names /\ D' = D
      /\ \A n : Symbol(n)' = Symbol(n) /\ (steps'[n] = steps[n] => (HasReturned(n)' <=> HasReturned(n)))
  BY <1>1 DEF Names, Symbol, HasReturned, RefStep, TreeStep
<1> HIDE DEF D
<1>3. ASSUME NEW name, Takes(name) PROVE CallsInv'
  <2>1. /\ name \in Names /\ name \notin DOMAIN offsets /\ Symbol(name).defined
        /\ DOMAIN offsets' = DOMAIN offsets \cup {name}
        /\ DOMAIN steps' = DOMAIN steps \cup {name} /\ steps'[name] = 1
        /\ \A n \in DOMAIN offsets : steps'[n] = steps[n]
    BY <1>3, TakesIs DEF Takes
  <2>2. calls' = <<name>> \o calls /\ roots' = roots /\ steps' = Put(steps, name, 1)
    BY <1>3 DEF Takes, AddSymbol
  <2>3. calls' \in Seq(DOMAIN offsets') /\ Range(calls') = {name} \cup Range(calls)
    <3>1. PICK S : S = DOMAIN offsets'
      OBVIOUS
    <3>2. calls \in Seq(S)
      <4>1. DOMAIN offsets \subseteq S
        BY <2>1, <3>1
      <4> QED BY <1>1, <4>1, SeqMonotonic
    <3>3. name \in S
      BY <2>1, <3>1
    <3> QED BY <2>2, <3>1, <3>2, <3>3, JoinedOne
  <2>4. steps' \in [DOMAIN offsets' -> Nat \ {0}]
    <3>1. steps' = [n \in DOMAIN offsets' |-> steps'[n]]
      BY <1>1, <2>1, <2>2 DEF Put
    <3>2. \A n \in DOMAIN offsets' : steps'[n] \in Nat \ {0}
      BY <1>1, <2>1
    <3> QED BY <3>1, <3>2
  <2>5. \A n \in DOMAIN offsets' : Symbol(n).defined /\ (n \in Range(calls') \/ HasReturned(n)')
    BY <1>1, <1>2, <2>1, <2>3
  <2> QED BY <1>1, <1>2, <2>2, <2>3, <2>4, <2>5 DEF CallsInv, D
<1>4. ASSUME Running, GoOn, DOMAIN offsets' = DOMAIN offsets PROVE CallsInv'
  <2>1. /\ Adding \in DOMAIN offsets /\ steps' = [steps EXCEPT ![Adding] = @ + 1] /\ UNCHANGED <<roots, calls>>
        /\ Range(calls) = Range(calls)'
    BY <1>4, RunningIs DEF GoOn
  <2>2. Adding \in Range(calls)
    <3>1. PICK S : S = DOMAIN offsets
      OBVIOUS
    <3>2. 1 \in DOMAIN calls /\ Head(calls) = calls[1]
      BY <1>1, <1>4, <3>1 DEF Running
    <3> QED BY <3>2 DEF Adding, Range
  <2>3. steps' \in [DOMAIN offsets -> Nat \ {0}] /\ \A n \in DOMAIN offsets : n # Adding => steps'[n] = steps[n]
    BY <1>1, <2>1
  <2>4. \A n \in DOMAIN offsets : n \in Range(calls) \/ HasReturned(n)'
    BY <1>1, <1>2, <2>2, <2>3
  <2> QED BY <1>1, <1>2, <1>4, <2>1, <2>3, <2>4 DEF CallsInv, D
<1>5. CASE AddNext
  <2>1. CASE IsAdded(Head(roots))
    <3>1. roots # <<>> /\ roots' = Tail(roots) /\ UNCHANGED <<offsets, calls, steps>>
      BY <1>5, <2>1 DEF AddNext
    <3>2. Tail(roots) \in Seq(D)
      BY <1>1, <3>1
    <3>3. Range(calls)' = Range(calls) /\ \A n : HasReturned(n)' <=> HasReturned(n)
      BY <1>2, <3>1
    <3> QED BY <1>1, <1>2, <3>1, <3>2, <3>3 DEF CallsInv, D
  <2>2. CASE ~IsAdded(Head(roots))
    <3>1. Takes(Head(roots))
      <4>1. roots # <<>> /\ AddSymbol(Head(roots))
        BY <1>5, <2>2 DEF AddNext
      <4>2. Head(roots) \in D
        BY <1>1, <4>1
      <4> QED BY <2>2, <4>1, <4>2 DEF Takes, IsAdded, D
    <3> QED BY <1>3, <3>1
  <2> QED BY <2>1, <2>2
<1>6. CASE ReadTable
  <2>1. PICK table : table = Symbol(Adding).funcdata[Step]
    OBVIOUS
  <2>2. CASE ~(table # NoName /\ table \notin DOMAIN offsets)
    BY <1>4, <1>6, <2>1, <2>2 DEF ReadTable, IsAdded
  <2>3. CASE table # NoName /\ table \notin DOMAIN offsets
    <3>1. Takes(table)
      <4>1. AddSymbol(table)
        BY <1>6, <2>1, <2>3 DEF ReadTable, IsAdded
      <4>2. Adding \in DOMAIN offsets /\ Adding \in Names /\ Step \in Nat \ {0}
        BY <1>6, RunningIs DEF ReadTable
      <4>3. Step \in DOMAIN Symbol(Adding).funcdata
        <5>1. Symbol(Adding).funcdata \in Seq(Names \cup {NoName}) /\ Step < Len(Symbol(Adding).funcdata) + 1
          BY <1>1, <1>6, <4>2, SymbolsAre DEF ReadTable
        <5>2. DOMAIN Symbol(Adding).funcdata = 1 .. Len(Symbol(Adding).funcdata) /\ Len(Symbol(Adding).funcdata) \in Nat
          BY <5>1
        <5> QED BY <4>2, <5>1, <5>2
      <4>4. table \in Names /\ Symbol(table).defined
        BY <1>1, <2>1, <2>3, <4>2, <4>3, TablesAre
      <4> QED BY <2>3, <4>1, <4>4 DEF Takes
    <3> QED BY <1>3, <3>1
  <2> QED BY <2>2, <2>3
<1>7. CASE AddInlineTree
  BY <1>4, <1>7 DEF AddInlineTree
<1>8. CASE Refer
  <2>1. PICK i, ref :
          /\ i \in DOMAIN Symbol(Adding).refs /\ ref = Symbol(Adding).refs[i]
          /\ IF Symbol(ref).defined /\ ~IsAdded(ref) THEN AddSymbol(ref)
             ELSE /\ offsets' = IF Symbol(ref).defined /\ Symbol(ref).size = 0
                                THEN [offsets EXCEPT ![ref] = 0] ELSE offsets
                  /\ GoOn
    BY <1>8 DEF Refer
  <2>2. CASE Symbol(ref).defined /\ ~IsAdded(ref)
    <3>1. Adding \in Names
      BY <1>8, RunningIs DEF Refer
    <3>2. ref \in Names
      BY <1>1, <2>1, <3>1, SymbolsAre
    <3>3. Takes(ref)
      BY <2>1, <2>2, <3>2 DEF Takes, IsAdded
    <3> QED BY <1>3, <3>3
  <2>3. CASE ~(Symbol(ref).defined /\ ~IsAdded(ref))
    <3>1. DOMAIN offsets' = DOMAIN offsets /\ GoOn /\ Running
      BY <1>8, <2>1, <2>3 DEF Refer
    <3> QED BY <1>4, <3>1
  <2> QED BY <2>2, <2>3
<1>9. CASE Return
  <2>1. /\ UNCHANGED <<offsets, roots, steps>> /\ calls' = Tail(calls) /\ Running
        /\ Step > RefStep(Adding, Len(Symbol(Adding).refs))
    BY <1>9 DEF Return
  <2>2. /\ Tail(calls) \in Seq(DOMAIN offsets) /\ Step = steps[Adding]
        /\ \A n \in Range(calls) : n = Adding \/ n \in Range(Tail(calls))
    BY <2>1, RunningIs
  <2>3. HasReturned(Adding)
    BY <2>1, <2>2 DEF HasReturned
  <2>4. \A n : HasReturned(n)' <=> HasReturned(n)
    BY <1>2, <2>1
  <2>5. \A n \in DOMAIN offsets : n \in Range(calls') \/ HasReturned(n)'
    BY <1>1, <2>1, <2>2, <2>3, <2>4
  <2> QED BY <1>1, <1>2, <2>1, <2>2, <2>5 DEF CallsInv, D
<1> QED BY <1>5, <1>6, <1>7, <1>8, <1>9 DEF LayoutNext

LEMMA LayoutHolds == Spec => []LayoutInv
<1>1. Init => LayoutInv
  BY LayoutBegins DEF Init
<1>2. LayoutInv /\ UNCHANGED layoutVars => LayoutInv'
  BY DEF layoutVars, LayoutInv, PlacedInv, CallsInv, HasReturned, RefStep, TreeStep, Names, Size, Kind, Symbol, Range
<1>3. [Next]_vars => LayoutNext \/ UNCHANGED layoutVars
  BY DEF Next, vars, Register, Place, AddSymbolMap, Relocate, BuildModule, Deduplicate, BuildExports
<1>4. LayoutInv /\ LayoutNext => LayoutInv'
  BY PlacedKeeps, CallsKeep, LayoutKeeps DEF LayoutInv
<1> QED BY <1>1, <1>2, <1>3, <1>4, PTL DEF Spec

(***************************************************************************)
(* The masks of pointers.                                                  *)
(***************************************************************************)

\* The sections of data follow each other.
LEMMA SectionsFollow ==
  ASSUME LayoutInv
  PROVE  /\ \A s \in Sections : sizes[s] \in Nat /\ Base(s) \in Nat
         /\ Base("data") = 0 /\ Base("noptrdata") = sizes["data"]
         /\ Base("bss") = sizes["data"] + sizes["noptrdata"]
         /\ Base("noptrbss") = Base("bss") + sizes["bss"]
<1>1. \A s \in Sections : sizes[s] \in Nat
  BY DEF LayoutInv, PlacedInv
<1>2. /\ Base("text") = 0 /\ Base("data") = 0 /\ Base("noptrdata") = sizes["data"]
      /\ Base("bss") = sizes["data"] + sizes["noptrdata"]
      /\ Base("noptrbss") = sizes["data"] + sizes["noptrdata"] + sizes["bss"]
  BY DEF Base
<1>3. Sections = {"text", "data", "noptrdata", "bss", "noptrbss"}
  BY DEF Sections
<1>4. /\ sizes["data"] \in Nat /\ sizes["noptrdata"] \in Nat /\ sizes["bss"] \in Nat
  BY <1>1, <1>3
<1>5. Base("bss") \in Nat /\ Base("noptrbss") \in Nat /\ Base("noptrdata") \in Nat
  BY <1>2, <1>4
<1>6. \A s \in Sections : Base(s) \in Nat
  BY <1>2, <1>3, <1>5
<1> QED BY <1>1, <1>2, <1>4, <1>6

\* Each symbol is within its section.
LEMMA WithinItsSection ==
  ASSUME LayoutInv, NEW n \in DOMAIN offsets
  PROVE  /\ n \in Names /\ Kind(n) \in Sections /\ Size(n) \in Nat /\ OffsetOf(n) \in Nat
         /\ offsets[n] \in Nat /\ OffsetOf(n) = Base(Kind(n)) + offsets[n]
         /\ OffsetOf(n) + Size(n) <= Base(Kind(n)) + sizes[Kind(n)]
<1>1. n \in Names /\ offsets[n] \in Nat /\ offsets[n] + Size(n) <= sizes[Kind(n)] /\ module \in Modules
  BY DEF LayoutInv, PlacedInv
<1>2. Kind(n) \in Sections /\ Size(n) \in Nat
  BY <1>1, SymbolsAre
<1>3. sizes[Kind(n)] \in Nat /\ Base(Kind(n)) \in Nat
  BY <1>2, SectionsFollow
<1>4. OffsetOf(n) = Base(Kind(n)) + offsets[n]
  BY DEF OffsetOf, Kind
<1> QED BY <1>1, <1>2, <1>3, <1>4

LEMMA NoWordIsShared ==
  ASSUME LayoutInv, NEW m \in DataSymbols, NEW n \in DataSymbols, m # n
  PROVE  Words(m) \cap Words(n) = {}
<1>1. /\ m \in DOMAIN offsets /\ n \in DOMAIN offsets /\ Kind(m) # "text" /\ Kind(n) # "text"
  BY DEF DataSymbols, Kind
<1>2. /\ Words(m) = OffsetOf(m) .. (OffsetOf(m) + Size(m) - 1)
      /\ Words(n) = OffsetOf(n) .. (OffsetOf(n) + Size(n) - 1)
  BY DEF Words, Size
<1>3. /\ Kind(m) \in Sections /\ Size(m) \in Nat /\ OffsetOf(m) \in Nat /\ offsets[m] \in Nat
      /\ OffsetOf(m) = Base(Kind(m)) + offsets[m]
      /\ OffsetOf(m) + Size(m) <= Base(Kind(m)) + sizes[Kind(m)]
  BY <1>1, WithinItsSection
<1>4. /\ Kind(n) \in Sections /\ Size(n) \in Nat /\ OffsetOf(n) \in Nat /\ offsets[n] \in Nat
      /\ OffsetOf(n) = Base(Kind(n)) + offsets[n]
      /\ OffsetOf(n) + Size(n) <= Base(Kind(n)) + sizes[Kind(n)]
  BY <1>1, WithinItsSection
<1>5. CASE Size(m) = 0 \/ Size(n) = 0
  BY <1>2, <1>3, <1>4, <1>5
<1>6. CASE Size(m) > 0 /\ Size(n) > 0
  <2>1. OffsetOf(m) + Size(m) <= OffsetOf(n) \/ OffsetOf(n) + Size(n) <= OffsetOf(m)
    <3>1. CASE Kind(m) = Kind(n)
      <4>1. offsets[m] + Size(m) <= offsets[n] \/ offsets[n] + Size(n) <= offsets[m]
        BY <1>1, <1>6, <3>1 DEF LayoutInv, PlacedInv
      <4>2. Base(Kind(m)) \in Nat
        BY <1>3, SectionsFollow
      <4> QED BY <1>3, <1>4, <3>1, <4>1, <4>2
    <3>2. CASE Kind(m) # Kind(n)
      <4>1. \A s \in Sections : sizes[s] \in Nat /\ Base(s) \in Nat
        BY SectionsFollow
      <4>2. \A s, t \in Sections \ {"text"} :
              s # t => Base(s) + sizes[s] <= Base(t) \/ Base(t) + sizes[t] <= Base(s)
        BY SectionsFollow DEF Sections
      <4>3. \/ Base(Kind(m)) + sizes[Kind(m)] <= Base(Kind(n))
            \/ Base(Kind(n)) + sizes[Kind(n)] <= Base(Kind(m))
        BY <1>1, <1>3, <1>4, <3>2, <4>2
      <4>4. /\ Base(Kind(m)) \in Nat /\ Base(Kind(n)) \in Nat
            /\ sizes[Kind(m)] \in Nat /\ sizes[Kind(n)] \in Nat
        BY <1>3, <1>4, <4>1
      <4> QED BY <1>3, <1>4, <4>3, <4>4
    <3> QED BY <3>1, <3>2
  <2>2. /\ OffsetOf(m) \in Nat /\ Size(m) \in Nat
        /\ OffsetOf(n) \in Nat /\ Size(n) \in Nat
    BY <1>3, <1>4
  <2> QED BY <1>2, <2>1, <2>2
<1> QED BY <1>3, <1>4, <1>5, <1>6

\* Sorting by offsets loses no variable: each of data and bss has its own.
LEMMA SortedAre ==
  ASSUME LayoutInv, NEW s \in {"data", "bss"}
  PROVE  Sorted(s) = {n \in DOMAIN offsets : Kind(n) = s}
<1>1. ASSUME NEW n \in DOMAIN offsets, Kind(n) = s
      PROVE  At(s, OffsetOf(n)) = n
  <2>1. ASSUME NEW m \in DOMAIN offsets, Kind(m) = s PROVE Size(m) > 0
    <3>1. m \in Names /\ module \in Modules
      BY WithinItsSection DEF LayoutInv
    <3> QED BY <2>1, <3>1, VariablesAssumption DEF VariablesAreTyped, Names, Kind, Size, Symbol
  <2>2. ASSUME NEW m \in DOMAIN offsets, Kind(m) = s, OffsetOf(m) = OffsetOf(n) PROVE m = n
    <3>1. /\ Size(m) > 0 /\ Size(n) > 0 /\ Size(m) \in Nat /\ Size(n) \in Nat
          /\ offsets[m] \in Nat /\ offsets[n] \in Nat
          /\ OffsetOf(m) = Base(s) + offsets[m] /\ OffsetOf(n) = Base(s) + offsets[n]
      BY <1>1, <2>1, <2>2, WithinItsSection
    <3>2. Base(s) \in Nat
      BY SectionsFollow DEF Sections
    <3>3. offsets[m] = offsets[n]
      <4>1. Base(s) + offsets[m] = Base(s) + offsets[n]
        BY <2>2, <3>1
      <4>2. \A b, x, y \in Nat : b + x = b + y => x = y
        OBVIOUS
      <4> QED BY <3>1, <3>2, <4>1, <4>2
    <3>4. m # n => offsets[m] + Size(m) <= offsets[n] \/ offsets[n] + Size(n) <= offsets[m]
      BY <1>1, <2>2, <3>1 DEF LayoutInv, PlacedInv
    <3> QED BY <3>1, <3>3, <3>4
  <2> QED BY <1>1, <2>2 DEF At, Kind
<1> QED BY <1>1 DEF Sorted, Kind

\* The words of a variable that are pointers.
PtrsOf(n) == {OffsetOf(n) + i : i \in Symbol(Symbol(n).type).ptrs}
IsTyped(n) == Symbol(n).type # NoName

LEMMA TypedAre ==
  ASSUME LayoutInv, NEW n \in DOMAIN offsets, IsTyped(n)
  PROVE  /\ n[1] = "var" /\ Symbol(Symbol(n).type).ptrs \subseteq 0 .. (Size(n) - 1)
         /\ Kind(n) \in {"data", "bss"} \/ Symbol(Symbol(n).type).ptrs = {}
<1>1. n \in Names /\ module \in Modules
  BY WithinItsSection DEF LayoutInv
<1> QED BY <1>1, VariablesAssumption DEF VariablesAreTyped, IsTyped, Names, Kind, Size, Symbol

\* The mask of a section, counted from its start, has these words of the variables that
\* are the module's own.
LEMMA MasksAre ==
  ASSUME LayoutInv, NEW s \in {"data", "bss"}
  PROVE  /\ \A n \in DOMAIN offsets :
              Kind(n) = s /\ IsTyped(n) /\ symbolMap[n] = Own(n) =>
                \A w \in PtrsOf(n) : \E i \in Mask(s) : w = Base(s) + i
         /\ \A i \in Mask(s) :
              /\ i < sizes[s] /\ i \in Nat
              /\ \E n \in DOMAIN offsets : /\ Kind(n) = s /\ IsTyped(n) /\ symbolMap[n] = Own(n)
                                           /\ Base(s) + i \in PtrsOf(n)
<1>1. PICK base : base = IF s = "bss" THEN sizes["data"] + sizes["noptrdata"] ELSE 0
  OBVIOUS
<1>2. base = Base(s) /\ base \in Nat /\ sizes[s] \in Nat
  BY <1>1, SectionsFollow DEF Sections
<1>3. ASSUME NEW n \in DOMAIN offsets, Kind(n) = s
      PROVE  PointersOf(n) = IF symbolMap[n] # Own(n) \/ ~IsTyped(n) THEN {}
                             ELSE {OffsetOf(n) - base + i : i \in Symbol(Symbol(n).type).ptrs}
  BY <1>1, <1>3 DEF PointersOf, IsTyped, Kind
<1>4. Mask(s) = UNION {PointersOf(n) : n \in {n \in DOMAIN offsets : Kind(n) = s}}
  BY SortedAre DEF Mask
<1>5. ASSUME NEW n \in DOMAIN offsets, Kind(n) = s, IsTyped(n), NEW i \in Symbol(Symbol(n).type).ptrs
      PROVE  /\ OffsetOf(n) + i = base + (OffsetOf(n) - base + i)
             /\ OffsetOf(n) - base + i \in Nat /\ OffsetOf(n) - base + i < sizes[s]
  <2>1. i \in 0 .. (Size(n) - 1)
    BY <1>5, TypedAre
  <2>2. /\ Size(n) \in Nat /\ OffsetOf(n) \in Nat /\ offsets[n] \in Nat
        /\ OffsetOf(n) = base + offsets[n] /\ OffsetOf(n) + Size(n) <= base + sizes[s]
    BY <1>2, <1>5, WithinItsSection
  <2> QED BY <1>2, <2>1, <2>2
<1>6. ASSUME NEW n \in DOMAIN offsets, Kind(n) = s, IsTyped(n), symbolMap[n] = Own(n), NEW w \in PtrsOf(n)
      PROVE  \E i \in Mask(s) : w = Base(s) + i
  <2>1. PICK i \in Symbol(Symbol(n).type).ptrs : w = OffsetOf(n) + i
    BY <1>6 DEF PtrsOf
  <2>2. OffsetOf(n) - base + i \in Mask(s)
    BY <1>3, <1>4, <1>6
  <2>3. w = base + (OffsetOf(n) - base + i)
    BY <1>5, <1>6, <2>1
  <2> QED BY <1>2, <2>2, <2>3
<1>7. ASSUME NEW i \in Mask(s)
      PROVE  /\ i < sizes[s] /\ i \in Nat
             /\ \E n \in DOMAIN offsets : /\ Kind(n) = s /\ IsTyped(n) /\ symbolMap[n] = Own(n)
                                          /\ Base(s) + i \in PtrsOf(n)
  <2>1. PICK n \in DOMAIN offsets : Kind(n) = s /\ i \in PointersOf(n)
    BY <1>4, <1>7
  <2>2. symbolMap[n] = Own(n) /\ IsTyped(n)
    BY <1>3, <2>1
  <2>3. PICK k \in Symbol(Symbol(n).type).ptrs : i = OffsetOf(n) - base + k
    BY <1>3, <2>1, <2>2
  <2>4. base + i = OffsetOf(n) + k /\ i \in Nat /\ i < sizes[s]
    BY <1>5, <2>1, <2>2, <2>3
  <2> QED BY <1>2, <2>1, <2>2, <2>4 DEF PtrsOf
<1> QED BY <1>6, <1>7

\* A variable whose place holds the module's own copy is its own in the map as well.
LEMMA OwnPlaces ==
  ASSUME BindingInv, Published, NEW p \in Places(module), NEW n, n = Target(p), n[1] = "var",
         IsOwn(places[p])
  PROVE  symbolMap[n] = Own(n)
<1>1. /\ phase \in {"deduplicating", "panic", "loaded"} /\ ~IsItab(n) /\ ~IsType(n)
      /\ ~IsVariant(n) /\ RegistryInv /\ Given
  BY DEF Published, IsItab, IsType, IsVariant, BindingInv, RegistryInv
<1>2. n \in Names
  BY <1>1, TargetsAre
<1>3. places[p] = AtFirst(n)
  BY <1>1 DEF BindingInv, PlacesInv, Holds
<1>4. symbolMap[n] = Entry(n) /\ (Symbol(n).defined \/ n \in DOMAIN symPtr)
  BY <1>1, <1>2 DEF BindingInv, TablesInv
<1>5. n \in DOMAIN symPtr => ~IsOwn(symPtr[n])
  BY <1>1, ItsAddresses
<1>6. n \in DOMAIN Originals => n \in DOMAIN symPtr /\ Originals[n] = symPtr[n]
  BY <1>1 DEF Originals, IsDuplicate
<1>7. places[p] = Entry(n)
  BY <1>3, <1>5, <1>6 DEF AtFirst
<1>8. KeepsItsOwn(n)
  <2>1. CASE n \in DOMAIN symPtr
    BY <1>5, <1>7, <2>1 DEF Entry
  <2>2. CASE n \notin DOMAIN symPtr
    BY <1>4, <2>2 DEF KeepsItsOwn
  <2> QED BY <2>1, <2>2
<1> QED BY <1>4, <1>8 DEF Entry

\* What is published has been looked through for variables without a type.
TypedInv == Published => Untyped = {}

LEMMA TypedHolds == Spec => []TypedInv
<1>1. Init => TypedInv
  BY DEF Init, TypedInv, Published
<1>2. ASSUME TypedInv, [Next]_vars PROVE TypedInv'
  <2>1. CASE Register \/ Place \/ AddSymbolMap \/ \E p \in pending : Relocate(p)
    BY <2>1 DEF Register, Place, AddSymbolMap, Relocate, others, TypedInv, Published
  <2>2. CASE BuildModule
    <3>1. /\ UNCHANGED <<module, offsets, symbolMap>>
          /\ Untyped = {} \/ phase' = "untyped"
      BY <2>2 DEF BuildModule, layoutVars, tables
    <3> QED BY <3>1 DEF TypedInv, Published, Untyped, Symbol, Own
  <2>3. CASE (\E p \in pending : Deduplicate(p)) \/ BuildExports \/ UNCHANGED vars
    <3>1. /\ UNCHANGED <<module, offsets, symbolMap>>
          /\ Published' => Published
      BY <2>3 DEF Deduplicate, BuildExports, vars, layoutVars, tables, Published
    <3> QED BY <1>2, <3>1 DEF TypedInv, Untyped, Symbol, Own
  <2> QED BY <1>2, <2>1, <2>2, <2>3 DEF Next
<1> QED BY <1>1, <1>2, PTL DEF Spec

LEMMA AllPointersAreScanned ==
  ASSUME BindingInv, LayoutInv, TypedInv, Published
  PROVE  PointersAreScanned
<1>1. PICK scanned : scanned = Mask("data") \cup {Base("bss") + i : i \in Mask("bss")}
  OBVIOUS
<1>2. Base("data") = 0 /\ \A i \in Mask("data") : i \in Nat /\ 0 + i = i
  <2>1. Base("data") = 0
    BY SectionsFollow
  <2>2. \A i \in Mask("data") : i \in Nat
    BY MasksAre
  <2> QED BY <2>1, <2>2
<1>3. ASSUME NEW p \in Places(module), NEW n, n = Target(p), n \in DataSymbols, IsTyped(n),
             IsOwn(places[p]), NEW w \in PtrsOf(n)
      PROVE  w \in scanned
  <2>1. n \in DOMAIN offsets /\ n[1] = "var" /\ (Kind(n) \in {"data", "bss"} \/ PtrsOf(n) = {})
    BY <1>3, TypedAre DEF DataSymbols, PtrsOf
  <2>2. symbolMap[n] = Own(n)
    BY <1>3, <2>1, OwnPlaces
  <2>3. PICK s \in {"data", "bss"} : Kind(n) = s
    BY <1>3, <2>1
  <2>4. PICK i \in Mask(s) : w = Base(s) + i
    BY <1>3, <2>1, <2>2, <2>3, MasksAre
  <2>5. CASE s = "data"
    BY <1>1, <1>2, <2>4, <2>5
  <2>6. CASE s = "bss"
    BY <1>1, <2>4, <2>6
  <2> QED BY <2>3, <2>5, <2>6
<1>4. ASSUME NEW w \in scanned
      PROVE  \E n \in DataSymbols : IsTyped(n) /\ IsOwn(symbolMap[n]) /\ w \in PtrsOf(n)
  <2>1. PICK s \in {"data", "bss"} : \E i \in Mask(s) : w = Base(s) + i
    BY <1>1, <1>2, <1>4
  <2>2. PICK i \in Mask(s) : w = Base(s) + i
    BY <2>1
  <2>3. PICK n \in DOMAIN offsets : /\ Kind(n) = s /\ IsTyped(n) /\ symbolMap[n] = Own(n)
                                    /\ w \in PtrsOf(n)
    BY <2>2, MasksAre
  <2> QED BY <2>3 DEF DataSymbols, Kind, IsOwn, Own
<1>5. \A m, n \in DataSymbols : m # n => Words(m) \cap Words(n) = {}
  BY NoWordIsShared
<1>6. \A i \in Mask("data") : i < Base("noptrdata")
  BY MasksAre, SectionsFollow
<1>7. \A i \in Mask("bss") : Base("bss") + i < Base("noptrbss")
  <2>1. /\ \A i \in Mask("bss") : i \in Nat /\ i < sizes["bss"]
        /\ Base("noptrbss") = Base("bss") + sizes["bss"] /\ Base("bss") \in Nat /\ sizes["bss"] \in Nat
    BY MasksAre, SectionsFollow DEF Sections
  <2> QED BY <2>1
<1>8. ASSUME NEW p \in Places(module),
             Target(p) \in {n \in DataSymbols : Symbol(n).type # NoName} /\ IsOwn(places[p])
      PROVE  {OffsetOf(Target(p)) + i : i \in Symbol(Symbol(Target(p)).type).ptrs} \subseteq scanned
  BY <1>3, <1>8 DEF IsTyped, PtrsOf
<1>9. scanned \subseteq UNION {{OffsetOf(n) + i : i \in Symbol(Symbol(n).type).ptrs} :
                                n \in {n \in {n \in DataSymbols : Symbol(n).type # NoName} : IsOwn(symbolMap[n])}}
  BY <1>4 DEF IsTyped, PtrsOf
<1>10. ASSUME NEW p \in Places(module), NEW n, n = Target(p), n \in DataSymbols,
              Kind(n) \in {"data", "bss"}, "." \in Range(n[2]), IsOwn(places[p])
       PROVE  IsTyped(n)
  <2>1. n \in DOMAIN offsets /\ n \in Names /\ module \in Modules
    BY <1>10, WithinItsSection DEF DataSymbols, LayoutInv
  <2>2. n[1] = "var"
    BY <1>10, <2>1, VariablesAssumption DEF VariablesAreTyped, Names, Kind, Symbol
  <2>3. symbolMap[n] = Own(n)
    BY <1>10, <2>2, OwnPlaces
  <2> QED BY <1>10, <2>1, <2>3 DEF TypedInv, Untyped, IsTyped, Kind
<1>11. ASSUME NEW p \in Places(module),
              Target(p) \in {n \in DataSymbols : /\ Symbol(n).kind \in {"data", "bss"}
                                                 /\ "." \in Range(n[2])} /\ IsOwn(places[p])
       PROVE  Target(p) \in {n \in DataSymbols : Symbol(n).type # NoName}
  BY <1>10, <1>11 DEF IsTyped, Kind
<1> QED BY <1>1, <1>5, <1>6, <1>7, <1>8, <1>9, <1>11 DEF PointersAreScanned

\* From when a module is published the collector finds in its data and bss the pointers of every
\* variable that the module's code uses as its own, and takes no other word for a
\* pointer (generategcdata): for every module of which the types are right that variables have.
THEOREM PointersStayScanned == Spec => []PointersAreScanned
<1>1. BindingInv /\ LayoutInv /\ TypedInv => PointersAreScanned
  BY AllPointersAreScanned DEF PointersAreScanned
<1> QED BY <1>1, BindingHolds, LayoutHolds, TypedHolds, PTL

(***************************************************************************)
(* The tables of functions.                                                *)
(***************************************************************************)

Listed == Range(funcs)
Tables(f) == Symbol(f).funcdata

\* The functions, in the order of their code.
FuncsInv ==
  /\ funcs \in Seq(Names)
  /\ Listed = {n \in DOMAIN offsets : Kind(n) = "text"}
  /\ \A i, j \in DOMAIN funcs : i < j => offsets[funcs[i]] + Size(funcs[i]) <= offsets[funcs[j]]

LEMMA FunctionsAre ==
  ASSUME module \in Modules, NEW f \in Names, Kind(f) = "text"
  PROVE  f[1] = "func" /\ Size(f) > 0 /\ TablesAreGiven(module, Symbol(f))
BY FunctionsAssumption DEF FunctionsAreWhole, Names, Kind, Size, Symbol

LEMMA ListedAre ==
  ASSUME LayoutInv, FuncsInv, NEW f \in Listed
  PROVE  f \in DOMAIN offsets /\ f \in Names /\ Kind(f) = "text" /\ Size(f) > 0 /\ Size(f) \in Nat
         /\ TablesAreGiven(module, Symbol(f)) /\ module \in Modules /\ f[1] = "func"
<1>1. f \in DOMAIN offsets /\ f \in Names /\ Kind(f) = "text" /\ module \in Modules
  BY DEF LayoutInv, PlacedInv, FuncsInv
<1> QED BY <1>1, FunctionsAre, SymbolsAre

\* What has a size keeps its place.
LEMMA OffsetsStay ==
  ASSUME LayoutInv, LayoutNext
  PROVE  /\ module' = module /\ Names' = Names /\ DOMAIN offsets \subseteq DOMAIN offsets'
         /\ \A n : Symbol(n)' = Symbol(n) /\ Size(n)' = Size(n) /\ Kind(n)' = Kind(n)
                   /\ Tables(n)' = Tables(n) /\ TreeStep(n)' = TreeStep(n)
         /\ \A n \in DOMAIN offsets : Size(n) > 0 => offsets'[n] = offsets[n]
<1>1. module' = module
  BY LayoutKeeps
<1>2. \A n : Symbol(n)' = Symbol(n) /\ Size(n)' = Size(n) /\ Kind(n)' = Kind(n)
             /\ Tables(n)' = Tables(n) /\ TreeStep(n)' = TreeStep(n)
  BY <1>1 DEF Symbol, Size, Kind, Tables, TreeStep
<1>3. Names' = Names
  BY <1>1 DEF Names
<1>4. /\ DOMAIN offsets \subseteq DOMAIN offsets'
      /\ \A n \in DOMAIN offsets : Size(n) > 0 => offsets'[n] = offsets[n]
  <2>1. CASE \E name : Takes(name)
    BY <2>1, TakesIs
  <2>2. CASE \E f, i : Notes(f, i)
    BY <2>2 DEF Notes
  <2>3. CASE \E f : MakesTree(f)
    BY <2>3 DEF MakesTree
  <2>4. CASE Passes
    BY <2>4 DEF Passes
  <2> QED BY <2>1, <2>2, <2>3, <2>4, LayoutNextIs
<1> QED BY <1>1, <1>2, <1>3, <1>4

\* A function is added to the list, with the tables that it begins with.
LEMMA TakesFunction ==
  ASSUME LayoutInv, NEW name, Takes(name)
  PROVE  /\ Kind(name) # "text" => UNCHANGED <<funcs, funcdata, pcs, pctab>>
         /\ Kind(name) = "text" =>
              /\ funcs' = Append(funcs, name) /\ funcdata' = Put(funcdata, name, <<>>)
              /\ pcs' = Put(pcs, name, PcOffsets(name))
              /\ LET end == pctab + Sum(Symbol(name).pcvalues, Len(Symbol(name).pcvalues)) IN
                 pctab' = IF Symbol(name).inlines THEN end ELSE Align(end)
BY DEF Takes, AddSymbol, Kind, pcVars

LEMMA AppendedIs ==
  ASSUME NEW S, NEW s \in Seq(S), NEW x \in S
  PROVE  /\ Append(s, x) \in Seq(S) /\ Len(Append(s, x)) = Len(s) + 1 /\ Len(s) \in Nat
         /\ DOMAIN s = 1 .. Len(s) /\ DOMAIN Append(s, x) = 1 .. Len(s) + 1
         /\ Append(s, x)[Len(s) + 1] = x
         /\ \A i \in 1 .. Len(s) : Append(s, x)[i] = s[i]
         /\ Range(Append(s, x)) = Range(s) \cup {x}
<1>1. PICK t : t = Append(s, x)
  OBVIOUS
<1>2. /\ t \in Seq(S) /\ Len(t) = Len(s) + 1 /\ Len(s) \in Nat
      /\ DOMAIN s = 1 .. Len(s) /\ DOMAIN t = 1 .. Len(s) + 1
      /\ t[Len(s) + 1] = x
      /\ \A i \in 1 .. Len(s) : t[i] = s[i]
  BY <1>1
<1>3. \A y \in Range(t) : y \in Range(s) \cup {x}
  <2> SUFFICES ASSUME NEW i \in DOMAIN t PROVE t[i] \in Range(s) \cup {x}
    BY DEF Range
  <2>1. i = Len(s) + 1 \/ i \in DOMAIN s
    BY <1>2
  <2> QED BY <1>2, <2>1 DEF Range
<1>4. \A y \in Range(s) \cup {x} : y \in Range(t)
  <2>1. Len(s) + 1 \in DOMAIN t /\ \A i \in DOMAIN s : i \in DOMAIN t /\ t[i] = s[i]
    BY <1>2
  <2> QED BY <1>2, <2>1 DEF Range
<1> QED BY <1>1, <1>2, <1>3, <1>4

LEMMA FuncsKeeps ==
  ASSUME LayoutInv, FuncsInv, LayoutNext
  PROVE  FuncsInv'
<1>1. /\ module' = module /\ Names' = Names /\ DOMAIN offsets \subseteq DOMAIN offsets'
      /\ \A n : Size(n)' = Size(n) /\ Kind(n)' = Kind(n)
      /\ \A n \in DOMAIN offsets : Size(n) > 0 => offsets'[n] = offsets[n]
  BY OffsetsStay
<1>2. /\ funcs \in Seq(Names) /\ Listed = {n \in DOMAIN offsets : Kind(n) = "text"}
      /\ \A i, j \in DOMAIN funcs : i < j => offsets[funcs[i]] + Size(funcs[i]) <= offsets[funcs[j]]
      /\ \A i \in DOMAIN funcs : funcs[i] \in Listed
  BY DEF FuncsInv, Listed, Range
<1>3. \A n \in Listed : offsets'[n] = offsets[n] /\ n \in DOMAIN offsets
  BY <1>1, ListedAre
<1>4. CASE UNCHANGED funcs /\ \A n \in DOMAIN offsets' \ DOMAIN offsets : Kind(n) # "text"
  <2>1. Listed' = Listed
    BY <1>4 DEF Listed, Range
  <2>2. Listed = {n \in DOMAIN offsets' : Kind(n) = "text"}
    BY <1>1, <1>2, <1>4
  <2> QED BY <1>1, <1>2, <1>3, <1>4, <2>1, <2>2 DEF FuncsInv
<1>5. ASSUME NEW name, Takes(name), Kind(name) = "text" PROVE FuncsInv'
  <2>1. /\ name \in Names /\ name \notin DOMAIN offsets /\ DOMAIN offsets' = DOMAIN offsets \cup {name}
        /\ offsets'[name] = sizes["text"] /\ funcs' = Append(funcs, name)
    BY <1>5, TakesIs, TakesFunction
  <2>2. /\ funcs' \in Seq(Names) /\ Len(funcs) \in Nat
        /\ DOMAIN funcs = 1 .. Len(funcs) /\ DOMAIN funcs' = 1 .. Len(funcs) + 1
        /\ funcs'[Len(funcs) + 1] = name
        /\ \A i \in 1 .. Len(funcs) : funcs'[i] = funcs[i]
        /\ Listed' = Listed \cup {name}
    <3>1. PICK S : S = Names
      OBVIOUS
    <3> QED BY <1>2, <2>1, <3>1, AppendedIs DEF Listed
  <2>3. Listed' = {n \in DOMAIN offsets' : Kind(n) = "text"}
    BY <1>2, <1>5, <2>1, <2>2
  <2>4. ASSUME NEW i \in DOMAIN funcs', NEW j \in DOMAIN funcs', i < j
        PROVE  offsets'[funcs'[i]] + Size(funcs'[i]) <= offsets'[funcs'[j]]
    <3>1. i \in DOMAIN funcs /\ funcs'[i] = funcs[i] /\ offsets'[funcs[i]] = offsets[funcs[i]]
      <4>1. i \in 1 .. Len(funcs)
        BY <2>2, <2>4
      <4> QED BY <1>2, <1>3, <2>2, <4>1
    <3>2. CASE j \in DOMAIN funcs
      BY <1>2, <1>3, <2>2, <2>4, <3>1, <3>2
    <3>3. CASE j \notin DOMAIN funcs
      <4>1. funcs'[j] = name
        BY <2>2, <3>3
      <4>2. offsets[funcs[i]] + Size(funcs[i]) <= sizes["text"]
        BY <1>2, <1>3, <3>1, ListedAre DEF LayoutInv, PlacedInv
      <4> QED BY <2>1, <3>1, <4>1, <4>2
    <3> QED BY <3>2, <3>3
  <2> QED BY <1>1, <2>2, <2>3, <2>4 DEF FuncsInv
<1>6. CASE \E name : Takes(name)
  <2>1. PICK name : Takes(name)
    BY <1>6
  <2>2. CASE Kind(name) = "text"
    BY <1>5, <2>1, <2>2
  <2>3. CASE Kind(name) # "text"
    <3>1. UNCHANGED funcs /\ DOMAIN offsets' = DOMAIN offsets \cup {name}
      BY <2>1, <2>3, TakesIs, TakesFunction
    <3> QED BY <1>4, <2>3, <3>1
  <2> QED BY <2>2, <2>3
<1>7. CASE (\E f, i : Notes(f, i)) \/ (\E f : MakesTree(f)) \/ Passes
  <2>1. UNCHANGED funcs /\ DOMAIN offsets' = DOMAIN offsets
    BY <1>7 DEF Notes, MakesTree, Passes
  <2> QED BY <1>4, <2>1
<1> QED BY <1>6, <1>7, LayoutNextIs

\* Whether the call that adds f has done its i-th step.
Past(f, i) == steps[f] > i

\* The tables that a function has read are noted with their offsets, which stay.
Noted(table) == IF table = NoName THEN 0 ELSE offsets[table]

IsNoted(f) ==
  /\ funcdata[f] \in Seq(Nat)
  /\ \A i \in DOMAIN Tables(f) : Past(f, i) =>
       /\ i \in DOMAIN funcdata[f]
       /\ Tables(f)[i] # NoName => Tables(f)[i] \in DOMAIN offsets
       /\ i # InlTree \/ ~Symbol(f).inlines => funcdata[f][i] = Noted(Tables(f)[i])
  /\ steps[f] <= TreeStep(f) => Len(funcdata[f]) = steps[f] - 1

NotedInv == DOMAIN funcdata = Listed /\ \A f \in Listed : IsNoted(f)

LEMMA WithEntryIs ==
  ASSUME NEW t \in Seq(Nat), NEW n \in Nat \ {0}, NEW v \in Nat
  PROVE  /\ WithEntry(t, n, v) \in Seq(Nat)
         /\ Len(WithEntry(t, n, v)) = IF Len(t) < n THEN n ELSE Len(t)
         /\ n \in DOMAIN WithEntry(t, n, v) /\ WithEntry(t, n, v)[n] = v
         /\ \A i \in DOMAIN t : i \in DOMAIN WithEntry(t, n, v) /\ (i # n => WithEntry(t, n, v)[i] = t[i])
         /\ \A i \in DOMAIN WithEntry(t, n, v) : i # n /\ i \notin DOMAIN t => WithEntry(t, n, v)[i] = 0
<1>1. PICK N : N = IF Len(t) < n THEN n ELSE Len(t)
  OBVIOUS
<1>2. N \in Nat /\ Len(t) \in Nat /\ n \in 1 .. N /\ Len(t) <= N /\ DOMAIN t = 1 .. Len(t)
      /\ \A i \in DOMAIN t : t[i] \in Nat
  BY <1>1
<1>3. PICK w : w = [i \in 1 .. N |-> IF i = n THEN v ELSE IF i \in DOMAIN t THEN t[i] ELSE 0]
  OBVIOUS
<1>4. w \in Seq(Nat) /\ Len(w) = N /\ DOMAIN w = 1 .. N
  <2>1. ASSUME NEW i \in 1 .. N PROVE w[i] \in Nat
    <3>1. w[i] = IF i = n THEN v ELSE IF i \in DOMAIN t THEN t[i] ELSE 0
      BY <1>3
    <3>2. i \in DOMAIN t => t[i] \in Nat
      BY <1>2
    <3> QED BY <3>1, <3>2
  <2>2. DOMAIN w = 1 .. N /\ w = [i \in 1 .. N |-> w[i]]
    BY <1>3
  <2>3. w \in [1 .. N -> Nat]
    BY <2>1, <2>2
  <2>4. N \in Nat
    BY <1>2
  <2>5. w \in Seq(Nat)
    BY <2>3, <2>4
  <2> QED BY <2>2, <2>4, <2>5
<1>5. WithEntry(t, n, v) = w
  BY <1>1, <1>3 DEF WithEntry
<1>6. n \in 1 .. N /\ w[n] = v
  BY <1>2, <1>3
<1>7. \A i \in DOMAIN t : i \in 1 .. N /\ (i # n => w[i] = t[i])
  BY <1>2, <1>3
<1>8. \A i \in 1 .. N : i # n /\ i \notin DOMAIN t => w[i] = 0
  BY <1>3
<1> QED BY <1>1, <1>4, <1>5, <1>6, <1>7, <1>8, Zenon

LEMMA StaysNoted ==
  ASSUME LayoutInv, FuncsInv, LayoutNext, NEW f \in Listed, IsNoted(f),
         funcdata'[f] = funcdata[f],
         \A i \in DOMAIN Tables(f) : steps'[f] > i => steps[f] > i,
         steps'[f] <= TreeStep(f) => steps'[f] = steps[f]
  PROVE  IsNoted(f)'
<1>1. /\ module' = module /\ DOMAIN offsets \subseteq DOMAIN offsets'
      /\ \A n : Symbol(n)' = Symbol(n) /\ Tables(n)' = Tables(n) /\ TreeStep(n)' = TreeStep(n)
      /\ \A n \in DOMAIN offsets : Size(n) > 0 => offsets'[n] = offsets[n]
  BY OffsetsStay
<1>2. f \in Names /\ module \in Modules
  BY ListedAre
<1>3. ASSUME NEW i \in DOMAIN Tables(f), steps'[f] > i
      PROVE  /\ i \in DOMAIN funcdata[f]
             /\ Tables(f)[i] # NoName => Tables(f)[i] \in DOMAIN offsets'
             /\ i # InlTree \/ ~Symbol(f).inlines => funcdata[f][i] = Noted(Tables(f)[i])'
  <2>1. /\ i \in DOMAIN funcdata[f]
        /\ Tables(f)[i] # NoName => Tables(f)[i] \in DOMAIN offsets
        /\ i # InlTree \/ ~Symbol(f).inlines => funcdata[f][i] = Noted(Tables(f)[i])
    BY <1>3 DEF IsNoted, Past
  <2>2. Tables(f)[i] # NoName => Size(Tables(f)[i]) > 0
    BY <1>2, TablesAre DEF Tables
  <2>3. Noted(Tables(f)[i])' = Noted(Tables(f)[i])
    BY <1>1, <2>1, <2>2 DEF Noted
  <2> QED BY <1>1, <2>1, <2>3
<1> QED BY <1>1, <1>3 DEF IsNoted, Past

\* A call has done a step more if it was at that step, and no other one has.
LEMMA OthersStep ==
  ASSUME LayoutInv, NEW f \in DOMAIN offsets, steps' = [steps EXCEPT ![f] = @ + 1]
  PROVE  /\ steps'[f] = steps[f] + 1 /\ steps[f] \in Nat \ {0}
         /\ \A g \in DOMAIN offsets : g # f => steps'[g] = steps[g]
BY DEF LayoutInv, CallsInv

\* Only a function has tables.
LEMMA HasTables ==
  ASSUME LayoutInv, FuncsInv, NEW f \in DOMAIN offsets, Tables(f) # <<>> \/ Symbol(f).inlines
  PROVE  f \in Listed
BY TablesAre DEF LayoutInv, PlacedInv, FuncsInv, Tables

LEMMA NotedWithTable ==
  ASSUME LayoutInv, FuncsInv, LayoutNext, NEW f, NEW i, Notes(f, i), f \in Listed, IsNoted(f), f \in DOMAIN funcdata
  PROVE  IsNoted(f)'
<1>1. /\ module' = module /\ DOMAIN offsets \subseteq DOMAIN offsets'
      /\ \A n : Symbol(n)' = Symbol(n) /\ Tables(n)' = Tables(n) /\ TreeStep(n)' = TreeStep(n)
  BY OffsetsStay
<1>2. f \in Names /\ module \in Modules /\ f \in DOMAIN offsets
  BY ListedAre
<1>3. PICK v : v = Noted(Tables(f)[i])
  OBVIOUS
<1>4. /\ steps[f] = i /\ i \in DOMAIN Tables(f) /\ offsets' = offsets
      /\ Tables(f)[i] # NoName => Tables(f)[i] \in DOMAIN offsets
      /\ steps' = [steps EXCEPT ![f] = @ + 1] /\ funcdata'[f] = Append(funcdata[f], v)
  BY <1>3 DEF Notes, Tables, Noted
<1>5. steps'[f] = i + 1 /\ i \in Nat \ {0}
  BY <1>2, <1>4, OthersStep
<1>6. i < TreeStep(f) /\ TreeStep(f) \in Nat
  BY <1>2, <1>4, SymbolsAre DEF Tables
<1>7. v \in Nat
  BY <1>3, <1>4 DEF Noted, LayoutInv, PlacedInv
<1>8. funcdata[f] \in Seq(Nat) /\ Len(funcdata[f]) = i - 1
  BY <1>4, <1>5, <1>6 DEF IsNoted
<1>9. /\ funcdata'[f] \in Seq(Nat) /\ DOMAIN funcdata[f] = 1 .. i - 1
      /\ DOMAIN funcdata'[f] = 1 .. i /\ Len(funcdata'[f]) = i
      /\ funcdata'[f][i] = v /\ \A j \in 1 .. i - 1 : funcdata'[f][j] = funcdata[f][j]
  <2>1. (i - 1) + 1 = i
    BY <1>5
  <2> QED BY <1>4, <1>7, <1>8, <2>1, AppendedIs
<1>10. ASSUME NEW j \in DOMAIN Tables(f), steps'[f] > j
       PROVE  /\ j \in DOMAIN funcdata'[f]
              /\ Tables(f)[j] # NoName => Tables(f)[j] \in DOMAIN offsets'
              /\ j # InlTree \/ ~Symbol(f).inlines => funcdata'[f][j] = Noted(Tables(f)[j])'
  <2>1. Noted(Tables(f)[j])' = Noted(Tables(f)[j])
    BY <1>1, <1>4 DEF Noted
  <2>2. CASE j = i
    BY <1>3, <1>4, <1>5, <1>9, <2>1, <2>2
  <2>3. CASE j # i
    <3>1. j \in Nat \ {0} /\ i > j
      <4>1. j \in Nat \ {0}
        BY <1>2, SymbolsAre DEF Tables
      <4> QED BY <1>5, <1>10, <2>3, <4>1
    <3>2. /\ j \in DOMAIN funcdata[f]
          /\ Tables(f)[j] # NoName => Tables(f)[j] \in DOMAIN offsets
          /\ j # InlTree \/ ~Symbol(f).inlines => funcdata[f][j] = Noted(Tables(f)[j])
      BY <1>4, <3>1 DEF IsNoted, Past
    <3>3. funcdata'[f][j] = funcdata[f][j] /\ j \in DOMAIN funcdata'[f]
      BY <1>5, <1>9, <3>1
    <3> QED BY <1>4, <2>1, <3>2, <3>3
  <2> QED BY <2>2, <2>3
<1>11. Len(funcdata'[f]) = steps'[f] - 1
  BY <1>5, <1>9
<1> QED BY <1>1, <1>9, <1>10, <1>11 DEF IsNoted, Past

LEMMA NotedWithTree ==
  ASSUME LayoutInv, FuncsInv, LayoutNext, NEW f, MakesTree(f), f \in Listed, IsNoted(f), f \in DOMAIN funcdata
  PROVE  IsNoted(f)'
<1>1. /\ module' = module /\ DOMAIN offsets \subseteq DOMAIN offsets'
      /\ \A n : Symbol(n)' = Symbol(n) /\ Tables(n)' = Tables(n) /\ TreeStep(n)' = TreeStep(n)
  BY OffsetsStay
<1>2. f \in Names /\ module \in Modules /\ f \in DOMAIN offsets
  BY ListedAre
<1>3. /\ steps[f] = TreeStep(f) /\ Symbol(f).inlines /\ offsets' = offsets
      /\ steps' = [steps EXCEPT ![f] = @ + 1]
      /\ funcdata'[f] = WithEntry(funcdata[f], InlTree, sizes["noptrdata"])
  BY DEF MakesTree
<1>4. steps'[f] = TreeStep(f) + 1 /\ TreeStep(f) \in Nat
  BY <1>2, <1>3, OthersStep
<1>5. sizes["noptrdata"] \in Nat /\ InlTree \in Nat \ {0} /\ funcdata[f] \in Seq(Nat)
  BY DEF LayoutInv, PlacedInv, Sections, InlTree, IsNoted
<1>6. /\ funcdata'[f] \in Seq(Nat)
      /\ \A i \in DOMAIN funcdata[f] : i \in DOMAIN funcdata'[f] /\ (i # InlTree => funcdata'[f][i] = funcdata[f][i])
  BY <1>3, <1>5, WithEntryIs
<1>7. ASSUME NEW j \in DOMAIN Tables(f)
      PROVE  /\ j \in DOMAIN funcdata'[f]
             /\ Tables(f)[j] # NoName => Tables(f)[j] \in DOMAIN offsets'
             /\ j # InlTree \/ ~Symbol(f).inlines => funcdata'[f][j] = Noted(Tables(f)[j])'
  <2>1. steps[f] > j
    BY <1>2, <1>3, SymbolsAre DEF Tables
  <2>2. /\ j \in DOMAIN funcdata[f]
        /\ Tables(f)[j] # NoName => Tables(f)[j] \in DOMAIN offsets
        /\ j # InlTree \/ ~Symbol(f).inlines => funcdata[f][j] = Noted(Tables(f)[j])
    BY <2>1 DEF IsNoted, Past
  <2>3. Noted(Tables(f)[j])' = Noted(Tables(f)[j])
    BY <1>1, <1>3 DEF Noted
  <2> QED BY <1>3, <1>6, <2>2, <2>3
<1>8. ~(steps'[f] <= TreeStep(f))
  BY <1>4
<1> QED BY <1>1, <1>6, <1>7, <1>8 DEF IsNoted, Past

LEMMA NotedKeeps ==
  ASSUME LayoutInv, FuncsInv, NotedInv, LayoutNext
  PROVE  NotedInv'
<1>1. /\ DOMAIN funcdata = Listed /\ \A f \in Listed : IsNoted(f) /\ f \in DOMAIN offsets /\ f \in Names
      /\ \A n : Tables(n)' = Tables(n) /\ TreeStep(n)' = TreeStep(n)
      /\ funcs \in Seq(Names)
  BY ListedAre, OffsetsStay DEF NotedInv, FuncsInv
<1>2. ASSUME NEW name, Takes(name) PROVE NotedInv'
  <2>1. /\ name \in Names /\ name \notin DOMAIN offsets /\ steps'[name] = 1
        /\ \A n \in DOMAIN offsets : steps'[n] = steps[n]
    BY <1>2, TakesIs
  <2>2. CASE Kind(name) # "text"
    <3>1. UNCHANGED <<funcs, funcdata>> /\ Listed' = Listed
      BY <1>2, <2>2, TakesFunction DEF Listed, Range
    <3>2. \A f \in Listed : IsNoted(f)'
      BY <1>1, <2>1, <3>1, StaysNoted
    <3> QED BY <1>1, <3>1, <3>2 DEF NotedInv
  <2>3. CASE Kind(name) = "text"
    <3>1. funcs' = Append(funcs, name) /\ funcdata' = Put(funcdata, name, <<>>)
      BY <1>2, <2>3, TakesFunction
    <3>2. Listed' = Listed \cup {name}
      <4>1. PICK S : S = Names
        OBVIOUS
      <4> QED BY <1>1, <2>1, <3>1, <4>1, AppendedIs DEF Listed
    <3>3. /\ DOMAIN funcdata' = Listed' /\ funcdata'[name] = <<>>
          /\ \A f \in Listed : funcdata'[f] = funcdata[f] /\ f # name
      BY <1>1, <2>1, <3>1, <3>2 DEF Put
    <3>4. \A f \in Listed : IsNoted(f)'
      BY <1>1, <2>1, <3>3, StaysNoted
    <3>5. IsNoted(name)'
      <4>1. \A i \in DOMAIN Tables(name) : i >= 1 /\ i \in Nat
        BY <2>1, SymbolsAre DEF LayoutInv, Tables
      <4>2. \A i \in DOMAIN Tables(name) : ~(steps'[name] > i)
        BY <2>1, <4>1
      <4>3. Len(funcdata'[name]) = steps'[name] - 1 /\ funcdata'[name] \in Seq(Nat)
        BY <2>1, <3>3
      <4> QED BY <1>1, <4>2, <4>3 DEF IsNoted, Past
    <3> QED BY <3>2, <3>3, <3>4, <3>5 DEF NotedInv
  <2> QED BY <2>2, <2>3
<1>3. ASSUME NEW f, NEW i, Notes(f, i) PROVE NotedInv'
  <2>1. /\ f \in DOMAIN offsets /\ i \in DOMAIN Tables(f) /\ steps' = [steps EXCEPT ![f] = @ + 1]
        /\ UNCHANGED funcs /\ DOMAIN funcdata' = DOMAIN funcdata
        /\ \A g \in Listed : g # f => funcdata'[g] = funcdata[g]
    BY <1>1, <1>3 DEF Notes, Tables
  <2>2. f \in Listed
    <3>1. Tables(f) # <<>>
      BY <2>1
    <3> QED BY <2>1, <3>1, HasTables
  <2>3. \A g \in DOMAIN offsets : g # f => steps'[g] = steps[g]
    BY <2>1, OthersStep
  <2>4. \A g \in Listed : g # f => IsNoted(g)'
    BY <1>1, <2>1, <2>3, StaysNoted
  <2>5. IsNoted(f)'
    BY <1>1, <1>3, <2>2, NotedWithTable
  <2>6. Listed' = Listed
    BY <2>1 DEF Listed, Range
  <2> QED BY <1>1, <2>1, <2>4, <2>5, <2>6 DEF NotedInv
<1>4. ASSUME NEW f, MakesTree(f) PROVE NotedInv'
  <2>1. /\ f \in DOMAIN offsets /\ Symbol(f).inlines /\ steps' = [steps EXCEPT ![f] = @ + 1]
        /\ UNCHANGED funcs /\ DOMAIN funcdata' = DOMAIN funcdata
        /\ \A g \in Listed : g # f => funcdata'[g] = funcdata[g]
    BY <1>1, <1>4 DEF MakesTree
  <2>2. f \in Listed
    BY <2>1, HasTables
  <2>3. \A g \in DOMAIN offsets : g # f => steps'[g] = steps[g]
    BY <2>1, OthersStep
  <2>4. \A g \in Listed : g # f => IsNoted(g)'
    BY <1>1, <2>1, <2>3, StaysNoted
  <2>5. IsNoted(f)'
    BY <1>1, <1>4, <2>2, NotedWithTree
  <2>6. Listed' = Listed
    BY <2>1 DEF Listed, Range
  <2> QED BY <1>1, <2>1, <2>4, <2>5, <2>6 DEF NotedInv
<1>5. CASE Passes
  <2>1. UNCHANGED <<funcs, funcdata>> /\ Listed' = Listed
    BY <1>5 DEF Passes, Listed, Range
  <2>2. ASSUME NEW f \in Listed PROVE IsNoted(f)'
    <3>1. \/ steps'[f] = steps[f]
          \/ steps'[f] > TreeStep(f) /\ steps[f] >= TreeStep(f)
      BY <1>1, <1>5 DEF Passes
    <3>2. /\ TreeStep(f) \in Nat /\ \A i \in DOMAIN Tables(f) : i < TreeStep(f) /\ i \in Nat
      BY <1>1, SymbolsAre DEF LayoutInv, Tables
    <3>3. steps[f] \in Nat /\ steps'[f] \in Nat
      <4>1. CallsInv'
        BY CallsKeep
      <4> QED BY <1>1, <1>5, <4>1 DEF LayoutInv, CallsInv, Passes
    <3>4. /\ \A i \in DOMAIN Tables(f) : steps'[f] > i => steps[f] > i
          /\ steps'[f] <= TreeStep(f) => steps'[f] = steps[f]
      BY <3>1, <3>2, <3>3
    <3> QED BY <1>1, <2>1, <3>4, StaysNoted
  <2> QED BY <1>1, <2>1, <2>2 DEF NotedInv
<1> QED BY <1>2, <1>3, <1>4, <1>5, LayoutNextIs

\* The inline tree of a function that has one by now has a word of its own.
HasTree(f) == Symbol(f).inlines /\ Past(f, TreeStep(f))
Tree(f) == funcdata[f][InlTree]

IsTree(f) ==
  /\ InlTree \in DOMAIN funcdata[f] /\ Tree(f) \in 1 .. sizes["noptrdata"] - 1
  /\ \A n \in DOMAIN offsets : Kind(n) = "noptrdata" =>
       Tree(f) < offsets[n] \/ offsets[n] + Size(n) <= Tree(f)

TreesInv ==
  /\ sizes["noptrdata"] > 0
  /\ \A n \in DOMAIN offsets : Kind(n) = "noptrdata" /\ Size(n) > 0 => offsets[n] > 0
  /\ \A f \in Listed : HasTree(f) =>
       IsTree(f) /\ \A g \in Listed \ {f} : HasTree(g) => Tree(g) # Tree(f)

LEMMA OffsetsMove ==
  ASSUME LayoutInv, LayoutNext
  PROVE  /\ sizes["noptrdata"] \in Nat /\ sizes'["noptrdata"] \in Nat /\ sizes["noptrdata"] <= sizes'["noptrdata"]
         /\ \A n \in DOMAIN offsets' :
              /\ Size(n) \in Nat
              /\ IF n \in DOMAIN offsets
                 THEN /\ offsets[n] \in Nat
                      /\ offsets'[n] = offsets[n] \/ (offsets'[n] = 0 /\ Size(n) = 0)
                 ELSE offsets'[n] = sizes[Kind(n)]
<1>1. /\ module' = module /\ module \in Modules /\ Names' = Names
      /\ sizes \in [Sections -> Nat] /\ \A n \in DOMAIN offsets : offsets[n] \in Nat
      /\ "noptrdata" \in Sections
  BY OffsetsStay DEF LayoutInv, PlacedInv, Sections
<1>2. PlacedInv'
  BY PlacedKeeps
<1>3. \A n \in DOMAIN offsets' : Size(n) \in Nat
  BY <1>1, <1>2, SymbolsAre DEF PlacedInv
<1>4. sizes' \in [Sections -> Nat]
  BY <1>2 DEF PlacedInv
<1>5. CASE \E name : Takes(name)
  <2>1. PICK name : Takes(name)
    BY <1>5
  <2>2. /\ DOMAIN offsets' = DOMAIN offsets \cup {name} /\ offsets'[name] = sizes[Kind(name)]
        /\ \A n \in DOMAIN offsets : offsets'[n] = offsets[n]
        /\ sizes'[Kind(name)] = sizes[Kind(name)] + Size(name)
        /\ \A s \in Sections : s # Kind(name) => sizes'[s] = sizes[s]
        /\ Size(name) \in Nat
    BY <2>1, TakesIs
  <2>3. sizes["noptrdata"] <= sizes'["noptrdata"]
    BY <1>1, <2>2
  <2> QED BY <1>1, <1>3, <1>4, <2>2, <2>3
<1>6. CASE \E f, i : Notes(f, i)
  <2>1. UNCHANGED <<offsets, sizes>>
    BY <1>6 DEF Notes
  <2> QED BY <1>1, <1>3, <2>1
<1>7. CASE \E f : MakesTree(f)
  <2>1. UNCHANGED offsets /\ sizes' = [sizes EXCEPT !["noptrdata"] = @ + InlTreeSize]
    BY <1>7 DEF MakesTree
  <2>2. sizes'["noptrdata"] = sizes["noptrdata"] + 1
    BY <1>1, <2>1 DEF InlTreeSize
  <2> QED BY <1>1, <1>3, <1>4, <2>1, <2>2
<1>8. CASE Passes
  <2>1. /\ UNCHANGED sizes /\ DOMAIN offsets' = DOMAIN offsets
        /\ \A n \in DOMAIN offsets : offsets'[n] = offsets[n] \/ (offsets'[n] = 0 /\ Size(n) = 0)
    BY <1>8 DEF Passes
  <2> QED BY <1>1, <1>3, <2>1
<1> QED BY <1>5, <1>6, <1>7, <1>8, LayoutNextIs

LEMMA TreeStays ==
  ASSUME LayoutInv, FuncsInv, TreesInv, LayoutNext, NEW f \in Listed, HasTree(f), funcdata'[f] = funcdata[f]
  PROVE  IsTree(f)'
<1>1. \A n : Kind(n)' = Kind(n) /\ Size(n)' = Size(n)
  BY OffsetsStay
<1>2. InlTree \in DOMAIN funcdata[f] /\ Tree(f) \in 1 .. sizes["noptrdata"] - 1 /\ Tree(f)' = Tree(f)
  BY DEF TreesInv, IsTree, Tree
<1>3. Tree(f) \in 1 .. sizes'["noptrdata"] - 1
  BY <1>2, OffsetsMove
<1>4. ASSUME NEW n \in DOMAIN offsets', Kind(n) = "noptrdata"
      PROVE  Tree(f) < offsets'[n] \/ offsets'[n] + Size(n) <= Tree(f)
  <2>1. CASE n \notin DOMAIN offsets
    BY <1>2, <1>4, <2>1, OffsetsMove
  <2>2. CASE n \in DOMAIN offsets
    <3>1. Tree(f) < offsets[n] \/ offsets[n] + Size(n) <= Tree(f)
      BY <1>4, <2>2 DEF TreesInv, IsTree
    <3> QED BY <1>2, <1>4, <2>2, <3>1, OffsetsMove
  <2> QED BY <2>1, <2>2
<1> QED BY <1>1, <1>2, <1>3, <1>4 DEF IsTree

\* Which functions have their trees, after a step other than the making of one.
LEMMA TreesKeep ==
  ASSUME LayoutInv, FuncsInv, NotedInv, TreesInv, LayoutNext,
         \A f \in Listed' : HasTree(f)' => f \in Listed /\ HasTree(f) /\ funcdata'[f] = funcdata[f]
  PROVE  TreesInv'
<1>1. /\ sizes'["noptrdata"] > 0
      /\ \A n \in DOMAIN offsets' : Kind(n) = "noptrdata" /\ Size(n) > 0 => offsets'[n] > 0
  BY OffsetsMove DEF TreesInv
<1>2. ASSUME NEW f \in Listed', HasTree(f)'
      PROVE  IsTree(f)' /\ \A g \in Listed' \ {f} : HasTree(g)' => Tree(g)' # Tree(f)'
  <2>1. IsTree(f)'
    BY <1>2, TreeStays
  <2>2. \A g \in Listed' : HasTree(g)' => g \in Listed /\ HasTree(g) /\ Tree(g)' = Tree(g)
    BY DEF Tree
  <2>3. \A g \in Listed \ {f} : HasTree(g) => Tree(g) # Tree(f)
    BY <1>2, <2>2 DEF TreesInv
  <2> QED BY <1>2, <2>1, <2>2, <2>3
<1>3. \A n : Kind(n)' = Kind(n) /\ Size(n)' = Size(n)
  BY OffsetsStay
<1> QED BY <1>1, <1>2, <1>3 DEF TreesInv

\* Which functions have had their trees made, after each of the steps.
LEMMA TreesMade ==
  ASSUME LayoutInv, FuncsInv, LayoutNext
  PROVE  /\ \A name : Takes(name) => \A f \in Listed' : HasTree(f)' => f \in Listed /\ HasTree(f) /\ f # name
         /\ \A f, i : Notes(f, i) => ~HasTree(f)' /\ \A g \in Listed : g # f => (HasTree(g)' <=> HasTree(g))
         /\ \A f : MakesTree(f) => HasTree(f)' /\ ~HasTree(f) /\ \A g \in Listed : g # f => (HasTree(g)' <=> HasTree(g))
         /\ Passes => \A f \in Listed : HasTree(f)' <=> HasTree(f)
<1>1. /\ \A n : Symbol(n)' = Symbol(n) /\ TreeStep(n)' = TreeStep(n)
      /\ \A n : steps'[n] = steps[n] => (HasTree(n)' <=> HasTree(n))
  BY OffsetsStay DEF HasTree, Past
<1>2. /\ \A f \in Listed : f \in DOMAIN offsets
      /\ \A f \in DOMAIN offsets : TreeStep(f) \in Nat \ {0} /\ steps[f] \in Nat
      /\ FuncsInv'
  BY ListedAre, SymbolsAre, FuncsKeeps DEF LayoutInv, PlacedInv, CallsInv
<1>3. ASSUME NEW name, Takes(name), NEW f \in Listed', HasTree(f)' PROVE f \in Listed /\ HasTree(f) /\ f # name
  <2>1. /\ name \in Names /\ steps'[name] = 1 /\ \A n \in DOMAIN offsets : steps'[n] = steps[n]
        /\ DOMAIN offsets' = DOMAIN offsets \cup {name} /\ name \notin DOMAIN offsets
    BY <1>3, TakesIs
  <2>2. TreeStep(name) \in Nat \ {0}
    BY <2>1, SymbolsAre DEF LayoutInv
  <2>3. f # name
    BY <1>1, <1>3, <2>1, <2>2 DEF HasTree, Past
  <2>4. f \in DOMAIN offsets /\ Kind(f) = "text"
    <3>1. f \in DOMAIN offsets' /\ Kind(f)' = "text" /\ Kind(f)' = Kind(f)
      BY <1>2, OffsetsStay DEF FuncsInv
    <3> QED BY <2>1, <2>3, <3>1
  <2>5. f \in Listed
    BY <2>4 DEF FuncsInv
  <2> QED BY <1>1, <1>3, <2>1, <2>3, <2>4, <2>5
<1>4. ASSUME NEW f, NEW i, Notes(f, i)
      PROVE  ~HasTree(f)' /\ \A g \in Listed : g # f => (HasTree(g)' <=> HasTree(g))
  <2>1. /\ f \in DOMAIN offsets /\ steps[f] = i /\ i \in DOMAIN Symbol(f).funcdata
        /\ steps' = [steps EXCEPT ![f] = @ + 1]
    BY <1>4 DEF Notes
  <2>2. steps'[f] = i + 1 /\ \A g \in DOMAIN offsets : g # f => steps'[g] = steps[g]
    BY <2>1, OthersStep
  <2>3. i < TreeStep(f)
    BY <2>1, SymbolsAre DEF LayoutInv, PlacedInv
  <2>4. ~(steps'[f] > TreeStep(f))
    BY <1>2, <2>1, <2>2, <2>3
  <2> QED BY <1>1, <1>2, <2>2, <2>4 DEF HasTree, Past
<1>5. ASSUME NEW f, MakesTree(f)
      PROVE  HasTree(f)' /\ ~HasTree(f) /\ \A g \in Listed : g # f => (HasTree(g)' <=> HasTree(g))
  <2>1. /\ f \in DOMAIN offsets /\ steps[f] = TreeStep(f) /\ Symbol(f).inlines
        /\ steps' = [steps EXCEPT ![f] = @ + 1]
    BY <1>5 DEF MakesTree
  <2>2. steps'[f] = steps[f] + 1 /\ \A g \in DOMAIN offsets : g # f => steps'[g] = steps[g]
    BY <2>1, OthersStep
  <2>3. steps'[f] > TreeStep(f) /\ ~(steps[f] > TreeStep(f))
    BY <1>2, <2>1, <2>2
  <2> QED BY <1>1, <1>2, <2>1, <2>2, <2>3 DEF HasTree, Past
<1>6. ASSUME Passes, NEW f \in Listed PROVE HasTree(f)' <=> HasTree(f)
  <2>1. \/ steps'[f] = steps[f]
        \/ steps'[f] > TreeStep(f) /\ (steps[f] <= TreeStep(f) => ~Symbol(f).inlines)
    BY <1>2, <1>6 DEF Passes
  <2>2. CASE steps'[f] = steps[f]
    BY <1>1, <2>2
  <2>3. CASE steps'[f] > TreeStep(f) /\ (steps[f] <= TreeStep(f) => ~Symbol(f).inlines)
    <3>1. steps[f] <= TreeStep(f) \/ steps[f] > TreeStep(f)
      BY <1>2
    <3> QED BY <1>1, <2>3, <3>1 DEF HasTree, Past
  <2> QED BY <2>1, <2>2, <2>3
<1> QED BY <1>3, <1>4, <1>5, <1>6

LEMMA TreesKeeps ==
  ASSUME LayoutInv, FuncsInv, NotedInv, TreesInv, LayoutNext
  PROVE  TreesInv'
<1>1. ASSUME NEW name, Takes(name) PROVE TreesInv'
  <2>1. /\ \A f \in Listed' : HasTree(f)' => f \in Listed /\ HasTree(f) /\ f # name
    BY <1>1, TreesMade
  <2>2. \A f \in Listed : f # name => funcdata'[f] = funcdata[f]
    <3>1. DOMAIN funcdata = Listed
      BY DEF NotedInv
    <3>2. CASE Kind(name) # "text"
      BY <1>1, <3>2, TakesFunction
    <3>3. CASE Kind(name) = "text"
      <4>1. funcdata' = Put(funcdata, name, <<>>)
        BY <1>1, <3>3, TakesFunction
      <4> QED BY <3>1, <4>1 DEF Put
    <3> QED BY <3>2, <3>3
  <2> QED BY <2>1, <2>2, TreesKeep
<1>2. ASSUME NEW f, NEW i, Notes(f, i) PROVE TreesInv'
  <2>1. UNCHANGED funcs /\ \A g \in Listed : g # f => funcdata'[g] = funcdata[g]
    BY <1>2 DEF Notes, NotedInv
  <2>2. Listed' = Listed
    BY <2>1 DEF Listed, Range
  <2> QED BY <1>2, <2>1, <2>2, TreesMade, TreesKeep
<1>3. ASSUME NEW f, MakesTree(f) PROVE TreesInv'
  <2>1. /\ UNCHANGED <<funcs, offsets>> /\ \A g \in Listed : g # f => funcdata'[g] = funcdata[g]
        /\ sizes' = [sizes EXCEPT !["noptrdata"] = @ + InlTreeSize]
        /\ f \in DOMAIN offsets /\ Symbol(f).inlines
    BY <1>3 DEF MakesTree, NotedInv
  <2>2. Listed' = Listed /\ f \in Listed
    <3>1. f \in Listed
      BY <2>1, HasTables
    <3> QED BY <2>1, <3>1 DEF Listed, Range
  <2>3. PICK end : end = sizes["noptrdata"]
    OBVIOUS
  <2>4. end \in Nat /\ end > 0 /\ sizes'["noptrdata"] = end + 1
    BY <2>1, <2>3 DEF TreesInv, LayoutInv, PlacedInv, Sections, InlTreeSize
  <2>5. InlTree \in DOMAIN funcdata'[f] /\ funcdata'[f][InlTree] = end
    <3>1. funcdata[f] \in Seq(Nat) /\ funcdata'[f] = WithEntry(funcdata[f], InlTree, end)
      BY <1>3, <2>2, <2>3 DEF NotedInv, IsNoted, MakesTree
    <3>2. InlTree \in Nat \ {0}
      BY DEF InlTree
    <3> QED BY <2>4, <3>1, <3>2, WithEntryIs
  <2>6. Tree(f)' = end
    BY <2>5 DEF Tree
  <2>7. IsTree(f)'
    <3>1. \A n : Kind(n)' = Kind(n) /\ Size(n)' = Size(n)
      BY OffsetsStay
    <3>2. \A n \in DOMAIN offsets : Kind(n) = "noptrdata" => offsets[n] + Size(n) <= end
      BY <2>3 DEF LayoutInv, PlacedInv
    <3>3. end \in 1 .. sizes'["noptrdata"] - 1
      BY <2>4
    <3> QED BY <2>1, <2>5, <2>6, <3>1, <3>2, <3>3 DEF IsTree
  <2>8. ASSUME NEW g \in Listed, g # f, HasTree(g)' PROVE IsTree(g)' /\ Tree(g)' = Tree(g) /\ Tree(g) # end /\ HasTree(g)
    <3>1. HasTree(g)
      BY <1>3, <2>8, TreesMade
    <3>2. IsTree(g)' /\ Tree(g)' = Tree(g)
      BY <2>1, <2>8, <3>1, TreeStays DEF Tree
    <3>3. Tree(g) # end
      BY <2>3, <2>4, <3>1 DEF TreesInv, IsTree
    <3> QED BY <3>1, <3>2, <3>3
  <2>9. \A g \in Listed, h \in Listed : g # h /\ HasTree(g)' /\ HasTree(h)' => Tree(h)' # Tree(g)'
    <3> SUFFICES ASSUME NEW g \in Listed, NEW h \in Listed, g # h, HasTree(g)', HasTree(h)'
                 PROVE  Tree(h)' # Tree(g)'
      OBVIOUS
    <3>1. CASE g = f \/ h = f
      BY <2>6, <2>8, <3>1
    <3>2. CASE g # f /\ h # f
      <4>1. HasTree(g) /\ HasTree(h) /\ Tree(g)' = Tree(g) /\ Tree(h)' = Tree(h)
        BY <2>8, <3>2
      <4> QED BY <4>1 DEF TreesInv
    <3> QED BY <3>1, <3>2
  <2>10. /\ sizes'["noptrdata"] > 0
         /\ \A n \in DOMAIN offsets : Kind(n)' = "noptrdata" /\ Size(n)' > 0 => offsets'[n] > 0
    BY <2>1, <2>4, OffsetsStay DEF TreesInv
  <2> QED BY <2>1, <2>2, <2>7, <2>8, <2>9, <2>10 DEF TreesInv
<1>4. CASE Passes
  <2>1. UNCHANGED <<funcs, funcdata>> /\ Listed' = Listed
    BY <1>4 DEF Passes, Listed, Range
  <2> QED BY <1>4, <2>1, TreesMade, TreesKeep
<1> QED BY <1>1, <1>2, <1>3, <1>4, LayoutNextIs

\* The sums are those of the recursion, and they grow.
LEMMA SumIs ==
  ASSUME NEW t \in Seq(Nat)
  PROVE  /\ Sum(t, 0) = 0 /\ \A k \in 0 .. Len(t) : Sum(t, k) \in Nat
         /\ \A k \in 1 .. Len(t) : Sum(t, k) = Sum(t, k - 1) + t[k]
<1> DEFINE N == Len(t)
           After(g, k) == IF k = 0 THEN 0 ELSE g[k - 1] + t[k]
           Solves(g) == g = [k \in 0 .. N |-> After(g, k)]
<1>1. N \in Nat /\ \A i \in 1 .. N : t[i] \in Nat
  OBVIOUS
<1>2. PICK F : F = [x \in (1 .. N) \X Nat |-> x[2] + t[x[1]]]
  OBVIOUS
<1>3. F \in [(1 .. N) \X Nat -> Nat]
  BY <1>1, <1>2
<1>4. PICK h : Upto(N, Nat, 0, F, h)
  <2> HIDE DEF N
  <2> QED BY <1>1, <1>3, SegmentRecursion
<1>5. h \in [0 .. N -> Nat] /\ h[0] = 0
  BY <1>4 DEF Upto
<1>6. ASSUME NEW k \in 1 .. N PROVE h[k] = h[k - 1] + t[k]
  <2>1. k - 1 \in 0 .. N /\ h[k - 1] \in Nat
    <3>1. k - 1 \in 0 .. N
      BY <1>1
    <3> HIDE DEF N
    <3> QED BY <1>5, <3>1
  <2>2. <<k, h[k - 1]>> \in (1 .. N) \X Nat
    BY <2>1
  <2>3. h[k] = F[<<k, h[k - 1]>>]
    BY <1>4 DEF Upto
  <2> QED BY <1>2, <2>2, <2>3
<1>7. \E g : Solves(g)
  <2>1. \A k \in 0 .. N : h[k] = After(h, k)
    BY <1>5, <1>6
  <2>2. h = [k \in 0 .. N |-> h[k]]
    BY <1>5
  <2> HIDE DEF After, N
  <2>3. h = [k \in 0 .. N |-> After(h, k)]
    BY <2>1, <2>2
  <2> QED BY <2>3
<1>8. PICK f : f = CHOOSE g : Solves(g)
  OBVIOUS
<1>9. Solves(f)
  BY <1>7, <1>8
<1>10. \A n : Sum(t, n) = f[n]
  BY <1>8 DEF Sum
<1>11. f[0] = 0 /\ \A k \in 1 .. N : f[k] = f[k - 1] + t[k]
  <2>1. f[0] = 0
    BY <1>1, <1>9
  <2>2. ASSUME NEW k \in 1 .. N PROVE f[k] = f[k - 1] + t[k]
    <3>1. k \in 0 .. N /\ k # 0
      OBVIOUS
    <3>2. f[k] = After(f, k)
      BY <1>9, <3>1, Zenon
    <3> QED BY <3>1, <3>2
  <2> QED BY <2>1, <2>2
<1>12. \A k \in 0 .. N : f[k] \in Nat
  <2> DEFINE G == {n \in 0 .. N : f[n] \in Nat}
  <2>1. 0 \in G
    BY <1>1, <1>11
  <2>2. \A n \in 1 .. N : n - 1 \in G => n \in G
    <3> SUFFICES ASSUME NEW n \in 1 .. N, n - 1 \in G PROVE n \in G
      OBVIOUS
    <3>1. f[n - 1] \in Nat /\ f[n] = f[n - 1] + t[n] /\ t[n] \in Nat
      BY <1>1, <1>11
    <3> QED BY <3>1
  <2> HIDE DEF G, N
  <2>3. 0 .. N \subseteq G
    BY <1>1, <2>1, <2>2, SegmentInduction
  <2> QED BY <2>3 DEF G
<1> QED BY <1>10, <1>11, <1>12

LEMMA SumGrows ==
  ASSUME NEW t \in Seq(Nat), NEW i \in 0 .. Len(t), NEW j \in 0 .. Len(t), i <= j
  PROVE  Sum(t, i) <= Sum(t, j)
<1> DEFINE G == {n \in 0 .. Len(t) : n >= i => Sum(t, i) <= Sum(t, n)}
<1>1. Len(t) \in Nat /\ \A k \in 0 .. Len(t) : Sum(t, k) \in Nat
  BY SumIs
<1>2. 0 \in G
  BY <1>1
<1>3. \A n \in 1 .. Len(t) : n - 1 \in G => n \in G
  <2> SUFFICES ASSUME NEW n \in 1 .. Len(t), n - 1 \in G PROVE n \in G
    OBVIOUS
  <2>1. /\ Sum(t, n) = Sum(t, n - 1) + t[n] /\ t[n] \in Nat
        /\ Sum(t, n) \in Nat /\ Sum(t, n - 1) \in Nat /\ Sum(t, i) \in Nat
    <3>1. n \in 0 .. Len(t) /\ n - 1 \in 0 .. Len(t)
      OBVIOUS
    <3>2. Sum(t, n) = Sum(t, n - 1) + t[n]
      BY SumIs
    <3>3. t[n] \in Nat
      OBVIOUS
    <3> QED BY <1>1, <3>1, <3>2, <3>3
  <2>2. CASE n = i
    BY <2>1, <2>2
  <2>3. CASE n # i
    <3>1. n >= i => n - 1 >= i
      BY <2>3
    <3> QED BY <2>1, <3>1
  <2> QED BY <2>2, <2>3
<1> HIDE DEF G
<1>4. 0 .. Len(t) \subseteq G
  BY <1>1, <1>2, <1>3, SegmentInduction
<1> QED BY <1>4 DEF G

LEMMA AlignIs ==
  ASSUME NEW n \in Nat
  PROVE  Align(n) \in Nat /\ Align(n) >= n
BY DEF Align, PtrSize

\* The pc-value tables that there are so far lie behind each other.
PcSize(f, i) ==
  IF i = InlTreeIndex /\ HasTree(f) THEN Symbol(f).pcinline
  ELSE IF i \in DOMAIN Symbol(f).pcvalues THEN Symbol(f).pcvalues[i] ELSE 0

ArePcs(f) ==
  /\ pcs[f] \in Seq(Nat) /\ Len(pcs[f]) >= 3
  /\ ~HasTree(f) => Len(pcs[f]) = Len(Symbol(f).pcvalues)
  /\ \A i \in DOMAIN pcs[f] :
       /\ pcs[f][i] = 0 <=> i > 3 /\ PcSize(f, i) = 0
       /\ PcSize(f, i) > 0 => PtrSize <= pcs[f][i] /\ pcs[f][i] + PcSize(f, i) <= pctab

AreApart(f, i, g, j) ==
  PcSize(f, i) > 0 /\ PcSize(g, j) > 0 =>
    pcs[f][i] + PcSize(f, i) <= pcs[g][j] \/ pcs[g][j] + PcSize(g, j) <= pcs[f][i]

PcTablesInv ==
  /\ pctab \in Nat /\ pctab >= PtrSize
  /\ DOMAIN pcs = Listed /\ \A f \in Listed : ArePcs(f)
  /\ \A f, g \in Listed : \A i \in DOMAIN pcs[f], j \in DOMAIN pcs[g] :
       f # g \/ i # j => AreApart(f, i, g, j)

LEMMA PcSizesAre ==
  ASSUME module \in Modules, NEW f \in Names, Kind(f) = "text"
  PROVE  /\ Symbol(f).pcvalues \in Seq(Nat) /\ Len(Symbol(f).pcvalues) >= 3
         /\ Symbol(f).inlines => Symbol(f).pcinline \in Nat \ {0}
         /\ \A i : PcSize(f, i) \in Nat
<1>1. /\ Symbol(f).pcvalues \in Seq(Nat) /\ Len(Symbol(f).pcvalues) >= 3
      /\ Symbol(f).inlines => Symbol(f).pcinline \in Nat \ {0}
  BY FunctionsAre DEF TablesAreGiven
<1>2. \A i \in DOMAIN Symbol(f).pcvalues : Symbol(f).pcvalues[i] \in Nat
  BY <1>1
<1> QED BY <1>1, <1>2 DEF PcSize, HasTree

LEMMA PcOffsetsAre ==
  ASSUME module \in Modules, NEW f \in Names, Kind(f) = "text", pctab \in Nat, pctab >= PtrSize
  PROVE  LET its == Symbol(f).pcvalues
             end == pctab + Sum(its, Len(its))
             at == PcOffsets(f)
         IN /\ end \in Nat /\ pctab <= end /\ its \in Seq(Nat) /\ Len(its) >= 3
            /\ at \in Seq(Nat) /\ Len(at) = Len(its) /\ DOMAIN at = DOMAIN its
            /\ \A i \in DOMAIN its : at[i] = 0 <=> i > 3 /\ its[i] = 0
            /\ \A i \in DOMAIN its : its[i] > 0 => pctab <= at[i] /\ at[i] + its[i] <= end
            /\ \A i, j \in DOMAIN its : i < j /\ its[i] > 0 /\ its[j] > 0 => at[i] + its[i] <= at[j]
<1>1. PICK its : its = Symbol(f).pcvalues
  OBVIOUS
<1>2. its \in Seq(Nat) /\ Len(its) >= 3 /\ Len(its) \in Nat /\ DOMAIN its = 1 .. Len(its)
      /\ \A i \in DOMAIN its : its[i] \in Nat
  BY <1>1, PcSizesAre
<1>3. /\ \A k \in 0 .. Len(its) : Sum(its, k) \in Nat
      /\ \A k \in 1 .. Len(its) : Sum(its, k) = Sum(its, k - 1) + its[k]
      /\ \A k, l \in 0 .. Len(its) : k <= l => Sum(its, k) <= Sum(its, l)
  <2>1. /\ \A k \in 0 .. Len(its) : Sum(its, k) \in Nat
        /\ \A k \in 1 .. Len(its) : Sum(its, k) = Sum(its, k - 1) + its[k]
    BY <1>2, SumIs
  <2>2. ASSUME NEW k \in 0 .. Len(its), NEW l \in 0 .. Len(its), k <= l PROVE Sum(its, k) <= Sum(its, l)
    BY <1>2, <2>2, SumGrows
  <2> QED BY <2>1, <2>2
<1>4. PICK end : end = pctab + Sum(its, Len(its))
  OBVIOUS
<1>5. PICK at : at = PcOffsets(f)
  OBVIOUS
<1>6. at = [i \in 1 .. Len(its) |-> IF i > 3 /\ its[i] = 0 THEN 0 ELSE pctab + Sum(its, i - 1)]
  BY <1>1, <1>2, <1>5 DEF PcOffsets
<1>7. end \in Nat /\ pctab <= end
  <2>1. Len(its) \in 0 .. Len(its)
    BY <1>2
  <2>2. Sum(its, Len(its)) \in Nat
    BY <1>3, <2>1
  <2> QED BY <1>4, <2>2
<1>8. ASSUME NEW i \in 1 .. Len(its)
      PROVE  /\ at[i] \in Nat
             /\ at[i] = 0 <=> i > 3 /\ its[i] = 0
             /\ its[i] > 0 => pctab <= at[i] /\ at[i] + its[i] = pctab + Sum(its, i) /\ pctab + Sum(its, i) <= end
                             /\ at[i] = pctab + Sum(its, i - 1)
  <2>1. i - 1 \in 0 .. Len(its) /\ i \in 0 .. Len(its) /\ Len(its) \in 0 .. Len(its) /\ i <= Len(its)
    <3>1. Len(its) \in Nat
      BY <1>2
    <3> QED BY <3>1
  <2>2. /\ Sum(its, i - 1) \in Nat /\ Sum(its, i) = Sum(its, i - 1) + its[i] /\ Sum(its, i) <= Sum(its, Len(its))
        /\ Sum(its, i) \in Nat /\ Sum(its, Len(its)) \in Nat /\ its[i] \in Nat
    BY <1>2, <1>3, <2>1
  <2>3. at[i] = IF i > 3 /\ its[i] = 0 THEN 0 ELSE pctab + Sum(its, i - 1)
    BY <1>6
  <2>4. pctab > 0
    BY DEF PtrSize
  <2>5. CASE i > 3 /\ its[i] = 0
    BY <2>3, <2>5
  <2>6. CASE ~(i > 3 /\ its[i] = 0)
    <3>1. at[i] = pctab + Sum(its, i - 1)
      BY <2>3, <2>6
    <3>2. pctab + Sum(its, i - 1) \in Nat /\ pctab + Sum(its, i - 1) # 0 /\ pctab <= pctab + Sum(its, i - 1)
      BY <2>2, <2>4
    <3>3. pctab + Sum(its, i - 1) + its[i] = pctab + Sum(its, i)
      BY <2>2
    <3>4. pctab + Sum(its, i) <= end
      BY <1>4, <2>2
    <3> QED BY <2>6, <3>1, <3>2, <3>3, <3>4
  <2> QED BY <2>5, <2>6
<1>9. at \in Seq(Nat) /\ Len(at) = Len(its) /\ DOMAIN at = 1 .. Len(its)
  <2>1. at = [i \in 1 .. Len(its) |-> at[i]]
    BY <1>6
  <2> QED BY <1>2, <1>8, <2>1
<1>10. ASSUME NEW i \in 1 .. Len(its), NEW j \in 1 .. Len(its), i < j, its[i] > 0, its[j] > 0
       PROVE  at[i] + its[i] <= at[j]
  <2>1. i \in 0 .. Len(its) /\ j - 1 \in 0 .. Len(its) /\ i <= j - 1
    BY <1>2, <1>10
  <2>2. Sum(its, i) <= Sum(its, j - 1) /\ Sum(its, i) \in Nat /\ Sum(its, j - 1) \in Nat
    BY <1>3, <2>1
  <2>3. at[i] + its[i] = pctab + Sum(its, i) /\ at[j] = pctab + Sum(its, j - 1)
    BY <1>8, <1>10
  <2> QED BY <2>2, <2>3
<1> QED BY <1>1, <1>2, <1>4, <1>5, <1>7, <1>8, <1>9, <1>10

\* A step leaves a table where it was, or puts one behind all others.
WasThere(f, i) ==
  /\ f \in Listed /\ i \in DOMAIN pcs[f]
  /\ pcs'[f][i] = pcs[f][i] /\ PcSize(f, i)' = PcSize(f, i)

IsBehind(f, i) == pctab <= pcs'[f][i] /\ pcs'[f][i] + PcSize(f, i)' <= pctab'

LEMMA StillApart ==
  ASSUME PcTablesInv, NEW f \in Listed', NEW i \in DOMAIN pcs'[f], NEW g \in Listed', NEW j \in DOMAIN pcs'[g],
         f # g \/ i # j, WasThere(f, i), WasThere(g, j) \/ IsBehind(g, j),
         PcSize(f, i) \in Nat, PcSize(g, j)' \in Nat, pcs'[g][j] \in Nat
  PROVE  AreApart(f, i, g, j)' /\ AreApart(g, j, f, i)'
<1>1. CASE WasThere(g, j)
  BY <1>1 DEF PcTablesInv, AreApart, WasThere
<1>2. CASE IsBehind(g, j)
  <2>1. PcSize(f, i) > 0 => pcs[f][i] + PcSize(f, i) <= pctab
    BY DEF PcTablesInv, ArePcs, WasThere
  <2>2. pcs[f][i] \in Nat /\ pctab \in Nat
    BY DEF PcTablesInv, ArePcs, WasThere
  <2> QED BY <1>2, <2>1, <2>2 DEF IsBehind, AreApart, WasThere
<1> QED BY <1>1, <1>2

LEMMA PcsStay ==
  ASSUME LayoutInv, FuncsInv, PcTablesInv, LayoutNext, NEW f \in Listed,
         pcs'[f] = pcs[f], HasTree(f)' <=> HasTree(f), pctab' \in Nat, pctab <= pctab'
  PROVE  ArePcs(f)' /\ \A i \in DOMAIN pcs[f] : WasThere(f, i) /\ PcSize(f, i) \in Nat
<1>1. \A n : Symbol(n)' = Symbol(n)
  BY OffsetsStay
<1>2. \A i : PcSize(f, i)' = PcSize(f, i) /\ PcSize(f, i) \in Nat
  BY <1>1, ListedAre, PcSizesAre DEF PcSize
<1>3. /\ pcs[f] \in Seq(Nat) /\ Len(pcs[f]) >= 3
      /\ ~HasTree(f) => Len(pcs[f]) = Len(Symbol(f).pcvalues)
      /\ \A i \in DOMAIN pcs[f] :
           /\ pcs[f][i] = 0 <=> i > 3 /\ PcSize(f, i) = 0
           /\ PcSize(f, i) > 0 => PtrSize <= pcs[f][i] /\ pcs[f][i] + PcSize(f, i) <= pctab
  BY DEF PcTablesInv, ArePcs
<1>4. ASSUME NEW i \in DOMAIN pcs[f], PcSize(f, i) > 0 PROVE pcs[f][i] + PcSize(f, i) <= pctab'
  <2>1. pcs[f][i] \in Nat /\ pctab \in Nat
    BY <1>3 DEF PcTablesInv
  <2> QED BY <1>2, <1>3, <1>4, <2>1
<1>5. ArePcs(f)'
  BY <1>1, <1>2, <1>3, <1>4 DEF ArePcs
<1> QED BY <1>2, <1>5 DEF WasThere

\* A function is added, and its pc-value tables.
LEMMA PcTablesAdded ==
  ASSUME LayoutInv, FuncsInv, PcTablesInv, LayoutNext, NEW name, Takes(name), Kind(name) = "text"
  PROVE  PcTablesInv'
<1>1. PICK its : its = Symbol(name).pcvalues
  OBVIOUS
<1>2. PICK end : end = pctab + Sum(its, Len(its))
  OBVIOUS
<1>3. /\ funcs' = Append(funcs, name) /\ pcs' = Put(pcs, name, PcOffsets(name))
      /\ pctab' = IF Symbol(name).inlines THEN end ELSE Align(end)
  BY <1>1, <1>2, TakesFunction
<1>4. /\ module \in Modules /\ name \in Names /\ name \notin DOMAIN offsets /\ steps'[name] = 1
      /\ \A n \in DOMAIN offsets : steps'[n] = steps[n]
      /\ pctab \in Nat /\ pctab >= PtrSize /\ DOMAIN pcs = Listed
      /\ \A n : Symbol(n)' = Symbol(n) /\ TreeStep(n)' = TreeStep(n)
      /\ \A f \in Listed : f \in DOMAIN offsets
      /\ FuncsInv' /\ LayoutInv'
  <2>1. LayoutInv'
    BY PlacedKeeps, CallsKeep, LayoutKeeps DEF LayoutInv
  <2> QED BY <2>1, TakesIs, OffsetsStay, ListedAre, FuncsKeeps DEF PcTablesInv, LayoutInv
<1>5. Listed' = Listed \cup {name}
  <2>1. PICK S : S = Names
    OBVIOUS
  <2>2. funcs \in Seq(S) /\ name \in S
    BY <1>4, <2>1 DEF FuncsInv
  <2> QED BY <1>3, <2>2, AppendedIs DEF Listed
<1>6. PICK at : at = PcOffsets(name)
  OBVIOUS
<1>7. /\ end \in Nat /\ pctab <= end /\ its \in Seq(Nat) /\ Len(its) >= 3
      /\ at \in Seq(Nat) /\ Len(at) = Len(its) /\ DOMAIN at = DOMAIN its
      /\ \A i \in DOMAIN its : at[i] = 0 <=> i > 3 /\ its[i] = 0
      /\ \A i \in DOMAIN its : its[i] > 0 => pctab <= at[i] /\ at[i] + its[i] <= end
      /\ \A i, j \in DOMAIN its : i < j /\ its[i] > 0 /\ its[j] > 0 => at[i] + its[i] <= at[j]
  BY <1>1, <1>2, <1>4, <1>6, PcOffsetsAre
<1>8. pctab' \in Nat /\ end <= pctab' /\ pctab <= pctab' /\ pctab' >= PtrSize
  <2>1. pctab' \in Nat /\ end <= pctab'
    BY <1>3, <1>7, AlignIs
  <2> QED BY <1>4, <1>7, <2>1 DEF PtrSize
<1>9. /\ DOMAIN pcs' = Listed' /\ pcs'[name] = at
      /\ \A f \in Listed : f # name /\ pcs'[f] = pcs[f]
  BY <1>3, <1>4, <1>5, <1>6 DEF Put
<1>10. ~HasTree(name)' /\ \A f \in Listed : HasTree(f)' <=> HasTree(f)
  <2>1. TreeStep(name) \in Nat \ {0}
    BY <1>4, SymbolsAre
  <2>2. ~(steps'[name] > TreeStep(name))
    BY <1>4, <2>1
  <2> QED BY <1>4, <2>2 DEF HasTree, Past
<1>11. \A i \in DOMAIN its : PcSize(name, i)' = its[i] /\ its[i] \in Nat
  BY <1>1, <1>4, <1>7, <1>10 DEF PcSize
<1>12. \A f \in Listed : ArePcs(f)' /\ \A i \in DOMAIN pcs[f] : WasThere(f, i) /\ PcSize(f, i) \in Nat
  BY <1>8, <1>9, <1>10, PcsStay
<1>13. ASSUME NEW i \in DOMAIN its, PcSize(name, i)' > 0
       PROVE  PtrSize <= at[i] /\ at[i] + PcSize(name, i)' <= pctab' /\ IsBehind(name, i)
  <2>1. at[i] \in Nat /\ its[i] \in Nat /\ pctab <= at[i] /\ at[i] + its[i] <= end /\ PcSize(name, i)' = its[i]
    BY <1>7, <1>11, <1>13
  <2>2. PtrSize \in Nat /\ pctab \in Nat /\ pctab >= PtrSize /\ end \in Nat /\ pctab' \in Nat /\ end <= pctab'
    BY <1>4, <1>7, <1>8 DEF PtrSize
  <2>3. PtrSize <= at[i] /\ at[i] + PcSize(name, i)' <= pctab'
    BY <2>1, <2>2
  <2>4. pcs'[name][i] = at[i]
    BY <1>9
  <2> QED BY <2>1, <2>3, <2>4 DEF IsBehind
<1>14. ArePcs(name)'
  <2>1. \A i \in DOMAIN its : at[i] = 0 <=> i > 3 /\ PcSize(name, i)' = 0
    BY <1>7, <1>11
  <2> QED BY <1>1, <1>4, <1>7, <1>9, <1>13, <2>1 DEF ArePcs
<1>15. ASSUME NEW f \in Listed', NEW g \in Listed', NEW i \in DOMAIN pcs'[f], NEW j \in DOMAIN pcs'[g],
              f # g \/ i # j
       PROVE  AreApart(f, i, g, j)'
  <2>1. CASE f = name /\ g = name
    <3>1. i \in DOMAIN its /\ j \in DOMAIN its /\ i \in Nat /\ j \in Nat
      BY <1>7, <1>9, <2>1
    <3>2. i < j \/ j < i
      BY <1>15, <2>1, <3>1
    <3> QED BY <1>7, <1>9, <1>11, <2>1, <3>1, <3>2 DEF AreApart
  <2>2. ASSUME NEW h \in Listed, NEW k \in DOMAIN pcs[h], NEW l \in DOMAIN its
        PROVE  AreApart(h, k, name, l)' /\ AreApart(name, l, h, k)'
    <3>1. CASE PcSize(name, l)' > 0
      <4>1. WasThere(h, k) /\ PcSize(h, k) \in Nat /\ h # name /\ pcs'[h] = pcs[h]
        BY <1>9, <1>12
      <4>2. IsBehind(name, l) /\ PcSize(name, l)' \in Nat /\ pcs'[name][l] \in Nat
        BY <1>7, <1>9, <1>11, <1>13, <3>1
      <4>3. h \in Listed' /\ name \in Listed' /\ k \in DOMAIN pcs'[h] /\ l \in DOMAIN pcs'[name]
        BY <1>5, <1>7, <1>9, <4>1
      <4> QED BY <4>1, <4>2, <4>3, StillApart
    <3>2. CASE ~(PcSize(name, l)' > 0)
      BY <3>2 DEF AreApart
    <3> QED BY <3>1, <3>2
  <2>3. CASE f # name /\ g # name
    <3>1. f \in Listed /\ g \in Listed /\ i \in DOMAIN pcs[f] /\ j \in DOMAIN pcs[g]
      BY <1>5, <1>9, <2>3
    <3>2. WasThere(f, i) /\ WasThere(g, j) /\ AreApart(f, i, g, j)
      BY <1>12, <1>15, <3>1 DEF PcTablesInv
    <3> QED BY <3>2 DEF AreApart, WasThere
  <2>4. CASE f # name /\ g = name
    <3>1. f \in Listed /\ i \in DOMAIN pcs[f] /\ j \in DOMAIN its
      BY <1>5, <1>7, <1>9, <2>4
    <3>2. AreApart(f, i, name, j)'
      BY <2>2, <3>1
    <3> QED BY <2>4, <3>2
  <2>5. CASE f = name /\ g # name
    <3>1. g \in Listed /\ j \in DOMAIN pcs[g] /\ i \in DOMAIN its
      BY <1>5, <1>7, <1>9, <2>5
    <3>2. AreApart(name, i, g, j)'
      BY <2>2, <3>1
    <3> QED BY <2>5, <3>2
  <2> QED BY <2>1, <2>3, <2>4, <2>5
<1> QED BY <1>5, <1>8, <1>9, <1>12, <1>14, <1>15 DEF PcTablesInv

LEMMA PcTablesOfTree ==
  ASSUME LayoutInv, FuncsInv, PcTablesInv, LayoutNext, NEW f, MakesTree(f), f \in Listed
  PROVE  PcTablesInv'
<1>1. /\ f \in DOMAIN offsets /\ Symbol(f).inlines /\ UNCHANGED funcs
      /\ pcs' = [pcs EXCEPT ![f] = WithEntry(@, InlTreeIndex, pctab)]
      /\ pctab' = Align(pctab + Symbol(f).pcinline)
  BY DEF MakesTree
<1>2. /\ module \in Modules /\ f \in Names /\ Kind(f) = "text" /\ Listed' = Listed
      /\ \A n : Symbol(n)' = Symbol(n)
  BY <1>1, ListedAre, OffsetsStay DEF Listed, Range
<1>3. PICK end : end = pctab + Symbol(f).pcinline
  OBVIOUS
<1>4. /\ pctab \in Nat /\ pctab >= PtrSize /\ DOMAIN pcs = Listed /\ PtrSize \in Nat \ {0}
      /\ Symbol(f).pcinline \in Nat \ {0} /\ Symbol(f).pcvalues \in Seq(Nat)
      /\ Len(Symbol(f).pcvalues) >= 3 /\ \A i : PcSize(f, i) \in Nat
  BY <1>1, <1>2, PcSizesAre DEF PcTablesInv, PtrSize
<1>5. pctab' \in Nat /\ end <= pctab' /\ pctab <= pctab' /\ pctab' >= PtrSize /\ end \in Nat
  <2>1. end \in Nat /\ pctab <= end
    BY <1>3, <1>4
  <2>2. pctab' \in Nat /\ end <= pctab'
    BY <1>1, <1>3, <2>1, AlignIs
  <2> QED BY <1>4, <2>1, <2>2
<1>6. HasTree(f)' /\ ~HasTree(f) /\ \A g \in Listed : g # f => (HasTree(g)' <=> HasTree(g))
  BY TreesMade
<1>7. ArePcs(f)
  BY DEF PcTablesInv
<1>8. PICK old : old = pcs[f]
  OBVIOUS
<1>9. PICK new : new = pcs'[f]
  OBVIOUS
<1>10. /\ old \in Seq(Nat) /\ Len(old) = Len(Symbol(f).pcvalues)
       /\ new = WithEntry(old, InlTreeIndex, pctab) /\ InlTreeIndex \in Nat \ {0} /\ InlTreeIndex > 3
       /\ \A i \in DOMAIN old : i \in 1 .. Len(old)
  BY <1>1, <1>4, <1>6, <1>7, <1>8, <1>9 DEF ArePcs, InlTreeIndex
<1>11. /\ new \in Seq(Nat) /\ Len(new) >= Len(old) /\ InlTreeIndex \in DOMAIN new /\ new[InlTreeIndex] = pctab
       /\ \A i \in DOMAIN old : i \in DOMAIN new /\ (i # InlTreeIndex => new[i] = old[i])
       /\ \A i \in DOMAIN new : i # InlTreeIndex /\ i \notin DOMAIN old => new[i] = 0
  <2>1. /\ new \in Seq(Nat) /\ Len(new) = IF Len(old) < InlTreeIndex THEN InlTreeIndex ELSE Len(old)
        /\ InlTreeIndex \in DOMAIN new /\ new[InlTreeIndex] = pctab
        /\ \A i \in DOMAIN old : i \in DOMAIN new /\ (i # InlTreeIndex => new[i] = old[i])
        /\ \A i \in DOMAIN new : i # InlTreeIndex /\ i \notin DOMAIN old => new[i] = 0
    BY <1>4, <1>10, WithEntryIs
  <2>2. Len(old) \in Nat
    BY <1>10
  <2> QED BY <1>10, <2>1, <2>2
<1>12. /\ PcSize(f, InlTreeIndex)' = Symbol(f).pcinline
       /\ \A i : i # InlTreeIndex => PcSize(f, i)' = PcSize(f, i)
       /\ \A i : PcSize(f, i)' \in Nat
  <2>1. /\ PcSize(f, InlTreeIndex)' = Symbol(f).pcinline
        /\ \A i : i # InlTreeIndex => PcSize(f, i)' = PcSize(f, i)
    BY <1>2, <1>6 DEF PcSize
  <2> QED BY <1>4, <2>1
<1>13. ASSUME NEW i \in DOMAIN new, i # InlTreeIndex
       PROVE  \/ WasThere(f, i)
              \/ i > 3 /\ PcSize(f, i)' = 0 /\ new[i] = 0
  <2>1. CASE i \in DOMAIN old
    BY <1>8, <1>9, <1>11, <1>12, <1>13, <2>1 DEF WasThere
  <2>2. CASE i \notin DOMAIN old
    <3>1. DOMAIN old = DOMAIN Symbol(f).pcvalues /\ DOMAIN old = 1 .. Len(old) /\ i \in Nat \ {0}
      <4>1. DOMAIN Symbol(f).pcvalues = 1 .. Len(Symbol(f).pcvalues) /\ DOMAIN old = 1 .. Len(old)
        BY <1>4, <1>10
      <4>2. i \in Nat \ {0}
        <5>1. new \in Seq(Nat)
          BY <1>11
        <5> QED BY <5>1
      <4> QED BY <1>10, <4>1, <4>2
    <3>2. i > 3
      <4>1. Len(old) \in Nat /\ Len(old) >= 3
        BY <1>4, <1>10
      <4> QED BY <2>2, <3>1, <4>1
    <3>3. PcSize(f, i) = 0
      BY <1>13, <2>2, <3>1 DEF PcSize
    <3> QED BY <1>11, <1>12, <1>13, <2>2, <3>2, <3>3
  <2> QED BY <2>1, <2>2
<1>14. IsBehind(f, InlTreeIndex)
  BY <1>3, <1>4, <1>5, <1>9, <1>11, <1>12 DEF IsBehind
<1>15. ArePcs(f)'
  <2>1. ASSUME NEW i \in DOMAIN new
        PROVE  /\ new[i] = 0 <=> i > 3 /\ PcSize(f, i)' = 0
               /\ PcSize(f, i)' > 0 => PtrSize <= new[i] /\ new[i] + PcSize(f, i)' <= pctab'
    <3>1. CASE i = InlTreeIndex
      BY <1>3, <1>4, <1>5, <1>11, <1>12, <3>1
    <3>2. CASE WasThere(f, i)
      <4>1. /\ i \in DOMAIN old /\ new[i] = old[i] /\ PcSize(f, i)' = PcSize(f, i) /\ old[i] \in Nat
            /\ old[i] = 0 <=> i > 3 /\ PcSize(f, i) = 0
            /\ PcSize(f, i) > 0 => PtrSize <= old[i] /\ old[i] + PcSize(f, i) <= pctab
        BY <1>7, <1>8, <1>9, <1>10, <3>2 DEF WasThere, ArePcs
      <4> QED BY <1>4, <1>5, <4>1
    <3> QED BY <1>13, <3>1, <3>2
  <2>2. Len(new) >= 3
    BY <1>4, <1>10, <1>11
  <2> QED BY <1>6, <1>9, <1>11, <2>1, <2>2 DEF ArePcs
<1>16. \A g \in Listed : g # f => pcs'[g] = pcs[g]
  BY <1>1, <1>4
<1>17. \A g \in Listed : g # f => ArePcs(g)' /\ \A i \in DOMAIN pcs[g] : WasThere(g, i) /\ PcSize(g, i) \in Nat
  BY <1>5, <1>6, <1>16, PcsStay
<1>18. ASSUME NEW g \in Listed, NEW i \in DOMAIN pcs'[g], PcSize(g, i)' > 0
       PROVE  /\ WasThere(g, i) \/ (g = f /\ i = InlTreeIndex)
              /\ PcSize(g, i) \in Nat /\ PcSize(g, i)' \in Nat /\ pcs'[g][i] \in Nat
  <2>1. CASE g = f
    <3>1. i \in DOMAIN new /\ new[i] \in Nat /\ new[i] = pcs'[f][i] /\ PcSize(f, i)' > 0
      BY <1>9, <1>11, <1>18, <2>1
    <3>2. i # InlTreeIndex => WasThere(f, i)
      BY <1>13, <3>1
    <3> QED BY <1>4, <1>12, <2>1, <3>1, <3>2
  <2>2. CASE g # f
    <3>1. WasThere(g, i) /\ PcSize(g, i) \in Nat
      BY <1>16, <1>17, <1>18, <2>2
    <3> QED BY <3>1 DEF WasThere, PcTablesInv, ArePcs
  <2> QED BY <2>1, <2>2
<1>19. ASSUME NEW g \in Listed, NEW h \in Listed, NEW i \in DOMAIN pcs'[g], NEW j \in DOMAIN pcs'[h],
              g # h \/ i # j
       PROVE  AreApart(g, i, h, j)'
  <2>1. CASE PcSize(g, i)' > 0 /\ PcSize(h, j)' > 0
    <3>1. CASE WasThere(g, i)
      BY <1>2, <1>14, <1>18, <1>19, <2>1, <3>1, StillApart
    <3>2. CASE WasThere(h, j)
      BY <1>2, <1>14, <1>18, <1>19, <2>1, <3>2, StillApart
    <3> QED BY <1>18, <1>19, <2>1, <3>1, <3>2
  <2>2. CASE ~(PcSize(g, i)' > 0 /\ PcSize(h, j)' > 0)
    BY <2>2 DEF AreApart
  <2> QED BY <2>1, <2>2
<1>20. DOMAIN pcs' = Listed'
  BY <1>1, <1>2, <1>4
<1> QED BY <1>2, <1>5, <1>15, <1>17, <1>19, <1>20 DEF PcTablesInv

LEMMA PcTablesKeeps ==
  ASSUME LayoutInv, FuncsInv, PcTablesInv, LayoutNext
  PROVE  PcTablesInv'
<1>1. CASE /\ UNCHANGED <<funcs, pcs, pctab>>
           /\ \A f \in Listed : HasTree(f)' <=> HasTree(f)
  <2>1. Listed' = Listed /\ pctab' = pctab /\ pcs' = pcs
    BY <1>1 DEF Listed, Range
  <2>2. \A f \in Listed : ArePcs(f)' /\ \A i \in DOMAIN pcs[f] : WasThere(f, i)
    <3>1. pctab \in Nat /\ pctab <= pctab
      BY DEF PcTablesInv
    <3> QED BY <1>1, <2>1, <3>1, PcsStay
  <2>3. \A f, g \in Listed : \A i \in DOMAIN pcs[f], j \in DOMAIN pcs[g] :
          f # g \/ i # j => AreApart(f, i, g, j)'
    BY <2>2 DEF PcTablesInv, AreApart, WasThere
  <2> QED BY <2>1, <2>2, <2>3 DEF PcTablesInv
<1>2. CASE \E name : Takes(name)
  <2>1. PICK name : Takes(name)
    BY <1>2
  <2>2. CASE Kind(name) = "text"
    BY <2>1, <2>2, PcTablesAdded
  <2>3. CASE Kind(name) # "text"
    <3>1. UNCHANGED <<funcs, pcs, pctab>>
      BY <2>1, <2>3, TakesFunction
    <3>2. \A f \in Listed : steps'[f] = steps[f]
      BY <2>1, TakesIs, ListedAre
    <3>3. \A f \in Listed : HasTree(f)' <=> HasTree(f)
      BY <3>2, OffsetsStay DEF HasTree, Past
    <3> QED BY <1>1, <3>1, <3>3
  <2> QED BY <2>2, <2>3
<1>3. CASE \E f, i : Notes(f, i)
  <2>1. PICK f, i : Notes(f, i)
    BY <1>3
  <2>2. /\ UNCHANGED <<funcs, pcs, pctab>> /\ steps[f] = i /\ f \in DOMAIN offsets /\ i \in DOMAIN Symbol(f).funcdata
    BY <2>1 DEF Notes, pcVars
  <2>3. ~HasTree(f)
    <3>1. i < TreeStep(f) /\ TreeStep(f) \in Nat /\ i \in Nat
      BY <2>2, SymbolsAre DEF LayoutInv, PlacedInv
    <3> QED BY <2>2, <3>1 DEF HasTree, Past
  <2> QED BY <1>1, <2>1, <2>2, <2>3, TreesMade
<1>4. CASE \E f : MakesTree(f)
  <2>1. PICK f : MakesTree(f)
    BY <1>4
  <2>2. f \in Listed
    BY <2>1, HasTables DEF MakesTree
  <2> QED BY <2>1, <2>2, PcTablesOfTree
<1>5. CASE Passes
  <2>1. UNCHANGED <<funcs, pcs, pctab>>
    BY <1>5 DEF Passes, pcVars
  <2> QED BY <1>1, <1>5, <2>1, TreesMade
<1> QED BY <1>2, <1>3, <1>4, <1>5, LayoutNextIs

\* Symbols are bound once every call of addSymbol has returned.
RestsInv == phase # "registering" => calls = <<>>

FunctionsInv == FuncsInv /\ NotedInv /\ TreesInv /\ PcTablesInv /\ RestsInv

LEMMA FunctionsBegin ==
  ASSUME Init
  PROVE  FunctionsInv
<1>1. /\ offsets = <<>> /\ funcs = <<>> /\ funcdata = <<>> /\ pcs = <<>> /\ pctab = PtrSize
      /\ sizes = [s \in Sections |-> IF s = "noptrdata" THEN 1 ELSE 0] /\ phase = "registering"
  BY DEF Init, LayoutInit, InitLinker
<1>2. /\ Listed = {} /\ DOMAIN offsets = {} /\ DOMAIN funcdata = {} /\ DOMAIN pcs = {}
      /\ funcs \in Seq(Names) /\ DOMAIN funcs = {}
  BY <1>1 DEF Listed, Range
<1>3. sizes["noptrdata"] > 0
  BY <1>1 DEF Sections
<1>4. pctab \in Nat /\ pctab >= PtrSize
  BY <1>1 DEF PtrSize
<1> QED BY <1>1, <1>2, <1>3, <1>4 DEF FunctionsInv, FuncsInv, NotedInv, TreesInv, PcTablesInv, RestsInv

LEMMA FunctionsHold == Spec => [](LayoutInv /\ FunctionsInv)
<1>1. Init => FunctionsInv
  BY FunctionsBegin
<1>2. ASSUME FunctionsInv, UNCHANGED layoutVars, UNCHANGED phase \/ calls = <<>>
      PROVE  FunctionsInv'
  <2>1. UNCHANGED <<module, offsets, sizes, funcs, funcdata, pcs, pctab, roots, calls, steps>>
    BY <1>2 DEF layoutVars
  <2>2. FuncsInv'
    BY <1>2, <2>1 DEF FunctionsInv, FuncsInv, Listed, Names, Kind, Size, Symbol, Range
  <2>3. /\ Listed' = Listed /\ \A n : /\ Symbol(n)' = Symbol(n) /\ Tables(n)' = Tables(n)
                                     /\ TreeStep(n)' = TreeStep(n) /\ Kind(n)' = Kind(n) /\ Size(n)' = Size(n)
                                     /\ HasTree(n)' = HasTree(n)
    BY <2>1 DEF Listed, Range, Symbol, Tables, TreeStep, Kind, Size, HasTree, Past
  <2>4. NotedInv'
    BY <1>2, <2>1, <2>3 DEF FunctionsInv, NotedInv, IsNoted, Noted, Past
  <2>5. TreesInv'
    BY <1>2, <2>1, <2>3 DEF FunctionsInv, TreesInv, IsTree, Tree
  <2>6. PcTablesInv'
    <3>1. \A f, i : PcSize(f, i)' = PcSize(f, i)
      BY <2>3 DEF PcSize
    <3> QED BY <1>2, <2>1, <2>3, <3>1 DEF FunctionsInv, PcTablesInv, ArePcs, AreApart
  <2>7. RestsInv'
    BY <1>2, <2>1 DEF FunctionsInv, RestsInv
  <2> QED BY <2>2, <2>4, <2>5, <2>6, <2>7 DEF FunctionsInv
<1>3. ASSUME LayoutInv, FunctionsInv, Place PROVE FunctionsInv'
  <2>1. LayoutNext /\ phase' = "registering"
    BY <1>3 DEF Place, others
  <2> QED BY <1>3, <2>1, FuncsKeeps, NotedKeeps, TreesKeeps, PcTablesKeeps DEF FunctionsInv, RestsInv
<1>4. ASSUME LayoutInv, FunctionsInv, [Next]_vars PROVE FunctionsInv'
  <2>1. CASE Place
    BY <1>3, <1>4, <2>1
  <2>2. CASE ~Place
    <3>1. UNCHANGED layoutVars
      BY <1>4, <2>2 DEF Next, vars, Register, AddSymbolMap, Relocate, BuildModule, Deduplicate, BuildExports
    <3>2. UNCHANGED phase \/ calls = <<>>
      BY <1>4, <2>2 DEF Next, vars, others, Register, AddSymbolMap, Relocate, BuildModule, Deduplicate, BuildExports,
                        FunctionsInv, RestsInv
    <3> QED BY <1>2, <1>4, <3>1, <3>2
  <2> QED BY <2>1, <2>2
<1> QED BY <1>1, <1>4, LayoutHolds, PTL DEF Spec

\* When symbols are bound, all that there is of functions has been noted.
LEMMA AllPast ==
  ASSUME LayoutInv, FunctionsInv, phase # "registering", NEW f \in Listed
  PROVE  /\ \A i \in DOMAIN Tables(f) : Past(f, i)
         /\ HasTree(f) <=> Symbol(f).inlines
<1>1. f \in DOMAIN offsets /\ f \in Names /\ module \in Modules /\ steps[f] \in Nat
  BY ListedAre DEF FunctionsInv, LayoutInv, CallsInv
<1>2. HasReturned(f)
  <2>1. Range(calls) = {}
    BY DEF FunctionsInv, RestsInv, Range
  <2> QED BY <1>1, <2>1 DEF LayoutInv, CallsInv
<1>3. /\ TreeStep(f) \in Nat /\ Len(Symbol(f).refs) \in Nat
      /\ \A i \in DOMAIN Tables(f) : i < TreeStep(f) /\ i \in Nat
  BY <1>1, SymbolsAre DEF Tables
<1>4. steps[f] > TreeStep(f)
  BY <1>1, <1>2, <1>3 DEF HasReturned, RefStep
<1> QED BY <1>1, <1>3, <1>4 DEF Past, HasTree

\* Names without addresses of the program: those of other kinds.
LEMMA NamesOfProgram ==
  ASSUME RegistryInv, NEW n \in DOMAIN symPtr
  PROVE  n[1] \in {"type", "func", "var", "init", "itab"} /\ (n[1] = "func" => symPtr[n] = HostSymbol(n))
<1>1. IsProgram(host)
  BY ProgramsAre DEF RegistryInv
<1>2. /\ n \in DOMAIN host.funcs => n[1] = "func"
      /\ n \in host.data => n[1] \in {"var", "init"}
      /\ n \in DOMAIN host.itabs => n[1] = "itab"
  BY <1>1 DEF IsProgram
<1>3. \A t : TypeName(t)[1] = "type"
  BY DEF TypeName, NameIn
<1> QED BY <1>2, <1>3 DEF RegistryInv, AddressesTrue

\* The runtime comes from a pc to the function there.
LEMMA FunctionsFound ==
  ASSUME BindingInv, LayoutInv, FunctionsInv, Published, NEW f \in Listed, NEW pc \in Words(f)
  PROVE  FoundFunc(pc) = f
<1>1. /\ funcs \in Seq(Names)
      /\ \A i \in DOMAIN funcs : funcs[i] \in Listed
      /\ \A i, j \in DOMAIN funcs : i < j => offsets[funcs[i]] + Size(funcs[i]) <= offsets[funcs[j]]
  BY DEF FunctionsInv, FuncsInv, Listed, Range
<1>2. ASSUME NEW g \in Listed
      PROVE  /\ FuncRecord(g).entryoff = offsets[g] /\ OffsetOf(g) = offsets[g]
             /\ offsets[g] \in Nat /\ Size(g) \in Nat /\ Size(g) > 0
  <2>1. g \in DOMAIN offsets /\ g \in Names /\ Kind(g) = "text" /\ g[1] = "func" /\ Size(g) > 0 /\ Size(g) \in Nat
    BY ListedAre DEF FunctionsInv
  <2>2. offsets[g] \in Nat /\ Symbol(g).defined
    BY <2>1 DEF LayoutInv, PlacedInv, CallsInv
  <2>3. OffsetOf(g) = offsets[g]
    BY <2>1, <2>2 DEF OffsetOf, Base, Kind
  <2>4. symbolMap[g] = Own(g)
    <3>1. KeepsItsOwn(g) /\ ~IsItab(g)
      BY <2>1, <2>2 DEF KeepsItsOwn, IsText, IsItab
    <3> QED BY <2>1, <3>1 DEF BindingInv, TablesInv, Published, Entry
  <2>5. FuncRecord(g).entryoff = OffsetOf(g)
    BY <2>4 DEF FuncRecord, Merge, IsOwn, Own
  <2> QED BY <2>1, <2>2, <2>3, <2>5
<1>3. pc \in Nat /\ offsets[f] <= pc /\ pc < offsets[f] + Size(f)
  <2>1. pc \in offsets[f] .. (offsets[f] + Size(f) - 1)
    BY <1>2 DEF Words, Size
  <2> QED BY <1>2, <2>1
<1>4. PICK before : before = {i \in DOMAIN funcs : FuncRecord(funcs[i]).entryoff <= pc}
  OBVIOUS
<1>5. PICK k \in DOMAIN funcs : funcs[k] = f
  BY DEF Listed, Range
<1>6. k \in before
  BY <1>1, <1>2, <1>3, <1>4, <1>5
<1>7. ASSUME NEW j \in before PROVE j <= k
  <2>1. j \in DOMAIN funcs /\ offsets[funcs[j]] <= pc /\ funcs[j] \in Listed
    BY <1>1, <1>2, <1>4
  <2>2. ~(k < j)
    BY <1>1, <1>2, <1>3, <1>5, <2>1
  <2>3. j \in Nat /\ k \in Nat
    BY <1>1, <2>1
  <2> QED BY <2>2, <2>3
<1>8. Max(before) = k
  <2>1. \A i \in before : i \in Int
    BY <1>1, <1>4
  <2>2. k >= k /\ \A j \in before : k >= j
    BY <1>6, <1>7, <2>1
  <2>3. \A x \in before : (\A y \in before : x >= y) => x = k
    BY <1>6, <1>7, <2>1
  <2> QED BY <1>6, <2>2, <2>3 DEF Max
<1> QED BY <1>4, <1>5, <1>8 DEF FoundFunc

\* The pc-value tables that the runtime finds.
LEMMA PcTableIs ==
  ASSUME LayoutInv, FunctionsInv, phase # "registering", NEW f \in Listed, NEW i \in DOMAIN pcs[f]
  PROVE  /\ PcTable(f, i) = pcs[f][i] .. (pcs[f][i] + PcSize(f, i) - 1)
         /\ pcs[f][i] \in Nat /\ PcSize(f, i) \in Nat
         /\ PcTable(f, i) = {} <=> PcSize(f, i) = 0
<1>1. pcs[f][i] \in Nat /\ PcSize(f, i) \in Nat
  <2>1. pcs[f] \in Seq(Nat)
    BY DEF FunctionsInv, PcTablesInv, ArePcs
  <2>2. f \in Names /\ Kind(f) = "text" /\ module \in Modules
    BY ListedAre DEF FunctionsInv
  <2> QED BY <2>1, <2>2, PcSizesAre
<1>2. FuncRecord(f).pcs = pcs[f]
  BY DEF FuncRecord, InitFunc, Merge
<1>3. PcTable(f, i) = pcs[f][i] .. (pcs[f][i] + PcSize(f, i) - 1)
  BY <1>2, AllPast DEF PcTable, PcSize
<1> QED BY <1>1, <1>3

LEMMA PcTablesFound ==
  ASSUME LayoutInv, FunctionsInv, phase # "registering"
  PROVE  /\ \A f, g \in Listed : \A i \in DOMAIN pcs[f], j \in DOMAIN pcs[g] :
              <<f, i>> # <<g, j>> => PcTable(f, i) \cap PcTable(g, j) = {}
         /\ \A f \in Listed : \A i \in DOMAIN pcs[f] :
              /\ pcs[f][i] = 0 <=> i > 3 /\ PcTable(f, i) = {}
              /\ PcTable(f, i) \subseteq PtrSize .. (pctab - 1)
<1>1. ASSUME NEW f \in Listed, NEW g \in Listed, NEW i \in DOMAIN pcs[f], NEW j \in DOMAIN pcs[g],
             <<f, i>> # <<g, j>>, NEW b \in PcTable(f, i), b \in PcTable(g, j)
      PROVE  FALSE
  <2>1. AreApart(f, i, g, j)
    BY <1>1 DEF FunctionsInv, PcTablesInv
  <2>2. /\ b \in Nat /\ pcs[f][i] <= b /\ b < pcs[f][i] + PcSize(f, i)
        /\ pcs[g][j] <= b /\ b < pcs[g][j] + PcSize(g, j)
        /\ pcs[f][i] \in Nat /\ PcSize(f, i) \in Nat /\ pcs[g][j] \in Nat /\ PcSize(g, j) \in Nat
    BY <1>1, PcTableIs
  <2> QED BY <2>1, <2>2 DEF AreApart
<1>2. ASSUME NEW f \in Listed, NEW i \in DOMAIN pcs[f]
      PROVE  /\ pcs[f][i] = 0 <=> i > 3 /\ PcTable(f, i) = {}
             /\ PcTable(f, i) \subseteq PtrSize .. (pctab - 1)
  <2>1. /\ pcs[f][i] = 0 <=> i > 3 /\ PcSize(f, i) = 0
        /\ PcSize(f, i) > 0 => PtrSize <= pcs[f][i] /\ pcs[f][i] + PcSize(f, i) <= pctab
        /\ pctab \in Nat /\ PtrSize \in Nat
    BY DEF FunctionsInv, PcTablesInv, ArePcs, PtrSize
  <2>2. /\ PcTable(f, i) = pcs[f][i] .. (pcs[f][i] + PcSize(f, i) - 1)
        /\ pcs[f][i] \in Nat /\ PcSize(f, i) \in Nat
        /\ PcTable(f, i) = {} <=> PcSize(f, i) = 0
    BY PcTableIs
  <2>3. ASSUME NEW b \in PcTable(f, i) PROVE b \in PtrSize .. (pctab - 1)
    <3>1. b \in Nat /\ pcs[f][i] <= b /\ b < pcs[f][i] + PcSize(f, i)
      BY <2>2
    <3>2. PcSize(f, i) > 0
      BY <2>2, <3>1
    <3> QED BY <2>1, <2>2, <3>1, <3>2
  <2> QED BY <2>1, <2>2, <2>3
<1> QED BY <1>1, <1>2

LEMMA TablesFound ==
  ASSUME LayoutInv, FunctionsInv, phase # "registering", NEW f \in Listed, NEW i \in DOMAIN Symbol(f).funcdata,
         i # InlTree \/ ~Symbol(f).inlines
  PROVE  TableOf(f, i) = IF Symbol(f).funcdata[i] = NoName THEN 0 ELSE OffsetOf(Symbol(f).funcdata[i])
<1>1. PICK t : t = Symbol(f).funcdata[i]
  OBVIOUS
<1>2. /\ i \in DOMAIN funcdata[f] /\ funcdata[f][i] = Noted(t)
      /\ t # NoName => t \in DOMAIN offsets
  BY <1>1, AllPast DEF FunctionsInv, NotedInv, IsNoted, Tables
<1>3. CASE t = NoName
  BY <1>1, <1>2, <1>3 DEF TableOf, Noted
<1>4. CASE t # NoName
  <2>1. f \in Names /\ module \in Modules
    BY ListedAre DEF FunctionsInv
  <2>2. Kind(t) = "noptrdata" /\ Size(t) > 0
    BY <1>1, <1>4, <2>1, TablesAre
  <2>3. offsets[t] > 0 /\ funcdata[f][i] = offsets[t]
    BY <1>2, <1>4, <2>2 DEF Noted, FunctionsInv, TreesInv
  <2> QED BY <1>1, <1>2, <1>4, <2>2, <2>3 DEF TableOf, GoFunc, OffsetOf, Kind
<1> QED BY <1>3, <1>4

LEMMA TreesFound ==
  ASSUME LayoutInv, FunctionsInv, phase # "registering", NEW f \in Listed, Symbol(f).inlines
  PROVE  LET tree == TableOf(f, InlTree) IN
         /\ tree \in (Base("noptrdata") + 1) .. (Base("bss") - 1)
         /\ \A n \in DataSymbols : tree \notin Words(n)
         /\ \A g \in Listed \ {f} : Symbol(g).inlines => TableOf(g, InlTree) # tree
<1>1. ASSUME NEW g \in Listed, Symbol(g).inlines
      PROVE  TableOf(g, InlTree) = Base("noptrdata") + Tree(g) /\ IsTree(g) /\ Tree(g) \in Nat
  <2>1. HasTree(g)
    BY <1>1, AllPast
  <2>2. IsTree(g)
    BY <2>1 DEF FunctionsInv, TreesInv
  <2>3. InlTree \in DOMAIN funcdata[g] /\ funcdata[g][InlTree] # 0 /\ Tree(g) \in Nat
    BY <2>2 DEF IsTree, Tree
  <2> QED BY <2>2, <2>3 DEF TableOf, GoFunc, Tree
<1>2. PICK w : w = Tree(f)
  OBVIOUS
<1>3. /\ TableOf(f, InlTree) = Base("noptrdata") + w /\ w \in 1 .. sizes["noptrdata"] - 1 /\ IsTree(f)
  BY <1>1, <1>2 DEF IsTree
<1>4. /\ sizes["data"] \in Nat /\ sizes["noptrdata"] \in Nat /\ sizes["bss"] \in Nat
      /\ Base("data") = 0 /\ Base("noptrdata") = sizes["data"]
      /\ Base("bss") = sizes["data"] + sizes["noptrdata"] /\ Base("noptrbss") = Base("bss") + sizes["bss"]
  BY SectionsFollow DEF Sections
<1>5. Base("noptrdata") + w \in (Base("noptrdata") + 1) .. (Base("bss") - 1)
  BY <1>3, <1>4
<1>6. ASSUME NEW n \in DataSymbols, Base("noptrdata") + w \in Words(n) PROVE FALSE
  <2>1. /\ n \in DOMAIN offsets /\ Kind(n) \in {"data", "noptrdata", "bss", "noptrbss"}
        /\ Size(n) \in Nat /\ offsets[n] \in Nat /\ OffsetOf(n) = Base(Kind(n)) + offsets[n]
        /\ OffsetOf(n) \in Nat /\ OffsetOf(n) + Size(n) <= Base(Kind(n)) + sizes[Kind(n)]
    BY WithinItsSection DEF DataSymbols, Kind, Sections
  <2>2. /\ OffsetOf(n) <= Base("noptrdata") + w /\ Base("noptrdata") + w < OffsetOf(n) + Size(n)
    BY <1>3, <1>4, <1>6, <2>1 DEF Words, Size
  <2>3. CASE Kind(n) = "data"
    BY <1>3, <1>4, <2>1, <2>2, <2>3
  <2>4. CASE Kind(n) = "noptrdata"
    <3>1. w < offsets[n] \/ offsets[n] + Size(n) <= w
      BY <1>2, <1>3, <2>1, <2>4 DEF IsTree
    <3> QED BY <1>3, <1>4, <2>1, <2>2, <2>4, <3>1
  <2>5. CASE Kind(n) \in {"bss", "noptrbss"}
    BY <1>3, <1>4, <2>1, <2>2, <2>5
  <2> QED BY <2>1, <2>3, <2>4, <2>5
<1>7. ASSUME NEW g \in Listed \ {f}, Symbol(g).inlines PROVE TableOf(g, InlTree) # Base("noptrdata") + w
  <2>1. HasTree(f) /\ HasTree(g)
    BY <1>7, AllPast
  <2>2. Tree(g) # w
    BY <1>2, <1>7, <2>1 DEF FunctionsInv, TreesInv
  <2>3. TableOf(g, InlTree) = Base("noptrdata") + Tree(g) /\ Tree(g) \in Nat
    BY <1>1, <1>7
  <2> QED BY <1>3, <1>4, <2>2, <2>3
<1> QED BY <1>3, <1>5, <1>6, <1>7

LEMMA StackObjectsFound ==
  ASSUME BindingInv, LayoutInv, FunctionsInv, Published, NEW f \in Listed, Symbol(f).stkobj # NoName,
         NEW i \in DOMAIN Symbol(Symbol(f).stkobj).refs
  PROVE  IsOwn(StackObject(f, i))
<1>1. PICK r : r = Symbol(Symbol(f).stkobj).refs[i]
  OBVIOUS
<1>2. TablesAreGiven(module, Symbol(f)) /\ module \in Modules
  BY ListedAre DEF FunctionsInv
<1>3. Symbol(f).stkobj \in Names /\ Symbol(r).defined /\ r[1] \notin {"type", "func", "var", "init", "itab"}
  <2>1. r \in Range(Symbol(Symbol(f).stkobj).refs)
    BY <1>1 DEF Range
  <2> QED BY <1>2, <2>1 DEF TablesAreGiven, Names, Symbol
<1>4. r \in Names
  <2>1. Symbol(Symbol(f).stkobj).refs \in Seq(Names)
    BY <1>2, <1>3, SymbolsAre
  <2> QED BY <1>1, <2>1
<1>5. r \notin DOMAIN symPtr
  BY <1>3, NamesOfProgram DEF BindingInv
<1>6. Entry(r) = Own(r) /\ ~IsItab(r)
  BY <1>3, <1>5 DEF Entry, KeepsItsOwn, IsItab
<1>7. symbolMap[r] = Own(r)
  BY <1>4, <1>6 DEF BindingInv, TablesInv, Published
<1> QED BY <1>1, <1>7 DEF StackObject, IsOwn, Own

LEMMA DefersFound ==
  ASSUME BindingInv, LayoutInv, FunctionsInv, Published, NEW f \in Listed,
         OpenCodedDeferInfo \in DOMAIN Symbol(f).funcdata, Symbol(f).funcdata[OpenCodedDeferInfo] # NoName
  PROVE  DeferReturn(f) # 0 /\ places[<<f, DeferReturn(f)>>] = HostSymbol(RuntimeDeferReturn)
<1>1. TablesAreGiven(module, Symbol(f)) /\ module \in Modules /\ f \in Names
  BY ListedAre DEF FunctionsInv
<1>2. PICK refs : refs = Symbol(f).refs
  OBVIOUS
<1>3. PICK sites : sites = {i \in DOMAIN refs : refs[i] = RuntimeDeferReturn}
  OBVIOUS
<1>4. refs \in Seq(Names) /\ DOMAIN refs \subseteq Nat \ {0}
  <2>1. refs \in Seq(Names)
    BY <1>1, <1>2, SymbolsAre
  <2> QED BY <2>1
<1>5. sites # {} /\ sites \in SUBSET Nat
  <2>1. RuntimeDeferReturn \in Range(refs)
    BY <1>1, <1>2 DEF TablesAreGiven
  <2> QED BY <1>3, <1>4, <2>1 DEF Range
<1>6. Min(sites) \in sites
  <2>1. \E n \in sites : \A k \in sites : n <= k
    BY <1>5, LeastNatural
  <2> QED BY <2>1 DEF Min
<1>7. Len(funcdata[f]) >= OpenCodedDeferInfo
  <2>1. OpenCodedDeferInfo \in DOMAIN funcdata[f] /\ funcdata[f] \in Seq(Nat)
    BY <1>1, AllPast DEF Published, FunctionsInv, NotedInv, IsNoted, Tables
  <2> QED BY <2>1
<1>8. DeferReturn(f) = Min(sites)
  <2>1. ~(Len(funcdata[f]) < OpenCodedDeferInfo)
    <3>1. funcdata[f] \in Seq(Nat)
      BY DEF FunctionsInv, NotedInv, IsNoted
    <3>2. Len(funcdata[f]) \in Nat
      BY <3>1
    <3> QED BY <1>7, <3>2 DEF OpenCodedDeferInfo
  <2> QED BY <1>2, <1>3, <1>5, <2>1 DEF DeferReturn
<1>9. PICK p : p = <<f, DeferReturn(f)>>
  OBVIOUS
<1>10. p \in Places(module) /\ Target(p) = RuntimeDeferReturn /\ RuntimeDeferReturn \in Names
  <2>1. DeferReturn(f) \in DOMAIN Symbol(f).refs /\ Symbol(f).refs[DeferReturn(f)] = RuntimeDeferReturn
    BY <1>2, <1>3, <1>6, <1>8
  <2> QED BY <1>1, <1>2, <1>4, <1>9, <2>1 DEF Places, Target, Names, Symbol
<1>11. ~Symbol(RuntimeDeferReturn).defined
  BY <1>1, <1>10, FunctionsAssumption DEF FunctionsAreWhole, Names, Symbol
<1>12. /\ RuntimeDeferReturn[1] = "func" /\ RuntimeDeferReturn \in DOMAIN symPtr
       /\ symPtr[RuntimeDeferReturn] = HostSymbol(RuntimeDeferReturn)
  <2>1. RuntimeDeferReturn[1] = "func"
    BY DEF RuntimeDeferReturn
  <2>2. RuntimeDeferReturn \in DOMAIN symPtr
    BY <1>10, <1>11 DEF BindingInv, TablesInv, Published
  <2> QED BY <2>1, <2>2, NamesOfProgram DEF BindingInv
<1>13. places[p] = AtFirst(RuntimeDeferReturn)
  <2>1. Holds(p)
    BY <1>10 DEF BindingInv, PlacesInv, Published
  <2> QED BY <1>10, <1>12, <2>1 DEF Holds, IsItab, IsType
<1>14. AtFirst(RuntimeDeferReturn) = symPtr[RuntimeDeferReturn]
  <2>1. Entry(RuntimeDeferReturn) = symPtr[RuntimeDeferReturn]
    BY <1>11 DEF Entry, KeepsItsOwn
  <2>2. RuntimeDeferReturn \in DOMAIN Originals => Originals[RuntimeDeferReturn] = symPtr[RuntimeDeferReturn]
    BY <1>12 DEF Originals
  <2> QED BY <2>1, <2>2 DEF AtFirst
<1> QED BY <1>4, <1>3, <1>6, <1>8, <1>9, <1>12, <1>13, <1>14

\* Sequences behind each other: where each element of each of them comes to be.
LengthsOf(seqs) == [i \in DOMAIN seqs |-> Len(seqs[i])]

LEMMA FlattenedIs ==
  ASSUME NEW S, NEW seqs \in Seq(Seq(S))
  PROVE  /\ FlattenSeq(seqs) \in Seq(S)
         /\ \A u \in DOMAIN seqs : \A n \in DOMAIN seqs[u] :
              LET k == Sum(LengthsOf(seqs), u - 1) + n
              IN k \in DOMAIN FlattenSeq(seqs) /\ FlattenSeq(seqs)[k] = seqs[u][n]
<1> DEFINE N == Len(seqs)
           After(g, i) == IF i = 1 THEN seqs[i] ELSE g[i - 1] \o seqs[i]
           Solves(g) == g = [i \in 1 .. N |-> After(g, i)]
<1>1. PICK lens : lens = LengthsOf(seqs)
  OBVIOUS
<1>2. N \in Nat /\ DOMAIN seqs = 1 .. N /\ \A i \in 1 .. N : seqs[i] \in Seq(S)
  OBVIOUS
<1>3. lens \in Seq(Nat) /\ Len(lens) = N /\ \A i \in 1 .. N : lens[i] = Len(seqs[i]) /\ Len(seqs[i]) \in Nat
  <2>1. lens = [i \in 1 .. N |-> lens[i]] /\ \A i \in 1 .. N : lens[i] = Len(seqs[i]) /\ Len(seqs[i]) \in Nat
    BY <1>1, <1>2 DEF LengthsOf
  <2> QED BY <1>2, <2>1
<1>4. CASE N = 0
  <2>1. FlattenSeq(seqs) = seqs /\ seqs = <<>>
    BY <1>4 DEF FlattenSeq
  <2> QED BY <1>3, <2>1
<1>5. CASE N # 0
  <2>1. \E g : Solves(g)
    <3>1. PICK F : F = [x \in (1 .. N - 1) \X Seq(S) |-> x[2] \o seqs[x[1] + 1]]
      OBVIOUS
    <3>2. F \in [(1 .. N - 1) \X Seq(S) -> Seq(S)]
      BY <1>2, <1>5, <3>1
    <3>3. N - 1 \in Nat /\ seqs[1] \in Seq(S)
      BY <1>2, <1>5
    <3>4. PICK h : Upto(N - 1, Seq(S), seqs[1], F, h)
      <4> HIDE DEF N
      <4> QED BY <3>2, <3>3, SegmentRecursion
    <3>5. PICK g : g = [i \in 1 .. N |-> h[i - 1]]
      OBVIOUS
    <3>6. ASSUME NEW i \in 1 .. N PROVE g[i] = After(g, i)
      <4>1. g[i] = h[i - 1]
        BY <3>5
      <4>2. CASE i = 1
        BY <3>4, <4>1, <4>2 DEF Upto
      <4>3. CASE i # 1
        <5>1. /\ i - 1 \in 1 .. N - 1 /\ i - 1 \in 1 .. N /\ i - 2 \in 0 .. N - 1
              /\ (i - 1) - 1 = i - 2 /\ (i - 1) + 1 = i
          BY <1>2, <4>3
        <5>2. h[i - 1] = F[<<i - 1, h[i - 2]>>] /\ h[i - 2] \in Seq(S)
          <6>1. h[i - 1] = F[<<i - 1, h[(i - 1) - 1]>>] /\ h[i - 2] \in Seq(S)
            BY <3>4, <5>1 DEF Upto
          <6> QED BY <5>1, <6>1
        <5>3. F[<<i - 1, h[i - 2]>>] = h[i - 2] \o seqs[i]
          <6>1. <<i - 1, h[i - 2]>> \in (1 .. N - 1) \X Seq(S)
            BY <5>1, <5>2
          <6>2. F[<<i - 1, h[i - 2]>>] = h[i - 2] \o seqs[(i - 1) + 1]
            BY <3>1, <6>1
          <6> QED BY <5>1, <6>2
        <5>4. g[i - 1] = h[i - 2]
          BY <3>5, <5>1
        <5> QED BY <4>1, <4>3, <5>2, <5>3, <5>4
      <4> QED BY <4>2, <4>3
    <3> HIDE DEF After
    <3>7. g = [i \in 1 .. N |-> After(g, i)]
      BY <3>5, <3>6
    <3> QED BY <3>7
  <2>2. PICK f : f = CHOOSE g : Solves(g)
    OBVIOUS
  <2>3. Solves(f)
    BY <2>1, <2>2
  <2>4. f[N] = FlattenSeq(seqs)
    BY <1>5, <2>2 DEF FlattenSeq
  <2>5. f[1] = seqs[1] /\ \A i \in 2 .. N : f[i] = f[i - 1] \o seqs[i]
    <3>1. f[1] = seqs[1]
      BY <1>2, <1>5, <2>3
    <3>2. ASSUME NEW i \in 2 .. N PROVE f[i] = f[i - 1] \o seqs[i]
      <4>1. i \in 1 .. N /\ i # 1
        OBVIOUS
      <4>2. f[i] = After(f, i)
        BY <2>3, <4>1, Zenon
      <4> QED BY <4>1, <4>2
    <3> QED BY <3>1, <3>2
  <2> DEFINE IsFlat(n) ==
               /\ f[n] \in Seq(S) /\ Len(f[n]) = Sum(lens, n)
               /\ \A u \in 1 .. n : \A k \in 1 .. Len(seqs[u]) :
                    Sum(lens, u - 1) + k \in 1 .. Sum(lens, n) /\ f[n][Sum(lens, u - 1) + k] = seqs[u][k]
  <2>6. /\ Sum(lens, 0) = 0 /\ \A k \in 0 .. N : Sum(lens, k) \in Nat
        /\ \A k \in 1 .. N : Sum(lens, k) = Sum(lens, k - 1) + Len(seqs[k])
    BY <1>3, SumIs
  <2>7. IsFlat(1)
    <3>1. 1 \in 1 .. N /\ 1 - 1 = 0
      BY <1>2, <1>5
    <3>2. Sum(lens, 1) = Len(seqs[1]) /\ seqs[1] \in Seq(S) /\ Len(seqs[1]) \in Nat
      BY <1>2, <1>3, <2>6, <3>1
    <3>3. \A k \in 1 .. Len(seqs[1]) : Sum(lens, 0) + k = k
      BY <2>6
    <3>4. \A u \in 1 .. 1 : u = 1
      OBVIOUS
    <3> QED BY <2>5, <3>1, <3>2, <3>3, <3>4
  <2>8. ASSUME NEW n \in 1 .. N - 1, IsFlat(n) PROVE IsFlat(n + 1)
    <3>1. n + 1 \in 2 .. N /\ n + 1 \in 1 .. N /\ n \in 1 .. N /\ n \in 0 .. N /\ n + 1 \in 0 .. N /\ (n + 1) - 1 = n
      BY <1>2
    <3>2. PICK s : s = seqs[n + 1]
      OBVIOUS
    <3>3. PICK t : t = f[n]
      OBVIOUS
    <3>4. /\ s \in Seq(S) /\ t \in Seq(S) /\ f[n + 1] = t \o s /\ Len(t) = Sum(lens, n) /\ Len(s) \in Nat /\ Len(t) \in Nat
          /\ Sum(lens, n + 1) = Len(t) + Len(s)
      BY <1>2, <1>3, <2>5, <2>6, <2>8, <3>1, <3>2, <3>3
    <3>5. PICK w : w = t \o s
      OBVIOUS
    <3>6. /\ w \in Seq(S) /\ Len(w) = Len(t) + Len(s)
          /\ \A i \in 1 .. Len(t) + Len(s) : w[i] = IF i <= Len(t) THEN t[i] ELSE s[i - Len(t)]
      BY <3>4, <3>5, ConcatProperties
    <3>7. ASSUME NEW u \in 1 .. n + 1, NEW k \in 1 .. Len(seqs[u])
          PROVE  Sum(lens, u - 1) + k \in 1 .. Len(t) + Len(s) /\ w[Sum(lens, u - 1) + k] = seqs[u][k]
      <4>1. CASE u = n + 1
        <5>1. Sum(lens, u - 1) = Len(t) /\ k \in 1 .. Len(s) /\ seqs[u] = s
          BY <3>1, <3>2, <3>4, <4>1
        <5>2. /\ Len(t) + k \in 1 .. Len(t) + Len(s) /\ ~(Len(t) + k <= Len(t)) /\ (Len(t) + k) - Len(t) = k
          <6>1. PICK c, d \in Nat : c = Len(t) /\ d = Len(s)
            BY <3>4
          <6>2. k \in 1 .. d
            BY <5>1, <6>1
          <6>3. c + k \in 1 .. c + d /\ ~(c + k <= c) /\ (c + k) - c = k
            BY <6>2
          <6> QED BY <6>1, <6>3
        <5>3. w[Len(t) + k] = s[k]
          BY <3>6, <5>2
        <5> QED BY <5>1, <5>2, <5>3
      <4>2. CASE u # n + 1
        <5>1. u \in 1 .. n
          BY <3>1, <4>2
        <5>2. Sum(lens, u - 1) + k \in 1 .. Len(t) /\ t[Sum(lens, u - 1) + k] = seqs[u][k]
          BY <2>8, <3>3, <3>4, <5>1
        <5>3. Sum(lens, u - 1) + k \in 1 .. Len(t) + Len(s) /\ Sum(lens, u - 1) + k <= Len(t)
          BY <3>4, <5>2
        <5> QED BY <3>6, <5>2, <5>3
      <4> QED BY <4>1, <4>2
    <3>8. f[n + 1] = w /\ Sum(lens, n + 1) = Len(w)
      BY <3>4, <3>5, <3>6
    <3> QED BY <3>6, <3>7, <3>8
  <2>9. IsFlat(N)
    <3> DEFINE G == {n \in 0 .. N - 1 : IsFlat(n + 1)}
    <3>1. 0 \in G
      BY <1>2, <1>5, <2>7
    <3>2. \A n \in 1 .. N - 1 : n - 1 \in G => n \in G
      <4> SUFFICES ASSUME NEW n \in 1 .. N - 1, n - 1 \in G PROVE n \in G
        OBVIOUS
      <4> HIDE DEF IsFlat
      <4>1. (n - 1) + 1 = n /\ n \in 0 .. N - 1
        OBVIOUS
      <4>2. IsFlat(n)
        <5>1. IsFlat((n - 1) + 1)
          OBVIOUS
        <5> QED BY <4>1, <5>1
      <4>3. IsFlat(n + 1)
        BY <2>8, <4>2
      <4> QED BY <4>1, <4>3
    <3>3. N - 1 \in Nat /\ N - 1 \in 0 .. N - 1 /\ (N - 1) + 1 = N
      BY <1>2, <1>5
    <3> HIDE DEF G, N, IsFlat
    <3>4. 0 .. N - 1 \subseteq G
      BY <3>1, <3>2, <3>3, SegmentInduction
    <3>5. IsFlat((N - 1) + 1)
      BY <3>3, <3>4 DEF G
    <3> QED BY <3>3, <3>5
  <2>10. PICK flat : flat = FlattenSeq(seqs)
    OBVIOUS
  <2>11. /\ flat \in Seq(S) /\ DOMAIN flat = 1 .. Sum(lens, N)
         /\ \A u \in 1 .. N : \A k \in 1 .. Len(seqs[u]) :
              Sum(lens, u - 1) + k \in 1 .. Sum(lens, N) /\ flat[Sum(lens, u - 1) + k] = seqs[u][k]
    BY <2>4, <2>9, <2>10
  <2>12. \A u \in DOMAIN seqs : \A n \in DOMAIN seqs[u] : n \in 1 .. Len(seqs[u])
    BY <1>2
  <2> HIDE DEF N, IsFlat
  <2> QED BY <1>1, <1>2, <2>10, <2>11, <2>12
<1> QED BY <1>4, <1>5

\* A file is entered where it is, or at the end; all others stay.
FileTable(S) == [filetab : Seq(S), cutab : Seq(Nat)]

LEMMA WithFileIs ==
  ASSUME NEW S, NEW t \in FileTable(S), NEW file \in S, NEW w, w = WithFile(t, file), NEW k, k = Len(t.cutab) + 1
  PROVE  /\ w \in FileTable(S) /\ Len(w.cutab) = k
         /\ \A i \in 1 .. Len(t.cutab) : w.cutab[i] = t.cutab[i]
         /\ \A i \in DOMAIN t.filetab : i \in DOMAIN w.filetab /\ w.filetab[i] = t.filetab[i]
         /\ w.cutab[k] \in DOMAIN w.filetab /\ w.filetab[w.cutab[k]] = file
<1>1. PICK files : files = t.filetab
  OBVIOUS
<1>2. PICK cus : cus = t.cutab
  OBVIOUS
<1>3. files \in Seq(S) /\ cus \in Seq(Nat) /\ k = Len(cus) + 1 /\ DOMAIN files \subseteq Nat
  BY <1>1, <1>2 DEF FileTable
<1>4. CASE file \in Range(files)
  <2>1. PICK c : c = CHOOSE i \in DOMAIN files : files[i] = file
    OBVIOUS
  <2>2. c \in DOMAIN files /\ files[c] = file /\ c \in Nat
    BY <1>3, <1>4, <2>1 DEF Range
  <2>3. w = [t EXCEPT !.cutab = Append(@, c)]
    BY <1>1, <1>4, <2>1 DEF WithFile
  <2>4. w.filetab = files /\ w.cutab = Append(cus, c) /\ w = [filetab |-> files, cutab |-> Append(cus, c)]
    BY <1>1, <1>2, <2>3 DEF FileTable
  <2>5. /\ Append(cus, c) \in Seq(Nat) /\ Len(Append(cus, c)) = k /\ Append(cus, c)[k] = c
        /\ \A i \in 1 .. Len(cus) : Append(cus, c)[i] = cus[i]
    BY <1>3, <2>2, AppendedIs
  <2> QED BY <1>1, <1>2, <1>3, <2>2, <2>4, <2>5 DEF FileTable
<1>5. CASE file \notin Range(files)
  <2>1. PICK n : n = Len(files) + 1
    OBVIOUS
  <2>2. w = [filetab |-> Append(files, file), cutab |-> Append(cus, n)]
    BY <1>1, <1>2, <1>5, <2>1 DEF WithFile
  <2>3. /\ Append(files, file) \in Seq(S) /\ n \in DOMAIN Append(files, file) /\ Append(files, file)[n] = file /\ n \in Nat
        /\ \A i \in DOMAIN files : i \in DOMAIN Append(files, file) /\ Append(files, file)[i] = files[i]
    <3>1. /\ Append(files, file) \in Seq(S) /\ Len(files) \in Nat
          /\ DOMAIN files = 1 .. Len(files) /\ DOMAIN Append(files, file) = 1 .. n
          /\ Append(files, file)[n] = file
          /\ \A i \in 1 .. Len(files) : Append(files, file)[i] = files[i]
      BY <1>3, <2>1, AppendedIs
    <3> QED BY <2>1, <3>1
  <2>4. /\ Append(cus, n) \in Seq(Nat) /\ Len(Append(cus, n)) = k /\ Append(cus, n)[k] = n
        /\ \A i \in 1 .. Len(cus) : Append(cus, n)[i] = cus[i]
    BY <1>3, <2>3, AppendedIs
  <2> QED BY <1>1, <1>2, <2>2, <2>3, <2>4 DEF FileTable
<1> QED BY <1>4, <1>5

LEMMA FileTablesAre ==
  ASSUME NEW files, files = FlattenSeq(module.units), files \in Seq(STRING)
  PROVE  \A k \in DOMAIN files : FileTables.filetab[FileTables.cutab[k]] = files[k]
<1> DEFINE N == Len(files)
           After(g, n) == IF n = 0 THEN [filetab |-> <<>>, cutab |-> <<>>] ELSE WithFile(g[n - 1], files[n])
           Solves(g) == g = [n \in 0 .. N |-> After(g, n)]
<1>1. PICK T : T = FileTable(STRING)
  OBVIOUS
<1>2. N \in Nat /\ DOMAIN files = 1 .. N /\ \A n \in 1 .. N : files[n] \in STRING
  OBVIOUS
<1>3. PICK a : a = [filetab |-> <<>>, cutab |-> <<>>]
  OBVIOUS
<1>4. a \in T /\ Len(a.cutab) = 0
  BY <1>1, <1>3 DEF FileTable
<1>5. PICK F : F = [x \in (1 .. N) \X T |-> WithFile(x[2], files[x[1]])]
  OBVIOUS
<1>6. F \in [(1 .. N) \X T -> T]
  <2>1. \A x \in (1 .. N) \X T : WithFile(x[2], files[x[1]]) \in T
    BY <1>1, <1>2, WithFileIs
  <2> QED BY <1>5, <2>1
<1>7. PICK h : Upto(N, T, a, F, h)
  <2> HIDE DEF N
  <2> QED BY <1>2, <1>4, <1>6, SegmentRecursion
<1>8. h \in [0 .. N -> T] /\ h[0] = a
  BY <1>7 DEF Upto
<1>9. ASSUME NEW k \in 1 .. N PROVE h[k] = WithFile(h[k - 1], files[k])
  <2>1. k - 1 \in 0 .. N /\ h[k - 1] \in T
    BY <1>2, <1>8
  <2>2. <<k, h[k - 1]>> \in (1 .. N) \X T
    BY <2>1
  <2>3. h[k] = F[<<k, h[k - 1]>>]
    BY <1>7 DEF Upto
  <2> QED BY <1>5, <2>2, <2>3
<1>10. \E g : Solves(g)
  <2>1. \A k \in 0 .. N : h[k] = After(h, k)
    <3> SUFFICES ASSUME NEW k \in 0 .. N PROVE h[k] = After(h, k)
      OBVIOUS
    <3>1. k = 0 \/ k \in 1 .. N
      BY <1>2
    <3> QED BY <1>3, <1>8, <1>9, <3>1
  <2>2. h = [k \in 0 .. N |-> h[k]]
    BY <1>8
  <2> HIDE DEF After, N
  <2>3. h = [k \in 0 .. N |-> After(h, k)]
    BY <2>1, <2>2
  <2> QED BY <2>3
<1>11. PICK f : f = CHOOSE g : Solves(g)
  OBVIOUS
<1>12. Solves(f)
  BY <1>10, <1>11
<1>13. FileTables = f[N]
  BY <1>11 DEF FileTables
<1>14. f[0] = a /\ \A k \in 1 .. N : f[k] = WithFile(f[k - 1], files[k])
  <2>1. f[0] = a
    BY <1>2, <1>3, <1>12
  <2>2. ASSUME NEW k \in 1 .. N PROVE f[k] = WithFile(f[k - 1], files[k])
    <3>1. k \in 0 .. N /\ k # 0
      OBVIOUS
    <3>2. f[k] = After(f, k)
      BY <1>12, <3>1, Zenon
    <3> QED BY <3>1, <3>2
  <2> QED BY <2>1, <2>2
<1> DEFINE Has(t, n) ==
             /\ t \in T /\ Len(t.cutab) = n
             /\ \A k \in 1 .. n : t.cutab[k] \in DOMAIN t.filetab /\ t.filetab[t.cutab[k]] = files[k]
           G == {n \in 0 .. N : Has(f[n], n)}
<1>15. 0 \in G
  BY <1>2, <1>4, <1>14
<1>16. \A n \in 1 .. N : n - 1 \in G => n \in G
  <2> SUFFICES ASSUME NEW n \in 1 .. N, n - 1 \in G PROVE n \in G
    OBVIOUS
  <2>1. PICK t : t = f[n - 1]
    OBVIOUS
  <2>2. PICK w : w = f[n]
    OBVIOUS
  <2>3. t \in FileTable(STRING) /\ Len(t.cutab) = n - 1 /\ w = WithFile(t, files[n]) /\ files[n] \in STRING /\ (n - 1) + 1 = n
        /\ \A k \in 1 .. n - 1 : t.cutab[k] \in DOMAIN t.filetab /\ t.filetab[t.cutab[k]] = files[k]
    BY <1>1, <1>2, <1>14, <2>1, <2>2
  <2>4. /\ w \in FileTable(STRING) /\ Len(w.cutab) = n
        /\ \A i \in 1 .. n - 1 : w.cutab[i] = t.cutab[i]
        /\ \A i \in DOMAIN t.filetab : i \in DOMAIN w.filetab /\ w.filetab[i] = t.filetab[i]
        /\ w.cutab[n] \in DOMAIN w.filetab /\ w.filetab[w.cutab[n]] = files[n]
    BY <2>3, WithFileIs
  <2>5. ASSUME NEW k \in 1 .. n PROVE w.cutab[k] \in DOMAIN w.filetab /\ w.filetab[w.cutab[k]] = files[k]
    <3>1. CASE k = n
      BY <2>4, <3>1
    <3>2. CASE k # n
      <4>1. k \in 1 .. n - 1
        BY <3>2
      <4> QED BY <2>3, <2>4, <4>1
    <3> QED BY <3>1, <3>2
  <2>6. Has(w, n)
    BY <1>1, <2>4, <2>5
  <2> QED BY <2>2, <2>6
<1>17. Has(f[N], N)
  <2> HIDE DEF G, N, Has
  <2>1. 0 .. N \subseteq G
    BY <1>2, <1>15, <1>16, SegmentInduction
  <2>2. N \in 0 .. N
    BY <1>2
  <2> QED BY <2>1, <2>2 DEF G
<1> QED BY <1>2, <1>13, <1>17

LEMMA FilesFound ==
  ASSUME LayoutInv, FunctionsInv, NEW f \in Listed, NEW n \in DOMAIN module.units[Symbol(f).unit]
  PROVE  FoundFile(f, n) = module.units[Symbol(f).unit][n]
<1>1. TablesAreGiven(module, Symbol(f)) /\ module \in Modules
  BY ListedAre DEF FunctionsInv
<1>2. PICK u : u = Symbol(f).unit
  OBVIOUS
<1>3. PICK units : units = module.units
  OBVIOUS
<1>4. u \in DOMAIN units /\ units \in Seq(Seq(STRING))
  BY <1>1, <1>2, <1>3, FunctionsAssumption DEF FunctionsAreWhole, TablesAreGiven
<1>5. PICK lens : lens = LengthsOf(units)
  OBVIOUS
<1>6. FuncRecord(f).cuOffset = Sum(lens, u - 1)
  BY <1>2, <1>3, <1>5 DEF FuncRecord, InitFunc, Merge, CuOffset, LengthsOf
<1>7. PICK S : S = STRING
  OBVIOUS
<1>8. PICK files : files = FlattenSeq(units)
  OBVIOUS
<1>9. /\ files \in Seq(S)
      /\ Sum(lens, u - 1) + n \in DOMAIN files /\ files[Sum(lens, u - 1) + n] = units[u][n]
  BY <1>2, <1>3, <1>4, <1>5, <1>7, <1>8, FlattenedIs
<1>10. FileTables.filetab[FileTables.cutab[Sum(lens, u - 1) + n]] = files[Sum(lens, u - 1) + n]
  BY <1>3, <1>7, <1>8, <1>9, FileTablesAre
<1> QED BY <1>2, <1>3, <1>6, <1>9, <1>10 DEF FoundFile

\* From when a module is published the runtime finds, from every pc in its code, the function there, the
\* files of its unit, its pc-value tables, the tables of its stack maps and of its inlined calls, and the
\* call of deferreturn, each its own (addFuncTab, readFuncData, addInlineTree, addStackObject and
\* addDeferReturn): for every module of which the functions are known.
THEOREM TablesStayFound == Spec => []TablesAreFound
<1>1. ASSUME BindingInv, LayoutInv, FunctionsInv PROVE TablesAreFound
  <2> SUFFICES ASSUME Published
      PROVE /\ \A f \in Listed : \A pc \in Words(f) : FoundFunc(pc) = f
            /\ \A f, g \in Listed : \A i \in DOMAIN pcs[f], j \in DOMAIN pcs[g] :
                 <<f, i>> # <<g, j>> => PcTable(f, i) \cap PcTable(g, j) = {}
            /\ \A f \in Listed : \A i \in DOMAIN pcs[f] :
                 /\ pcs[f][i] = 0 <=> i > 3 /\ PcTable(f, i) = {}
                 /\ PcTable(f, i) \subseteq PtrSize .. (pctab - 1)
            /\ \A f \in Listed : \A n \in DOMAIN module.units[Symbol(f).unit] :
                 FoundFile(f, n) = module.units[Symbol(f).unit][n]
            /\ \A f \in Listed :
                 LET its == Symbol(f).funcdata IN
                 OpenCodedDeferInfo \in DOMAIN its /\ its[OpenCodedDeferInfo] # NoName =>
                   /\ DeferReturn(f) # 0
                   /\ places[<<f, DeferReturn(f)>>] = HostSymbol(RuntimeDeferReturn)
            /\ \A f \in Listed : \A i \in DOMAIN Symbol(f).funcdata :
                 LET table == Symbol(f).funcdata[i] IN
                 i # InlTree \/ ~Symbol(f).inlines =>
                   TableOf(f, i) = IF table = NoName THEN 0 ELSE OffsetOf(table)
            /\ \A f \in Listed : Symbol(f).inlines =>
                 LET tree == TableOf(f, InlTree) IN
                 /\ tree \in (Base("noptrdata") + 1) .. (Base("bss") - 1)
                 /\ \A n \in DataSymbols : tree \notin Words(n)
                 /\ \A g \in Listed \ {f} : Symbol(g).inlines => TableOf(g, InlTree) # tree
            /\ \A f \in Listed : Symbol(f).stkobj # NoName =>
                 \A i \in DOMAIN Symbol(Symbol(f).stkobj).refs : IsOwn(StackObject(f, i))
    BY DEF TablesAreFound, Listed
  <2>1. phase # "registering"
    BY DEF Published
  <2>2. \A f \in Listed : \A pc \in Words(f) : FoundFunc(pc) = f
    BY <1>1, FunctionsFound
  <2>3. /\ \A f, g \in Listed : \A i \in DOMAIN pcs[f], j \in DOMAIN pcs[g] :
             <<f, i>> # <<g, j>> => PcTable(f, i) \cap PcTable(g, j) = {}
        /\ \A f \in Listed : \A i \in DOMAIN pcs[f] :
             /\ pcs[f][i] = 0 <=> i > 3 /\ PcTable(f, i) = {}
             /\ PcTable(f, i) \subseteq PtrSize .. (pctab - 1)
    BY <1>1, <2>1, PcTablesFound
  <2>4. \A f \in Listed : \A n \in DOMAIN module.units[Symbol(f).unit] :
          FoundFile(f, n) = module.units[Symbol(f).unit][n]
    BY <1>1, FilesFound
  <2>5. \A f \in Listed :
          LET its == Symbol(f).funcdata IN
          OpenCodedDeferInfo \in DOMAIN its /\ its[OpenCodedDeferInfo] # NoName =>
            /\ DeferReturn(f) # 0
            /\ places[<<f, DeferReturn(f)>>] = HostSymbol(RuntimeDeferReturn)
    BY <1>1, DefersFound
  <2>6. \A f \in Listed : \A i \in DOMAIN Symbol(f).funcdata :
          LET table == Symbol(f).funcdata[i] IN
          i # InlTree \/ ~Symbol(f).inlines =>
            TableOf(f, i) = IF table = NoName THEN 0 ELSE OffsetOf(table)
    BY <1>1, <2>1, TablesFound
  <2>7. \A f \in Listed : Symbol(f).inlines =>
          LET tree == TableOf(f, InlTree) IN
          /\ tree \in (Base("noptrdata") + 1) .. (Base("bss") - 1)
          /\ \A n \in DataSymbols : tree \notin Words(n)
          /\ \A g \in Listed \ {f} : Symbol(g).inlines => TableOf(g, InlTree) # tree
    BY <1>1, <2>1, TreesFound
  <2>8. \A f \in Listed : Symbol(f).stkobj # NoName =>
          \A i \in DOMAIN Symbol(Symbol(f).stkobj).refs : IsOwn(StackObject(f, i))
    BY <1>1, StackObjectsFound
  <2> QED BY <2>2, <2>3, <2>4, <2>5, <2>6, <2>7, <2>8
<1> QED BY <1>1, BindingHolds, FunctionsHold, PTL
================================================================================

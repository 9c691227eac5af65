------------------------------ MODULE DepSymbols ------------------------------
(***************************************************************************)
(* What ReadObjs finds out about the object files that it is given         *)
(* (readobj.go), and which symbols the linker then calls unresolved        *)
(* (ld.go): the pure part of the search for missing dependencies.          *)
(*                                                                         *)
(* A program w is a record:                                                *)
(*   syms       the names of all symbols                                   *)
(*   pkgOf      per symbol, the package it names (Sym.Pkg)                 *)
(*   definedIn  per symbol, the package whose archive holds it, which is   *)
(*              another one for a linknamed symbol, or NoPackage           *)
(*   refs       per symbol, the symbols its relocations name               *)
(*   types      the symbols that are types, named those with a package path*)
(*   elem       per pointer type *T, the symbol of T                       *)
(*   byIndex    per variable whose type is an index into another package,  *)
(*              that type, and the name that stands for it while the       *)
(*              package is not read                                        *)
(*   ifaceUse   per symbol that calls a method of an interface, the        *)
(*              interface, and the host's types that implement it with     *)
(*              that method dropped                                        *)
(*   dead       per type of the host, its methods that the host dropped    *)
(*   inner      per type of a runtime/internal package, that package       *)
(*   host       the symbols of the host (globalSymPtr)                     *)
(*   cgo, libs  the symbols of C, and those of them that a library has     *)
(*   deps, std  the packages that main depends on; those of the library    *)
(*   escaped    the packages whose path is written in another way where    *)
(*              a symbol names them (objabi.PathToPrefix)                  *)
(*   skip       SkipTypeDeduplicationForPackages                           *)
(*   blind      UnsafeBlindlyUseFirstmoduleTypes                           *)
(* A sequence of packages stands for the files; the last one is main.      *)
(***************************************************************************)
EXTENDS Integers, FiniteSets, Sequences

CONSTANTS Runtime, NoPackage

\* Names of symbols are there for all that is said of symbols.  The name that stands
\* for a type not read is nobody's symbol; types with methods that the host dropped
\* are types of the host, and name their package.
WellFormed(w) ==
  /\ IsFiniteSet(w.syms)
  /\ w.refs \in [w.syms -> SUBSET w.syms]
  /\ w.types \cup w.host \cup w.libs \subseteq w.syms
  /\ DOMAIN w.elem \subseteq w.syms /\ \A t \in DOMAIN w.elem : w.elem[t] \in w.syms
  /\ DOMAIN w.byIndex \subseteq w.syms
  /\ \A v \in DOMAIN w.byIndex :
       LET type == w.byIndex[v].type  fake == w.byIndex[v].fake IN
       /\ type \in w.syms /\ fake \in w.syms \ (w.host \cup w.libs)
       /\ w.definedIn[fake] = NoPackage /\ w.pkgOf[fake] # NoPackage
  /\ \A s \in DOMAIN w.ifaceUse : \A t \in w.ifaceUse[s].types :
       t \in w.host /\ w.pkgOf[t] # NoPackage

PkgsOf(paths) == {paths[i] : i \in 1 .. Len(paths)}
Defined(w, paths) == {s \in w.syms : w.definedIn[s] \in PkgsOf(paths)}

\* Everything that is reached from a set of nodes; next has what each leads to.
Onward(next, before) == before \cup UNION {next[s] : s \in before}
Closure(nodes, from, next) ==
  LET reached[n \in 0 .. Cardinality(nodes)] ==
        IF n = 0 THEN from ELSE UNION {Onward(next, before) : before \in {reached[n - 1]}}
  IN reached[Cardinality(nodes)]

------------------------------------------------------------------------------
\* resolveSymRefName finds a type by its index once its package is read; until
\* then the variable has a relocation to a name that nothing defines.  It looks for the
\* package by the name that the archive has for it: one that is escaped it never finds.
Unread(w, paths) ==
  {v \in DOMAIN w.byIndex \cap Defined(w, paths) :
     w.definedIn[w.byIndex[v].type] \notin PkgsOf(paths) \ w.escaped}
Fakes(w, paths) == {w.byIndex[v].fake : v \in Unread(w, paths)}
TypeOf(w, paths, v) ==
  IF v \in Unread(w, paths) THEN w.byIndex[v].fake ELSE w.byIndex[v].type

Edges(w, paths, s) ==
  (IF s \in DOMAIN w.elem THEN {w.elem[s]} ELSE {})
    \cup (IF s \in Defined(w, paths) THEN w.refs[s] ELSE {})
    \cup (IF s \in DOMAIN w.byIndex /\ s \in Defined(w, paths) THEN {TypeOf(w, paths, s)} ELSE {})

\* ReadObjs starts at the symbols of the last package, at those that the host has
\* as well, and at the variables whose type is not read.
EdgesOf(w, paths) == [s \in w.syms |-> Edges(w, paths, s)]
Reached(w, paths) ==
  LET main == Defined(w, <<paths[Len(paths)]>>)
  IN Closure(w.syms, main \cup (Defined(w, paths) \cap w.host) \cup Unread(w, paths), EdgesOf(w, paths))

\* Types of the host with a dropped method that the program may call through an
\* interface of the host.  The test that would spare packages already read looks
\* at linker.pkgs before it is set, and spares none.
Forced(w, paths) ==
  UNION {w.ifaceUse[s].types :
           s \in {s \in DOMAIN w.ifaceUse \cap Defined(w, paths) \cap Reached(w, paths) :
                    w.ifaceUse[s].iface \notin Defined(w, paths)}}

Reachable(w, paths) ==
  Closure(w.syms, Reached(w, paths) \cup Forced(w, paths), EdgesOf(w, paths))

\* collectReachableTypes goes from type to type.  At *T it marks T as well, but
\* does not follow T's relocations, and nor does anything that meets T later.
\* The order is that of a Go map: avoided are the T met at *T first.
Followed(w, paths, avoided) ==
  LET typesOf == [t \in w.syms |->
        (IF t \in Defined(w, paths) THEN w.refs[t] \cap w.types ELSE {})
          \ (avoided \cup (IF t \in DOMAIN w.elem THEN {w.elem[t]} ELSE {}))]
      roots == w.types \cap (Defined(w, <<paths[Len(paths)]>>) \cup (Defined(w, paths) \cap w.host))
  IN Closure(w.syms, (roots \cup Forced(w, paths)) \ avoided, typesOf)

Marked(w, paths, avoided) ==
  LET followed == Followed(w, paths, avoided)
  IN followed \cup {w.elem[t] : t \in followed \cap DOMAIN w.elem}

\* The sets of types that a run of ReadObjs may find reachable.
ReachableTypes(w, paths) ==
  LET Possible(avoided) ==
        \A t \in avoided : \E p \in DOMAIN w.elem \cap Followed(w, paths, avoided) : w.elem[p] = t
  IN {Marked(w, paths, avoided) :
        avoided \in {a \in SUBSET {w.elem[p] : p \in DOMAIN w.elem} : Possible(a)}}

------------------------------------------------------------------------------
\* The symbols of linker.symMap that have no place in the files read.
External(w, paths) ==
  ((UNION {w.refs[s] : s \in Defined(w, paths) \cap Reachable(w, paths)})
     \cup Fakes(w, paths) \cup Forced(w, paths)) \ Defined(w, paths)

\* Mutant: types that main reaches are left as they are.
HostTypesToRebuild_Dropped(w, paths, types, std) ==
  {t \in External(w, paths) \cap w.types \cap w.host \cap w.named :
     t \in types /\ w.dead[t] \cap Reachable(w, paths) # {}}

\* Types that the host has, to be rebuilt in case they changed: those outside of
\* the library that main reaches, and those with a dropped method in use.
HostTypesToRebuild(w, paths, types, std) ==
  {t \in External(w, paths) \cap w.types \cap w.host \cap w.named :
     LET usesDead == t \in types /\ w.dead[t] \cap Reachable(w, paths) # {} IN
     \/ usesDead
     \/ w.pkgOf[t] \notin std /\ t \in types /\ ~w.blind}

\* Symbols that neither the files nor the host have, among those in use.
Absent(w, paths, known) ==
  (External(w, paths) \ (known \cup Forced(w, paths))) \cap Reachable(w, paths)

\* Symbols of the packages whose symbols shall not be shared with the host, if their
\* symbols name them by their paths.
NotShared(w, paths, ignored) ==
  {s \in Reachable(w, paths) \cap (External(w, paths) \cup Defined(w, paths)) :
     w.pkgOf[s] \in ignored \ w.escaped}

UnresolvedExternalSymbols(w, paths, known, types, ignored, std) ==
  HostTypesToRebuild(w, paths, types, std)
    \cup Absent(w, paths, known) \cup NotShared(w, paths, ignored)

\* Mutant: a linknamed symbol is asked of its own package again.
PackageToBuild_Own(w, paths, s) == w.pkgOf[s]

\* A symbol whose package is there already is probably linknamed, and the runtime
\* implements it; if the runtime is there as well, it may be of runtime/internal.  What
\* has been read is looked up by path, while getMissingDeps compares names as symbols
\* have them: a package that is escaped is asked for again, and a type that was forced,
\* which names its package by the path, asks for none.
PackageToBuild(w, paths, s) ==
  IF w.pkgOf[s] \in w.escaped /\ s \notin Forced(w, paths) THEN w.pkgOf[s]
  ELSE IF w.pkgOf[s] \notin PkgsOf(paths)
       THEN IF w.pkgOf[s] \in w.escaped THEN NoPackage ELSE w.pkgOf[s]
  ELSE IF w.pkgOf[s] # Runtime THEN Runtime
  ELSE IF s \in DOMAIN w.inner THEN w.inner[s] ELSE Runtime

\* UnresolvedPackageReferences, but for the names in an escaped form: no package of
\* main's is escaped to one that is escaped already.
PackageReferences(w, paths) ==
  {w.pkgOf[s] : s \in {s \in Fakes(w, paths) : w.pkgOf[s] \notin w.escaped} \cup Forced(w, paths)}

\* UnresolvedExternalSymbolUsers, whose keys are what is still missing.
StillMissing(w, paths, known) == Absent(w, paths, known)
=============================================================================

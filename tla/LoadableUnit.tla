----------------------------- MODULE LoadableUnit -----------------------------
(***************************************************************************)
(* A package is built (DepBuilder) and then loaded (jit/load.go): once the *)
(* module is linked, Load runs the init functions of the packages that     *)
(* were read (init.1.21.go).                                               *)
(*                                                                         *)
(* Per program, imports gives the imports of a package in the order of its *)
(* archive, tasks the packages with init functions, and hostTasks those    *)
(* whose init task is in the host's table: it has run there, or the host   *)
(* has functions of the package, but no task.  ownTasks are those whose    *)
(* name has the prefix main, or that of a path of skip.                    *)
(***************************************************************************)
EXTENDS DepBuilder

\* Imports have no cycles, or go build would have failed: there is a height that is
\* greater for a package than for those it imports.
ASSUME ImportsAssumption ==
  \A p \in Programs :
    LET pkgs == DOMAIN p.imports IN
    /\ IsFiniteSet(pkgs) /\ p.imports \in [pkgs -> Seq(pkgs)]
    /\ ({p.pkgOf[s] : s \in p.syms} \cup p.deps \cup p.std \cup {Main}) \ {NoPackage} \subseteq pkgs
    /\ \E height \in [pkgs -> 0 .. Cardinality(pkgs)] :
         \A q \in pkgs : \A i \in 1 .. Len(p.imports[q]) : height[p.imports[q][i]] < height[q]

VARIABLES
  toInit,  \* initFuncs, as sorted, that are still to run
  ran,     \* packages whose init functions the module has run, in that order
  loaded   \* LoadableUnit.Load: "no", "initialising" or "yes"

unitVars == <<toInit, ran, loaded>>
allVars == <<vars, unitVars>>

UnitInit == Init /\ toInit = <<>> /\ ran = <<>> /\ loaded = "no"

\* The archives know their imports; of a package that was not read none are known.
AutolibsByPkg == [p \in DOMAIN w.imports |-> IF p \in PkgsOf(paths) THEN w.imports[p] ELSE <<>>]

\* recurseAutolibs enters a package once, then all that it imports, and leaves it after
\* them.  One step of it: the stack has what is to be entered and left.
Enter(p) == [pkg |-> p, enter |-> TRUE]
Leave(p) == [pkg |-> p, enter |-> FALSE]
WithImports(imports, p, rest) ==
  [i \in 1 .. Len(imports) |-> Enter(imports[i])] \o <<Leave(p)>> \o rest
RecurseAutolibs(libs, at) ==
  LET top == Head(at.stack)
      rest == Tail(at.stack)
  IN IF at.stack = <<>> THEN at
     ELSE IF ~top.enter THEN [at EXCEPT !.stack = rest, !.out = Append(@, top.pkg)]
     ELSE IF top.pkg \in at.seen THEN [at EXCEPT !.stack = rest]
     ELSE [seen |-> at.seen \cup {top.pkg}, out |-> at.out,
           stack |-> WithImports(libs[top.pkg], top.pkg, rest)]

\* A package that was not entered takes a step for each import, and one to be left.
StepsOf(libs, seen) == UNION {{p} \X (0 .. Len(libs[p])) : p \in DOMAIN libs \ seen}

Autolib(libs, main) ==
  LET steps == 1 + Cardinality(StepsOf(libs, {}))
      walk[n \in 0 .. steps] ==
        IF n = 0 THEN [stack |-> <<Enter(main)>>, seen |-> {}, out |-> <<>>]
        ELSE RecurseAutolibs(libs, walk[n - 1])
  IN walk[steps].out

\* slices.Index counts from 0, and gives -1 for what is not there.
Index(list, p) ==
  IF \E i \in 1 .. Len(list) : list[i] = p
    THEN (CHOOSE i \in 1 .. Len(list) : list[i] = p) - 1 ELSE -1

\* The orders that sort.Slice, which is not stable, may leave initFuncs in.
InitOrders ==
  LET autolib == Autolib(AutolibsByPkg, paths[Len(paths)]) IN
  {order \in [1 .. Len(paths) -> PkgsOf(paths)] :
     /\ \A i, j \in 1 .. Len(paths) : i < j => Index(autolib, order[i]) <= Index(autolib, order[j])
     /\ \A i, j \in 1 .. Len(paths) : i # j => order[i] # order[j]}

\* Mutant: the order in which the packages were read.
Load_AsRead ==
  /\ phase = "returned" /\ result = "linked" /\ loaded = "no"
  /\ toInit' = paths
  /\ loaded' = "initialising"
  /\ UNCHANGED <<vars, ran>>

\* Load reaches doInitialize.  (A linker that lacks a symbol does not get there.)
Load ==
  /\ phase = "returned" /\ result = "linked" /\ loaded = "no"
  /\ toInit' \in InitOrders
  /\ loaded' = "initialising"
  /\ UNCHANGED <<vars, ran>>

\* A task in the host's table hides that of the module, unless the prefix of its name
\* tells to keep the module's; a package without init functions has nothing to run.
RunsOwnTask(p) == p \in w.tasks /\ (p \notin w.hostTasks \/ p \in w.ownTasks)

Initialise ==
  /\ loaded = "initialising" /\ toInit # <<>>
  /\ toInit' = Tail(toInit)
  /\ ran' = IF RunsOwnTask(Head(toInit)) THEN Append(ran, Head(toInit)) ELSE ran
  /\ UNCHANGED <<vars, loaded>>

Initialised ==
  /\ loaded = "initialising" /\ toInit = <<>>
  /\ loaded' = "yes"
  /\ UNCHANGED <<vars, toInit, ran>>

Loading == Load \/ Initialise \/ Initialised

UnitSpec ==
  /\ UnitInit /\ [][(Next /\ UNCHANGED unitVars) \/ Loading]_allVars
  /\ WF_allVars(Caller /\ UNCHANGED unitVars)
  /\ WF_allVars((\E p \in building \cup freeing : Goroutine(p)) /\ UNCHANGED unitVars)

------------------------------------------------------------------------------
\* Packages that main leads to by imports of packages that were read.
Imported ==
  Closure(DOMAIN w.imports, {Main}, [p \in DOMAIN w.imports |-> PkgsOf(AutolibsByPkg[p])])

\* When the module runs the init functions of a package, it has run those of the packages
\* it imports that are not the host's to run, whatever rounds found the packages and in
\* whichever order (init.1.21.go:34).
ImportsFirst ==
  \A i \in 1 .. Len(ran) : ran[i] \in Imported =>
    \A k \in 1 .. Len(w.imports[ran[i]]) :
      LET import == w.imports[ran[i]][k] IN
      import \in PkgsOf(paths) /\ RunsOwnTask(import) => \E j \in 1 .. i - 1 : ran[j] = import
=============================================================================

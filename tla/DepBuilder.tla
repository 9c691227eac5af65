------------------------------ MODULE DepBuilder ------------------------------
(***************************************************************************)
(* Building a package for the linker (jit/jit.go): BuildGoFiles,           *)
(* BuildGoText, BuildGoPackage and BuildGoPackageRemote prepare a          *)
(* directory and build the package there; resolveDependencies and          *)
(* buildAndLoadDeps then build, in rounds, the packages that define what   *)
(* neither the files read so far nor the host have.  A round builds its    *)
(* packages in goroutines, as many at a time as a channel has slots.       *)
(*                                                                         *)
(* One call is modelled.  Other calls show where they share files: in the  *)
(* directory named after the text, which each call with that text makes,   *)
(* fills and removes, and in a TmpDir, which a call makes that finds it    *)
(* missing, and removes.  The go command and the file system may fail.     *)
(* Packages are numbers, in the order of their paths.                      *)
(***************************************************************************)
EXTENDS DepSymbols, TLC

CONSTANTS
  Programs,          \* what may be built, see DepSymbols
  Calls,             \* the calls: kind, whether it keeps its files, and its TmpDir
  Main,              \* the package built first
  MaxRecursionDepth, \* 150 in the code
  Slots              \* GOMAXPROCS

\* The stages of a call before resolveDependencies, in the order in which each function
\* has them.  "path" is what is asked of paths and the working directory, "module" the
\* test that go list gave a module, "fix" go mod download, go get and a second go list
\* when the first one reports errors, "abs" the absolute path of the build directory.
FilesStages == <<"path", "patch", "list", "fix", "tmp", "build dir", "build", "std">>
TextStages == <<"path", "build dir", "write", "patch", "list", "fix", "build", "std">>
PackageStages ==
  <<"path", "patch", "list", "module", "fix", "tmp", "build dir", "abs", "build", "std">>
RemoteStages ==
  <<"patch", "path", "std", "get", "list", "module", "fix", "tmp", "build dir", "abs", "build">>

Stages == [files |-> FilesStages, text |-> TextStages,
           package |-> PackageStages, remote |-> RemoteStages]

ASSUME BuilderAssumption ==
  /\ MaxRecursionDepth \in Nat /\ Slots \in Nat \ {0}
  /\ Calls \subseteq [kind : DOMAIN Stages, keep : BOOLEAN, tmpDir : {"default", "there", "missing"}]

\* NoPackage is nobody's: what no archive holds is never found in a package.
ASSUME ProgramsAssumption ==
  \A p \in Programs :
    /\ WellFormed(p)
    /\ NoPackage \notin p.deps \cup {Main}

VARIABLES
  w,          \* the program
  call,       \* the call
  phase,      \* where it is
  stage,      \* in the phase "prepare", the stage within Stages
  dirs,       \* directories there are, of "tmp" and "build"
  deferred,   \* directories to remove on return
  std,        \* stdLibPkgs: what GoListStd gave
  archives,   \* packages whose archive is in the build directory
  cgo,        \* symbols of C registered in the global table
  sortedDeps, \* packages that may still be built
  unresolved, \* symbols, as the last reading found them
  paths,      \* builtPackageImportPaths
  depth,      \* of the recursion
  toStart,    \* packages of this round without a goroutine yet
  building,   \* packages whose goroutine runs go build
  freeing,    \* packages whose goroutine has yet to free its slot
  errs,       \* go build failed for a package
  result      \* of the call

vars == <<w, call, phase, stage, dirs, deferred, std, archives, cgo, sortedDeps, unresolved,
          paths, depth, toStart, building, freeing, errs, result>>
context == <<w, call>>
round == <<toStart, building, freeing, errs>>
search == <<cgo, sortedDeps, unresolved, paths, depth>>
prepared == <<stage, std>>
files == <<dirs, deferred, archives>>

Results == {"none", "linked", "failed", "too deep", "unresolved"}
Phases == {"prepare", "read", "start", "begin", "wait", "final", "return", "returned"}

Packages == {w.pkgOf[s] : s \in w.syms} \cup w.deps \cup w.std \cup {Main}

TypeOK ==
  /\ w \in Programs /\ call \in Calls
  /\ phase \in Phases /\ stage \in Nat /\ result \in Results
  /\ dirs \subseteq {"tmp", "build"} /\ deferred \subseteq {"tmp", "build"}
  /\ std \cup archives \cup sortedDeps \cup toStart \cup building \cup freeing \subseteq Packages
  /\ PkgsOf(paths) \subseteq Packages
  /\ cgo \subseteq w.libs /\ unresolved \subseteq w.syms
  /\ depth \in 0 .. MaxRecursionDepth + 1 /\ errs \in BOOLEAN

Init ==
  /\ w \in Programs
  /\ call \in Calls
  /\ phase = "prepare" /\ stage = 1
  /\ dirs = IF call.tmpDir = "missing" THEN {} ELSE {"tmp"}
  /\ deferred = {} /\ std = {} /\ archives = {} /\ cgo = {}
  /\ sortedDeps = {} /\ unresolved = {} /\ paths = <<>> /\ depth = 0
  /\ toStart = {} /\ building = {} /\ freeing = {} /\ errs = FALSE
  /\ result = "none"

Known == w.host \cup cgo

Return(r) == phase' = "return" /\ result' = r

\* Symbols without a package are looked up in the libraries and registered.
AddCGoSymbols(missing) == cgo \cup (missing \cap w.libs)

\* The deferred calls: the directories go, and what is in them.
Remove(gone) ==
  LET alsoGone == IF "tmp" \in gone THEN gone \cup {"build"} ELSE gone IN
  /\ dirs' = dirs \ alsoGone
  /\ archives' = IF "build" \in alsoGone THEN {} ELSE archives

------------------------------------------------------------------------------
\* The stages that succeed, one action for each kind.
At(names) == phase = "prepare" /\ Stages[call.kind][stage] \in names
Advance ==
  IF stage = Len(Stages[call.kind]) THEN phase' = "read" /\ stage' = stage
  ELSE phase' = phase /\ stage' = stage + 1

\* PatchGC, and go list, which must find Go files and, for a package, its module.
GoList ==
  /\ At({"path", "patch", "list", "module"}) /\ Advance
  /\ UNCHANGED <<context, std, files, search, round, result>>

GoGet ==
  /\ At({"fix", "get"}) /\ Advance
  /\ UNCHANGED <<context, std, files, search, round, result>>

\* go list std; a failure is reported by nothing but an empty set.
GoListStd ==
  /\ At({"std"}) /\ Advance
  /\ std' \in {w.std, {}}
  /\ UNCHANGED <<context, files, search, round, result>>

\* MkdirAll makes what is missing, and MkdirTemp needs the directory to be there;
\* TmpDir is removed by the call that found it missing, except for BuildGoText.  A
\* package's build directory is deferred once its absolute path is known.
MakeDirectory ==
  LET made == CASE At({"tmp"}) -> {"tmp"}
                [] At({"build dir"}) /\ call.kind = "text" -> {"tmp", "build"}
                [] OTHER -> {"build"}
      mine == CASE At({"tmp"}) -> {"tmp"} \ dirs
                [] At({"build dir"}) /\ call.kind \in {"package", "remote"} -> {}
                [] OTHER -> {"build"}
  IN
  /\ At({"tmp", "build dir"}) /\ Advance
  /\ At({"build dir"}) /\ call.kind # "text" => "tmp" \in dirs
  /\ dirs' = dirs \cup made /\ deferred' = deferred \cup (IF call.keep THEN {} ELSE mine)
  /\ UNCHANGED <<context, std, archives, search, round, result>>

AbsPath ==
  /\ At({"abs"}) /\ Advance
  /\ deferred' = deferred \cup (IF call.keep THEN {} ELSE {"build"})
  /\ UNCHANGED <<context, std, dirs, archives, search, round, result>>

\* BuildGoText writes the text to a file of the directory.
WriteText ==
  /\ At({"write"}) /\ Advance /\ "build" \in dirs
  /\ UNCHANGED <<context, std, files, search, round, result>>

ExecBuild ==
  /\ At({"build"}) /\ Advance /\ "build" \in dirs
  /\ archives' = archives \cup {Main}
  /\ UNCHANGED <<context, std, dirs, deferred, search, round, result>>

Prepare ==
  GoList \/ GoGet \/ GoListStd \/ MakeDirectory \/ AbsPath \/ WriteText \/ ExecBuild

\* A stage that fails.  GoListStd reports nothing: its set is then empty.  A path is
\* absolute already unless the directory for temporary files is used, and that is
\* relative.
PrepareFails ==
  /\ phase = "prepare" /\ Stages[call.kind][stage] # "std"
  /\ At({"abs"}) => call.tmpDir = "default"
  /\ Return("failed")
  /\ UNCHANGED <<context, prepared, files, search, round>>

\* Other calls: one that builds the same text makes the directory, and may write there
\* whatever this call writes; one that uses the same TmpDir makes that.
OthersBuild ==
  /\ phase # "returned"
  /\ \/ /\ call.tmpDir # "default"
        /\ dirs' = dirs \cup {"tmp"} /\ archives' = archives
     \/ /\ call.kind = "text"
        /\ dirs' = dirs \cup {"tmp", "build"}
        /\ \E written \in SUBSET ({Main} \cup PkgsOf(paths)) : archives' = archives \cup written
  /\ UNCHANGED <<context, phase, prepared, deferred, search, round, result>>

\* One that built the same text removes the directory, and one that had found TmpDir
\* missing removes that.
OthersRemove ==
  /\ phase # "returned"
  /\ \E dir \in dirs :
       /\ dir = "build" => call.kind = "text"
       /\ dir = "tmp" => call.tmpDir # "default"
       /\ Remove({dir})
  /\ UNCHANGED <<context, phase, prepared, deferred, search, round, result>>

------------------------------------------------------------------------------
\* resolveDependencies reads the main package.
ReadMain ==
  /\ phase = "read" /\ Main \in archives
  /\ paths' = <<Main>>
  /\ \E types \in ReachableTypes(w, <<Main>>) :
       unresolved' = UnresolvedExternalSymbols(w, <<Main>>, Known, types, w.skip, std)
  /\ cgo' = AddCGoSymbols(unresolved')
  /\ sortedDeps' = w.deps \cup PackageReferences(w, <<Main>>)
  /\ IF unresolved' = {} THEN Return("linked") ELSE phase' = "begin" /\ result' = result
  /\ UNCHANGED <<context, prepared, files, depth, round>>

\* ReadObjs fails when a file is gone.
ReadFails ==
  /\ \/ phase = "read" /\ Main \notin archives
     \/ phase = "wait" /\ toStart = {} /\ building = {} /\ ~ (PkgsOf(paths) \subseteq archives)
     \/ phase = "final" /\ ~ (PkgsOf(paths) \subseteq archives)
  /\ Return("failed")
  /\ UNCHANGED <<context, prepared, files, search, round>>

Missing == sortedDeps \cap {PackageToBuild(w, paths, s) : s \in unresolved}

TooDeep ==
  /\ phase = "begin" /\ depth > MaxRecursionDepth
  /\ Return("too deep")
  /\ UNCHANGED <<context, prepared, files, search, round>>

\* Nothing can be built: resolveDependencies reads all files once more.
NothingToBuild ==
  /\ phase = "begin" /\ depth <= MaxRecursionDepth /\ Missing = {}
  /\ phase' = "final"
  /\ UNCHANGED <<context, prepared, files, search, round, result>>

\* A round has a WaitGroup and a channel of its own: a goroutine of the round
\* before that has yet to free its slot is of no consequence.
BeginRound ==
  /\ phase = "begin" /\ depth <= MaxRecursionDepth /\ Missing # {}
  /\ toStart' = Missing /\ freeing' = {}
  /\ phase' = "start"
  /\ UNCHANGED <<context, prepared, files, search, building, errs, result>>

\* The loop takes a slot, starts the goroutine of the next package and enters the
\* package before those that need it.
StartBuild ==
  /\ phase = "start" /\ Cardinality(building \cup freeing) < Slots
  /\ \E p \in toStart :
       /\ \A q \in toStart : p <= q
       /\ toStart' = toStart \ {p} /\ building' = building \cup {p}
       /\ paths' = IF p \in PkgsOf(paths) THEN paths ELSE <<p>> \o paths
  /\ phase' = IF toStart' = {} THEN "wait" ELSE phase
  /\ UNCHANGED <<context, prepared, files, cgo, sortedDeps, unresolved, depth, freeing, errs, result>>

\* go build ends, an error is kept, and wg.Done.
EndBuild(p) ==
  /\ p \in building
  /\ \/ "build" \in dirs /\ archives' = archives \cup {p} /\ errs' = errs
     \/ archives' = archives /\ errs' = TRUE
  /\ building' = building \ {p} /\ freeing' = freeing \cup {p}
  /\ UNCHANGED <<context, phase, prepared, dirs, deferred, search, toStart, result>>

\* Mutant: a slot is freed only when no go build has failed.
FreeSlot_NotOnError(p) ==
  /\ p \in freeing /\ ~errs
  /\ freeing' = freeing \ {p}
  /\ UNCHANGED <<context, phase, prepared, files, search, toStart, building, errs, result>>

FreeSlot(p) ==
  /\ p \in freeing
  /\ freeing' = freeing \ {p}
  /\ UNCHANGED <<context, phase, prepared, files, search, toStart, building, errs, result>>

\* Mutant: the first error is returned at once.
BuildsFail_AtOnce ==
  /\ phase = "wait" /\ toStart = {} /\ errs
  /\ Return("failed")
  /\ UNCHANGED <<context, prepared, files, search, round>>

BuildsFail ==
  /\ phase = "wait" /\ toStart = {} /\ building = {} /\ errs
  /\ Return("failed")
  /\ UNCHANGED <<context, prepared, files, search, round>>

\* All goroutines are done, and what they built is read with the rest; the search
\* recurses if something is unresolved.
EndRound ==
  /\ phase = "wait" /\ toStart = {} /\ building = {} /\ ~errs /\ PkgsOf(paths) \subseteq archives
  /\ \E types \in ReachableTypes(w, paths) :
       unresolved' = UnresolvedExternalSymbols(w, paths, Known, types, {}, std)
  /\ cgo' = AddCGoSymbols(unresolved')
  /\ IF unresolved' = {} THEN phase' = "final" /\ UNCHANGED <<sortedDeps, depth>>
     ELSE /\ sortedDeps' = (sortedDeps \cup PackageReferences(w, paths)) \ PkgsOf(paths)
          /\ depth' = depth + 1
          /\ phase' = "begin"
  /\ UNCHANGED <<context, prepared, files, paths, round, result>>

\* All files are read once more, and nothing may be missing.
Finish ==
  /\ phase = "final" /\ PkgsOf(paths) \subseteq archives
  /\ Return(IF StillMissing(w, paths, Known) = {} THEN "linked" ELSE "unresolved")
  /\ UNCHANGED <<context, prepared, files, search, round>>

Cleanup ==
  /\ phase = "return" /\ phase' = "returned"
  /\ Remove(deferred)
  /\ UNCHANGED <<context, prepared, deferred, search, round, result>>

Caller ==
  \/ Prepare \/ PrepareFails \/ ReadMain \/ ReadFails \/ TooDeep \/ NothingToBuild \/ BeginRound
  \/ StartBuild \/ BuildsFail \/ EndRound \/ Finish \/ Cleanup
Goroutine(p) == EndBuild(p) \/ FreeSlot(p)

Others == OthersBuild \/ OthersRemove

Next == Caller \/ (\E p \in building \cup freeing : Goroutine(p)) \/ Others

\* The call is one goroutine, its go commands end, and goroutines are scheduled.
Spec ==
  /\ Init /\ [][Next]_vars
  /\ WF_vars(Caller) /\ WF_vars(\E p \in building \cup freeing : Goroutine(p))

------------------------------------------------------------------------------
Linked == result = "linked"

\* What main's symbols need, by the relocations and types of what was read.
Needed ==
  LET uses == [s \in w.syms |->
        IF s \notin Defined(w, paths) THEN {}
        ELSE w.refs[s] \cup (IF s \in DOMAIN w.byIndex THEN {w.byIndex[s].type} ELSE {})]
  IN Closure(w.syms, Defined(w, <<Main>>), uses)

\* Symbols that a round may hope for: the package they name has them, or a library,
\* or, if the package they name can be had and is found again by that name, the runtime
\* or runtime/internal.
Obtainable(s) ==
  \/ s \in w.host \cup w.libs
  \/ w.definedIn[s] \in {Main} \cup (w.deps \cap {w.pkgOf[s]})
  \/ /\ w.pkgOf[s] \in (w.deps \cup PkgsOf(paths)) \ w.escaped
     /\ w.definedIn[s] \in w.deps
     /\ \/ w.definedIn[s] = Runtime
        \/ w.pkgOf[s] = Runtime /\ s \in DOMAIN w.inner /\ w.definedIn[s] = w.inner[s]

\* A linker that is handed out has all that main needs, in a package that was
\* read, in the host or in a library; the types of variables, which the host
\* cannot give, are in packages that were read.  And the search gives up for the lack
\* of a symbol only if that symbol is in neither place: no order of rounds loses sight
\* of a package that would have helped.
AnswerIsRight ==
  /\ Linked => /\ Needed \subseteq Defined(w, paths) \cup Known
               /\ Unread(w, paths) \cap Needed = {}
  /\ result = "unresolved" => \E s \in StillMissing(w, paths, Known) : ~Obtainable(s)

\* Types of the host, outside of the library, that main's types surely reach are
\* built anew and never taken from the host unseen (ld.go:1127), as far as their
\* package can be built and a symbol that was read names them; whichever way the map
\* of types was walked.  (A T that is reached at *T of the host only stays as it is, and
\* so does one that is forced and whose package is escaped.)
HostTypesRebuilt ==
  Linked /\ ~w.blind =>
    \A s \in Defined(w, paths) \cap Reachable(w, paths) :
      \A t \in w.refs[s] \cap w.types \cap w.host \cap w.named :
        (\A types \in ReachableTypes(w, paths) : t \in types) =>
          \/ t \in Defined(w, paths)
          \/ w.pkgOf[t] \in w.std \cup PkgsOf(paths) \/ w.pkgOf[t] \notin w.deps
          \/ w.pkgOf[t] \in w.escaped /\ t \in Forced(w, paths)

\* The stages that the call has come through.
Passed == {Stages[call.kind][i] : i \in 1 .. stage - 1}

\* No goroutine of a call and no directory that it built in is left when it returns: no
\* go build still writes to the directory that the deferred call removes.  (A TmpDir
\* that BuildGoText made stays, and so does a package's build directory if its absolute
\* path could not be found; a call that fails before it has a directory removes none.)
NothingOutlivesTheCall ==
  phase = "returned" =>
    /\ building = {}
    /\ "build dir" \in Passed /\ ~call.keep /\ Stages[call.kind][stage] # "abs" =>
         "build" \notin dirs

\* The call returns.  Slots, goroutines and wg.Wait never wait for each other, and
\* the recursion ends.
BuildEnds == <>(phase = "returned")
=============================================================================

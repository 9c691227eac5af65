-------------------------------- MODULE PatchGC --------------------------------
(***************************************************************************)
(* The patching of the Go compiler in a GOROOT (jit/gc_patch.go).          *)
(*                                                                         *)
(* PatchGC asks the compiler whether it knows -exporttypes; if not, it     *)
(* inserts a snippet into two of its sources, builds a new compiler,       *)
(* renames the old one to .bak and moves the new one into its place.       *)
(* Several processes may do this to one GOROOT, nothing locks it, and a    *)
(* process may die, or a file operation fail, at any step.                 *)
(*                                                                         *)
(* A source file is the number of snippets it holds, or Torn once it has   *)
(* been opened for writing and until it is written (os.WriteFile           *)
(* truncates first): an empty file has neither snippet nor anchor.  A      *)
(* compiler is "orig", "patched", "stale" (it knows the flag, but obj.go   *)
(* was not patched when it was built), "torn" (partly copied) or "none".   *)
(***************************************************************************)
EXTENDS Integers

CONSTANTS
  Procs,      \* the processes
  MaxCalls,   \* bound: calls of PatchGC per process
  MaxFaults   \* bound: crashes and failing file operations

ASSUME ConstantsAssumption == MaxCalls \in Nat /\ MaxFaults \in Nat

VARIABLES
  flag, obj,         \* base/flag.go and gc/obj.go of the compiler
  compiler, backup,  \* the files compile and compile.bak in GOTOOLDIR
  pc,                \* per process, where its call is
  flagRead, objRead, \* per process, the sources as it has read them
  built,             \* per process, the compiler in its temporary directory
  dest,              \* per process, the name its open destination has now
  cached,            \* processes whose patchCache has the GOROOT
  result,            \* per process, how its last call ended
  calls, faults,     \* how many there have been
  hurt,              \* a fault has left a file torn or missing (history)
  alone,             \* TRUE: one call at a time; chosen once
  crossDevice        \* TRUE: the temporary directory is on another device

sources == <<flag, obj>>
binaries == <<compiler, backup>>
local == <<flagRead, objRead, built>>
ends == <<cached, result>>
history == <<calls, faults, hurt, alone, crossDevice>>
vars == <<sources, binaries, pc, local, dest, ends, history>>

Torn == -1
PCs == {"idle", "help", "readObj", "readFlag", "flag", "writeFlag", "obj", "writeObj",
        "build", "backUp", "install", "copy"}
Compilers == {"none", "torn", "orig", "stale", "patched"}

TypeOK ==
  /\ {flag, obj} \subseteq Torn .. 2
  /\ {compiler, backup} \subseteq Compilers
  /\ pc \in [Procs -> PCs]
  /\ flagRead \in [Procs -> Torn .. 2] /\ objRead \in [Procs -> Torn .. 2]
  /\ built \in [Procs -> Compilers]
  /\ dest \in [Procs -> {"none", "compile", "bak"}]
  /\ cached \subseteq Procs
  /\ result \in [Procs -> {"none", "ok", "error"}]
  /\ calls \in [Procs -> 0 .. MaxCalls] /\ faults \in 0 .. MaxFaults
  /\ hurt \in BOOLEAN /\ alone \in BOOLEAN /\ crossDevice \in BOOLEAN

Init ==
  /\ flag = 0 /\ obj = 0 /\ compiler = "orig" /\ backup = "none"
  /\ pc = [p \in Procs |-> "idle"]
  /\ flagRead = [p \in Procs |-> 0] /\ objRead = [p \in Procs |-> 0]
  /\ built = [p \in Procs |-> "none"] /\ dest = [p \in Procs |-> "none"]
  /\ cached = {} /\ result = [p \in Procs |-> "none"]
  /\ calls = [p \in Procs |-> 0] /\ faults = 0 /\ hurt = FALSE
  /\ alone \in BOOLEAN /\ crossDevice \in BOOLEAN

Goto(p, l) == pc' = [pc EXCEPT ![p] = l] /\ UNCHANGED ends
Return(p, r) ==
  /\ pc' = [pc EXCEPT ![p] = "idle"]
  /\ result' = [result EXCEPT ![p] = r]
  /\ cached' = IF r = "ok" THEN cached \cup {p} ELSE cached

Usable == compiler \notin {"none", "torn"}

(***************************************************************************)
(* One call of PatchGC                                                     *)
(***************************************************************************)

Call(p) ==
  /\ pc[p] = "idle" /\ calls[p] < MaxCalls
  /\ alone => \A q \in Procs : pc[q] = "idle"
  /\ calls' = [calls EXCEPT ![p] = @ + 1]
  /\ \/ p \in cached /\ Return(p, "ok")
     \/ p \notin cached /\ Goto(p, "help")
  /\ UNCHANGED <<sources, binaries, local, dest, faults, hurt, alone, crossDevice>>

\* Mutant: the answer of the compiler is not looked at.
Help_AnyCompiler(p) ==
  /\ pc[p] = "help"
  /\ \/ ~Usable /\ Return(p, "error")
     \/ Usable /\ Goto(p, "readObj")
  /\ UNCHANGED <<sources, binaries, local, dest, history>>

\* compile -help: a compiler that does not run is an error, one that lists
\* -exporttypes, which flag.go makes it do, is taken for patched.
Help(p) ==
  /\ pc[p] = "help"
  /\ \/ ~Usable /\ Return(p, "error")
     \/ compiler \in {"patched", "stale"} /\ Return(p, "ok")
     \/ compiler = "orig" /\ Goto(p, "readObj")
  /\ UNCHANGED <<sources, binaries, local, dest, history>>

ReadObj(p) ==
  /\ pc[p] = "readObj"
  /\ objRead' = [objRead EXCEPT ![p] = obj]
  /\ Goto(p, "readFlag")
  /\ UNCHANGED <<sources, binaries, flagRead, built, dest, history>>

ReadFlag(p) ==
  /\ pc[p] = "readFlag"
  /\ flagRead' = [flagRead EXCEPT ![p] = flag]
  /\ Goto(p, "flag")
  /\ UNCHANGED <<sources, binaries, objRead, built, dest, history>>

\* Mutant: a patched flag.go is taken for a sign that obj.go is patched too.
CheckFlag_SkipsObj(p) ==
  /\ pc[p] = "flag"
  /\ \/ flagRead[p] = Torn /\ Return(p, "error") /\ UNCHANGED flag
     \/ flagRead[p] > 0 /\ Goto(p, "build") /\ UNCHANGED flag
     \/ flagRead[p] = 0 /\ Goto(p, "writeFlag") /\ flag' = Torn
  /\ UNCHANGED <<obj, binaries, local, dest, history>>

\* No snippet and no anchor is an error; os.WriteFile truncates the file.
CheckFlag(p) ==
  /\ pc[p] = "flag"
  /\ \/ flagRead[p] = Torn /\ Return(p, "error") /\ UNCHANGED flag
     \/ flagRead[p] > 0 /\ Goto(p, "obj") /\ UNCHANGED flag
     \/ flagRead[p] = 0 /\ Goto(p, "writeFlag") /\ flag' = Torn
  /\ UNCHANGED <<obj, binaries, local, dest, history>>

WriteFlag(p) ==
  /\ pc[p] = "writeFlag"
  /\ flag' = flagRead[p] + 1
  /\ Goto(p, "obj")
  /\ UNCHANGED <<obj, binaries, local, dest, history>>

\* Mutant: obj.go is not searched for the snippet.
CheckObj_Always(p) ==
  /\ pc[p] = "obj"
  /\ \/ objRead[p] = Torn /\ Return(p, "error") /\ UNCHANGED obj
     \/ objRead[p] >= 0 /\ Goto(p, "writeObj") /\ obj' = Torn
  /\ UNCHANGED <<flag, binaries, local, dest, history>>

CheckObj(p) ==
  /\ pc[p] = "obj"
  /\ \/ objRead[p] = Torn /\ Return(p, "error") /\ UNCHANGED obj
     \/ objRead[p] > 0 /\ Goto(p, "build") /\ UNCHANGED obj
     \/ objRead[p] = 0 /\ Goto(p, "writeObj") /\ obj' = Torn
  /\ UNCHANGED <<flag, binaries, local, dest, history>>

WriteObj(p) ==
  /\ pc[p] = "writeObj"
  /\ obj' = objRead[p] + 1
  /\ Goto(p, "build")
  /\ UNCHANGED <<flag, binaries, local, dest, history>>

Compiled == IF flag <= 0 THEN "orig" ELSE IF obj <= 0 THEN "stale" ELSE "patched"

\* Mutant: the exit status of go build is ignored.
Build_IgnoresErrors(p) ==
  /\ pc[p] = "build"
  /\ built' = [built EXCEPT ![p] = IF Usable THEN Compiled ELSE "torn"]
  /\ Goto(p, "backUp")
  /\ UNCHANGED <<sources, binaries, flagRead, objRead, dest, history>>

\* go build -o <temporary> cmd/compile needs the compiler and whole sources.
Build(p) ==
  /\ pc[p] = "build"
  /\ \/ /\ Usable /\ Torn \notin {flag, obj}
        /\ built' = [built EXCEPT ![p] = Compiled]
        /\ Goto(p, "backUp")
     \/ /\ ~Usable \/ Torn \in {flag, obj}
        /\ Return(p, "error") /\ UNCHANGED built
  /\ UNCHANGED <<sources, binaries, flagRead, objRead, dest, history>>

\* Mutant: the compiler is copied to compile.bak and stays in its place.
BackUp_Copies(p) ==
  /\ pc[p] = "backUp"
  /\ \/ compiler # "none" /\ backup' = compiler /\ Goto(p, "install")
     \/ compiler = "none" /\ Return(p, "error") /\ UNCHANGED backup
  /\ UNCHANGED <<sources, compiler, local, dest, history>>

\* The rename of compile to compile.bak: a process that is still writing the file
\* goes on writing it under its new name, and the former .bak is gone.
BackUp(p) ==
  /\ pc[p] = "backUp"
  /\ \/ /\ compiler # "none"
        /\ backup' = compiler /\ compiler' = "none"
        /\ dest' = [q \in Procs |-> IF dest[q] = "compile" THEN "bak" ELSE "none"]
        /\ Goto(p, "install")
     \/ /\ compiler = "none"
        /\ Return(p, "error") /\ UNCHANGED <<binaries, dest>>
  /\ UNCHANGED <<sources, local, history>>

\* The rename of the new compiler, or, across devices, the creation of its copy.
Install(p) ==
  /\ pc[p] = "install"
  /\ \/ /\ ~crossDevice
        /\ compiler' = built[p]
        /\ dest' = dest
        /\ Return(p, "ok")
     \/ /\ crossDevice
        /\ compiler' = "torn"
        /\ dest' = [dest EXCEPT ![p] = "compile"]
        /\ Goto(p, "copy")
  /\ UNCHANGED <<sources, backup, local, history>>

\* moveCrossDevice has copied the file, wherever it has been renamed to; it may
\* still fail to remove the source.
Copy(p) ==
  /\ pc[p] = "copy"
  /\ compiler' = IF dest[p] = "compile" THEN built[p] ELSE compiler
  /\ backup' = IF dest[p] = "bak" THEN built[p] ELSE backup
  /\ dest' = [dest EXCEPT ![p] = "none"]
  /\ \/ Return(p, "ok") /\ UNCHANGED faults
     \/ faults < MaxFaults /\ faults' = faults + 1 /\ Return(p, "error")
  /\ UNCHANGED <<sources, local, calls, hurt, alone, crossDevice>>

(***************************************************************************)
(* Faults                                                                  *)
(***************************************************************************)
Fault(p) ==
  /\ faults < MaxFaults
  /\ faults' = faults + 1
  /\ hurt' = (hurt \/ pc[p] \in {"writeFlag", "writeObj", "install", "copy"})
  /\ dest' = [dest EXCEPT ![p] = "none"]
  /\ pc' = [pc EXCEPT ![p] = "idle"]
  /\ UNCHANGED <<sources, binaries, local, calls, alone, crossDevice>>

\* The process dies; what it had cached is gone.
Crash(p) ==
  /\ pc[p] # "idle"
  /\ Fault(p)
  /\ cached' = cached \ {p} /\ result' = [result EXCEPT ![p] = "none"]

\* A command, a read, a write or a move fails: PatchGC returns the error and undoes
\* nothing.
FileError(p) ==
  /\ pc[p] # "idle"
  /\ Fault(p)
  /\ result' = [result EXCEPT ![p] = "error"] /\ UNCHANGED cached

Step(p) ==
  \/ Call(p) \/ Help(p) \/ ReadObj(p) \/ ReadFlag(p) \/ CheckFlag(p) \/ WriteFlag(p)
  \/ CheckObj(p) \/ WriteObj(p) \/ Build(p) \/ BackUp(p) \/ Install(p) \/ Copy(p)

Next == \E p \in Procs : Step(p) \/ Crash(p) \/ FileError(p)

Spec == Init /\ [][Next]_vars

(***************************************************************************)
(* Properties                                                              *)
(***************************************************************************)
Installing(p) == pc[p] = "install" \/ dest[p] = "compile"
Quiet == \A p \in Procs : pc[p] = "idle"

\* However many processes patch the sources, and wherever one of them stops, no
\* file ever holds the snippet twice (gc_patch.go:160, 184).
SnippetOnce == flag <= 1 /\ obj <= 1

\* Nothing locks the GOROOT, and yet the first rename keeps the others out: at most
\* one process is about to move or copy a compiler into place (gc_patch.go:233-244).
OneInstaller ==
  \A p, q \in Procs : Installing(p) /\ Installing(q) => p = q

\* What PatchGC puts in the place of the compiler, or will put there, is built from
\* patched sources: no process builds what another has only half prepared.
InstalledIsPatched == "stale" \notin {compiler, backup} \cup {built[p] : p \in Procs}

\* Without faults the processes do not make each other fail: one that finds a torn
\* source or no compiler met another that gets to the end.  Once every call has
\* returned one of them has succeeded, and the compiler in place is patched: a slower
\* process may replace it, by an equal one (gc_patch.go:131, 161, 233-244).
SuccessMeansPatched ==
  Quiet /\ faults = 0 /\ (\E p \in Procs : calls[p] > 0) =>
    compiler = "patched" /\ \E p \in Procs : result[p] = "ok"

\* With one call at a time the original compiler is never lost, whatever fails or
\* dies: it is in its place or in compile.bak (gc_patch.go:233).
OriginalNotLost == alone => "orig" \in {compiler, backup}

\* With one call at a time a process that remembers the GOROOT as patched is right,
\* whatever other processes do afterwards (gc_patch.go:118-123).
CacheIsTrue == alone /\ cached # {} => compiler = "patched"

\* With one call at a time a fault only does harm inside os.WriteFile or between the
\* two moves: after any other one the next call can finish the work.
RetryPossible ==
  alone /\ Quiet /\ ~hurt =>
    Usable /\ (compiler = "orig" => Torn \notin {flag, obj})

\* PatchGC may be called again and again, one call at a time, whatever became of the
\* calls before.
RepeatedCallsAreSafe == OriginalNotLost /\ CacheIsTrue /\ RetryPossible
================================================================================

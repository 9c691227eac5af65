----------------------------- MODULE PatchGCProofs -----------------------------
(***************************************************************************)
(* Theorems about PatchGC, for every set of processes, every number of     *)
(* calls and of faults.                                                    *)
(***************************************************************************)
EXTENDS PatchGC, TLAPS

\* A step is one of the actions of one process.
LEMMA NextCases ==
  ASSUME Next
  PROVE  \E p \in Procs :
           \/ Call(p) \/ Help(p) \/ ReadObj(p) \/ ReadFlag(p) \/ CheckFlag(p)
           \/ WriteFlag(p) \/ CheckObj(p) \/ WriteObj(p) \/ Build(p) \/ BackUp(p)
           \/ Install(p) \/ Copy(p) \/ Crash(p) \/ FileError(p)
BY DEF Next, Step

(***************************************************************************)
(* The sources: what a process has read is still true of the file, except  *)
(* that 0 may have become Torn or 1; so nobody writes a second snippet and *)
(* nobody builds an unpatched file.                                        *)
(***************************************************************************)
ReadInv ==
  \A p \in Procs :
    /\ flagRead[p] <= 1 /\ (flagRead[p] = 1 => flag # 0)
    /\ objRead[p] <= 1 /\ (objRead[p] = 1 => obj # 0)
    /\ pc[p] = "writeFlag" => flagRead[p] = 0
    /\ pc[p] = "writeObj" => objRead[p] = 0
    /\ pc[p] \in {"obj", "writeObj", "build"} => flag # 0
    /\ pc[p] = "build" => obj # 0

SourceInv == TypeOK /\ SnippetOnce /\ ReadInv

LEMMA InitSourceInv == Init => SourceInv
<1> SUFFICES ASSUME Init PROVE SourceInv
  OBVIOUS
<1>1. 0 \in 0 .. MaxCalls /\ 0 \in 0 .. MaxFaults /\ 0 \in Torn .. 2
  BY ConstantsAssumption DEF Torn
<1>2. TypeOK
  BY <1>1 DEF Init, TypeOK, PCs, Compilers
<1>3. SnippetOnce /\ ReadInv
  BY DEF Init, SnippetOnce, ReadInv
<1> QED
  BY <1>2, <1>3 DEF SourceInv

LEMMA NextSourceInv == SourceInv /\ [Next]_vars => SourceInv'
<1> SUFFICES ASSUME SourceInv, [Next]_vars PROVE SourceInv'
  OBVIOUS
<1> USE ConstantsAssumption
        DEF SourceInv, TypeOK, SnippetOnce, ReadInv, PCs, Compilers, Torn, sources,
            binaries, local, ends, history, Goto, Return
<1>1. CASE UNCHANGED vars
  BY <1>1 DEF vars
<1>2. ASSUME NEW p \in Procs, Call(p) PROVE SourceInv'
  BY <1>2 DEF Call
<1>3. ASSUME NEW p \in Procs, Help(p) PROVE SourceInv'
  BY <1>3 DEF Help
<1>4. ASSUME NEW p \in Procs, ReadObj(p) PROVE SourceInv'
  BY <1>4 DEF ReadObj
<1>5. ASSUME NEW p \in Procs, ReadFlag(p) PROVE SourceInv'
  BY <1>5 DEF ReadFlag
<1>6. ASSUME NEW p \in Procs, CheckFlag(p) PROVE SourceInv'
  BY <1>6 DEF CheckFlag
<1>7. ASSUME NEW p \in Procs, WriteFlag(p) PROVE SourceInv'
  BY <1>7 DEF WriteFlag
<1>8. ASSUME NEW p \in Procs, CheckObj(p) PROVE SourceInv'
  BY <1>8 DEF CheckObj
<1>9. ASSUME NEW p \in Procs, WriteObj(p) PROVE SourceInv'
  BY <1>9 DEF WriteObj
<1>10. ASSUME NEW p \in Procs, Build(p) PROVE SourceInv'
  BY <1>10 DEF Build, Compiled
<1>11. ASSUME NEW p \in Procs, BackUp(p) PROVE SourceInv'
  BY <1>11 DEF BackUp
<1>12. ASSUME NEW p \in Procs, Install(p) PROVE SourceInv'
  BY <1>12 DEF Install
<1>13. ASSUME NEW p \in Procs, Copy(p) PROVE SourceInv'
  BY <1>13 DEF Copy
<1>14. ASSUME NEW p \in Procs, Crash(p) PROVE SourceInv'
  BY <1>14 DEF Crash, Fault
<1>15. ASSUME NEW p \in Procs, FileError(p) PROVE SourceInv'
  BY <1>15 DEF FileError, Fault
<1> QED
  BY <1>1, <1>2, <1>3, <1>4, <1>5, <1>6, <1>7, <1>8, <1>9, <1>10, <1>11, <1>12, <1>13,
     <1>14, <1>15, NextCases

\* PatchGC never takes its variables out of their types: the sources of the compiler
\* are unpatched, patched, twice patched or torn, whatever fails (gc_patch.go:98).
THEOREM TypeCorrect == Spec => []TypeOK
<1>1. SourceInv => TypeOK
  BY DEF SourceInv
<1> QED
  BY InitSourceInv, NextSourceInv, <1>1, PTL DEF Spec

\* No interleaving of any number of processes, crashes and failing writes puts the
\* snippet into a file twice (gc_patch.go:160, 184).
THEOREM NoSecondSnippet == Spec => []SnippetOnce
<1>1. SourceInv => SnippetOnce
  BY DEF SourceInv
<1> QED
  BY InitSourceInv, NextSourceInv, <1>1, PTL DEF Spec

(***************************************************************************)
(* The binaries: what is built is patched.                                 *)
(***************************************************************************)
BuiltInv ==
  /\ InstalledIsPatched
  /\ \A p \in Procs : pc[p] \in {"backUp", "install", "copy"} => built[p] = "patched"
  /\ \A p \in Procs : dest[p] # "none" => pc[p] = "copy"

LEMMA InitBuiltInv == Init => BuiltInv
BY DEF Init, BuiltInv, InstalledIsPatched

LEMMA NextBuiltInv == SourceInv /\ BuiltInv /\ [Next]_vars => BuiltInv'
<1> SUFFICES ASSUME SourceInv, BuiltInv, [Next]_vars PROVE BuiltInv'
  OBVIOUS
<1> USE DEF BuiltInv, InstalledIsPatched, SourceInv, TypeOK, sources, binaries, local,
            ends, history, Goto, Return
<1>1. CASE UNCHANGED vars
  BY <1>1 DEF vars
<1>2. ASSUME NEW p \in Procs, Call(p) PROVE BuiltInv'
  BY <1>2 DEF Call
<1>3. ASSUME NEW p \in Procs, Help(p) PROVE BuiltInv'
  BY <1>3 DEF Help
<1>4. ASSUME NEW p \in Procs, ReadObj(p) PROVE BuiltInv'
  BY <1>4 DEF ReadObj
<1>5. ASSUME NEW p \in Procs, ReadFlag(p) PROVE BuiltInv'
  BY <1>5 DEF ReadFlag
<1>6. ASSUME NEW p \in Procs, CheckFlag(p) PROVE BuiltInv'
  BY <1>6 DEF CheckFlag
<1>7. ASSUME NEW p \in Procs, WriteFlag(p) PROVE BuiltInv'
  BY <1>7 DEF WriteFlag
<1>8. ASSUME NEW p \in Procs, CheckObj(p) PROVE BuiltInv'
  BY <1>8 DEF CheckObj
<1>9. ASSUME NEW p \in Procs, WriteObj(p) PROVE BuiltInv'
  BY <1>9 DEF WriteObj
<1>10. ASSUME NEW p \in Procs, Build(p) PROVE BuiltInv'
  <2>1. CASE Torn \notin {flag, obj}
    <3>1. Compiled = "patched"
      BY <1>10, <2>1 DEF Build, ReadInv, Compiled, Torn
    <3> QED
      BY <1>10, <2>1, <3>1 DEF Build
  <2> QED
    BY <1>10, <2>1 DEF Build
<1>11. ASSUME NEW p \in Procs, BackUp(p) PROVE BuiltInv'
  BY <1>11 DEF BackUp
<1>12. ASSUME NEW p \in Procs, Install(p) PROVE BuiltInv'
  BY <1>12 DEF Install
<1>13. ASSUME NEW p \in Procs, Copy(p) PROVE BuiltInv'
  BY <1>13 DEF Copy
<1>14. ASSUME NEW p \in Procs, Crash(p) PROVE BuiltInv'
  BY <1>14 DEF Crash, Fault
<1>15. ASSUME NEW p \in Procs, FileError(p) PROVE BuiltInv'
  BY <1>15 DEF FileError, Fault
<1> QED
  BY <1>1, <1>2, <1>3, <1>4, <1>5, <1>6, <1>7, <1>8, <1>9, <1>10, <1>11, <1>12, <1>13,
     <1>14, <1>15, NextCases

\* However the processes interleave, none builds or installs a compiler from sources
\* that another has only half patched (gc_patch.go:218).
THEOREM NoStaleCompiler == Spec => []InstalledIsPatched
<1>1. BuiltInv => InstalledIsPatched
  BY DEF BuiltInv
<1> QED
  BY InitSourceInv, NextSourceInv, InitBuiltInv, NextBuiltInv, <1>1, PTL DEF Spec

(***************************************************************************)
(* The rename as a lock: between the two moves there is no compiler, while *)
(* it is copied it is torn, and only who finds one can begin.              *)
(***************************************************************************)
InstallInv ==
  /\ OneInstaller
  /\ \A p \in Procs : pc[p] = "install" => compiler = "none"
  /\ \A p \in Procs : dest[p] = "compile" => pc[p] = "copy" /\ compiler = "torn"

LEMMA InitInstallInv == Init => InstallInv
BY DEF Init, InstallInv, OneInstaller, Installing

LEMMA NextInstallInv == TypeOK /\ InstallInv /\ [Next]_vars => InstallInv'
<1> SUFFICES ASSUME TypeOK, InstallInv, [Next]_vars PROVE InstallInv'
  OBVIOUS
<1> USE DEF InstallInv, OneInstaller, Installing, TypeOK, sources, binaries, local,
            ends, history, Goto, Return
<1>1. CASE UNCHANGED vars
  BY <1>1 DEF vars
<1>2. ASSUME NEW p \in Procs, Call(p) PROVE InstallInv'
  BY <1>2 DEF Call
<1>3. ASSUME NEW p \in Procs, Help(p) PROVE InstallInv'
  BY <1>3 DEF Help
<1>4. ASSUME NEW p \in Procs, ReadObj(p) PROVE InstallInv'
  BY <1>4 DEF ReadObj
<1>5. ASSUME NEW p \in Procs, ReadFlag(p) PROVE InstallInv'
  BY <1>5 DEF ReadFlag
<1>6. ASSUME NEW p \in Procs, CheckFlag(p) PROVE InstallInv'
  BY <1>6 DEF CheckFlag
<1>7. ASSUME NEW p \in Procs, WriteFlag(p) PROVE InstallInv'
  BY <1>7 DEF WriteFlag
<1>8. ASSUME NEW p \in Procs, CheckObj(p) PROVE InstallInv'
  BY <1>8 DEF CheckObj
<1>9. ASSUME NEW p \in Procs, WriteObj(p) PROVE InstallInv'
  BY <1>9 DEF WriteObj
<1>10. ASSUME NEW p \in Procs, Build(p) PROVE InstallInv'
  BY <1>10 DEF Build
<1>11. ASSUME NEW p \in Procs, BackUp(p) PROVE InstallInv'
  BY <1>11 DEF BackUp
<1>12. ASSUME NEW p \in Procs, Install(p) PROVE InstallInv'
  BY <1>12 DEF Install
<1>13. ASSUME NEW p \in Procs, Copy(p) PROVE InstallInv'
  BY <1>13 DEF Copy
<1>14. ASSUME NEW p \in Procs, Crash(p) PROVE InstallInv'
  BY <1>14 DEF Crash, Fault
<1>15. ASSUME NEW p \in Procs, FileError(p) PROVE InstallInv'
  BY <1>15 DEF FileError, Fault
<1> QED
  BY <1>1, <1>2, <1>3, <1>4, <1>5, <1>6, <1>7, <1>8, <1>9, <1>10, <1>11, <1>12, <1>13,
     <1>14, <1>15, NextCases

\* The rename to compile.bak excludes the others, whatever they do and wherever they
\* die: two processes never move compilers into place at once (gc_patch.go:233-244).
THEOREM RenameIsALock == Spec => []OneInstaller
<1>1. InstallInv => OneInstaller
  BY DEF InstallInv
<1> QED
  BY TypeCorrect, InitInstallInv, NextInstallInv, <1>1, PTL DEF Spec

(***************************************************************************)
(* One call at a time: the original compiler is in its place until the     *)
(* call moves it away, and afterwards in compile.bak.                      *)
(***************************************************************************)
Preparing(p) == pc[p] \in {"readObj", "readFlag", "flag", "writeFlag", "obj", "writeObj",
                           "build", "backUp"}
Moving(p) == pc[p] \in {"install", "copy"}

OneCall == \A p, q \in Procs : pc[p] # "idle" /\ pc[q] # "idle" => p = q

KeepsOriginal ==
  /\ "orig" \in {compiler, backup}
  /\ \A p \in Procs : Preparing(p) => compiler = "orig"
  /\ \A p \in Procs : Moving(p) => backup = "orig" /\ compiler \in {"none", "torn"}
  /\ \A p \in Procs : pc[p] = "copy" => dest[p] = "compile"
  /\ cached # {} => compiler = "patched"

Unhurt ==
  ~hurt =>
    /\ (\A p \in Procs : ~Moving(p)) => Usable
    /\ compiler = "orig" =>
         /\ (\A p \in Procs : pc[p] # "writeFlag") => flag # Torn
         /\ (\A p \in Procs : pc[p] # "writeObj") => obj # Torn

AloneInv == alone => OneCall /\ KeepsOriginal /\ Unhurt

LEMMA InitAloneInv == Init => AloneInv
BY DEF Init, AloneInv, OneCall, KeepsOriginal, Unhurt, Usable, Torn, Preparing, Moving

LEMMA NextAloneInv ==
  SourceInv /\ BuiltInv /\ InstallInv /\ AloneInv /\ [Next]_vars => AloneInv'
<1> SUFFICES ASSUME SourceInv, BuiltInv, InstallInv, AloneInv, [Next]_vars, alone'
             PROVE  (OneCall /\ KeepsOriginal /\ Unhurt)'
  BY DEF AloneInv
<1> DEFINE Goal == OneCall /\ KeepsOriginal /\ Unhurt
<1> USE DEF SourceInv, TypeOK, AloneInv, OneCall, KeepsOriginal, Unhurt, Usable, Preparing,
            Moving, sources, binaries, local, ends, history, Goto, Return
<1>1. CASE UNCHANGED vars
  BY <1>1 DEF vars
<1>2. ASSUME NEW p \in Procs, Call(p) PROVE Goal'
  BY <1>2 DEF Call
<1>3. ASSUME NEW p \in Procs, Help(p) PROVE Goal'
  BY <1>3 DEF Help, BuiltInv, InstalledIsPatched, Compilers
<1>4. ASSUME NEW p \in Procs, ReadObj(p) PROVE Goal'
  BY <1>4 DEF ReadObj
<1>5. ASSUME NEW p \in Procs, ReadFlag(p) PROVE Goal'
  BY <1>5 DEF ReadFlag
<1>6. ASSUME NEW p \in Procs, CheckFlag(p) PROVE Goal'
  BY <1>6 DEF CheckFlag
<1>7. ASSUME NEW p \in Procs, WriteFlag(p) PROVE Goal'
  BY <1>7 DEF WriteFlag, ReadInv, Torn
<1>8. ASSUME NEW p \in Procs, CheckObj(p) PROVE Goal'
  BY <1>8 DEF CheckObj
<1>9. ASSUME NEW p \in Procs, WriteObj(p) PROVE Goal'
  BY <1>9 DEF WriteObj, ReadInv, Torn
<1>10. ASSUME NEW p \in Procs, Build(p) PROVE Goal'
  BY <1>10 DEF Build
<1>11. ASSUME NEW p \in Procs, BackUp(p) PROVE Goal'
  BY <1>11 DEF BackUp, BuiltInv
<1>12. ASSUME NEW p \in Procs, Install(p) PROVE Goal'
  BY <1>12 DEF Install, BuiltInv, InstallInv
<1>13. ASSUME NEW p \in Procs, Copy(p) PROVE Goal'
  BY <1>13 DEF Copy, BuiltInv, InstallInv
<1>14. ASSUME NEW p \in Procs, Crash(p) PROVE Goal'
  BY <1>14 DEF Crash, Fault
<1>15. ASSUME NEW p \in Procs, FileError(p) PROVE Goal'
  BY <1>15 DEF FileError, Fault
<1> QED
  BY <1>1, <1>2, <1>3, <1>4, <1>5, <1>6, <1>7, <1>8, <1>9, <1>10, <1>11, <1>12, <1>13,
     <1>14, <1>15, NextCases

LEMMA AloneInvariant == Spec => [](SourceInv /\ AloneInv)
BY InitSourceInv, NextSourceInv, InitBuiltInv, NextBuiltInv, InitInstallInv,
   NextInstallInv, InitAloneInv, NextAloneInv, PTL DEF Spec, SourceInv

\* With one call at a time no crash, no failing file operation and no repetition of
\* PatchGC loses the compiler it found (gc_patch.go:233).
THEOREM OriginalKept == Spec => []OriginalNotLost
<1>1. AloneInv => OriginalNotLost
  BY DEF AloneInv, KeepsOriginal, OriginalNotLost
<1> QED
  BY AloneInvariant, <1>1, PTL

\* With one call at a time what patchCache remembers stays true (gc_patch.go:118).
THEOREM CacheCorrect == Spec => []CacheIsTrue
<1>1. AloneInv => CacheIsTrue
  BY DEF AloneInv, KeepsOriginal, CacheIsTrue
<1> QED
  BY AloneInvariant, <1>1, PTL

\* With one call at a time a call that ends, well or badly or in a crash, leaves a
\* GOROOT that the next call can patch, unless it was hit inside os.WriteFile or
\* between the two moves (gc_patch.go:165, 189, 233-244).
THEOREM CanRetry == Spec => []RetryPossible
<1>1. AloneInv => RetryPossible
  BY DEF AloneInv, Unhurt, Moving, RetryPossible, Quiet
<1> QED
  BY AloneInvariant, <1>1, PTL

\* With one call at a time PatchGC may be repeated, whatever became of the calls
\* before: nothing is lost, and what is remembered is true.
THEOREM CanRepeat == Spec => []RepeatedCallsAreSafe
<1>1. OriginalNotLost /\ CacheIsTrue /\ RetryPossible => RepeatedCallsAreSafe
  BY DEF RepeatedCallsAreSafe
<1> QED
  BY OriginalKept, CacheCorrect, CanRetry, <1>1, PTL

(***************************************************************************)
(* No faults: a call that fails has met another one that has not failed    *)
(* yet.  OnItsWay(p) says that p has read nothing torn; every torn or      *)
(* missing file has a process at it (Attended), and that one is on its     *)
(* way, because obj.go is read first: who read it torn does not find       *)
(* flag.go unpatched afterwards (ReadsInOrder).                            *)
(***************************************************************************)
OnItsWay(p) ==
  /\ pc[p] # "idle"
  /\ pc[p] \in {"readFlag", "flag", "writeFlag", "obj"} => objRead[p] # Torn
  /\ pc[p] = "flag" => flagRead[p] # Torn

Attended ==
  /\ flag = Torn => \E p \in Procs : pc[p] = "writeFlag"
  /\ obj = Torn => \E p \in Procs : pc[p] = "writeObj"
  /\ compiler = "none" => \E p \in Procs : pc[p] = "install"
  /\ compiler = "torn" => \E p \in Procs : dest[p] = "compile"

ReadsInOrder ==
  \A p \in Procs :
    /\ pc[p] \in {"readFlag", "flag"} /\ objRead[p] = Torn => flag # 0
    /\ pc[p] = "flag" /\ objRead[p] = Torn => flagRead[p] # 0
    /\ pc[p] = "writeFlag" => objRead[p] # Torn

\* Once a compiler has been moved away the original one is not in place again, and who
\* has succeeded is remembered.
Remembered ==
  \A p \in Procs :
    /\ result[p] = "ok" => p \in cached
    /\ p \in cached => result[p] = "ok" /\ pc[p] = "idle"
    /\ p \in cached \/ Moving(p) => compiler # "orig"

NoneGivesUp ==
  (\E p \in Procs : calls[p] > 0) => \E p \in Procs : OnItsWay(p) \/ p \in cached

FaultFree == Attended /\ ReadsInOrder /\ Remembered /\ NoneGivesUp
FaultFreeInv == faults = 0 => FaultFree

LEMMA InitFaultFreeInv == Init => FaultFreeInv
BY DEF Init, FaultFreeInv, FaultFree, Attended, ReadsInOrder, Remembered, NoneGivesUp,
       Moving, Torn

LEMMA NextFaultFreeInv ==
  SourceInv /\ BuiltInv /\ InstallInv /\ FaultFreeInv /\ [Next]_vars => FaultFreeInv'
<1> SUFFICES ASSUME SourceInv, BuiltInv, InstallInv, FaultFreeInv, [Next]_vars, faults' = 0
             PROVE  FaultFree'
  BY DEF FaultFreeInv
<1> USE DEF SourceInv, TypeOK, sources, binaries, local, ends, history, Goto, Return
<1>0. FaultFree
  BY DEF FaultFreeInv, vars, Next, Step, Call, Help, ReadObj, ReadFlag, CheckFlag,
     WriteFlag, CheckObj, WriteObj, Build, BackUp, Install, Copy, Crash, FileError,
     Fault
<1>1. CASE UNCHANGED vars
  BY <1>0, <1>1 DEF vars, FaultFree, Attended, ReadsInOrder, Remembered, NoneGivesUp,
     OnItsWay, Moving
<1>2. ASSUME NEW p \in Procs, Call(p) PROVE FaultFree'
  <2>1. Attended'
    BY <1>0, <1>2 DEF Call, FaultFree, Attended
  <2>2. ReadsInOrder'
    BY <1>0, <1>2 DEF Call, FaultFree, ReadsInOrder
  <2>3. Remembered'
    BY <1>0, <1>2 DEF Call, FaultFree, Remembered, Moving
  <2>4. NoneGivesUp'
    BY <1>0, <1>2 DEF Call, NoneGivesUp, OnItsWay
  <2> QED
    BY <2>1, <2>2, <2>3, <2>4 DEF FaultFree
<1>3. ASSUME NEW p \in Procs, Help(p) PROVE FaultFree'
  <2>1. Attended'
    BY <1>0, <1>3 DEF Help, FaultFree, Attended
  <2>2. ReadsInOrder'
    BY <1>0, <1>3 DEF Help, FaultFree, ReadsInOrder
  <2>3. Remembered'
    BY <1>0, <1>3 DEF Help, FaultFree, Remembered, Moving
  <2>4. NoneGivesUp'
    BY <1>0, <1>3 DEF Help, Usable, FaultFree, Attended, NoneGivesUp, OnItsWay, BuiltInv
  <2> QED
    BY <2>1, <2>2, <2>3, <2>4 DEF FaultFree
<1>4. ASSUME NEW p \in Procs, ReadObj(p) PROVE FaultFree'
  <2>1. Attended'
    BY <1>0, <1>4 DEF ReadObj, FaultFree, Attended
  <2>2. ReadsInOrder'
    BY <1>0, <1>4 DEF ReadObj, FaultFree, Attended, ReadsInOrder, ReadInv
  <2>3. Remembered'
    BY <1>0, <1>4 DEF ReadObj, FaultFree, Remembered, Moving
  <2>4. NoneGivesUp'
    BY <1>0, <1>4 DEF ReadObj, FaultFree, Attended, NoneGivesUp, OnItsWay
  <2> QED
    BY <2>1, <2>2, <2>3, <2>4 DEF FaultFree
<1>5. ASSUME NEW p \in Procs, ReadFlag(p) PROVE FaultFree'
  <2>1. Attended'
    BY <1>0, <1>5 DEF ReadFlag, FaultFree, Attended
  <2>2. ReadsInOrder'
    BY <1>0, <1>5 DEF ReadFlag, FaultFree, ReadsInOrder
  <2>3. Remembered'
    BY <1>0, <1>5 DEF ReadFlag, FaultFree, Remembered, Moving
  <2>4. NoneGivesUp'
    BY <1>0, <1>5 DEF ReadFlag, FaultFree, Attended, ReadsInOrder, NoneGivesUp, OnItsWay
  <2> QED
    BY <2>1, <2>2, <2>3, <2>4 DEF FaultFree
<1>6. ASSUME NEW p \in Procs, CheckFlag(p) PROVE FaultFree'
  <2>1. Attended'
    BY <1>0, <1>6 DEF CheckFlag, FaultFree, Attended
  <2>2. ReadsInOrder'
    BY <1>0, <1>6 DEF CheckFlag, FaultFree, ReadsInOrder, Torn
  <2>3. Remembered'
    BY <1>0, <1>6 DEF CheckFlag, FaultFree, Remembered, Moving
  <2>4. NoneGivesUp'
    BY <1>0, <1>6 DEF CheckFlag, FaultFree, NoneGivesUp, OnItsWay
  <2> QED
    BY <2>1, <2>2, <2>3, <2>4 DEF FaultFree
<1>7. ASSUME NEW p \in Procs, WriteFlag(p) PROVE FaultFree'
  <2>1. Attended'
    BY <1>0, <1>7 DEF WriteFlag, FaultFree, Attended
  <2>2. ReadsInOrder'
    BY <1>0, <1>7 DEF WriteFlag, FaultFree, ReadsInOrder, ReadInv
  <2>3. Remembered'
    BY <1>0, <1>7 DEF WriteFlag, FaultFree, Remembered, Moving
  <2>4. NoneGivesUp'
    BY <1>0, <1>7 DEF WriteFlag, FaultFree, NoneGivesUp, OnItsWay
  <2> QED
    BY <2>1, <2>2, <2>3, <2>4 DEF FaultFree
<1>8. ASSUME NEW p \in Procs, CheckObj(p) PROVE FaultFree'
  <2>1. Attended'
    BY <1>0, <1>8 DEF CheckObj, FaultFree, Attended
  <2>2. ReadsInOrder'
    BY <1>0, <1>8 DEF CheckObj, FaultFree, ReadsInOrder
  <2>3. Remembered'
    BY <1>0, <1>8 DEF CheckObj, FaultFree, Remembered, Moving
  <2>4. NoneGivesUp'
    BY <1>0, <1>8 DEF CheckObj, FaultFree, NoneGivesUp, OnItsWay
  <2> QED
    BY <2>1, <2>2, <2>3, <2>4 DEF FaultFree
<1>9. ASSUME NEW p \in Procs, WriteObj(p) PROVE FaultFree'
  <2>1. Attended'
    BY <1>0, <1>9 DEF WriteObj, FaultFree, Attended
  <2>2. ReadsInOrder'
    BY <1>0, <1>9 DEF WriteObj, FaultFree, ReadsInOrder
  <2>3. Remembered'
    BY <1>0, <1>9 DEF WriteObj, FaultFree, Remembered, Moving
  <2>4. NoneGivesUp'
    BY <1>0, <1>9 DEF WriteObj, NoneGivesUp, OnItsWay
  <2> QED
    BY <2>1, <2>2, <2>3, <2>4 DEF FaultFree
<1>10. ASSUME NEW p \in Procs, Build(p) PROVE FaultFree'
  <2>1. Attended'
    BY <1>0, <1>10 DEF Build, FaultFree, Attended
  <2>2. ReadsInOrder'
    BY <1>0, <1>10 DEF Build, FaultFree, ReadsInOrder
  <2>3. Remembered'
    BY <1>0, <1>10 DEF Build, FaultFree, Remembered, Moving
  <2>4. NoneGivesUp'
    BY <1>0, <1>10 DEF Build, Usable, FaultFree, Attended, ReadsInOrder, NoneGivesUp,
       OnItsWay, BuiltInv
  <2> QED
    BY <2>1, <2>2, <2>3, <2>4 DEF FaultFree
<1>11. ASSUME NEW p \in Procs, BackUp(p) PROVE FaultFree'
  <2>1. Attended'
    BY <1>0, <1>11 DEF BackUp, FaultFree, Attended
  <2>2. ReadsInOrder'
    BY <1>0, <1>11 DEF BackUp, FaultFree, ReadsInOrder
  <2>3. Remembered'
    BY <1>0, <1>11 DEF BackUp, FaultFree, Remembered
  <2>4. NoneGivesUp'
    BY <1>0, <1>11 DEF BackUp, FaultFree, Attended, NoneGivesUp, OnItsWay
  <2> QED
    BY <2>1, <2>2, <2>3, <2>4 DEF FaultFree
<1>12. ASSUME NEW p \in Procs, Install(p) PROVE FaultFree'
  <2>1. Attended'
    BY <1>0, <1>12 DEF Install, FaultFree, Attended, BuiltInv
  <2>2. ReadsInOrder'
    BY <1>0, <1>12 DEF Install, FaultFree, ReadsInOrder
  <2>3. Remembered'
    BY <1>0, <1>12 DEF Install, FaultFree, Remembered, BuiltInv
  <2>4. NoneGivesUp'
    BY <1>0, <1>12 DEF Install, NoneGivesUp, OnItsWay
  <2> QED
    BY <2>1, <2>2, <2>3, <2>4 DEF FaultFree
<1>13. ASSUME NEW p \in Procs, Copy(p) PROVE FaultFree'
  <2>1. Attended'
    BY <1>0, <1>13 DEF Copy, FaultFree, Attended, BuiltInv
  <2>2. ReadsInOrder'
    BY <1>0, <1>13 DEF Copy, FaultFree, ReadsInOrder
  <2>3. Remembered'
    BY <1>0, <1>13 DEF Copy, FaultFree, Remembered, Moving, BuiltInv
  <2>4. NoneGivesUp'
    BY <1>0, <1>13 DEF Copy, NoneGivesUp
  <2> QED
    BY <2>1, <2>2, <2>3, <2>4 DEF FaultFree
<1>14. ASSUME NEW p \in Procs, Crash(p) \/ FileError(p) PROVE FALSE
  BY <1>14 DEF Crash, FileError, Fault
<1> QED
  BY <1>1, <1>2, <1>3, <1>4, <1>5, <1>6, <1>7, <1>8, <1>9, <1>10, <1>11, <1>12, <1>13,
     <1>14, NextCases

\* Without faults the processes that share a GOROOT do not make each other fail: when
\* all calls have returned one of them has succeeded and the compiler in place is
\* patched, however many processes there are (gc_patch.go:131, 161, 233-244).
THEOREM SharedGoroot == Spec => []SuccessMeansPatched
<1>1. SourceInv /\ BuiltInv /\ InstallInv /\ FaultFreeInv => SuccessMeansPatched
  <2> SUFFICES ASSUME SourceInv, BuiltInv, InstallInv, FaultFreeInv, Quiet, faults = 0,
                      \E p \in Procs : calls[p] > 0
               PROVE  compiler = "patched" /\ \E p \in Procs : result[p] = "ok"
    BY DEF SuccessMeansPatched
  <2>1. FaultFree /\ TypeOK
    BY DEF FaultFreeInv, SourceInv
  <2>2. PICK p \in Procs : p \in cached
    BY <2>1 DEF FaultFree, NoneGivesUp, OnItsWay, Quiet
  <2>3. result[p] = "ok" /\ compiler # "orig"
    BY <2>1, <2>2 DEF FaultFree, Remembered
  <2>4. compiler \notin {"none", "torn"}
    BY <2>1 DEF FaultFree, Attended, Quiet, InstallInv
  <2>5. compiler # "stale"
    BY DEF BuiltInv, InstalledIsPatched
  <2> QED
    BY <2>1, <2>3, <2>4, <2>5 DEF TypeOK, Compilers
<1> QED
  BY InitSourceInv, NextSourceInv, InitBuiltInv, NextBuiltInv, InitInstallInv,
     NextInstallInv, InitFaultFreeInv, NextFaultFreeInv, <1>1, PTL DEF Spec, SourceInv
================================================================================

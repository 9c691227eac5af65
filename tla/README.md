# A verification project for goloader

goloader links and loads Go object files into a running Go program (the *host*) and unloads them again. It does what
a static linker does, and besides rewrites structures of the running process that nothing else ever rewrites: the
host's method tables and itabs, the runtime's list of modules, its table of itabs. This directory holds TLA+ modules
of these parts, TLC configurations that check them on small instances, and theorems about them checked by TLAPS.

Paths are relative to `src/`.

## 1. The system

### 1.1 Components

| Component | Code | State it keeps | Operations | Modules |
|---|---|---|---|---|
| Method table patching | `itab.go` | `ifn`, `tfn`, `mtyp` of the host's method tables, `fun` of its itabs, negative entries of `firstmoduledata.typemap`, `firstModuleMissingMethods`, per module `patchedTypeMethods*` | `patchTypeMethodOffsets`, `patchTypeMethodTextPtrs`, `revertPatchedTypeMethods` | `TypeMethodPatch` |
| Module lifecycle | `ld.go`, `module.go` | the linked list of `moduledata`, the map `modules` under `modulesLock`, `runtime.modulesSlice`, the two mapped segments | `Load`, `Unload`, `addModule`, `removeModule` | `ModuleLifecycle`, `ModuleRegistry` |
| Itab table | `iface.1.10.go` | the runtime's open-addressed table and its count | `additabs`, `removeitabs` | `ItabTable` |
| Object file parsing | `obj/` | `Pkg`: symbols, their order, exports | `Symbols`, `addSym`, `convert*Relocs` | `GoObjects`, `NativeObjects`, `SymbolNames` |
| Linker front end | `ld.go`, `readobj.go` | symbol map, code and data images, packages | `ReadObjs`, `addSymbols`, reachability, `Autolib`, `UnresolvedExternalSymbols` | `DepSymbols`, `DataLayout`, `CodeLayout` |
| Relocation and epilogues | `relocate.go`, `asm_bytes.go` | code bytes, epilogue space per function, `applied*Relocs` | `relocate*` | `CodeLayout`, `SymbolBinding` |
| Pc-value and findfunc tables | `ld.go`, `functab*.go` | `pctab`, `ftab`, `findfunctab` | `patchPCValuesForReloc`, `buildModule` | `CodeLayout` |
| Symbol map, deduplication | `ld.go`, `relocate.go`, `type.go` | `symbolMap`, what every relocation is bound to, itablinks, exports | `addSymbolMap`, `relocate`, `deduplicateTypeDescriptors`, `buildExports` | `SymbolBinding`, `SymbolNames` |
| Moduledata, GC data | `module*.go`, `gcdata.go`, `inlinetree.go`, `deferreturn.go`, `stackobject/` | one `moduledata` | `initmodule`, `addgcdata`, `addInlineTree`, `AddStackObject` | `DataLayout`, `ModuleTables` |
| Symbol registration | `register.go`, `type.go`, `jit/jit.go` | `globalSymPtr`, `globalPkgSet` under `globalMutex` | `RegSymbol`, `RegTypes` | `SymbolRegistry`, `SymbolNames` |
| Package initialisation | `init.1.*.go` | `initFuncs`, `inittask.state` | `doInitialize` | `LoadableUnit` |
| JIT build pipeline | `jit/jit.go`, `jit/go_cmd.go`, `jit/load.go` | packages built so far, what is missing, semaphore and wait group of a round, directories | `BuildGo*`, `resolveDependencies`, `buildAndLoadDeps`, `Load` | `DepBuilder`, `LoadableUnit` |
| Compiler patching | `jit/gc_patch.go` | sources and binary of the compiler in a GOROOT, `patchCache` | `PatchGC` | `PatchGC` |
| Mapping manager | `mmap/manager.go`, `mmap/syscall_unix.go` | the pages of the process, `mapper.active` | `AcquireMapping`, `Mmap`, `Munmap` | `MapManager` |
| Value conversion | `convert.go` | values that cross from one version of a module to another, `cycleDetector` | `ConvertTypesAcrossModules` | `ValueConversion` |
| Unload hooks | `unload/` | caches of other libraries | `uncacheTypes`, `deregisterProtobufPackages` | none, see 6 |
| The rest | `mprotect/`, `macho_darwin.go`, `libc/`, `mmap/vmmap/`, `objabi/`, `reflectlite/` | | | none, see 6 |

### 1.2 How they interact

`jit.BuildGo*` compiles a package, reads it into a `Linker` and, as long as symbols are unresolved against
`globalSymPtr`, builds the packages they come from. `Load` then maps a code and a data segment, binds symbols
(`addSymbolMap`), relocates, fills a `moduledata` and links it into the runtime's list (`buildModule`: `addModule`
under `modulesLock`, then `additabs` under the runtime's `itabLock`, then `modulesinit` and `typelinksinit` under no
lock). Only now can types be compared across modules, so `deduplicateTypeDescriptors` runs last: it rebinds relocations
from the module's copy of a type to the host's, and where the host's linker dropped methods of that type it patches
the host's method table to point into the module. `Unload` undoes this in the opposite order: patches, itabs, list,
active modules, memory. `ConvertTypesAcrossModules` moves values to a newer module before the older one is unloaded.

The shared state is thus: the host's tables (written by any Load and Unload, without a lock), the list and the map
(written under `modulesLock`), the active modules (stored by `modulesinit`, without one), the itab table (under
`itabLock`, one entry or one sweep at a time), the pages of the process (`mmapLock`, which other code does not take),
the registered symbols (`globalMutex` for writing), and a GOROOT that other processes patch too.

### 1.3 What is hard about it

* Patches of several modules overlap on the same slots. Which module a slot points to is not recorded; which modules
  have patched it is. Whether an Unload resets a slot, re-points it or leaves it depends on the whole history.
* Load and Unload of different goroutines interleave. The lock covers the list and the map, not the patching, and not
  the walk of `modulesinit`. Load can fail after it has made itself visible.
* The itab table is open addressed, and nothing in the Go runtime expects entries to disappear.
* Space is reserved by one estimate and filled by another, before and after the addresses are known; offsets are noted
  in sections that still grow; relocations are applied twice.
* Whether a symbol is the host's or the module's own is decided at three moments, by name, by package and by structure;
  names have to be made up again from what reflection has kept of a type.
* A build goes on in rounds, each of which may add what is missing and make more missing; workers, slots and
  directories that other calls remove have to end up right on every way out.
* Pages are mapped at fixed addresses, chosen from a reading of the process that may be stale.

PROJECT.json lists the hazards line by line, with the properties that cover them or the reason why none does.

### 1.4 What makes each component correct

* Patching: complete methods of the host are never touched; JIT text is referred to only while someone accounts for
  it; loaded modules keep their methods reachable; itabs and method table agree; the host ends as it began, but for what 3.4 says.
* Lifecycle: list and map describe the same set; a module is found from `addModule` to `removeModule`; the collector
  sees mapped memory only; nothing of an unloaded module remains; operations end.
* Itab table: no entry refers to freed memory, and what is in the table is found.
* Objects: bodies win over wrappers, what an object refers to is there, C functions keep their bytes and relocations.
* Layout: stubs fit and stay whole, pcs in them unwind, every pc finds its function, every function its own tables, the
  collector sees the pointers of the module's variables and nothing else.
* Binding: types that are equal have one address, itabs agree with types, a package is taken from one side.
* Build pipeline: what is handed out is complete, what is given up was not to be had, dependencies are initialised
  first, rounds end, and no worker or directory is left behind.
* Compiler patching: whoever is told "patched" has a patched compiler, and no crash loses the compiler.
* Mappings: nothing live is mapped over, but for the race that the code accepts.
* Conversion: nothing of the old module remains in a converted value, and a failure has a reason.

## 2. Modules

```
TypeMethodPatch  <- TypeMethodPatchProofs
                 <- MCTypeMethodPatch          patch_in_turn, patch_dangling_text
ModuleLifecycle  <- ModuleLifecycleProofs
                 <- MCModuleLifecycle          lifecycle_interleaved, lifecycle_failed_load
  INSTANCE ModuleRegistry (abstract)
ItabTable        <- ItabTableProofs
                 <- MCItabTable                itabs_colliding
NativeObjects, SymbolNames <- GoObjects <- MCGoObjects                                objects
SymbolNames, GoMaps <- SymbolRegistry, DataLayout <- SymbolBinding <- ModuleTables
                                             ModuleTables <- SymbolBindingProofs
                                                          <- MCSymbolBinding          binding
CodeLayout       <- CodeLayoutProofs
                 <- MCCodeLayout               code_layout
DepSymbols <- DepBuilder <- LoadableUnit <- LoadableUnitProofs
                                         <- MCLoadableUnit                            jit_unit
MapManager       <- MapManagerProofs
                 <- MCMapManager               mappings
ValueConversion  <- MCValueConversion          conversion
PatchGC          <- PatchGCProofs
                 <- MCPatchGC                  patchgc_shared_goroot
```

Definitions whose names end in an underscore and a word (`Relocate_NoItab` for `Relocate`) are mutants: plausible bugs
that some run has to notice.

### 2.1 TypeMethodPatch

A *slot* is a method of a host type that modules carry a copy of. `ifn`, `tfn`, `mtyp` are the columns of the host's
method tables, `fun` the itab entries. A text reference is abstracted to *whose* text it points into: the host, one of
the modules, or `Missing` for -1 (in an itab: `unreachableMethod`). `mtyp` keeps its numbers, since the code compares
them: `HostOff`, -1, or the negative offsets counted down by `firstModuleTypemapCounter`.

| Action | Code |
|---|---|
| `StartDedup` | `ld.go:904-906`, the module enters the map; `ld.go:915` |
| `BeginReloc`, `PatchMethod` | one relocation that names a shared type, and one iteration of the method loop, `itab.go:127-231` |
| `Publish` | the assignment of `patchedTypeMethods*`, `ld.go:1043-1046` |
| `PatchItabs` | `patchTypeMethodTextPtrs`, `itab.go:257-292` |
| `FailLoad` | an error on the way, `ld.go:1290-1301` |
| `BeginUnload`, `RevertIfn`, `RevertTfn`, `RevertMtyp`, `NextLoop` | the three loops of `revertPatchedTypeMethods`, one type per step, with the lookup of another provider (`Others`) |
| `RemoveModule`, `UnmapModule` | `ld.go:1310-1320` |

Where the code ranges over a Go map the step is a choice. A module's copy of a type always has all its methods, and a
copy of a function that the host also has is bound to the host's (`Provided`). `adjustMethods` finds a method by name
and method type, which succeeds only while the table still has the host's own method type, hence the test in
`Adjusted`. The client chooses once in which order it unloads (`order`); `born` and `clock` are history for that.

Left out: page protection, except that its errors can fail a Load; the accesses themselves are atomic, so torn reads
of the unsynchronised maps are not covered; itabs that the runtime creates on its own while a type is patched.

### 2.2 ModuleLifecycle and ModuleRegistry

One module stands for one `CodeModule` and the goroutine that loads and unloads it. The list is walked and rewritten
one pointer per step (`Append`, `Unlink` under the lock; `Scan` without). `modulesinit` is external code: it walks the
list and stores what it saw (`StartScan`, `Scan`, `StoreActive`). Load can fail when mapping, in the stages before
`addModule` ("link") and in those after it ("dedup"). The client chooses once how many operations it has at a time
(`atOnce`, one of `AtOnce`).

`ModuleRegistry` is the abstract specification: a set of present modules, `Register` and `Retire` atomic.
`ModuleLifecycle` implements it with `present` the modules found by walking the list and `retired` those whose Unload
is past `removeModule`. The refinement says that no walk or rewrite of one goroutine ever adds, drops or duplicates
another one's module, at any pointer.

### 2.3 ItabTable

The table is a function from positions to itabs; an itab is its pair (interface, type) and the memory it lies in.
`Find` and `Insert` are the runtime's lookup and `itabAdd`, external, quadratic probing included. `RemoveItabs` is
`removeitabs`: it frees entries where they stand, whatever is behind them in a probe sequence. `GetItab` is a type
assertion for which the runtime makes an itab of its own; interface and type of a pair may be two modules' (`InterOwner`,
`TypeOwner`). The table does not grow in the model. A module is taken to be out of use from when its Unload begins, so
that `removeitabs` and `Munmap` (`ld.go:1308`, `1314`) are one step; an itab made for one of its types in between would stay.

### 2.4 GoObjects, NativeObjects, SymbolNames

An archive is a sequence of entries, a Go object a table of symbols with references by index or by name. `GoObjects`
goes through it as `Symbols` and `addSym` do (`obj/readobj.1.16.go:27-407`): depth first through references, the next
one on a stack (`todo`), each step one call of `addSym`, with its early returns (`NothingToAdd`), the making of room
for a body (`MakeRoom`) and the renaming of a wrapper (`NameToKeep`). `NativeObjects` are pure operators: symbols and
relocations of an ELF, Mach-O or PE object as the three `convert*Relocs` make them. `SymbolNames` has the names: those
that `resolveFullyQualifiedSymbolName` makes up for a type (`Resolved`), the variants of a name (`Variant`), and the
packages of functions and types by their names. A name is a sequence of texts, split where the code looks for a
separator. What is decoded from a file, and its bytes, are given.

### 2.5 SymbolRegistry, DataLayout, SymbolBinding, ModuleTables

These are one system, in the order of the code. `SymbolRegistry`: what the host tells of itself, types by a walk over
its type links, functions, variables and itabs. `DataLayout`: the symbols of the module placed in five sections, depth
first: `addSymbol` calls itself, so the calls under way are a stack, each with the step it comes to next (`AddNext`,
`ReadTable`, `AddInlineTree`, `Refer`, `Return`). The tables of a function are noted as offsets while sections grow.
`SymbolBinding`: `AddSymbolMap`, then the relocations one by one in any order (`Relocate`), `BuildModule`, again in any
order the second pass (`Deduplicate`) and `BuildExports`; a place is a relocation, and an address says whose it is.
A variable whose type `symbolMap` does not have fails the Load, as its pointers cannot be told (`Untyped`,
`gcdata.go:50`), unless its name looks like one of C. `ModuleTables` reads the result as the runtime does: pointer
masks, function records, the lookups through them.

Types are compared by `class`, which is the same for types that `typesEqual` finds equal. Every symbol of the module is
reachable. The host's record and the module's are inputs; what may be registered, and when, is the code's order.

### 2.6 CodeLayout

`AddSymbol` appends a function and reserves its epilogue space (`Lengths`, `Reserve`, `EpilogueSize`), extending the
pc-value tables (`PatchPcValues`). A program is any that is `WellFormed`: relocations lie in the text of their
function, and its pc-value tables cover it. Then relocations are applied in any order, each found near or far (`RelocateNear`,
`RelocateFar`, `FailFar`), with the stub that the opcode asks for written into the space; relocations of types once
more after `BuildModule`, with another outcome. `FindFunc` is the runtime's lookup. Bytes are only ranges: what the
model keeps is which stub covers which bytes, and what an instruction has become. `EpilogueSize` and `StubSize` are two
translations, of `addSymbol` and of `relocate*`; nothing makes them agree, and `TooShort` names the relocations for which
they do not. A restored instruction is the original but for a CMPL (`Start`): seven bytes are written over, six kept.
An `R_PCREL` at offset 1, for which `addSymbol` looks at other bytes than `relocatePCREL` does, is not told apart.

### 2.7 DepSymbols, DepBuilder, LoadableUnit

`DepSymbols` are the pure parts of `readobj.go` and `ld.go`: what is reachable, which symbols are missing, which types
of the host are rebuilt. A symbol names its package in an escaped form, archives are known by path: packages for which
the two differ are `escaped`, and each comparison of the one with the other is made as the code makes it. `DepBuilder` is
a call of one of the `BuildGo*`: its preparation, in the order each of the four has its stages (`FilesStages`,
`TextStages`, `PackageStages`, `RemoteStages`; `GoList`, `GoGet`, `GoListStd`, `MakeDirectory`, `AbsPath`, `WriteText`,
`ExecBuild`), `resolveDependencies`, and the rounds of `buildAndLoadDeps`, with a goroutine per package, the channel of
slots and the wait group (`BeginRound`, `StartBuild`, `EndBuild`, `FreeSlot`, `EndRound`). Any stage and command may
fail (`PrepareFails`, `ReadFails`, `BuildsFail`). Other calls make, fill and remove the directories that they share with
this one (`OthersBuild`, `OthersRemove`). `LoadableUnit` adds `Load` of the result: the init functions in the order of
`Autolib`, where an init task in the host's table hides the module's (`hostTasks`) unless its name has the prefix
`main.` or that of a skipped package (`ownTasks`). Archives are what a package defines and needs; options of commands are
left out.

### 2.8 MapManager

Addresses are pages. `AcquireMapping` is a sequence of steps: `Lock`, `ReadMap`, then one `Map` or `Refuse` per
candidate, `GiveUp`; `Register`, `Unmap` and `Forget` are `mmapper`'s, under its own lock. `OutsideMap` and
`OutsideUnmap` are other code of the process. `Gaps`, `Suitable` and `Addresses` are the arithmetic of
`mmap/manager.go`, with its rounding; the gap behind the topmost mapping is left out (6). A mapping too far away is
unmapped again (`FarAway`).

### 2.9 ValueConversion

The heap is a function from objects to cells. `cvt` is a stack of tasks (`todo`), one action per kind of value
(`CvtPointer`, `CvtSlice`, `CvtStruct`, `CvtFunc`, `CvtInterface`, `CvtMap` with its copy entry by entry), in place as
the code does it, with `cycleDetector` (`seen`), panics (`result`) and the exhaustion of the stack.

### 2.10 PatchGC

Several processes call `PatchGC` on one GOROOT, which nothing locks. A source file is the number of snippets it holds,
or `Torn` between the truncation and the write of `os.WriteFile`; a compiler is `orig`, `patched`, `stale` (knows the
flag, but was built without the change of `obj.go`), `torn` or `none`.

| Action | Code, `jit/gc_patch.go` |
|---|---|
| `Call`, `Help` | `98-142`: the cache, then `compile -help` |
| `ReadObj`, `ReadFlag` | `147-158`: both files are read before either is written |
| `CheckFlag`, `WriteFlag`, `CheckObj`, `WriteObj` | `160-203`, each `os.WriteFile` in two steps |
| `Build` | `205-231`: needs a compiler in place and whole sources |
| `BackUp` | `232-242`: replaces `.bak`; who is still copying into `compile` goes on in the file that is now `.bak` |
| `Install`, `Copy` | `244-294`: a rename, or with `crossDevice` a file created and then filled |
| `Crash`, `FileError` | the process dies, or `PatchGC` returns an error, at any step; nothing is undone |

`alone` says whether calls are made one at a time. A process is one `patchCache`; goroutines of one process that call
`PatchGC` together behave as processes do, except that they share it. The build is one step: the values it reads can only
change from unpatched or torn to patched meanwhile. The comment of `PatchGC` says that it "rebuilds it and tests again"
(`jit/gc_patch.go:97`); the code returns after the move, and so does the model.

## 3. Runs

| Run | Instance | Shows |
|---|---|---|
| `patch_in_turn` | 3 modules, 2 types of 4 methods, 2 relocations per module, failing Loads, three orders of unloading; 674 616 states | `JitTextNeedsPatcher`, `LoadedMethodsReachable`, `ItabMatchesMethod`, `HostTableRestored`, `HostMethodsUntouched` in every order; `OrderedUnloadsAreSafe`: nothing dangles oldest first, method types resolve newest first with two modules |
| `patch_dangling_text` | 2 modules, newest first | violation of `NoDanglingText` |
| `lifecycle_interleaved` | 3 modules, failures before and after `addModule`, one or two operations at a time, fair; 198 935 states | `RegisteredThenForgotten`, the refinement `RegistrySpec` and `OperationsFinish` in any interleaving; `RuntimeKnowsLoaded` one at a time |
| `lifecycle_failed_load` | 2 modules, failure in deduplication | violation of `ModulesAreLoaded` |
| `itabs_colliding` | 3 modules, 6 pairs in one probe sequence, one of them of two modules' types, table of 16; 27 196 states | `NoItabOfUnloaded`; `EveryItabFound`: the host's always, all of them newest first |
| `objects` | archives of Go objects with tables of 7 symbols, and with C objects in three formats; 32 045 states, 2 773 initial | `FunctionsKept`, `ReferencesMet`, `CFunctionsWhole` |
| `binding` | 74 hosts by 13 modules of up to 13 symbols, every order of both passes; 373 146 states, 962 initial | `TypesAgree`, `ItabsAgree`, `PackagesAreWhole`, `PointersAreScanned`, `TablesAreFound` |
| `code_layout` | 882 programs of two functions and more, each relocation near or far, in any order; 62 886 states | `StubsIntact`, `PcValuesCover`, `FindFuncFinds` |
| `jit_unit` | programs of up to 5 packages, 5 calls, failing commands, other calls in the same directories; 232 830 states | `AnswerIsRight`, `HostTypesRebuilt`, `NothingOutlivesTheCall`, `ImportsFirst`; `BuildEnds` |
| `mappings` | 2 loaders, 15 pages; 384 436 states | `HeldStaysMapped`, `ActiveIsHeld`, `GivesUpOnlyWithoutRoom`, `ReplacesOnlyUnseen` |
| `conversion` | 18 900 values; 126 275 states | `OnlyKnownRemains`, `FailsForAReason`, `ConversionEnds` |
| `patchgc_shared_goroot` | 3 processes, 2 calls each, 1 fault; 1 212 680 states | with any interleaving `SnippetOnce`, `OneInstaller`, `InstalledIsPatched`; without faults `SuccessMeansPatched`; one call at a time `RepeatedCallsAreSafe` |

### 3.1 Bounds

* Three modules are enough for a first, a middle and a last element of the list, for a module that is neither the one
  unloaded nor the provider found, and for an order of unloading that is neither oldest nor newest first. With two,
  mutants that drop the tail of the list or confuse providers would survive.
* Four methods give the kinds there are: complete in the host; both functions dropped but the type kept, for an itab that
  names the method; all but `tfn` dropped; `tfn` alone dropped, with an entry in an itab. The linker drops the parts of a
  method one by one, by what else refers to them. Two types let the revert loops do one type while the other is still patched.
* `MaxRelocs` bounds how often a module's relocations name shared types. Two are needed for the same type twice or two
  types, which is what changes the recorded offsets.
* `patch_in_turn` has one operation at a time, for which all but `HostMethodsUntouched` are claimed; that one is proved
  for any interleaving.
* In `lifecycle_interleaved` two operations overlap at most: a lock and two walks that meet need two; the third module
  is a neighbour in the list.
* The itab table has twice the entries ever used together; what matters is that all pairs share a probe sequence.
* `objects`: a body and a wrapper in one object or two, in either order and of either ABI, with references to
  both, to a type, to a name of another package by index; functions that the object holds for another package (an
  instance of a generic function, its dictionary, an embedded method). C objects have two functions, data, a section
  symbol, an undefined name and one or two relocations: for arm64 at each instruction, the first of a function too, for
  amd64 at the second byte (the first is an opcode), in the middle and at the last.
* `binding`: the host has or has not each of a type, its pointer, its slice, an itab, a function, variables, an init
  task; one package may be skipped. Local types, structs with tags and unexported fields, interfaces and variadic
  functions have hosts and modules of their own, as have functions with shared tables, inlined functions and stack objects.
  A module brings the init task of `main`, and one has variables of assembly and of C, which have no type.
  `RegTypes` is called once, before the linker starts.
* `code_layout`: buckets of 128 bytes with 4 subbuckets of 4 values stand for 4096, 16 and 256. Relocations lie where
  the short jump to the epilogue just fits and just does not (offsets 17 to 24 in functions of 128 and 144 bytes),
  close to it, and, for `R_CALL`, where its epilogue is and is not too short (offsets 4, 5, 16 and 17). Programs without
  epilogues, with instructions that are misread or refused, and with addresses written to the start of a function are
  among them.
* `jit_unit`: the depth of recursion is limited to 2 instead of 150 and there are 2 slots, so that a chain of packages
  comes to the limit and a round of three packages has to wait. Escaped packages are among those asked for by a symbol, by
  the type of a variable and by a type that is forced. All four kinds of calls are there, with TmpDir there and missing.
* `mappings`: the loaders have a page of code and one of data each; gaps before and after the reach of 10 pages, one
  page of other code at a time, and one refusal by the kernel.
* `conversion`: four objects, every way for them to refer to each other, which gives sharing, interior pointers and
  cycles; six fresh objects; a stack of 12 calls, more than a value without a cycle can need.
* In `patchgc_shared_goroot` a third process can find the compiler that the second one installs while the first is
  still copying, and a second call meets what the first has left behind. The processes are symmetric. One fault suffices
  for every state a process can die in; the theorems cover any number.
* `CHECK_DEADLOCK FALSE` is set where the system stops for good: each module is loaded once (`patch_*`), calls are
  bounded (`patchgc_shared_goroot`), an archive is read, a module bound, a value converted or a build returned.
  In the other runs deadlock is checked: no lock is ever left behind.

### 3.2 Fairness

* `FairSpec` of `ModuleLifecycle` assumes weak fairness per goroutine while it is inside Load or Unload, and nothing of
  the client. Go schedules runnable goroutines preemptively. Weak fairness is enough though the lock is contended: each
  module is loaded and unloaded at most once, so a goroutine is overtaken a bounded number of times; `sync.Mutex` also
  hands over to a waiter that starves.
* `UnitSpec` assumes it of the goroutine that calls, and that some worker of a round goes on as long as one can. That go
  commands end, with or without an error, is part of this. Nothing is assumed of other calls that make or
  remove directories.
* `ValueConversion` assumes that the walk, one goroutine, goes on.

### 3.3 What the violations show

* **Dangling text** (`itab.go:303`). With modules m1, m2 loaded in this order, unloading m2 finds m1 as provider and
  "re-adjusts" the itabs from a method table that still holds m2's offsets. Table and itabs then point into unmapped
  text, until m1 is unloaded too and resets them. Oldest first is safe only because the newer module has overwritten
  the slots. The same lookup makes `mtyp` lose its typemap entry when the *older* one of two modules is unloaded
  (`itab.go:374` deletes the entry the slot holds now, the newer module's) and, with three modules, in every order;
  `MtypResolves` is claimed for the remaining case.
* **Failed Load** (`ld.go:1290`). The error path unmaps the memory and does not undo `addModule`, `additabs`,
  `modulesinit` or the patches already made.

### 3.4 What the properties leave out

The models show more that no run is kept for: no document promises otherwise or, for kept functions and padding, a property
that holds states exactly what becomes of the promise. Where it bounds what a property can claim, the property says so.

*Patching and lifecycle.* A method of which the host kept `ifn` or `tfn` is patched for the sake of the part that is
missing, and both are recorded. Whoever unloads last writes -1 to both, and `unreachableMethod` to the itabs
(`itab.go:349`): the host has then lost a function it came with, whatever `itab.go:121` says of cleaning up.
`HostTableRestored` says exactly which functions are lost. A module that names a type twice gives its method types a
second offset and forgets the first, whose typemap entry outlives the module (`itab.go:181`, `379`). Two overlapping Unloads each take the other for
the remaining provider, and neither resets the slot. Of two overlapping operations the one whose `modulesinit` stores
last may have walked the list before the other's module was appended (`ld.go:909`). Freed itab entries hide later ones
in any order but newest first, after which the runtime makes a second itab for the pair. Load leaves the code segment
mapped when the data segment cannot be (`ld.go:1255`).

*Objects.* Of two static C functions of one name the later one stays. An ELF relocation goes to the first symbol of any
section that covers its offset, and is dropped if that is data; so are relocations against section symbols and, in
Mach-O, those at the first byte of a symbol. Sizes of PE symbols come from a list of values that the comment
(`obj/pe_relocs.1.19.go:157`) calls sorted and that is not. The first non-package symbol of an object keeps the object's
package (`obj/readobj.1.16.go:290`, `>` for `>=`), and a symbol first reached from an instance of another package is
given that package. `typePkgPath` takes `[]a/b` for a package when it meets the type of a slice of `a/b.T`.

*Layout.* `addSymbol` says that it pads pessimistically (`ld.go:289`), but three kinds of stubs are longer than what is
reserved, always, as `StubsIntact` says (`TooShort`): that of an `R_CALL` in the first 17 bytes of a function whose
epilogue is 124 bytes away or more, which gets 16 bytes and is given 19, since the estimate is made with the offset of an epilogue that
is set only two lines later (`ld.go:375`), so that the end of its address lies in the next epilogue or the next function and
whichever is written last spoils the other; that of a CALL behind a byte E9, for which `addSymbol` reserves the 14 bytes of a jump (`ld.go:328`) and `relocatePCREL` writes 16
or 19 (`relocate.go:218`), and the address of a GOT entry without epilogues, which `relocateGOTPCREL` writes to the start
of the function (`relocate.go:171`) and `relocateADRP` too if the instruction is the first. Of what becomes of these
`StubsIntact` claims nothing, nor of a stub that one of them was written across; of every other stub it claims all. It also excepts the
instruction of a CMPL that was too far once and is relocated again, which compares with a nop then (`relocate.go:181`,
194, 213), and CALLs and JMPs behind a byte that makes them look like another instruction (`FF E8`, `8D E8`, `80 E9`).
Symbols of size zero share offset 0 of the data, and `sortSym` keeps one symbol per offset.

*Binding.* `symbolIsVariant` overwrites the variant with a struct field's number taken out (`type.go:245`) by one
without the tag (246); names made up for interfaces leave out the package of unexported methods; of two local types of
one name only the first is registered with what it is built of. Each makes Load panic with "that wasn't registered by
goloader" (`ld.go:965`); `NamesFail` lists the three. Whether a package is skipped is asked by the beginning of a
name (`ld.go:646`), by the symbol's package (`relocate.go:357`) and by the package of the host's type (`ld.go:974`), the
last after the host's type has been recorded for the exports. Code of `main` uses the host's variables but exports the
module's. Host types that the walk from the type links does not reach are never compared. A module that has its own
copy of a variable, of a package that the host has without an init task left, never initialises it. An itab is the
host's if the host has one of that name: a module that brings another version of a type without skipping its package gets
the itab of the host's type, and itabs of types without names are not found to be of a package that is skipped, as their
names begin otherwise. `ItabsAgree` claims the host's itabs only for types that the host has once.

*Builds.* Paths that are escaped in the names of symbols (`example.com/a.b`'s is `example.com/a%2eb`) are looked up as they
are there, in tables keyed by path (`ld.go:1165`, `readobj.go:140`): a type of such a package named by index is never
found, and a package read already is asked for again, so that `runtime` never is in its place; `Obtainable` excepts
them. An init task that the host's table has for a package hides the module's own even if the host's package had none
to run. A TmpDir that `BuildGoText` made stays (`jit/jit.go:592`), and so does a package's build directory whose absolute path
could not be found (`jit/jit.go:771`); `NothingOutlivesTheCall` is about the directory a call built in. Types of the host reached only through a pointer type, or named by code alone, are not rebuilt (`ld.go:1127`,
`readobj.go:329-348`). Imports through packages of the host do not order init functions (`recurseAutolibs`). `GoGet` with
verbose output sets `Stdout` before `CombinedOutput`, which then always fails (`jit/go_cmd.go:144-153`).

*Conversion.* A pointer to the first field of a struct, met before one to the struct, hides the rest of it, since
`cycleDetector` is keyed by address; cycles through maps and slices alone exhaust the stack; a shared closure fails at
its second visit; nil pointers in maps, and functions, maps and scalars in boxed structs, panic; itabs that the runtime
made are not replaced. A conversion that fails has converted part of the value.

## 4. Proofs

Every theorem is for all values of the constants that meet the modules' named assumptions, and each inductive invariant
below was first checked by TLC on the run of its component. Thirty-two of the runs' properties are theorems.

**`TypeMethodPatchProofs`**, for every set of modules and types, every number of methods and relocations, every choice of
what the host's linker dropped, failing Loads included:

* `TypeCorrect`, and `CompleteMethodsUntouched`: `Spec => []HostMethodsUntouched`, in any interleaving. The
  invariant is not inductive: a step could reset a complete method if it were recorded as patched, or patch it if it
  were marked missing. `UntouchedInv` adds that marks and records (`missing`, `patchedIfn`, `patchedTfn`,
  `patchedMtyp`) only ever name dead slots, and then each action preserves it conjunct by conjunct.
* With one operation at a time (`Sequential`), `LastPatcherReverts`: `JitTextNeedsPatcher`. At a settled moment,
  records are all or nothing per type (`AllOrNothing`): a
  module that has patched one dead method of a type has recorded all of them, in both records, because the method loop
  has been through all of them (`LoopCovered`). So the lookup by type, which is all the code does, is as good as one by
  slot. While one module reverts, for each type no longer in `todo` either another provider is still in the map or no
  JIT text is left in the columns treated so far (`RevertProgress`). `SeqInv` is the conjunction. Without `Sequential`
  the statement is false (see 3.4).
* `LoadedStayReachable`: `LoadedMethodsReachable`; `ItabsFollowMethods`: `ItabMatchesMethod`; `UnloadRestoresHost`:
  `HostTableRestored`. `TablesInv` follows the columns through a Load and an Unload: an itab entry is its `ifn` but
  for methods whose module has yet to adjust the itabs (`ItabsFollow`), host text is only where the host has any, and what
  the third loop has been through has no offset of the typemap left (`MtypProgress`). `UnloadRestoresHost` holds
  for every host. It needs `ResetInv` too: what no module has patched is as the linker left it (`Unpatched`), what only
  modules no longer loaded have patched is missing (`Abandoned`), and how far an Unload has come with that
  (`ResetProgress`). A function that the host kept beside a dropped part is among what is missing then (3.4).
* `OrderlyUnloads`: `OrderedUnloadsAreSafe`. Oldest first, any number of modules: the text a slot refers to is always the newest
  patcher's (`NewestText` in `TextInv`), which is the last to leave. Newest of two first: the offset in a slot is that
  of the module which leaves first, and each offset is given out once (`Offsets`, `Entries` in `MtypInv`).

**`ModuleLifecycleProofs`**, for every set of modules, any set of failing stages and any number of operations at a time:

* `ImplementsRegistry`: `Spec => RegistrySpec`, the refinement. What is on the list is `Reach`, the least set that has the first
  module and is closed under `next`; its closure is all the induction that walking a list needs. `ListInv`: the lock has
  one holder, `Reach` is the map but for the module whose holder is between the two, `next` is injective on `Reach` and
  one node ends it, and a walk has not passed the place it looks for (`AppendWalk`, `UnlinkWalk`).
* `RegistersAndForgets`: `RegisteredThenForgotten`, from `ListInv` and `MemoryInv`, which says what a module has mapped
  and registered at each stage.
* `RuntimeFollows`: `RuntimeKnowsLoaded`, with one operation at a time: what a walk of `modulesinit` has seen is closed
  but for the node it is at (`ScanWalk`), so that what it stores at its end is the whole list.

**`ItabTableProofs`**, for every hash function, size of the table and set of itabs:

* `UnloadedLeavesNoItab`: `NoItabOfUnloaded`. `removeitabs` sees every position, whatever hides it from a lookup.
* `LookupsSucceed`: `EveryItabFound`. The host's itabs are never moved and nothing on their probe path is ever freed
  (`HostKept`). Newest first, on the probe path of every entry all are older (`OldPath`), so that what is freed was behind
  or gone before. The table of the host is the result of a recursion over a sequence; see below.

**`MapManagerProofs`**, for every number of loaders and pages, any sizes of the segments, any host pages and any
number of refusals and pages of other code:

* `MappingsAreKept`: `HeldStaysMapped`; `ActiveIsExact`: `ActiveIsHeld`;
  `ModulesAreNear`: what a loaded module has lies within reach; `OnlyTheUnseenIsReplaced`: `ReplacesOnlyUnseen`.
* They rest on one inductive invariant. `LockInv`: each lock is held by the loader that is between taking and freeing
  it. `AddrInv`: which addresses a loader has follows from its place in Load and Unload. `SeenInv`: from the reading of
  the map to the mapping, pages that were free have not become goloader's, for the lock keeps other loaders out, so
  that a fixed mapping can only hit what other code has mapped since. `KeyInv` and `ActiveInv`: the entries of
  `mapper.active` are those of the mappings entered, and no two of them end with the same byte; a range
  may be mapped anew as soon as it is unmapped, but its new entry is made under `mapperLock`, which is held from the
  `munmap` to the delete. `ReachInv`: what Load keeps has passed the test of distance.
* `GivesUpForAReason`: `GivesUpOnlyWithoutRoom`. A run of free pages lies between two neighbours among the pages taken
  (`Neighbours`), hence in one of the gaps, and two pages are enough for what rounding may lose (`RoomIsFound`).
  `SearchInv`: candidates are tried in the order of their addresses, so that if the lowest is too far, all are (`TooFar`).

**`PatchGCProofs`**, for every set of processes and every number of calls and faults:

* `NoSecondSnippet`: `SnippetOnce`. `ReadInv` says that what a process has read of a source is still true, except that
  unpatched may have become torn or patched. So `WriteFlag` and `WriteObj` write one snippet, even over that of another.
* `NoStaleCompiler`: from `ReadInv`, a process that builds has found both files patched or has patched them itself, and
  a file once patched is patched or torn ever after; a torn one makes the build fail (`BuiltInv`).
* `RenameIsALock`: `InstallInv` says there is no compiler between the moves of a process and a torn one while it copies.
  `BackUp` needs one and takes the open file away from whoever copies into it, so the next process takes over alone.
* `OriginalKept`, `CacheCorrect`, `CanRetry`, and with them `CanRepeat`: `RepeatedCallsAreSafe`. `AloneInv`
  follows the one call that is made. Until `BackUp` the original is in its place and nobody has cached anything, afterwards
  it is in `.bak`, and what ends the call is patched.
* `SharedGoroot`: `SuccessMeansPatched`. Without faults a torn file or a missing compiler has a process at it
  (`Attended`), and that process is on its way: it has read `obj.go` whole, and whoever read it torn does not find `flag.go`
  unpatched later (`ReadsInOrder`). So as long as somebody has called, somebody is on its way or has succeeded.

**`LoadableUnitProofs`**, for every set of well formed programs (`WellFormed`: names that are referred to are names of the
program), every kind of call, any limit of the recursion and any number of slots:

* `ClosureIsClosed`, `ClosureIsLeast`: as many rounds as there are nodes give the least closed set, because each round but
  the last ones adds a node. With them everything that is said of reachable symbols needs no walk.
* `AnswersAreRight`: `AnswerIsRight`. `AskedInv`: the last reading has asked for all that is missing. If nothing is
  missing, what main needs is among what is reachable and defined or known (`NothingMissing`), for this set is closed;
  if something is and no package can be built for it, neither that package nor the runtime nor `runtime/internal` could have
  given it, since what main depends on and was not read can still be built (`PathsInv`).
* `TypesAreBuilt`: `HostTypesRebuilt`, from the same, for whichever set of types the walk of `collectReachableTypes` found.
* `NothingIsLeft`: `NothingOutlivesTheCall`, from `BuildInv`: goroutines build only while the caller starts them or waits, and a
  stage that has been passed has made its directory and deferred its removal (`StageInv`, `PassingDefers`).
* `ImportsRunFirst`: `ImportsFirst`, for imports without cycles, which `go build` refuses (`ImportsAssumption`, a height that
  falls along imports). `AutolibIsOrdered` is about the recursion of `Autolib`, written with a stack: what is still to
  be left is higher than all above it, so that a package met again has been left already, and what it imports is
  left or above it (`Pending`). Each step uses up one of those that `StepsOf` counts (`FewerSteps`), so the walk ends. Then main and
  all it leads to are in the list, once and after their imports. Whatever the sort leaves among equals has every package
  (`OrdersOfLoad`, from a pigeonhole), and a package that is to run comes before nothing it imports (`Runnable`).

**`CodeLayoutProofs`**, for every set of well formed programs, any number of functions and relocations, in any order and near or far
at will, and every size of bucket:

* `RuntimeFindsFunctions`: `FindFuncFinds`. `TabOK` is the invariant of the loop over functions: there is a
  bucket for each that the code reaches so far, and each subbucket, taken modulo 256 or not, names a function that starts
  no later than the subbucket does. So the runtime's scan starts at or before the function and stops at it, because entries ascend
  (`Ordered`). That addresses ascend is in `LayoutInv`, with `Behind`: no function starts before the end of the former.
* `EpiloguesUnwind`: `PcValuesCover`. `Patching`: extending a table by a pair, or making its last pair longer, changes no value it
  had, and gives all up to its new end the value at the relocation. `Covers` is the invariant of the loop over relocations; each
  epilogue begins behind the former one (`LengthsGrow`).
* `StubsStayIntact`: `StubsIntact`, for all programs. `StubFits` compares the estimate with what is written, kind by
  kind: it is enough but for `TooShort`, so that the three cases of 3.4 are all there are; for these it never is (`StubSticksOut`). `EpiloguesDisjoint`: epilogues of different relocations, of one
  function or two, do not meet, so neither clearing nor filling one reaches the stub of another (`StubSurvives`). `RelocInv`
  adds that a relocation applied again starts from the instruction kept at first, and that a near one has cleared its own stub.
* The recursive functions of the model (`Lengths`, `PatchAll`, `FindFuncTab`) are shown to have a solution first, see below.

**`SymbolBindingProofs`**, for every set of hosts and modules that meet the assumptions below, any number of types, symbols
and places, and every order in which the passes go through them:

* `PackagesStayWhole`: `PackagesAreWhole`; `ItabsStayInAgreement`: `ItabsAgree`. They rest on `BindingInv`. The table of addresses is
  true: each entry is the host's, of that name, or zero for the init task of a package the registration has met
  (`AddressesTrue`, `PackagesSeen` in `RegistryInv`). From `addSymbolMap` on, `symbolMap` is a function of the host and
  the module but for itabs, which come in as they are made (`TablesInv`); those made are listed, used by some place that has
  been filled in, and made twice only if skipped (`ItablinksInv`). What a place that has been filled in holds does not
  depend on when that was, except for itabs, which are own or the host's for reasons that stay (`Holds`); so the order of a Go map
  makes no difference where the properties say so.
* `TypesStayInAgreement`: `TypesAgree`. `WalkInv`: every type that the walk over the type links has met has an entry under its
  name, or the walk is still at it, or is at what it was built of; so once it is through, all that `buildModuleTypeHash`
  finds (`HashedIsLeast`: the least set closed under `elems`) is registered, by the same name if not by the same type
  (`AllAreRegistered`). If names do not fail, the entry is the type itself. `DedupedInv`: what has been replaced is recorded, under the type
  that equals it. A panic needs a type found by structure whose name leads to another entry (`PanicsForNames`).
* `PointersStayScanned`: `PointersAreScanned`. `LayoutInv`: symbols lie within their sections as far as those have grown, and those of
  one section behind each other, whatever order and recursion `addSymbol` follows. `TypedInv`: what is published has a type for
  every variable that code uses, for Load has failed otherwise. So no word is shared, sorting by offset
  loses no variable (`SortedAre`), and the mask of a section has the pointers of its own variables and no others (`MasksAre`).
* `TablesStayFound`: `TablesAreFound`. `CallsInv`: what is placed is being added by a call of `addSymbol`, or that call has
  gone through all its steps; so when all calls have returned everything has been noted. What each step has to have done is
  said of a function by the number of steps behind it (`Past`). `NotedInv`: the tables read are noted with offsets that stay,
  though a symbol without data may move to the start of its section later. `TreesInv`: an inline tree has a word of its own,
  since no symbol begins where the section ended then. `PcTablesInv`: pc-value tables lie behind each other, in pctab as far as it has
  grown. `FuncsInv`: the functions ascend, so the last one that begins at or before a pc is the one there. What the
  recursive functions for sums, the list of files and the concatenation of the units yield is proved first (`SumIs`,
  `FileTablesAre`, `FlattenedIs`).

Induction over data has no ready form here, because the library's induction theorems take an operator. Where it is needed it
is made from the well-foundedness of the natural numbers: a nonempty set of them has a least element
(`LeastNatural`), a set that has 0 and successors has a segment (`SegmentInduction`), and a recursion over a segment has a
solution (`SegmentRecursion`). Each use states the induction hypothesis as a set.

The assumptions of the binding say what the Go toolchain guarantees, TLC evaluates them for the instances of its run, and each is
named: `HostsAssumption` (a host has all types that its types are built of; the package of a function can be told from its
name; the name of an itab begins with the package of its type), `ModulesAssumption` (what a symbol refers to is in the module; an
itab refers to its type first; a skipped package is brought whole or not at all), `VariablesAssumption` (of
variables, those with pointers and no others are in data and bss, and pointers lie within them), `FunctionsAssumption`
(functions have code, a unit and the pc-value tables of sp, file and line; their other tables are data of the objects; open-coded
defers come with a call of `runtime.deferreturn`, which only the program has; what describes the pointers of stack objects is
data without a name that a program could share), and `NamesAssumption`: unless
names fail in one of the three ways of 3.4, the name made for a type of the host is that of the module's symbol for
the same type. The last is what the code takes for granted of `resolveFullyQualifiedSymbolName`. Its output is a string
computed by recursion over types; on the run TLC computes it and compares, and the theorem takes it from there.

Only model-checked:

* All liveness, which TLAPS does not prove under fairness.
* `FunctionsKept`, `ReferencesMet`, `CFunctionsWhole`: parsing is a fold over the entries of an archive, with names put
  together as strings; what is claimed is about the result of that recursion.
* `OnlyKnownRemains`, `FailsForAReason`: reachability in a heap that the walk rewrites while it copies maps and pointers.

## 5. What could come next

1. A proof of `OnlyKnownRemains` of `ValueConversion`.
2. `TypeMethodPatch` with `ModuleLifecycle`: the steps "dedup" and "revert" of the latter are the operations of the
   former; and tables of registered symbols that change while a module is built (`jit/jit.go:177`).

## 6. Not modelled

* **Unload hooks** (`unload/`). They delete a module's entries from private maps of the JSON encoder and of the protobuf
  registry. Which entries those are rests on the layout of private types of these libraries and on the addresses of
  their strings; neither is part of this repository. Reading them showed a deletion by index from the slice being
  ranged over (`unload/protobufunload/deregister.go:123`), a package descriptor deleted whole if one of its files is the
  module's, and counts and extension maps that are not adjusted.
* **reflectlite** (`reflectlite/`) is a fork of the standard library's `reflect`, the largest part of the sources;
  **objabi** holds the Go toolchain's constants, one file per version.
* **Page protection, text on darwin, library lookup** (`mprotect/`, `macho_darwin.go`, `libc/`): wrappers of system calls
  and of `dlsym`, and the editing of one executable's segment flags, without state of their own.
* **Process maps** (`mmap/vmmap/`): text parsing. `MapManager` takes a reading of the map as atomic and successful.
* **A failing mprotect between two fields of one method** (`itab.go:149-213`): a Load fails between two methods or after
  the last field of one, before which all three are written. The difference is a method of a failed Load that has a
  part of the patch instead of all of it.
* **The gap behind the topmost mapping** (`mmap/manager.go:40`), which the code ends at the largest address. No address in it is ever
  mapped: where the topmost mapping ends below 2^63 its size is negative as an `int` and it is not suitable, and where it ends
  above, the kernel refuses each address in it, and the search fails as it does without it.
* **Between `removeitabs` and `Munmap`** (`ld.go:1308`, `1314`): see 2.3.
* Of modelled parts: the differences between Go versions (the newest one is translated); TLS offsets
  (`register.go:158-233`, where `resolvedTlsG` is assigned to itself); GC programs; DWARF and line tables; encodings
  (varints, instruction immediates, names in hexadecimal, the escaped paths in names of types); receivers of method values, captured
  variables, channels, arrays and map keys in conversion; mappings on windows and darwin, and the second attempt on arm64.

## 7. Checking it

```
tlc -config patch_in_turn.cfg MCTypeMethodPatch.tla       # and the other configurations alike
tlapm TypeMethodPatchProofs.tla                           # and the other modules named ...Proofs alike
```

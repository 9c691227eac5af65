---------------------------- MODULE ModuleLifecycle ----------------------------
(***************************************************************************)
(* Load and Unload of CodeModules (ld.go) and the structures of the Go     *)
(* runtime they edit: the linked list of moduledata that starts at         *)
(* firstmoduledata, the slice of active modules that the garbage collector *)
(* and findfunc read, and the table of itabs.                              *)
(*                                                                         *)
(* One module stands for one CodeModule and for the goroutine that loads   *)
(* it and may later unload it.  The list is only written under             *)
(* modulesLock, one pointer at a time; runtime.modulesinit walks it        *)
(* without the lock and then stores what it saw as the active modules.     *)
(***************************************************************************)
EXTENDS Integers, FiniteSets

CONSTANTS
  Modules,     \* the CodeModules
  First,       \* firstmoduledata, the host's module
  Nil,         \* the nil pointer; also the owner of a free lock
  FailAt,      \* the stages of Load that may end in an error
  AtOnce       \* bound: how many Loads and Unloads the client may run at one time

ASSUME ConstantsAssumption ==
  /\ First \notin Modules /\ Nil \notin Modules /\ First # Nil
  /\ FailAt \subseteq {"mmapCode", "mmapData", "link", "dedup"}
  /\ AtOnce \subseteq Nat \ {0}
  /\ IsFiniteSet(Modules)

VARIABLES
  next,       \* the field next of every moduledata
  modules,    \* the map of loaded CodeModules
  lock,       \* who holds modulesLock
  code, data, \* modules whose code (data) segment is mapped
  itabs,      \* modules whose itabs are in the runtime's table
  active,     \* runtime.modulesSlice
  pc,         \* per module, where its Load or Unload is
  at, prev,   \* per module, the list node its walk has reached, and the one before
  seen,       \* per module, what its modulesinit has collected so far
  atOnce      \* how many Loads and Unloads this client runs at one time; chosen once

listVars == <<next, modules, lock>>
memVars == <<code, data>>
walkVars == <<at, prev, seen>>
vars == <<listVars, memVars, itabs, active, pc, walkVars, atOnce>>

Nodes == Modules \cup {First}
Settled == {"new", "loaded", "failed", "unloaded"}
PCs == Settled \cup {"mmapData", "link", "lockAdd", "append", "itabs", "scan", "dedup",
                     "revert", "removeItabs", "lockRemove", "unlink", "rescan", "munmap"}

TypeOK ==
  /\ next \in [Nodes -> Modules \cup {Nil}]
  /\ modules \subseteq Modules
  /\ lock \in Modules \cup {Nil}
  /\ code \subseteq Modules /\ data \subseteq Modules
  /\ itabs \subseteq Modules
  /\ active \subseteq Nodes
  /\ pc \in [Modules -> PCs]
  /\ at \in [Modules -> Nodes \cup {Nil}] /\ prev \in [Modules -> Nodes]
  /\ seen \in [Modules -> SUBSET Nodes]
  /\ atOnce \in AtOnce

Init ==
  /\ next = [n \in Nodes |-> Nil]
  /\ modules = {} /\ lock = Nil
  /\ code = {} /\ data = {} /\ itabs = {} /\ active = {First}
  /\ pc = [m \in Modules |-> "new"]
  /\ at = [m \in Modules |-> First] /\ prev = [m \in Modules |-> First]
  /\ seen = [m \in Modules |-> {}]
  /\ atOnce \in AtOnce

Goto(m, l) == pc' = [pc EXCEPT ![m] = l]

MayStart == Cardinality({n \in Modules : pc[n] \notin Settled}) < atOnce

(***************************************************************************)
(* Load                                                                    *)
(***************************************************************************)
MmapCode(m) ==
  /\ pc[m] = "new" /\ MayStart
  /\ \/ code' = code \cup {m} /\ Goto(m, "mmapData")
     \/ "mmapCode" \in FailAt /\ UNCHANGED code /\ Goto(m, "failed")
  /\ UNCHANGED <<listVars, data, itabs, active, walkVars>>

\* On an error Load returns at once: the code segment stays mapped.
MmapData(m) ==
  /\ pc[m] = "mmapData"
  /\ \/ data' = data \cup {m} /\ Goto(m, "link")
     \/ "mmapData" \in FailAt /\ UNCHANGED data /\ Goto(m, "failed")
  /\ UNCHANGED <<listVars, code, itabs, active, walkVars>>

\* addSymbolMap, relocate and the part of buildModule that fills the moduledata.
Link(m) ==
  /\ pc[m] = "link"
  /\ Goto(m, "lockAdd")
  /\ UNCHANGED <<listVars, memVars, itabs, active, walkVars>>

\* An error in one of the stages: Load unmaps both segments and returns.
FailLoad(m) ==
  /\ pc[m] \in FailAt \cap {"link", "dedup"}
  /\ code' = code \ {m} /\ data' = data \ {m}
  /\ Goto(m, "failed")
  /\ UNCHANGED <<listVars, itabs, active, walkVars>>

\* Mutant: addModule is called without modulesLock.
LockAdd_Unlocked(m) ==
  /\ pc[m] = "lockAdd"
  /\ lock' = lock
  /\ modules' = modules \cup {m}
  /\ at' = [at EXCEPT ![m] = First]
  /\ Goto(m, "append")
  /\ UNCHANGED <<next, memVars, itabs, active, prev, seen>>

\* addModule, from modulesLock.Lock() on.
LockAdd(m) ==
  /\ pc[m] = "lockAdd" /\ lock = Nil
  /\ lock' = m
  /\ modules' = modules \cup {m}
  /\ at' = [at EXCEPT ![m] = First]
  /\ Goto(m, "append")
  /\ UNCHANGED <<next, memVars, itabs, active, prev, seen>>

\* Mutant: the module is linked to the head of the list again.
Append_Circular(m) ==
  /\ pc[m] = "append"
  /\ IF next[at[m]] = Nil
     THEN /\ next' = [next EXCEPT ![at[m]] = m, ![m] = First]
          /\ lock' = Nil
          /\ Goto(m, "itabs")
          /\ UNCHANGED at
     ELSE /\ at' = [at EXCEPT ![m] = next[at[m]]]
          /\ UNCHANGED <<next, lock, pc>>
  /\ UNCHANGED <<modules, memVars, itabs, active, prev, seen>>

\* One iteration of addModule's loop; the last one links the module and
\* modulesLock is released.
Append(m) ==
  /\ pc[m] = "append"
  /\ IF next[at[m]] = Nil
     THEN /\ next' = [next EXCEPT ![at[m]] = m]
          /\ lock' = Nil
          /\ Goto(m, "itabs")
          /\ UNCHANGED at
     ELSE /\ at' = [at EXCEPT ![m] = next[at[m]]]
          /\ UNCHANGED <<next, lock, pc>>
  /\ UNCHANGED <<modules, memVars, itabs, active, prev, seen>>

StartScan(m) == at' = [at EXCEPT ![m] = First] /\ seen' = [seen EXCEPT ![m] = {}]

\* additabs; modulesinit begins.
AddItabs(m) ==
  /\ pc[m] = "itabs"
  /\ itabs' = itabs \cup {m}
  /\ StartScan(m)
  /\ Goto(m, "scan")
  /\ UNCHANGED <<listVars, memVars, active, prev>>

\* runtime.modulesinit visits one node of the list.
Scan(m) ==
  /\ pc[m] \in {"scan", "rescan"} /\ at[m] # Nil
  /\ seen' = [seen EXCEPT ![m] = @ \cup {at[m]}]
  /\ at' = [at EXCEPT ![m] = next[at[m]]]
  /\ UNCHANGED <<listVars, memVars, itabs, active, pc, prev>>

\* Mutant: Unload does not call modulesinit.
StoreActive_LoadOnly(m) ==
  /\ at[m] = Nil
  /\ \/ pc[m] = "scan" /\ active' = seen[m] /\ Goto(m, "dedup")
     \/ pc[m] = "rescan" /\ UNCHANGED active /\ Goto(m, "munmap")
  /\ UNCHANGED <<listVars, memVars, itabs, walkVars>>

\* runtime.modulesinit stores its result; a Load goes on to typelinksinit, an
\* Unload to Munmap.
StoreActive(m) ==
  /\ at[m] = Nil
  /\ \/ pc[m] = "scan" /\ Goto(m, "dedup")
     \/ pc[m] = "rescan" /\ Goto(m, "munmap")
  /\ active' = seen[m]
  /\ UNCHANGED <<listVars, memVars, itabs, walkVars>>

\* deduplicateTypeDescriptors, buildExports and doInitialize; Load returns.
Deduplicate(m) ==
  /\ pc[m] = "dedup"
  /\ Goto(m, "loaded")
  /\ UNCHANGED <<listVars, memVars, itabs, active, walkVars>>

(***************************************************************************)
(* Unload                                                                  *)
(***************************************************************************)
BeginUnload(m) ==
  /\ pc[m] = "loaded" /\ MayStart
  /\ Goto(m, "revert")
  /\ UNCHANGED <<listVars, memVars, itabs, active, walkVars>>

\* revertPatchedTypeMethods: takes modulesLock to read the map of modules.
Revert(m) ==
  /\ pc[m] = "revert" /\ lock = Nil
  /\ Goto(m, "removeItabs")
  /\ UNCHANGED <<listVars, memVars, itabs, active, walkVars>>

RemoveItabs(m) ==
  /\ pc[m] = "removeItabs"
  /\ itabs' = itabs \ {m}
  /\ Goto(m, "lockRemove")
  /\ UNCHANGED <<listVars, memVars, active, walkVars>>

\* removeModule, from modulesLock.Lock() on.
LockRemove(m) ==
  /\ pc[m] = "lockRemove" /\ lock = Nil
  /\ lock' = m
  /\ at' = [at EXCEPT ![m] = First] /\ prev' = [prev EXCEPT ![m] = First]
  /\ Goto(m, "unlink")
  /\ UNCHANGED <<next, modules, memVars, itabs, active, seen>>

\* Mutant: the module after the removed one is dropped as well.
Unlink_DropsTail(m) ==
  /\ pc[m] = "unlink"
  /\ IF at[m] \in {m, Nil}
     THEN /\ next' = [next EXCEPT ![prev[m]] = IF at[m] = m THEN Nil ELSE @]
          /\ modules' = modules \ {m}
          /\ lock' = Nil
          /\ StartScan(m)
          /\ Goto(m, "rescan")
          /\ UNCHANGED prev
     ELSE /\ prev' = [prev EXCEPT ![m] = at[m]]
          /\ at' = [at EXCEPT ![m] = next[at[m]]]
          /\ UNCHANGED <<listVars, pc, seen>>
  /\ UNCHANGED <<memVars, itabs, active>>

\* One iteration of removeModule's loop; after it the module is deleted from
\* the map, modulesLock is released and modulesinit begins.
Unlink(m) ==
  /\ pc[m] = "unlink"
  /\ IF at[m] \in {m, Nil}
     THEN /\ next' = [next EXCEPT ![prev[m]] = IF at[m] = m THEN next[m] ELSE @]
          /\ modules' = modules \ {m}
          /\ lock' = Nil
          /\ StartScan(m)
          /\ Goto(m, "rescan")
          /\ UNCHANGED prev
     ELSE /\ prev' = [prev EXCEPT ![m] = at[m]]
          /\ at' = [at EXCEPT ![m] = next[at[m]]]
          /\ UNCHANGED <<listVars, pc, seen>>
  /\ UNCHANGED <<memVars, itabs, active>>

MunmapModule(m) ==
  /\ pc[m] = "munmap"
  /\ code' = code \ {m} /\ data' = data \ {m}
  /\ Goto(m, "unloaded")
  /\ UNCHANGED <<listVars, itabs, active, walkVars>>

LoadStep(m) ==
  \/ MmapCode(m) \/ MmapData(m) \/ Link(m) \/ FailLoad(m)
  \/ LockAdd(m) \/ Append(m) \/ AddItabs(m) \/ Deduplicate(m)

UnloadStep(m) ==
  \/ BeginUnload(m) \/ Revert(m) \/ RemoveItabs(m)
  \/ LockRemove(m) \/ Unlink(m) \/ MunmapModule(m)

Step(m) == LoadStep(m) \/ UnloadStep(m) \/ Scan(m) \/ StoreActive(m)

\* Between operations the client may stay idle for ever.
Idle == (\A m \in Modules : pc[m] \in Settled) /\ UNCHANGED vars

Next == (UNCHANGED atOnce /\ \E m \in Modules : Step(m)) \/ Idle

Spec == Init /\ [][Next]_vars

\* A goroutine that is inside Load or Unload keeps being scheduled; the client
\* need not start anything.
Fairness == \A m \in Modules : WF_vars(pc[m] \notin Settled /\ Step(m) /\ UNCHANGED atOnce)

FairSpec == Spec /\ Fairness

(***************************************************************************)
(* Properties                                                              *)
(***************************************************************************)

Closed(S) == First \in S /\ \A n \in S : next[n] \in S \cup {Nil}

\* The nodes that a walk from firstmoduledata comes to: the least set that holds
\* it and the successor of each of its nodes.
Reach == {n \in Nodes : \A S \in SUBSET Nodes : Closed(S) => n \in S}

Listed == Reach \ {First}

Registered == {"itabs", "scan", "dedup", "loaded", "revert", "removeItabs", "lockRemove"}

\* While nobody holds modulesLock the linked list ends, and it holds exactly the
\* modules of the map: neither concurrent Loads nor a Load and an Unload of a
\* neighbour lose or duplicate a node (module.go:98-120, ld.go:904-906).
ListMatchesMap ==
  /\ \E n \in Reach : next[n] = Nil
  /\ lock = Nil => Listed = modules

\* From the end of addModule until Unload removes it, a module can be found by
\* walking the list, whatever is loaded and unloaded meanwhile: deduplication
\* depends on symbol resolution across all modules (ld.go:915-924).  Once Unload
\* has returned, neither the list, nor the map, nor the table of itabs refers to
\* it, and its memory is unmapped (ld.go:1303-1321).
RegisteredThenForgotten ==
  /\ ListMatchesMap
  /\ \A m \in Modules :
       /\ pc[m] \in Registered => m \in Listed
       /\ pc[m] = "unloaded" => m \notin Listed \cup modules \cup itabs \cup code \cup data

\* A client that runs one operation at a time, and no Load that has failed after
\* addModule.
Orderly == atOnce = 1 /\ \A m \in modules : pc[m] # "failed"

\* Then the garbage collector and findfunc only ever look at mapped modules, also
\* between modulesinit and Munmap (ld.go:1309-1315); and between operations the
\* runtime knows exactly the loaded modules, in each of the structures that Load and
\* Unload edit, with no other memory mapped but the code of a Load that could not
\* map its data (ld.go:1255-1258).
RuntimeKnowsLoaded ==
  Orderly =>
    /\ active \subseteq (code \cap data) \cup {First}
    /\ (\A m \in Modules : pc[m] \in Settled) =>
         LET loaded == {m \in Modules : pc[m] = "loaded"} IN
         /\ Listed = loaded /\ modules = loaded /\ itabs = loaded
         /\ active = loaded \cup {First}
         /\ data = loaded
         /\ loaded \subseteq code /\ \A m \in code \ loaded : pc[m] = "failed"

\* The map is a store of loaded CodeModules (itab.go:11): a module whose Load
\* has failed is not in it.
ModulesAreLoaded == \A m \in modules : pc[m] # "failed"

\* Whoever waits for modulesLock or walks the list gets to the end of it: a Load
\* that has its memory returns, with or without an error, and so does an Unload.
OperationsFinish == \A m \in Modules : pc[m] \notin Settled ~> pc[m] \in Settled

\* The list and the map together implement the atomic registry of modules.
Registry ==
  INSTANCE ModuleRegistry
  WITH present <- Listed,
       retired <- {m \in Modules : pc[m] \in {"rescan", "munmap", "unloaded"}}

RegistrySpec == Registry!Spec

================================================================================

---------------------------- MODULE TypeMethodPatch ----------------------------
(***************************************************************************)
(* The patching of the host binary's method tables (itab.go).              *)
(*                                                                         *)
(* The host's linker drops methods it believes unreachable: it leaves -1   *)
(* in the fields ifn, tfn and mtyp of the type's method table, and the     *)
(* address of unreachableMethod in the host's itabs.  When a module that   *)
(* carries its own copy of such a type is loaded, the copy is deduplicated *)
(* onto the host's type and the host's table is rewritten to point into    *)
(* the module's text (patchTypeMethodOffsets, patchTypeMethodTextPtrs);    *)
(* Unload takes the patches back, or leaves them to another module that    *)
(* patched the same type (revertPatchedTypeMethods).                       *)
(*                                                                         *)
(* A slot is a pair <<type, method index>>.  A text reference is the       *)
(* module whose text is pointed at, Host for the host's own text, or       *)
(* Missing for -1 (in an itab: unreachableMethod).  One module stands for  *)
(* one CodeModule, which is loaded once and unloaded at most once.         *)
(***************************************************************************)
EXTENDS Integers, FiniteSets

CONSTANTS
  Modules,       \* the CodeModules
  Types,         \* the host types that modules carry a copy of
  NMethods,      \* every type has the methods 1 .. NMethods
  HostIfn,       \* slots whose ifn function the host's linker kept
  HostTfn,       \* slots whose tfn function the host's linker kept
  HostMtyp,      \* slots whose method type the host's linker kept
  ItabSlots,     \* slots that an itab of the host has an entry for
  Host, Missing, \* text references that are not a module
  MaxRelocs,     \* bound: relocations of one module that name a shared type
  Sequential,    \* TRUE: one Load or Unload at a time; FALSE: any interleaving
  LoadFailures,  \* TRUE: deduplication may end in an error
  Orders         \* the orders in which a client may unload its modules

Slots == Types \X (1 .. NMethods)

\* The method types of an interface with an itab are kept, so an itab's slot
\* always has its mtyp in the host.
ASSUME ConstantsAssumption ==
  /\ NMethods \in Nat \ {0}
  /\ MaxRelocs \in Nat
  /\ HostIfn \subseteq Slots /\ HostTfn \subseteq Slots /\ HostMtyp \subseteq Slots
  /\ ItabSlots \subseteq HostMtyp
  /\ Host \notin Modules /\ Missing \notin Modules /\ Host # Missing
  /\ Sequential \in BOOLEAN /\ LoadFailures \in BOOLEAN
  /\ Orders \subseteq {"any", "oldestFirst", "newestFirst"}

VARIABLES
  ifn, tfn,      \* the text references in the host's method tables
  mtyp,          \* the type offsets there: HostOff, -1, or below -1 when patched
  fun,           \* the entries of the host's itabs
  typemap,       \* the negative entries of firstmoduledata.typemap: <<offset, module>>
  counter,       \* firstModuleTypemapCounter
  missing,       \* firstModuleMissingMethods
  modules,       \* the map of loaded CodeModules
  mapped,        \* modules whose code and data are mapped
  published,     \* modules whose patchedTypeMethods* fields have been assigned
  patchedIfn, patchedTfn, \* per module, the slots recorded as patched
  patchedMtyp,   \* per module, the offset given to each slot, 0 when none
  pc,            \* per module, where its Load or Unload is
  cursor,        \* per module, the slot the method loop of a relocation is at
  relocs,        \* per module, the relocations handled so far
  todo,          \* per module, the types a revert loop has yet to visit
  born, clock,   \* per module, when it was loaded, and the loads so far (history)
  order          \* the order in which the client unloads, chosen once

hostVars == <<ifn, tfn, mtyp, fun, typemap, counter, missing>>
patchVars == <<patchedIfn, patchedTfn, patchedMtyp>>
lifeVars == <<modules, mapped, published>>
vars == <<hostVars, patchVars, lifeVars, pc, cursor, relocs, todo, born, clock, order>>

HostOff == 1
NoSlot == <<>>
TextRef == Modules \cup {Host, Missing}
Settled == {"new", "loaded", "failed", "unloaded"}
PCs == Settled \cup {"dedup", "publish", "revertIfn", "revertTfn", "revertMtyp",
                     "reverted", "removed"}

\* The slots some part of which the host's linker dropped.
DeadSlots == {s \in Slots : s \notin HostIfn \cap HostTfn \cap HostMtyp}

FromHost(kept, s) == IF s \in kept THEN Host ELSE Missing
HostMtypOff(s) == IF s \in HostMtyp THEN HostOff ELSE -1

TypeOK ==
  /\ ifn \in [Slots -> TextRef] /\ tfn \in [Slots -> TextRef]
  /\ fun \in [ItabSlots -> TextRef]
  /\ mtyp \in [Slots -> Int]
  /\ counter \in Int /\ counter <= -1
  /\ typemap \subseteq (Int \X Modules)
  /\ missing \subseteq Slots
  /\ modules \subseteq Modules /\ mapped \subseteq Modules /\ published \subseteq Modules
  /\ patchedIfn \in [Modules -> SUBSET Slots]
  /\ patchedTfn \in [Modules -> SUBSET Slots]
  /\ patchedMtyp \in [Modules -> [Slots -> Int]]
  /\ pc \in [Modules -> PCs]
  /\ cursor \in [Modules -> Slots \cup {NoSlot}]
  /\ relocs \in [Modules -> Nat]
  /\ todo \in [Modules -> SUBSET Types]
  /\ born \in [Modules -> Nat] /\ clock \in Nat
  /\ order \in Orders

Init ==
  /\ ifn = [s \in Slots |-> FromHost(HostIfn, s)]
  /\ tfn = [s \in Slots |-> FromHost(HostTfn, s)]
  /\ mtyp = [s \in Slots |-> HostMtypOff(s)]
  /\ fun = [s \in ItabSlots |-> FromHost(HostIfn, s)]
  /\ typemap = {} /\ counter = -1 /\ missing = {}
  /\ modules = {} /\ mapped = {} /\ published = {}
  /\ patchedIfn = [m \in Modules |-> {}]
  /\ patchedTfn = [m \in Modules |-> {}]
  /\ patchedMtyp = [m \in Modules |-> [s \in Slots |-> 0]]
  /\ pc = [m \in Modules |-> "new"]
  /\ cursor = [m \in Modules |-> NoSlot]
  /\ relocs = [m \in Modules |-> 0]
  /\ todo = [m \in Modules |-> {}]
  /\ born = [m \in Modules |-> 0] /\ clock = 0
  /\ order \in Orders

Goto(m, l) == pc' = [pc EXCEPT ![m] = l]

MayStart == Sequential => \A n \in Modules : pc[n] \in Settled

(***************************************************************************)
(* Load: addModule under modulesLock, then deduplicateTypeDescriptors.     *)
(***************************************************************************)
StartDedup(m) ==
  /\ pc[m] = "new" /\ MayStart
  /\ modules' = modules \cup {m}
  /\ mapped' = mapped \cup {m}
  /\ clock' = clock + 1
  /\ born' = [born EXCEPT ![m] = clock + 1]
  /\ Goto(m, "dedup")
  /\ UNCHANGED <<hostVars, patchVars, published, cursor, relocs, todo, order>>

\* A relocation that names a type equal to a host type.
BeginReloc(m, t) ==
  /\ pc[m] = "dedup" /\ cursor[m] = NoSlot /\ relocs[m] < MaxRelocs
  /\ relocs' = [relocs EXCEPT ![m] = @ + 1]
  /\ cursor' = [cursor EXCEPT ![m] = <<t, 1>>]
  /\ UNCHANGED <<hostVars, patchVars, lifeVars, pc, todo, born, clock, order>>

\* Mutant: one missing method marks every method of the type.
NeedsPatch_WholeType(s) ==
  ifn[s] = Missing \/ tfn[s] = Missing \/ mtyp[s] = -1 \/ s[1] \in {u[1] : u \in missing}

NeedsPatch(s) == ifn[s] = Missing \/ tfn[s] = Missing \/ mtyp[s] = -1 \/ s \in missing

\* A module's own copy of a function is only used when the host has none: the
\* relocation of a symbol the host also has is bound to the host's address.
Provided(kept, m, s) == IF s \in kept THEN Host ELSE m

NextSlot(s) == IF s[2] < NMethods THEN <<s[1], s[2] + 1>> ELSE NoSlot

\* The new offset is recorded, and mapped to the module's method type.
PatchMtyp(m, s) ==
  IF mtyp[s] < 0
  THEN /\ counter' = counter - 1
       /\ typemap' = typemap \cup {<<counter - 1, m>>}
       /\ mtyp' = [mtyp EXCEPT ![s] = counter - 1]
       /\ patchedMtyp' = [patchedMtyp EXCEPT ![m][s] = counter - 1]
  ELSE UNCHANGED <<counter, typemap, mtyp, patchedMtyp>>

\* One iteration of the method loop of patchTypeMethodOffsets.
PatchMethod(m) ==
  LET s == cursor[m] IN
  /\ pc[m] = "dedup" /\ s # NoSlot
  /\ cursor' = [cursor EXCEPT ![m] = NextSlot(s)]
  /\ IF NeedsPatch(s)
     THEN /\ missing' = missing \cup {s}
          /\ ifn' = [ifn EXCEPT ![s] = Provided(HostIfn, m, s)]
          /\ tfn' = [tfn EXCEPT ![s] = Provided(HostTfn, m, s)]
          /\ patchedIfn' = [patchedIfn EXCEPT ![m] = @ \cup {s}]
          /\ patchedTfn' = [patchedTfn EXCEPT ![m] = @ \cup {s}]
          /\ PatchMtyp(m, s)
     ELSE UNCHANGED <<missing, ifn, tfn, mtyp, typemap, counter, patchVars>>
  /\ UNCHANGED <<fun, lifeVars, pc, relocs, todo, born, clock, order>>

\* Mutant: only an entry that is still unreachable is set.
Adjusted_OnlyUnreachable(entries, fn, S) ==
  [s \in ItabSlots |-> IF s \in S /\ entries[s] = Missing THEN fn[s] ELSE entries[s]]

\* adjustMethods: an entry of the interface is matched by name and by method
\* type, and is set to what the method table's ifn says now.
Adjusted(entries, fn, S) ==
  [s \in ItabSlots |-> IF s \in S /\ mtyp[s] = HostOff THEN fn[s] ELSE entries[s]]

\* The module's patchedTypeMethods* fields are assigned once every relocation
\* has been handled, without a lock.
Publish(m) ==
  /\ pc[m] = "dedup" /\ cursor[m] = NoSlot
  /\ published' = published \cup {m}
  /\ Goto(m, "publish")
  /\ UNCHANGED <<hostVars, patchVars, modules, mapped, cursor, relocs, todo, born, clock, order>>

\* patchTypeMethodTextPtrs; Load then returns the module.
PatchItabs(m) ==
  /\ pc[m] = "publish"
  /\ fun' = Adjusted(fun, ifn, patchedIfn[m] \cup patchedTfn[m])
  /\ Goto(m, "loaded")
  /\ UNCHANGED <<ifn, tfn, mtyp, typemap, counter, missing, patchVars, lifeVars,
                 cursor, relocs, todo, born, clock, order>>

\* An error of a relocation, or of mprotect: Load unmaps the module and returns,
\* and neither removes the module nor takes its patches back.
FailLoad(m) ==
  /\ LoadFailures
  /\ pc[m] \in {"dedup", "publish"}
  /\ mapped' = mapped \ {m}
  /\ cursor' = [cursor EXCEPT ![m] = NoSlot]
  /\ Goto(m, "failed")
  /\ UNCHANGED <<hostVars, patchVars, modules, published, relocs, todo, born, clock, order>>

(***************************************************************************)
(* Unload: the three loops of revertPatchedTypeMethods, then removal.      *)
(***************************************************************************)
InTurn(m) ==
  /\ order = "oldestFirst" =>
       \A n \in Modules : pc[n] = "loaded" => born[m] <= born[n]
  /\ order = "newestFirst" =>
       \A n \in Modules : pc[n] = "loaded" => born[n] <= born[m]

OfType(S, t) == {s \in S : s[1] = t}
TypesOf(S) == {s[1] : s \in S}
MtypSlots(m) == {s \in Slots : patchedMtyp[m][s] # 0}

\* Mutant: a module counts as another provider for itself.
Others_Self(m, t) ==
  {n \in modules \cap published :
     t \in TypesOf(patchedIfn[n] \cup patchedTfn[n] \cup MtypSlots(n))}

\* Mutant: other modules that patched the type are not looked for.
Others_None(m, t) == {}

\* getOtherPatchedMethodsForType
Others(m, t) ==
  {n \in (modules \cap published) \ {m} :
     t \in TypesOf(patchedIfn[n] \cup patchedTfn[n] \cup MtypSlots(n))}

BeginUnload(m) ==
  /\ pc[m] = "loaded" /\ MayStart /\ InTurn(m)
  /\ todo' = [todo EXCEPT ![m] = TypesOf(patchedIfn[m])]
  /\ Goto(m, "revertIfn")
  /\ UNCHANGED <<hostVars, patchVars, lifeVars, cursor, relocs, born, clock, order>>

Cleared(table, S) == [s \in Slots |-> IF s \in S THEN Missing ELSE table[s]]

\* With another module at hand the itabs are set from the method table as it
\* is; the method table itself is not rewritten.
Reverted(table, m, t, mine) ==
  IF Others(m, t) = {} THEN Cleared(table, OfType(mine, t)) ELSE table

RevertItabs(m, t, mine) ==
  \/ \E o \in Others(m, t) :
       fun' = Adjusted(fun, ifn', OfType(patchedIfn[o] \cup patchedTfn[o], t))
  \/ /\ Others(m, t) = {}
     /\ fun' = Adjusted(fun, ifn', OfType(mine, t))

RevertIfn(m, t) ==
  /\ pc[m] = "revertIfn" /\ t \in todo[m]
  /\ ifn' = Reverted(ifn, m, t, patchedIfn[m])
  /\ RevertItabs(m, t, patchedIfn[m])
  /\ todo' = [todo EXCEPT ![m] = @ \ {t}]
  /\ UNCHANGED <<tfn, mtyp, typemap, counter, missing, patchVars, lifeVars, pc,
                 cursor, relocs, born, clock, order>>

RevertTfn(m, t) ==
  /\ pc[m] = "revertTfn" /\ t \in todo[m]
  /\ ifn' = ifn
  /\ tfn' = Reverted(tfn, m, t, patchedTfn[m])
  /\ RevertItabs(m, t, patchedTfn[m])
  /\ todo' = [todo EXCEPT ![m] = @ \ {t}]
  /\ UNCHANGED <<mtyp, typemap, counter, missing, patchVars, lifeVars, pc,
                 cursor, relocs, born, clock, order>>

\* Mutant: the offset is replaced first, so the entry deleted is the new one.
RevertMtyp_DeletesNew(m, t) ==
  LET mine == OfType(MtypSlots(m), t) IN
  /\ pc[m] = "revertMtyp" /\ t \in todo[m]
  /\ \/ \E o \in Others(m, t) :
          LET S == mine \cap MtypSlots(o) IN
          /\ typemap' = {e \in typemap : \A s \in S : e[1] # patchedMtyp[o][s]}
          /\ mtyp' = [s \in Slots |-> IF s \in S THEN patchedMtyp[o][s] ELSE mtyp[s]]
     \/ /\ Others(m, t) = {}
        /\ LET S == {s \in mine : mtyp[s] < -1} IN
           /\ typemap' = {e \in typemap : \A s \in S : e[1] # mtyp[s]}
           /\ mtyp' = [s \in Slots |-> IF s \in S THEN -1 ELSE mtyp[s]]
  /\ todo' = [todo EXCEPT ![m] = @ \ {t}]
  /\ UNCHANGED <<ifn, tfn, fun, counter, missing, patchVars, lifeVars, pc,
                 cursor, relocs, born, clock, order>>

\* The entry deleted is the one the slot refers to now.
RevertMtyp(m, t) ==
  LET mine == OfType(MtypSlots(m), t) IN
  /\ pc[m] = "revertMtyp" /\ t \in todo[m]
  /\ \/ \E o \in Others(m, t) :
          LET S == mine \cap MtypSlots(o) IN
          /\ typemap' = {e \in typemap : \A s \in S : e[1] # mtyp[s]}
          /\ mtyp' = [s \in Slots |-> IF s \in S THEN patchedMtyp[o][s] ELSE mtyp[s]]
     \/ /\ Others(m, t) = {}
        /\ LET S == {s \in mine : mtyp[s] < -1} IN
           /\ typemap' = {e \in typemap : \A s \in S : e[1] # mtyp[s]}
           /\ mtyp' = [s \in Slots |-> IF s \in S THEN -1 ELSE mtyp[s]]
  /\ todo' = [todo EXCEPT ![m] = @ \ {t}]
  /\ UNCHANGED <<ifn, tfn, fun, counter, missing, patchVars, lifeVars, pc,
                 cursor, relocs, born, clock, order>>

\* Mutant: the loop over the tfn patches is left out.
NextLoop_SkipsTfn(m) ==
  /\ todo[m] = {}
  /\ \/ /\ pc[m] = "revertIfn" /\ Goto(m, "revertMtyp")
        /\ todo' = [todo EXCEPT ![m] = TypesOf(MtypSlots(m))]
     \/ /\ pc[m] = "revertMtyp" /\ Goto(m, "reverted")
        /\ UNCHANGED todo
  /\ UNCHANGED <<hostVars, patchVars, lifeVars, cursor, relocs, born, clock, order>>

\* The end of one revert loop is the start of the next.
NextLoop(m) ==
  /\ todo[m] = {}
  /\ \/ /\ pc[m] = "revertIfn" /\ Goto(m, "revertTfn")
        /\ todo' = [todo EXCEPT ![m] = TypesOf(patchedTfn[m])]
     \/ /\ pc[m] = "revertTfn" /\ Goto(m, "revertMtyp")
        /\ todo' = [todo EXCEPT ![m] = TypesOf(MtypSlots(m))]
     \/ /\ pc[m] = "revertMtyp" /\ Goto(m, "reverted")
        /\ UNCHANGED todo
  /\ UNCHANGED <<hostVars, patchVars, lifeVars, cursor, relocs, born, clock, order>>

\* removeModule under modulesLock
RemoveModule(m) ==
  /\ pc[m] = "reverted"
  /\ modules' = modules \ {m}
  /\ Goto(m, "removed")
  /\ UNCHANGED <<hostVars, patchVars, mapped, published, cursor, relocs, todo, born, clock, order>>

UnmapModule(m) ==
  /\ pc[m] = "removed"
  /\ mapped' = mapped \ {m}
  /\ Goto(m, "unloaded")
  /\ UNCHANGED <<hostVars, patchVars, modules, published, cursor, relocs, todo, born, clock, order>>

LoadStep(m) ==
  \/ StartDedup(m) \/ \E t \in Types : BeginReloc(m, t)
  \/ PatchMethod(m) \/ Publish(m) \/ PatchItabs(m) \/ FailLoad(m)

UnloadStep(m) ==
  \/ BeginUnload(m)
  \/ \E t \in Types : RevertIfn(m, t) \/ RevertTfn(m, t) \/ RevertMtyp(m, t)
  \/ NextLoop(m) \/ RemoveModule(m) \/ UnmapModule(m)

Next == \E m \in Modules : LoadStep(m) \/ UnloadStep(m)

Spec == Init /\ [][Next]_vars

(***************************************************************************)
(* Properties                                                              *)
(***************************************************************************)

\* What the host's linker kept complete is never rewritten: only methods with a
\* missing part are patched or reset, whatever modules are loaded, fail to load
\* or are unloaded, and however these interleave (itab.go:135, 310, 340, 380).
HostMethodsUntouched ==
  \A s \in Slots \ DeadSlots :
    /\ ifn[s] = Host /\ tfn[s] = Host /\ mtyp[s] = HostOff
    /\ s \in ItabSlots => fun[s] = Host

\* The method tables and the itabs of the host refer to JIT text only while some
\* module that recorded a patch of that method is in the map of loaded modules:
\* whoever leaves last resets the method to -1 (itab.go:308-326, 338-355).
JitTextNeedsPatcher ==
  \A s \in Slots :
    \/ ifn[s] \in Modules
    \/ tfn[s] \in Modules
    \/ s \in ItabSlots /\ fun[s] \in Modules
    => \E m \in modules : s \in patchedIfn[m] \cap patchedTfn[m]

\* A loaded module's patches are never reset by the unloading of another one: no
\* method it patched goes back to unreachable while it is loaded (itab.go:14-16).
LoadedMethodsReachable ==
  \A m \in Modules, s \in Slots :
    pc[m] = "loaded" /\ s \in patchedIfn[m] \cup patchedTfn[m] =>
      /\ ifn[s] # Missing /\ tfn[s] # Missing
      /\ s \in ItabSlots => fun[s] # Missing

\* Between operations an itab calls the very function that the method table
\* names: loads and unloads adjust both or neither (itab.go:257-292, 303-324). A
\* Load that fails leaves the method tables patched, and its itabs perhaps not.
ItabMatchesMethod ==
  (\A m \in Modules : pc[m] \in Settled) =>
    \A s \in ItabSlots :
      fun[s] = ifn[s] \/ \E m \in Modules : pc[m] = "failed" /\ s \in patchedIfn[m]

\* Neither a method table nor an itab of the host points into the text of a
\* module that has been unmapped (itab.go:14-16: another module's patches are
\* applied when one is unloaded).
NoDanglingText ==
  \A s \in Slots :
    /\ ifn[s] \in Modules => ifn[s] \in mapped
    /\ tfn[s] \in Modules => tfn[s] \in mapped
    /\ s \in ItabSlots /\ fun[s] \in Modules => fun[s] \in mapped

\* A client that always unloads the module it loaded first gets what itab.go:14-16
\* promises, for any number of modules, none of which failed to load: the later
\* ones have overwritten its patches.
NoDanglingOldestFirst ==
  order = "oldestFirst" /\ (\A m \in Modules : pc[m] # "failed") => NoDanglingText

\* A patched method type offset can be resolved: the typemap maps it to a type
\* that lives in a mapped module (itab.go:191-208, 363-376). It is only claimed for
\* two modules of which the newer one is unloaded first: with three, the other
\* module that Unload happens to find need not own the entry that is left. Nor is
\* it after a Load that failed, whose entries stay behind.
MtypResolves ==
  order = "newestFirst" /\ clock <= 2 /\ (\A m \in Modules : pc[m] # "failed") =>
    \A s \in Slots : mtyp[s] < -1 => \E m \in mapped : <<mtyp[s], m>> \in typemap

\* Whoever unloads in one of these orders is safe.
OrderedUnloadsAreSafe == NoDanglingOldestFirst /\ MtypResolves

\* Unload cleans up what Load manipulated (itab.go:121), for every host: with all
\* modules unloaded a part the linker had dropped is missing again, an itab has
\* unreachableMethod for it, every method type has the offset it started with,
\* and a function the host kept is lost only where another part of its method had
\* been dropped and a module patched it: revert resets both (itab.go:309-355).
HostTableRestored ==
  (\A m \in Modules : pc[m] \in {"new", "unloaded"}) =>
    \A s \in Slots :
      LET lost == s \in DeadSlots /\ \E m \in Modules : s \in patchedIfn[m] IN
      /\ ifn[s] = FromHost(IF lost THEN {} ELSE HostIfn, s)
      /\ tfn[s] = FromHost(IF lost THEN {} ELSE HostTfn, s)
      /\ mtyp[s] = HostMtypOff(s)
      /\ s \in ItabSlots => fun[s] = ifn[s]
================================================================================

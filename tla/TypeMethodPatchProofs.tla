------------------------- MODULE TypeMethodPatchProofs -------------------------
(***************************************************************************)
(* Theorems about TypeMethodPatch, for every set of modules and types,     *)
(* every number of methods and every choice of what the host's linker      *)
(* dropped.                                                                *)
(***************************************************************************)
EXTENDS TypeMethodPatch, TLAPS

LEMMA SlotFacts ==
  /\ ItabSlots \subseteq Slots
  /\ DeadSlots \subseteq Slots
  /\ \A s \in Slots : NextSlot(s) \in Slots \cup {NoSlot}
<1>1. ItabSlots \subseteq Slots /\ DeadSlots \subseteq Slots
  BY ConstantsAssumption DEF DeadSlots
<1>2. ASSUME NEW s \in Slots PROVE NextSlot(s) \in Slots \cup {NoSlot}
  BY ConstantsAssumption DEF Slots, NextSlot
<1> QED BY <1>1, <1>2

LEMMA RefFacts ==
  /\ Host \in TextRef /\ Missing \in TextRef
  /\ \A kept, s : FromHost(kept, s) \in TextRef
  /\ \A kept, s : \A m \in Modules : Provided(kept, m, s) \in TextRef
BY DEF TextRef, FromHost, Provided

\* What adjustMethods leaves in the itabs.
LEMMA AdjustedType ==
  ASSUME NEW entries \in [ItabSlots -> TextRef], NEW fn \in [Slots -> TextRef], NEW S
  PROVE  Adjusted(entries, fn, S) \in [ItabSlots -> TextRef]
BY SlotFacts DEF Adjusted

\* What a revert loop leaves in a column of the method tables.
LEMMA RevertedType ==
  ASSUME NEW table \in [Slots -> TextRef], NEW m, NEW t, NEW mine
  PROVE  Reverted(table, m, t, mine) \in [Slots -> TextRef]
BY RefFacts DEF Reverted, Cleared

\* What a revert loop leaves in the itabs.
LEMMA RevertItabsType ==
  ASSUME TypeOK, ifn' \in [Slots -> TextRef], NEW m, NEW t, NEW mine,
         RevertItabs(m, t, mine)
  PROVE  fun' \in [ItabSlots -> TextRef]
<1>1. PICK S : fun' = Adjusted(fun, ifn', S)
  BY DEF RevertItabs
<1> QED BY <1>1, AdjustedType DEF TypeOK

LEMMA TypesOfType ==
  ASSUME NEW S \in SUBSET Slots
  PROVE  TypesOf(S) \subseteq Types
BY DEF TypesOf, Slots

LEMMA InitTypeOK == Init => TypeOK
BY RefFacts, SlotFacts DEF Init, HostMtypOff, TypeOK, HostOff, PCs, Settled, NoSlot

LEMMA LoadStepTypeOK ==
  ASSUME TypeOK, NEW m \in Modules, LoadStep(m)
  PROVE  TypeOK'
<1> USE DEF hostVars, patchVars, lifeVars, Goto, PCs, Settled
<1>1. CASE StartDedup(m)
  BY <1>1 DEF StartDedup, TypeOK
<1>2. ASSUME NEW t \in Types, BeginReloc(m, t) PROVE TypeOK'
  <2>1. <<t, 1>> \in Slots
    BY ConstantsAssumption DEF Slots
  <2> QED BY <1>2, <2>1 DEF BeginReloc, TypeOK
<1>3. CASE PatchMethod(m)
  <2> DEFINE s == cursor[m]
  <2>1. s \in Slots
    BY <1>3 DEF PatchMethod, TypeOK
  <2>2. cursor' \in [Modules -> Slots \cup {NoSlot}]
    BY <1>3, <2>1, SlotFacts DEF PatchMethod, TypeOK
  <2>3. CASE ~NeedsPatch(s)
    BY <1>3, <2>2, <2>3 DEF PatchMethod, TypeOK
  <2>4. CASE NeedsPatch(s)
    <3> HIDE DEF s
    <3>1. /\ ifn' = [ifn EXCEPT ![s] = Provided(HostIfn, m, s)]
          /\ tfn' = [tfn EXCEPT ![s] = Provided(HostTfn, m, s)]
          /\ missing' = missing \cup {s}
      BY <1>3, <2>4 DEF PatchMethod, s
    <3>2. /\ patchedIfn' = [patchedIfn EXCEPT ![m] = @ \cup {s}]
          /\ patchedTfn' = [patchedTfn EXCEPT ![m] = @ \cup {s}]
      BY <1>3, <2>4 DEF PatchMethod, s
    <3>5. ifn' \in [Slots -> TextRef] /\ tfn' \in [Slots -> TextRef] /\ missing' \subseteq Slots
      BY <3>1, <2>1, RefFacts DEF TypeOK
    <3>6. patchedIfn' \in [Modules -> SUBSET Slots] /\ patchedTfn' \in [Modules -> SUBSET Slots]
      BY <3>2, <2>1 DEF TypeOK
    <3>3. PatchMtyp(m, s)
      BY <1>3, <2>4 DEF PatchMethod, s
    <3>4. /\ counter' \in Int /\ counter' <= -1
          /\ typemap' \subseteq (Int \X Modules)
          /\ mtyp' \in [Slots -> Int]
          /\ patchedMtyp' \in [Modules -> [Slots -> Int]]
      BY <3>3, <2>1 DEF PatchMtyp, TypeOK
    <3> QED BY <1>3, <2>2, <3>4, <3>5, <3>6 DEF PatchMethod, TypeOK
  <2> QED BY <2>3, <2>4
<1>4. CASE Publish(m)
  BY <1>4 DEF Publish, TypeOK
<1>5. CASE PatchItabs(m)
  <2>1. fun' \in [ItabSlots -> TextRef]
    BY <1>5, AdjustedType DEF PatchItabs, TypeOK
  <2> QED BY <1>5, <2>1 DEF PatchItabs, TypeOK
<1>6. CASE FailLoad(m)
  BY <1>6 DEF FailLoad, TypeOK
<1> QED BY <1>1, <1>2, <1>3, <1>4, <1>5, <1>6 DEF LoadStep

LEMMA UnloadStepTypeOK ==
  ASSUME TypeOK, NEW m \in Modules, UnloadStep(m)
  PROVE  TypeOK'
<1> USE DEF hostVars, patchVars, lifeVars, Goto, PCs, Settled
<1>1. TypesOf(patchedIfn[m]) \subseteq Types /\ TypesOf(patchedTfn[m]) \subseteq Types
  BY TypesOfType DEF TypeOK
<1>2. TypesOf(MtypSlots(m)) \subseteq Types
  BY TypesOfType DEF MtypSlots
<1>3. CASE BeginUnload(m)
  BY <1>1, <1>3 DEF BeginUnload, TypeOK
<1>4. ASSUME NEW t \in Types, RevertIfn(m, t) PROVE TypeOK'
  <2>1. ifn' \in [Slots -> TextRef]
    BY <1>4, RevertedType DEF RevertIfn, TypeOK
  <2>2. fun' \in [ItabSlots -> TextRef]
    BY <1>4, <2>1, RevertItabsType DEF RevertIfn
  <2> QED BY <1>4, <2>1, <2>2 DEF RevertIfn, TypeOK
<1>5. ASSUME NEW t \in Types, RevertTfn(m, t) PROVE TypeOK'
  <2>1. tfn' \in [Slots -> TextRef] /\ ifn' \in [Slots -> TextRef]
    BY <1>5, RevertedType DEF RevertTfn, TypeOK
  <2>2. fun' \in [ItabSlots -> TextRef]
    BY <1>5, <2>1, RevertItabsType DEF RevertTfn
  <2> QED BY <1>5, <2>1, <2>2 DEF RevertTfn, TypeOK
<1>6. ASSUME NEW t \in Types, RevertMtyp(m, t) PROVE TypeOK'
  <2>1. typemap' \subseteq (Int \X Modules)
    BY <1>6 DEF RevertMtyp, TypeOK
  <2>2. mtyp' \in [Slots -> Int]
    <3>1. CASE Others(m, t) = {}
      BY <1>6, <3>1 DEF RevertMtyp, TypeOK
    <3>2. ASSUME NEW o \in Others(m, t),
                 mtyp' = [s \in Slots |-> IF s \in OfType(MtypSlots(m), t) \cap MtypSlots(o)
                                          THEN patchedMtyp[o][s] ELSE mtyp[s]]
          PROVE  mtyp' \in [Slots -> Int]
      <4>1. o \in Modules
        BY DEF Others, TypeOK
      <4> QED BY <3>2, <4>1 DEF TypeOK
    <3> QED BY <1>6, <3>1, <3>2 DEF RevertMtyp
  <2> QED BY <1>6, <2>1, <2>2 DEF RevertMtyp, TypeOK
<1>7. CASE NextLoop(m)
  <2>1. PICK S \in SUBSET Types, l \in PCs :
          /\ pc' = [pc EXCEPT ![m] = l]
          /\ todo' = [todo EXCEPT ![m] = S] \/ todo' = todo
    BY <1>1, <1>2, <1>7 DEF NextLoop
  <2>2. UNCHANGED <<hostVars, patchVars, lifeVars, cursor, relocs, born, clock, order>>
    BY <1>7 DEF NextLoop
  <2> QED BY <2>1, <2>2 DEF TypeOK
<1>8. CASE RemoveModule(m)
  BY <1>8 DEF RemoveModule, TypeOK
<1>9. CASE UnmapModule(m)
  BY <1>9 DEF UnmapModule, TypeOK
<1> QED BY <1>3, <1>4, <1>5, <1>6, <1>7, <1>8, <1>9 DEF UnloadStep

LEMMA StutterTypeOK == TypeOK /\ UNCHANGED vars => TypeOK'
BY DEF TypeOK, vars, hostVars, patchVars, lifeVars

\* The variables of TypeMethodPatch keep their types in every behaviour.
THEOREM TypeCorrect == Spec => []TypeOK
<1>1. TypeOK /\ [Next]_vars => TypeOK'
  BY LoadStepTypeOK, UnloadStepTypeOK, StutterTypeOK DEF Next
<1> QED BY <1>1, InitTypeOK, PTL DEF Spec

--------------------------------------------------------------------------------
(***************************************************************************)
(* Complete methods are left alone, in any interleaving.  By itself the    *)
(* property is not inductive: a method that is recorded as missing or as   *)
(* patched would be rewritten although it is complete.                     *)
(***************************************************************************)
UntouchedInv ==
  /\ HostMethodsUntouched
  /\ missing \subseteq DeadSlots
  /\ \A m \in Modules : patchedIfn[m] \subseteq DeadSlots
  /\ \A m \in Modules : patchedTfn[m] \subseteq DeadSlots
  /\ \A m \in Modules : MtypSlots(m) \subseteq DeadSlots

LEMMA InitUntouched == Init => UntouchedInv
<1> SUFFICES ASSUME Init PROVE UntouchedInv
  OBVIOUS
<1>1. HostMethodsUntouched
  BY SlotFacts DEF Init, HostMtypOff, HostMethodsUntouched, DeadSlots, FromHost
<1>2. \A m \in Modules : MtypSlots(m) = {}
  BY DEF Init, HostMtypOff, MtypSlots
<1> QED BY <1>1, <1>2 DEF Init, HostMtypOff, UntouchedInv

\* Adjusting the entries of dead methods does not touch the others.
LEMMA AdjustedUntouched ==
  ASSUME TypeOK, HostMethodsUntouched, NEW fn, NEW S \in SUBSET DeadSlots,
         fun' = Adjusted(fun, fn, S)
  PROVE  \A s \in Slots \ DeadSlots : s \in ItabSlots => fun'[s] = Host
BY SlotFacts DEF Adjusted, HostMethodsUntouched

LEMMA RevertUntouched ==
  ASSUME TypeOK, UntouchedInv, NEW m \in Modules, NEW t \in Types,
         NEW mine \in SUBSET DeadSlots
  PROVE  /\ \A table : table \in [Slots -> TextRef] /\ (\A s \in Slots \ DeadSlots : table[s] = Host)
                => \A s \in Slots \ DeadSlots : Reverted(table, m, t, mine)[s] = Host
         /\ RevertItabs(m, t, mine) => \A s \in Slots \ DeadSlots : s \in ItabSlots => fun'[s] = Host
<1>1. OfType(mine, t) \subseteq DeadSlots
  BY DEF OfType
<1>2. ASSUME NEW table \in [Slots -> TextRef], \A s \in Slots \ DeadSlots : table[s] = Host
      PROVE  \A s \in Slots \ DeadSlots : Reverted(table, m, t, mine)[s] = Host
  BY <1>1, <1>2 DEF Reverted, Cleared
<1>3. ASSUME RevertItabs(m, t, mine)
      PROVE  \A s \in Slots \ DeadSlots : s \in ItabSlots => fun'[s] = Host
  <2>1. PICK S \in SUBSET DeadSlots : fun' = Adjusted(fun, ifn', S)
    <3>1. \A o \in Others(m, t) : OfType(patchedIfn[o] \cup patchedTfn[o], t) \subseteq DeadSlots
      BY DEF UntouchedInv, Others, OfType, TypeOK
    <3> QED BY <1>1, <1>3, <3>1 DEF RevertItabs
  <2> QED BY <2>1, AdjustedUntouched DEF UntouchedInv
<1> QED BY <1>2, <1>3

LEMMA LoadStepUntouched ==
  ASSUME TypeOK, UntouchedInv, NEW m \in Modules, LoadStep(m)
  PROVE  UntouchedInv'
<1> USE DEF hostVars, patchVars, lifeVars
<1>1. CASE StartDedup(m) \/ (\E t \in Types : BeginReloc(m, t)) \/ Publish(m) \/ FailLoad(m)
  BY <1>1 DEF StartDedup, BeginReloc, Publish, FailLoad, UntouchedInv, HostMethodsUntouched, MtypSlots
<1>2. CASE PatchMethod(m)
  <2> DEFINE s == cursor[m]
  <2>1. s \in Slots /\ UNCHANGED fun
    BY <1>2 DEF PatchMethod, TypeOK
  <2>2. CASE ~NeedsPatch(s)
    BY <1>2, <2>2 DEF PatchMethod, UntouchedInv, HostMethodsUntouched, MtypSlots
  <2>3. CASE NeedsPatch(s)
    <3>1. s \in DeadSlots
      BY <2>1, <2>3, ConstantsAssumption DEF NeedsPatch, UntouchedInv, HostMethodsUntouched, HostOff
    <3>2. /\ ifn' = [ifn EXCEPT ![s] = Provided(HostIfn, m, s)]
          /\ tfn' = [tfn EXCEPT ![s] = Provided(HostTfn, m, s)]
          /\ missing' = missing \cup {s}
          /\ patchedIfn' = [patchedIfn EXCEPT ![m] = @ \cup {s}]
          /\ patchedTfn' = [patchedTfn EXCEPT ![m] = @ \cup {s}]
          /\ PatchMtyp(m, s)
      BY <1>2, <2>3 DEF PatchMethod
    <3> HIDE DEF s
    <3>3. \A u \in Slots \ DeadSlots : mtyp'[u] = mtyp[u]
      BY <2>1, <3>1, <3>2 DEF PatchMtyp, TypeOK
    <3>4. \A n \in Modules : MtypSlots(n)' \subseteq MtypSlots(n) \cup {s}
      <4>1. \A n \in Modules, u \in Slots : u # s => patchedMtyp'[n][u] = patchedMtyp[n][u]
        <5>1. CASE mtyp[s] < 0
          <6>1. patchedMtyp' = [patchedMtyp EXCEPT ![m][s] = counter - 1]
            BY <3>2, <5>1 DEF PatchMtyp
          <6> QED BY <6>1, <2>1 DEF TypeOK
        <5>2. CASE ~(mtyp[s] < 0)
          BY <3>2, <5>2 DEF PatchMtyp
        <5> QED BY <5>1, <5>2
      <4> QED BY <4>1 DEF MtypSlots
    <3>5. HostMethodsUntouched'
      BY <2>1, <3>1, <3>2, <3>3 DEF HostMethodsUntouched, UntouchedInv, TypeOK
    <3> QED BY <3>1, <3>2, <3>4, <3>5 DEF UntouchedInv, TypeOK
  <2> QED BY <2>2, <2>3
<1>3. CASE PatchItabs(m)
  <2>1. /\ fun' = Adjusted(fun, ifn, patchedIfn[m] \cup patchedTfn[m])
        /\ UNCHANGED <<ifn, tfn, mtyp, missing, patchedIfn, patchedTfn, patchedMtyp>>
    BY <1>3 DEF PatchItabs
  <2>2. patchedIfn[m] \cup patchedTfn[m] \in SUBSET DeadSlots
    BY DEF UntouchedInv
  <2>3. \A s \in Slots \ DeadSlots : s \in ItabSlots => fun'[s] = Host
    BY <2>1, <2>2, AdjustedUntouched DEF UntouchedInv
  <2> QED BY <2>1, <2>3 DEF UntouchedInv, HostMethodsUntouched, MtypSlots
<1> QED BY <1>1, <1>2, <1>3 DEF LoadStep

LEMMA UnloadStepUntouched ==
  ASSUME TypeOK, UntouchedInv, NEW m \in Modules, UnloadStep(m)
  PROVE  UntouchedInv'
<1> USE DEF hostVars, patchVars, lifeVars
<1>1. CASE BeginUnload(m) \/ NextLoop(m) \/ RemoveModule(m) \/ UnmapModule(m)
  BY <1>1 DEF BeginUnload, NextLoop, RemoveModule, UnmapModule, UntouchedInv, HostMethodsUntouched, MtypSlots
<1>2. ASSUME NEW t \in Types, RevertIfn(m, t) PROVE UntouchedInv'
  <2>1. /\ ifn' = Reverted(ifn, m, t, patchedIfn[m])
        /\ RevertItabs(m, t, patchedIfn[m])
        /\ UNCHANGED <<tfn, mtyp, missing, patchedIfn, patchedTfn, patchedMtyp>>
    BY <1>2 DEF RevertIfn
  <2>3. ifn \in [Slots -> TextRef] /\ \A s \in Slots \ DeadSlots : ifn[s] = Host
    BY DEF UntouchedInv, HostMethodsUntouched, TypeOK
  <2>4. patchedIfn[m] \in SUBSET DeadSlots
    BY DEF UntouchedInv
  <2>5. \A s \in Slots \ DeadSlots : ifn'[s] = Host
    BY <2>1, <2>3, <2>4, RevertUntouched
  <2>6. \A s \in Slots \ DeadSlots : s \in ItabSlots => fun'[s] = Host
    BY <2>1, <2>4, RevertUntouched
  <2>2. HostMethodsUntouched'
    BY <2>1, <2>5, <2>6 DEF UntouchedInv, HostMethodsUntouched
  <2> QED BY <2>1, <2>2 DEF UntouchedInv, MtypSlots
<1>3. ASSUME NEW t \in Types, RevertTfn(m, t) PROVE UntouchedInv'
  <2>1. /\ tfn' = Reverted(tfn, m, t, patchedTfn[m])
        /\ RevertItabs(m, t, patchedTfn[m])
        /\ UNCHANGED <<ifn, mtyp, missing, patchedIfn, patchedTfn, patchedMtyp>>
    BY <1>3 DEF RevertTfn
  <2>3. tfn \in [Slots -> TextRef] /\ \A s \in Slots \ DeadSlots : tfn[s] = Host
    BY DEF UntouchedInv, HostMethodsUntouched, TypeOK
  <2>4. patchedTfn[m] \in SUBSET DeadSlots
    BY DEF UntouchedInv
  <2>5. \A s \in Slots \ DeadSlots : tfn'[s] = Host
    BY <2>1, <2>3, <2>4, RevertUntouched
  <2>6. \A s \in Slots \ DeadSlots : s \in ItabSlots => fun'[s] = Host
    BY <2>1, <2>4, RevertUntouched
  <2>2. HostMethodsUntouched'
    BY <2>1, <2>5, <2>6 DEF UntouchedInv, HostMethodsUntouched
  <2> QED BY <2>1, <2>2 DEF UntouchedInv, MtypSlots
<1>4. ASSUME NEW t \in Types, RevertMtyp(m, t) PROVE UntouchedInv'
  <2>1. UNCHANGED <<ifn, tfn, fun, missing, patchedIfn, patchedTfn, patchedMtyp>>
    BY <1>4 DEF RevertMtyp
  <2>2. PICK S \in SUBSET MtypSlots(m) :
          \E new : mtyp' = [s \in Slots |-> IF s \in S THEN new[s] ELSE mtyp[s]]
    <3> DEFINE mine == OfType(MtypSlots(m), t)
    <3>1. mine \subseteq MtypSlots(m)
      BY DEF OfType
    <3>2. CASE Others(m, t) = {}
      <4> DEFINE S == {s \in mine : mtyp[s] < -1}
                 new == [s \in Slots |-> -1]
      <4>1. mtyp' = [s \in Slots |-> IF s \in S THEN new[s] ELSE mtyp[s]]
        BY <1>4, <3>2 DEF RevertMtyp
      <4> QED BY <3>1, <4>1
    <3>3. CASE Others(m, t) # {}
      <4>1. PICK o \in Others(m, t) :
              mtyp' = [s \in Slots |-> IF s \in mine \cap MtypSlots(o)
                                       THEN patchedMtyp[o][s] ELSE mtyp[s]]
        BY <1>4, <3>3 DEF RevertMtyp
      <4> QED BY <3>1, <4>1
    <3> QED BY <3>2, <3>3
  <2>3. \A s \in Slots \ DeadSlots : mtyp'[s] = mtyp[s]
    BY <2>2 DEF UntouchedInv
  <2> QED BY <2>1, <2>3 DEF UntouchedInv, HostMethodsUntouched, MtypSlots
<1> QED BY <1>1, <1>2, <1>3, <1>4 DEF UnloadStep

LEMMA StepUntouched == TypeOK /\ UntouchedInv /\ [Next]_vars => UntouchedInv'
<1>1. TypeOK /\ UntouchedInv /\ UNCHANGED vars => UntouchedInv'
  BY DEF vars, hostVars, patchVars, lifeVars, UntouchedInv, HostMethodsUntouched, MtypSlots
<1> QED BY <1>1, LoadStepUntouched, UnloadStepUntouched DEF Next

\* Methods that are complete in the host are never rewritten, whatever is loaded,
\* fails or is unloaded, in any interleaving (itab.go:135, 310, 340, 380).
THEOREM CompleteMethodsUntouched == Spec => []HostMethodsUntouched
<1>1. TypeOK /\ UntouchedInv /\ [Next]_vars => UntouchedInv'
  BY StepUntouched
<1>2. UntouchedInv => HostMethodsUntouched
  BY DEF UntouchedInv
<1> QED BY <1>1, <1>2, InitUntouched, TypeCorrect, PTL DEF Spec

--------------------------------------------------------------------------------
(***************************************************************************)
(* One operation at a time: the last module that patched a method takes    *)
(* the patch back, failing Loads included.  The invariant follows an       *)
(* Unload through its three loops: what a loop has visited is either no    *)
(* longer JIT text, or is recorded by another loaded module as well.  That *)
(* a module which recorded one dead method of a type recorded all of them  *)
(* (AllOrNothing) is what lets getOtherPatchedMethodsForType look at types *)
(* and not at methods.                                                     *)
(***************************************************************************)
Busy(m) == pc[m] \notin Settled
Reverting == {"revertIfn", "revertTfn", "revertMtyp", "reverted"}

JitText(s) == ifn[s] \in Modules \/ tfn[s] \in Modules \/ (s \in ItabSlots /\ fun[s] \in Modules)
JitIfn(s) == ifn[s] \in Modules \/ (s \in ItabSlots /\ fun[s] \in Modules)

OneAtATime == \A m, n \in Modules : Busy(m) /\ Busy(n) => m = n

Lifecycle == \A m \in Modules :
  /\ m \in modules <=> pc[m] \in {"dedup", "publish", "loaded", "failed"} \cup Reverting
  /\ m \in published => pc[m] \notin {"new", "dedup"}
  /\ pc[m] \in {"publish", "loaded"} \cup Reverting => m \in published
  /\ cursor[m] # NoSlot => pc[m] = "dedup"

Recorded == \A m \in Modules :
  /\ patchedIfn[m] = patchedTfn[m]
  /\ MtypSlots(m) \subseteq patchedIfn[m] \ HostMtyp
  /\ patchedIfn[m] \subseteq missing

DeadNeedPatch == \A s \in DeadSlots : NeedsPatch(s)

HostMtypKept == \A s \in HostMtyp : mtyp[s] = HostOff

AllOrNothing == \A m \in Modules : \A s \in patchedIfn[m] :
  \/ OfType(DeadSlots, s[1]) \subseteq patchedIfn[m]
  \/ cursor[m] # NoSlot /\ cursor[m][1] = s[1]
  \/ pc[m] = "failed" /\ m \notin published

LoopCovered == \A m \in Modules : cursor[m] # NoSlot =>
  \A s \in DeadSlots :
    s[1] = cursor[m][1] /\ s[2] < cursor[m][2] => s \in patchedIfn[m]

JitPatched == \A s \in Slots : JitText(s) => \E m \in modules : s \in patchedIfn[m]

Kept(m, s) == \E n \in modules \ {m} : s \in patchedIfn[n]

RevertProgress == \A m \in Modules, s \in Slots : s \in patchedIfn[m] /\ ~Kept(m, s) =>
  /\ pc[m] = "revertIfn" /\ s[1] \notin todo[m] => ~JitIfn(s)
  /\ pc[m] = "revertTfn" => ~JitIfn(s)
  /\ pc[m] = "revertTfn" /\ s[1] \notin todo[m] => ~JitText(s)
  /\ pc[m] \in {"revertMtyp", "reverted"} => ~JitText(s)

SeqInv ==
  /\ OneAtATime /\ Lifecycle /\ Recorded /\ DeadNeedPatch /\ HostMtypKept
  /\ AllOrNothing /\ LoopCovered /\ JitPatched /\ RevertProgress

Hyp == TypeOK /\ UntouchedInv /\ SeqInv /\ Sequential

LEMMA InitSeq == Init => SeqInv
<1> SUFFICES ASSUME Init PROVE SeqInv
  OBVIOUS
<1>1. \A m \in Modules : MtypSlots(m) = {}
  BY DEF Init, HostMtypOff, MtypSlots
<1>2. OneAtATime /\ Lifecycle /\ Recorded /\ AllOrNothing /\ LoopCovered
  BY <1>1 DEF Init, HostMtypOff, OneAtATime, Lifecycle, Recorded, AllOrNothing, LoopCovered, Busy, Settled, Reverting
<1>3. DeadNeedPatch /\ HostMtypKept
  BY ConstantsAssumption DEF Init, HostMtypOff, DeadNeedPatch, DeadSlots, NeedsPatch, FromHost, HostMtypKept
<1>4. JitPatched /\ RevertProgress
  BY ConstantsAssumption, SlotFacts DEF Init, HostMtypOff, JitPatched, JitText, FromHost, RevertProgress
<1> QED BY <1>2, <1>3, <1>4 DEF SeqInv

\* While one operation runs, no other does.
LEMMA Alone ==
  ASSUME Hyp, NEW m \in Modules, pc[m] \notin Settled
  PROVE  \A n \in Modules : n # m => pc[n] \in Settled
BY DEF Hyp, SeqInv, OneAtATime, Lifecycle, Busy, TypeOK

LEMMA StartDedupSeq ==
  ASSUME Hyp, NEW m \in Modules, StartDedup(m)
  PROVE  SeqInv'
<1>1. /\ pc[m] = "new" /\ pc' = [pc EXCEPT ![m] = "dedup"]
      /\ modules' = modules \cup {m}
      /\ \A n \in Modules : pc[n] \in Settled
      /\ UNCHANGED <<ifn, tfn, mtyp, fun, missing, patchedIfn, patchedTfn, patchedMtyp, cursor, todo, published>>
  BY DEF StartDedup, MayStart, Goto, Hyp, hostVars, patchVars
<1>2. OneAtATime' /\ Lifecycle'
  BY <1>1 DEF Hyp, SeqInv, OneAtATime, Lifecycle, Busy, Settled, Reverting, TypeOK
<1>3. (Recorded /\ DeadNeedPatch /\ HostMtypKept /\ AllOrNothing /\ LoopCovered)'
  BY <1>1 DEF Hyp, SeqInv, Recorded, DeadNeedPatch, HostMtypKept, AllOrNothing, LoopCovered, MtypSlots, NeedsPatch
<1>4. JitPatched'
  BY <1>1 DEF Hyp, SeqInv, JitPatched, JitText
<1>5. RevertProgress'
  BY <1>1 DEF RevertProgress, Settled, Hyp, TypeOK
<1> QED BY <1>2, <1>3, <1>4, <1>5 DEF SeqInv

LEMMA BeginRelocSeq ==
  ASSUME Hyp, NEW m \in Modules, NEW t \in Types, BeginReloc(m, t)
  PROVE  SeqInv'
<1>1. /\ pc[m] = "dedup" /\ cursor[m] = NoSlot
      /\ cursor' = [cursor EXCEPT ![m] = <<t, 1>>]
      /\ UNCHANGED <<ifn, tfn, mtyp, fun, missing, patchedIfn, patchedTfn, patchedMtyp, pc, modules, published, todo>>
  BY DEF BeginReloc, hostVars, patchVars, lifeVars
<1>2. OneAtATime' /\ Lifecycle'
  BY <1>1 DEF Hyp, SeqInv, OneAtATime, Lifecycle, Busy, TypeOK
<1>3. (Recorded /\ DeadNeedPatch /\ HostMtypKept)'
  BY <1>1 DEF Hyp, SeqInv, Recorded, DeadNeedPatch, HostMtypKept, MtypSlots, NeedsPatch
<1>4. AllOrNothing'
  BY <1>1 DEF Hyp, SeqInv, AllOrNothing, TypeOK
<1>5. LoopCovered'
  <2>1. \A s \in DeadSlots : ~(s[2] < 1)
    BY SlotFacts, ConstantsAssumption DEF Slots
  <2>2. cursor'[m][2] = 1 /\ \A n \in Modules \ {m} : cursor'[n] = cursor[n]
    BY <1>1 DEF Hyp, TypeOK
  <2> QED BY <1>1, <2>1, <2>2 DEF Hyp, SeqInv, LoopCovered
<1>6. JitPatched' /\ RevertProgress'
  BY <1>1 DEF Hyp, SeqInv, JitPatched, JitText, JitIfn, RevertProgress, Kept
<1> QED BY <1>2, <1>3, <1>4, <1>5, <1>6 DEF SeqInv

LEMMA PublishSeq ==
  ASSUME Hyp, NEW m \in Modules, Publish(m)
  PROVE  SeqInv'
<1>1. /\ pc[m] = "dedup" /\ cursor[m] = NoSlot
      /\ pc' = [pc EXCEPT ![m] = "publish"]
      /\ published' = published \cup {m}
      /\ UNCHANGED <<ifn, tfn, mtyp, fun, missing, patchedIfn, patchedTfn, patchedMtyp, cursor, modules, todo>>
  BY DEF Publish, Goto, hostVars, patchVars
<1>2. OneAtATime' /\ Lifecycle'
  BY <1>1 DEF Hyp, SeqInv, OneAtATime, Lifecycle, Busy, Settled, Reverting, TypeOK
<1>3. (Recorded /\ DeadNeedPatch /\ HostMtypKept /\ AllOrNothing /\ LoopCovered /\ JitPatched)'
  BY <1>1 DEF Hyp, SeqInv, Recorded, DeadNeedPatch, HostMtypKept, AllOrNothing, LoopCovered, MtypSlots, NeedsPatch, JitPatched, JitText
<1>4. RevertProgress'
  BY <1>1 DEF Hyp, SeqInv, RevertProgress, JitText, JitIfn, Kept, TypeOK
<1> QED BY <1>2, <1>3, <1>4 DEF SeqInv

LEMMA PatchItabsSeq ==
  ASSUME Hyp, NEW m \in Modules, PatchItabs(m)
  PROVE  SeqInv'
<1>1. /\ pc[m] = "publish"
      /\ pc' = [pc EXCEPT ![m] = "loaded"]
      /\ fun' = Adjusted(fun, ifn, patchedIfn[m] \cup patchedTfn[m])
      /\ UNCHANGED <<ifn, tfn, mtyp, missing, patchedIfn, patchedTfn, patchedMtyp, cursor, modules, published, todo>>
  BY DEF PatchItabs, Goto, patchVars, lifeVars
<1>2. OneAtATime' /\ Lifecycle'
  BY <1>1 DEF Hyp, SeqInv, OneAtATime, Lifecycle, Busy, Settled, Reverting, TypeOK
<1>3. (Recorded /\ DeadNeedPatch /\ HostMtypKept /\ AllOrNothing /\ LoopCovered)'
  BY <1>1 DEF Hyp, SeqInv, Recorded, DeadNeedPatch, HostMtypKept, AllOrNothing, LoopCovered, MtypSlots, NeedsPatch
<1>4. JitPatched'
  <2>1. m \in modules /\ patchedIfn[m] \cup patchedTfn[m] = patchedIfn[m]
    BY <1>1 DEF Hyp, SeqInv, Lifecycle, Recorded
  <2>2. \A s \in ItabSlots : s \notin patchedIfn[m] => fun'[s] = fun[s]
    BY <1>1, <2>1 DEF Adjusted
  <2> QED BY <1>1, <2>1, <2>2 DEF Hyp, SeqInv, JitPatched, JitText
<1>5. RevertProgress'
  <2>1. \A n \in Modules : pc'[n] \in Settled
    BY <1>1, Alone DEF Settled, Hyp, TypeOK
  <2> QED BY <2>1 DEF RevertProgress, Settled
<1> QED BY <1>2, <1>3, <1>4, <1>5 DEF SeqInv

\* RevertProgress only speaks of modules that are being unloaded.
LEMMA NobodyReverting ==
  ASSUME \A n \in Modules : pc'[n] \notin Reverting
  PROVE  RevertProgress'
BY DEF RevertProgress, Reverting

LEMMA PatchMethodSeq ==
  ASSUME Hyp, NEW m \in Modules, PatchMethod(m)
  PROVE  SeqInv'
<1> DEFINE s == cursor[m]
<1>1. /\ pc[m] = "dedup" /\ s # NoSlot /\ s \in Slots
      /\ cursor' = [cursor EXCEPT ![m] = NextSlot(s)]
      /\ UNCHANGED <<fun, modules, published, pc, todo>>
  BY DEF PatchMethod, lifeVars, Hyp, TypeOK
<1>2. UNCHANGED <<missing, ifn, tfn, mtyp, patchedIfn, patchedTfn, patchedMtyp>> \/ NeedsPatch(s)
  BY DEF PatchMethod, patchVars
<1>3. NeedsPatch(s) =>
        /\ s \in DeadSlots
        /\ ifn' = [ifn EXCEPT ![s] = Provided(HostIfn, m, s)]
        /\ tfn' = [tfn EXCEPT ![s] = Provided(HostTfn, m, s)]
        /\ missing' = missing \cup {s}
        /\ patchedIfn' = [patchedIfn EXCEPT ![m] = @ \cup {s}]
        /\ patchedTfn' = [patchedTfn EXCEPT ![m] = @ \cup {s}]
        /\ PatchMtyp(m, s)
  <2>1. NeedsPatch(s) => s \in DeadSlots
    BY <1>1, ConstantsAssumption DEF NeedsPatch, Hyp, UntouchedInv, HostMethodsUntouched, HostOff
  <2> QED BY <2>1 DEF PatchMethod
<1>4. s \in DeadSlots => NeedsPatch(s)
  BY DEF Hyp, SeqInv, DeadNeedPatch
<1> HIDE DEF s
<1>5. \A n \in Modules : patchedIfn[n] \subseteq patchedIfn'[n] /\ patchedIfn'[n] \subseteq patchedIfn[n] \cup {s}
  <2>1. patchedIfn \in [Modules -> SUBSET Slots]
    BY DEF Hyp, TypeOK
  <2>2. patchedIfn' = patchedIfn \/ patchedIfn' = [patchedIfn EXCEPT ![m] = @ \cup {s}]
    BY <1>2, <1>3
  <2> QED BY <2>1, <2>2
<1>6. s \in DeadSlots => s \in patchedIfn'[m]
  BY <1>3, <1>4 DEF Hyp, TypeOK
<1>7. \A n \in Modules \ {m} : patchedIfn'[n] = patchedIfn[n] /\ cursor'[n] = cursor[n]
  BY <1>1, <1>2, <1>3 DEF Hyp, TypeOK
<1>8. cursor'[m] = NextSlot(s)
  BY <1>1 DEF Hyp, TypeOK
<1>9. OneAtATime' /\ Lifecycle'
  BY <1>1 DEF Hyp, SeqInv, OneAtATime, Lifecycle, Busy, TypeOK
<1>10. Recorded'
  <2>1. CASE UNCHANGED <<missing, ifn, tfn, mtyp, patchedIfn, patchedTfn, patchedMtyp>>
    BY <2>1 DEF Hyp, SeqInv, Recorded, MtypSlots
  <2>2. CASE NeedsPatch(s)
    <3>1. \A n \in Modules : patchedIfn'[n] = patchedTfn'[n] /\ patchedIfn'[n] \subseteq missing'
      <4>1. /\ patchedIfn \in [Modules -> SUBSET Slots] /\ patchedTfn \in [Modules -> SUBSET Slots]
            /\ \A n \in Modules : patchedIfn[n] = patchedTfn[n] /\ patchedIfn[n] \subseteq missing
        BY DEF Hyp, TypeOK, SeqInv, Recorded
      <4> QED BY <1>3, <2>2, <4>1
    <3>2. CASE mtyp[s] < 0
      <4>1. patchedMtyp' = [patchedMtyp EXCEPT ![m][s] = counter - 1]
        BY <1>3, <2>2, <3>2 DEF PatchMtyp
      <4>2. s \notin HostMtyp
        BY <3>2 DEF Hyp, SeqInv, HostMtypKept, HostOff
      <4>3. /\ \A n \in Modules \ {m} : patchedMtyp'[n] = patchedMtyp[n]
            /\ \A u \in Slots : u # s => patchedMtyp'[m][u] = patchedMtyp[m][u]
        BY <4>1, <1>1 DEF Hyp, TypeOK
      <4>4. MtypSlots(m)' \subseteq MtypSlots(m) \cup {s} /\ \A n \in Modules \ {m} : MtypSlots(n)' = MtypSlots(n)
        BY <4>3 DEF MtypSlots
      <4>5. s \in patchedIfn'[m]
        BY <1>3, <1>6, <2>2
      <4> QED BY <1>5, <1>7, <3>1, <4>2, <4>4, <4>5 DEF Hyp, SeqInv, Recorded
    <3>3. CASE ~(mtyp[s] < 0)
      <4>1. UNCHANGED patchedMtyp
        BY <1>3, <2>2, <3>3 DEF PatchMtyp
      <4> QED BY <1>5, <3>1, <4>1 DEF Hyp, SeqInv, Recorded, MtypSlots
    <3> QED BY <3>2, <3>3
  <2> QED BY <1>2, <2>1, <2>2
<1>11. DeadNeedPatch' /\ HostMtypKept'
  <2>1. CASE UNCHANGED <<missing, ifn, tfn, mtyp, patchedIfn, patchedTfn, patchedMtyp>>
    BY <2>1 DEF Hyp, SeqInv, DeadNeedPatch, HostMtypKept, NeedsPatch
  <2>2. CASE NeedsPatch(s)
    <3>1. /\ \A u \in Slots : u # s => mtyp'[u] = mtyp[u]
          /\ mtyp[s] = HostOff => mtyp'[s] = HostOff
      BY <1>3, <1>1, <2>2 DEF PatchMtyp, Hyp, TypeOK, HostOff
    <3>2. \A u \in Slots : u # s => ifn'[u] = ifn[u] /\ tfn'[u] = tfn[u]
      BY <1>3, <2>2 DEF Hyp, TypeOK
    <3>3. HostMtypKept'
      BY <3>1, ConstantsAssumption DEF Hyp, SeqInv, HostMtypKept
    <3>4. DeadNeedPatch'
      <4>1. \A u \in DeadSlots \ {s} : NeedsPatch(u)'
        BY <1>3, <2>2, <3>1, <3>2, SlotFacts DEF NeedsPatch, Hyp, SeqInv, DeadNeedPatch
      <4>2. \A u \in DeadSlots : u = s => NeedsPatch(u)'
        BY <1>3, <2>2 DEF NeedsPatch
      <4> QED BY <4>1, <4>2 DEF DeadNeedPatch
    <3> QED BY <3>3, <3>4
  <2> QED BY <1>2, <2>1, <2>2
<1>12. LoopCovered'
  <2>1. ASSUME cursor'[m] # NoSlot, NEW u \in DeadSlots,
               u[1] = cursor'[m][1], u[2] < cursor'[m][2]
        PROVE  u \in patchedIfn'[m]
    <3>1. cursor'[m] = <<s[1], s[2] + 1>>
      BY <1>8, <2>1 DEF NextSlot
    <3>2. u[1] = s[1] /\ u[2] < s[2] + 1 /\ u \in Slots
      BY <2>1, <3>1, SlotFacts
    <3>3. u = s \/ u[2] < s[2]
      BY <1>1, <3>2, ConstantsAssumption DEF Slots
    <3> QED BY <1>1, <1>5, <1>6, <3>2, <3>3 DEF Hyp, SeqInv, LoopCovered, s
  <2> QED BY <1>7, <2>1 DEF Hyp, SeqInv, LoopCovered
<1>13. AllOrNothing'
  <2>1. ASSUME NEW u \in patchedIfn'[m]
        PROVE  \/ OfType(DeadSlots, u[1]) \subseteq patchedIfn'[m]
               \/ cursor'[m] # NoSlot /\ cursor'[m][1] = u[1]
    <3>1. CASE u[1] # s[1]
      <4>1. u \in patchedIfn[m] /\ ~(cursor[m][1] = u[1])
        BY <1>5, <3>1 DEF s
      <4> QED BY <1>1, <1>5, <4>1 DEF Hyp, SeqInv, AllOrNothing
    <3>2. CASE u[1] = s[1] /\ s[2] < NMethods
      BY <1>8, <3>2 DEF NextSlot, NoSlot
    <3>3. CASE u[1] = s[1] /\ ~(s[2] < NMethods)
      <4>1. ASSUME NEW v \in OfType(DeadSlots, s[1]) PROVE v \in patchedIfn'[m]
        <5>1. v \in DeadSlots /\ v \in Slots /\ v[1] = s[1]
          BY SlotFacts DEF OfType
        <5>2. v = s \/ v[2] < s[2]
          BY <1>1, <3>3, <5>1, ConstantsAssumption DEF Slots
        <5> QED BY <1>1, <1>5, <1>6, <5>1, <5>2 DEF Hyp, SeqInv, LoopCovered, s
      <4> QED BY <3>3, <4>1
    <3> QED BY <3>1, <3>2, <3>3
  <2> QED BY <1>1, <1>7, <2>1 DEF Hyp, SeqInv, AllOrNothing
<1>14. JitPatched'
  <2>1. m \in modules
    BY <1>1 DEF Hyp, SeqInv, Lifecycle
  <2>2. \A u \in Slots : u = s \/ (ifn'[u] = ifn[u] /\ tfn'[u] = tfn[u])
    BY <1>2, <1>3 DEF Hyp, TypeOK
  <2>3. CASE NeedsPatch(s)
    <3>1. s \in patchedIfn'[m]
      BY <1>3, <1>6, <2>3
    <3> QED BY <1>1, <1>5, <2>1, <2>2, <3>1 DEF Hyp, TypeOK, SeqInv, JitPatched, JitText
  <2>4. CASE ~NeedsPatch(s)
    BY <1>1, <1>2, <2>4 DEF Hyp, SeqInv, JitPatched, JitText
  <2> QED BY <2>3, <2>4
<1>15. RevertProgress'
  <2>1. \A n \in Modules : pc'[n] \notin Reverting
    BY <1>1, Alone DEF Settled, Reverting
  <2> QED BY <2>1, NobodyReverting
<1> QED BY <1>9, <1>10, <1>11, <1>12, <1>13, <1>14, <1>15 DEF SeqInv

LEMMA FailLoadSeq ==
  ASSUME Hyp, NEW m \in Modules, FailLoad(m)
  PROVE  SeqInv'
<1>1. /\ pc[m] \in {"dedup", "publish"} /\ pc' = [pc EXCEPT ![m] = "failed"]
      /\ cursor' = [cursor EXCEPT ![m] = NoSlot]
      /\ UNCHANGED <<ifn, tfn, mtyp, fun, missing, patchedIfn, patchedTfn, patchedMtyp, modules, published, todo>>
  BY DEF FailLoad, Goto, hostVars, patchVars
<1>2. OneAtATime' /\ Lifecycle'
  BY <1>1 DEF Hyp, SeqInv, OneAtATime, Lifecycle, Busy, Settled, Reverting, TypeOK
<1>3. (Recorded /\ DeadNeedPatch /\ HostMtypKept /\ JitPatched)'
  BY <1>1 DEF Hyp, SeqInv, Recorded, DeadNeedPatch, HostMtypKept, MtypSlots, NeedsPatch, JitPatched, JitText
<1>4. LoopCovered'
  BY <1>1 DEF Hyp, SeqInv, LoopCovered, TypeOK
<1>5. AllOrNothing'
  <2>1. ASSUME NEW n \in Modules, NEW s \in patchedIfn'[n]
        PROVE  \/ OfType(DeadSlots, s[1]) \subseteq patchedIfn'[n]
               \/ cursor'[n] # NoSlot /\ cursor'[n][1] = s[1]
               \/ pc'[n] = "failed" /\ n \notin published'
    <3>1. CASE n = m
      <4>1. m \in published => cursor[m] = NoSlot /\ pc[m] # "failed"
        BY <1>1 DEF Hyp, SeqInv, Lifecycle
      <4> QED BY <1>1, <2>1, <3>1, <4>1 DEF Hyp, SeqInv, AllOrNothing, TypeOK
    <3>2. CASE n # m
      BY <1>1, <2>1, <3>2 DEF Hyp, SeqInv, AllOrNothing, TypeOK
    <3> QED BY <3>1, <3>2
  <2> QED BY <2>1 DEF AllOrNothing
<1>6. RevertProgress'
  <2>1. \A n \in Modules : pc'[n] \notin Reverting
    BY <1>1, Alone DEF Settled, Reverting, Hyp, TypeOK
  <2> QED BY <2>1, NobodyReverting
<1> QED BY <1>2, <1>3, <1>4, <1>5, <1>6 DEF SeqInv

LEMMA BeginUnloadSeq ==
  ASSUME Hyp, NEW m \in Modules, BeginUnload(m)
  PROVE  SeqInv'
<1>1. /\ pc[m] = "loaded" /\ pc' = [pc EXCEPT ![m] = "revertIfn"]
      /\ todo' = [todo EXCEPT ![m] = TypesOf(patchedIfn[m])]
      /\ \A n \in Modules : pc[n] \in Settled
      /\ UNCHANGED <<ifn, tfn, mtyp, fun, missing, patchedIfn, patchedTfn, patchedMtyp, cursor, modules, published>>
  BY DEF BeginUnload, MayStart, Goto, Hyp, hostVars, patchVars, lifeVars
<1>2. OneAtATime' /\ Lifecycle'
  BY <1>1 DEF Hyp, SeqInv, OneAtATime, Lifecycle, Busy, Settled, Reverting, TypeOK
<1>3. (Recorded /\ DeadNeedPatch /\ HostMtypKept /\ AllOrNothing /\ LoopCovered /\ JitPatched)'
  BY <1>1 DEF Hyp, SeqInv, Recorded, DeadNeedPatch, HostMtypKept, AllOrNothing, LoopCovered,
              MtypSlots, NeedsPatch, JitPatched, JitText
<1>4. RevertProgress'
  <2>1. pc'[m] = "revertIfn" /\ \A n \in Modules \ {m} : pc'[n] \in Settled
    BY <1>1 DEF Hyp, TypeOK
  <2>2. \A s \in patchedIfn[m] : s[1] \in todo'[m]
    BY <1>1 DEF Hyp, TypeOK, TypesOf
  <2> QED BY <1>1, <2>1, <2>2 DEF RevertProgress, Settled
<1> QED BY <1>2, <1>3, <1>4 DEF SeqInv

\* What getOtherPatchedMethodsForType finds has patched every method that is to
\* be reverted: nothing has to be reset.
LEMMA OthersKeep ==
  ASSUME Hyp, NEW m \in Modules, pc[m] \in Reverting, NEW t \in Types, Others(m, t) # {},
         NEW s \in patchedIfn[m], s[1] = t
  PROVE  Kept(m, s)
<1>1. PICK o \in Others(m, t) : TRUE
  OBVIOUS
<1>2. o \in modules \ {m} /\ o \in Modules
  BY DEF Others, Hyp, TypeOK
<1>3. t \in TypesOf(patchedIfn[o])
  <2>1. patchedIfn[o] \cup patchedTfn[o] \cup MtypSlots(o) = patchedIfn[o]
    BY <1>2 DEF Hyp, SeqInv, Recorded
  <2> QED BY <2>1 DEF Others
<1>4. cursor[o] = NoSlot
  <2>1. pc[o] \in Settled
    BY <1>2, Alone DEF Reverting, Settled
  <2> QED BY <1>2, <2>1 DEF Hyp, SeqInv, Lifecycle, Settled
<1>5. OfType(DeadSlots, t) \subseteq patchedIfn[o]
  <2>1. o \in published
    BY DEF Others
  <2> QED BY <1>2, <1>3, <1>4, <2>1 DEF Hyp, SeqInv, AllOrNothing, TypesOf
<1>6. s \in OfType(DeadSlots, t)
  BY DEF Hyp, UntouchedInv, OfType
<1> QED BY <1>2, <1>5, <1>6 DEF Kept

\* A revert loop never adds a reference to JIT text.
LEMMA RevertShrinks ==
  ASSUME Hyp, NEW m \in Modules, NEW t \in Types, NEW mine, RevertItabs(m, t, mine),
         ifn' = ifn \/ ifn' = Reverted(ifn, m, t, mine),
         tfn' = tfn \/ tfn' = Reverted(tfn, m, t, mine)
  PROVE  \A s \in Slots : (JitText(s)' => JitText(s)) /\ (JitIfn(s)' => JitIfn(s))
<1>1. \A s \in Slots : ifn'[s] \in Modules => ifn'[s] = ifn[s]
  BY ConstantsAssumption DEF Reverted, Cleared
<1>2. \A s \in Slots : tfn'[s] \in Modules => tfn'[s] = tfn[s]
  BY ConstantsAssumption DEF Reverted, Cleared
<1>3. \A s \in ItabSlots : fun'[s] = fun[s] \/ fun'[s] = ifn'[s]
  BY DEF RevertItabs, Adjusted
<1> QED BY <1>1, <1>2, <1>3, SlotFacts DEF JitText, JitIfn

\* The parts of SeqInv that a revert loop does not disturb.
LEMMA RevertFrame ==
  ASSUME Hyp, NEW m \in Modules, NEW t \in Types, NEW mine \in SUBSET missing, RevertItabs(m, t, mine),
         ifn' = ifn \/ ifn' = Reverted(ifn, m, t, mine),
         tfn' = tfn \/ tfn' = Reverted(tfn, m, t, mine),
         UNCHANGED <<mtyp, missing, patchVars, lifeVars, pc, cursor>>
  PROVE  /\ (OneAtATime /\ Lifecycle /\ Recorded /\ DeadNeedPatch /\ HostMtypKept)'
         /\ (AllOrNothing /\ LoopCovered /\ JitPatched)'
<1> USE DEF patchVars, lifeVars
<1>1. (OneAtATime /\ Lifecycle /\ Recorded /\ HostMtypKept /\ AllOrNothing /\ LoopCovered)'
  BY DEF Hyp, SeqInv, OneAtATime, Lifecycle, Busy, Recorded, MtypSlots, HostMtypKept, AllOrNothing, LoopCovered
<1>2. DeadNeedPatch'
  <2>1. \A s \in Slots : ifn'[s] = ifn[s] \/ ifn'[s] = Missing
    BY DEF Reverted, Cleared
  <2>2. \A s \in Slots : tfn'[s] = tfn[s] \/ tfn'[s] = Missing \/ s \in missing
    BY DEF Reverted, Cleared, OfType
  <2>3. ASSUME NEW s \in DeadSlots PROVE NeedsPatch(s)'
    <3>1. s \in Slots /\ NeedsPatch(s)
      BY SlotFacts DEF Hyp, SeqInv, DeadNeedPatch
    <3> QED BY <2>1, <2>2, <3>1 DEF NeedsPatch
  <2> QED BY <2>3 DEF DeadNeedPatch
<1>3. JitPatched'
  BY RevertShrinks DEF Hyp, SeqInv, JitPatched
<1> QED BY <1>1, <1>2, <1>3

LEMMA RevertIfnSeq ==
  ASSUME Hyp, NEW m \in Modules, NEW t \in Types, RevertIfn(m, t)
  PROVE  SeqInv'
<1>1. /\ pc[m] = "revertIfn" /\ t \in todo[m]
      /\ ifn' = Reverted(ifn, m, t, patchedIfn[m]) /\ tfn' = tfn
      /\ RevertItabs(m, t, patchedIfn[m])
      /\ todo' = [todo EXCEPT ![m] = @ \ {t}]
      /\ UNCHANGED <<mtyp, missing, patchVars, lifeVars, pc, cursor>>
  BY DEF RevertIfn
<1>2. patchedIfn[m] \in SUBSET missing
  BY DEF Hyp, SeqInv, Recorded
<1>3. \A s \in Slots : (JitText(s)' => JitText(s)) /\ (JitIfn(s)' => JitIfn(s))
  BY <1>1, RevertShrinks
<1>4. RevertProgress'
  <2>1. \A n \in Modules \ {m} : pc'[n] \in Settled
    BY <1>1, Alone DEF Settled
  <2>2. ASSUME NEW s \in Slots, s \in patchedIfn[m], ~Kept(m, s), s[1] \notin todo'[m]
        PROVE  ~JitIfn(s)'
    <3>1. CASE s[1] # t
      <4>1. s[1] \notin todo[m]
        BY <1>1, <2>2, <3>1 DEF Hyp, TypeOK
      <4>2. ~JitIfn(s)
        BY <1>1, <2>2, <4>1 DEF Hyp, SeqInv, RevertProgress
      <4> QED BY <1>3, <4>2
    <3>2. CASE s[1] = t
      <4>1. Others(m, t) = {}
        BY <1>1, <2>2, <3>2, OthersKeep DEF Reverting
      <4>2. s \in OfType(patchedIfn[m], t)
        BY <2>2, <3>2 DEF OfType
      <4>3. ifn'[s] = Missing
        BY <1>1, <4>1, <4>2 DEF Reverted, Cleared
      <4>4. s \in ItabSlots => fun'[s] = ifn'[s]
        BY <1>1, <4>1, <4>2, ConstantsAssumption
        DEF RevertItabs, Adjusted, Hyp, SeqInv, HostMtypKept
      <4> QED BY <4>3, <4>4, ConstantsAssumption DEF JitIfn
    <3> QED BY <3>1, <3>2
  <2>3. pc'[m] = "revertIfn" /\ patchedIfn' = patchedIfn /\ modules' = modules
    BY <1>1 DEF patchVars, lifeVars
  <2>4. \A n \in Modules, s \in Slots : Kept(n, s)' <=> Kept(n, s)
    BY <2>3 DEF Kept
  <2> QED BY <2>1, <2>2, <2>3, <2>4 DEF RevertProgress, Settled
<1> QED BY <1>1, <1>2, <1>4, RevertFrame DEF SeqInv

LEMMA RevertTfnSeq ==
  ASSUME Hyp, NEW m \in Modules, NEW t \in Types, RevertTfn(m, t)
  PROVE  SeqInv'
<1>1. /\ pc[m] = "revertTfn" /\ t \in todo[m]
      /\ ifn' = ifn /\ tfn' = Reverted(tfn, m, t, patchedTfn[m])
      /\ RevertItabs(m, t, patchedTfn[m])
      /\ todo' = [todo EXCEPT ![m] = @ \ {t}]
      /\ UNCHANGED <<mtyp, missing, patchVars, lifeVars, pc, cursor>>
  BY DEF RevertTfn
<1>2. patchedTfn[m] = patchedIfn[m] /\ patchedTfn[m] \in SUBSET missing
  BY DEF Hyp, SeqInv, Recorded
<1>3. \A s \in Slots : (JitText(s)' => JitText(s)) /\ (JitIfn(s)' => JitIfn(s))
  BY <1>1, RevertShrinks
<1>4. RevertProgress'
  <2>1. \A n \in Modules \ {m} : pc'[n] \in Settled
    BY <1>1, Alone DEF Settled
  <2>2. ASSUME NEW s \in Slots, s \in patchedIfn[m], ~Kept(m, s)
        PROVE  ~JitIfn(s)' /\ (s[1] \notin todo'[m] => ~JitText(s)')
    <3>1. ~JitIfn(s)'
      BY <1>1, <1>3, <2>2 DEF Hyp, SeqInv, RevertProgress
    <3>2. CASE s[1] # t /\ s[1] \notin todo'[m]
      <4>1. s[1] \notin todo[m]
        BY <1>1, <3>2 DEF Hyp, TypeOK
      <4>2. ~JitText(s)
        BY <1>1, <2>2, <4>1 DEF Hyp, SeqInv, RevertProgress
      <4> QED BY <1>3, <3>1, <4>2
    <3>3. CASE s[1] = t
      <4>1. Others(m, t) = {}
        BY <1>1, <2>2, <3>3, OthersKeep DEF Reverting
      <4>2. s \in OfType(patchedTfn[m], t)
        BY <1>2, <2>2, <3>3 DEF OfType
      <4>3. tfn'[s] = Missing
        BY <1>1, <4>1, <4>2 DEF Reverted, Cleared
      <4> QED BY <3>1, <4>3, ConstantsAssumption DEF JitIfn, JitText
    <3> QED BY <3>1, <3>2, <3>3
  <2>3. pc'[m] = "revertTfn" /\ patchedIfn' = patchedIfn /\ modules' = modules
    BY <1>1 DEF patchVars, lifeVars
  <2>4. \A n \in Modules, s \in Slots : Kept(n, s)' <=> Kept(n, s)
    BY <2>3 DEF Kept
  <2> QED BY <2>1, <2>2, <2>3, <2>4 DEF RevertProgress, Settled
<1> QED BY <1>1, <1>2, <1>4, RevertFrame DEF SeqInv

LEMMA RevertMtypSeq ==
  ASSUME Hyp, NEW m \in Modules, NEW t \in Types, RevertMtyp(m, t)
  PROVE  SeqInv'
<1>1. /\ pc[m] = "revertMtyp"
      /\ todo' = [todo EXCEPT ![m] = @ \ {t}]
      /\ UNCHANGED <<ifn, tfn, fun, missing, patchVars, lifeVars, pc, cursor>>
  BY DEF RevertMtyp
<1>2. (OneAtATime /\ Lifecycle /\ Recorded /\ AllOrNothing /\ LoopCovered /\ JitPatched)'
  BY <1>1 DEF patchVars, lifeVars, Hyp, SeqInv, OneAtATime, Lifecycle, Busy, Recorded, MtypSlots,
              AllOrNothing, LoopCovered, JitPatched, JitText
<1>3. \A s \in Slots : mtyp'[s] = mtyp[s] \/ s \in MtypSlots(m)
  BY DEF RevertMtyp, OfType
<1>4. MtypSlots(m) \subseteq missing \ HostMtyp
  BY DEF Hyp, SeqInv, Recorded
<1>5. HostMtypKept'
  BY <1>3, <1>4, ConstantsAssumption DEF Hyp, SeqInv, HostMtypKept
<1>6. DeadNeedPatch'
  BY <1>1, <1>3, <1>4, SlotFacts DEF Hyp, SeqInv, DeadNeedPatch, NeedsPatch
<1>7. RevertProgress'
  <2>1. pc'[m] = "revertMtyp" /\ \A n \in Modules \ {m} : pc'[n] \in Settled
    BY <1>1, Alone DEF Settled
  <2>2. \A n \in Modules, s \in Slots :
          (Kept(n, s)' <=> Kept(n, s)) /\ (JitText(s)' <=> JitText(s)) /\ (JitIfn(s)' <=> JitIfn(s))
    BY <1>1 DEF Kept, JitText, JitIfn, patchVars, lifeVars
  <2> QED BY <1>1, <2>1, <2>2 DEF Hyp, SeqInv, RevertProgress, Settled, patchVars
<1> QED BY <1>2, <1>5, <1>6, <1>7 DEF SeqInv

LEMMA NextLoopSeq ==
  ASSUME Hyp, NEW m \in Modules, NextLoop(m)
  PROVE  SeqInv'
<1>1. UNCHANGED <<ifn, tfn, fun, mtyp, missing, patchedIfn, patchedTfn, patchedMtyp, modules, published, cursor>>
  BY DEF NextLoop, hostVars, patchVars, lifeVars
<1>2. PICK l \in Reverting : pc[m] \in Reverting /\ pc' = [pc EXCEPT ![m] = l]
  BY DEF NextLoop, Goto, Reverting
<1>3. OneAtATime' /\ Lifecycle'
  BY <1>1, <1>2 DEF Hyp, SeqInv, OneAtATime, Lifecycle, Busy, Settled, Reverting, TypeOK
<1>4. (Recorded /\ DeadNeedPatch /\ HostMtypKept /\ AllOrNothing /\ LoopCovered /\ JitPatched)'
  BY <1>1, <1>2 DEF Hyp, TypeOK, Reverting, SeqInv, Recorded, DeadNeedPatch, HostMtypKept, AllOrNothing, LoopCovered,
              MtypSlots, NeedsPatch, JitPatched, JitText
<1>5. RevertProgress'
  <2>1. \A n \in Modules \ {m} : pc'[n] \in Settled
    BY <1>2, Alone DEF Settled, Reverting, Hyp, TypeOK
  <2>2. \A n \in Modules, s \in Slots :
          (Kept(n, s)' <=> Kept(n, s)) /\ (JitText(s)' <=> JitText(s)) /\ (JitIfn(s)' <=> JitIfn(s))
    BY <1>1 DEF Kept, JitText, JitIfn
  <2>3. ASSUME NEW s \in Slots, s \in patchedIfn[m], ~Kept(m, s)
        PROVE  /\ pc'[m] # "revertIfn"
               /\ pc'[m] = "revertTfn" => ~JitIfn(s) /\ s[1] \in todo'[m]
               /\ pc'[m] \in {"revertMtyp", "reverted"} => ~JitText(s)
    <3>1. CASE pc[m] = "revertIfn"
      <4>1. pc'[m] = "revertTfn" /\ todo[m] = {} /\ todo'[m] = TypesOf(patchedTfn[m])
        BY <3>1 DEF NextLoop, Goto, Hyp, TypeOK
      <4>2. s[1] \in TypesOf(patchedTfn[m])
        BY <2>3 DEF TypesOf, Hyp, SeqInv, Recorded
      <4> QED BY <2>3, <3>1, <4>1, <4>2 DEF Hyp, SeqInv, RevertProgress
    <3>2. CASE pc[m] = "revertTfn"
      <4>1. pc'[m] = "revertMtyp" /\ todo[m] = {}
        BY <3>2 DEF NextLoop, Goto, Hyp, TypeOK
      <4> QED BY <2>3, <3>2, <4>1 DEF Hyp, SeqInv, RevertProgress
    <3>3. CASE pc[m] = "revertMtyp"
      <4>1. pc'[m] = "reverted"
        BY <3>3 DEF NextLoop, Goto, Hyp, TypeOK
      <4> QED BY <2>3, <3>3, <4>1 DEF Hyp, SeqInv, RevertProgress
    <3> QED BY <3>1, <3>2, <3>3 DEF NextLoop
  <2> QED BY <1>1, <2>1, <2>2, <2>3 DEF RevertProgress, Settled
<1> QED BY <1>3, <1>4, <1>5 DEF SeqInv

LEMMA RemoveModuleSeq ==
  ASSUME Hyp, NEW m \in Modules, RemoveModule(m)
  PROVE  SeqInv'
<1>1. /\ pc[m] = "reverted" /\ pc' = [pc EXCEPT ![m] = "removed"]
      /\ modules' = modules \ {m}
      /\ UNCHANGED <<ifn, tfn, mtyp, fun, missing, patchedIfn, patchedTfn, patchedMtyp, cursor, todo, published>>
  BY DEF RemoveModule, Goto, hostVars, patchVars
<1>2. OneAtATime' /\ Lifecycle'
  BY <1>1 DEF Hyp, SeqInv, OneAtATime, Lifecycle, Busy, Settled, Reverting, TypeOK
<1>3. (Recorded /\ DeadNeedPatch /\ HostMtypKept /\ AllOrNothing /\ LoopCovered)'
  BY <1>1 DEF Hyp, SeqInv, Recorded, DeadNeedPatch, HostMtypKept, AllOrNothing, LoopCovered, MtypSlots, NeedsPatch
<1>4. JitPatched'
  <2>1. ASSUME NEW s \in Slots, JitText(s)
        PROVE  \E n \in modules \ {m} : s \in patchedIfn[n]
    <3>1. PICK n \in modules : s \in patchedIfn[n]
      BY <2>1 DEF Hyp, SeqInv, JitPatched
    <3>2. n = m => Kept(m, s)
      BY <1>1, <2>1, <3>1 DEF Hyp, SeqInv, RevertProgress
    <3> QED BY <3>1, <3>2 DEF Kept
  <2> QED BY <1>1, <2>1 DEF JitPatched, JitText
<1>5. RevertProgress'
  <2>1. \A n \in Modules : pc'[n] \notin Reverting
    <3>1. \A n \in Modules \ {m} : pc[n] \in Settled
      BY <1>1, Alone DEF Settled
    <3> QED BY <1>1, <3>1 DEF Settled, Reverting, Hyp, TypeOK
  <2> QED BY <2>1, NobodyReverting
<1> QED BY <1>2, <1>3, <1>4, <1>5 DEF SeqInv

LEMMA UnmapModuleSeq ==
  ASSUME Hyp, NEW m \in Modules, UnmapModule(m)
  PROVE  SeqInv'
<1>1. /\ pc[m] = "removed" /\ pc' = [pc EXCEPT ![m] = "unloaded"]
      /\ UNCHANGED <<ifn, tfn, mtyp, fun, missing, patchedIfn, patchedTfn, patchedMtyp, cursor, todo, modules, published>>
  BY DEF UnmapModule, Goto, hostVars, patchVars
<1>2. OneAtATime' /\ Lifecycle'
  BY <1>1 DEF Hyp, SeqInv, OneAtATime, Lifecycle, Busy, Settled, Reverting, TypeOK
<1>3. (Recorded /\ DeadNeedPatch /\ HostMtypKept /\ AllOrNothing /\ LoopCovered /\ JitPatched)'
  BY <1>1 DEF Hyp, SeqInv, Recorded, DeadNeedPatch, HostMtypKept, AllOrNothing, LoopCovered,
              MtypSlots, NeedsPatch, JitPatched, JitText
<1>4. RevertProgress'
  <2>1. \A n \in Modules : pc'[n] \notin Reverting
    <3>1. \A n \in Modules \ {m} : pc[n] \in Settled
      BY <1>1, Alone DEF Settled
    <3> QED BY <1>1, <3>1 DEF Settled, Reverting, Hyp, TypeOK
  <2> QED BY <2>1, NobodyReverting
<1> QED BY <1>2, <1>3, <1>4 DEF SeqInv

LEMMA StepSeq ==
  ASSUME Hyp, [Next]_vars
  PROVE  SeqInv'
<1>1. ASSUME NEW m \in Modules, LoadStep(m) PROVE SeqInv'
  BY <1>1, StartDedupSeq, BeginRelocSeq, PatchMethodSeq, PublishSeq, PatchItabsSeq, FailLoadSeq
  DEF LoadStep
<1>2. ASSUME NEW m \in Modules, UnloadStep(m) PROVE SeqInv'
  BY <1>2, BeginUnloadSeq, RevertIfnSeq, RevertTfnSeq, RevertMtypSeq, NextLoopSeq, RemoveModuleSeq,
     UnmapModuleSeq DEF UnloadStep
<1>3. CASE UNCHANGED vars
  BY <1>3 DEF vars, hostVars, patchVars, lifeVars, Hyp, SeqInv, OneAtATime, Lifecycle, Busy, Recorded,
              DeadNeedPatch, NeedsPatch, HostMtypKept, AllOrNothing, LoopCovered, JitPatched, JitText,
              JitIfn, Kept, MtypSlots, RevertProgress
<1> QED BY <1>1, <1>2, <1>3 DEF Next

\* With one operation at a time, the host's tables refer to
\* JIT text only while a loaded module has recorded the patch: the last module
\* that patched a method takes the patch back (itab.go:308-326, 338-355).
THEOREM LastPatcherReverts ==
  ASSUME Sequential
  PROVE  Spec => []JitTextNeedsPatcher
<1>1. TypeOK /\ UntouchedInv /\ SeqInv /\ [Next]_vars => UntouchedInv' /\ SeqInv'
  <2>1. TypeOK /\ UntouchedInv /\ [Next]_vars => UntouchedInv'
    BY StepUntouched
  <2>2. TypeOK /\ UntouchedInv /\ SeqInv /\ [Next]_vars => SeqInv'
    BY StepSeq DEF Hyp
  <2> QED BY <2>1, <2>2
<1>2. TypeOK /\ SeqInv => JitTextNeedsPatcher
  <2>1. ASSUME TypeOK, SeqInv, NEW s \in Slots, JitText(s)
        PROVE  \E m \in modules : s \in patchedIfn[m] \cap patchedTfn[m]
    <3>1. PICK m \in modules : s \in patchedIfn[m]
      BY <2>1 DEF SeqInv, JitPatched
    <3>2. patchedIfn[m] = patchedTfn[m]
      BY <2>1, <3>1 DEF SeqInv, Recorded, TypeOK
    <3> QED BY <3>1, <3>2
  <2> QED BY <2>1 DEF JitTextNeedsPatcher, JitText
<1> QED BY <1>1, <1>2, InitUntouched, InitSeq, TypeCorrect, PTL DEF Spec

--------------------------------------------------------------------------------
(***************************************************************************)
(* One operation at a time, failing Loads included: what the tables say    *)
(* between operations.  The methods of a loaded module are not reset,      *)
(* since whoever resets a type has not found another module that patched   *)
(* it; an itab entry differs from its method only between the method loop  *)
(* of a Load and its patchTypeMethodTextPtrs; and what a host's linker     *)
(* dropped is either reset or recorded by a module that is still in the    *)
(* map.                                                                    *)
(***************************************************************************)
Fresh == \A m \in Modules : pc[m] = "new" => patchedIfn[m] = {}

Reachable == \A m \in Modules : \A s \in patchedIfn[m] :
  /\ pc[m] \in {"dedup", "publish", "loaded"} => ifn[s] # Missing /\ tfn[s] # Missing
  /\ pc[m] = "loaded" /\ s \in ItabSlots => fun[s] # Missing

Behind(s) == \E m \in Modules : pc[m] \in {"dedup", "publish", "failed"} /\ s \in patchedIfn[m]

ItabsFollow == \A s \in ItabSlots : fun[s] = ifn[s] \/ Behind(s)

HostTextKept == \A s \in Slots :
  /\ ifn[s] = Host => s \in HostIfn
  /\ tfn[s] = Host => s \in HostTfn
  /\ s \in ItabSlots /\ fun[s] = Host => s \in HostIfn

MtypDropped ==
  /\ \A s \in Slots \ HostMtyp : mtyp[s] < 0
  /\ \A m \in Modules, s \in Slots : patchedMtyp[m][s] <= 0
  /\ \A m \in Modules : patchedIfn[m] \ HostMtyp \subseteq MtypSlots(m)

MtypPatched == \A s \in Slots : mtyp[s] < -1 => \E m \in modules : s \in patchedIfn[m]

MtypProgress == \A m \in Modules : \A s \in MtypSlots(m) : ~Kept(m, s) =>
  /\ pc[m] = "revertMtyp" /\ s[1] \notin todo[m] => ~(mtyp[s] < -1)
  /\ pc[m] = "reverted" => ~(mtyp[s] < -1)

TablesInv ==
  /\ Fresh /\ Reachable /\ ItabsFollow /\ HostTextKept
  /\ MtypDropped /\ MtypPatched /\ MtypProgress

HypT == Hyp /\ TablesInv

LEMMA InitTables == Init => TablesInv
<1> SUFFICES ASSUME Init PROVE TablesInv
  OBVIOUS
<1>1. \A m \in Modules : MtypSlots(m) = {} /\ patchedIfn[m] = {}
  BY DEF Init, MtypSlots
<1>2. Fresh /\ Reachable /\ MtypProgress
  BY <1>1 DEF Fresh, Reachable, MtypProgress
<1>3. ItabsFollow /\ HostTextKept
  BY ConstantsAssumption, SlotFacts DEF Init, ItabsFollow, HostTextKept, FromHost
<1>4. MtypDropped /\ MtypPatched
  BY <1>1 DEF Init, MtypDropped, MtypPatched, HostMtypOff, HostOff
<1> QED BY <1>2, <1>3, <1>4 DEF TablesInv

\* The steps that leave the host's tables and the records of patches alone.
LEMMA QuietTables ==
  ASSUME HypT, NEW m \in Modules, NEW l,
         UNCHANGED <<ifn, tfn, mtyp, fun, patchedIfn, patchedMtyp>>,
         pc' = [pc EXCEPT ![m] = l] \/ pc' = pc,
         modules \subseteq modules',
         l # "new", l # "loaded",
         l \in {"dedup", "publish"} => pc[m] \in {"new", "dedup", "publish"},
         pc[m] \in {"dedup", "publish", "failed"} => l \in {"dedup", "publish", "failed"}
  PROVE  (Fresh /\ Reachable /\ ItabsFollow /\ HostTextKept /\ MtypDropped /\ MtypPatched)'
<1>1. pc \in [Modules -> PCs]
  BY DEF HypT, Hyp, TypeOK
<1>2. Fresh' /\ Reachable'
  BY <1>1 DEF HypT, TablesInv, Fresh, Reachable
<1>3. ItabsFollow'
  <2>1. ASSUME NEW s \in ItabSlots, Behind(s) PROVE Behind(s)'
    BY <1>1, <2>1 DEF Behind
  <2> QED BY <2>1 DEF HypT, TablesInv, ItabsFollow
<1>4. HostTextKept' /\ MtypDropped' /\ MtypPatched'
  BY DEF HypT, TablesInv, HostTextKept, MtypDropped, MtypSlots, MtypPatched
<1> QED BY <1>2, <1>3, <1>4

\* MtypProgress only speaks of modules in the last loop of an Unload.
LEMMA NobodyResetting ==
  ASSUME \A n \in Modules : pc'[n] \notin {"revertMtyp", "reverted"}
  PROVE  MtypProgress'
BY DEF MtypProgress

LEMMA QuietLoadTables ==
  ASSUME HypT, NEW m \in Modules,
         StartDedup(m) \/ (\E t \in Types : BeginReloc(m, t)) \/ Publish(m) \/ FailLoad(m)
  PROVE  TablesInv'
<1> USE DEF hostVars, patchVars, lifeVars
<1>1. PICK l : /\ UNCHANGED <<ifn, tfn, mtyp, fun, patchedIfn, patchedMtyp>>
               /\ pc' = [pc EXCEPT ![m] = l] \/ pc' = pc
               /\ modules \subseteq modules'
               /\ l \in {"dedup", "publish", "failed"}
               /\ l \in {"dedup", "publish"} => pc[m] \in {"new", "dedup", "publish"}
               /\ \A n \in Modules \ {m} : pc[n] \in Settled
               /\ pc[m] \in {"new", "dedup", "publish"}
  <2>1. CASE StartDedup(m)
    BY <2>1 DEF StartDedup, MayStart, Goto, HypT, Hyp
  <2>2. ASSUME pc[m] \notin Settled PROVE \A n \in Modules \ {m} : pc[n] \in Settled
    BY <2>2, Alone DEF HypT
  <2>3. CASE \E t \in Types : BeginReloc(m, t)
    BY <2>2, <2>3 DEF BeginReloc, Settled
  <2>4. CASE Publish(m)
    BY <2>2, <2>4 DEF Publish, Goto, Settled
  <2>5. CASE FailLoad(m)
    BY <2>2, <2>5 DEF FailLoad, Goto, Settled
  <2> QED BY <2>1, <2>3, <2>4, <2>5
<1>2. (Fresh /\ Reachable /\ ItabsFollow /\ HostTextKept /\ MtypDropped /\ MtypPatched)'
  BY <1>1, QuietTables
<1>3. MtypProgress'
  BY <1>1, NobodyResetting DEF Settled, HypT, Hyp, TypeOK
<1> QED BY <1>2, <1>3 DEF TablesInv

LEMMA PatchMethodTables ==
  ASSUME HypT, NEW m \in Modules, PatchMethod(m)
  PROVE  TablesInv'
<1> DEFINE s == cursor[m]
<1>1. /\ pc[m] = "dedup" /\ s \in Slots /\ m \in modules
      /\ UNCHANGED <<fun, modules, pc>>
  BY DEF PatchMethod, lifeVars, HypT, Hyp, TypeOK, SeqInv, Lifecycle
<1>2. MtypProgress'
  <2>1. \A n \in Modules : pc'[n] \notin {"revertMtyp", "reverted"}
    BY <1>1, Alone DEF Settled, HypT
  <2> QED BY <2>1, NobodyResetting
<1>3. CASE ~NeedsPatch(s)
  BY <1>1, <1>2, <1>3 DEF PatchMethod, patchVars, HypT, TablesInv, Fresh, Reachable, ItabsFollow, Behind,
     HostTextKept, MtypDropped, MtypPatched, MtypSlots
<1>4. CASE NeedsPatch(s)
  <2>1. /\ ifn' = [ifn EXCEPT ![s] = Provided(HostIfn, m, s)]
        /\ tfn' = [tfn EXCEPT ![s] = Provided(HostTfn, m, s)]
        /\ patchedIfn' = [patchedIfn EXCEPT ![m] = @ \cup {s}]
        /\ PatchMtyp(m, s)
    BY <1>4 DEF PatchMethod
  <2> HIDE DEF s
  <2>2. /\ ifn'[s] = Provided(HostIfn, m, s) /\ tfn'[s] = Provided(HostTfn, m, s)
        /\ \A u \in Slots : u # s => ifn'[u] = ifn[u] /\ tfn'[u] = tfn[u]
        /\ patchedIfn'[m] = patchedIfn[m] \cup {s}
        /\ \A n \in Modules : n # m => patchedIfn'[n] = patchedIfn[n]
        /\ \A n \in Modules : patchedIfn[n] \subseteq Slots
    BY <1>1, <2>1 DEF HypT, Hyp, TypeOK
  <2>3. \A kept : /\ Provided(kept, m, s) # Missing
                  /\ Provided(kept, m, s) = Host => s \in kept
    BY ConstantsAssumption DEF Provided
  <2>4. Fresh' /\ Reachable'
    BY <1>1, <2>2, <2>3 DEF HypT, TablesInv, Fresh, Reachable
  <2>5. ItabsFollow'
    <3>1. ASSUME NEW u \in ItabSlots PROVE u = s => Behind(u)'
      BY <1>1, <2>2 DEF Behind
    <3>2. ASSUME NEW u \in ItabSlots, Behind(u) PROVE Behind(u)'
      BY <1>1, <2>2, <3>2 DEF Behind
    <3> QED BY <1>1, <2>2, <3>1, <3>2, SlotFacts DEF HypT, TablesInv, ItabsFollow
  <2>6. HostTextKept'
    BY <1>1, <2>2, <2>3 DEF HypT, TablesInv, HostTextKept
  <2>7. /\ \A u \in Slots : u # s => mtyp'[u] = mtyp[u]
        /\ \A n \in Modules, u \in Slots : n # m \/ u # s => patchedMtyp'[n][u] = patchedMtyp[n][u]
        /\ mtyp[s] < 0 => mtyp'[s] = counter - 1 /\ patchedMtyp'[m][s] = counter - 1
        /\ ~(mtyp[s] < 0) => mtyp'[s] = mtyp[s] /\ patchedMtyp'[m][s] = patchedMtyp[m][s]
        /\ counter \in Int /\ counter <= -1
    <3>1. /\ mtyp \in [Slots -> Int] /\ patchedMtyp \in [Modules -> [Slots -> Int]]
          /\ counter \in Int /\ counter <= -1
      BY DEF HypT, Hyp, TypeOK
    <3>2. CASE mtyp[s] < 0
      <4>1. mtyp' = [mtyp EXCEPT ![s] = counter - 1] /\ patchedMtyp' = [patchedMtyp EXCEPT ![m][s] = counter - 1]
        BY <2>1, <3>2 DEF PatchMtyp
      <4> QED BY <1>1, <3>1, <3>2, <4>1
    <3>3. CASE ~(mtyp[s] < 0)
      BY <2>1, <3>1, <3>3 DEF PatchMtyp
    <3> QED BY <3>2, <3>3
  <2>8. MtypDropped'
    <3>1. \A u \in Slots \ HostMtyp : mtyp'[u] < 0
      BY <2>7 DEF HypT, TablesInv, MtypDropped
    <3>2. \A n \in Modules, u \in Slots : patchedMtyp'[n][u] <= 0
      BY <2>7 DEF HypT, TablesInv, MtypDropped
    <3>3. ASSUME NEW n \in Modules, NEW u \in patchedIfn'[n], u \notin HostMtyp
          PROVE  patchedMtyp'[n][u] # 0 /\ u \in Slots
      <4>1. CASE n = m /\ u = s
        <5>1. mtyp[s] < 0
          BY <1>1, <3>3, <4>1 DEF HypT, TablesInv, MtypDropped
        <5> QED BY <1>1, <2>7, <4>1, <5>1
      <4>2. CASE n # m \/ u # s
        <5>1. u \in patchedIfn[n] /\ u \in Slots
          BY <2>2, <3>3, <4>2
        <5>2. patchedMtyp[n][u] # 0
          BY <3>3, <5>1 DEF HypT, TablesInv, MtypDropped, MtypSlots
        <5> QED BY <2>7, <4>2, <5>1, <5>2
      <4> QED BY <4>1, <4>2
    <3> QED BY <3>1, <3>2, <3>3 DEF MtypDropped, MtypSlots
  <2>9. MtypPatched'
    BY <1>1, <2>2, <2>7 DEF HypT, Hyp, TypeOK, TablesInv, MtypPatched
  <2> QED BY <1>2, <2>4, <2>5, <2>6, <2>8, <2>9 DEF TablesInv
<1> QED BY <1>3, <1>4

LEMMA PatchItabsTables ==
  ASSUME HypT, NEW m \in Modules, PatchItabs(m)
  PROVE  TablesInv'
<1>1. /\ pc[m] = "publish" /\ pc' = [pc EXCEPT ![m] = "loaded"]
      /\ fun' = Adjusted(fun, ifn, patchedIfn[m] \cup patchedTfn[m])
      /\ UNCHANGED <<ifn, tfn, mtyp, patchedIfn, patchedMtyp, modules>>
  BY DEF PatchItabs, Goto, patchVars, lifeVars
<1>2. /\ pc \in [Modules -> PCs] /\ \A n \in Modules \ {m} : pc[n] \in Settled
      /\ patchedIfn[m] \cup patchedTfn[m] = patchedIfn[m]
  BY <1>1, Alone DEF Settled, HypT, Hyp, TypeOK, SeqInv, Recorded
<1>3. \A s \in ItabSlots : /\ s \in patchedIfn[m] => fun'[s] = ifn[s]
                           /\ s \notin patchedIfn[m] => fun'[s] = fun[s]
  BY <1>1, <1>2, ConstantsAssumption DEF Adjusted, HypT, Hyp, SeqInv, HostMtypKept
<1>4. Fresh' /\ Reachable'
  BY <1>1, <1>2, <1>3 DEF HypT, TablesInv, Fresh, Reachable
<1>5. ItabsFollow'
  <2>1. ASSUME NEW s \in ItabSlots, Behind(s), s \notin patchedIfn[m] PROVE Behind(s)'
    BY <1>1, <1>2, <2>1 DEF Behind
  <2> QED BY <1>1, <1>3, <2>1 DEF HypT, TablesInv, ItabsFollow
<1>6. HostTextKept' /\ MtypDropped' /\ MtypPatched'
  BY <1>1, <1>3, SlotFacts DEF HypT, TablesInv, HostTextKept, MtypDropped, MtypPatched, MtypSlots
<1>7. MtypProgress'
  BY <1>1, <1>2, NobodyResetting DEF Settled
<1> QED BY <1>4, <1>5, <1>6, <1>7 DEF TablesInv

LEMMA BeginUnloadTables ==
  ASSUME HypT, NEW m \in Modules, BeginUnload(m)
  PROVE  TablesInv'
<1>1. /\ pc[m] = "loaded" /\ pc' = [pc EXCEPT ![m] = "revertIfn"]
      /\ \A n \in Modules : pc[n] \in Settled
      /\ UNCHANGED <<ifn, tfn, mtyp, fun, patchedIfn, patchedMtyp, modules>>
  BY DEF BeginUnload, MayStart, Goto, HypT, Hyp, hostVars, patchVars, lifeVars
<1>2. (Fresh /\ Reachable /\ ItabsFollow /\ HostTextKept /\ MtypDropped /\ MtypPatched)'
  BY <1>1, QuietTables
<1>3. MtypProgress'
  BY <1>1, NobodyResetting DEF Settled, HypT, Hyp, TypeOK
<1> QED BY <1>2, <1>3 DEF TablesInv

\* A type that is reset has not been patched by a loaded module: none was found.
LEMMA NobodyElse ==
  ASSUME HypT, NEW m \in Modules, pc[m] \in Reverting, NEW t \in Types, Others(m, t) = {},
         NEW n \in Modules, pc[n] = "loaded", NEW s \in patchedIfn[n]
  PROVE  s[1] # t
<1>1. n \in modules \cap published /\ n # m
  BY DEF HypT, Hyp, SeqInv, Lifecycle, Reverting
<1>2. s[1] \in TypesOf(patchedIfn[n] \cup patchedTfn[n] \cup MtypSlots(n))
  BY DEF TypesOf
<1> QED BY <1>1, <1>2 DEF Others

\* What a loop over the functions of a type does to the tables.
LEMMA RevertTables ==
  ASSUME HypT, NEW m \in Modules, pc[m] \in Reverting, NEW t \in Types, NEW mine \in SUBSET patchedIfn[m],
         RevertItabs(m, t, mine),
         ifn' = ifn \/ ifn' = Reverted(ifn, m, t, mine),
         tfn' = tfn \/ tfn' = Reverted(tfn, m, t, mine),
         UNCHANGED <<mtyp, patchVars, lifeVars, pc>>
  PROVE  (Fresh /\ Reachable /\ ItabsFollow /\ HostTextKept /\ MtypDropped /\ MtypPatched)'
<1> USE DEF patchVars, lifeVars
<1>1. \A s \in Slots : ifn'[s] = ifn[s] \/ (ifn'[s] = Missing /\ Others(m, t) = {} /\ s \in OfType(mine, t))
  BY DEF Reverted, Cleared
<1>2. \A s \in Slots : tfn'[s] = tfn[s] \/ (tfn'[s] = Missing /\ Others(m, t) = {} /\ s \in OfType(mine, t))
  BY DEF Reverted, Cleared
<1>3. \A s \in ItabSlots : fun'[s] = fun[s] \/ fun'[s] = ifn'[s]
  BY DEF RevertItabs, Adjusted
<1>4. \A s \in ItabSlots : Others(m, t) = {} /\ s \in OfType(mine, t) => fun'[s] = ifn'[s]
  BY ConstantsAssumption DEF RevertItabs, Adjusted, HypT, Hyp, SeqInv, HostMtypKept
<1>5. ASSUME NEW n \in Modules, NEW s \in patchedIfn[n],
             pc[n] \in {"dedup", "publish", "loaded"}
      PROVE  ~(Others(m, t) = {} /\ s \in OfType(mine, t))
  <2>1. pc[n] = "loaded"
    BY <1>5, Alone DEF HypT, Reverting, Settled
  <2> QED BY <2>1, NobodyElse DEF OfType
<1>6. Reachable'
  <2>1. ASSUME NEW n \in Modules, NEW s \in patchedIfn[n], pc[n] \in {"dedup", "publish", "loaded"}
        PROVE  ifn'[s] = ifn[s] /\ tfn'[s] = tfn[s]
    <3>1. s \in Slots
      BY <2>1 DEF HypT, Hyp, TypeOK
    <3> QED BY <1>1, <1>2, <1>5, <2>1, <3>1
  <2> QED BY <1>3, <2>1 DEF HypT, TablesInv, Reachable
<1>7. ItabsFollow'
  <2>1. ASSUME NEW s \in ItabSlots, Behind(s) PROVE Behind(s)'
    BY <2>1 DEF Behind
  <2> QED BY <1>1, <1>3, <1>4, <2>1, SlotFacts DEF HypT, TablesInv, ItabsFollow
<1>8. Fresh' /\ HostTextKept' /\ MtypDropped' /\ MtypPatched'
  BY <1>1, <1>2, <1>3, ConstantsAssumption, SlotFacts
  DEF HypT, TablesInv, Fresh, HostTextKept, MtypDropped, MtypPatched, MtypSlots
<1> QED BY <1>6, <1>7, <1>8

LEMMA RevertFunctionsTables ==
  ASSUME HypT, NEW m \in Modules, NEW t \in Types, RevertIfn(m, t) \/ RevertTfn(m, t)
  PROVE  TablesInv'
<1>1. pc[m] \in {"revertIfn", "revertTfn"} /\ pc' = pc
  BY DEF RevertIfn, RevertTfn
<1>2. PICK mine \in SUBSET patchedIfn[m] :
        /\ RevertItabs(m, t, mine)
        /\ ifn' = ifn \/ ifn' = Reverted(ifn, m, t, mine)
        /\ tfn' = tfn \/ tfn' = Reverted(tfn, m, t, mine)
        /\ UNCHANGED <<mtyp, patchVars, lifeVars, pc>>
  BY DEF RevertIfn, RevertTfn, HypT, Hyp, SeqInv, Recorded
<1>3. (Fresh /\ Reachable /\ ItabsFollow /\ HostTextKept /\ MtypDropped /\ MtypPatched)'
  BY <1>1, <1>2, RevertTables DEF Reverting
<1>4. MtypProgress'
  <2>1. \A n \in Modules : pc'[n] \notin {"revertMtyp", "reverted"}
    BY <1>1, Alone DEF HypT, Settled
  <2> QED BY <2>1, NobodyResetting
<1> QED BY <1>3, <1>4 DEF TablesInv

LEMMA RevertMtypTables ==
  ASSUME HypT, NEW m \in Modules, NEW t \in Types, RevertMtyp(m, t)
  PROVE  TablesInv'
<1>1. /\ pc[m] = "revertMtyp" /\ t \in todo[m]
      /\ todo' = [todo EXCEPT ![m] = @ \ {t}]
      /\ UNCHANGED <<ifn, tfn, fun, patchedIfn, patchedTfn, patchedMtyp, modules, pc>>
  BY DEF RevertMtyp, patchVars, lifeVars
<1>2. \A s \in Slots :
        \/ mtyp'[s] = mtyp[s] /\ ~(s \in OfType(MtypSlots(m), t) /\ Others(m, t) = {} /\ mtyp[s] < -1)
        \/ Others(m, t) = {} /\ s \in OfType(MtypSlots(m), t) /\ mtyp'[s] = -1
        \/ /\ s \in OfType(MtypSlots(m), t)
           /\ \E o \in Others(m, t) : s \in MtypSlots(o) /\ mtyp'[s] = patchedMtyp[o][s]
  <2>1. CASE Others(m, t) = {}
    <3>1. mtyp' = [s \in Slots |-> IF s \in {u \in OfType(MtypSlots(m), t) : mtyp[u] < -1} THEN -1 ELSE mtyp[s]]
      BY <2>1 DEF RevertMtyp
    <3> QED BY <2>1, <3>1
  <2>2. ASSUME NEW o \in Others(m, t),
               mtyp' = [s \in Slots |-> IF s \in OfType(MtypSlots(m), t) \cap MtypSlots(o)
                                        THEN patchedMtyp[o][s] ELSE mtyp[s]]
        PROVE  \A s \in Slots :
                 \/ mtyp'[s] = mtyp[s]
                 \/ /\ s \in OfType(MtypSlots(m), t)
                    /\ \E p \in Others(m, t) : s \in MtypSlots(p) /\ mtyp'[s] = patchedMtyp[p][s]
    BY <2>2
  <2>3. CASE Others(m, t) # {}
    <3>1. PICK o \in Others(m, t) :
            mtyp' = [s \in Slots |-> IF s \in OfType(MtypSlots(m), t) \cap MtypSlots(o)
                                     THEN patchedMtyp[o][s] ELSE mtyp[s]]
      BY <2>3 DEF RevertMtyp
    <3> QED BY <2>2, <2>3, <3>1
  <2> QED BY <2>1, <2>3
<1>3. \A o \in Others(m, t) : o \in Modules /\ o \in modules /\ o # m
  BY DEF Others, HypT, Hyp, TypeOK
<1>4. Fresh' /\ Reachable' /\ HostTextKept'
  BY <1>1 DEF HypT, TablesInv, Fresh, Reachable, HostTextKept
<1>5. ItabsFollow'
  <2>1. ASSUME NEW s \in ItabSlots, Behind(s) PROVE Behind(s)'
    BY <1>1, <2>1 DEF Behind
  <2> QED BY <1>1, <2>1 DEF HypT, TablesInv, ItabsFollow
<1>6. MtypDropped'
  <2>1. \A o \in Others(m, t), s \in Slots : s \in MtypSlots(o) => patchedMtyp[o][s] < 0
    BY <1>3 DEF HypT, Hyp, TypeOK, TablesInv, MtypDropped, MtypSlots
  <2>2. \A s \in Slots \ HostMtyp : mtyp[s] < 0
    BY DEF HypT, TablesInv, MtypDropped
  <2>3. \A s \in Slots \ HostMtyp : mtyp'[s] < 0
    BY <1>2, <2>1, <2>2
  <2> QED BY <1>1, <2>3 DEF HypT, TablesInv, MtypDropped, MtypSlots
<1>7. MtypPatched'
  <2>1. ASSUME NEW s \in Slots, s \in MtypSlots(m) PROVE \E n \in modules : s \in patchedIfn[n]
    <3>1. m \in modules
      BY <1>1 DEF HypT, Hyp, SeqInv, Lifecycle, Reverting
    <3> QED BY <2>1, <3>1 DEF HypT, Hyp, SeqInv, Recorded
  <2> QED BY <1>1, <1>2, <2>1 DEF HypT, TablesInv, MtypPatched, OfType
<1>8. MtypProgress'
  <2>1. \A n \in Modules : n # m => pc[n] \in Settled
    BY <1>1, Alone DEF HypT, Settled
  <2>2. ASSUME NEW s \in MtypSlots(m), ~Kept(m, s), s[1] \notin todo'[m]
        PROVE  ~(mtyp'[s] < -1)
    <3>0. s \in Slots /\ s \in patchedIfn[m]
      BY <2>2 DEF HypT, Hyp, SeqInv, Recorded, MtypSlots
    <3>1. CASE s[1] # t
      <4>1. s[1] \notin todo[m] /\ mtyp'[s] = mtyp[s]
        BY <1>1, <1>2, <2>2, <3>0, <3>1 DEF HypT, Hyp, TypeOK, OfType
      <4> QED BY <1>1, <2>2, <4>1 DEF HypT, TablesInv, MtypProgress
    <3>2. CASE s[1] = t
      <4>1. Others(m, t) = {}
        BY <1>1, <2>2, <3>0, <3>2, OthersKeep DEF HypT, Reverting
      <4> QED BY <1>2, <2>2, <3>0, <3>2, <4>1 DEF OfType
    <3> QED BY <3>1, <3>2
  <2>3. MtypSlots(m)' = MtypSlots(m) /\ \A s : Kept(m, s)' <=> Kept(m, s)
    BY <1>1 DEF MtypSlots, Kept
  <2> QED BY <1>1, <2>1, <2>2, <2>3 DEF MtypProgress, Settled
<1> QED BY <1>4, <1>5, <1>6, <1>7, <1>8 DEF TablesInv

LEMMA NextLoopTables ==
  ASSUME HypT, NEW m \in Modules, NextLoop(m)
  PROVE  TablesInv'
<1>1. /\ UNCHANGED <<ifn, tfn, mtyp, fun, patchedIfn, patchedTfn, patchedMtyp, modules>>
      /\ pc[m] \in Reverting /\ todo[m] = {}
  BY DEF NextLoop, hostVars, patchVars, lifeVars, Reverting
<1>2. PICK l \in Reverting : pc' = [pc EXCEPT ![m] = l]
  BY DEF NextLoop, Goto, Reverting
<1>3. (Fresh /\ Reachable /\ ItabsFollow /\ HostTextKept /\ MtypDropped /\ MtypPatched)'
  BY <1>1, <1>2, QuietTables DEF Reverting
<1>4. MtypProgress'
  <2>1. \A n \in Modules : n # m => pc'[n] \in Settled
    BY <1>1, <1>2, Alone DEF HypT, Hyp, TypeOK, Settled, Reverting
  <2>2. MtypSlots(m)' = MtypSlots(m) /\ \A s : Kept(m, s)' <=> Kept(m, s)
    BY <1>1 DEF MtypSlots, Kept
  <2>3. ASSUME NEW s \in MtypSlots(m), ~Kept(m, s)
        PROVE  /\ pc'[m] = "revertMtyp" /\ s[1] \notin todo'[m] => ~(mtyp[s] < -1)
               /\ pc'[m] = "reverted" => ~(mtyp[s] < -1)
    <3>1. CASE pc[m] = "revertMtyp"
      <4>1. pc'[m] = "reverted"
        BY <3>1 DEF NextLoop, Goto, HypT, Hyp, TypeOK
      <4> QED BY <1>1, <2>3, <3>1, <4>1 DEF HypT, TablesInv, MtypProgress
    <3>2. CASE pc[m] = "revertTfn"
      <4>1. pc'[m] = "revertMtyp" /\ todo'[m] = TypesOf(MtypSlots(m))
        BY <3>2 DEF NextLoop, Goto, HypT, Hyp, TypeOK
      <4> QED BY <2>3, <4>1 DEF TypesOf
    <3>3. CASE pc[m] = "revertIfn"
      <4>1. pc'[m] = "revertTfn"
        BY <3>3 DEF NextLoop, Goto, HypT, Hyp, TypeOK
      <4> QED BY <4>1
    <3> QED BY <3>1, <3>2, <3>3 DEF NextLoop
  <2> QED BY <1>1, <2>1, <2>2, <2>3 DEF MtypProgress, Settled
<1> QED BY <1>3, <1>4 DEF TablesInv

LEMMA RemoveModuleTables ==
  ASSUME HypT, NEW m \in Modules, RemoveModule(m)
  PROVE  TablesInv'
<1>1. /\ pc[m] = "reverted" /\ pc' = [pc EXCEPT ![m] = "removed"]
      /\ modules' = modules \ {m}
      /\ UNCHANGED <<ifn, tfn, mtyp, fun, patchedIfn, patchedMtyp>>
  BY DEF RemoveModule, Goto, hostVars, patchVars
<1>2. pc \in [Modules -> PCs]
  BY DEF HypT, Hyp, TypeOK
<1>3. Fresh' /\ Reachable' /\ HostTextKept' /\ MtypDropped'
  BY <1>1, <1>2 DEF HypT, TablesInv, Fresh, Reachable, HostTextKept, MtypDropped, MtypSlots
<1>4. ItabsFollow'
  <2>1. ASSUME NEW s \in ItabSlots, Behind(s) PROVE Behind(s)'
    BY <1>1, <1>2, <2>1 DEF Behind
  <2> QED BY <1>1, <2>1 DEF HypT, TablesInv, ItabsFollow
<1>5. MtypPatched'
  <2>1. ASSUME NEW s \in Slots, mtyp[s] < -1
        PROVE  \E n \in modules \ {m} : s \in patchedIfn[n]
    <3>1. PICK n \in modules : s \in patchedIfn[n]
      BY <2>1 DEF HypT, TablesInv, MtypPatched
    <3>2. s \notin HostMtyp
      BY <2>1 DEF HypT, Hyp, SeqInv, HostMtypKept, HostOff
    <3>3. CASE n = m
      <4>1. s \in MtypSlots(m)
        BY <3>1, <3>2, <3>3 DEF HypT, TablesInv, MtypDropped
      <4>2. Kept(m, s)
        BY <1>1, <2>1, <4>1 DEF HypT, TablesInv, MtypProgress
      <4> QED BY <4>2 DEF Kept
    <3> QED BY <3>1, <3>3
  <2> QED BY <1>1, <2>1 DEF MtypPatched
<1>6. MtypProgress'
  BY <1>1, <1>2, Alone, NobodyResetting DEF HypT, Settled
<1> QED BY <1>3, <1>4, <1>5, <1>6 DEF TablesInv

LEMMA UnmapModuleTables ==
  ASSUME HypT, NEW m \in Modules, UnmapModule(m)
  PROVE  TablesInv'
<1>1. /\ pc[m] = "removed" /\ pc' = [pc EXCEPT ![m] = "unloaded"]
      /\ UNCHANGED <<ifn, tfn, mtyp, fun, patchedIfn, patchedMtyp, modules>>
  BY DEF UnmapModule, Goto, hostVars, patchVars
<1>2. (Fresh /\ Reachable /\ ItabsFollow /\ HostTextKept /\ MtypDropped /\ MtypPatched)'
  BY <1>1, QuietTables
<1>3. MtypProgress'
  BY <1>1, Alone, NobodyResetting DEF HypT, Hyp, TypeOK, Settled
<1> QED BY <1>2, <1>3 DEF TablesInv

LEMMA StepTables ==
  ASSUME HypT, [Next]_vars
  PROVE  TablesInv'
<1>1. ASSUME NEW m \in Modules, LoadStep(m) PROVE TablesInv'
  BY <1>1, QuietLoadTables, PatchMethodTables, PatchItabsTables DEF LoadStep
<1>2. ASSUME NEW m \in Modules, UnloadStep(m) PROVE TablesInv'
  BY <1>2, BeginUnloadTables, RevertFunctionsTables, RevertMtypTables, NextLoopTables,
     RemoveModuleTables, UnmapModuleTables DEF UnloadStep
<1>3. CASE UNCHANGED vars
  BY <1>3 DEF vars, hostVars, patchVars, lifeVars, HypT, TablesInv, Fresh, Reachable, ItabsFollow, Behind,
              HostTextKept, MtypDropped, MtypPatched, MtypProgress, MtypSlots, Kept
<1> QED BY <1>1, <1>2, <1>3 DEF Next

\* One operation at a time keeps the invariants of this module.
LEMMA TablesStep == TypeOK /\ UntouchedInv /\ SeqInv /\ TablesInv /\ Sequential /\ [Next]_vars
                      => UntouchedInv' /\ SeqInv' /\ TablesInv'
BY StepUntouched, StepSeq, StepTables DEF Hyp, HypT

LEMMA TablesKept ==
  ASSUME Sequential
  PROVE  Spec => [](TypeOK /\ UntouchedInv /\ SeqInv /\ TablesInv)
<1>1. TypeOK /\ UntouchedInv /\ SeqInv /\ TablesInv /\ [Next]_vars => UntouchedInv' /\ SeqInv' /\ TablesInv'
  BY TablesStep
<1> QED BY <1>1, InitUntouched, InitSeq, InitTables, TypeCorrect, PTL DEF Spec

\* A loaded module's methods are reachable for as long as it is loaded: unloading
\* another module, or a Load that fails, never resets them (itab.go:14-16).
THEOREM LoadedStayReachable ==
  ASSUME Sequential
  PROVE  Spec => []LoadedMethodsReachable
<1>1. TypeOK /\ SeqInv /\ TablesInv => LoadedMethodsReachable
  BY DEF SeqInv, Recorded, TablesInv, Reachable, LoadedMethodsReachable
<1> QED BY <1>1, TablesKept, PTL

\* Between operations an itab entry calls what the method table names, but for the
\* methods a failed Load has patched (itab.go:257-292, 303-324).
THEOREM ItabsFollowMethods ==
  ASSUME Sequential
  PROVE  Spec => []ItabMatchesMethod
<1>1. TablesInv => ItabMatchesMethod
  BY DEF TablesInv, ItabsFollow, Behind, ItabMatchesMethod, Settled
<1> QED BY <1>1, TablesKept, PTL

--------------------------------------------------------------------------------
(***************************************************************************)
(* What is left of the host's own functions.  A method that no module has  *)
(* patched has what the linker left it; one that only modules no longer    *)
(* loaded have patched has nothing, whichever part the linker had dropped. *)
(***************************************************************************)
Unpatched == \A s \in Slots : (\A m \in Modules : s \notin patchedIfn[m]) =>
  ifn[s] = FromHost(HostIfn, s) /\ tfn[s] = FromHost(HostTfn, s)

Abandoned == \A m \in Modules, s \in Slots :
  s \in patchedIfn[m] /\ (\A n \in modules : s \notin patchedIfn[n]) =>
    ifn[s] = Missing /\ tfn[s] = Missing

ResetProgress == \A m \in Modules, s \in Slots : s \in patchedIfn[m] /\ ~Kept(m, s) =>
  /\ pc[m] = "revertIfn" /\ s[1] \notin todo[m] => ifn[s] = Missing
  /\ pc[m] \in {"revertTfn", "revertMtyp", "reverted"} => ifn[s] = Missing
  /\ pc[m] = "revertTfn" /\ s[1] \notin todo[m] => tfn[s] = Missing
  /\ pc[m] \in {"revertMtyp", "reverted"} => tfn[s] = Missing

ResetInv == Unpatched /\ Abandoned /\ ResetProgress

HypR == HypT /\ ResetInv

LEMMA InitReset == Init => ResetInv
BY DEF Init, ResetInv, Unpatched, Abandoned, ResetProgress

\* ResetProgress only speaks of modules that are being unloaded.
LEMMA NobodyLosing ==
  ASSUME \A n \in Modules : pc'[n] \notin Reverting
  PROVE  ResetProgress'
BY DEF ResetProgress, Reverting

\* The steps of a Load other than the method loop, and the last one of an Unload.
LEMMA QuietStepsReset ==
  ASSUME HypR, NEW m \in Modules,
         \/ StartDedup(m) \/ (\E t \in Types : BeginReloc(m, t)) \/ Publish(m)
         \/ PatchItabs(m) \/ FailLoad(m) \/ UnmapModule(m)
  PROVE  ResetInv'
<1>1. /\ pc[m] \in {"new", "dedup", "publish", "removed"} /\ modules \subseteq modules'
      /\ UNCHANGED <<ifn, tfn, patchedIfn>>
  BY DEF StartDedup, BeginReloc, Publish, PatchItabs, FailLoad, UnmapModule, hostVars, patchVars, lifeVars
<1>2. Unpatched' /\ Abandoned'
  BY <1>1 DEF HypR, ResetInv, Unpatched, Abandoned
<1>3. \A n \in Modules \ {m} : pc'[n] \in Settled
  <2>1. CASE StartDedup(m)
    BY <2>1 DEF StartDedup, MayStart, Goto, HypR, HypT, Hyp, TypeOK
  <2>2. CASE ~StartDedup(m)
    <3>1. pc[m] \notin Settled
      BY <2>2 DEF Settled, BeginReloc, Publish, PatchItabs, FailLoad, UnmapModule
    <3>2. \A n \in Modules \ {m} : pc[n] \in Settled
      BY <3>1, Alone DEF HypR, HypT
    <3> QED BY <2>2, <3>2 DEF BeginReloc, Publish, PatchItabs, FailLoad, UnmapModule, Goto, HypR, HypT, Hyp, TypeOK
  <2> QED BY <2>1, <2>2
<1>4. pc'[m] \notin Reverting
  BY DEF StartDedup, BeginReloc, Publish, PatchItabs, FailLoad, UnmapModule, Goto, Reverting, HypR, HypT, Hyp, TypeOK
<1>5. ResetProgress'
  BY <1>3, <1>4, NobodyLosing DEF Settled, Reverting
<1> QED BY <1>2, <1>5 DEF ResetInv

LEMMA PatchMethodReset ==
  ASSUME HypR, NEW m \in Modules, PatchMethod(m)
  PROVE  ResetInv'
<1> DEFINE s == cursor[m]
<1>1. /\ pc[m] = "dedup" /\ s \in Slots /\ m \in modules
      /\ UNCHANGED <<modules, pc>>
  BY DEF PatchMethod, lifeVars, HypR, HypT, Hyp, TypeOK, SeqInv, Lifecycle
<1>2. ResetProgress'
  <2>1. \A n \in Modules : pc'[n] \notin Reverting
    BY <1>1, Alone DEF Settled, Reverting, HypR, HypT
  <2> QED BY <2>1, NobodyLosing
<1>3. CASE ~NeedsPatch(s)
  BY <1>1, <1>2, <1>3 DEF PatchMethod, patchVars, HypR, ResetInv, Unpatched, Abandoned
<1>4. CASE NeedsPatch(s)
  <2>1. /\ ifn' = [ifn EXCEPT ![s] = Provided(HostIfn, m, s)]
        /\ tfn' = [tfn EXCEPT ![s] = Provided(HostTfn, m, s)]
        /\ patchedIfn' = [patchedIfn EXCEPT ![m] = @ \cup {s}]
    BY <1>4 DEF PatchMethod
  <2> HIDE DEF s
  <2>2. /\ \A u \in Slots : u # s => ifn'[u] = ifn[u] /\ tfn'[u] = tfn[u]
        /\ s \in patchedIfn'[m]
        /\ \A n \in Modules, u \in Slots : u # s => (u \in patchedIfn'[n] <=> u \in patchedIfn[n])
    BY <1>1, <2>1 DEF HypR, HypT, Hyp, TypeOK
  <2>3. modules \subseteq Modules
    BY DEF HypR, HypT, Hyp, TypeOK
  <2>4. Unpatched'
    BY <2>2 DEF HypR, ResetInv, Unpatched
  <2>5. Abandoned'
    BY <1>1, <2>2, <2>3 DEF HypR, ResetInv, Abandoned
  <2> QED BY <1>2, <2>4, <2>5 DEF ResetInv
<1> QED BY <1>3, <1>4

LEMMA BeginUnloadReset ==
  ASSUME HypR, NEW m \in Modules, BeginUnload(m)
  PROVE  ResetInv'
<1>1. /\ pc' = [pc EXCEPT ![m] = "revertIfn"]
      /\ todo' = [todo EXCEPT ![m] = TypesOf(patchedIfn[m])]
      /\ \A n \in Modules : pc[n] \in Settled
      /\ UNCHANGED <<ifn, tfn, patchedIfn, modules>>
  BY DEF BeginUnload, MayStart, Goto, HypR, HypT, Hyp, hostVars, patchVars, lifeVars
<1>2. pc'[m] = "revertIfn" /\ \A n \in Modules \ {m} : pc'[n] \in Settled
  BY <1>1 DEF HypR, HypT, Hyp, TypeOK
<1>3. \A s \in patchedIfn[m] : s[1] \in todo'[m]
  BY <1>1 DEF HypR, HypT, Hyp, TypeOK, TypesOf
<1>4. ResetProgress'
  BY <1>1, <1>2, <1>3 DEF ResetProgress, Settled
<1> QED BY <1>1, <1>4 DEF HypR, ResetInv, Unpatched, Abandoned

\* A revert loop resets functions of the module that is being unloaded only.
LEMMA RevertFunctionsReset ==
  ASSUME HypR, NEW m \in Modules, NEW t \in Types, RevertIfn(m, t) \/ RevertTfn(m, t)
  PROVE  ResetInv'
<1>1. /\ pc[m] \in {"revertIfn", "revertTfn"} /\ t \in todo[m]
      /\ pc[m] = "revertIfn" => ifn' = Reverted(ifn, m, t, patchedIfn[m]) /\ tfn' = tfn
      /\ pc[m] = "revertTfn" => ifn' = ifn /\ tfn' = Reverted(tfn, m, t, patchedIfn[m])
      /\ todo' = [todo EXCEPT ![m] = @ \ {t}]
      /\ UNCHANGED <<patchedIfn, modules, pc>>
  BY DEF RevertIfn, RevertTfn, patchVars, lifeVars, HypR, HypT, Hyp, SeqInv, Recorded
<1>2. /\ \A s \in Slots : ifn'[s] = ifn[s] \/ (ifn'[s] = Missing /\ s \in patchedIfn[m])
      /\ \A s \in Slots : tfn'[s] = tfn[s] \/ (tfn'[s] = Missing /\ s \in patchedIfn[m])
  BY <1>1 DEF Reverted, Cleared, OfType
<1>3. Unpatched'
  BY <1>1, <1>2 DEF HypR, ResetInv, Unpatched
<1>4. Abandoned'
  BY <1>1, <1>2 DEF HypR, ResetInv, Abandoned
<1>5. \A n \in Modules \ {m} : pc'[n] \in Settled
  BY <1>1, Alone DEF Settled, HypR, HypT
<1>6. ASSUME NEW s \in Slots, s \in patchedIfn[m], ~Kept(m, s), s[1] = t
      PROVE  /\ pc[m] = "revertIfn" => ifn'[s] = Missing
             /\ pc[m] = "revertTfn" => tfn'[s] = Missing
  <2>1. Others(m, t) = {}
    BY <1>1, <1>6, OthersKeep DEF Reverting, HypR, HypT
  <2> QED BY <1>1, <1>6, <2>1 DEF Reverted, Cleared, OfType
<1>7. ASSUME NEW s \in Slots, s \in patchedIfn[m], ~Kept(m, s)
      PROVE  /\ pc[m] = "revertIfn" /\ s[1] \notin todo'[m] => ifn'[s] = Missing
             /\ pc[m] = "revertTfn" => ifn'[s] = Missing
             /\ pc[m] = "revertTfn" /\ s[1] \notin todo'[m] => tfn'[s] = Missing
  <2>1. s[1] \notin todo'[m] => s[1] = t \/ s[1] \notin todo[m]
    BY <1>1 DEF HypR, HypT, Hyp, TypeOK
  <2> QED BY <1>2, <1>6, <1>7, <2>1 DEF HypR, ResetInv, ResetProgress
<1>8. \A n \in Modules, s \in Slots : Kept(n, s)' <=> Kept(n, s)
  BY <1>1 DEF Kept
<1>9. ResetProgress'
  BY <1>1, <1>5, <1>7, <1>8 DEF ResetProgress, Settled
<1> QED BY <1>3, <1>4, <1>9 DEF ResetInv

\* The third loop and the passage from one loop to the next rewrite no function.
LEMMA OtherLoopsReset ==
  ASSUME HypR, NEW m \in Modules, NextLoop(m) \/ \E t \in Types : RevertMtyp(m, t)
  PROVE  ResetInv'
<1>1. /\ pc[m] \in {"revertIfn", "revertTfn", "revertMtyp"}
      /\ UNCHANGED <<ifn, tfn, patchedIfn, modules>>
  BY DEF NextLoop, RevertMtyp, hostVars, patchVars, lifeVars
<1>2. Unpatched' /\ Abandoned'
  BY <1>1 DEF HypR, ResetInv, Unpatched, Abandoned
<1>3. \A n \in Modules \ {m} : pc'[n] \in Settled
  <2>1. \A n \in Modules \ {m} : pc[n] \in Settled
    BY <1>1, Alone DEF Settled, HypR, HypT
  <2> QED BY <2>1 DEF NextLoop, RevertMtyp, Goto, HypR, HypT, Hyp, TypeOK
<1>4. \A n \in Modules, s \in Slots : Kept(n, s)' <=> Kept(n, s)
  BY <1>1 DEF Kept
<1>5. ASSUME NEW s \in Slots, s \in patchedIfn[m], ~Kept(m, s)
      PROVE  /\ pc'[m] # "revertIfn" /\ ifn[s] = Missing
             /\ pc'[m] = "revertTfn" => s[1] \in todo'[m]
             /\ pc'[m] \in {"revertMtyp", "reverted"} => tfn[s] = Missing
  <2>1. CASE pc[m] = "revertIfn"
    <3>1. pc'[m] = "revertTfn" /\ todo[m] = {} /\ todo'[m] = TypesOf(patchedTfn[m])
      BY <2>1 DEF NextLoop, RevertMtyp, Goto, HypR, HypT, Hyp, TypeOK
    <3>2. s[1] \in TypesOf(patchedTfn[m])
      BY <1>5 DEF TypesOf, HypR, HypT, Hyp, SeqInv, Recorded
    <3> QED BY <1>5, <2>1, <3>1, <3>2 DEF HypR, ResetInv, ResetProgress
  <2>2. CASE pc[m] = "revertTfn"
    <3>1. pc'[m] = "revertMtyp" /\ todo[m] = {}
      BY <2>2 DEF NextLoop, RevertMtyp, Goto, HypR, HypT, Hyp, TypeOK
    <3> QED BY <1>5, <2>2, <3>1 DEF HypR, ResetInv, ResetProgress
  <2>3. CASE pc[m] = "revertMtyp"
    <3>1. pc'[m] \in {"revertMtyp", "reverted"}
      BY <2>3 DEF NextLoop, RevertMtyp, Goto, HypR, HypT, Hyp, TypeOK
    <3> QED BY <1>5, <2>3, <3>1 DEF HypR, ResetInv, ResetProgress
  <2> QED BY <1>1, <2>1, <2>2, <2>3
<1>6. ResetProgress'
  BY <1>1, <1>3, <1>4, <1>5 DEF ResetProgress, Settled
<1> QED BY <1>2, <1>6 DEF ResetInv

LEMMA RemoveModuleReset ==
  ASSUME HypR, NEW m \in Modules, RemoveModule(m)
  PROVE  ResetInv'
<1>1. /\ pc[m] = "reverted" /\ pc' = [pc EXCEPT ![m] = "removed"]
      /\ modules' = modules \ {m}
      /\ UNCHANGED <<ifn, tfn, patchedIfn>>
  BY DEF RemoveModule, Goto, hostVars, patchVars
<1>2. Unpatched'
  BY <1>1 DEF HypR, ResetInv, Unpatched
<1>3. Abandoned'
  <2>1. ASSUME NEW k \in Modules, NEW s \in Slots, s \in patchedIfn[k],
               \A n \in modules' : s \notin patchedIfn[n]
        PROVE  ifn[s] = Missing /\ tfn[s] = Missing
    <3>1. ~Kept(m, s)
      BY <1>1, <2>1 DEF Kept
    <3>2. CASE s \in patchedIfn[m]
      BY <1>1, <3>1, <3>2 DEF HypR, ResetInv, ResetProgress
    <3>3. CASE s \notin patchedIfn[m]
      BY <1>1, <2>1, <3>3 DEF HypR, ResetInv, Abandoned
    <3> QED BY <3>2, <3>3
  <2> QED BY <1>1, <2>1 DEF Abandoned
<1>4. \A n \in Modules : pc'[n] \notin Reverting
  <2>1. \A n \in Modules \ {m} : pc[n] \in Settled
    BY <1>1, Alone DEF Settled, HypR, HypT
  <2> QED BY <1>1, <2>1 DEF Settled, Reverting, HypR, HypT, Hyp, TypeOK
<1> QED BY <1>2, <1>3, <1>4, NobodyLosing DEF ResetInv

LEMMA StepReset ==
  ASSUME HypR, [Next]_vars
  PROVE  ResetInv'
<1>1. ASSUME NEW m \in Modules, LoadStep(m) PROVE ResetInv'
  BY <1>1, QuietStepsReset, PatchMethodReset DEF LoadStep
<1>2. ASSUME NEW m \in Modules, UnloadStep(m) PROVE ResetInv'
  BY <1>2, BeginUnloadReset, RevertFunctionsReset, OtherLoopsReset, RemoveModuleReset,
     QuietStepsReset DEF UnloadStep
<1>3. CASE UNCHANGED vars
  BY <1>3 DEF vars, hostVars, patchVars, lifeVars, HypR, ResetInv, Unpatched, Abandoned, ResetProgress, Kept
<1> QED BY <1>1, <1>2, <1>3 DEF Next

\* With every module unloaded the host's tables are what the linker left, for every
\* host: a method that was patched has lost both functions, the others none, no
\* method type is another than at the start and each itab entry is its method's
\* (itab.go:121, 309-355).
THEOREM UnloadRestoresHost ==
  ASSUME Sequential
  PROVE  Spec => []HostTableRestored
<1>1. ASSUME TypeOK, UntouchedInv, SeqInv, TablesInv, ResetInv, NEW s \in Slots,
             \A m \in Modules : pc[m] \in {"new", "unloaded"}
      PROVE  LET lost == s \in DeadSlots /\ \E m \in Modules : s \in patchedIfn[m] IN
             /\ ifn[s] = FromHost(IF lost THEN {} ELSE HostIfn, s)
             /\ tfn[s] = FromHost(IF lost THEN {} ELSE HostTfn, s)
             /\ mtyp[s] = HostMtypOff(s)
             /\ s \in ItabSlots => fun[s] = ifn[s]
  <2>1. modules = {}
    BY <1>1 DEF TypeOK, SeqInv, Lifecycle, Reverting
  <2>2. s \in ItabSlots => fun[s] = ifn[s]
    BY <1>1 DEF TablesInv, ItabsFollow, Behind
  <2>3. mtyp[s] = HostMtypOff(s)
    <3>1. s \in HostMtyp => mtyp[s] = HostOff
      BY <1>1 DEF SeqInv, HostMtypKept
    <3>2. ~(mtyp[s] < -1)
      BY <1>1, <2>1 DEF TablesInv, MtypPatched
    <3>3. s \notin HostMtyp => mtyp[s] = -1
      BY <1>1, <3>2 DEF TypeOK, TablesInv, MtypDropped
    <3> QED BY <3>1, <3>3 DEF HostMtypOff
  <2>4. CASE \E m \in Modules : s \in patchedIfn[m]
    <3>1. s \in DeadSlots
      BY <1>1, <2>4 DEF UntouchedInv
    <3>2. ifn[s] = Missing /\ tfn[s] = Missing
      BY <1>1, <2>1, <2>4 DEF ResetInv, Abandoned
    <3> QED BY <2>2, <2>3, <2>4, <3>1, <3>2 DEF FromHost
  <2>5. CASE \A m \in Modules : s \notin patchedIfn[m]
    BY <1>1, <2>2, <2>3, <2>5 DEF ResetInv, Unpatched
  <2> QED BY <2>4, <2>5
<1>2. TypeOK /\ UntouchedInv /\ SeqInv /\ TablesInv /\ ResetInv => HostTableRestored
  BY <1>1 DEF HostTableRestored
<1>3. TypeOK /\ UntouchedInv /\ SeqInv /\ TablesInv /\ ResetInv /\ [Next]_vars => ResetInv'
  BY StepReset DEF HypR, HypT, Hyp
<1> QED BY <1>2, <1>3, InitReset, TablesKept, PTL DEF Spec

--------------------------------------------------------------------------------
(***************************************************************************)
(* Clients that unload oldest first.  What a table or an itab names is the *)
(* newest module that patched the method, so the oldest module is named    *)
(* only where nobody else patched, and that is what Unload resets.         *)
(***************************************************************************)
NoneFailed == \A m \in Modules : pc[m] # "failed"

InMemory == \A m \in Modules :
  pc[m] \in {"dedup", "publish", "loaded", "removed"} \cup Reverting => m \in mapped

Births ==
  /\ \A m \in Modules : /\ born[m] <= clock
                        /\ pc[m] \in {"dedup", "publish"} => born[m] = clock
                        /\ m \in modules => born[m] >= 1
  /\ \A m, n \in modules : born[m] = born[n] => m = n

Newest(k, s) == \A n \in modules : s \in patchedIfn[n] => born[n] <= born[k]

\* Newest among the modules that have adjusted the itabs.
NewestAdjusted(k, s) ==
  \A n \in modules : s \in patchedIfn[n] /\ pc[n] \notin {"dedup", "publish", "failed"} => born[n] <= born[k]

NewestText == \A s \in Slots, k \in Modules :
  /\ ifn[s] = k \/ tfn[s] = k => s \in patchedIfn[k] /\ Newest(k, s)
  /\ s \in ItabSlots /\ fun[s] = k => s \in patchedIfn[k] /\ NewestAdjusted(k, s)

OldestLeaves == order = "oldestFirst" /\ NoneFailed =>
  \A m \in Modules : pc[m] \in Reverting => \A n \in modules : born[m] <= born[n]

TextOfLoaded == order = "oldestFirst" /\ NoneFailed =>
  \A s \in Slots :
    /\ ifn[s] \in Modules => ifn[s] \in modules
    /\ tfn[s] \in Modules => tfn[s] \in modules
    /\ s \in ItabSlots /\ fun[s] \in Modules => fun[s] \in modules

TextInv == InMemory /\ Births /\ NewestText /\ OldestLeaves /\ TextOfLoaded

HypO == HypT /\ TextInv

LEMMA InitText == Init => TextInv
<1> SUFFICES ASSUME Init PROVE TextInv
  OBVIOUS
<1>1. InMemory /\ Births /\ OldestLeaves
  BY DEF Init, InMemory, Births, OldestLeaves, Reverting
<1>2. NewestText /\ TextOfLoaded
  BY ConstantsAssumption, SlotFacts DEF Init, NewestText, TextOfLoaded, FromHost
<1> QED BY <1>1, <1>2 DEF TextInv

LEMMA StartDedupText ==
  ASSUME HypO, NEW m \in Modules, StartDedup(m)
  PROVE  TextInv'
<1>1. /\ pc[m] = "new" /\ pc' = [pc EXCEPT ![m] = "dedup"]
      /\ modules' = modules \cup {m} /\ mapped' = mapped \cup {m}
      /\ clock' = clock + 1 /\ born' = [born EXCEPT ![m] = clock + 1]
      /\ \A n \in Modules : pc[n] \in Settled
      /\ UNCHANGED <<ifn, tfn, fun, patchedIfn, order>>
  BY DEF StartDedup, MayStart, Goto, HypO, HypT, Hyp, hostVars, patchVars
<1>2. /\ pc \in [Modules -> PCs] /\ born \in [Modules -> Nat] /\ clock \in Nat
      /\ modules \subseteq Modules /\ patchedIfn[m] = {} /\ m \notin modules
  BY <1>1 DEF HypO, HypT, Hyp, TypeOK, TablesInv, Fresh, SeqInv, Lifecycle, Reverting
<1>3. /\ born'[m] = clock + 1
      /\ \A n \in Modules : n # m => born'[n] = born[n] /\ pc'[n] = pc[n]
      /\ pc'[m] = "dedup"
  BY <1>1, <1>2
<1>4. InMemory' /\ Births'
  <2>1. InMemory'
    BY <1>1, <1>3 DEF HypO, TextInv, InMemory
  <2>2. \A n \in Modules : /\ born'[n] <= clock'
                           /\ pc'[n] \in {"dedup", "publish"} => born'[n] = clock'
                           /\ n \in modules' => born'[n] >= 1
    BY <1>1, <1>2, <1>3 DEF HypO, TextInv, Births, Settled
  <2>3. \A n, k \in modules' : born'[n] = born'[k] => n = k
    BY <1>1, <1>2, <1>3 DEF HypO, TextInv, Births
  <2> QED BY <2>1, <2>2, <2>3 DEF Births
<1>5. NewestText'
  <2>1. ASSUME NEW k \in Modules, NEW s, s \in patchedIfn[k]
        PROVE  /\ Newest(k, s) => Newest(k, s)'
               /\ NewestAdjusted(k, s) => NewestAdjusted(k, s)'
    <3>1. k # m /\ s \notin patchedIfn[m]
      BY <1>2, <2>1
    <3> QED BY <1>1, <1>2, <1>3, <3>1 DEF Newest, NewestAdjusted
  <2> QED BY <1>1, <2>1 DEF HypO, TextInv, NewestText
<1>6. OldestLeaves' /\ TextOfLoaded'
  <2>1. NoneFailed' => NoneFailed
    BY <1>1, <1>3 DEF NoneFailed
  <2>2. \A n \in Modules : pc'[n] \notin Reverting
    BY <1>1, <1>3 DEF Settled, Reverting
  <2> QED BY <1>1, <2>1, <2>2 DEF OldestLeaves, HypO, TextInv, TextOfLoaded
<1> QED BY <1>4, <1>5, <1>6 DEF TextInv

\* The steps that leave text references, records and the map alone.
LEMMA QuietText ==
  ASSUME HypO, NEW m \in Modules, NEW l,
         UNCHANGED <<ifn, tfn, fun, patchedIfn, modules, born, clock, order>>,
         pc' = [pc EXCEPT ![m] = l],
         l \in {"dedup", "publish"} => pc[m] \in {"dedup", "publish"},
         pc[m] \in {"dedup", "publish", "failed"} => l \in {"dedup", "publish", "failed"},
         mapped' = mapped \/ (mapped' = mapped \ {m} /\ l \in {"failed", "unloaded"}),
         pc[m] \in {"new", "failed", "unloaded"} => l = pc[m],
         l \in Reverting /\ pc[m] \notin Reverting /\ order = "oldestFirst" /\ NoneFailed =>
           \A n \in modules : born[m] <= born[n]
  PROVE  TextInv'
<1>1. /\ pc \in [Modules -> PCs] /\ modules \subseteq Modules
      /\ pc'[m] = l /\ \A n \in Modules : n # m => pc'[n] = pc[n]
  BY DEF HypO, HypT, Hyp, TypeOK
<1>2. InMemory'
  <2>1. ASSUME NEW n \in Modules, pc'[n] \in {"dedup", "publish", "loaded", "removed"} \cup Reverting
        PROVE  n \in mapped'
    <3>1. pc[n] \in {"dedup", "publish", "loaded", "removed"} \cup Reverting
      BY <1>1, <2>1 DEF PCs, Settled, Reverting
    <3>2. n \in mapped
      BY <3>1 DEF HypO, TextInv, InMemory
    <3> QED BY <1>1, <2>1, <3>2 DEF Reverting
  <2> QED BY <2>1 DEF InMemory
<1>3. Births'
  BY <1>1 DEF HypO, TextInv, Births
<1>4. NewestText'
  <2>1. \A k \in Modules : \A s : /\ Newest(k, s) => Newest(k, s)'
                                  /\ NewestAdjusted(k, s) => NewestAdjusted(k, s)'
    BY <1>1 DEF Newest, NewestAdjusted
  <2> QED BY <2>1 DEF HypO, TextInv, NewestText
<1>5. NoneFailed' => NoneFailed
  BY <1>1 DEF NoneFailed
<1>6. OldestLeaves' /\ TextOfLoaded'
  BY <1>1, <1>5 DEF HypO, TextInv, OldestLeaves, TextOfLoaded
<1> QED BY <1>2, <1>3, <1>4, <1>6 DEF TextInv

LEMMA QuietStepsText ==
  ASSUME HypO, NEW m \in Modules,
         \/ \E t \in Types : BeginReloc(m, t) \/ RevertMtyp(m, t)
         \/ Publish(m) \/ FailLoad(m) \/ BeginUnload(m) \/ NextLoop(m) \/ UnmapModule(m)
  PROVE  TextInv'
<1> USE DEF hostVars, patchVars, lifeVars, Goto, Reverting
<1>1. CASE \E t \in Types : BeginReloc(m, t) \/ RevertMtyp(m, t)
  <2>1. pc' = [pc EXCEPT ![m] = pc[m]]
    BY <1>1 DEF BeginReloc, RevertMtyp, HypO, HypT, Hyp, TypeOK
  <2> QED BY <1>1, <2>1, QuietText DEF BeginReloc, RevertMtyp
<1>2. CASE Publish(m)
  BY <1>2, QuietText DEF Publish
<1>3. CASE FailLoad(m)
  BY <1>3, QuietText DEF FailLoad
<1>4. CASE BeginUnload(m)
  <2>1. \A n \in modules : NoneFailed => pc[n] = "loaded"
    BY <1>4 DEF BeginUnload, MayStart, HypO, HypT, Hyp, TypeOK, SeqInv, Lifecycle, Settled, NoneFailed
  <2>2. order = "oldestFirst" /\ NoneFailed => \A n \in modules : born[m] <= born[n]
    BY <1>4, <2>1 DEF BeginUnload, InTurn, HypO, HypT, Hyp, TypeOK
  <2> QED BY <1>4, <2>2, QuietText DEF BeginUnload
<1>5. CASE NextLoop(m)
  <2>1. PICK l \in Reverting : pc[m] \in Reverting /\ pc' = [pc EXCEPT ![m] = l]
    BY <1>5 DEF NextLoop
  <2> QED BY <1>5, <2>1, QuietText DEF NextLoop
<1>6. CASE UnmapModule(m)
  BY <1>6, QuietText DEF UnmapModule
<1> QED BY <1>1, <1>2, <1>3, <1>4, <1>5, <1>6

LEMMA PatchMethodText ==
  ASSUME HypO, NEW m \in Modules, PatchMethod(m)
  PROVE  TextInv'
<1>0. PICK s \in Slots : s = cursor[m]
  BY DEF PatchMethod, HypO, HypT, Hyp, TypeOK
<1>1. /\ pc[m] = "dedup" /\ m \in modules
      /\ UNCHANGED <<fun, modules, mapped, pc, born, clock, order>>
  BY DEF PatchMethod, lifeVars, HypO, HypT, Hyp, TypeOK, SeqInv, Lifecycle
<1>2. /\ modules \subseteq Modules /\ patchedIfn \in [Modules -> SUBSET Slots]
      /\ ifn \in [Slots -> TextRef] /\ tfn \in [Slots -> TextRef]
  BY DEF HypO, HypT, Hyp, TypeOK
<1>3. InMemory' /\ Births' /\ OldestLeaves'
  BY <1>1 DEF HypO, TextInv, InMemory, Births, OldestLeaves, NoneFailed
<1>4. /\ \A u \in Slots : \/ ifn'[u] = ifn[u] /\ tfn'[u] = tfn[u] /\ patchedIfn' = patchedIfn
                          \/ /\ u = s /\ ifn'[u] \in {m, Host} /\ tfn'[u] \in {m, Host}
                             /\ s \in patchedIfn'[m]
                          \/ u # s /\ ifn'[u] = ifn[u] /\ tfn'[u] = tfn[u]
      /\ \A n \in Modules : /\ patchedIfn[n] \subseteq patchedIfn'[n]
                            /\ patchedIfn'[n] \subseteq patchedIfn[n] \cup {s}
                            /\ n # m => patchedIfn'[n] = patchedIfn[n]
  <2>1. CASE ~NeedsPatch(s)
    BY <1>0, <2>1 DEF PatchMethod, patchVars
  <2>2. CASE NeedsPatch(s)
    <3>1. /\ ifn' = [ifn EXCEPT ![s] = Provided(HostIfn, m, s)]
          /\ tfn' = [tfn EXCEPT ![s] = Provided(HostTfn, m, s)]
          /\ patchedIfn' = [patchedIfn EXCEPT ![m] = @ \cup {s}]
      BY <1>0, <2>2 DEF PatchMethod
    <3> QED BY <1>1, <1>2, <3>1 DEF Provided
  <2> QED BY <2>1, <2>2
<1>5. \A n \in modules : born[n] <= born[m]
  BY <1>1, <1>2 DEF HypO, TextInv, Births
<1>6. NewestText'
  <2>1. Newest(m, s)'
    BY <1>1, <1>5 DEF Newest
  <2>2. \A k \in Modules : \A u : u # s /\ Newest(k, u) => Newest(k, u)'
    BY <1>1, <1>2, <1>4 DEF Newest
  <2>3. \A k \in Modules : \A u : NewestAdjusted(k, u) => NewestAdjusted(k, u)'
    BY <1>1, <1>2, <1>4 DEF NewestAdjusted
  <2>4. \A k \in Modules : \A u : patchedIfn' = patchedIfn /\ Newest(k, u) => Newest(k, u)'
    BY <1>1 DEF Newest
  <2>5. ASSUME NEW u \in Slots, NEW k \in Modules, ifn'[u] = k \/ tfn'[u] = k
        PROVE  u \in patchedIfn'[k] /\ Newest(k, u)'
    <3>1. CASE u = s /\ ifn'[u] \in {m, Host} /\ tfn'[u] \in {m, Host} /\ s \in patchedIfn'[m]
      BY <2>1, <2>5, <3>1, ConstantsAssumption
    <3>2. CASE ifn'[u] = ifn[u] /\ tfn'[u] = tfn[u] /\ (u # s \/ patchedIfn' = patchedIfn)
      <4>1. u \in patchedIfn[k] /\ Newest(k, u)
        BY <2>5, <3>2 DEF HypO, TextInv, NewestText
      <4> QED BY <1>4, <2>2, <2>4, <3>2, <4>1
    <3> QED BY <1>4, <3>1, <3>2
  <2>6. ASSUME NEW u \in ItabSlots, NEW k \in Modules, fun'[u] = k
        PROVE  u \in patchedIfn'[k] /\ NewestAdjusted(k, u)'
    <3>1. u \in patchedIfn[k] /\ NewestAdjusted(k, u)
      BY <1>1, <2>6, SlotFacts DEF HypO, TextInv, NewestText
    <3> QED BY <1>4, <2>3, <3>1
  <2> QED BY <2>5, <2>6 DEF NewestText
<1>7. TextOfLoaded'
  BY <1>1, <1>4, ConstantsAssumption DEF HypO, TextInv, TextOfLoaded, NoneFailed
<1> QED BY <1>3, <1>6, <1>7 DEF TextInv

\* Setting itab entries to what the method table says keeps them in order, when
\* nobody is between its method loop and the adjusting of the itabs.
LEMMA AdjustedText ==
  ASSUME HypO, NEW s \in ItabSlots, NEW k \in Modules, fun'[s] = k,
         \/ fun[s] = k /\ (NewestAdjusted(k, s) => NewestAdjusted(k, s)')
         \/ ifn[s] = k,
         UNCHANGED <<patchedIfn, modules, born, order>>,
         NoneFailed' => NoneFailed
  PROVE  /\ s \in patchedIfn'[k] /\ NewestAdjusted(k, s)'
         /\ order = "oldestFirst" /\ NoneFailed' => k \in modules'
<1>1. s \in Slots
  BY SlotFacts
<1>2. CASE fun[s] = k /\ (NewestAdjusted(k, s) => NewestAdjusted(k, s)')
  BY <1>1, <1>2 DEF HypO, TextInv, NewestText, TextOfLoaded
<1>3. CASE ifn[s] = k
  <2>1. s \in patchedIfn[k] /\ Newest(k, s)
    BY <1>1, <1>3 DEF HypO, TextInv, NewestText
  <2>2. NewestAdjusted(k, s)'
    BY <2>1 DEF Newest, NewestAdjusted
  <2> QED BY <1>1, <1>3, <2>1, <2>2 DEF HypO, TextInv, TextOfLoaded
<1> QED BY <1>2, <1>3

LEMMA PatchItabsText ==
  ASSUME HypO, NEW m \in Modules, PatchItabs(m)
  PROVE  TextInv'
<1>1. /\ pc[m] = "publish" /\ pc' = [pc EXCEPT ![m] = "loaded"]
      /\ fun' = Adjusted(fun, ifn, patchedIfn[m] \cup patchedTfn[m])
      /\ UNCHANGED <<ifn, tfn, mapped, patchedIfn, modules, born, clock, order>>
  BY DEF PatchItabs, Goto, patchVars, lifeVars
<1>2. /\ pc'[m] = "loaded" /\ \A n \in Modules : n # m => pc'[n] = pc[n]
      /\ modules \subseteq Modules
      /\ patchedIfn[m] \cup patchedTfn[m] = patchedIfn[m]
  BY <1>1 DEF HypO, HypT, Hyp, TypeOK, SeqInv, Recorded
<1>3. \A s \in ItabSlots : \/ fun'[s] = ifn'[s]
                           \/ fun'[s] = fun[s] /\ s \notin patchedIfn[m]
  BY <1>1, <1>2, ConstantsAssumption DEF Adjusted, HypO, HypT, Hyp, SeqInv, HostMtypKept
<1>4. \A s : \A k \in Modules : s \notin patchedIfn[m] /\ NewestAdjusted(k, s) => NewestAdjusted(k, s)'
  BY <1>1, <1>2 DEF NewestAdjusted
<1>5. NoneFailed' => NoneFailed
  BY <1>1, <1>2 DEF NoneFailed
<1>6. InMemory' /\ Births' /\ OldestLeaves'
  BY <1>1, <1>2, <1>5 DEF HypO, TextInv, InMemory, Births, OldestLeaves, Reverting
<1>7. ASSUME NEW s \in ItabSlots, NEW k \in Modules, fun'[s] = k
      PROVE  /\ s \in patchedIfn'[k] /\ NewestAdjusted(k, s)'
             /\ order = "oldestFirst" /\ NoneFailed' => k \in modules'
  BY <1>1, <1>3, <1>4, <1>5, <1>7, AdjustedText
<1>8. \A k \in Modules : \A s : Newest(k, s) => Newest(k, s)'
  BY <1>1 DEF Newest
<1>9. NewestText'
  BY <1>1, <1>7, <1>8 DEF HypO, TextInv, NewestText
<1>10. TextOfLoaded'
  BY <1>1, <1>5, <1>7 DEF HypO, TextInv, TextOfLoaded
<1> QED BY <1>6, <1>9, <1>10 DEF TextInv

LEMMA RevertFunctionsText ==
  ASSUME HypO, NEW m \in Modules, NEW t \in Types, RevertIfn(m, t) \/ RevertTfn(m, t)
  PROVE  TextInv'
<1>1. PICK mine \in SUBSET patchedIfn[m] :
        /\ RevertItabs(m, t, mine)
        /\ ifn' = ifn \/ ifn' = Reverted(ifn, m, t, mine)
        /\ tfn' = tfn \/ tfn' = Reverted(tfn, m, t, mine)
  BY DEF RevertIfn, RevertTfn, HypO, HypT, Hyp, SeqInv, Recorded
<1>2. UNCHANGED <<patchedIfn, modules, mapped, born, clock, order, pc>>
  BY DEF RevertIfn, RevertTfn, patchVars, lifeVars
<1>3. \A s \in Slots : /\ ifn'[s] = ifn[s] \/ ifn'[s] = Missing
                       /\ tfn'[s] = tfn[s] \/ tfn'[s] = Missing
  BY <1>1 DEF Reverted, Cleared
<1>4. \A s \in Slots : /\ ifn'[s] \in Modules => ifn'[s] = ifn[s]
                       /\ tfn'[s] \in Modules => tfn'[s] = tfn[s]
  BY <1>3, ConstantsAssumption
<1>5. \A s \in ItabSlots : fun'[s] = fun[s] \/ fun'[s] = ifn'[s]
  BY <1>1 DEF RevertItabs, Adjusted
<1>6. InMemory' /\ Births' /\ OldestLeaves'
  BY <1>2 DEF HypO, TextInv, InMemory, Births, OldestLeaves, NoneFailed
<1>7. \A k, s : /\ Newest(k, s) => Newest(k, s)'
                /\ NewestAdjusted(k, s) => NewestAdjusted(k, s)'
  BY <1>2 DEF Newest, NewestAdjusted
<1>8. NoneFailed' => NoneFailed
  BY <1>2 DEF NoneFailed
<1>9. ASSUME NEW s \in ItabSlots, NEW k \in Modules, fun'[s] = k
      PROVE  /\ s \in patchedIfn'[k] /\ NewestAdjusted(k, s)'
             /\ order = "oldestFirst" /\ NoneFailed' => k \in modules'
  <2>1. fun[s] = k \/ ifn[s] = k
    BY <1>4, <1>5, <1>9, SlotFacts
  <2> QED BY <1>2, <1>7, <1>8, <1>9, <2>1, AdjustedText
<1>10. NewestText'
  <2>1. ASSUME NEW s \in Slots, NEW k \in Modules, ifn'[s] = k \/ tfn'[s] = k
        PROVE  s \in patchedIfn'[k] /\ Newest(k, s)'
    <3>1. ifn[s] = k \/ tfn[s] = k
      BY <1>4, <2>1
    <3> QED BY <1>2, <1>7, <3>1 DEF HypO, TextInv, NewestText
  <2> QED BY <1>9, <2>1 DEF NewestText
<1>11. TextOfLoaded'
  BY <1>2, <1>4, <1>8, <1>9 DEF HypO, TextInv, TextOfLoaded
<1> QED BY <1>6, <1>10, <1>11 DEF TextInv

LEMMA RemoveModuleText ==
  ASSUME HypO, NEW m \in Modules, RemoveModule(m)
  PROVE  TextInv'
<1>1. /\ pc[m] = "reverted" /\ pc' = [pc EXCEPT ![m] = "removed"]
      /\ modules' = modules \ {m}
      /\ UNCHANGED <<ifn, tfn, fun, patchedIfn, mapped, born, clock, order>>
  BY DEF RemoveModule, Goto, hostVars, patchVars
<1>2. /\ pc'[m] = "removed" /\ \A n \in Modules : n # m => pc'[n] = pc[n]
      /\ modules \subseteq Modules /\ born \in [Modules -> Nat]
  BY <1>1 DEF HypO, HypT, Hyp, TypeOK
<1>3. InMemory' /\ Births' /\ OldestLeaves'
  BY <1>1, <1>2 DEF HypO, TextInv, InMemory, Births, OldestLeaves, NoneFailed, Reverting
<1>4. NewestText'
  <2>1. \A k, s : /\ Newest(k, s) => Newest(k, s)'
                  /\ NewestAdjusted(k, s) => NewestAdjusted(k, s)'
    BY <1>1, <1>2 DEF Newest, NewestAdjusted
  <2> QED BY <1>1, <2>1 DEF HypO, TextInv, NewestText
<1>5. TextOfLoaded'
  <2>1. ASSUME order = "oldestFirst", NoneFailed, NEW s \in Slots, JitText(s), s \in patchedIfn[m]
        PROVE  \E n \in modules \ {m} : s \in patchedIfn[n] /\ born[n] > born[m] /\ pc[n] = "loaded"
    <3>1. Kept(m, s)
      BY <1>1, <2>1 DEF HypO, HypT, Hyp, SeqInv, RevertProgress
    <3>2. PICK n \in modules \ {m} : s \in patchedIfn[n]
      BY <3>1 DEF Kept
    <3>3. m \in modules /\ pc[n] \in Settled
      BY <1>1, <1>2, Alone DEF HypO, HypT, Hyp, SeqInv, Lifecycle, Reverting, Settled
    <3>4. born[m] <= born[n] /\ born[m] # born[n]
      BY <1>1, <2>1, <3>3 DEF HypO, TextInv, OldestLeaves, Births, Reverting
    <3>5. pc[n] = "loaded"
      BY <1>2, <2>1, <3>3 DEF HypO, HypT, Hyp, SeqInv, Lifecycle, NoneFailed, Settled, Reverting
    <3> QED BY <1>2, <3>2, <3>4, <3>5
  <2>2. ASSUME order = "oldestFirst", NoneFailed, NEW s \in Slots
        PROVE  /\ ifn[s] # m /\ tfn[s] # m
               /\ s \in ItabSlots => fun[s] # m
    <3>1. ASSUME ifn[s] = m \/ tfn[s] = m PROVE FALSE
      <4>1. JitText(s) /\ s \in patchedIfn[m] /\ Newest(m, s)
        BY <3>1 DEF JitText, HypO, TextInv, NewestText
      <4> QED BY <1>2, <2>1, <2>2, <4>1 DEF Newest
    <3>2. ASSUME s \in ItabSlots, fun[s] = m PROVE FALSE
      <4>1. JitText(s) /\ s \in patchedIfn[m] /\ NewestAdjusted(m, s)
        BY <3>2 DEF JitText, HypO, TextInv, NewestText
      <4> QED BY <1>2, <2>1, <2>2, <4>1 DEF NewestAdjusted
    <3> QED BY <3>1, <3>2
  <2>3. NoneFailed' => NoneFailed
    BY <1>1, <1>2 DEF NoneFailed
  <2> QED BY <1>1, <2>2, <2>3 DEF HypO, TextInv, TextOfLoaded
<1> QED BY <1>3, <1>4, <1>5 DEF TextInv

LEMMA StepText ==
  ASSUME HypO, [Next]_vars
  PROVE  TextInv'
<1>1. ASSUME NEW m \in Modules, LoadStep(m) PROVE TextInv'
  BY <1>1, StartDedupText, QuietStepsText, PatchMethodText, PatchItabsText DEF LoadStep
<1>2. ASSUME NEW m \in Modules, UnloadStep(m) PROVE TextInv'
  BY <1>2, QuietStepsText, RevertFunctionsText, RemoveModuleText DEF UnloadStep
<1>3. CASE UNCHANGED vars
  BY <1>3 DEF vars, hostVars, patchVars, lifeVars, HypO, TextInv, InMemory, Births, NewestText, Newest,
              NewestAdjusted, OldestLeaves, TextOfLoaded, NoneFailed
<1> QED BY <1>1, <1>2, <1>3 DEF Next

--------------------------------------------------------------------------------
(***************************************************************************)
(* Clients that unload newest first, of at most two modules.  A slot holds *)
(* the offset of the newest module that patched it and has not reset it    *)
(* yet, so the entry that an Unload deletes is its own.                    *)
(***************************************************************************)
Ordered == order = "newestFirst" /\ clock <= 2 /\ NoneFailed

\* Module m has been through the type of slot s in its last loop.
Done(m, s) == pc[m] = "reverted" \/ (pc[m] = "revertMtyp" /\ s[1] \notin todo[m])

NewestLeaves == Ordered =>
  \A m \in Modules : pc[m] \in Reverting => \A n \in modules : born[n] <= born[m]

\* No offset is given out twice.
Offsets ==
  /\ \A m \in Modules, s \in Slots : patchedMtyp[m][s] # 0 =>
       counter <= patchedMtyp[m][s] /\ patchedMtyp[m][s] < -1
  /\ \A m, n \in Modules, s, u \in Slots :
       patchedMtyp[m][s] = patchedMtyp[n][u] /\ patchedMtyp[m][s] # 0 => m = n /\ s = u

Entries == Ordered =>
  \A m \in Modules : pc[m] \in {"dedup", "publish", "loaded"} =>
    \A s \in MtypSlots(m) : <<patchedMtyp[m][s], m>> \in typemap

\* Module k gave slot s its present offset, and is the newest that has one for it.
Holds(k, s) ==
  /\ s \in MtypSlots(k) /\ mtyp[s] = patchedMtyp[k][s] /\ <<mtyp[s], k>> \in typemap
  /\ ~Done(k, s)
  /\ \A n \in modules : s \in MtypSlots(n) /\ ~Done(n, s) => born[n] <= born[k]

NewestMtyp == Ordered => \A s \in Slots : mtyp[s] < -1 => \E k \in modules : Holds(k, s)

MtypInv == NewestLeaves /\ Offsets /\ Entries /\ NewestMtyp

HypM == HypO /\ MtypInv

LEMMA InitMtyp == Init => MtypInv
BY DEF Init, MtypInv, NewestLeaves, Reverting, Offsets, Entries, MtypSlots, NewestMtyp, HostMtypOff, HostOff

LEMMA StartDedupMtyp ==
  ASSUME HypM, NEW m \in Modules, StartDedup(m)
  PROVE  MtypInv'
<1>1. /\ pc[m] = "new" /\ pc' = [pc EXCEPT ![m] = "dedup"]
      /\ modules' = modules \cup {m}
      /\ clock' = clock + 1 /\ born' = [born EXCEPT ![m] = clock + 1]
      /\ \A n \in Modules : pc[n] \in Settled
      /\ UNCHANGED <<mtyp, typemap, counter, patchedMtyp, order, todo>>
  BY DEF StartDedup, MayStart, Goto, HypM, HypO, HypT, Hyp, hostVars, patchVars
<1>2. /\ pc'[m] = "dedup" /\ born \in [Modules -> Nat] /\ clock \in Nat
      /\ \A n \in Modules : n # m => born'[n] = born[n] /\ pc'[n] = pc[n]
      /\ modules \subseteq Modules /\ m \notin modules
  BY <1>1 DEF HypM, HypO, HypT, Hyp, TypeOK, SeqInv, Lifecycle, Reverting
<1>3. MtypSlots(m) = {} /\ \A n : MtypSlots(n)' = MtypSlots(n)
  <2>1. MtypSlots(m) = {}
    BY <1>1 DEF HypM, HypO, HypT, Hyp, SeqInv, Recorded, TablesInv, Fresh
  <2> QED BY <1>1, <2>1 DEF MtypSlots
<1>4. Ordered' => Ordered
  BY <1>1, <1>2 DEF Ordered, NoneFailed
<1>5. NewestLeaves' /\ Offsets'
  BY <1>1, <1>2 DEF NewestLeaves, HypM, MtypInv, Offsets, Settled, Reverting
<1>6. Entries'
  BY <1>1, <1>2, <1>3, <1>4 DEF HypM, MtypInv, Entries
<1>7. NewestMtyp'
  <2>1. ASSUME NEW k \in modules, NEW s \in Slots, Holds(k, s) PROVE Holds(k, s)'
    <3>1. k # m /\ k \in Modules
      BY <1>2
    <3>2. \A n \in modules : Done(n, s)' <=> Done(n, s)
      BY <1>1, <1>2 DEF Done
    <3> QED BY <1>1, <1>2, <1>3, <2>1, <3>1, <3>2 DEF Holds
  <2> QED BY <1>1, <1>4, <2>1 DEF HypM, MtypInv, NewestMtyp
<1> QED BY <1>5, <1>6, <1>7 DEF MtypInv

\* The steps that leave offsets, records and the map alone.
LEMMA QuietMtyp ==
  ASSUME HypM, NEW m \in Modules, NEW l,
         UNCHANGED <<mtyp, typemap, counter, patchedMtyp, modules, born, clock, order>>,
         pc' = [pc EXCEPT ![m] = l],
         \A n \in Modules : n # m => todo'[n] = todo[n],
         l = "failed" \/ (pc[m] # "failed"),
         l \in {"dedup", "publish", "loaded"} => pc[m] \in {"dedup", "publish", "loaded"},
         m \in modules => \A s \in MtypSlots(m) :
           (pc[m] = "reverted" \/ (pc[m] = "revertMtyp" /\ s[1] \notin todo[m]))
           <=> (l = "reverted" \/ (l = "revertMtyp" /\ s[1] \notin todo'[m])),
         l \in Reverting /\ pc[m] \notin Reverting /\ Ordered => \A n \in modules : born[n] <= born[m]
  PROVE  MtypInv'
<1>1. /\ pc'[m] = l /\ \A n \in Modules : n # m => pc'[n] = pc[n]
      /\ modules \subseteq Modules
  BY DEF HypM, HypO, HypT, Hyp, TypeOK
<1>2. \A n : MtypSlots(n)' = MtypSlots(n)
  BY DEF MtypSlots
<1>3. Ordered' => Ordered
  BY <1>1 DEF Ordered, NoneFailed
<1>4. NewestLeaves' /\ Offsets' /\ Entries'
  BY <1>1, <1>2, <1>3 DEF HypM, MtypInv, NewestLeaves, Offsets, Entries
<1>5. \A n \in modules, s \in Slots : s \in MtypSlots(n) => (Done(n, s)' <=> Done(n, s))
  BY <1>1 DEF Done
<1>6. NewestMtyp'
  <2>1. ASSUME NEW k \in modules, NEW s \in Slots, Holds(k, s) PROVE Holds(k, s)'
    BY <1>2, <1>5, <2>1 DEF Holds
  <2> QED BY <1>3, <2>1 DEF HypM, MtypInv, NewestMtyp
<1> QED BY <1>4, <1>6 DEF MtypInv

LEMMA QuietStepsMtyp ==
  ASSUME HypM, NEW m \in Modules,
         \/ \E t \in Types : BeginReloc(m, t) \/ RevertIfn(m, t) \/ RevertTfn(m, t)
         \/ Publish(m) \/ PatchItabs(m) \/ FailLoad(m) \/ BeginUnload(m) \/ NextLoop(m) \/ UnmapModule(m)
  PROVE  MtypInv'
<1> USE DEF hostVars, patchVars, lifeVars, Goto, Reverting
<1>0. pc \in [Modules -> PCs] /\ todo \in [Modules -> SUBSET Types] /\ modules \subseteq Modules
  BY DEF HypM, HypO, HypT, Hyp, TypeOK
<1>1. CASE \E t \in Types : BeginReloc(m, t) \/ RevertIfn(m, t) \/ RevertTfn(m, t)
  <2>1. pc' = [pc EXCEPT ![m] = pc[m]] /\ pc[m] \in {"dedup", "revertIfn", "revertTfn"}
    BY <1>0, <1>1 DEF BeginReloc, RevertIfn, RevertTfn
  <2>2. /\ UNCHANGED <<mtyp, typemap, counter, patchedMtyp, modules, born, clock, order>>
        /\ \A n \in Modules : n # m => todo'[n] = todo[n]
    BY <1>0, <1>1 DEF BeginReloc, RevertIfn, RevertTfn
  <2> QED BY <2>1, <2>2, QuietMtyp
<1>2. CASE Publish(m)
  BY <1>2, QuietMtyp DEF Publish
<1>3. CASE PatchItabs(m)
  BY <1>3, QuietMtyp DEF PatchItabs
<1>4. CASE FailLoad(m)
  BY <1>4, QuietMtyp DEF FailLoad
<1>5. CASE BeginUnload(m)
  <2>1. \A n \in modules : NoneFailed => pc[n] = "loaded"
    BY <1>5 DEF BeginUnload, MayStart, HypM, HypO, HypT, Hyp, TypeOK, SeqInv, Lifecycle, Settled, NoneFailed
  <2>2. Ordered => \A n \in modules : born[n] <= born[m]
    BY <1>0, <1>5, <2>1 DEF BeginUnload, InTurn, Ordered
  <2> QED BY <1>0, <1>5, <2>2, QuietMtyp DEF BeginUnload
<1>6. CASE NextLoop(m)
  <2>1. PICK l \in Reverting :
          /\ pc[m] \in Reverting /\ pc' = [pc EXCEPT ![m] = l]
          /\ \A s \in MtypSlots(m) : (pc[m] = "reverted" \/ (pc[m] = "revertMtyp" /\ s[1] \notin todo[m]))
                                 <=> (l = "reverted" \/ (l = "revertMtyp" /\ s[1] \notin todo'[m]))
    <3>1. todo[m] = {}
      BY <1>6 DEF NextLoop
    <3>2. CASE pc[m] = "revertIfn"
      BY <1>0, <1>6, <3>2 DEF NextLoop
    <3>3. CASE pc[m] = "revertTfn"
      <4>1. pc' = [pc EXCEPT ![m] = "revertMtyp"] /\ todo'[m] = TypesOf(MtypSlots(m))
        BY <1>0, <1>6, <3>3 DEF NextLoop
      <4>2. \A s \in MtypSlots(m) : s[1] \in todo'[m]
        BY <4>1 DEF TypesOf
      <4> QED BY <3>3, <4>1, <4>2
    <3>4. CASE pc[m] = "revertMtyp"
      BY <1>0, <1>6, <3>1, <3>4 DEF NextLoop
    <3> QED BY <1>6, <3>2, <3>3, <3>4 DEF NextLoop
  <2>2. /\ UNCHANGED <<mtyp, typemap, counter, patchedMtyp, modules, born, clock, order>>
        /\ \A n \in Modules : n # m => todo'[n] = todo[n]
    BY <1>0, <1>6 DEF NextLoop
  <2> QED BY <2>1, <2>2, QuietMtyp
<1>7. CASE UnmapModule(m)
  <2>1. m \notin modules
    BY <1>7 DEF UnmapModule, HypM, HypO, HypT, Hyp, SeqInv, Lifecycle
  <2> QED BY <1>7, <2>1, QuietMtyp DEF UnmapModule
<1> QED BY <1>1, <1>2, <1>3, <1>4, <1>5, <1>6, <1>7

LEMMA PatchMethodMtyp ==
  ASSUME HypM, NEW m \in Modules, PatchMethod(m)
  PROVE  MtypInv'
<1>0. PICK s \in Slots : s = cursor[m]
  BY DEF PatchMethod, HypM, HypO, HypT, Hyp, TypeOK
<1>1. /\ pc[m] = "dedup" /\ m \in modules
      /\ UNCHANGED <<modules, pc, born, clock, order, todo>>
  BY DEF PatchMethod, lifeVars, HypM, HypO, HypT, Hyp, TypeOK, SeqInv, Lifecycle
<1>2. /\ mtyp \in [Slots -> Int] /\ patchedMtyp \in [Modules -> [Slots -> Int]]
      /\ counter \in Int /\ counter <= -1 /\ modules \subseteq Modules
  BY DEF HypM, HypO, HypT, Hyp, TypeOK
<1>3. (Ordered' <=> Ordered) /\ \A n, u : Done(n, u)' <=> Done(n, u)
  BY <1>1 DEF Ordered, NoneFailed, Done
<1>4. NewestLeaves'
  BY <1>1, <1>3 DEF HypM, MtypInv, NewestLeaves
<1>5. CASE UNCHANGED <<mtyp, typemap, counter, patchedMtyp>>
  <2>1. \A n, u : Holds(n, u) => Holds(n, u)'
    BY <1>1, <1>3, <1>5 DEF Holds, MtypSlots
  <2> QED BY <1>1, <1>3, <1>4, <1>5, <2>1 DEF HypM, MtypInv, Offsets, Entries, NewestMtyp, MtypSlots
<1>6. CASE /\ counter' = counter - 1
           /\ typemap' = typemap \cup {<<counter - 1, m>>}
           /\ mtyp' = [mtyp EXCEPT ![s] = counter - 1]
           /\ patchedMtyp' = [patchedMtyp EXCEPT ![m][s] = counter - 1]
  <2>1. /\ mtyp'[s] = counter - 1 /\ patchedMtyp'[m][s] = counter - 1
        /\ \A u \in Slots : u # s => mtyp'[u] = mtyp[u]
        /\ \A n \in Modules, u \in Slots : n # m \/ u # s => patchedMtyp'[n][u] = patchedMtyp[n][u]
    BY <1>2, <1>6
  <2>2. \A n \in Modules, u \in Slots : n # m \/ u # s => (u \in MtypSlots(n)' <=> u \in MtypSlots(n))
    BY <2>1 DEF MtypSlots
  <2>3. Offsets'
    <3>1. \A n \in Modules, u \in Slots : patchedMtyp[n][u] # 0 =>
            counter <= patchedMtyp[n][u] /\ patchedMtyp[n][u] < -1 /\ patchedMtyp[n][u] \in Int
      BY <1>2 DEF HypM, MtypInv, Offsets
    <3>2. \A n \in Modules, u \in Slots : patchedMtyp'[n][u] # 0 =>
            counter' <= patchedMtyp'[n][u] /\ patchedMtyp'[n][u] < -1
      BY <1>2, <1>6, <2>1, <3>1
    <3>3. ASSUME NEW n \in Modules, NEW k \in Modules, NEW u \in Slots, NEW v \in Slots,
                 patchedMtyp'[n][u] = patchedMtyp'[k][v], patchedMtyp'[n][u] # 0
          PROVE  n = k /\ u = v
      <4>1. CASE (n # m \/ u # s) /\ (k # m \/ v # s)
        BY <2>1, <3>3, <4>1 DEF HypM, MtypInv, Offsets
      <4>2. CASE n = m /\ u = s /\ ~(k = m /\ v = s)
        BY <1>2, <2>1, <3>1, <3>3, <4>2
      <4>3. CASE k = m /\ v = s /\ ~(n = m /\ u = s)
        BY <1>2, <2>1, <3>1, <3>3, <4>3
      <4> QED BY <4>1, <4>2, <4>3
    <3> QED BY <3>2, <3>3 DEF Offsets
  <2>4. Entries'
    <3>1. ASSUME Ordered, NEW n \in Modules, pc[n] \in {"dedup", "publish", "loaded"},
                 NEW u \in Slots, u \in MtypSlots(n)'
          PROVE  <<patchedMtyp'[n][u], n>> \in typemap'
      <4>1. CASE n = m /\ u = s
        BY <1>6, <2>1, <4>1
      <4>2. CASE n # m \/ u # s
        <5>1. u \in MtypSlots(n)
          BY <2>2, <3>1, <4>2
        <5> QED BY <1>6, <2>1, <3>1, <4>2, <5>1 DEF HypM, MtypInv, Entries
      <4> QED BY <4>1, <4>2
    <3> QED BY <1>1, <1>3, <3>1 DEF Entries, MtypSlots
  <2>5. NewestMtyp'
    <3>1. Holds(m, s)'
      <4>1. \A n \in modules : born[n] <= born[m]
        BY <1>1, <1>2 DEF HypM, HypO, TextInv, Births
      <4>2. ~Done(m, s)
        BY <1>1 DEF Done
      <4>3. s \in MtypSlots(m)'
        BY <1>2, <2>1 DEF MtypSlots
      <4> QED BY <1>1, <1>3, <1>6, <2>1, <4>1, <4>2, <4>3 DEF Holds
    <3>2. ASSUME NEW u \in Slots, u # s, NEW k \in modules, Holds(k, u) PROVE Holds(k, u)'
      <4>1. /\ u \in MtypSlots(k)' /\ mtyp'[u] = patchedMtyp'[k][u] /\ mtyp'[u] = mtyp[u]
            /\ \A n \in modules : u \in MtypSlots(n)' <=> u \in MtypSlots(n)
        BY <1>2, <2>1, <2>2, <3>2 DEF Holds
      <4> QED BY <1>1, <1>3, <1>6, <3>2, <4>1 DEF Holds
    <3>3. ASSUME Ordered, NEW u \in Slots, mtyp'[u] < -1 PROVE \E k \in modules' : Holds(k, u)'
      <4>1. CASE u = s
        BY <1>1, <3>1, <4>1
      <4>2. CASE u # s
        <5>1. PICK k \in modules : Holds(k, u)
          BY <2>1, <3>3, <4>2 DEF HypM, MtypInv, NewestMtyp
        <5> QED BY <1>1, <3>2, <4>2, <5>1
      <4> QED BY <4>1, <4>2
    <3> QED BY <1>3, <3>3 DEF NewestMtyp
  <2> QED BY <1>4, <2>3, <2>4, <2>5 DEF MtypInv
<1> QED BY <1>0, <1>5, <1>6 DEF PatchMethod, PatchMtyp, patchVars

\* In order, the module that leaves finds its own offset in what it has to reset.
LEMMA HoldsOwn ==
  ASSUME HypM, Ordered, NEW m \in modules, pc[m] \in Reverting,
         NEW u \in MtypSlots(m), ~Done(m, u), mtyp[u] < -1
  PROVE  Holds(m, u)
<1>1. m \in Modules /\ u \in Slots /\ modules \subseteq Modules /\ born \in [Modules -> Nat]
  BY DEF HypM, HypO, HypT, Hyp, TypeOK, MtypSlots
<1>2. PICK k \in modules : Holds(k, u)
  BY <1>1 DEF HypM, MtypInv, NewestMtyp
<1>3. born[m] <= born[k]
  BY <1>1, <1>2 DEF Holds
<1>4. born[k] <= born[m]
  BY <1>1 DEF HypM, MtypInv, NewestLeaves
<1>5. k = m
  BY <1>1, <1>3, <1>4 DEF HypM, HypO, TextInv, Births
<1> QED BY <1>2, <1>5

\* There is no third module.
LEMMA AtMostTwo ==
  ASSUME HypM, Ordered, NEW m \in modules, NEW n \in modules, NEW o \in modules, m # n, m # o
  PROVE  n = o
<1>1. modules \subseteq Modules /\ born \in [Modules -> Nat] /\ clock \in Nat
  BY DEF HypM, HypO, HypT, Hyp, TypeOK
<1>2. \A k \in modules : born[k] \in {1, 2}
  BY <1>1 DEF HypM, HypO, TextInv, Births, Ordered
<1> QED BY <1>1, <1>2 DEF HypM, HypO, TextInv, Births

LEMMA RevertMtypMtyp ==
  ASSUME HypM, NEW m \in Modules, NEW t \in Types, RevertMtyp(m, t)
  PROVE  MtypInv'
<1> DEFINE mine == OfType(MtypSlots(m), t)
<1>1. /\ pc[m] = "revertMtyp" /\ t \in todo[m] /\ m \in modules
      /\ todo' = [todo EXCEPT ![m] = @ \ {t}]
      /\ UNCHANGED <<counter, patchedMtyp, modules, born, clock, order, pc>>
  BY DEF RevertMtyp, patchVars, lifeVars, HypM, HypO, HypT, Hyp, SeqInv, Lifecycle, Reverting
<1>2. /\ modules \subseteq Modules /\ mtyp \in [Slots -> Int] /\ patchedMtyp \in [Modules -> [Slots -> Int]]
      /\ \A n \in Modules : n # m => todo'[n] = todo[n]
      /\ todo'[m] = todo[m] \ {t}
  BY <1>1 DEF HypM, HypO, HypT, Hyp, TypeOK
<1>3. /\ \A n : MtypSlots(n)' = MtypSlots(n)
      /\ Ordered' => Ordered
      /\ \A n \in Modules, s \in Slots : n # m \/ s[1] # t => (Done(n, s)' <=> Done(n, s))
      /\ \A s \in Slots : s[1] = t => Done(m, s)' /\ ~Done(m, s)
  BY <1>1, <1>2 DEF MtypSlots, Ordered, NoneFailed, Done
<1>4. NewestLeaves' /\ Offsets'
  BY <1>1, <1>3 DEF HypM, MtypInv, NewestLeaves, Offsets
<1>5. ASSUME NEW o \in modules, o # m, NoneFailed
      PROVE  pc[o] = "loaded" /\ o \in published
  <2>1. pc[o] \in Settled
    BY <1>1, <1>2, <1>5, Alone DEF HypM, HypO, HypT, Settled
  <2> QED BY <1>2, <1>5, <2>1 DEF HypM, HypO, HypT, Hyp, SeqInv, Lifecycle, NoneFailed, Settled, Reverting
<1>6. \A o \in Others(m, t) : o \in modules /\ o # m /\ o \in Modules
  BY <1>2 DEF Others
\* Which slots are rewritten, with what, and which entries go.
<1>7. \E S \in SUBSET mine :
        /\ typemap' = {e \in typemap : \A s \in S : e[1] # mtyp[s]}
        /\ \A s \in Slots \ S : mtyp'[s] = mtyp[s]
        /\ \/ /\ Others(m, t) = {} /\ \A s \in S : mtyp'[s] = -1
              /\ \A s \in mine : mtyp[s] < -1 => s \in S
           \/ \E o \in Others(m, t) : S = mine \cap MtypSlots(o) /\ \A s \in S : mtyp'[s] = patchedMtyp[o][s]
  <2>0. mine \subseteq Slots
    BY DEF OfType, MtypSlots
  <2>1. CASE Others(m, t) = {}
    <3> DEFINE S == {s \in mine : mtyp[s] < -1}
    <3>1. /\ typemap' = {e \in typemap : \A s \in S : e[1] # mtyp[s]}
          /\ mtyp' = [s \in Slots |-> IF s \in S THEN -1 ELSE mtyp[s]]
      BY <2>1 DEF RevertMtyp
    <3>2. /\ \A s \in Slots \ S : mtyp'[s] = mtyp[s]
          /\ \A s \in S : mtyp'[s] = -1
          /\ S \in SUBSET mine
      BY <2>0, <3>1
    <3>3. \A s \in mine : mtyp[s] < -1 => s \in S
      OBVIOUS
    <3> HIDE DEF S, mine
    <3> QED BY <2>1, <3>1, <3>2, <3>3
  <2>2. CASE Others(m, t) # {}
    <3>1. PICK o \in Others(m, t) :
            LET S == mine \cap MtypSlots(o) IN
            /\ typemap' = {e \in typemap : \A s \in S : e[1] # mtyp[s]}
            /\ mtyp' = [s \in Slots |-> IF s \in S THEN patchedMtyp[o][s] ELSE mtyp[s]]
      BY <2>2 DEF RevertMtyp
    <3> DEFINE S == mine \cap MtypSlots(o)
    <3>2. /\ \A s \in Slots \ S : mtyp'[s] = mtyp[s]
          /\ \A s \in S : mtyp'[s] = patchedMtyp[o][s]
          /\ S \in SUBSET mine
      BY <2>0, <3>1
    <3>3. typemap' = {e \in typemap : \A s \in S : e[1] # mtyp[s]}
      BY <3>1
    <3> QED BY <3>2, <3>3
  <2> QED BY <2>1, <2>2
<1>8. PICK S \in SUBSET mine :
        /\ typemap' = {e \in typemap : \A s \in S : e[1] # mtyp[s]}
        /\ \A s \in Slots \ S : mtyp'[s] = mtyp[s]
        /\ \/ /\ Others(m, t) = {} /\ \A s \in S : mtyp'[s] = -1
              /\ \A s \in mine : mtyp[s] < -1 => s \in S
           \/ \E o \in Others(m, t) : S = mine \cap MtypSlots(o) /\ \A s \in S : mtyp'[s] = patchedMtyp[o][s]
  BY <1>7
<1>9. \A s \in S : s \in Slots /\ s[1] = t /\ s \in MtypSlots(m)
  BY DEF OfType, MtypSlots
<1>10. ASSUME Ordered, NEW n \in Modules, NEW u \in MtypSlots(n), n # m \/ u \notin S,
              <<patchedMtyp[n][u], n>> \in typemap
       PROVE  <<patchedMtyp[n][u], n>> \in typemap'
  <2>1. u \in Slots /\ patchedMtyp[n][u] # 0 /\ patchedMtyp[n][u] < -1
    BY DEF MtypSlots, HypM, MtypInv, Offsets
  <2>2. ASSUME NEW s \in S PROVE patchedMtyp[n][u] # mtyp[s]
    <3>1. CASE mtyp[s] < -1
      <4>1. Holds(m, s)
        BY <1>1, <1>3, <1>9, <1>10, <3>1, HoldsOwn DEF Reverting
      <4>2. mtyp[s] = patchedMtyp[m][s]
        BY <4>1 DEF Holds
      <4> QED BY <1>9, <1>10, <2>1, <4>2 DEF HypM, MtypInv, Offsets
    <3>2. CASE ~(mtyp[s] < -1)
      BY <1>2, <1>9, <2>1, <3>2
    <3> QED BY <3>1, <3>2
  <2> QED BY <1>8, <1>10, <2>2
<1>11. Entries'
  <2>1. ASSUME Ordered, NEW n \in Modules, pc[n] \in {"dedup", "publish", "loaded"}, NEW u \in MtypSlots(n)
        PROVE  <<patchedMtyp[n][u], n>> \in typemap'
    <3>1. <<patchedMtyp[n][u], n>> \in typemap /\ n # m
      BY <1>1, <2>1 DEF HypM, MtypInv, Entries
    <3> QED BY <1>10, <2>1, <3>1
  <2> QED BY <1>1, <1>3, <2>1 DEF Entries
<1>12. NewestMtyp'
  <2>1. ASSUME Ordered, NEW s \in Slots \ S, mtyp'[s] < -1
        PROVE  \E k \in modules' : Holds(k, s)'
    <3>1. PICK k \in modules : Holds(k, s)
      BY <1>8, <2>1 DEF HypM, MtypInv, NewestMtyp
    <3>2. ASSUME s[1] = t PROVE k # m
      <4>1. CASE k = m
        <5>1. s \in mine /\ mtyp[s] < -1
          BY <1>8, <2>1, <3>1, <3>2, <4>1 DEF Holds, OfType
        <5>2. PICK o \in Others(m, t) : S = mine \cap MtypSlots(o)
          BY <1>8, <2>1, <5>1
        <5>3. s \in patchedIfn[m]
          BY <3>1, <4>1 DEF Holds, HypM, HypO, HypT, Hyp, SeqInv, Recorded
        <5>4. o \in modules /\ o # m /\ NoneFailed
          BY <1>6, <2>1 DEF Ordered
        <5>5. s \in patchedIfn[o]
          <6>1. Kept(m, s)
            BY <1>1, <3>2, <5>2, <5>3, OthersKeep DEF HypM, HypO, HypT, Reverting
          <6>2. PICK n \in modules \ {m} : s \in patchedIfn[n]
            BY <6>1 DEF Kept
          <6>3. n = o
            BY <1>1, <2>1, <5>4, <6>2, AtMostTwo
          <6> QED BY <6>2, <6>3
        <5>6. s \notin HostMtyp
          BY <5>1 DEF HypM, HypO, HypT, Hyp, SeqInv, HostMtypKept, HostOff
        <5>7. s \in MtypSlots(o)
          BY <1>6, <5>5, <5>6 DEF HypM, HypO, HypT, TablesInv, MtypDropped
        <5> QED BY <2>1, <5>1, <5>2, <5>7
      <4> QED BY <4>1
    <3>3. k \in Modules /\ s \in MtypSlots(k) /\ mtyp[s] = patchedMtyp[k][s] /\ <<mtyp[s], k>> \in typemap
      BY <1>2, <3>1 DEF Holds
    <3>4. <<mtyp[s], k>> \in typemap'
      BY <1>10, <2>1, <3>3
    <3>5. ~Done(k, s)'
      BY <1>3, <2>1, <3>1, <3>2, <3>3 DEF Holds
    <3>6. \A n \in modules : s \in MtypSlots(n) /\ ~Done(n, s)' => born[n] <= born[k]
      BY <1>2, <1>3, <2>1, <3>1 DEF Holds
    <3>7. Holds(k, s)'
      BY <1>1, <1>3, <1>8, <2>1, <3>3, <3>4, <3>5, <3>6 DEF Holds
    <3> QED BY <1>1, <3>7
  <2>2. ASSUME Ordered, NEW s \in S, mtyp'[s] < -1
        PROVE  \E k \in modules' : Holds(k, s)'
    <3>1. PICK o \in Others(m, t) : S = mine \cap MtypSlots(o) /\ mtyp'[s] = patchedMtyp[o][s]
      BY <1>8, <2>2
    <3>2. o \in modules /\ o # m /\ pc[o] = "loaded" /\ o \in Modules /\ s \in MtypSlots(o)
      BY <1>5, <1>6, <2>2, <3>1 DEF Ordered
    <3>3. <<patchedMtyp[o][s], o>> \in typemap'
      <4>1. <<patchedMtyp[o][s], o>> \in typemap
        BY <2>2, <3>2 DEF HypM, MtypInv, Entries
      <4> QED BY <1>10, <2>2, <3>2, <4>1
    <3>4. ~Done(o, s)'
      BY <1>1, <3>2 DEF Done
    <3>5. \A n \in modules : s \in MtypSlots(n) /\ ~Done(n, s)' => born[n] <= born[o]
      <4>1. \A n \in modules : ~Done(n, s)' => n # m
        BY <1>3, <1>9
      <4>2. \A n \in modules : n # m => n = o
        BY <1>1, <2>2, <3>2, AtMostTwo
      <4>3. born[o] <= born[o]
        BY <3>2 DEF HypM, HypO, HypT, Hyp, TypeOK
      <4> QED BY <4>1, <4>2, <4>3
    <3>6. Holds(o, s)'
      BY <1>1, <1>3, <3>1, <3>2, <3>3, <3>4, <3>5 DEF Holds
    <3> QED BY <1>1, <3>2, <3>6
  <2> QED BY <1>3, <2>1, <2>2 DEF NewestMtyp
<1> QED BY <1>4, <1>11, <1>12 DEF MtypInv

LEMMA RemoveModuleMtyp ==
  ASSUME HypM, NEW m \in Modules, RemoveModule(m)
  PROVE  MtypInv'
<1>1. /\ pc[m] = "reverted" /\ pc' = [pc EXCEPT ![m] = "removed"]
      /\ modules' = modules \ {m}
      /\ UNCHANGED <<mtyp, typemap, counter, patchedMtyp, born, clock, order, todo>>
  BY DEF RemoveModule, Goto, hostVars, patchVars
<1>2. /\ pc'[m] = "removed" /\ \A n \in Modules : n # m => pc'[n] = pc[n]
      /\ modules \subseteq Modules
  BY <1>1 DEF HypM, HypO, HypT, Hyp, TypeOK
<1>3. /\ \A n : MtypSlots(n)' = MtypSlots(n)
      /\ Ordered' => Ordered
      /\ \A n \in modules', s \in Slots : Done(n, s)' <=> Done(n, s)
  BY <1>1, <1>2 DEF MtypSlots, Ordered, NoneFailed, Done
<1>4. NewestLeaves' /\ Offsets' /\ Entries'
  BY <1>1, <1>2, <1>3 DEF HypM, MtypInv, NewestLeaves, Offsets, Entries, Reverting
<1>5. NewestMtyp'
  <2>1. ASSUME NEW k \in modules, NEW s \in Slots, Holds(k, s)
        PROVE  k \in modules' /\ Holds(k, s)'
    <3>1. k # m
      BY <1>1, <2>1 DEF Holds, Done
    <3> QED BY <1>1, <1>3, <2>1, <3>1 DEF Holds
  <2> QED BY <1>1, <1>3, <2>1 DEF HypM, MtypInv, NewestMtyp
<1> QED BY <1>4, <1>5 DEF MtypInv

LEMMA StepMtyp ==
  ASSUME HypM, [Next]_vars
  PROVE  MtypInv'
<1>1. ASSUME NEW m \in Modules, LoadStep(m) PROVE MtypInv'
  BY <1>1, StartDedupMtyp, QuietStepsMtyp, PatchMethodMtyp DEF LoadStep
<1>2. ASSUME NEW m \in Modules, UnloadStep(m) PROVE MtypInv'
  BY <1>2, QuietStepsMtyp, RevertMtypMtyp, RemoveModuleMtyp DEF UnloadStep
<1>3. CASE UNCHANGED vars
  <2>1. UNCHANGED <<mtyp, typemap, counter, patchedMtyp, modules, pc, todo, born, clock, order>>
    BY <1>3 DEF vars, hostVars, patchVars, lifeVars
  <2>2. \A n, s : (s \in MtypSlots(n)' <=> s \in MtypSlots(n)) /\ (Done(n, s)' <=> Done(n, s))
    BY <2>1 DEF MtypSlots, Done
  <2>3. \A n, s : Holds(n, s) => Holds(n, s)'
    BY <2>1, <2>2 DEF Holds
  <2>4. Ordered' => Ordered
    BY <2>1 DEF Ordered, NoneFailed
  <2>5. NewestLeaves' /\ Offsets' /\ Entries'
    BY <2>1, <2>2, <2>4 DEF HypM, MtypInv, NewestLeaves, Offsets, Entries
  <2>6. NewestMtyp'
    BY <2>1, <2>3, <2>4 DEF HypM, MtypInv, NewestMtyp
  <2> QED BY <2>5, <2>6 DEF MtypInv
<1> QED BY <1>1, <1>2, <1>3 DEF Next

\* A client that unloads oldest first, any number of modules, never leaves a host
\* table pointing into unmapped text; and one that unloads the newer of two
\* modules first never leaves a method type offset without an entry, as long as
\* no Load failed (itab.go:14-16, 191-208, 363-376).
THEOREM OrderlyUnloads ==
  ASSUME Sequential
  PROVE  Spec => []OrderedUnloadsAreSafe
<1> DEFINE Inv == TypeOK /\ UntouchedInv /\ SeqInv /\ TablesInv /\ TextInv /\ MtypInv
<1>1. Inv /\ [Next]_vars => UntouchedInv' /\ SeqInv' /\ TablesInv' /\ TextInv' /\ MtypInv'
  BY TablesStep, StepText, StepMtyp DEF Hyp, HypT, HypO, HypM
<1>2. ASSUME Inv, NoneFailed PROVE modules \subseteq mapped
  BY <1>2 DEF TypeOK, SeqInv, Lifecycle, TextInv, InMemory, NoneFailed
<1>3. Inv => NoDanglingOldestFirst
  BY <1>2 DEF NoDanglingOldestFirst, NoDanglingText, TextInv, TextOfLoaded, NoneFailed
<1>4. Inv => MtypResolves
  BY <1>2 DEF MtypResolves, MtypInv, NewestMtyp, Holds, Ordered, NoneFailed
<1>5. Inv => OrderedUnloadsAreSafe
  BY <1>3, <1>4 DEF OrderedUnloadsAreSafe
<1>6. Init => UntouchedInv /\ SeqInv /\ TablesInv /\ TextInv /\ MtypInv
  BY InitUntouched, InitSeq, InitTables, InitText, InitMtyp
<1> QED BY <1>1, <1>5, <1>6, TypeCorrect, PTL DEF Spec

================================================================================

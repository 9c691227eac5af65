-------------------------- MODULE ModuleLifecycleProofs --------------------------
(***************************************************************************)
(* Theorems about ModuleLifecycle, for every set of modules, every set of  *)
(* failing stages and any number of operations at one time.                *)
(***************************************************************************)
EXTENDS ModuleLifecycle, FiniteSetTheorems, TLAPS

(***************************************************************************)
(* The linked list: what a walk comes to, and how appending and unlinking  *)
(* change it.                                                              *)
(***************************************************************************)

LEMMA ReachFacts ==
  ASSUME next \in [Nodes -> Modules \cup {Nil}]
  PROVE  /\ Reach \subseteq Nodes /\ First \in Reach
         /\ \A n \in Reach : next[n] \in Listed \cup {Nil}
         /\ \A S \in SUBSET Nodes : Closed(S) => Reach \subseteq S
<1>1. Reach \subseteq Nodes /\ First \in Reach
  BY DEF Reach, Nodes, Closed
<1>2. ASSUME NEW n \in Reach, next[n] # Nil PROVE next[n] \in Reach /\ next[n] \in Modules
  <2>1. next[n] \in Modules
    BY <1>1, <1>2
  <2>2. ASSUME NEW S \in SUBSET Nodes, Closed(S) PROVE next[n] \in S
    BY <1>2, <2>2 DEF Reach, Closed
  <2> QED BY <2>1, <2>2 DEF Reach, Nodes
<1>3. \A S \in SUBSET Nodes : Closed(S) => Reach \subseteq S
  BY DEF Reach
<1> QED BY <1>1, <1>2, <1>3, ConstantsAssumption DEF Listed

\* No two nodes of the list have the same successor.
Injective == \A a, b \in Reach : next[a] = next[b] /\ next[a] # Nil => a = b

Ends == \E n \in Reach : next[n] = Nil

\* Linking a fresh node behind the last one adds that node.
LEMMA AppendReach ==
  ASSUME next \in [Nodes -> Modules \cup {Nil}], NEW m \in Modules, NEW l \in Reach,
         m \notin Reach, next[m] = Nil, next[l] = Nil, next' = [next EXCEPT ![l] = m]
  PROVE  Reach' = Reach \cup {m} /\ (Injective => Injective') /\ Ends'
<1>1. /\ l \in Nodes /\ l # m /\ m \in Nodes
      /\ next'[l] = m /\ \A n \in Nodes : n # l => next'[n] = next[n]
  BY ReachFacts DEF Nodes
<1>2. PICK R \in SUBSET Nodes : R = Reach
  BY ReachFacts
<1>3. Reach' \subseteq R \cup {m}
  <2>1. Closed(R \cup {m})'
    BY <1>1, <1>2, ReachFacts DEF Closed, Listed
  <2> QED BY <1>1, <1>2, <2>1 DEF Reach
<1>4. ASSUME NEW S \in SUBSET Nodes, Closed(S)' PROVE Reach \cup {m} \subseteq S
  <2>1. Closed(S)
    BY <1>1, <1>4 DEF Closed
  <2>2. l \in S
    BY <2>1, ReachFacts
  <2> QED BY <1>1, <1>4, <2>1, <2>2, ReachFacts, ConstantsAssumption DEF Closed
<1>5. Reach \cup {m} \subseteq Reach'
  BY <1>1, <1>2, <1>4 DEF Reach
<1>6. Reach' = Reach \cup {m}
  BY <1>2, <1>3, <1>5
<1>7. Injective => Injective'
  <2>1. \A n \in Reach : next[n] # m
    BY ReachFacts, ConstantsAssumption DEF Listed
  <2> QED BY <1>1, <1>6, <2>1, ReachFacts DEF Injective
<1> QED BY <1>1, <1>6, <1>7 DEF Ends

\* Bypassing a node takes that node off.
LEMMA UnlinkReach ==
  ASSUME next \in [Nodes -> Modules \cup {Nil}], Injective, Ends, NEW m \in Modules, NEW p \in Reach,
         next[p] = m, p # m, next' = [next EXCEPT ![p] = next[m]]
  PROVE  Reach' = Reach \ {m} /\ Injective' /\ Ends'
<1>1. /\ p \in Nodes /\ m \in Nodes /\ m # Nil /\ m # First
      /\ next'[p] = next[m] /\ \A n \in Nodes : n # p => next'[n] = next[n]
  BY ReachFacts, ConstantsAssumption DEF Nodes
<1>2. m \in Reach /\ next[m] # m /\ \A n \in Reach : n # p => next[n] # m
  BY <1>1, ReachFacts DEF Injective, Listed
<1>3. PICK R \in SUBSET Nodes : R = Reach
  BY ReachFacts
<1>4. Reach' \subseteq R \ {m}
  <2>1. Closed(R \ {m})'
    BY <1>1, <1>2, <1>3, ReachFacts DEF Closed, Listed
  <2> QED BY <1>3, <2>1 DEF Reach
<1>5. ASSUME NEW S \in SUBSET Nodes, Closed(S)' PROVE Reach \subseteq S \cup {m}
  <2>1. CASE p \in S
    <3>1. Closed(S \cup {m})
      BY <1>1, <1>5, <2>1 DEF Closed
    <3> QED BY <1>1, <3>1, ReachFacts
  <2>2. CASE p \notin S
    <3>1. Closed(S)
      BY <1>1, <1>5, <2>2 DEF Closed
    <3> QED BY <3>1, ReachFacts
  <2> QED BY <2>1, <2>2
<1>6. Reach \ {m} \subseteq Reach'
  BY <1>3, <1>5 DEF Reach
<1>7. Reach' = Reach \ {m}
  BY <1>3, <1>4, <1>6
<1>8. Injective'
  BY <1>1, <1>2, <1>7, ReachFacts DEF Injective
<1>9. Ends'
  <2>1. PICK e \in Reach : next[e] = Nil
    BY DEF Ends
  <2>2. e # p
    BY <1>1, <2>1
  <2>3. CASE e = m
    BY <1>1, <1>7, <2>1, <2>3 DEF Ends
  <2>4. CASE e # m
    BY <1>1, <1>7, <2>1, <2>2, <2>4, ReachFacts DEF Ends
  <2> QED BY <2>3, <2>4
<1> QED BY <1>7, <1>8, <1>9

\* The walk of addModule stops before the end of the list.
TypeInv == TypeOK /\ \A m \in Modules : pc[m] = "append" => at[m] # Nil

LEMMA TypeStep == TypeInv /\ [Next]_vars => TypeInv'
<1> SUFFICES ASSUME TypeInv, [Next]_vars PROVE TypeInv'
  OBVIOUS
<1> USE ConstantsAssumption DEF TypeInv, TypeOK, Nodes, PCs, Settled, Goto, listVars, memVars, walkVars
<1>1. ASSUME UNCHANGED atOnce, NEW m \in Modules, LoadStep(m) PROVE TypeInv'
  <2>1. CASE MmapCode(m)
    BY <1>1, <2>1 DEF MmapCode
  <2>2. CASE MmapData(m)
    BY <1>1, <2>2 DEF MmapData
  <2>3. CASE Link(m)
    BY <1>1, <2>3 DEF Link
  <2>4. CASE FailLoad(m)
    BY <1>1, <2>4 DEF FailLoad
  <2>5. CASE LockAdd(m)
    BY <1>1, <2>5 DEF LockAdd
  <2>6. CASE Append(m)
    BY <1>1, <2>6 DEF Append
  <2>7. CASE AddItabs(m)
    BY <1>1, <2>7 DEF AddItabs, StartScan
  <2>8. CASE Deduplicate(m)
    BY <1>1, <2>8 DEF Deduplicate
  <2> QED BY <1>1, <2>1, <2>2, <2>3, <2>4, <2>5, <2>6, <2>7, <2>8 DEF LoadStep
<1>2. ASSUME UNCHANGED atOnce, NEW m \in Modules, UnloadStep(m) PROVE TypeInv'
  <2>1. CASE BeginUnload(m)
    BY <1>2, <2>1 DEF BeginUnload
  <2>2. CASE Revert(m)
    BY <1>2, <2>2 DEF Revert
  <2>3. CASE RemoveItabs(m)
    BY <1>2, <2>3 DEF RemoveItabs
  <2>4. CASE LockRemove(m)
    BY <1>2, <2>4 DEF LockRemove
  <2>5. CASE Unlink(m)
    BY <1>2, <2>5 DEF Unlink, StartScan
  <2>6. CASE MunmapModule(m)
    BY <1>2, <2>6 DEF MunmapModule
  <2> QED BY <1>2, <2>1, <2>2, <2>3, <2>4, <2>5, <2>6 DEF UnloadStep
<1>3. ASSUME UNCHANGED atOnce, NEW m \in Modules, Scan(m) PROVE TypeInv'
  BY <1>3 DEF Scan
<1>4. ASSUME UNCHANGED atOnce, NEW m \in Modules, StoreActive(m) PROVE TypeInv'
  BY <1>4 DEF StoreActive
<1>5. CASE UNCHANGED vars
  BY <1>5 DEF vars
<1> QED BY <1>1, <1>2, <1>3, <1>4, <1>5 DEF Next, Step, Idle

\* Every field keeps its shape, and the walk of addModule stays on the list.
THEOREM TypeCorrect == Spec => []TypeOK
<1>1. Init => TypeInv
  BY ConstantsAssumption DEF Init, TypeInv, TypeOK, Nodes, PCs, Settled
<1>2. TypeInv => TypeOK
  BY DEF TypeInv
<1> QED BY <1>1, <1>2, TypeStep, PTL DEF Spec

(***************************************************************************)
(* The list and the map under any number of operations at one time.  Only  *)
(* the holder of modulesLock writes the list; a walk that looks for the    *)
(* module to remove has left behind it a part of the list from which only  *)
(* its own position leads on.                                              *)
(***************************************************************************)
Locked == {"append", "unlink"}

\* The stages of a module that the list has never held, and of one it has not got.
Fresh == {"new", "mmapData", "link", "lockAdd", "append"}
Outside == (Fresh \ {"append"}) \cup {"rescan", "munmap", "unloaded"}

Holder == \A m \in Modules : lock = m <=> pc[m] \in Locked

Membership ==
  \A m \in Modules :
    /\ pc[m] \in Registered \cup Locked => m \in modules
    /\ pc[m] \in Outside => m \notin modules

ListIsMap == Listed = {m \in modules : pc[m] # "append"}

FreshEnds == \A m \in Modules : pc[m] \in Fresh => next[m] = Nil

AppendWalk == \A m \in Modules : pc[m] = "append" => at[m] \in Reach

\* V is what the walk has left behind, with the node before its position.
Behind(V, m) ==
  /\ First \in V /\ m \notin V /\ prev[m] \in V
  /\ \A n \in V \ {prev[m]} : next[n] \in V

UnlinkWalk ==
  \A m \in Modules : pc[m] = "unlink" =>
    /\ \E V \in SUBSET Reach : Behind(V, m)
    /\ at[m] = next[prev[m]] \/ (at[m] = First /\ prev[m] = First)

ListInv ==
  /\ TypeOK /\ Holder /\ Membership /\ ListIsMap /\ Injective /\ Ends
  /\ FreshEnds /\ AppendWalk /\ UnlinkWalk

LEMMA ListInvInit == Init => ListInv
<1> SUFFICES ASSUME Init PROVE ListInv
  OBVIOUS
<1>1. TypeOK
  BY ConstantsAssumption DEF Init, TypeOK, Nodes, PCs, Settled
<1>2. Reach = {First}
  <2>1. {First} \in SUBSET Nodes /\ Closed({First})
    BY DEF Init, Closed, Nodes
  <2>2. Reach \subseteq {First}
    BY <2>1 DEF Reach
  <2> QED BY <1>1, <2>2, ReachFacts DEF TypeOK
<1>3. Injective /\ Ends /\ ListIsMap
  BY <1>2 DEF Init, Injective, Ends, ListIsMap, Listed, Nodes
<1>4. Holder /\ Membership /\ FreshEnds /\ AppendWalk /\ UnlinkWalk
  BY ConstantsAssumption
     DEF Init, Holder, Membership, FreshEnds, AppendWalk, UnlinkWalk, Locked, Registered, Nodes
<1> QED BY <1>1, <1>3, <1>4 DEF ListInv

\* A step that leaves the list, the map and the lock alone.
LEMMA QuietStep ==
  ASSUME ListInv, TypeOK', UNCHANGED listVars, NEW m \in Modules, NEW l, Goto(m, l),
         \A n \in Modules \ {m} : at'[n] = at[n] /\ prev'[n] = prev[n],
         pc[m] \notin Locked, l \notin Locked,
         l \in Registered => pc[m] \in Registered,
         l \in Outside => pc[m] \in Outside,
         l \in Fresh => pc[m] \in Fresh
  PROVE  ListInv' /\ Reach' = Reach /\ Listed' = Listed
<1>1. /\ pc \in [Modules -> PCs] /\ pc'[m] = l
      /\ \A n \in Modules : n # m => pc'[n] = pc[n] /\ at'[n] = at[n] /\ prev'[n] = prev[n]
      /\ next' = next /\ modules' = modules /\ lock' = lock /\ modules \subseteq Modules
  BY DEF ListInv, TypeOK, Goto, listVars
<1>2. Reach' = Reach
  BY <1>1 DEF Reach, Closed
<1>3. Injective' /\ Ends' /\ Listed' = Listed
  BY <1>1, <1>2 DEF ListInv, Injective, Ends, Listed
<1>4. Holder' /\ Membership'
  BY <1>1 DEF ListInv, Holder, Membership, Locked
<1>5. ListIsMap'
  BY <1>1, <1>3 DEF ListInv, ListIsMap, Locked
<1>6. FreshEnds' /\ AppendWalk'
  BY <1>1, <1>2 DEF ListInv, FreshEnds, AppendWalk, Locked
<1>7. UnlinkWalk'
  BY <1>1, <1>2 DEF ListInv, UnlinkWalk, Behind, Locked
<1> QED BY <1>2, <1>3, <1>4, <1>5, <1>6, <1>7 DEF ListInv

LEMMA LockAddStep ==
  ASSUME ListInv, TypeOK', NEW m \in Modules, LockAdd(m)
  PROVE  ListInv' /\ Reach' = Reach /\ Listed' = Listed
<1>1. /\ pc \in [Modules -> PCs] /\ pc[m] = "lockAdd" /\ pc'[m] = "append" /\ at'[m] = First
      /\ \A n \in Modules : n # m => pc'[n] = pc[n] /\ at'[n] = at[n]
      /\ prev' = prev /\ next' = next /\ modules' = modules \cup {m} /\ lock = Nil /\ lock' = m
  BY DEF ListInv, TypeOK, Goto, LockAdd
<1>2. Reach' = Reach
  BY <1>1 DEF Reach, Closed
<1>3. Injective' /\ Ends' /\ Listed' = Listed
  BY <1>1, <1>2 DEF ListInv, Injective, Ends, Listed
<1>4. \A n \in Modules : pc[n] \notin Locked
  BY <1>1, ConstantsAssumption DEF ListInv, Holder
<1>5. Holder' /\ Membership'
  BY <1>1, <1>4 DEF ListInv, Holder, Membership, Locked, Outside, Fresh, Registered
<1>6. ListIsMap'
  <2>1. m \notin modules /\ modules \subseteq Modules
    BY <1>1 DEF ListInv, Membership, Outside, Fresh, TypeOK
  <2> QED BY <1>1, <1>3, <1>4, <2>1 DEF ListInv, ListIsMap, Locked
<1>7. FreshEnds' /\ AppendWalk'
  BY <1>1, <1>2, <1>4, ReachFacts DEF ListInv, TypeOK, FreshEnds, AppendWalk, Locked, Fresh
<1>8. UnlinkWalk'
  <2>1. \A n \in Modules : pc'[n] # "unlink"
    BY <1>1, <1>4 DEF Locked
  <2> QED BY <2>1 DEF UnlinkWalk
<1> QED BY <1>2, <1>3, <1>5, <1>6, <1>7, <1>8 DEF ListInv

LEMMA LockRemoveStep ==
  ASSUME ListInv, TypeOK', NEW m \in Modules, LockRemove(m)
  PROVE  ListInv' /\ Reach' = Reach /\ Listed' = Listed
<1>1. /\ pc \in [Modules -> PCs] /\ pc[m] = "lockRemove" /\ pc'[m] = "unlink"
      /\ at'[m] = First /\ prev'[m] = First
      /\ \A n \in Modules : n # m => pc'[n] = pc[n]
      /\ next' = next /\ modules' = modules /\ modules \subseteq Modules
      /\ lock = Nil /\ lock' = m
  BY DEF ListInv, TypeOK, Goto, LockRemove
<1>2. Reach' = Reach
  BY <1>1 DEF Reach, Closed
<1>3. Injective' /\ Ends' /\ Listed' = Listed
  BY <1>1, <1>2 DEF ListInv, Injective, Ends, Listed
<1>4. \A n \in Modules : pc[n] \notin Locked
  BY <1>1, ConstantsAssumption DEF ListInv, Holder
<1>5. Holder' /\ Membership'
  BY <1>1, <1>4 DEF ListInv, Holder, Membership, Locked, Outside, Fresh, Registered
<1>6. ListIsMap'
  BY <1>1, <1>3, <1>4 DEF ListInv, ListIsMap, Locked
<1>7. FreshEnds' /\ AppendWalk'
  BY <1>1, <1>2, <1>4 DEF ListInv, FreshEnds, AppendWalk, Locked, Fresh
<1>8. UnlinkWalk'
  <2>1. {First} \in SUBSET Reach /\ m # First
    BY ReachFacts, ConstantsAssumption DEF ListInv, TypeOK
  <2>2. {First} \in SUBSET Reach' /\ Behind({First}, m)'
    BY <1>1, <1>2, <2>1 DEF Behind
  <2>3. \A n \in Modules : pc'[n] = "unlink" => n = m
    BY <1>1, <1>4 DEF Locked
  <2> QED BY <1>1, <2>2, <2>3 DEF UnlinkWalk
<1> QED BY <1>2, <1>3, <1>5, <1>6, <1>7, <1>8 DEF ListInv

\* Append is a step of the walk, or links the module at the end of the list.
LEMMA AppendStep ==
  ASSUME ListInv, TypeOK', NEW m \in Modules, Append(m)
  PROVE  /\ ListInv'
         /\ \/ pc' = pc /\ Reach' = Reach /\ Listed' = Listed
            \/ pc'[m] = "itabs" /\ m \notin Listed /\ Listed' = Listed \cup {m}
<1>1. /\ pc[m] = "append" /\ lock = m /\ m \in modules /\ m \notin Reach /\ at[m] \in Reach
      /\ \A n \in Modules : n # m => pc[n] \notin Locked
  BY ConstantsAssumption DEF Append, ListInv, Holder, Membership, ListIsMap, Listed, AppendWalk, Locked
<1>2. next \in [Nodes -> Modules \cup {Nil}] /\ pc \in [Modules -> PCs] /\ modules \subseteq Modules
  BY DEF ListInv, TypeOK
<1>3. prev' = prev /\ modules' = modules
  BY DEF Append
<1>4. CASE next[at[m]] = Nil
  <2>1. /\ next' = [next EXCEPT ![at[m]] = m] /\ lock' = Nil /\ at' = at
        /\ pc'[m] = "itabs" /\ \A n \in Modules : n # m => pc'[n] = pc[n]
    BY <1>2, <1>4 DEF Append, Goto
  <2>2. Reach' = Reach \cup {m} /\ Injective' /\ Ends'
    <3>1. next[m] = Nil
      BY <1>1 DEF ListInv, FreshEnds, Fresh
    <3>2. PICK l \in Reach : l = at[m]
      BY <1>1
    <3> QED BY <1>1, <1>2, <1>4, <2>1, <3>1, <3>2, AppendReach DEF ListInv
  <2>3. m \notin Listed /\ Listed' = Listed \cup {m}
    BY <1>1, <2>2, ConstantsAssumption DEF Listed
  <2>4. Holder' /\ Membership'
    BY <1>1, <1>3, <2>1, ConstantsAssumption
       DEF ListInv, Holder, Membership, Locked, Outside, Fresh, Registered
  <2>5. ListIsMap'
    BY <1>1, <1>2, <1>3, <2>1, <2>3 DEF ListInv, ListIsMap
  <2>6. FreshEnds'
    <3>1. ASSUME NEW n \in Modules, pc'[n] \in Fresh PROVE n # m /\ n # at[m] /\ pc[n] \in Fresh
      <4>1. n # m /\ pc[n] \in Fresh \ {"append"}
        BY <1>1, <2>1, <3>1 DEF Fresh, Locked
      <4>2. n \notin Listed /\ n # First
        BY <4>1, ConstantsAssumption DEF ListInv, Membership, ListIsMap, Outside
      <4> QED BY <1>1, <4>1, <4>2 DEF Listed
    <3> QED BY <1>2, <2>1, <3>1 DEF ListInv, FreshEnds, Nodes
  <2>7. AppendWalk' /\ UnlinkWalk'
    <3>1. \A n \in Modules : pc'[n] \notin Locked
      BY <1>1, <2>1 DEF Locked
    <3> QED BY <3>1 DEF AppendWalk, UnlinkWalk, Locked
  <2> QED BY <2>1, <2>2, <2>3, <2>4, <2>5, <2>6, <2>7 DEF ListInv
<1>5. CASE next[at[m]] # Nil
  <2>1. next' = next /\ lock' = lock /\ pc' = pc /\ at' = [at EXCEPT ![m] = next[at[m]]]
    BY <1>5 DEF Append
  <2>2. Reach' = Reach
    BY <2>1 DEF Reach, Closed
  <2>3. Injective' /\ Ends' /\ Listed' = Listed /\ ListIsMap'
    BY <1>3, <2>1, <2>2 DEF ListInv, Injective, Ends, Listed, ListIsMap
  <2>4. Holder' /\ Membership' /\ FreshEnds'
    BY <1>3, <2>1 DEF ListInv, Holder, Membership, FreshEnds
  <2>5. next[at[m]] \in Reach
    BY <1>1, <1>2, <1>5, ReachFacts DEF Listed
  <2>6. AppendWalk'
    BY <1>1, <2>1, <2>2, <2>5 DEF ListInv, TypeOK, AppendWalk
  <2>7. UnlinkWalk'
    <3>1. \A n \in Modules : pc'[n] # "unlink"
      BY <1>1, <2>1 DEF Locked
    <3> QED BY <3>1 DEF UnlinkWalk
  <2> QED BY <2>1, <2>2, <2>3, <2>4, <2>6, <2>7 DEF ListInv
<1> QED BY <1>4, <1>5

\* Unlink is a step of the walk, or takes the module off the list and the map;
\* the walk does come to the module.
LEMMA UnlinkStep ==
  ASSUME ListInv, TypeOK', NEW m \in Modules, Unlink(m)
  PROVE  /\ ListInv'
         /\ \/ pc' = pc /\ Reach' = Reach /\ Listed' = Listed /\ modules' = modules
            \/ /\ pc'[m] = "rescan" /\ m \in Listed
               /\ Listed' = Listed \ {m} /\ modules' = modules \ {m}
<1>1. /\ pc[m] = "unlink" /\ lock = m /\ m \in modules /\ m \in Reach
      /\ \A n \in Modules : n # m => pc[n] \notin Locked
      /\ at[m] = next[prev[m]] \/ (at[m] = First /\ prev[m] = First)
  BY ConstantsAssumption DEF Unlink, ListInv, Holder, Membership, ListIsMap, Listed, UnlinkWalk, Locked
<1>2. /\ next \in [Nodes -> Modules \cup {Nil}] /\ pc \in [Modules -> PCs] /\ modules \subseteq Modules
      /\ Reach \subseteq Nodes
  BY ReachFacts DEF ListInv, TypeOK
<1>3. PICK V \in SUBSET Reach : Behind(V, m)
  BY <1>1 DEF ListInv, UnlinkWalk
<1>4. prev[m] \in Reach /\ prev[m] # m
  BY <1>3 DEF Behind
<1>5. at[m] # Nil
  <2>1. SUFFICES ASSUME next[prev[m]] = Nil PROVE FALSE
    BY <1>1, ConstantsAssumption
  <2>2. V \in SUBSET Nodes /\ Closed(V)
    BY <1>2, <1>3, <2>1 DEF Behind, Closed
  <2> QED BY <1>1, <1>2, <1>3, <2>2, ReachFacts DEF Behind
<1>6. CASE at[m] = m
  <2>1. /\ next' = [next EXCEPT ![prev[m]] = next[m]] /\ modules' = modules \ {m} /\ lock' = Nil
        /\ pc'[m] = "rescan" /\ \A n \in Modules : n # m => pc'[n] = pc[n]
    BY <1>2, <1>6 DEF Unlink, Goto
  <2>2. Reach' = Reach \ {m} /\ Injective' /\ Ends'
    <3>1. next[prev[m]] = m
      BY <1>1, <1>6, ConstantsAssumption
    <3>2. PICK p \in Reach : p = prev[m]
      BY <1>4
    <3> QED BY <1>2, <1>4, <2>1, <3>1, <3>2, UnlinkReach DEF ListInv
  <2>3. m \in Listed /\ Listed' = Listed \ {m}
    BY <1>1, <2>2, ConstantsAssumption DEF Listed
  <2>4. Holder' /\ Membership'
    BY <1>1, <2>1, ConstantsAssumption
       DEF ListInv, Holder, Membership, Locked, Outside, Fresh, Registered
  <2>5. ListIsMap'
    BY <1>1, <1>2, <2>1, <2>3 DEF ListInv, ListIsMap
  <2>6. FreshEnds'
    <3>1. ASSUME NEW n \in Modules, pc'[n] \in Fresh PROVE n # m /\ n # prev[m] /\ pc[n] \in Fresh
      <4>1. n # m /\ pc[n] \in Fresh \ {"append"}
        BY <1>1, <2>1, <3>1 DEF Fresh, Locked
      <4>2. n \notin Listed /\ n # First
        BY <4>1, ConstantsAssumption DEF ListInv, Membership, ListIsMap, Outside
      <4> QED BY <1>4, <4>1, <4>2 DEF Listed
    <3> QED BY <1>2, <2>1, <3>1 DEF ListInv, FreshEnds, Nodes
  <2>7. AppendWalk' /\ UnlinkWalk'
    <3>1. \A n \in Modules : pc'[n] \notin Locked
      BY <1>1, <2>1 DEF Locked
    <3> QED BY <3>1 DEF AppendWalk, UnlinkWalk, Locked
  <2> QED BY <2>1, <2>2, <2>3, <2>4, <2>5, <2>6, <2>7 DEF ListInv
<1>7. CASE at[m] # m
  <2>1. /\ next' = next /\ modules' = modules /\ lock' = lock /\ pc' = pc
        /\ prev'[m] = at[m] /\ at'[m] = next[at[m]]
    BY <1>5, <1>7 DEF Unlink, listVars, ListInv, TypeOK
  <2>2. Reach' = Reach
    BY <2>1 DEF Reach, Closed
  <2>3. Injective' /\ Ends' /\ Listed' = Listed /\ ListIsMap'
    BY <2>1, <2>2 DEF ListInv, Injective, Ends, Listed, ListIsMap
  <2>4. Holder' /\ Membership' /\ FreshEnds'
    BY <2>1 DEF ListInv, Holder, Membership, FreshEnds
  <2>5. AppendWalk'
    <3>1. \A n \in Modules : pc'[n] # "append"
      BY <1>1, <2>1 DEF Locked
    <3> QED BY <3>1 DEF AppendWalk
  <2>6. UnlinkWalk'
    <3>1. at[m] \in Reach
      BY <1>1, <1>2, <1>4, <1>5, ReachFacts DEF Listed
    <3>2. PICK W \in SUBSET Reach : W = V \cup {at[m]}
      BY <3>1
    <3>3. Behind(W, m)'
      BY <1>1, <1>3, <1>7, <2>1, <3>2 DEF Behind
    <3>4. \A n \in Modules : pc'[n] = "unlink" => n = m
      BY <1>1, <2>1 DEF Locked
    <3>5. (at[m] = next[prev[m]] \/ (at[m] = First /\ prev[m] = First))'
      BY <2>1
    <3> QED BY <2>2, <3>2, <3>3, <3>4, <3>5 DEF UnlinkWalk
  <2> QED BY <2>1, <2>2, <2>3, <2>4, <2>5, <2>6 DEF ListInv
<1> QED BY <1>6, <1>7

\* The modules that have been on the list and are no longer.
Past == {"rescan", "munmap", "unloaded"}
Gone == {m \in Modules : pc[m] \in Past}

\* No step moves more than one module on or off the list, and none that was on it
\* comes back.
OneMoves ==
  \/ Listed' = Listed /\ Gone' = Gone
  \/ \E m \in Modules : m \notin Listed \cup Gone /\ Listed' = Listed \cup {m} /\ Gone' = Gone
  \/ \E m \in Modules : m \in Listed /\ Listed' = Listed \ {m} /\ Gone' = Gone \cup {m}

LEMMA ListStep == ListInv /\ TypeOK' /\ [Next]_vars => ListInv' /\ OneMoves
<1> SUFFICES ASSUME ListInv, TypeOK', [Next]_vars PROVE ListInv' /\ OneMoves
  OBVIOUS
<1>1. ASSUME NEW m \in Modules, LoadStep(m) PROVE ListInv' /\ OneMoves
  <2> USE DEF Locked, Registered, Outside, Fresh, Past, Gone, OneMoves, Goto
  <2>0. pc \in [Modules -> PCs]
    BY DEF ListInv, TypeOK
  <2>1. CASE MmapCode(m)
    <3>1. UNCHANGED <<listVars, at, prev>> /\ pc[m] = "new"
      BY <2>1 DEF MmapCode, walkVars
    <3>2. PICK l \in {"mmapData", "failed"} : Goto(m, l)
      BY <2>1 DEF MmapCode
    <3>3. ListInv' /\ Listed' = Listed
      BY <3>1, <3>2, QuietStep
    <3> QED BY <2>0, <3>1, <3>2, <3>3
  <2>2. CASE MmapData(m)
    <3>1. UNCHANGED <<listVars, at, prev>> /\ pc[m] = "mmapData"
      BY <2>2 DEF MmapData, walkVars
    <3>2. PICK l \in {"link", "failed"} : Goto(m, l)
      BY <2>2 DEF MmapData
    <3>3. ListInv' /\ Listed' = Listed
      BY <3>1, <3>2, QuietStep
    <3> QED BY <2>0, <3>1, <3>2, <3>3
  <2>3. CASE Link(m)
    <3>1. UNCHANGED <<listVars, at, prev>> /\ pc[m] = "link" /\ Goto(m, "lockAdd")
      BY <2>3 DEF Link, walkVars
    <3>2. ListInv' /\ Listed' = Listed
      BY <3>1, QuietStep
    <3> QED BY <2>0, <3>1, <3>2
  <2>4. CASE FailLoad(m)
    <3>1. UNCHANGED <<listVars, at, prev>> /\ pc[m] \in {"link", "dedup"} /\ Goto(m, "failed")
      BY <2>4 DEF FailLoad, walkVars
    <3>2. ListInv' /\ Listed' = Listed
      BY <3>1, QuietStep
    <3> QED BY <2>0, <3>1, <3>2
  <2>5. CASE LockAdd(m)
    BY <2>0, <2>5, LockAddStep DEF LockAdd
  <2>6. CASE Append(m)
    BY <2>0, <2>6, AppendStep DEF Append
  <2>7. CASE AddItabs(m)
    <3>1. \A n \in Modules \ {m} : at'[n] = at[n] /\ prev'[n] = prev[n]
      BY <2>7 DEF AddItabs, StartScan, ListInv, TypeOK
    <3>2. UNCHANGED listVars /\ pc[m] = "itabs" /\ Goto(m, "scan")
      BY <2>7 DEF AddItabs
    <3>3. ListInv' /\ Listed' = Listed
      BY <3>1, <3>2, QuietStep
    <3> QED BY <2>0, <3>2, <3>3
  <2>8. CASE Deduplicate(m)
    <3>1. UNCHANGED <<listVars, at, prev>> /\ pc[m] = "dedup" /\ Goto(m, "loaded")
      BY <2>8 DEF Deduplicate, walkVars
    <3>2. ListInv' /\ Listed' = Listed
      BY <3>1, QuietStep
    <3> QED BY <2>0, <3>1, <3>2
  <2> QED BY <1>1, <2>1, <2>2, <2>3, <2>4, <2>5, <2>6, <2>7, <2>8 DEF LoadStep
<1>2. ASSUME NEW m \in Modules, UnloadStep(m) PROVE ListInv' /\ OneMoves
  <2> USE DEF Locked, Registered, Outside, Fresh, Past, Gone, OneMoves, Goto
  <2>0. pc \in [Modules -> PCs]
    BY DEF ListInv, TypeOK
  <2>1. CASE BeginUnload(m)
    <3>1. UNCHANGED <<listVars, at, prev>> /\ pc[m] = "loaded" /\ Goto(m, "revert")
      BY <2>1 DEF BeginUnload, walkVars
    <3>2. ListInv' /\ Listed' = Listed
      BY <3>1, QuietStep
    <3> QED BY <2>0, <3>1, <3>2
  <2>2. CASE Revert(m)
    <3>1. UNCHANGED <<listVars, at, prev>> /\ pc[m] = "revert" /\ Goto(m, "removeItabs")
      BY <2>2 DEF Revert, walkVars
    <3>2. ListInv' /\ Listed' = Listed
      BY <3>1, QuietStep
    <3> QED BY <2>0, <3>1, <3>2
  <2>3. CASE RemoveItabs(m)
    <3>1. UNCHANGED <<listVars, at, prev>> /\ pc[m] = "removeItabs" /\ Goto(m, "lockRemove")
      BY <2>3 DEF RemoveItabs, walkVars
    <3>2. ListInv' /\ Listed' = Listed
      BY <3>1, QuietStep
    <3> QED BY <2>0, <3>1, <3>2
  <2>4. CASE LockRemove(m)
    BY <2>0, <2>4, LockRemoveStep DEF LockRemove
  <2>5. CASE Unlink(m)
    BY <2>0, <2>5, UnlinkStep DEF Unlink
  <2>6. CASE MunmapModule(m)
    <3>1. UNCHANGED <<listVars, at, prev>> /\ pc[m] = "munmap" /\ Goto(m, "unloaded")
      BY <2>6 DEF MunmapModule, walkVars
    <3>2. ListInv' /\ Listed' = Listed
      BY <3>1, QuietStep
    <3> QED BY <2>0, <3>1, <3>2
  <2> QED BY <1>2, <2>1, <2>2, <2>3, <2>4, <2>5, <2>6 DEF UnloadStep
<1>3. ASSUME NEW m \in Modules, Scan(m) PROVE ListInv' /\ OneMoves
  <2>1. /\ pc[m] \in {"scan", "rescan"} /\ UNCHANGED listVars /\ pc' = pc
        /\ pc \in [Modules -> PCs] /\ prev' = prev /\ \A n \in Modules \ {m} : at'[n] = at[n]
    BY <1>3 DEF Scan, ListInv, TypeOK
  <2>2. Goto(m, pc[m])
    BY <2>1 DEF Goto
  <2> QED BY <2>1, <2>2, QuietStep DEF Locked, Registered, Outside, Fresh, Gone, OneMoves
<1>4. ASSUME NEW m \in Modules, StoreActive(m) PROVE ListInv' /\ OneMoves
  <2>0. pc \in [Modules -> PCs]
    BY DEF ListInv, TypeOK
  <2> QED BY <1>4, <2>0, QuietStep
          DEF StoreActive, walkVars, Locked, Registered, Outside, Fresh, Past, Gone, OneMoves, Goto
<1>5. ASSUME UNCHANGED vars PROVE ListInv' /\ OneMoves
  <2>1. Reach' = Reach
    BY <1>5 DEF vars, listVars, Reach, Closed
  <2>2. Injective' /\ Ends' /\ Listed' = Listed
    BY <1>5, <2>1 DEF vars, listVars, ListInv, Injective, Ends, Listed
  <2>3. Holder' /\ Membership' /\ ListIsMap' /\ FreshEnds'
    BY <1>5, <2>2 DEF vars, listVars, ListInv, Holder, Membership, ListIsMap, FreshEnds
  <2>4. AppendWalk' /\ UnlinkWalk'
    BY <1>5, <2>1 DEF vars, listVars, walkVars, ListInv, AppendWalk, UnlinkWalk, Behind
  <2>5. OneMoves
    BY <1>5, <2>2 DEF vars, OneMoves, Gone
  <2> QED BY <2>2, <2>3, <2>4, <2>5 DEF ListInv
<1> QED BY <1>1, <1>2, <1>3, <1>4, <1>5 DEF Next, Step, Idle

LEMMA ListAlways == Spec => [](TypeInv /\ ListInv)
<1>1. Init => TypeInv
  BY ConstantsAssumption DEF Init, TypeInv, TypeOK, Nodes, PCs, Settled
<1>2. TypeInv' => TypeOK'
  BY DEF TypeInv
<1> QED BY <1>1, <1>2, ListInvInit, TypeStep, ListStep, PTL DEF Spec

\* The linked list that Load and Unload walk and rewrite pointer by pointer, with
\* modulesLock held, implements the atomic registry of modules (module.go:98-120,
\* ld.go:1303-1312).
THEOREM ImplementsRegistry == Spec => RegistrySpec
<1>1. Init => Registry!Init
  <2> SUFFICES ASSUME Init PROVE Registry!Init
    OBVIOUS
  <2>1. Listed = {}
    BY ListInvInit DEF ListInv, ListIsMap, Init
  <2> QED BY <2>1 DEF Init, Registry!Init
<1>2. OneMoves => [Registry!Next]_Registry!vars
  BY DEF OneMoves, Gone, Past, Registry!Next, Registry!vars, Registry!Register, Registry!Retire
<1>3. ListInv /\ TypeOK' /\ [Next]_vars => [Registry!Next]_Registry!vars
  BY <1>2, ListStep
<1>4. TypeInv' => TypeOK'
  BY DEF TypeInv
<1> QED BY <1>1, <1>3, <1>4, ListAlways, PTL DEF Spec, RegistrySpec, Registry!Spec

\* What a module has mapped at each stage, and where its itabs are.
Mapped == Registered \cup Locked \cup {"link", "lockAdd", "rescan", "munmap"}
Tabled == {"scan", "dedup", "loaded", "revert", "removeItabs"}

MemoryInv ==
  /\ TypeOK
  /\ \A m \in Modules :
       /\ m \in data <=> pc[m] \in Mapped
       /\ pc[m] \in Mapped \cup {"mmapData"} => m \in code
       /\ m \in code => pc[m] \in Mapped \cup {"mmapData", "failed"}
       /\ pc[m] \in Tabled => m \in itabs
       /\ m \in itabs => pc[m] \in Tabled \/ (pc[m] = "failed" /\ m \in modules)

(***************************************************************************)
(* One operation at a time.                                                *)
(***************************************************************************)
OneAtATime ==
  atOnce = 1 => \A a, b \in Modules : pc[a] \notin Settled /\ pc[b] \notin Settled => a = b

\* The modules that the runtime knows at each stage.
Activated == {"dedup", "loaded", "revert", "removeItabs", "lockRemove", "unlink", "rescan"}

ActiveIs == active = {First} \cup {m \in Modules : pc[m] \in Activated}

\* What modulesinit has seen is closed but for the node it visits next.
ScanWalk ==
  \A m \in Modules : pc[m] \in {"scan", "rescan"} =>
    /\ seen[m] \subseteq Reach /\ at[m] \in Reach \cup {Nil}
    /\ First \in seen[m] \cup {at[m]}
    /\ \A n \in seen[m] : next[n] \in seen[m] \cup {at[m], Nil}

OrderInv == ListInv /\ MemoryInv /\ OneAtATime /\ (Orderly => ActiveIs /\ ScanWalk)

LEMMA MemoryStep == MemoryInv /\ ListInv /\ TypeOK' /\ [Next]_vars => MemoryInv'
<1> SUFFICES ASSUME MemoryInv, ListInv, TypeOK', [Next]_vars PROVE MemoryInv'
  OBVIOUS
<1> DEFINE Good(m) ==
      /\ m \in data <=> pc[m] \in Mapped
      /\ pc[m] \in Mapped \cup {"mmapData"} => m \in code
      /\ m \in code => pc[m] \in Mapped \cup {"mmapData", "failed"}
      /\ pc[m] \in Tabled => m \in itabs
      /\ m \in itabs => pc[m] \in Tabled \/ (pc[m] = "failed" /\ m \in modules)
<1>1. /\ pc \in [Modules -> PCs] /\ \A n \in Modules : Good(n)
      /\ \A n \in Modules : pc[n] \in Registered \cup Locked => n \in modules
  BY DEF MemoryInv, TypeOK, ListInv, Membership
<1>2. ASSUME NEW m \in Modules, Step(m), NEW n \in Modules, n # m PROVE Good(n)'
  <2>1. pc'[n] = pc[n] /\ (n \in modules' <=> n \in modules)
    BY <1>1, <1>2
       DEF Step, LoadStep, UnloadStep, Goto, listVars, MmapCode, MmapData, Link, FailLoad, LockAdd,
           Append, AddItabs, Deduplicate, BeginUnload, Revert, RemoveItabs, LockRemove, Unlink,
           MunmapModule, Scan, StoreActive
  <2>2. (n \in code' <=> n \in code) /\ (n \in data' <=> n \in data) /\ (n \in itabs' <=> n \in itabs)
    BY <1>2
       DEF Step, LoadStep, UnloadStep, memVars, MmapCode, MmapData, Link, FailLoad, LockAdd,
           Append, AddItabs, Deduplicate, BeginUnload, Revert, RemoveItabs, LockRemove, Unlink,
           MunmapModule, Scan, StoreActive
  <2> QED BY <1>1, <2>1, <2>2
<1>3. ASSUME NEW m \in Modules, LoadStep(m) PROVE Good(m)'
  BY <1>1, <1>3
     DEF LoadStep, Goto, memVars, listVars, Mapped, Tabled, Registered, Locked,
         MmapCode, MmapData, Link, FailLoad, LockAdd, Append, AddItabs, Deduplicate
<1>4. ASSUME NEW m \in Modules, UnloadStep(m) \/ Scan(m) \/ StoreActive(m) PROVE Good(m)'
  BY <1>1, <1>4
     DEF UnloadStep, Goto, memVars, listVars, Mapped, Tabled, Registered, Locked,
         BeginUnload, Revert, RemoveItabs, LockRemove, Unlink, MunmapModule, Scan, StoreActive
<1>5. ASSUME UNCHANGED vars, NEW m \in Modules PROVE Good(m)'
  BY <1>1, <1>5 DEF vars, memVars, listVars
<1>6. \A m \in Modules : Good(m)'
  BY <1>2, <1>3, <1>4, <1>5 DEF Next, Step, Idle
<1> QED BY <1>6 DEF MemoryInv

LEMMA MemoryAlways == Spec => [](TypeInv /\ ListInv /\ MemoryInv)
<1>1. Init => MemoryInv
  <2> SUFFICES ASSUME Init PROVE MemoryInv
    OBVIOUS
  <2> QED BY ListInvInit DEF Init, ListInv, MemoryInv, Mapped, Tabled, Registered, Locked
<1>2. TypeInv' => TypeOK'
  BY DEF TypeInv
<1> QED BY <1>1, <1>2, ListAlways, MemoryStep, PTL DEF Spec

\* However Loads and Unloads interleave, the list ends, it is the map whenever the
\* lock is free, a module stays on it from the end of addModule until its Unload,
\* and an unloaded module has left everything (ld.go:915-924, 1303-1321).
THEOREM RegistersAndForgets == Spec => []RegisteredThenForgotten
<1>1. ListInv /\ MemoryInv => RegisteredThenForgotten
  <2> SUFFICES ASSUME ListInv, MemoryInv PROVE RegisteredThenForgotten
    OBVIOUS
  <2>1. ListMatchesMap
    <3>1. \A m \in Modules : lock = Nil => pc[m] # "append"
      BY ConstantsAssumption DEF ListInv, Holder, Locked
    <3> QED BY <3>1 DEF ListInv, TypeOK, Ends, ListIsMap, ListMatchesMap
  <2>2. ASSUME NEW m \in Modules, pc[m] \in Registered PROVE m \in Listed
    BY <2>2 DEF ListInv, Membership, ListIsMap, Registered
  <2>3. ASSUME NEW m \in Modules, pc[m] = "unloaded"
        PROVE  m \notin Listed \cup modules \cup itabs \cup code \cup data
    BY <2>3 DEF ListInv, Membership, ListIsMap, MemoryInv, Outside, Mapped, Tabled, Registered, Locked
  <2> QED BY <2>1, <2>2, <2>3 DEF RegisteredThenForgotten
<1> QED BY <1>1, MemoryAlways, PTL

(***************************************************************************)
(* One operation at a time: what modulesinit stores.                       *)
(***************************************************************************)

\* The client that starts one operation at a time only starts it when all others
\* are done, and meanwhile all others stay where they are.
LEMMA AloneStep ==
  ASSUME TypeOK, OneAtATime, atOnce = 1, NEW m \in Modules, Step(m)
  PROVE  \A n \in Modules : n # m => pc[n] \in Settled /\ pc'[n] = pc[n]
<1>1. CASE pc[m] \notin Settled
  <2>1. \A n \in Modules : n # m => pc[n] \in Settled
    BY <1>1 DEF OneAtATime
  <2> QED BY <2>1
        DEF TypeOK, Step, LoadStep, UnloadStep, Goto, listVars, MmapCode, MmapData, Link, FailLoad,
            LockAdd, Append, AddItabs, Deduplicate, BeginUnload, Revert, RemoveItabs, LockRemove,
            Unlink, MunmapModule, Scan, StoreActive
<1>2. CASE pc[m] \in Settled
  <2>1. MmapCode(m) \/ BeginUnload(m)
    BY <1>2, ConstantsAssumption
       DEF Settled, Step, LoadStep, UnloadStep, MmapCode, MmapData, Link, FailLoad,
            LockAdd, Append, AddItabs, Deduplicate, BeginUnload, Revert, RemoveItabs, LockRemove,
            Unlink, MunmapModule, Scan, StoreActive
  <2>2. MayStart /\ pc \in [Modules -> PCs] /\ \A n \in Modules : n # m => pc'[n] = pc[n]
    BY <2>1 DEF TypeOK, Goto, MmapCode, BeginUnload
  <2>3. {n \in Modules : pc[n] \notin Settled} = {}
    <3> DEFINE B == {n \in Modules : pc[n] \notin Settled}
    <3>1. IsFiniteSet(B)
      BY ConstantsAssumption, FS_Subset
    <3>2. Cardinality(B) \in Nat /\ Cardinality(B) < 1
      BY <2>2, <3>1, FS_CardinalityType DEF MayStart
    <3> HIDE DEF B
    <3>3. B = {}
      BY <3>1, <3>2, FS_EmptySet
    <3> QED BY <3>3 DEF B
  <2> QED BY <2>2, <2>3
<1> QED BY <1>1, <1>2

LEMMA OneAtATimeStep == TypeOK /\ OneAtATime /\ [Next]_vars => OneAtATime'
<1> SUFFICES ASSUME TypeOK, OneAtATime, [Next]_vars PROVE OneAtATime'
  OBVIOUS
<1>1. ASSUME UNCHANGED atOnce, NEW m \in Modules, Step(m) PROVE OneAtATime'
  BY <1>1, AloneStep DEF OneAtATime
<1>2. ASSUME UNCHANGED vars PROVE OneAtATime'
  BY <1>2 DEF vars, OneAtATime
<1> QED BY <1>1, <1>2 DEF Next, Idle

\* A failed module never leaves the map.
LEMMA OrderlyBefore == ListInv /\ [Next]_vars /\ Orderly' => Orderly
<1> SUFFICES ASSUME ListInv, [Next]_vars, Orderly' PROVE Orderly
  OBVIOUS
<1>1. /\ atOnce = 1 /\ atOnce' = atOnce /\ pc \in [Modules -> PCs] /\ modules \subseteq Modules
      /\ \A n \in modules' : pc'[n] # "failed"
  BY DEF Orderly, Next, Idle, vars, ListInv, TypeOK
<1>2. ASSUME NEW n \in modules, pc[n] = "failed", NEW m \in Modules, Step(m) PROVE FALSE
  <2>1. n \in modules' /\ pc'[n] = "failed"
    BY <1>1, <1>2
       DEF Step, LoadStep, UnloadStep, Goto, listVars, MmapCode, MmapData, Link, FailLoad, LockAdd,
           Append, AddItabs, Deduplicate, BeginUnload, Revert, RemoveItabs, LockRemove, Unlink,
           MunmapModule, Scan, StoreActive
  <2> QED BY <1>1, <2>1
<1>3. ASSUME NEW n \in modules, pc[n] = "failed", UNCHANGED vars PROVE FALSE
  BY <1>1, <1>3 DEF vars, listVars
<1> QED BY <1>1, <1>2, <1>3 DEF Orderly, Next, Idle

\* When modulesinit gets to the end of the list it has seen all of it.
LEMMA ScanSeesAll ==
  ASSUME TypeOK, ScanWalk, NEW m \in Modules, pc[m] \in {"scan", "rescan"}, at[m] = Nil
  PROVE  seen[m] = Reach
<1>1. seen[m] \subseteq Reach /\ First \in seen[m] /\ \A n \in seen[m] : next[n] \in seen[m] \cup {Nil}
  BY ConstantsAssumption DEF ScanWalk
<1>2. Closed(seen[m]) /\ seen[m] \in SUBSET Nodes
  BY <1>1 DEF Closed, TypeOK
<1> QED BY <1>1, <1>2, ReachFacts DEF TypeOK

LEMMA ScanStep ==
  ASSUME ListInv, TypeOK', ScanWalk, NEW m \in Modules, Step(m),
         \A n \in Modules : n # m => pc'[n] \notin {"scan", "rescan"}
  PROVE  ScanWalk'
<1>1. /\ First \in Reach' /\ First \in Nodes /\ pc \in [Modules -> PCs]
      /\ at \in [Modules -> Nodes \cup {Nil}] /\ seen \in [Modules -> SUBSET Nodes]
  <2>1. First \in Reach'
    BY DEF Reach, Closed, Nodes
  <2> QED BY <2>1 DEF ListInv, TypeOK, Nodes
<1>2. CASE StartScan(m)
  BY <1>1, <1>2 DEF StartScan, ScanWalk
<1>3. CASE Scan(m)
  <2>1. /\ pc[m] \in {"scan", "rescan"} /\ at[m] # Nil /\ next' = next
        /\ seen'[m] = seen[m] \cup {at[m]} /\ at'[m] = next[at[m]]
    BY <1>1, <1>3 DEF Scan, listVars
  <2>2. Reach' = Reach
    BY <2>1 DEF Reach, Closed
  <2>3. /\ seen[m] \subseteq Reach /\ at[m] \in Reach
        /\ First \in seen[m] \cup {at[m]}
        /\ \A n \in seen[m] : next[n] \in seen[m] \cup {at[m], Nil}
    BY <2>1 DEF ScanWalk
  <2>4. next[at[m]] \in Reach \cup {Nil}
    BY <2>3, ReachFacts DEF ListInv, TypeOK, Listed
  <2> QED BY <2>1, <2>2, <2>3, <2>4 DEF ScanWalk
<1>4. CASE pc'[m] \notin {"scan", "rescan"}
  BY <1>4 DEF ScanWalk
<1>5. ASSUME ~Scan(m), ~StartScan(m) PROVE pc'[m] \notin {"scan", "rescan"}
  BY <1>1, <1>5
     DEF Step, LoadStep, UnloadStep, Goto, listVars, MmapCode, MmapData, Link, FailLoad, LockAdd,
         Append, AddItabs, Deduplicate, BeginUnload, Revert, RemoveItabs, LockRemove, Unlink,
         MunmapModule, StoreActive
<1> QED BY <1>2, <1>3, <1>4, <1>5

LEMMA ActiveStep ==
  ASSUME ListInv, ActiveIs, ScanWalk, Orderly, Orderly', NEW m \in Modules, Step(m),
         \A n \in Modules : n # m => pc[n] \in Settled /\ pc'[n] = pc[n]
  PROVE  ActiveIs'
<1>1. /\ pc \in [Modules -> PCs] /\ modules \subseteq Modules
      /\ \A n \in modules : pc[n] # "failed"
      /\ \A n \in modules' : pc'[n] # "failed"
  BY DEF ListInv, TypeOK, Orderly
<1>2. CASE StoreActive(m)
  <2>1. active' = Reach /\ pc[m] \in {"scan", "rescan"} /\ (pc'[m] \in Activated <=> pc[m] = "scan")
    BY <1>1, <1>2, ScanSeesAll DEF StoreActive, ListInv, Goto, Activated
  <2>2. Reach = {First} \cup modules
    <3>1. \A n \in modules : pc[n] # "append"
      BY <1>1, <2>1 DEF Settled
    <3> QED BY <3>1, ReachFacts DEF ListInv, TypeOK, ListIsMap, Listed
  <2>3. ASSUME NEW n \in Modules PROVE n \in modules <=> pc'[n] \in Activated
    <3>1. CASE n = m
      BY <2>1, <3>1 DEF ListInv, Membership, Registered, Outside, Fresh
    <3>2. CASE n # m
      BY <1>1, <3>2 DEF ListInv, Membership, Registered, Outside, Fresh, Settled, Activated
    <3> QED BY <3>1, <3>2
  <2> QED BY <1>1, <2>1, <2>2, <2>3 DEF ActiveIs
<1>3. CASE ~StoreActive(m)
  <2>1. active' = active
    BY <1>3
       DEF Step, LoadStep, UnloadStep, MmapCode, MmapData, Link, FailLoad, LockAdd, Append, AddItabs,
           Deduplicate, BeginUnload, Revert, RemoveItabs, LockRemove, Unlink, MunmapModule, Scan
  <2>2. ~(pc[m] = "dedup" /\ FailLoad(m))
    <3>1. ASSUME pc[m] = "dedup", FailLoad(m) PROVE m \in modules' /\ pc'[m] = "failed"
      BY <1>1, <3>1 DEF FailLoad, Goto, listVars, ListInv, Membership, Registered
    <3> QED BY <1>1, <3>1
  <2>3. pc'[m] \in Activated <=> pc[m] \in Activated
    BY <1>1, <1>3, <2>2
       DEF Activated, Goto, listVars, Step, LoadStep, UnloadStep, MmapCode, MmapData, Link, FailLoad,
           LockAdd, Append, AddItabs, Deduplicate, BeginUnload, Revert, RemoveItabs, LockRemove,
           Unlink, MunmapModule, Scan
  <2> QED BY <2>1, <2>3 DEF ActiveIs
<1> QED BY <1>2, <1>3

LEMMA OrderStep == OrderInv /\ TypeOK' /\ [Next]_vars => OrderInv'
<1> SUFFICES ASSUME OrderInv, TypeOK', [Next]_vars PROVE OrderInv'
  OBVIOUS
<1>1. ListInv' /\ MemoryInv' /\ OneAtATime'
  BY ListStep, MemoryStep, OneAtATimeStep DEF OrderInv, ListInv
<1>2. ASSUME Orderly' PROVE ActiveIs' /\ ScanWalk'
  <2>1. Orderly /\ ActiveIs /\ ScanWalk
    BY <1>2, OrderlyBefore DEF OrderInv
  <2>2. ASSUME NEW m \in Modules, Step(m) PROVE ActiveIs' /\ ScanWalk'
    <3>1. \A n \in Modules : n # m => pc[n] \in Settled /\ pc'[n] = pc[n]
      BY <2>1, <2>2, AloneStep DEF OrderInv, ListInv, Orderly
    <3>2. \A n \in Modules : n # m => pc'[n] \notin {"scan", "rescan"}
      BY <3>1 DEF Settled
    <3> QED BY <1>2, <2>1, <2>2, <3>1, <3>2, ActiveStep, ScanStep DEF OrderInv
  <2>3. ASSUME UNCHANGED vars PROVE ActiveIs' /\ ScanWalk'
    <3>1. Reach' = Reach
      BY <2>3 DEF vars, listVars, Reach, Closed
    <3> QED BY <2>1, <2>3, <3>1 DEF vars, listVars, walkVars, ActiveIs, ScanWalk
  <2> QED BY <2>2, <2>3 DEF Next, Idle
<1> QED BY <1>1, <1>2 DEF OrderInv

\* A client that runs one operation at a time, and whose Loads do not fail after
\* addModule: the garbage collector and findfunc only look at mapped modules, and
\* between operations every structure holds exactly the loaded ones (ld.go:1309-1315).
THEOREM RuntimeFollows == Spec => []RuntimeKnowsLoaded
<1>1. Init => OrderInv
  <2> SUFFICES ASSUME Init PROVE OrderInv
    OBVIOUS
  <2>1. MemoryInv
    BY ListInvInit DEF Init, ListInv, MemoryInv, Mapped, Tabled, Registered, Locked
  <2> QED BY <2>1, ListInvInit
          DEF Init, OrderInv, OneAtATime, ActiveIs, ScanWalk, Settled, Activated
<1>2. OrderInv => RuntimeKnowsLoaded
  <2> SUFFICES ASSUME OrderInv, Orderly PROVE RuntimeKnowsLoaded
    BY DEF RuntimeKnowsLoaded
  <2>1. active \subseteq (code \cap data) \cup {First}
    BY DEF OrderInv, ActiveIs, MemoryInv, Activated, Mapped, Registered, Locked
  <2>2. ASSUME \A m \in Modules : pc[m] \in Settled,
               NEW loaded, loaded = {m \in Modules : pc[m] = "loaded"}
        PROVE  /\ Listed = loaded /\ modules = loaded /\ itabs = loaded
               /\ active = loaded \cup {First}
               /\ data = loaded
               /\ loaded \subseteq code /\ \A m \in code \ loaded : pc[m] = "failed"
    <3>1. modules = loaded
      BY <2>2 DEF OrderInv, ListInv, TypeOK, Membership, Orderly, Registered, Outside, Fresh, Settled
    <3>2. Listed = loaded
      BY <2>2, <3>1 DEF OrderInv, ListInv, ListIsMap
    <3>3. itabs = loaded
      BY <2>2, <3>1 DEF OrderInv, MemoryInv, TypeOK, Tabled, Settled, Orderly
    <3>4. active = loaded \cup {First}
      BY <2>2 DEF OrderInv, ActiveIs, Activated, Settled
    <3>5. data = loaded /\ loaded \subseteq code /\ \A m \in code \ loaded : pc[m] = "failed"
      BY <2>2 DEF OrderInv, MemoryInv, TypeOK, Mapped, Registered, Locked, Settled
    <3> QED BY <3>1, <3>2, <3>3, <3>4, <3>5
  <2> QED BY <2>1, <2>2 DEF RuntimeKnowsLoaded
<1>3. TypeInv' => TypeOK'
  BY DEF TypeInv
<1> QED BY <1>1, <1>2, <1>3, ListAlways, OrderStep, PTL DEF Spec

================================================================================

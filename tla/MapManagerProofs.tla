--------------------------- MODULE MapManagerProofs ---------------------------
(***************************************************************************)
(* What MapManager keeps, for any number of loaders and pages, whatever    *)
(* the kernel refuses and other code maps: mappings of goloader are never  *)
(* mapped over, mapper.active holds exactly the mappings there are, a      *)
(* loaded module is within reach, and no Load gives up while there is      *)
(* room.                                                                   *)
(***************************************************************************)
EXTENDS MapManager, WellFoundedInduction, TLAPS

InLock == {"locked", "map", "register", "far", "farForget"}
InMapper == {"forget", "farForget"}
Before == {"new", "acquire", "locked", "map"}

\* Each lock is held by the loader that is between taking and freeing it.
LockInv ==
  \A l \in Loaders :
    /\ mmapLock = l <=> pc[l] \in InLock
    /\ mapperLock = l <=> pc[l] \in InMapper

\* A loader has the addresses that its place in Load and Unload tells.
Placed(l) ==
  /\ pc[l] = "new" => seg[l] = "code"
  /\ pc[l] \in Before => addr[Current(l)] = NoAddr
  /\ pc[l] \in Before \cup {"register", "far", "farForget"} /\ seg[l] = "code"
       => addr[<<l, "data">>] = NoAddr
  /\ pc[l] \in {"acquire", "locked", "map", "register"} /\ seg[l] = "data"
       => addr[<<l, "code">>] # NoAddr
  /\ pc[l] \in {"register", "far", "farForget", "munmap", "forget"}
       => addr[Current(l)] # NoAddr
  /\ pc[l] = "loaded" => \A s \in Segments : addr[<<l, s>>] # NoAddr
  /\ pc[l] \in {"munmap", "forget"} /\ seg[l] = "code" => addr[<<l, "data">>] # NoAddr

AddrInv ==
  /\ \A m \in Mapping : addr[m] # NoAddr => Last(m) \in Page
  /\ \A l \in Loaders : Placed(l)

\* Between reading the map and mapping, nobody else of goloader maps, and the
\* addresses to be tried lead to pages that were free.
SeenInv ==
  \A l \in Loaders : pc[l] = "map" =>
    /\ \A p \in Page \ taken[l] : owner[p] \in {Free, Outside}
    /\ \A a \in candidates[l] : \A p \in Span(a, seg[l]) : p \in Page /\ p \notin taken[l]

\* The mappings that mapper.active should have, and that differ in their last byte.
Entered(m) == addr[m] # NoAddr /\ ~(pc[m[1]] = "register" /\ seg[m[1]] = m[2])
KeyInv == \A m, n \in Mapping : Entered(m) /\ Entered(n) /\ m # n => Last(m) # Last(n)

ActiveInv == active = {<<addr[m], Last(m)>> : m \in {m \in Mapping : Entered(m)}}

\* The code segment is within reach before Load goes on with the data segment.
Near(l) ==
  /\ pc[l] \in {"loaded", "munmap", "forget"} => \A s \in Segments :
       addr[<<l, s>>] # NoAddr => Last(<<l, s>>) <= FirstModule + Reach
  /\ pc[l] \in {"acquire", "locked", "map", "register"} /\ seg[l] = "data"
       => Last(<<l, "code">>) <= FirstModule + Reach
ReachInv == \A l \in Loaders : Near(l)

Inv == TypeOK /\ LockInv /\ AddrInv /\ SeenInv /\ HeldStaysMapped /\ KeyInv /\ ActiveInv /\ ReachInv

------------------------------------------------------------------------------
LEMMA Numbers ==
  /\ Page \subseteq Int /\ FirstModule \in Int /\ Reach \in Int
  /\ \A s \in Segments : Length(s) \in Int /\ Length(s) >= 1
BY ConstantsAssumption DEF Page, Length

LEMMA Mappings ==
  /\ \A l \in Loaders, s \in Segments : <<l, s>> \in Mapping
  /\ \A m \in Mapping : m[1] \in Loaders /\ m[2] \in Segments /\ m = <<m[1], m[2]>>
BY DEF Mapping

LEMMA InitInv == Init => Inv
<1> SUFFICES ASSUME Init PROVE Inv
  OBVIOUS
<1>1. TypeOK
  BY ConstantsAssumption DEF Init, TypeOK, PCs, Working, Segments
<1>2. LockInv
  BY SentinelsAssumption DEF Init, LockInv, InLock, InMapper
<1>3. AddrInv
  BY Mappings DEF Init, AddrInv, Placed, Before, Current, Segments
<1>4. SeenInv /\ HeldStaysMapped /\ KeyInv /\ ReachInv
  BY DEF Init, SeenInv, HeldStaysMapped, Held, KeyInv, Entered, ReachInv, Near, Mapping
<1>5. ActiveInv
  <2>1. \A m \in Mapping : ~Entered(m)
    BY DEF Init, Entered
  <2> QED BY <2>1 DEF Init, ActiveInv
<1> QED BY <1>1, <1>2, <1>3, <1>4, <1>5 DEF Inv

\* Addresses lead into a gap, and a gap has no page that is taken.
LEMMA AddressesAreFree ==
  ASSUME NEW mapped \in SUBSET Page, NEW s \in Segments,
         NEW a \in Addresses(mapped, Length(s)), NEW p \in Span(a, s)
  PROVE  p \in Page /\ p \notin mapped
<1>1. PICK g \in Suitable(mapped, Length(s)) : a >= g.start /\ a + Length(s) < g.end
  BY DEF Addresses
<1>2. /\ g.start \in Page /\ g.end \in mapped
      /\ \A q \in g.start - 1 .. g.end - 1 : q \notin mapped
  BY DEF Suitable, Gaps
<1>3. /\ a \in 0 .. LastPage /\ g.start \in 0 .. LastPage /\ g.end \in 0 .. LastPage
      /\ Length(s) \in Int /\ LastPage \in Int
  BY <1>2, Numbers, ConstantsAssumption DEF Addresses, Page
<1>4. p \in Int /\ a <= p /\ p <= a + Length(s) - 1
  BY <1>3 DEF Span
<1>5. p \in g.start - 1 .. g.end - 1 /\ p \in 0 .. LastPage
  BY <1>1, <1>3, <1>4
<1> QED BY <1>2, <1>5 DEF Page

\* A step that neither maps, unmaps nor enters anything disturbs no mapping.
LEMMA Undisturbed ==
  ASSUME Inv, UNCHANGED <<owner, active, addr>>,
         \A m \in Mapping : Held(m)' => Held(m),
         \A m \in Mapping : Entered(m)' <=> Entered(m)
  PROVE  HeldStaysMapped' /\ KeyInv' /\ ActiveInv'
<1>1. \A m \in Mapping : Last(m)' = Last(m)
  BY DEF Last, Length
<1>2. HeldStaysMapped'
  BY DEF Inv, HeldStaysMapped, Span, Length
<1>3. KeyInv'
  BY <1>1 DEF Inv, KeyInv
<1>4. ActiveInv'
  BY <1>1 DEF Inv, ActiveInv
<1> QED BY <1>2, <1>3, <1>4

\* A loader whose place and addresses a step leaves alone keeps what it has.
LEMMA Others ==
  ASSUME Inv, NEW k \in Loaders, pc'[k] = pc[k], seg'[k] = seg[k],
         \A s \in Segments : addr'[<<k, s>>] = addr[<<k, s>>]
  PROVE  Placed(k)' /\ Near(k)'
<1>1. seg[k] \in Segments /\ Placed(k) /\ Near(k)
  BY DEF Inv, TypeOK, AddrInv, ReachInv
<1>2. addr'[Current(k)'] = addr[Current(k)]
  BY <1>1 DEF Current
<1>3. Placed(k)'
  BY <1>1, <1>2 DEF Placed, Before, Segments
<1>4. \A s \in Segments : Last(<<k, s>>)' = Last(<<k, s>>)
  BY DEF Last, Length
<1>5. Near(k)'
  BY <1>1, <1>4 DEF Near, Segments
<1> QED BY <1>3, <1>5

LEMMA StartLoadInv == ASSUME Inv, NEW l \in Loaders, StartLoad(l) PROVE Inv'
<1>1. TypeOK'
  BY DEF Inv, TypeOK, StartLoad, Goto, PCs, Working, locks
<1>2. pc' = [pc EXCEPT ![l] = "acquire"] /\ pc[l] = "new" /\ pc \in [Loaders -> PCs]
  BY DEF StartLoad, Goto, Inv, TypeOK
<1>3. UNCHANGED <<owner, active, mmapLock, mapperLock, seg, taken, candidates, addr>>
  BY DEF StartLoad, locks
<1>4. LockInv'
  BY <1>2, <1>3 DEF Inv, LockInv, InLock, InMapper
<1>5. SeenInv'
  BY <1>2, <1>3 DEF Inv, SeenInv, Span, Length
<1>6. HeldStaysMapped' /\ KeyInv' /\ ActiveInv'
  <2>1. \A m \in Mapping : Held(m)' => Held(m)
    BY <1>2, <1>3, Mappings DEF Held, Current
  <2>2. \A m \in Mapping : Entered(m)' <=> Entered(m)
    BY <1>2, <1>3, Mappings DEF Entered
  <2> QED BY <2>1, <2>2, <1>3, Undisturbed
<1>7. AddrInv' /\ ReachInv'
  <2>1. Placed(l)' /\ Near(l)'
    BY <1>2, <1>3 DEF Inv, AddrInv, Placed, Near, Before, Current, Segments
  <2>2. \A k \in Loaders \ {l} : Placed(k)' /\ Near(k)'
    BY <1>2, <1>3, Others
  <2> QED BY <2>1, <2>2, <1>3 DEF Inv, AddrInv, ReachInv, Last, Length
<1> QED BY <1>1, <1>4, <1>5, <1>6, <1>7 DEF Inv

LEMMA LockInvStep == ASSUME Inv, NEW l \in Loaders, Lock(l) PROVE Inv'
<1>1. TypeOK'
  BY DEF Inv, TypeOK, Lock, Goto, PCs, Working
<1>2. /\ pc' = [pc EXCEPT ![l] = "locked"] /\ pc[l] = "acquire" /\ pc \in [Loaders -> PCs]
      /\ mmapLock = NoLoader /\ mmapLock' = l
  BY DEF Lock, Goto, Inv, TypeOK
<1>3. UNCHANGED <<owner, active, mapperLock, seg, taken, candidates, addr>>
  BY DEF Lock
<1>4. LockInv'
  BY <1>2, <1>3, SentinelsAssumption DEF Inv, LockInv, InLock, InMapper
<1>5. SeenInv'
  BY <1>2, <1>3 DEF Inv, SeenInv, Span, Length
<1>6. HeldStaysMapped' /\ KeyInv' /\ ActiveInv'
  <2>1. \A m \in Mapping : Held(m)' => Held(m)
    BY <1>2, <1>3, Mappings DEF Held, Current
  <2>2. \A m \in Mapping : Entered(m)' <=> Entered(m)
    BY <1>2, <1>3, Mappings DEF Entered
  <2> QED BY <2>1, <2>2, <1>3, Undisturbed
<1>7. AddrInv' /\ ReachInv'
  <2>1. Placed(l)' /\ Near(l)'
    BY <1>2, <1>3 DEF Inv, AddrInv, ReachInv, Placed, Near, Before, Current, Segments, Last, Length
  <2>2. \A k \in Loaders \ {l} : Placed(k)' /\ Near(k)'
    BY <1>2, <1>3, Others
  <2> QED BY <2>1, <2>2, <1>3 DEF Inv, AddrInv, ReachInv, Last, Length
<1> QED BY <1>1, <1>4, <1>5, <1>6, <1>7 DEF Inv

LEMMA ReadMapInv == ASSUME Inv, NEW l \in Loaders, ReadMap(l) PROVE Inv'
<1> DEFINE mapped == {p \in Page : owner[p] # Free}
<1>1. /\ taken' = [taken EXCEPT ![l] = mapped]
      /\ candidates' = [candidates EXCEPT ![l] = Addresses(mapped, Length(seg[l]))]
      /\ pc' = [pc EXCEPT ![l] = "map"] /\ pc[l] = "locked"
      /\ UNCHANGED <<owner, active, mmapLock, mapperLock, seg, addr, refusals>>
  BY DEF ReadMap, CurrentProcMaps, Goto, locks
<1>2. TypeOK'
  <2>1. mapped \in SUBSET Page /\ Addresses(mapped, Length(seg[l])) \in SUBSET Page
    BY DEF Addresses
  <2> QED BY <1>1, <2>1 DEF Inv, TypeOK, PCs, Working
<1>3. /\ pc \in [Loaders -> PCs] /\ taken \in [Loaders -> SUBSET Page]
      /\ candidates \in [Loaders -> SUBSET Page] /\ seg[l] \in Segments
      /\ owner \in [Page -> {Free, Host, Outside} \cup Mapping]
  BY DEF Inv, TypeOK
<1>4. LockInv'
  BY <1>1, <1>3 DEF Inv, LockInv, InLock, InMapper
<1>5. SeenInv'
  <2> SUFFICES ASSUME NEW k \in Loaders, pc'[k] = "map"
               PROVE  /\ \A p \in Page \ taken'[k] : owner'[p] \in {Free, Outside}
                      /\ \A a \in candidates'[k] : \A p \in Span(a, seg'[k]) :
                           p \in Page /\ p \notin taken'[k]
    BY DEF SeenInv, Span, Length
  <2>1. k = l
    BY <1>1, <1>3 DEF Inv, LockInv, InLock
  <2>2. taken'[k] = mapped /\ candidates'[k] = Addresses(mapped, Length(seg[l])) /\ seg'[k] = seg[l]
    BY <1>1, <1>3, <2>1
  <2>3. \A p \in Page \ taken'[k] : owner'[p] \in {Free, Outside}
    BY <1>1, <2>2
  <2>4. \A a \in candidates'[k] : \A p \in Span(a, seg'[k]) : p \in Page /\ p \notin taken'[k]
    BY <1>3, <2>2, AddressesAreFree
  <2> QED BY <2>3, <2>4
<1>6. HeldStaysMapped' /\ KeyInv' /\ ActiveInv'
  <2>1. \A m \in Mapping : Held(m)' => Held(m)
    BY <1>1, <1>3, Mappings DEF Held, Current
  <2>2. \A m \in Mapping : Entered(m)' <=> Entered(m)
    BY <1>1, <1>3, Mappings DEF Entered
  <2> QED BY <2>1, <2>2, <1>1, Undisturbed
<1>7. AddrInv' /\ ReachInv'
  <2>1. Placed(l)' /\ Near(l)'
    BY <1>1, <1>3 DEF Inv, AddrInv, ReachInv, Placed, Near, Before, Current, Segments, Last, Length
  <2>2. \A k \in Loaders \ {l} : Placed(k)' /\ Near(k)'
    BY <1>1, <1>3, Others
  <2> QED BY <2>1, <2>2, <1>1 DEF Inv, AddrInv, ReachInv, Last, Length
<1> QED BY <1>2, <1>4, <1>5, <1>6, <1>7 DEF Inv

LEMMA GiveUpInv == ASSUME Inv, NEW l \in Loaders, GiveUp(l) PROVE Inv'
<1>1. TypeOK'
  BY DEF Inv, TypeOK, GiveUp, Goto, PCs, Working
<1>2. /\ pc' = [pc EXCEPT ![l] = "failed"] /\ pc[l] = "map" /\ pc \in [Loaders -> PCs]
      /\ mmapLock' = NoLoader
  BY DEF GiveUp, Goto, Inv, TypeOK
<1>3. UNCHANGED <<owner, active, mapperLock, seg, taken, candidates, addr>>
  BY DEF GiveUp
<1>4. LockInv'
  BY <1>2, <1>3, SentinelsAssumption DEF Inv, LockInv, InLock, InMapper
<1>5. SeenInv'
  BY <1>2, <1>3 DEF Inv, SeenInv, Span, Length
<1>6. HeldStaysMapped' /\ KeyInv' /\ ActiveInv'
  <2>1. \A m \in Mapping : Held(m)' => Held(m)
    BY <1>2, <1>3, Mappings DEF Held, Current
  <2>2. \A m \in Mapping : Entered(m)' <=> Entered(m)
    BY <1>2, <1>3, Mappings DEF Entered
  <2> QED BY <2>1, <2>2, <1>3, Undisturbed
<1>7. AddrInv' /\ ReachInv'
  <2>1. Placed(l)' /\ Near(l)'
    BY <1>2, <1>3 DEF Placed, Near, Before
  <2>2. \A k \in Loaders \ {l} : Placed(k)' /\ Near(k)'
    BY <1>2, <1>3, Others
  <2> QED BY <2>1, <2>2, <1>3 DEF Inv, AddrInv, ReachInv, Last, Length
<1> QED BY <1>1, <1>4, <1>5, <1>6, <1>7 DEF Inv

LEMMA RefuseInv == ASSUME Inv, NEW l \in Loaders, Refuse(l) PROVE Inv'
<1>1. PICK a \in candidates[l] : candidates' = [candidates EXCEPT ![l] = @ \ {a}]
  BY DEF Refuse
<1>2. /\ refusals' = refusals + 1 /\ refusals < MaxRefusals /\ pc[l] = "map"
      /\ UNCHANGED <<owner, active, mmapLock, mapperLock, pc, seg, taken, addr>>
  BY DEF Refuse, locks
<1>3. TypeOK'
  BY <1>1, <1>2, ConstantsAssumption DEF Inv, TypeOK
<1>4. LockInv' /\ SeenInv'
  BY <1>1, <1>2 DEF Inv, TypeOK, LockInv, SeenInv, Span, Length
<1>5. HeldStaysMapped' /\ KeyInv' /\ ActiveInv'
  BY <1>2, Undisturbed DEF Held, Entered, Current
<1>6. AddrInv' /\ ReachInv'
  BY <1>2, Others DEF Inv, AddrInv, ReachInv, Last, Length
<1> QED BY <1>3, <1>4, <1>5, <1>6 DEF Inv

LEMMA StartReleaseInv == ASSUME Inv, NEW l \in Loaders, StartRelease(l) PROVE Inv'
<1>1. /\ pc' = [pc EXCEPT ![l] = "munmap"] /\ pc[l] = "loaded"
      /\ seg' = [seg EXCEPT ![l] = "code"]
      /\ UNCHANGED <<owner, active, mmapLock, mapperLock, taken, candidates, addr, refusals>>
  BY DEF StartRelease, Goto, locks
<1>2. /\ pc \in [Loaders -> PCs] /\ seg \in [Loaders -> Segments]
  BY DEF Inv, TypeOK
<1>3. TypeOK'
  BY <1>1 DEF Inv, TypeOK, PCs, Working, Segments
<1>4. LockInv'
  BY <1>1, <1>2 DEF Inv, LockInv, InLock, InMapper
<1>5. SeenInv'
  BY <1>1, <1>2 DEF Inv, SeenInv, Span, Length
<1>6. HeldStaysMapped' /\ KeyInv' /\ ActiveInv'
  <2>1. \A m \in Mapping : Held(m)' => Held(m)
    BY <1>1, <1>2, Mappings DEF Held, Current
  <2>2. \A m \in Mapping : Entered(m)' <=> Entered(m)
    BY <1>1, <1>2, Mappings DEF Entered
  <2> QED BY <2>1, <2>2, <1>1, Undisturbed
<1>7. AddrInv' /\ ReachInv'
  <2>1. Placed(l)' /\ Near(l)'
    BY <1>1, <1>2 DEF Inv, AddrInv, ReachInv, Placed, Near, Before, Current, Segments, Last, Length
  <2>2. \A k \in Loaders \ {l} : Placed(k)' /\ Near(k)'
    BY <1>1, <1>2, Others
  <2> QED BY <2>1, <2>2, <1>1 DEF Inv, AddrInv, ReachInv, Last, Length
<1> QED BY <1>3, <1>4, <1>5, <1>6, <1>7 DEF Inv

\* The lock keeps the other loaders from mapping since the map was read, so what
\* the new mapping covers is nobody's or was mapped by other code.
LEMMA MapInv == ASSUME Inv, NEW l \in Loaders, Map(l) PROVE Inv'
<1>0. PICK m \in Mapping : m = Current(l)
  BY Mappings DEF Current, Inv, TypeOK
<1>1. PICK a \in candidates[l] :
        /\ owner' = [p \in Page |-> IF p \in Span(a, seg[l]) THEN m ELSE owner[p]]
        /\ addr' = [addr EXCEPT ![m] = a]
  BY <1>0 DEF Map
<1>2. /\ pc' = [pc EXCEPT ![l] = "register"] /\ pc[l] = "map"
      /\ UNCHANGED <<active, mmapLock, mapperLock, seg, taken, candidates, refusals>>
  BY DEF Map, Goto, locks
<1>3. /\ pc \in [Loaders -> PCs] /\ seg \in [Loaders -> Segments]
      /\ addr \in [Mapping -> Page \cup {NoAddr}] /\ a \in Page /\ a # NoAddr
      /\ owner \in [Page -> {Free, Host, Outside} \cup Mapping]
  BY SentinelsAssumption DEF Inv, TypeOK
<1>4. m = <<l, seg[l]>> /\ m[1] = l /\ m[2] = seg[l] /\ seg[l] \in Segments
  BY <1>0, <1>3 DEF Current
<1>5. \A p \in Span(a, seg[l]) : p \in Page /\ owner[p] \notin Mapping
  <2>1. \A p \in Span(a, seg[l]) : p \in Page /\ owner[p] \in {Free, Outside}
    BY <1>2 DEF Inv, SeenInv
  <2> QED BY <2>1, SentinelsAssumption
<1>6. TypeOK'
  BY <1>1, <1>2, <1>3, <1>4 DEF Inv, TypeOK, PCs, Working
<1>7. LockInv'
  BY <1>2, <1>3 DEF Inv, LockInv, InLock, InMapper
<1>8. SeenInv'
  BY <1>2, <1>3 DEF Inv, SeenInv, LockInv, InLock
<1>9. \A n \in Mapping \ {m} : /\ addr'[n] = addr[n] /\ Last(n)' = Last(n)
                               /\ Held(n)' => Held(n)
  BY <1>1, <1>2, <1>3, Mappings DEF Last, Length, Held, Current
<1>10. addr'[m] = a /\ Last(m)' = a + Length(seg[l]) - 1
  BY <1>1, <1>3, <1>4 DEF Last, Length
<1>11. HeldStaysMapped'
  <2> SUFFICES ASSUME NEW n \in Mapping, Held(n)', NEW p \in Span(addr[n], n[2])'
               PROVE  owner'[p] = n
    BY DEF HeldStaysMapped
  <2>1. CASE n = m
    <3>1. p \in Span(a, seg[l])
      BY <2>1, <1>4, <1>10 DEF Span, Length
    <3> QED BY <3>1, <2>1, <1>1, <1>5
  <2>2. CASE n # m
    <3>1. p \in Span(addr[n], n[2]) /\ Held(n)
      BY <2>2, <1>9 DEF Span, Length
    <3>2. owner[p] = n
      BY <3>1 DEF Inv, HeldStaysMapped
    <3>3. p \in Page
      <4>1. n[2] \in Segments /\ addr[n] \in 0 .. LastPage /\ Last(n) \in 0 .. LastPage
        BY <3>1, Mappings DEF Held, Inv, AddrInv, TypeOK, Page
      <4> QED BY <4>1, <3>1, Numbers, ConstantsAssumption DEF Span, Last, Page
    <3> QED BY <3>2, <3>3, <1>1, <1>5
  <2> QED BY <2>1, <2>2
<1>12. \A n \in Mapping : Entered(n)' <=> Entered(n)
  <2>1. ~Entered(m)
    BY <1>0, <1>2 DEF Entered, Inv, AddrInv, Placed, Before
  <2>2. ~Entered(m)'
    BY <1>2, <1>3, <1>4 DEF Entered
  <2>3. \A n \in Mapping \ {m} : Entered(n)' <=> Entered(n)
    BY <1>2, <1>3, <1>4, <1>9, Mappings DEF Entered
  <2> QED BY <2>1, <2>2, <2>3
<1>13. KeyInv' /\ ActiveInv'
  <2>1. \A n \in Mapping : Entered(n) => addr'[n] = addr[n] /\ Last(n)' = Last(n)
    <3>1. ~Entered(m)
      BY <1>0, <1>2 DEF Entered, Inv, AddrInv, Placed, Before
    <3> QED BY <3>1, <1>9
  <2>2. KeyInv'
    BY <2>1, <1>12 DEF Inv, KeyInv
  <2>3. ActiveInv'
    BY <2>1, <1>12, <1>2 DEF Inv, ActiveInv
  <2> QED BY <2>2, <2>3
<1>14. AddrInv' /\ ReachInv'
  <2>1. Placed(l)'
    BY <1>1, <1>2, <1>3, <1>4, Mappings DEF Inv, AddrInv, Placed, Before, Current, Segments
  <2>2. Near(l)'
    BY <1>1, <1>2, <1>3, <1>4, Mappings DEF Inv, ReachInv, Near, Current, Segments, Last, Length
  <2>3. \A k \in Loaders \ {l} : Placed(k)' /\ Near(k)'
    <3> SUFFICES ASSUME NEW k \in Loaders \ {l} PROVE Placed(k)' /\ Near(k)'
      OBVIOUS
    <3>1. \A s \in Segments : addr'[<<k, s>>] = addr[<<k, s>>]
      BY <1>1, <1>3, <1>4, Mappings
    <3> QED BY <3>1, <1>2, <1>3, Others
  <2>4. Last(m)' \in Page
    <3>1. Last(m)' \in Span(a, seg[l])
      BY <1>3, <1>4, <1>10, Numbers DEF Span
    <3> QED BY <3>1, <1>5
  <2>5. \A n \in Mapping : addr'[n] # NoAddr => Last(n)' \in Page
    BY <2>4, <1>9 DEF Inv, AddrInv
  <2> QED BY <2>1, <2>2, <2>3, <2>5 DEF AddrInv, ReachInv
<1> QED BY <1>6, <1>7, <1>8, <1>11, <1>13, <1>14 DEF Inv

\* While nobody is between munmap and the delete, every mapping that there is has
\* its pages, so no two end with the same byte.
LEMMA RegisterInv == ASSUME Inv, NEW l \in Loaders, Register(l) PROVE Inv'
<1>0. PICK m \in Mapping : m = Current(l)
  BY Mappings DEF Current, Inv, TypeOK
<1> DEFINE far == FarAway(m)
<1>1. /\ pc[l] = "register" /\ mapperLock = NoLoader
      /\ active' = WithoutKey(Last(m)) \cup {<<addr[m], Last(m)>>}
      /\ mmapLock' = IF far THEN mmapLock ELSE NoLoader
      /\ pc' = [pc EXCEPT ![l] =
                  IF far THEN "far" ELSE IF seg[l] = "code" THEN "acquire" ELSE "loaded"]
      /\ seg' = [seg EXCEPT ![l] = IF far THEN @ ELSE "data"]
      /\ UNCHANGED <<owner, mapperLock, taken, candidates, addr, refusals>>
  BY <1>0 DEF Register, Goto
<1>2. /\ pc \in [Loaders -> PCs] /\ seg \in [Loaders -> Segments]
      /\ addr \in [Mapping -> Page \cup {NoAddr}] /\ active \subseteq Page \X Page
  BY DEF Inv, TypeOK
<1>3. m = <<l, seg[l]>> /\ m[1] = l /\ m[2] = seg[l] /\ seg[l] \in Segments
  BY <1>0, <1>2 DEF Current
<1>4. addr[m] \in Page /\ Last(m) \in Page
  BY <1>0, <1>1, <1>2 DEF Inv, AddrInv, Placed
<1>5. TypeOK'
  BY <1>1, <1>2, <1>4 DEF Inv, TypeOK, PCs, Working, Segments, WithoutKey
<1>6. LockInv'
  <2>1. CASE far
    BY <2>1, <1>1, <1>2 DEF Inv, LockInv, InLock, InMapper
  <2>2. CASE ~far
    BY <2>2, <1>1, <1>2, SentinelsAssumption DEF Inv, LockInv, InLock, InMapper
  <2> QED BY <2>1, <2>2
<1>7. SeenInv'
  <2> SUFFICES ASSUME NEW k \in Loaders, pc'[k] = "map" PROVE FALSE
    BY DEF SeenInv
  <2> QED BY <1>1, <1>2 DEF Inv, LockInv, InLock
<1>8. \A n \in Mapping : Last(n)' = Last(n)
  BY <1>1 DEF Last, Length
<1>9. HeldStaysMapped'
  <2>1. \A n \in Mapping : Held(n)' => Held(n)
    BY <1>1, <1>2, Mappings DEF Held, Current, Inv, LockInv, InMapper
  <2> QED BY <2>1, <1>1 DEF Inv, HeldStaysMapped, Span, Length
<1>10. \A n \in Mapping : Entered(n)' <=> Entered(n) \/ n = m
  <2>1. Entered(m)'
    BY <1>1, <1>2, <1>3, <1>4, SentinelsAssumption DEF Entered
  <2>2. \A n \in Mapping \ {m} : Entered(n)' <=> Entered(n)
    BY <1>1, <1>2, <1>3, Mappings DEF Entered, Segments, Inv, AddrInv, Placed
  <2> QED BY <2>1, <2>2
<1>11. \A n \in Mapping \ {m} : Entered(n) => Last(n) # Last(m)
  <2> SUFFICES ASSUME NEW n \in Mapping \ {m}, Entered(n), Last(n) = Last(m) PROVE FALSE
    OBVIOUS
  <2>1. Held(n) /\ Held(m)
    BY <1>1, <1>2, <1>3, <1>4, Mappings, SentinelsAssumption
    DEF Entered, Held, Current, Inv, LockInv, InMapper
  <2>2. Last(n) \in Span(addr[n], n[2]) /\ Last(m) \in Span(addr[m], m[2])
    <3>1. \A k \in Mapping : Held(k) => Last(k) \in Span(addr[k], k[2])
      <4> SUFFICES ASSUME NEW k \in Mapping, Held(k) PROVE Last(k) \in Span(addr[k], k[2])
        OBVIOUS
      <4>1. addr[k] \in Int /\ Length(k[2]) \in Int /\ Length(k[2]) >= 1
        BY <1>2, Numbers, Mappings DEF Held
      <4> QED BY <4>1 DEF Last, Span
    <3> QED BY <3>1, <2>1
  <2>3. owner[Last(m)] = m /\ owner[Last(m)] = n
    BY <2>1, <2>2 DEF Inv, HeldStaysMapped
  <2> QED BY <2>3
<1>12. KeyInv'
  BY <1>8, <1>10, <1>11 DEF Inv, KeyInv
<1>13. ActiveInv'
  <2>1. WithoutKey(Last(m)) = active
    <3> SUFFICES ASSUME NEW r \in active PROVE r[2] # Last(m)
      BY DEF WithoutKey
    <3>1. PICK n \in Mapping : Entered(n) /\ r = <<addr[n], Last(n)>>
      BY DEF Inv, ActiveInv
    <3>2. n # m
      BY <3>1, <1>1, <1>3 DEF Entered
    <3> QED BY <3>1, <3>2, <1>11
  <2>2. active' = active \cup {<<addr[m], Last(m)>>}
    BY <1>1, <2>1
  <2> QED BY <2>2, <1>1, <1>8, <1>10 DEF Inv, ActiveInv
<1>14. AddrInv' /\ ReachInv'
  <2>1. Placed(l)'
    BY <1>1, <1>2, <1>3, <1>4, SentinelsAssumption
    DEF Inv, AddrInv, Placed, Before, Current, Segments
  <2>2. Near(l)'
    <3>1. ~far => Last(m) <= FirstModule + Reach
      <4>1. Last(m) \in Int /\ FirstModule \in Int /\ Reach \in Int
        BY <1>4, Numbers
      <4> QED BY <4>1 DEF FarAway
    <3> QED BY <3>1, <1>1, <1>2, <1>3, <1>8, Mappings DEF Inv, ReachInv, Near, Segments
  <2>3. \A k \in Loaders \ {l} : Placed(k)' /\ Near(k)'
    BY <1>1, <1>2, Others
  <2> QED BY <2>1, <2>2, <2>3, <1>1, <1>8 DEF Inv, AddrInv, ReachInv
<1> QED BY <1>5, <1>6, <1>7, <1>9, <1>12, <1>13, <1>14 DEF Inv

\* What is unmapped is the loader's own: its pages are disjoint from all others.
LEMMA UnmapInv == ASSUME Inv, NEW l \in Loaders, Unmap(l) PROVE Inv'
<1>0. PICK m \in Mapping : m = Current(l)
  BY Mappings DEF Current, Inv, TypeOK
<1>1. /\ pc[l] \in {"far", "munmap"} /\ mapperLock = NoLoader /\ mapperLock' = l
      /\ owner' = [p \in Page |-> IF p \in Span(addr[m], seg[l]) THEN Free ELSE owner[p]]
      /\ pc' = [pc EXCEPT ![l] = IF pc[l] = "far" THEN "farForget" ELSE "forget"]
      /\ UNCHANGED <<active, mmapLock, seg, taken, candidates, addr, refusals>>
  BY <1>0 DEF Unmap, Goto
<1>2. /\ pc \in [Loaders -> PCs] /\ seg \in [Loaders -> Segments]
      /\ addr \in [Mapping -> Page \cup {NoAddr}]
      /\ owner \in [Page -> {Free, Host, Outside} \cup Mapping]
  BY DEF Inv, TypeOK
<1>3. m = <<l, seg[l]>> /\ m[1] = l /\ m[2] = seg[l] /\ seg[l] \in Segments
  BY <1>0, <1>2 DEF Current
<1>4. Held(m)
  BY <1>0, <1>1, <1>3 DEF Held, Inv, AddrInv, Placed
<1>5. \A p \in Span(addr[m], seg[l]) : owner[p] = m
  BY <1>3, <1>4 DEF Inv, HeldStaysMapped
<1>6. TypeOK'
  BY <1>1, <1>2 DEF Inv, TypeOK, PCs, Working
<1>7. LockInv'
  BY <1>1, <1>2, SentinelsAssumption DEF Inv, LockInv, InLock, InMapper
<1>8. SeenInv'
  BY <1>1, <1>2 DEF Inv, SeenInv, Span, Length
<1>9. HeldStaysMapped'
  <2> SUFFICES ASSUME NEW n \in Mapping, Held(n)', NEW p \in Span(addr[n], n[2])
               PROVE  owner'[p] = n
    BY <1>1 DEF HeldStaysMapped, Span, Length
  <2>1. n # m /\ Held(n)
    BY <1>0, <1>1, <1>2, <1>3, Mappings DEF Held, Current
  <2>2. owner[p] = n
    BY <2>1 DEF Inv, HeldStaysMapped
  <2>3. p \in Page
    <3>1. n[2] \in Segments /\ addr[n] \in 0 .. LastPage /\ Last(n) \in 0 .. LastPage
      BY <2>1, <1>2, Mappings DEF Held, Inv, AddrInv, Page
    <3> QED BY <3>1, Numbers, ConstantsAssumption DEF Span, Last, Page
  <2> QED BY <2>1, <2>2, <2>3, <1>1, <1>5
<1>10. \A n \in Mapping : Last(n)' = Last(n) /\ (Entered(n)' <=> Entered(n))
  BY <1>1, <1>2, Mappings DEF Last, Length, Entered
<1>11. KeyInv' /\ ActiveInv'
  BY <1>1, <1>10 DEF Inv, KeyInv, ActiveInv
<1>12. AddrInv' /\ ReachInv'
  <2>1. Placed(l)' /\ Near(l)'
    BY <1>1, <1>2, <1>3, <1>10, Mappings
    DEF Inv, AddrInv, ReachInv, Placed, Near, Before, Current, Segments
  <2>2. \A k \in Loaders \ {l} : Placed(k)' /\ Near(k)'
    BY <1>1, <1>2, Others
  <2> QED BY <2>1, <2>2, <1>1, <1>10 DEF Inv, AddrInv, ReachInv
<1> QED BY <1>6, <1>7, <1>8, <1>9, <1>11, <1>12 DEF Inv

LEMMA ForgetInv == ASSUME Inv, NEW l \in Loaders, Forget(l) PROVE Inv'
<1>0. PICK m \in Mapping : m = Current(l)
  BY Mappings DEF Current, Inv, TypeOK
<1> DEFINE failing == pc[l] = "farForget"
<1>1. /\ pc[l] \in {"farForget", "forget"} /\ mapperLock' = NoLoader
      /\ active' = WithoutKey(Last(m)) /\ addr' = [addr EXCEPT ![m] = NoAddr]
      /\ mmapLock' = IF failing THEN NoLoader ELSE mmapLock
      /\ seg' = IF failing THEN seg ELSE [seg EXCEPT ![l] = "data"]
      /\ pc' = [pc EXCEPT ![l] =
                  IF failing THEN "failed" ELSE IF seg[l] = "code" THEN "munmap" ELSE "unloaded"]
      /\ UNCHANGED <<owner, taken, candidates, refusals>>
  BY <1>0 DEF Forget, Goto
<1>2. /\ pc \in [Loaders -> PCs] /\ seg \in [Loaders -> Segments]
      /\ addr \in [Mapping -> Page \cup {NoAddr}] /\ active \subseteq Page \X Page
  BY DEF Inv, TypeOK
<1>3. m = <<l, seg[l]>> /\ m[1] = l /\ m[2] = seg[l] /\ seg[l] \in Segments
  BY <1>0, <1>2 DEF Current
<1>4. /\ \A k \in Loaders \ {l} : pc'[k] = pc[k] /\ seg'[k] = seg[k]
      /\ seg' \in [Loaders -> Segments]
  BY <1>1, <1>2 DEF Segments
<1>5. TypeOK'
  BY <1>1, <1>2, <1>4 DEF Inv, TypeOK, PCs, Working, WithoutKey
<1>6. LockInv'
  <2>1. CASE failing
    BY <2>1, <1>1, <1>2, SentinelsAssumption DEF Inv, LockInv, InLock, InMapper
  <2>2. CASE ~failing
    BY <2>2, <1>1, <1>2, SentinelsAssumption DEF Inv, LockInv, InLock, InMapper
  <2> QED BY <2>1, <2>2
<1>7. SeenInv'
  <2>1. \A k \in Loaders : pc'[k] = "map" => k # l /\ pc[k] = "map" /\ seg'[k] = seg[k]
    BY <1>1, <1>2, <1>4
  <2> QED BY <2>1, <1>1 DEF Inv, SeenInv, Span, Length
<1>8. \A n \in Mapping \ {m} : addr'[n] = addr[n] /\ Last(n)' = Last(n)
  BY <1>1, <1>2 DEF Last, Length
<1>9. addr'[m] = NoAddr
  BY <1>1, <1>2
<1>10. HeldStaysMapped'
  <2>1. \A n \in Mapping : Held(n)' => n # m /\ Held(n)
    <3> SUFFICES ASSUME NEW n \in Mapping, Held(n)' PROVE n # m /\ Held(n)
      OBVIOUS
    <3>1. n # m
      BY <1>9 DEF Held
    <3>2. CASE n[1] = l
      <4>1. n # <<l, seg[l]>>
        BY <3>1, <1>3
      <4> QED BY <3>1, <3>2, <4>1, <1>8 DEF Held, Current
    <3>3. CASE n[1] # l
      BY <3>1, <3>3, <1>4, <1>8, Mappings DEF Held, Current
    <3> QED BY <3>1, <3>2, <3>3
  <2> QED BY <2>1, <1>1, <1>8 DEF Inv, HeldStaysMapped, Span, Length
<1>11. \A n \in Mapping : Entered(n)' <=> Entered(n) /\ n # m
  <2>1. ~Entered(m)'
    BY <1>9 DEF Entered
  <2>2. \A n \in Mapping \ {m} : Entered(n)' <=> Entered(n)
    BY <1>1, <1>2, <1>4, <1>8, Mappings DEF Entered
  <2> QED BY <2>1, <2>2
<1>12. Entered(m)
  BY <1>0, <1>1, <1>3 DEF Entered, Inv, AddrInv, Placed
<1>13. KeyInv'
  BY <1>8, <1>11 DEF Inv, KeyInv
<1>14. ActiveInv'
  <2>1. \A n \in Mapping : Entered(n) /\ n # m => Last(n) # Last(m)
    BY <1>12 DEF Inv, KeyInv
  <2>2. active' = {<<addr[n], Last(n)>> : n \in {n \in Mapping : Entered(n) /\ n # m}}
    BY <1>1, <2>1 DEF Inv, ActiveInv, WithoutKey
  <2> QED BY <2>2, <1>8, <1>11 DEF ActiveInv
<1>15. AddrInv' /\ ReachInv'
  <2>1. Placed(l)'
    BY <1>0, <1>1, <1>2, <1>3, <1>8, <1>9, Mappings
    DEF Inv, AddrInv, Placed, Before, Current, Segments
  <2>2. Near(l)'
    BY <1>1, <1>2, <1>3, <1>8, <1>9, Mappings DEF Inv, ReachInv, Near, Segments
  <2>3. \A k \in Loaders \ {l} : Placed(k)' /\ Near(k)'
    BY <1>3, <1>4, <1>8, Mappings, Others
  <2> QED BY <2>1, <2>2, <2>3, <1>8, <1>9 DEF Inv, AddrInv, ReachInv
<1> QED BY <1>5, <1>6, <1>7, <1>10, <1>13, <1>14, <1>15 DEF Inv

\* Other code takes free pages and gives back its own.
LEMMA OutsideInv == ASSUME Inv, OutsideMap \/ OutsideUnmap PROVE Inv'
<1>1. PICK p \in Page, v \in {Free, Outside} :
        owner[p] \in {Free, Outside} /\ owner' = [owner EXCEPT ![p] = v]
  BY DEF OutsideMap, OutsideUnmap
<1>2. UNCHANGED <<active, mmapLock, mapperLock, pc, seg, taken, candidates, addr, refusals>>
  BY DEF OutsideMap, OutsideUnmap, locks
<1>3. owner \in [Page -> {Free, Host, Outside} \cup Mapping]
  BY DEF Inv, TypeOK
<1>4. TypeOK'
  BY <1>1, <1>2 DEF Inv, TypeOK
<1>5. LockInv'
  BY <1>2 DEF Inv, LockInv
<1>6. SeenInv'
  BY <1>1, <1>2, <1>3 DEF Inv, SeenInv, Span, Length
<1>7. HeldStaysMapped'
  <2> SUFFICES ASSUME NEW n \in Mapping, Held(n), NEW q \in Span(addr[n], n[2])
               PROVE  owner'[q] = n
    BY <1>2 DEF HeldStaysMapped, Held, Current, Span, Length
  <2>1. owner[q] = n /\ q # p
    BY <1>1, SentinelsAssumption DEF Inv, HeldStaysMapped
  <2> QED BY <2>1, <1>1, <1>3
<1>8. KeyInv' /\ ActiveInv'
  BY <1>2 DEF Inv, KeyInv, ActiveInv, Entered, Last, Length
<1>9. AddrInv' /\ ReachInv'
  BY <1>2, Others DEF Inv, AddrInv, ReachInv, Last, Length
<1> QED BY <1>4, <1>5, <1>6, <1>7, <1>8, <1>9 DEF Inv

LEMMA StutterInv == ASSUME Inv, UNCHANGED vars PROVE Inv'
<1>1. UNCHANGED <<owner, active, mmapLock, mapperLock, pc, seg, taken, candidates, addr, refusals>>
  BY DEF vars
<1>2. TypeOK' /\ LockInv' /\ SeenInv'
  BY <1>1 DEF Inv, TypeOK, LockInv, SeenInv, Span, Length
<1>3. HeldStaysMapped' /\ KeyInv' /\ ActiveInv'
  BY <1>1, Undisturbed DEF Held, Entered, Current
<1>4. AddrInv' /\ ReachInv'
  BY <1>1, Others DEF Inv, AddrInv, ReachInv, Last, Length
<1> QED BY <1>2, <1>3, <1>4 DEF Inv

LEMMA NextInv == ASSUME Inv, [Next]_vars PROVE Inv'
<1>1. CASE \E l \in Loaders : Acquire(l)
  BY <1>1, StartLoadInv, LockInvStep, ReadMapInv, GiveUpInv, MapInv, RefuseInv, RegisterInv
  DEF Acquire
<1>2. CASE \E l \in Loaders : Release(l)
  BY <1>2, StartReleaseInv, UnmapInv, ForgetInv DEF Release
<1>3. CASE OutsideMap \/ OutsideUnmap
  BY <1>3, OutsideInv
<1>4. CASE UNCHANGED vars
  BY <1>4, StutterInv
<1> QED BY <1>1, <1>2, <1>3, <1>4 DEF Next

LEMMA Invariance == Spec => []Inv
<1>1. Inv /\ [Next]_vars => Inv'
  BY NextInv
<1> QED BY InitInv, <1>1, PTL DEF Spec

------------------------------------------------------------------------------
\* The state keeps its shape through every interleaving of loads, unloads and
\* mappings of other code.
THEOREM TypeCorrect == Spec => []TypeOK
<1>1. Inv => TypeOK
  BY DEF Inv
<1> QED BY Invariance, <1>1, PTL

\* A mapping keeps its pages until its own Munmap, whatever other loaders and
\* other code do: no AcquireMapping maps over it (manager.go:46).
THEOREM MappingsAreKept == Spec => []HeldStaysMapped
<1>1. Inv => HeldStaysMapped
  BY DEF Inv
<1> QED BY Invariance, <1>1, PTL

\* mapper.active holds exactly the mappings that are held and registered, so that
\* no Munmap of goloader's fails with EINVAL (syscall_unix.go:71).
THEOREM ActiveIsExact == Spec => []ActiveIsHeld
<1>1. Inv => ActiveIsHeld
  BY DEF Inv, ActiveInv, ActiveIsHeld, Entered
<1> QED BY Invariance, <1>1, PTL

\* The last byte of every segment of a loaded module is within 32 bits of the
\* host's first module (manager.go:76).
THEOREM ModulesAreNear == Spec => []LoadedWithinReach
<1>1. Inv => LoadedWithinReach
  BY DEF Inv, ReachInv, Near, LoadedWithinReach
<1> QED BY Invariance, <1>1, PTL

\* A step that maps over pages of somebody else maps over pages that other code
\* has mapped since the map of the process was read (manager.go:59).
THEOREM OnlyTheUnseenIsReplaced == Spec => ReplacesOnlyUnseen
<1> DEFINE Replaces(p, m) == owner'[p] = m /\ owner[p] \notin {m, Free}
           Unseen(p, m) == owner[p] = Outside /\ p \notin taken[m[1]]
<1>1. ASSUME Inv, Next, NEW p \in Page, NEW m \in Mapping, Replaces(p, m) PROVE Unseen(p, m)
  <2>1. owner \in [Page -> {Free, Host, Outside} \cup Mapping]
    BY <1>1 DEF Inv, TypeOK
  <2>2. PICK l \in Loaders : Map(l)
    <3>1. CASE \E l \in Loaders : Acquire(l)
      BY <3>1, <1>1 DEF Acquire, StartLoad, Lock, ReadMap, GiveUp, Refuse, Register
    <3>2. CASE \E l \in Loaders : Release(l)
      BY <3>2, <1>1, <2>1, SentinelsAssumption DEF Release, StartRelease, Unmap, Forget
    <3>3. CASE OutsideMap \/ OutsideUnmap
      BY <3>3, <1>1, <2>1, SentinelsAssumption DEF OutsideMap, OutsideUnmap
    <3>4. CASE UNCHANGED vars
      BY <3>4, <1>1 DEF vars
    <3> QED BY <1>1, <3>1, <3>2, <3>3, <3>4 DEF Next
  <2>3. PICK a \in candidates[l] :
          owner' = [q \in Page |-> IF q \in Span(a, seg[l]) THEN Current(l) ELSE owner[q]]
    BY <2>2 DEF Map
  <2>4. p \in Span(a, seg[l]) /\ m = Current(l)
    BY <1>1, <2>1, <2>3
  <2>5. m[1] = l /\ p \notin taken[l]
    BY <1>1, <2>2, <2>4 DEF Inv, SeenInv, Map, Current
  <2>6. owner[p] \in {Free, Outside}
    BY <1>1, <2>2, <2>5 DEF Inv, SeenInv, Map
  <2> QED BY <1>1, <2>5, <2>6
<1>2. Inv /\ [Next]_vars =>
        [\A p \in Page : \A m \in Mapping : Replaces(p, m) => Unseen(p, m)]_vars
  BY <1>1
<1> QED BY Invariance, <1>2, PTL DEF Spec, ReplacesOnlyUnseen

------------------------------------------------------------------------------
(***************************************************************************)
(* Giving up: a run of free pages that is two pages longer than the length *)
(* wanted has an address in its gap, at its second page or before it.      *)
(***************************************************************************)

LEMMA LeastNatural ==
  ASSUME NEW S \in SUBSET Nat, S # {}
  PROVE  \E n \in S : \A k \in S : n <= k
<1>1. IsWellFoundedOn(OpToRel(<, Nat), Nat)
  BY NatLessThanWellFounded
<1>2. PICK n \in S : \A k \in S : ~ (<<k, n>> \in OpToRel(<, Nat))
  BY <1>1, WFMin
<1>3. \A k \in S : ~(k < n)
  BY <1>2 DEF OpToRel
<1> QED BY <1>3

\* The mapping before a free page and the one after it.
LEMMA Neighbours ==
  ASSUME NEW mapped \in SUBSET Page, NEW p \in Page, p \notin mapped,
         FirstModule \in mapped, LastPage \in mapped, FirstModule < p
  PROVE  /\ \E f \in mapped : f < p /\ \A q \in mapped : q < p => q <= f
         /\ \E e \in mapped : p < e /\ \A q \in mapped : p < q => e <= q
<1>1. Page = 0 .. LastPage /\ LastPage \in Nat /\ p < LastPage
  BY ConstantsAssumption DEF Page
<1>2. \E f \in mapped : f < p /\ \A q \in mapped : q < p => q <= f
  <2> DEFINE S == {LastPage - q : q \in {q \in mapped : q < p}}
  <2>1. S \in SUBSET Nat /\ LastPage - FirstModule \in S
    BY <1>1
  <2>2. PICK n \in S : \A k \in S : n <= k
    <3> HIDE DEF S
    <3> QED BY <2>1, LeastNatural
  <2>3. PICK f \in mapped : f < p /\ n = LastPage - f
    BY <2>2
  <2>4. ASSUME NEW q \in mapped, q < p PROVE q <= f
    <3>1. n <= LastPage - q
      BY <2>2, <2>4
    <3> QED BY <1>1, <2>3, <3>1
  <2> QED BY <2>3, <2>4
<1>3. \E e \in mapped : p < e /\ \A q \in mapped : p < q => e <= q
  <2> DEFINE S == {q \in mapped : p < q}
  <2>1. S \in SUBSET Nat /\ LastPage \in S
    <3>1. mapped \in SUBSET Nat
      BY <1>1
    <3> QED BY <1>1, <3>1
  <2>2. PICK e \in S : \A k \in S : e <= k
    <3> HIDE DEF S
    <3> QED BY <2>1, LeastNatural
  <2> QED BY <2>2
<1> QED BY <1>2, <1>3

\* The pages that a search for a segment needs, from p on.
Run(p, s) == p .. p + Length(s) + 1
RoomAt(p, s, mapped) ==
  p > FirstModule /\ \A q \in Run(p, s) : q <= FirstModule + Reach /\ q \notin mapped

LEMMA RoomIsFound ==
  ASSUME NEW mapped \in SUBSET Page, NEW s \in Segments, NEW p \in Page,
         FirstModule \in mapped, LastPage \in mapped, RoomAt(p, s, mapped)
  PROVE  \E a \in Addresses(mapped, Length(s)) : a <= p + 1
<1> DEFINE n == Length(s)
<1>1. /\ Page = 0 .. LastPage /\ LastPage \in Nat /\ n \in Nat /\ n >= 1
      /\ FirstModule \in Page /\ FirstModule < p
  BY ConstantsAssumption DEF Page, Length, RoomAt
<1> HIDE DEF n
<1>2. p \notin mapped
  BY <1>1 DEF RoomAt, Run, n
<1>3. PICK f \in mapped : f < p /\ \A q \in mapped : q < p => q <= f
  BY <1>1, <1>2, Neighbours
<1>4. PICK e \in mapped : p < e /\ \A q \in mapped : p < q => e <= q
  BY <1>1, <1>2, Neighbours
<1>5. p + n + 1 < e
  BY <1>1, <1>4 DEF RoomAt, Run, n
<1>6. FirstModule <= f
  BY <1>1, <1>3
<1> DEFINE g == [start |-> f + 2, end |-> e]
<1>7. g \in Gaps(mapped)
  <2>1. f + 2 \in Page /\ e > f
    BY <1>1, <1>3, <1>4, <1>5
  <2>2. ASSUME NEW q \in f + 1 .. e - 1, q \in mapped PROVE FALSE
    BY <1>1, <1>2, <1>3, <1>4, <2>2
  <2>3. g.start - 2 = f /\ g.start - 1 = f + 1 /\ g.end = e
    BY <1>1, <1>3
  <2> QED BY <2>1, <2>2, <2>3 DEF Gaps
<1>8. g \in Suitable(mapped, n)
  BY <1>1, <1>3, <1>4, <1>5, <1>6, <1>7 DEF Suitable
<1>9. f + 2 \in Addresses(mapped, n)
  <2>1. PICK a \in Page, h \in Suitable(mapped, n) : a = f + 2 /\ h = g
    BY <1>1, <1>3, <1>4, <1>5, <1>8
  <2>2. a >= h.start /\ a + n < h.end /\ (a - h.start) % n = 0
    BY <1>1, <1>3, <1>4, <1>5, <2>1
  <2> HIDE DEF g
  <2>3. a \in Addresses(mapped, n)
    BY <2>2, Zenon DEF Addresses
  <2> QED BY <2>1, <2>3
<1>10. f + 2 <= p + 1
  BY <1>1, <1>3
<1> QED BY <1>9, <1>10 DEF n

\* The first module and the topmost page are the host's for good; what a loader tries
\* is what its reading of the map left free, so that without a refusal it maps at
\* the least of those addresses.
NoRoom(l) == ~\E p \in Page : RoomAt(p, seg[l], taken[l])

Searched(l) ==
  /\ pc[l] \in {"map", "register"} => FirstModule \in taken[l] /\ LastPage \in taken[l]
  /\ refusals = 0 =>
       /\ pc[l] = "map" => candidates[l] = Addresses(taken[l], Length(seg[l]))
       /\ pc[l] = "register" =>
            \A a \in Addresses(taken[l], Length(seg[l])) : addr[Current(l)] <= a
       /\ pc[l] \in {"far", "farForget", "failed"} => NoRoom(l)

HostStays == owner[FirstModule] = Host /\ owner[LastPage] = Host
SearchInv == HostStays /\ \A l \in Loaders : Searched(l)

LEMMA HostsPages == FirstModule \in Page /\ LastPage \in Page
BY ConstantsAssumption DEF Page

LEMMA InitSearchInv == Init => SearchInv
BY HostsPages, ConstantsAssumption DEF Init, SearchInv, Searched, HostStays

\* What Searched says of a loader outlives the steps that leave its search alone.
LEMMA OthersSearch ==
  ASSUME NEW k \in Loaders, Searched(k), pc'[k] = pc[k], seg'[k] = seg[k],
         taken'[k] = taken[k], candidates'[k] = candidates[k],
         pc[k] = "register" => addr'[Current(k)] = addr[Current(k)],
         refusals' = 0 => refusals = 0
  PROVE  Searched(k)'
<1>1. Length(seg[k])' = Length(seg[k]) /\ Current(k)' = Current(k)
  BY DEF Length, Current
<1>2. NoRoom(k)' <=> NoRoom(k)
  BY DEF NoRoom, RoomAt, Run, Length
<1> QED BY <1>1, <1>2 DEF Searched, Addresses, Suitable, Gaps

\* Nothing maps over the pages of the host, or frees them.
LEMMA HostStaysStep == ASSUME Inv, SearchInv, [Next]_vars PROVE HostStays'
<1>1. owner \in [Page -> {Free, Host, Outside} \cup Mapping] /\ HostStays
  BY DEF Inv, TypeOK, SearchInv
<1>2. CASE UNCHANGED vars
  BY <1>1, <1>2 DEF vars, HostStays
<1>3. ASSUME NEW l \in Loaders, Acquire(l) PROVE HostStays'
  <2>1. CASE Map(l)
    <3>1. PICK a \in candidates[l] :
            owner' = [q \in Page |-> IF q \in Span(a, seg[l]) THEN Current(l) ELSE owner[q]]
      BY <2>1 DEF Map
    <3>2. \A p \in Page \ taken[l] : owner[p] \in {Free, Outside}
      BY <2>1 DEF Map, Inv, SeenInv
    <3>3. \A q \in Span(a, seg[l]) : q \in Page /\ q \notin taken[l]
      BY <2>1 DEF Map, Inv, SeenInv
    <3>4. FirstModule \notin Span(a, seg[l]) /\ LastPage \notin Span(a, seg[l])
      BY <1>1, <3>2, <3>3, SentinelsAssumption DEF HostStays
    <3> QED BY <1>1, <3>1, <3>4, HostsPages DEF HostStays
  <2>2. CASE ~Map(l)
    BY <1>1, <1>3, <2>2
    DEF Acquire, StartLoad, Lock, ReadMap, GiveUp, Refuse, Register, HostStays
  <2> QED BY <2>1, <2>2
<1>4. ASSUME NEW l \in Loaders, Release(l) PROVE HostStays'
  <2>1. CASE Unmap(l)
    <3>1. PICK m \in Mapping : m = Current(l)
      BY Mappings DEF Current, Inv, TypeOK
    <3>2. /\ pc[l] \in {"far", "munmap"}
          /\ owner' = [p \in Page |-> IF p \in Span(addr[m], seg[l]) THEN Free ELSE owner[p]]
      BY <2>1, <3>1 DEF Unmap
    <3>3. Held(m) /\ m[2] = seg[l]
      BY <3>1, <3>2 DEF Current, Held, Inv, AddrInv, Placed
    <3>4. \A p \in Span(addr[m], seg[l]) : owner[p] = m
      BY <3>3 DEF Inv, HeldStaysMapped
    <3>5. m # Host
      BY SentinelsAssumption
    <3> QED BY <1>1, <3>2, <3>4, <3>5, HostsPages DEF HostStays
  <2>2. CASE ~Unmap(l)
    BY <1>1, <1>4, <2>2 DEF Release, StartRelease, Forget, HostStays
  <2> QED BY <2>1, <2>2
<1>5. CASE OutsideMap \/ OutsideUnmap
  <2>1. PICK p \in Page : owner[p] \in {Free, Outside} /\ \E v : owner' = [owner EXCEPT ![p] = v]
    BY <1>5 DEF OutsideMap, OutsideUnmap
  <2>2. p # FirstModule /\ p # LastPage
    BY <1>1, <2>1, SentinelsAssumption DEF HostStays
  <2> QED BY <1>1, <2>1, <2>2, HostsPages DEF HostStays
<1> QED BY <1>2, <1>3, <1>4, <1>5 DEF Next

\* A mapping at the least address is too far only when there was no room.
LEMMA TooFar ==
  ASSUME NEW mapped \in SUBSET Page, NEW s \in Segments, NEW p \in Page, NEW a \in Page,
         FirstModule \in mapped, LastPage \in mapped, RoomAt(p, s, mapped),
         \A b \in Addresses(mapped, Length(s)) : a <= b
  PROVE  a + Length(s) - 1 - FirstModule <= Reach
<1>1. PICK b \in Addresses(mapped, Length(s)) : b <= p + 1
  BY RoomIsFound
<1>2. b \in Page /\ a <= b
  BY DEF Addresses
<1>3. /\ Page = 0 .. LastPage /\ LastPage \in Nat /\ Reach \in Nat
      /\ FirstModule \in Page /\ Length(s) \in Nat
  BY ConstantsAssumption DEF Page, Length
<1>4. p + Length(s) \in Run(p, s)
  BY <1>3 DEF Run
<1>5. p + Length(s) <= FirstModule + Reach
  BY <1>4 DEF RoomAt
<1> QED BY <1>1, <1>2, <1>3, <1>5

LEMMA SearchedStep ==
  ASSUME Inv, SearchInv, NEW l \in Loaders, Acquire(l) \/ Release(l) PROVE Searched(l)'
<1> USE DEF Goto, locks
<1>1. /\ pc \in [Loaders -> PCs] /\ seg \in [Loaders -> Segments]
      /\ taken \in [Loaders -> SUBSET Page] /\ candidates \in [Loaders -> SUBSET Page]
      /\ addr \in [Mapping -> Page \cup {NoAddr}] /\ refusals \in Nat
      /\ seg[l] \in Segments /\ taken[l] \in SUBSET Page
  BY ConstantsAssumption DEF Inv, TypeOK
<1>2. Searched(l) /\ HostStays
  BY DEF SearchInv
<1>3. CASE StartLoad(l) \/ Lock(l) \/ StartRelease(l)
  BY <1>1, <1>3 DEF StartLoad, Lock, StartRelease, Searched
<1>4. CASE ReadMap(l)
  <2>1. FirstModule \in CurrentProcMaps /\ LastPage \in CurrentProcMaps
    BY <1>2, HostsPages, SentinelsAssumption DEF HostStays, CurrentProcMaps
  <2>2. /\ pc'[l] = "map" /\ seg'[l] = seg[l] /\ taken'[l] = CurrentProcMaps
        /\ candidates'[l] = Addresses(CurrentProcMaps, Length(seg[l]))
    BY <1>1, <1>4 DEF ReadMap
  <2> QED BY <2>1, <2>2 DEF Searched, Addresses, Suitable, Gaps, Length
<1>5. CASE GiveUp(l)
  <2>1. /\ pc[l] = "map" /\ candidates[l] = {} /\ pc'[l] = "failed"
        /\ UNCHANGED <<taken, seg, refusals>>
    BY <1>1, <1>5 DEF GiveUp
  <2>2. refusals = 0 => NoRoom(l)
    BY <1>1, <1>2, <2>1, RoomIsFound DEF Searched, NoRoom
  <2>3. NoRoom(l)' <=> NoRoom(l)
    BY <2>1 DEF NoRoom, RoomAt, Run, Length
  <2> QED BY <2>1, <2>2, <2>3 DEF Searched
<1>6. CASE Map(l)
  <2>1. PICK a \in candidates[l] :
          (\A b \in candidates[l] : a <= b) /\ addr' = [addr EXCEPT ![Current(l)] = a]
    BY <1>6 DEF Map
  <2>2. pc[l] = "map" /\ pc'[l] = "register" /\ UNCHANGED <<taken, seg, candidates, refusals>>
    BY <1>1, <1>6 DEF Map
  <2>3. addr'[Current(l)'] = a
    BY <1>1, <2>1, <2>2, Mappings DEF Current
  <2>4. Addresses(taken[l], Length(seg[l]))' = Addresses(taken[l], Length(seg[l]))
    BY <2>2 DEF Addresses, Suitable, Gaps, Length
  <2> QED BY <1>2, <2>1, <2>2, <2>3, <2>4 DEF Searched
<1>7. CASE Refuse(l)
  BY <1>1, <1>2, <1>7 DEF Refuse, Searched
<1>8. CASE Register(l)
  <2>1. /\ pc[l] = "register" /\ UNCHANGED <<taken, addr, refusals>>
        /\ pc'[l] \notin {"map", "register", "farForget", "failed"}
        /\ pc'[l] = "far" => FarAway(Current(l)) /\ seg'[l] = seg[l]
    BY <1>1, <1>8 DEF Register
  <2>2. ASSUME refusals = 0, pc'[l] = "far" PROVE NoRoom(l)'
    <3> SUFFICES ASSUME NEW p \in Page, RoomAt(p, seg[l], taken[l]) PROVE FALSE
      BY <2>1, <2>2 DEF NoRoom, RoomAt, Run, Length
    <3>1. /\ addr[Current(l)] \in Page
          /\ \A b \in Addresses(taken[l], Length(seg[l])) : addr[Current(l)] <= b
      BY <1>1, <1>2, <2>1, <2>2, Mappings DEF Searched, Current, Inv, AddrInv, Placed
    <3>2. Last(Current(l)) = addr[Current(l)] + Length(seg[l]) - 1
      BY DEF Last, Current
    <3>3. addr[Current(l)] + Length(seg[l]) - 1 - FirstModule <= Reach
      BY <1>1, <1>2, <2>1, <3>1, TooFar DEF Searched
    <3>4. Last(Current(l)) - FirstModule > Reach
      BY <2>1, <2>2 DEF FarAway
    <3>5. /\ addr[Current(l)] \in Int /\ Length(seg[l]) \in Int
          /\ FirstModule \in Int /\ Reach \in Int
      BY <1>1, <3>1, Numbers
    <3> QED BY <3>2, <3>3, <3>4, <3>5
  <2> QED BY <2>1, <2>2 DEF Searched
<1>9. CASE Unmap(l) \/ Forget(l)
  <2>1. /\ UNCHANGED <<taken, refusals>> /\ pc'[l] \notin {"map", "register", "far"}
        /\ pc'[l] = "farForget" => pc[l] = "far" /\ seg'[l] = seg[l]
        /\ pc'[l] = "failed" => pc[l] = "farForget" /\ seg'[l] = seg[l]
    BY <1>1, <1>9 DEF Unmap, Forget
  <2>2. pc'[l] \in {"farForget", "failed"} => (NoRoom(l)' <=> NoRoom(l))
    BY <2>1 DEF NoRoom, RoomAt, Run, Length
  <2> QED BY <1>2, <2>1, <2>2 DEF Searched
<1> QED BY <1>3, <1>4, <1>5, <1>6, <1>7, <1>8, <1>9 DEF Acquire, Release

LEMMA NextSearchInv == ASSUME Inv, SearchInv, [Next]_vars PROVE SearchInv'
<1> USE DEF Goto, locks
<1>1. refusals' = 0 => refusals = 0
  <2>1. refusals \in Nat
    BY ConstantsAssumption DEF Inv, TypeOK
  <2>2. refusals' = refusals \/ refusals' = refusals + 1
    BY DEF vars, Next, Acquire, Release, StartLoad, Lock, ReadMap, GiveUp, Map,
       Refuse, Register, StartRelease, Unmap, Forget, OutsideMap, OutsideUnmap
  <2> QED BY <2>1, <2>2
<1>2. ASSUME NEW l \in Loaders, Acquire(l) \/ Release(l), NEW k \in Loaders PROVE Searched(k)'
  <2>1. CASE k = l
    BY <1>2, <2>1, SearchedStep
  <2>2. CASE k # l
    <3>1. /\ pc'[k] = pc[k] /\ seg'[k] = seg[k] /\ taken'[k] = taken[k]
          /\ candidates'[k] = candidates[k]
      BY <1>2, <2>2 DEF Inv, TypeOK, Acquire, Release, StartLoad, Lock, ReadMap, GiveUp, Map,
         Refuse, Register, StartRelease, Unmap, Forget
    <3>2. addr' = addr \/ \E a : addr' = [addr EXCEPT ![Current(l)] = a]
      BY <1>2 DEF Acquire, Release, StartLoad, Lock, ReadMap, GiveUp, Map,
         Refuse, Register, StartRelease, Unmap, Forget
    <3>3. Current(k) \in Mapping /\ Current(k) # Current(l)
      BY <2>2, Mappings DEF Current, Inv, TypeOK
    <3>4. addr'[Current(k)] = addr[Current(k)]
      BY <3>2, <3>3 DEF Inv, TypeOK
    <3> QED BY <1>1, <3>1, <3>4, OthersSearch DEF SearchInv
  <2> QED BY <2>1, <2>2
<1>3. ASSUME OutsideMap \/ OutsideUnmap \/ UNCHANGED vars, NEW k \in Loaders PROVE Searched(k)'
  <2>1. UNCHANGED <<pc, seg, taken, candidates, addr>>
    BY <1>3 DEF OutsideMap, OutsideUnmap, vars
  <2> QED BY <1>1, <2>1, OthersSearch DEF SearchInv
<1>4. \A k \in Loaders : Searched(k)'
  BY <1>2, <1>3 DEF Next
<1> QED BY <1>4, HostStaysStep DEF SearchInv

\* AcquireMapping gives up only when the kernel refused an address or when there was no
\* run of free pages within reach that is two pages longer than what it wants to map
\* (manager.go:46, manager.go:76).
THEOREM GivesUpForAReason == Spec => []GivesUpOnlyWithoutRoom
<1>1. SearchInv => GivesUpOnlyWithoutRoom
  BY DEF SearchInv, Searched, NoRoom, RoomAt, Run, GivesUpOnlyWithoutRoom
<1>2. Inv /\ SearchInv /\ [Next]_vars => SearchInv'
  BY NextSearchInv
<1> QED BY Invariance, InitSearchInv, <1>1, <1>2, PTL DEF Spec
=============================================================================

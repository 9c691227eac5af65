------------------------------ MODULE MapManager ------------------------------
(***************************************************************************)
(* The memory of code modules on unix (mmap/manager.go, syscall_unix.go).  *)
(*                                                                         *)
(* Load maps a code and a data segment, each within 32 bits of the host's  *)
(* first module so that relocations reach it: AcquireMapping reads the map *)
(* of the process, lists the gaps after the first module, and maps with    *)
(* MAP_FIXED at the first address that the kernel accepts.  MAP_FIXED      *)
(* replaces whatever is there.  mmapLock keeps goloader's own calls apart; *)
(* other code of the process maps pages when it likes.  mapper remembers   *)
(* the active mappings by their last byte, under a lock of its own.        *)
(*                                                                         *)
(* Addresses are pages.  The last page stands for the topmost mapping of   *)
(* the process.  The gap beyond it, which the code ends at the largest     *)
(* address, is left out, for no address in it is ever mapped.  Either the  *)
(* topmost mapping ends below 2^63: then the size of the gap, as an int,   *)
(* is negative, and the gap is not suitable.  Or it ends above: then the   *)
(* kernel refuses every address behind it, and the search fails as it does *)
(* without that gap.  Errors of munmap and of reading the map are left out *)
(* too.                                                                    *)
(***************************************************************************)
EXTENDS Integers, FiniteSets

CONSTANTS
  Loaders,       \* the goroutines that load, and unload, one module each
  LastPage,      \* the topmost page of the process
  HostPages,     \* pages mapped from the start
  FirstModule,   \* the page of the host's moduledata, activeModules()[0]
  Reach,         \* pages that are within 32 bits of FirstModule
  Pages,         \* per segment, the pages of Load's page-aligned length
  MaxOutside,    \* bound: pages that other code has mapped at one time
  MaxRefusals,   \* bound: mmap calls that the kernel refuses
  Free, Host, Outside, NoLoader, NoAddr  \* sentinels

Page == 0 .. LastPage
Segments == {"code", "data"}
Mapping == Loaders \X Segments

ASSUME ConstantsAssumption ==
  /\ LastPage \in Nat /\ LastPage \in HostPages
  /\ FirstModule \in HostPages /\ HostPages \subseteq Page
  /\ Reach \in Nat /\ MaxOutside \in Nat /\ MaxRefusals \in Nat
  /\ Pages \in [Segments -> Nat \ {0}]

ASSUME SentinelsAssumption ==
  /\ {Free, Host, Outside} \cap Mapping = {} /\ Free # Outside /\ Host \notin {Free, Outside}
  /\ NoLoader \notin Loaders /\ NoAddr \notin Page

VARIABLES
  owner,      \* per page, Free, Host, Outside or the mapping it belongs to
  active,     \* mapper.active: the first and last page of each slice, keyed by the last
  mmapLock,   \* the loader in AcquireMapping
  mapperLock, \* the loader in Munmap, between munmap and the delete
  pc,         \* per loader, where it is
  seg,        \* per loader, the segment it is at
  taken,      \* per loader, the pages that its reading of the map found taken
  candidates, \* per loader, the addresses still to be tried
  addr,       \* per mapping, its first page as returned to Load, or NoAddr
  refusals    \* mmap calls refused so far

vars == <<owner, active, mmapLock, mapperLock, pc, seg, taken, candidates, addr, refusals>>
locks == <<mmapLock, mapperLock>>

Working == {"acquire", "locked", "map", "register", "far", "farForget", "munmap", "forget"}
PCs == Working \cup {"new", "loaded", "failed", "unloaded"}

TypeOK ==
  /\ owner \in [Page -> {Free, Host, Outside} \cup Mapping]
  /\ active \subseteq Page \X Page
  /\ mmapLock \in Loaders \cup {NoLoader} /\ mapperLock \in Loaders \cup {NoLoader}
  /\ pc \in [Loaders -> PCs]
  /\ seg \in [Loaders -> Segments]
  /\ taken \in [Loaders -> SUBSET Page] /\ candidates \in [Loaders -> SUBSET Page]
  /\ addr \in [Mapping -> Page \cup {NoAddr}]
  /\ refusals \in 0 .. MaxRefusals

Init ==
  /\ owner = [p \in Page |-> IF p \in HostPages THEN Host ELSE Free]
  /\ active = {}
  /\ mmapLock = NoLoader /\ mapperLock = NoLoader
  /\ pc = [l \in Loaders |-> "new"] /\ seg = [l \in Loaders |-> "code"]
  /\ taken = [l \in Loaders |-> {}] /\ candidates = [l \in Loaders |-> {}]
  /\ addr = [m \in Mapping |-> NoAddr]
  /\ refusals = 0

Goto(l, label) == pc' = [pc EXCEPT ![l] = label]
Current(l) == <<l, seg[l]>>

\* roundPageUp of an aligned size adds a page.
Length(s) == Pages[s] + 1
Span(first, s) == first .. first + Length(s) - 1

\* getCurrentProcMaps: the pages of the ranges in /proc/self/maps.
CurrentProcMaps == {p \in Page : owner[p] # Free}

\* The gaps between neighbouring mappings: roundPageUp leaves a page free
\* after the first of them.  A gap of touching mappings has a negative size.
Gaps(mapped) ==
  {g \in [start : Page, end : mapped] :
     /\ g.start - 2 \in mapped /\ g.end > g.start - 2
     /\ \A q \in g.start - 1 .. g.end - 1 : q \notin mapped}

Suitable(mapped, n) ==
  {g \in Gaps(mapped) : g.start > FirstModule /\ g.end - g.start >= n}

\* Mutant: the end of a gap is not looked at.
Addresses_PastTheEnd(mapped, n) ==
  {a \in Page : \E g \in Suitable(mapped, n) :
     a >= g.start /\ a <= g.end /\ (a - g.start) % n = 0}

\* The addresses that AcquireMapping tries, in steps of the length wanted.
Addresses(mapped, n) ==
  {a \in Page : \E g \in Suitable(mapped, n) :
     a >= g.start /\ a + n < g.end /\ (a - g.start) % n = 0}

Last(m) == addr[m] + Length(m[2]) - 1

FarAway(m) == Last(m) - FirstModule > Reach

WithoutKey(last) == {r \in active : r[2] # last}

------------------------------------------------------------------------------
\* Load starts, or goes on with its second segment.
StartLoad(l) ==
  /\ pc[l] = "new"
  /\ Goto(l, "acquire")
  /\ UNCHANGED <<owner, active, locks, seg, taken, candidates, addr, refusals>>

\* Mutant: the lock is not waited for.
Lock_Ignored(l) ==
  /\ pc[l] = "acquire"
  /\ mmapLock' = l
  /\ Goto(l, "locked")
  /\ UNCHANGED <<owner, active, mapperLock, seg, taken, candidates, addr, refusals>>

Lock(l) ==
  /\ pc[l] = "acquire" /\ mmapLock = NoLoader
  /\ mmapLock' = l
  /\ Goto(l, "locked")
  /\ UNCHANGED <<owner, active, mapperLock, seg, taken, candidates, addr, refusals>>

\* Mutant: the length is rounded up once more.
ReadMap_RoundsTwice(l) ==
  LET mapped == CurrentProcMaps IN
  /\ pc[l] = "locked"
  /\ taken' = [taken EXCEPT ![l] = mapped]
  /\ candidates' = [candidates EXCEPT ![l] = Addresses(mapped, Length(seg[l]) + 1)]
  /\ Goto(l, "map")
  /\ UNCHANGED <<owner, active, locks, seg, addr, refusals>>

\* findNextFreeAddressesAfterTarget
ReadMap(l) ==
  LET mapped == CurrentProcMaps IN
  /\ pc[l] = "locked"
  /\ taken' = [taken EXCEPT ![l] = mapped]
  /\ candidates' = [candidates EXCEPT ![l] = Addresses(mapped, Length(seg[l]))]
  /\ Goto(l, "map")
  /\ UNCHANGED <<owner, active, locks, seg, addr, refusals>>

\* No address is left: AcquireMapping and with it Load return an error.  A code
\* segment that is already there stays.
GiveUp(l) ==
  /\ pc[l] = "map" /\ candidates[l] = {}
  /\ mmapLock' = NoLoader
  /\ Goto(l, "failed")
  /\ UNCHANGED <<owner, active, mapperLock, seg, taken, candidates, addr, refusals>>

\* mmap with MAP_FIXED at the next address.
Map(l) ==
  /\ pc[l] = "map"
  /\ \E a \in candidates[l] :
       /\ \A b \in candidates[l] : a <= b
       /\ owner' = [p \in Page |-> IF p \in Span(a, seg[l]) THEN Current(l) ELSE owner[p]]
       /\ addr' = [addr EXCEPT ![Current(l)] = a]
  /\ Goto(l, "register")
  /\ UNCHANGED <<active, locks, seg, taken, candidates, refusals>>

Refuse(l) ==
  /\ pc[l] = "map" /\ refusals < MaxRefusals
  /\ \E a \in candidates[l] :
       /\ \A b \in candidates[l] : a <= b
       /\ candidates' = [candidates EXCEPT ![l] = @ \ {a}]
  /\ refusals' = refusals + 1
  /\ UNCHANGED <<owner, active, locks, pc, seg, taken, addr>>

\* Mutant: the lock of mapper is not taken.
Register_Unlocked(l) ==
  LET m == Current(l)
      far == FarAway(m) IN
  /\ pc[l] = "register"
  /\ active' = WithoutKey(Last(m)) \cup {<<addr[m], Last(m)>>}
  /\ mmapLock' = IF far THEN mmapLock ELSE NoLoader
  /\ Goto(l, IF far THEN "far" ELSE IF seg[l] = "code" THEN "acquire" ELSE "loaded")
  /\ seg' = [seg EXCEPT ![l] = IF far THEN @ ELSE "data"]
  /\ UNCHANGED <<owner, mapperLock, taken, candidates, addr, refusals>>

\* The mapping is entered in mapper.active; AcquireMapping then measures how far
\* its last byte is, and returns it to Load when it is within reach.
Register(l) ==
  LET m == Current(l)
      far == FarAway(m) IN
  /\ pc[l] = "register" /\ mapperLock = NoLoader
  /\ active' = WithoutKey(Last(m)) \cup {<<addr[m], Last(m)>>}
  /\ mmapLock' = IF far THEN mmapLock ELSE NoLoader
  /\ Goto(l, IF far THEN "far" ELSE IF seg[l] = "code" THEN "acquire" ELSE "loaded")
  /\ seg' = [seg EXCEPT ![l] = IF far THEN @ ELSE "data"]
  /\ UNCHANGED <<owner, mapperLock, taken, candidates, addr, refusals>>

\* Munmap: the system call, and the delete that follows it under the same lock.
\* A mapping that is too far is unmapped under mmapLock, and Load gets an error.
Unmap(l) ==
  LET m == Current(l) IN
  /\ pc[l] \in {"far", "munmap"} /\ mapperLock = NoLoader
  /\ <<addr[m], Last(m)>> \in active
  /\ owner' = [p \in Page |-> IF p \in Span(addr[m], seg[l]) THEN Free ELSE owner[p]]
  /\ mapperLock' = l
  /\ Goto(l, IF pc[l] = "far" THEN "farForget" ELSE "forget")
  /\ UNCHANGED <<active, mmapLock, seg, taken, candidates, addr, refusals>>

Forget(l) ==
  LET m == Current(l) IN
  /\ pc[l] \in {"farForget", "forget"}
  /\ active' = WithoutKey(Last(m))
  /\ addr' = [addr EXCEPT ![m] = NoAddr]
  /\ mapperLock' = NoLoader
  /\ IF pc[l] = "farForget"
       THEN mmapLock' = NoLoader /\ seg' = seg /\ Goto(l, "failed")
       ELSE /\ mmapLock' = mmapLock
            /\ seg' = [seg EXCEPT ![l] = "data"]
            /\ Goto(l, IF seg[l] = "code" THEN "munmap" ELSE "unloaded")
  /\ UNCHANGED <<owner, taken, candidates, refusals>>

\* Unload, or the error path of Load: both segments are unmapped, code first.
StartRelease(l) ==
  /\ pc[l] = "loaded"
  /\ seg' = [seg EXCEPT ![l] = "code"]
  /\ Goto(l, "munmap")
  /\ UNCHANGED <<owner, active, locks, taken, candidates, addr, refusals>>

\* Other code of the process: its mmap takes free pages only.
OutsideMap ==
  \E p \in Page :
    /\ owner[p] = Free /\ Cardinality({q \in Page : owner[q] = Outside}) < MaxOutside
    /\ owner' = [owner EXCEPT ![p] = Outside]
    /\ UNCHANGED <<active, locks, pc, seg, taken, candidates, addr, refusals>>

OutsideUnmap ==
  \E p \in Page :
    /\ owner[p] = Outside
    /\ owner' = [owner EXCEPT ![p] = Free]
    /\ UNCHANGED <<active, locks, pc, seg, taken, candidates, addr, refusals>>

Acquire(l) == StartLoad(l) \/ Lock(l) \/ ReadMap(l) \/ GiveUp(l) \/ Map(l) \/ Refuse(l) \/ Register(l)
Release(l) == StartRelease(l) \/ Unmap(l) \/ Forget(l)

Done == \A l \in Loaders : pc[l] \in {"failed", "unloaded"}

Next ==
  \/ \E l \in Loaders : Acquire(l) \/ Release(l)
  \/ OutsideMap \/ OutsideUnmap
  \/ Done /\ UNCHANGED vars

Spec == Init /\ [][Next]_vars

------------------------------------------------------------------------------
\* The mappings that goloader has: mapped, and not yet unmapped.
Held(m) == addr[m] # NoAddr /\ ~(m = Current(m[1]) /\ pc[m[1]] \in {"forget", "farForget"})

\* A mapping keeps all of its pages, its guard page included, until its own
\* Munmap: no other Load, working from its own reading of the map, maps over it.
HeldStaysMapped ==
  \A m \in Mapping : Held(m) => \A p \in Span(addr[m], m[2]) : owner[p] = m

\* MAP_FIXED hits pages of others only when they were mapped after the map of the
\* process was read: the race that the comment at manager.go:59 accepts, and no
\* more than that.
ReplacesOnlyUnseen ==
  [][\A p \in Page : \A m \in Mapping :
       owner'[p] = m /\ owner[p] \notin {m, Free}
         => owner[p] = Outside /\ p \notin taken[m[1]]]_vars

\* mapper.active holds exactly the mappings that are held and registered, so a
\* Munmap never fails with EINVAL, even when a range is mapped anew while another
\* goroutine is between munmap and the delete.
ActiveIsHeld ==
  active = {<<addr[m], Last(m)>> :
              m \in {m \in Mapping : addr[m] # NoAddr
                       /\ ~(pc[m[1]] = "register" /\ seg[m[1]] = m[2])}}

\* Mappings are within reach of the host once Load has them.
LoadedWithinReach ==
  \A l \in Loaders : pc[l] \in {"loaded", "munmap", "forget"} =>
    \A s \in Segments : addr[<<l, s>>] # NoAddr => Last(<<l, s>>) <= FirstModule + Reach

\* AcquireMapping gives up only when it had to: the kernel refused an address, or
\* no run of pages after the first module and within reach was free by more than
\* the three pages that rounding and the strict comparison cost.
GivesUpOnlyWithoutRoom ==
  \A l \in Loaders : pc[l] = "failed" /\ refusals = 0 =>
    ~\E p \in Page :
        LET run == p .. p + Length(seg[l]) + 1 IN
        /\ p > FirstModule /\ \A q \in run : q <= FirstModule + Reach /\ q \notin taken[l]
=============================================================================

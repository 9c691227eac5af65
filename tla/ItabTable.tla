------------------------------- MODULE ItabTable -------------------------------
(***************************************************************************)
(* The runtime's table of itabs and what Load and Unload do to it          *)
(* (iface.1.10.go).  The table is open addressed: an itab sits at the      *)
(* first free entry of the probe sequence of its (interface, type) pair,   *)
(* and a lookup gives up at the first free entry.  The runtime itself      *)
(* never removes an itab; removeitabs frees the entries of a module.       *)
(*                                                                         *)
(* The runtime's lookup and insertion are external code, modelled from     *)
(* Go's runtime as additabs and removeitabs rely on it; each runs under    *)
(* itabLock, so it is one step.  The table does not grow here: Size is     *)
(* chosen so that it never gets full.                                      *)
(***************************************************************************)
EXTENDS Integers, FiniteSets, SequencesExt

CONSTANTS
  Size,        \* entries of the table, a power of two
  Pairs,       \* the (interface, type) pairs
  Home,        \* the hash of each pair
  Modules,     \* the CodeModules
  Links,       \* per module, the pairs of its itablinks
  InterOwner,  \* per pair, the module whose memory holds its interface type, or Host
  TypeOwner,   \* and the one whose memory holds its concrete type
  HostPairs,   \* pairs of the itabs that the host's binary has
  Host, Heap,  \* where an itab lives when not in a module
  Nil

Positions == 0 .. Size - 1
Owners(p) == {InterOwner[p], TypeOwner[p]}
Itabs == [pair : Pairs, in : Modules \cup {Host, Heap}]

ASSUME ConstantsAssumption ==
  /\ Size \in Nat \ {0}
  /\ Home \in [Pairs -> Positions]
  /\ Links \in [Modules -> Seq(Pairs)]
  /\ InterOwner \in [Pairs -> Modules \cup {Host}]
  /\ TypeOwner \in [Pairs -> Modules \cup {Host}]
  /\ HostPairs \in Seq(Pairs)
  \* A module's itablinks name types of its own and of the host. Only the runtime
  \* makes an itab of one module's interface and another's type.
  /\ \A m \in Modules : \A p \in ToSet(Links[m]) : Owners(p) \subseteq {m, Host}
  /\ \A p \in ToSet(HostPairs) : Owners(p) = {Host}
  /\ Host \notin Modules /\ Heap \notin Modules /\ Host # Heap
  /\ Nil \notin Itabs

VARIABLES
  entries,  \* the table
  count,    \* its number of filled entries, as the runtime keeps it
  loaded,   \* the loaded modules, oldest first
  orderly   \* TRUE: modules are unloaded newest first, and no type assertion needs
            \* an itab that is not there; chosen once

vars == <<entries, count, loaded, orderly>>

TypeOK ==
  /\ entries \in [Positions -> Itabs \cup {Nil}]
  /\ count \in Int
  /\ loaded \in Seq(Modules)
  /\ orderly \in BOOLEAN

\* The i-th entry that a lookup of a pair looks at.
Probe(p, i) == (Home[p] + (i * (i + 1)) \div 2) % Size

\* The runtime chooses a size for which the sequence gets to every entry, and makes
\* the table larger before it is full.
ASSUME SizeAssumption ==
  /\ \A p \in Pairs : \A k \in Positions : \E i \in Positions : Probe(p, i) = k
  /\ Len(HostPairs) < Size

\* The number of the first probe that stops at S or at a free entry; Size when
\* there is none.
Stop(table, p, S) ==
  LET stops == {i \in Positions : table[Probe(p, i)] \in S \cup {Nil}}
  IN IF stops = {} THEN Size ELSE CHOOSE i \in stops : \A j \in stops : i <= j

\* The itab that a lookup returns, Nil when it gives up.
Find(table, p) ==
  LET i == Stop(table, p, {m \in Itabs : m.pair = p})
  IN IF i = Size THEN Nil ELSE table[Probe(p, i)]

\* itabAdd: an itab that is met on the way is not added again.
Insert(table, m) ==
  LET i == Stop(table, m.pair, {m})
  IN IF i = Size THEN table ELSE [table EXCEPT ![Probe(m.pair, i)] = m]

InsertAll(table, pairs, where) ==
  LET after[n \in 0 .. Len(pairs)] ==
        IF n = 0 THEN table ELSE Insert(after[n - 1], [pair |-> pairs[n], in |-> where])
  IN after[Len(pairs)]

Filled(table) == Cardinality({i \in Positions : table[i] # Nil})

Init ==
  /\ entries = InsertAll([i \in Positions |-> Nil], HostPairs, Host)
  /\ count = Filled(entries)
  /\ loaded = <<>>
  /\ orderly \in BOOLEAN

\* A type assertion, in the host or in a loaded module: getitab looks the pair
\* up and makes a new itab when the lookup gives up. A module of which Unload has
\* begun is no longer in use.
GetItab(p) ==
  /\ ~orderly
  /\ Owners(p) \subseteq ToSet(loaded) \cup {Host}
  /\ Find(entries, p) = Nil
  /\ count < Size - 1
  /\ entries' = Insert(entries, [pair |-> p, in |-> Heap])
  /\ count' = count + Filled(entries') - Filled(entries)
  /\ UNCHANGED <<loaded, orderly>>

\* additabs
AddItabs(m) ==
  /\ m \notin ToSet(loaded)
  /\ count + Len(Links[m]) < Size
  /\ entries' = InsertAll(entries, Links[m], m)
  /\ count' = count + Filled(entries') - Filled(entries)
  /\ loaded' = Append(loaded, m)
  /\ UNCHANGED orderly

InTurn(m) == orderly => m = Last(loaded)

\* Mutant: the interface of an itab is not looked at.
OfModule_TypeOnly(m, e) == e # Nil /\ (e.in = m \/ TypeOwner[e.pair] = m)

\* Mutant: itabs are matched by what they stand for.
OfModule_ByPair(m, e) == e # Nil /\ e.pair \in ToSet(Links[m])

\* An itab goes when it, its interface or its type lies in the module's memory.
OfModule(m, e) == e # Nil /\ (e.in = m \/ InterOwner[e.pair] = m \/ TypeOwner[e.pair] = m)

\* removeitabs: every entry of the module is freed where it stands.
RemoveItabs(m) ==
  /\ m \in ToSet(loaded) /\ InTurn(m)
  /\ entries' = [i \in Positions |-> IF OfModule(m, entries[i]) THEN Nil ELSE entries[i]]
  /\ count' = count - Cardinality({i \in Positions : OfModule(m, entries[i])})
  /\ \E k \in DOMAIN loaded : loaded[k] = m /\ loaded' = RemoveAt(loaded, k)
  /\ UNCHANGED orderly

Next ==
  \/ \E p \in Pairs : GetItab(p)
  \/ \E m \in Modules : AddItabs(m) \/ RemoveItabs(m)

Spec == Init /\ [][Next]_vars

(***************************************************************************)
(* Properties                                                              *)
(***************************************************************************)

\* The table never refers to memory of a module that has been unloaded, not even
\* through an itab that the runtime made for one of the module's types, the other
\* of which may be another module's.
NoItabOfUnloaded ==
  \A i \in Positions :
    entries[i] # Nil =>
      {entries[i].in} \cup Owners(entries[i].pair) \subseteq ToSet(loaded) \cup {Host, Heap}

\* Whatever modules are loaded and unloaded, and whatever the runtime adds in
\* between, a lookup of a pair for which the host's binary has an itab gives that
\* very itab: freeing entries does not cut the host's probe sequences.  No lookup at
\* all gives up although the table holds an itab for the pair, as long as modules
\* are unloaded newest first and the runtime adds no itab of its own: in any other
\* order the entry that removeitabs frees in the middle of a probe sequence hides
\* what comes after, and the runtime makes a second itab for the pair.
EveryItabFound ==
  /\ \A p \in ToSet(HostPairs) : Find(entries, p) = [pair |-> p, in |-> Host]
  /\ orderly => \A i \in Positions : entries[i] # Nil => Find(entries, entries[i].pair) # Nil
================================================================================

---------------------------- MODULE SymbolBinding ----------------------------
(***************************************************************************)
(* Binding a module to the program that loads it: addSymbolMap, relocate,  *)
(* deduplicateTypeDescriptors and buildExports of ld.go and relocate.go.   *)
(*                                                                         *)
(* A module brings its own copy of much of what the program has already.   *)
(* Every place in its code and data that holds an address is filled in     *)
(* with the address of the program's copy or of the module's own, as       *)
(* relocate decides from two tables; the places that hold types are then   *)
(* filled in again, once types can be compared.  Both go through the       *)
(* symbols in the order of a map.  Methods that the program's types lack   *)
(* are patched on the way (TypeMethodPatch).                               *)
(*                                                                         *)
(* Of the module, whose symbols are all reachable, this reads also         *)
(*   symbols  by name:                                                     *)
(*              pkg      the package it was compiled in                    *)
(*              class    of a type, what typesEqual compares               *)
(*              type     the name of a variable's type, or NoName          *)
(*   skip     SkipTypeDeduplicationForPackages                             *)
(*   exports  the exported symbols, each with the name of its type         *)
(***************************************************************************)
EXTENDS SymbolRegistry, DataLayout

CONSTANTS Hosts, Modules

VARIABLES
  symbolMap,   \* symbolMap, without the entries of the program's copies
  firstModule, \* those: symbolMap[FirstModulePrefix + name]
  places,      \* what each place holds
  itablinks,   \* the itabs that the module adds to the runtime's table
  pending,     \* the places that the pass has still to fill in
  deduped,     \* deduplicatedTypes
  exports,     \* SymbolsByPkg
  phase

vars == <<registryVars, layoutVars, symbolMap, firstModule, places, itablinks,
          pending, deduped, exports, phase>>
tables == <<symbolMap, firstModule>>

Own(name) == <<"module", name[1], name[2]>>
IsOwn(addr) == addr[1] = "module"

Main == <<"main">>

Unstarred(text) ==
  LET stars == {i \in DOMAIN text : \A j \in 1 .. i : text[j] = "*"}
  IN SubSeq(text, Cardinality(stars) + 1, Len(text))

IsType(name) == name[1] = "type"
IsVariant(name) == IsType(name) /\ Variant(name[2]) # <<>>
IsItab(name) == name[1] = "itab"
IsText(name) == name[1] = "func"
Places(m) == UNION {{s} \X DOMAIN m.symbols[s].refs : s \in DOMAIN m.symbols}
Target(p) == Symbol(p[1]).refs[p[2]]

\* The ways in which the code asks whether a package is skipped: by the beginning
\* of a name, of an itab's behind the stars of its type, and by the package.
SkippedByName(name) == \E pkg \in module.skip : IsPrefix(pkg, name[2])
SkippedItab(name) == \E pkg \in module.skip : IsPrefix(pkg, Unstarred(name[2]))
SkippedByPackage(name) == Symbol(name).pkg \in module.skip

\* Types are kept until they can be compared, and so is what main has, for
\* every program has a main.
IsKeptFirst(name) ==
  IsType(name) \/ IsPrefix(Main \o <<".">>, name[2]) \/ name = InitTask(Main)

\* A Go map yields zero for what it does not have.
Lookup(table, name) == IF name \in DOMAIN table THEN table[name] ELSE Zero

------------------------------------------------------------------------------
\* What the linker takes for granted of programs and modules.

\* The first reference of an itab is to its type.  What a module exports is no itab, and
\* of some type.
IsModule(m) ==
  /\ \A n \in DOMAIN m.symbols :
       /\ IsPair(n)
       /\ IsItab(n) => m.symbols[n].refs # <<>> /\ IsType(m.symbols[n].refs[1])
  /\ \A e \in m.exports :
       {e.symbol, e.type} \subseteq DOMAIN m.symbols /\ ~IsItab(e.symbol) /\ IsType(e.type)

\* A package that is skipped is brought whole or not at all, init tasks are named for
\* their packages, and only what is in main is named as if it were.
PackagesAreBrought(m) ==
  \A n \in {n \in DOMAIN m.symbols : n[1] \in {"func", "var", "init"}} :
    /\ \A o \in DOMAIN m.symbols :
         o[1] \in {"func", "var", "init"} /\ m.symbols[o].pkg = m.symbols[n].pkg
         /\ m.symbols[n].pkg \in m.skip => m.symbols[o].defined = m.symbols[n].defined
    /\ n[1] = "init" => n[2] = m.symbols[n].pkg
    /\ n[1] = "var" /\ IsPrefix(Main \o <<".">>, n[2]) => m.symbols[n].pkg = Main

\* The name of an itab begins with the package of its type but for its stars: its type
\* has a name, or is a pointer to one that has.
ItabsAreNamed(h) == \A i \in DOMAIN h.itabs : IsPrefix(h.types[h.itabs[i]].pkg, Unstarred(i[2]))

\* Names fail for two types of the program that go by one name, as types local to
\* functions do; for an interface of the program with an unexported method,
\* the package of which is left out of the name made; and for a struct of the module
\* with a field of a local type, the number of which is not found.
NamesFailIn(h, m) ==
  \/ \E t, u \in DOMAIN h.types : t # u /\ NameIn(h, t) = NameIn(h, u)
  \/ \E t \in Hashed(h) :
       /\ h.types[t].kind = "interface"
       /\ \E i \in DOMAIN h.types[t].methods : ~h.types[t].methods[i].exported
  \/ \E n \in DOMAIN m.symbols :
       IsType(n) /\ IsPrefix(Struct, n[2]) /\ \E i \in DOMAIN n[2] : IsNumber(n[2][i])

\* Otherwise the name made for a type is that of the module's symbol which equals it,
\* without number and mark, and of the symbols that the module does not define.
NamesAreMade(h, m) ==
  \A n \in {n \in DOMAIN m.symbols : IsType(n)}, t \in DOMAIN h.types :
    LET same == h.types[t].class = m.symbols[n].class IN
    /\ same /\ t \in Hashed(h) => NameIn(h, t) = IF IsVariant(n) THEN <<"type", Variant(n[2])>> ELSE n
    /\ NameIn(h, t) = n => ~IsVariant(n) /\ (m.symbols[n].defined \/ same)

ASSUME HostsAssumption ==
  \A h \in Hosts : IsProgram(h) /\ PackagesAreRead(h) /\ ItabsAreNamed(h)

ASSUME ModulesAssumption ==
  \A m \in Modules : IsLinkable(m) /\ IsModule(m) /\ PackagesAreBrought(m)

ASSUME NamesAssumption ==
  \A h \in Hosts, m \in Modules : NamesFailIn(h, m) \/ NamesAreMade(h, m)

------------------------------------------------------------------------------
Init ==
  /\ RegistryInit(Hosts)
  /\ LayoutInit(Modules)
  /\ symbolMap = <<>> /\ firstModule = <<>>
  /\ places = [p \in Places(module) |-> Zero]
  /\ itablinks = <<>> /\ pending = {} /\ deduped = <<>> /\ exports = {}
  /\ phase = "registering"

others == <<tables, places, itablinks, pending, deduped, exports, phase>>

\* (Bound: RegTypes is called before the linker starts.)
Register ==
  /\ phase = "registering" /\ offsets = <<>>
  /\ RegistryNext
  /\ UNCHANGED <<layoutVars, others>>

Registered == stage = "registered" /\ todo = <<>>

\* The linker reads and places the symbols, Load binds them.
Place ==
  /\ phase = "registering" /\ Registered
  /\ LayoutNext
  /\ UNCHANGED <<registryVars, others>>

------------------------------------------------------------------------------
\* addSymbolMap

KeepsItsOwn(name) ==
  /\ Symbol(name).defined
  /\ \/ name \notin DOMAIN symPtr
     \/ IsText(name) \/ IsKeptFirst(name)
     \/ SkippedByName(name)

\* The program has it too, and the module may have to use that.
IsDuplicate(name) ==
  /\ name \in DOMAIN symPtr
  /\ \/ ~Symbol(name).defined
     \/ IsItab(name) \/ IsText(name) \/ IsKeptFirst(name)
     \/ ~SkippedByName(name)

Originals ==
  LET names == DOMAIN module.symbols
      original(n) == IF n \in DOMAIN symPtr THEN n ELSE <<n[1], Variant(n[2])>>
  IN [n \in {n \in names : \/ IsDuplicate(n)
                           \/ IsVariant(n) /\ n \notin DOMAIN symPtr /\ original(n) \in DOMAIN symPtr}
        |-> symPtr[original(n)]]

\* An itab that the program has not is left out.
AddSymbolMap ==
  /\ phase = "registering" /\ Registered /\ roots = <<>> /\ calls = <<>>
  /\ IF \E n \in DOMAIN module.symbols : ~Symbol(n).defined /\ n \notin DOMAIN symPtr
     THEN phase' = "failed" /\ UNCHANGED <<tables, pending>>
     ELSE /\ symbolMap' = [n \in {n \in DOMAIN module.symbols : IsItab(n) => n \in DOMAIN symPtr}
                             |-> IF ~IsItab(n) /\ KeepsItsOwn(n) THEN Own(n) ELSE symPtr[n]]
          /\ firstModule' = Originals
          /\ pending' = Places(module)
          /\ phase' = "relocating"
  /\ UNCHANGED <<registryVars, layoutVars, places, itablinks, deduped, exports>>

------------------------------------------------------------------------------
\* The places of a pass are gone through symbol by symbol, in any order, and
\* within a symbol one after the other.
IsNext(p, all) ==
  /\ \A q \in pending : q[1] = p[1] => p[2] <= q[2]
  /\ \A q \in all \ pending : q[1] # p[1] => \A r \in pending : r[1] # q[1]

\* What a place is filled in with first.
\* Mutant: the program's copy is used whatever is skipped.
Bound_NeverSkips(name) ==
  IF name \in DOMAIN firstModule /\ ~IsType(name)
  THEN firstModule[name] ELSE Lookup(symbolMap, name)

Bound(name) ==
  IF name \in DOMAIN firstModule /\ ~IsType(name) /\ ~SkippedByPackage(name)
  THEN firstModule[name] ELSE Lookup(symbolMap, name)

NeedsItab(name) == IsItab(name) /\ (Bound(name) = Zero \/ SkippedItab(name))

\* Mutant: an itab made is not entered in the map.
Relocate_Unmapped(p) ==
  /\ phase = "relocating" /\ p \in pending /\ IsNext(p, Places(module))
  /\ LET name == Target(p) IN
     IF NeedsItab(name)
     THEN /\ places' = [places EXCEPT ![p] = Own(name)]
          /\ itablinks' = Append(itablinks, name)
     ELSE places' = [places EXCEPT ![p] = Bound(name)] /\ UNCHANGED itablinks
  /\ pending' = pending \ {p}
  /\ UNCHANGED <<registryVars, layoutVars, tables, deduped, exports, phase>>

\* The first place of an itab that the program has not finds no address, and
\* the module's own is entered in the map and listed.
Relocate(p) ==
  /\ phase = "relocating" /\ p \in pending /\ IsNext(p, Places(module))
  /\ LET name == Target(p) IN
     IF NeedsItab(name)
     THEN /\ places' = [places EXCEPT ![p] = Own(name)]
          /\ symbolMap' = Put(symbolMap, name, Own(name))
          /\ itablinks' = Append(itablinks, name)
     ELSE places' = [places EXCEPT ![p] = Bound(name)] /\ UNCHANGED <<symbolMap, itablinks>>
  /\ pending' = pending \ {p}
  /\ UNCHANGED <<registryVars, layoutVars, firstModule, deduped, exports, phase>>

------------------------------------------------------------------------------
\* deduplicateTypeDescriptors

OwnTypes == {p \in Places(module) : IsType(Target(p)) /\ Symbol(Target(p)).defined}

\* generategcdata: the module's own variables that may hold pointers but have no type, as
\* those of assembly, which the load fails for.  Those of C, the names of which have no dot, are
\* let pass.
Untyped ==
  {n \in DOMAIN offsets : /\ Symbol(n).kind \in {"data", "bss"} /\ symbolMap[n] = Own(n)
                          /\ Symbol(n).type = NoName /\ "." \in Range(n[2])}

\* The module is published, and types can be compared.
BuildModule ==
  /\ phase = "relocating" /\ pending = {}
  /\ IF Untyped # {}
     THEN phase' = "untyped" /\ UNCHANGED pending
     ELSE phase' = "deduplicating" /\ pending' = OwnTypes
  /\ UNCHANGED <<registryVars, layoutVars, tables, places, itablinks, deduped, exports>>

Equals(name) == {t \in Hashed(host) : host.types[t].class = Symbol(name).class}

\* The first of them in the table of types, which is built once.
Candidate(name) == CHOOSE t \in Equals(name) : TRUE

\* The program's type is used if it equals the module's.  The last way to ask
\* for a package to be skipped: by that of the program's type.
Deduplicate(p) ==
  /\ phase = "deduplicating" /\ p \in pending /\ IsNext(p, OwnTypes)
  /\ LET name == Target(p) IN
     IF Equals(name) = {}
     THEN UNCHANGED <<places, deduped, phase>>
     ELSE LET t == Candidate(name) IN
          IF HostType(t) # Lookup(firstModule, name) /\ ~IsVariant(name)
          THEN phase' = "panic" /\ UNCHANGED <<places, deduped>>
          ELSE /\ deduped' = Put(deduped, name, HostType(t))
               /\ places' = IF host.types[t].pkg \in module.skip THEN places
                            ELSE [places EXCEPT ![p] = HostType(t)]
               /\ UNCHANGED phase
  /\ pending' = pending \ {p}
  /\ UNCHANGED <<registryVars, layoutVars, tables, itablinks, exports>>

------------------------------------------------------------------------------
\* buildExports

\* Mutant: the program's type of that name is exported without comparing.
ExportedType_ByName(name) ==
  IF name \in DOMAIN deduped THEN deduped[name] ELSE
  IF name \in DOMAIN firstModule THEN firstModule[name] ELSE symbolMap[name]

ExportedType(name) ==
  LET equal == {t \in DOMAIN host.types : /\ Lookup(firstModule, name) = HostType(t)
                                          /\ host.types[t].class = Symbol(name).class}
  IN IF name \in DOMAIN deduped THEN deduped[name] ELSE
     IF equal # {} THEN firstModule[name] ELSE symbolMap[name]

BuildExports ==
  /\ phase = "deduplicating" /\ pending = {}
  /\ exports' = {[symbol |-> e.symbol, addr |-> symbolMap[e.symbol],
                  typeName |-> e.type, type |-> ExportedType(e.type)] : e \in module.exports}
  /\ phase' = "loaded"
  /\ UNCHANGED <<registryVars, layoutVars, tables, places, itablinks, pending, deduped>>

------------------------------------------------------------------------------
Next ==
  \/ Register
  \/ Place
  \/ AddSymbolMap
  \/ \E p \in pending : Relocate(p)
  \/ BuildModule
  \/ \E p \in pending : Deduplicate(p)
  \/ BuildExports

Spec == Init /\ [][Next]_vars

------------------------------------------------------------------------------
(***************************************************************************)
(* Properties.                                                             *)
(***************************************************************************)
Loaded == phase = "loaded"

ClassOf(name) == Symbol(name).class
Pointing(kind) == {p \in Places(module) : Target(p)[1] = kind}

\* The program's types of the class, and whether the walk over the type links
\* comes by them: only those are compared with.
InProgram(class) == {t \in DOMAIN host.types : host.types[t].class = class}
IsComparable(class) == InProgram(class) \subseteq Hashed(host)
IsSkipped(class) == \E t \in InProgram(class) : host.types[t].pkg \in module.skip

NamesFail == NamesFailIn(host, module)

\* Type assertions compare addresses.  In a module that is loaded every place
\* and every export that names a type which the program has too, outside of the
\* packages skipped, holds the program's; one that it has not, or that equals
\* none of the same name, is the same own one for all of them.  Types are
\* registered by the names that are made for them but compared by structure: the
\* panic over a type "that wasn't registered by goloader" stays away unless names fail,
\* and so does a wrong type where the module has none to compare with, or the code none
\* that it uses but what is exported.
TypesAgree ==
  /\ Loaded =>
       LET used == {<<Target(p), places[p]>> : p \in Pointing("type")}
                   \cup {<<e.typeName, e.type>> : e \in exports}
           compared(n) == /\ Symbol(n).defined
                          /\ InProgram(ClassOf(n)) = {} \/ \E p \in Places(module) : Target(p) = n
       IN \A u \in used :
            LET class == ClassOf(u[1]) IN
            IsComparable(class) /\ ~IsSkipped(class) /\ (NamesFail => compared(u[1])) =>
              u[2] \in IF InProgram(class) = {} THEN {Own(u[1])}
                       ELSE {HostType(t) : t \in InProgram(class)}
  /\ phase = "panic" => NamesFail

\* The itabs that are handed to the runtime's table, and taken from it by
\* Unload, are those of the module that some place uses: none of the program's,
\* none missing, and none twice unless its package is skipped.  No place is left
\* with no itab at all.
ItablinksExact ==
  LET used == {places[p] : p \in Pointing("itab")} IN
  /\ Zero \notin used
  /\ {Own(n) : n \in Range(itablinks)} = {a \in used : IsOwn(a)}
  /\ \A n \in Range(itablinks) :
       SkippedItab(n) \/ Cardinality({i \in DOMAIN itablinks : itablinks[i] = n}) = 1

\* Besides, the type within an itab that the code uses, the module's own, is the type
\* that the code compares with, whichever packages are skipped and whatever the order
\* of the passes; and so is the type within the program's, if that is the program's only
\* one that equals the module's and not found by a name that fails.  An itab is taken for
\* the program's by its name, and types are compared: where the module brings another
\* version of a type without skipping its package, itabs are for the one and the code
\* has the other.
ItabsAgree ==
  Loaded =>
    /\ ItablinksExact
    /\ \A i \in Pointing("itab"), p \in Pointing("type") :
         LET itab == Target(i)
             type == Symbol(itab).refs[1]
             its == host.itabs[itab]
             isOnly == /\ its \in Hashed(host) /\ InProgram(ClassOf(type)) = {its}
                       /\ NamesFail => Symbol(type).defined
         IN Target(p) = type =>
              IF IsOwn(places[i]) THEN places[p] = places[<<itab, 1>>]
              ELSE isOnly => places[p] = HostType(its)

\* A package has its functions and variables of one program, and the task that
\* initialises it: the places that name those which the program has too are all
\* bound to the program's or all to the module's own, and exported variables are
\* those that the code uses.  A package that the program has any function of, whatever
\* the function's name looks like, is not initialised by the module unless skipped.
\* The packages that are skipped are asked for by the package in one pass and
\* by the beginning of the name in another: this is for where both say the same.
\* What main exports is the module's own though its code uses the program's.
PackagesAreWhole ==
  Loaded =>
    LET shared == {p \in Pointing("func") \cup Pointing("var") \cup Pointing("init") :
                     /\ Target(p) \in DOMAIN symPtr
                     /\ SkippedByName(Target(p)) <=> SkippedByPackage(Target(p))}
    IN /\ \A p, q \in shared :
            Symbol(Target(p)).pkg = Symbol(Target(q)).pkg
              => (IsOwn(places[p]) <=> IsOwn(places[q]))
       /\ \A e \in exports, p \in Pointing("var") :
            Target(p) = e.symbol /\ Symbol(e.symbol).pkg # Main => places[p] = e.addr
       /\ \A p \in Pointing("init"), f \in DOMAIN host.funcs :
            host.funcs[f] = Symbol(Target(p)).pkg /\ ~SkippedByName(Target(p)) => ~IsOwn(places[p])

==============================================================================

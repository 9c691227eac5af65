--------------------------- MODULE SymbolRegistry ---------------------------
(***************************************************************************)
(* What the program that loads knows of itself: register.go, RegTypes of   *)
(* type.go and the tables that the package jit shares.                     *)
(*                                                                         *)
(* symPtr gives the address of every symbol that a module may be bound to. *)
(* Types are found by walking the type links and what those types are      *)
(* built of, and get names made up of their packages and their own;        *)
(* functions come from the function table, variables and itabs from the    *)
(* file of the program.                                                    *)
(*                                                                         *)
(* The program is a record:                                                *)
(*   types  its types: what SymbolNames says of them, and class, the same  *)
(*          for types that typesEqual finds equal                          *)
(*   links  the types in its type links, in their order                    *)
(*   funcs  the names of its functions, each with the package it is of     *)
(*   data   the names of its variables and init tasks                      *)
(*   itabs  the names of its itabs, each with its type                     *)
(* A name is a pair of a kind and the name proper (SymbolNames); an        *)
(* address says whose it is.                                               *)
(***************************************************************************)
EXTENDS SymbolNames, GoMaps, FiniteSets

VARIABLES
  host,    \* the program that loads
  todo,    \* the types still to be registered, the next one first
  caller,  \* who registers them: the walk over the type links or RegTypes
  symPtr,  \* globalSymPtr
  pkgSet,  \* globalPkgSet
  stage    \* what has been registered

registryVars == <<host, todo, caller, symPtr, pkgSet, stage>>

Zero == <<"zero", "", <<>>>>
HostType(id) == <<"host", "type", id>>
HostSymbol(name) == <<"host", name[1], name[2]>>

InitTask(pkg) == <<"init", pkg>>

NameIn(h, t) == <<"type", Resolved(h.types)[t]>>
TypeName(t) == NameIn(host, t)

\* The types in the type hash of the program (buildModuleTypeHash): found by
\* their addresses, unlike registerType.
Hashed(h) ==
  LET within[n \in 0 .. Cardinality(DOMAIN h.types)] ==
        IF n = 0 THEN Range(h.links)
        ELSE within[n - 1] \cup UNION {Range(h.types[t].elems) : t \in within[n - 1]}
  IN within[Cardinality(DOMAIN h.types)]

\* What is known of every program: all its types are there, and its names are of
\* the kinds of what they name.
IsPair(name) == name = <<name[1], name[2]>> /\ name[2] \in Seq(STRING)

IsProgram(h) ==
  /\ IsFiniteSet(DOMAIN h.types)
  /\ h.links \in Seq(DOMAIN h.types)
  /\ \A t \in DOMAIN h.types : h.types[t].elems \in Seq(DOMAIN h.types)
  /\ \A f \in DOMAIN h.funcs : IsPair(f) /\ f[1] = "func"
  /\ \A d \in h.data : IsPair(d) /\ d[1] \in {"var", "init"}
  /\ \A i \in DOMAIN h.itabs : IsPair(i) /\ i[1] = "itab" /\ h.itabs[i] \in DOMAIN h.types

\* The packages of functions can be told by their names.
PackagesAreRead(h) == \A f \in DOMAIN h.funcs : FuncPkgPath(f[2]) = h.funcs[f]

------------------------------------------------------------------------------
RegistryInit(Hosts) ==
  /\ host \in Hosts
  /\ todo = host.links /\ caller = "typelinks"
  /\ symPtr = <<>> /\ pkgSet = {}
  /\ stage = "types"

\* registerType: a type whose name is taken is neither registered nor looked into.
RegisterType ==
  /\ todo # <<>>
  /\ LET t == host.types[Head(todo)]
         name == TypeName(Head(todo))
         taken == name \in DOMAIN symPtr
     IN
     /\ pkgSet' = IF caller = "typelinks" THEN pkgSet \cup {t.pkg} ELSE pkgSet
     /\ symPtr' = IF taken THEN symPtr ELSE Put(symPtr, name, HostType(Head(todo)))
     /\ todo' = (IF taken THEN <<>> ELSE t.elems) \o Tail(todo)
  /\ UNCHANGED <<host, caller, stage>>

\* The second half of typelinksregister.
RegisterFunctions ==
  /\ stage = "types" /\ todo = <<>>
  /\ symPtr' = Merge(symPtr, [f \in DOMAIN host.funcs |-> HostSymbol(f)])
  /\ pkgSet' = pkgSet \cup {FuncPkgPath(f[2]) : f \in DOMAIN host.funcs}
  /\ stage' = "functions"
  /\ UNCHANGED <<host, todo, caller>>

\* regSymbol: the symbols of the file, and no init task for the packages that
\* seem to have none left.
RegisterData ==
  /\ stage = "functions"
  /\ LET found == Merge([d \in host.data \cup DOMAIN host.itabs |-> HostSymbol(d)], symPtr) IN
     symPtr' = Merge(found, [i \in {InitTask(p) : p \in pkgSet} |-> Zero])
  /\ stage' = "registered"
  /\ UNCHANGED <<host, todo, caller, pkgSet>>

\* RegTypes of a value of type t.  Its packages go into a set of their own,
\* which is dropped.  (Bound: it is called once.)
RegTypes(t) ==
  /\ stage = "registered" /\ todo = <<>> /\ caller = "typelinks"
  /\ todo' = <<t>> /\ caller' = "RegTypes"
  /\ UNCHANGED <<host, symPtr, pkgSet, stage>>

RegistryNext ==
  \/ RegisterType
  \/ RegisterFunctions
  \/ RegisterData
  \/ \E t \in DOMAIN host.types : RegTypes(t)
==============================================================================

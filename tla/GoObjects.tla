------------------------------ MODULE GoObjects ------------------------------
(***************************************************************************)
(* Reading an archive into a package: obj/readobj.1.16.go.                 *)
(*                                                                         *)
(* Symbols() goes through the entries of the archive.  Of a Go object,     *)
(* written by the compiler or the assembler, it adds every symbol that is  *)
(* defined and before that, depth first, those that are referred to and    *)
(* not known by name yet.  A function whose body is of one ABI and whose   *)
(* callers are of the other has a wrapper of the same name: only the body  *)
(* may keep the name, whichever is read first.  The symbols of an object   *)
(* of the C compiler (NativeObjects) replace those of the same name.       *)
(*                                                                         *)
(* An archive is a sequence of entries.  A Go object is a record           *)
(*   symbols  the table: [name, kind, abi, size, wrapper, type, refs,      *)
(*            exported, text, owner], text being the name spelled out      *)
(*            (SymbolNames) and owner the package it is really of          *)
(*   pkgdefs  how many of them are of the package or hashed                *)
(*   defs     how many are defined; the others are only referred to        *)
(* A reference is [pkg, index, name]: of this object (Self) or by index    *)
(* into the symbols of another package, which may or may not be named.     *)
(***************************************************************************)
EXTENDS NativeObjects, SymbolNames

CONSTANTS
  Archives,  \* the archives that may be read
  PkgPath    \* the package they are of

VARIABLES
  archive,
  entry,      \* the entry being read
  next,       \* the next symbol of its table to be added
  todo,       \* the references still to be followed before that, the next one first,
              \* each with the package it is followed in
  syms,       \* Pkg.Syms
  order,      \* Pkg.SymNameOrder
  namesByIdx, \* Pkg.SymNamesByIdx
  exports,    \* Pkg.Exports
  status

vars == <<archive, entry, next, todo, syms, order, namesByIdx, exports, status>>

Self == "self"
NoReference == [pkg |-> "none", index |-> 0, name |-> NoName]
ABI0 == "abi0"
ABIInternal == "abiinternal"

Object == archive[entry]
Named(name, mark) == <<name[1], mark>>

------------------------------------------------------------------------------
\* addSym

\* resolveSymRef gives a name to references into the object, and to others only
\* if the object has a name for them.
NameOf(ref) == IF ref.pkg = Self THEN Object.symbols[ref.index].name ELSE ref.name

\* The symbols already read: by name, and their names in order.
Read == [syms |-> syms, order |-> order]

With(read, name, symbol) ==
  [syms |-> (name :> symbol) @@ read.syms,
   order |-> IF name \in DOMAIN read.syms THEN read.order ELSE Append(read.order, name)]

SameAs(s, original) ==
  s.kind = original.kind /\ s.abi = original.abi /\ s.size = original.size

\* reflect.callReflect and makeFuncStub, whose bodies of both ABIs are no wrappers.
IsSpecial(s) == s.abi = ABI0 /\ s.name[1] = "reflect.callReflect"

\* The byte whose address stands for a C function, until that is read.
IsCgoDummy(s) == s.kind = "noptrbss" /\ s.name[2] = "_cgo_" /\ s.size = 1

\* Mutant: a symbol without data is not added, even if it is the first of its name.
NothingToAdd_Empty(s) ==
  \/ s.kind = "none" \/ IsCgoDummy(s)
  \/ s.name \in DOMAIN syms /\ SameAs(s, syms[s.name])
  \/ s.kind # "text" /\ s.size = 0

\* What is only referred to, and what is there already.
NothingToAdd(s) ==
  \/ s.kind = "none" \/ IsCgoDummy(s)
  \/ s.name \in DOMAIN syms /\ SameAs(s, syms[s.name])
  \/ s.name \in DOMAIN syms /\ s.kind # "text" /\ s.size = 0

\* A second function of a name, which is the wrapper of the first or its body.
OtherBody(s) == s.kind = "text" /\ s.name \in DOMAIN syms /\ ~IsSpecial(s)
ClashingBodies(s) == OtherBody(s) /\ s.abi = syms[s.name].abi

\* Mutant: the wrapper that was read first is lost.
MakeRoom_Replace(s, pkg) == Read

\* The wrapper that was read first is kept under the name of its ABI.
MakeRoom(s, pkg) ==
  IF OtherBody(s) /\ syms[s.name].wrapper
  THEN LET wrapper == syms[s.name]
           aside == Named(s.name, wrapper.abi)
       IN With(Read, aside, [wrapper EXCEPT !.name = aside, !.pkg = pkg])
  ELSE Read

\* The wrapper that is read last takes the name of its ABI.
NameToKeep(s) ==
  IF OtherBody(s) /\ ~syms[s.name].wrapper THEN Named(s.name, s.abi) ELSE s.name

\* Whether the type that a symbol names is absent from the object.  For types of other
\* packages that it has a name for, what is looked at is outside of the table.
TypeAbsent(s) ==
  IF s.type.pkg = Self THEN {Object.symbols[s.type.index].kind = "none"}
  ELSE IF NameOf(s.type) = NoName THEN {FALSE} ELSE BOOLEAN

\* A type without a name is left to be found by its index.
UnresolvedIdx(ref) == [pkg |-> ref.pkg, index |-> ref.index]

TypeOf(s) ==
  IF s.type # NoReference /\ NameOf(s.type) = NoName THEN UnresolvedIdx(s.type) ELSE NameOf(s.type)

\* The package is the one that the name suggests for all but the first of the symbols
\* that are neither of the package nor hashed, or none if they are types, and for the
\* others that of the symbol that was followed.  An absent type becomes a reference too, so that its package
\* will be built.
ObjSymbol(i, s, pkg, absent) ==
  [name |-> NameToKeep(s), kind |-> s.kind, abi |-> s.abi, size |-> s.size, wrapper |-> s.wrapper,
   type |-> TypeOf(s), origin |-> <<entry, i>>,
   relocs |-> (IF absent THEN <<NameOf(s.type)>> ELSE <<>>) \o [n \in DOMAIN s.refs |-> NameOf(s.refs[n])],
   pkg |-> IF i > Object.pkgdefs + 1 /\ s.name[2] # "_cgo_"
           THEN IF IsTypeSymbol(s.text) THEN NoPackage ELSE ObjFuncPkgPath(s.text)
           ELSE pkg]

IsExported(s, absent) == NameOf(s.type) # NoName /\ ~absent /\ s.exported

\* resolveSymRef gives references to what is not of the package the one that the name
\* suggests, here for types as well.
PkgOf(i, pkg) ==
  LET text == Object.symbols[i].text IN
  CASE i <= Object.pkgdefs -> pkg
    [] i > Object.pkgdefs /\ IsTypeSymbol(text) -> TypePkgPath(text)
    [] OTHER -> ObjFuncPkgPath(text)

\* The references into the object are followed, before anything else.
Following(s, pkg) ==
  LET local == SelectSeq(<<s.type>> \o s.refs, LAMBDA ref : ref.pkg = Self)
  IN [n \in DOMAIN local |-> <<local[n].index, PkgOf(local[n].index, pkg)>>]

AddSym(i, pkg, rest) ==
  LET s == Object.symbols[i] IN
  IF NothingToAdd(s)
  THEN /\ todo' = rest
       /\ UNCHANGED <<syms, order, namesByIdx, exports, status>>
  ELSE IF ClashingBodies(s)
  THEN /\ status' = "panicked" /\ todo' = <<>>
       /\ UNCHANGED <<syms, order, namesByIdx, exports>>
  ELSE \E absent \in TypeAbsent(s) :
       LET name == NameToKeep(s)
           read == With(MakeRoom(s, pkg), name, ObjSymbol(i, s, pkg, absent)) IN
       /\ syms' = read.syms /\ order' = read.order
       /\ namesByIdx' = (i :> name) @@ namesByIdx
       /\ exports' = IF IsExported(s, absent) THEN (name :> NameOf(s.type)) @@ exports ELSE exports
       /\ todo' = Following(s, pkg) \o rest
       /\ UNCHANGED status

------------------------------------------------------------------------------
\* Symbols

InGoObject ==
  status = "reading" /\ entry <= Len(archive) /\ Object.format = "go"

\* A symbol of the name of the one referred to is taken for it.
FollowReference ==
  /\ InGoObject /\ todo # <<>>
  /\ LET i == Head(todo)[1] IN
     IF Object.symbols[i].name \in DOMAIN syms
     THEN todo' = Tail(todo) /\ UNCHANGED <<syms, order, namesByIdx, exports, status>>
     ELSE AddSym(i, Head(todo)[2], Tail(todo))
  /\ UNCHANGED <<archive, entry, next>>

NextSymbol ==
  /\ InGoObject /\ todo = <<>> /\ next <= Object.defs
  /\ next' = next + 1
  /\ AddSym(next, PkgPath, <<>>)
  /\ UNCHANGED <<archive, entry>>

NextEntry ==
  /\ InGoObject /\ todo = <<>> /\ next > Object.defs
  /\ entry' = entry + 1 /\ next' = 1
  /\ UNCHANGED <<archive, todo, syms, order, namesByIdx, exports, status>>

FromC(s) ==
  [name |-> s.name, kind |-> s.kind, abi |-> ABI0, size |-> s.size, wrapper |-> FALSE,
   type |-> NoName, origin |-> <<entry, s.value>>, bytes |-> s.bytes, relocs |-> s.relocs, pkg |-> PkgPath]

\* A C symbol replaces the one of its name.  __cgo_X is known as _cgo_X as well, a
\* name that Go code has and that is not among those in order.
AddNative(read, s) ==
  LET with == With(read, s.name, FromC(s))
      alias == Named(s.name, "_cgo_") IN
  IF Object.format = "macho" /\ s.name[2] = "__cgo_"
  THEN [with EXCEPT !.syms = (alias :> [FromC(s) EXCEPT !.name = alias]) @@ @]
  ELSE with

ReadNative ==
  /\ status = "reading" /\ entry <= Len(archive) /\ Object.format # "go"
  /\ \E native \in {NativeSymbols(Object)}, kept \in {Kept(Object, NativeSymbols(Object).symbols)} :
     LET read == FoldLeft(AddNative, Read, kept) IN
     IF native.ok
     THEN /\ syms' = read.syms /\ order' = read.order
          /\ entry' = entry + 1
          /\ UNCHANGED status
     ELSE status' = "failed" /\ UNCHANGED <<syms, order, entry>>
  /\ UNCHANGED <<archive, next, todo, namesByIdx, exports>>

Finish ==
  /\ status = "reading" /\ entry > Len(archive)
  /\ status' = "read"
  /\ UNCHANGED <<archive, entry, next, todo, syms, order, namesByIdx, exports>>

Init ==
  /\ archive \in Archives
  /\ entry = 1 /\ next = 1 /\ todo = <<>>
  /\ syms = <<>> /\ order = <<>> /\ namesByIdx = <<>> /\ exports = <<>>
  /\ status = "reading"

Next == FollowReference \/ NextSymbol \/ NextEntry \/ ReadNative \/ Finish

Spec == Init /\ [][Next]_vars

------------------------------------------------------------------------------
\* Properties

Defined == UNION {{<<e, i>> : i \in 1 .. archive[e].defs} :
                    e \in {e \in 1 .. Len(archive) : archive[e].format = "go"}}
SymbolAt(o) == archive[o[1]].symbols[o[2]]
HasBody(name) ==
  \E o \in Defined : LET s == SymbolAt(o) IN s.kind = "text" /\ ~s.wrapper /\ s.name = name
FromGo(symbol) == "bytes" \notin DOMAIN symbol

\* Whatever the order in which a function's body and its wrapper are met, by their
\* index or through a reference and in one object or two, the body is found by the
\* plain name, and the wrapper is kept; that they differ is never taken for an error.
\* Functions and data that the object holds for other packages are taken for theirs,
\* except for the first of them.
FunctionsKept ==
  /\ status # "panicked"
  /\ status = "read" =>
       \A o \in Defined :
         LET s == SymbolAt(o)
             name == IF s.wrapper /\ HasBody(s.name) THEN Named(s.name, s.abi) ELSE s.name
         IN /\ s.kind = "text" => name \in DOMAIN syms /\ syms[name].origin = o
            /\ o[2] > archive[o[1]].pkgdefs + 1 /\ ~IsTypeSymbol(s.text)
               /\ s.name \in DOMAIN syms /\ syms[s.name].origin = o
               => syms[s.name].pkg = s.owner

\* Once the archive is read, what a Go symbol refers to in its own object is there by
\* its plain name, or is not defined by that object; C functions are there in the end.
ReferencesMet ==
  status = "read" =>
    \A name \in {n \in DOMAIN syms : FromGo(syms[n])} :
      LET o == syms[name].origin
          refs == SymbolAt(o).refs IN
      \A n \in DOMAIN refs :
        LET s == archive[o[1]].symbols[refs[n].index] IN
        refs[n].pkg = Self /\ s.kind # "none" => s.name \in DOMAIN syms

TypeIn(f, r) ==
  CASE f.format = "elf" -> ElfType(f.arch, r.type)
    [] f.format = "macho" -> MachoType(f.arch, r)
    [] f.format = "pe" -> PEType(r.type)
NameIn(f, r) ==
  LET name == f.symbols[r.symbol].name IN IF f.format = "pe" THEN PEName(f, name) ELSE name

\* A C function is kept with its own bytes and with every relocation of the text that
\* lies in it and names something, at its place in the function, and no other; as long
\* as no data before it in the file's order covers the same offsets.  In Mach-O one of
\* the first instruction, at the very address of the function, is lost.
CFunctionsWhole ==
  status = "read" =>
    \A e \in {e \in 1 .. Len(archive) : archive[e].format # "go"} :
      LET f == archive[e]
          IsLost(s, r) == f.format = "macho" /\ r.at = s.value
          Inside(s, r) ==
            r.section = 1 /\ s.value <= r.at /\ r.at < s.value + s.size /\ ~IsLost(s, r)
          Due(s) == {r \in ToSet(f.relocs) :
                       Inside(s, r) /\ NameIn(f, r) # NoName /\ TypeIn(f, r) # "paired"} IN
      \A s \in {s \in ToSet(f.symbols) : s.section = 1 /\ s.name # NoName} :
        /\ s.name \in DOMAIN syms
        /\ syms[s.name].bytes = <<1, s.value>>
        /\ ToSet(syms[s.name].relocs) =
             {[type |-> TypeIn(f, r), offset |-> r.at - s.value, name |-> NameIn(f, r)] : r \in Due(s)}
=============================================================================

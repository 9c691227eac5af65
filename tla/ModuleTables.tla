---------------------------- MODULE ModuleTables ----------------------------
(***************************************************************************)
(* What the runtime is told of a module's memory when buildModule hands    *)
(* it over: the masks of pointers in data and bss (gcdata.go), and the     *)
(* tables of each function (addFuncTab, stackobject), both made of what    *)
(* DataLayout has placed and SymbolBinding bound.                          *)
(*                                                                         *)
(* Of the symbols this module also reads                                   *)
(*   ptrs     of a type, the words of it that are pointers, from 0         *)
(*   stkobj   of a function, the symbol of its stack objects, or NoName    *)
(***************************************************************************)
EXTENDS SymbolBinding

\* What is known of the variables of every module: the compiler has their types, of which
\* the pointers are within them, and puts those with pointers, and no others, into data and
\* bss.
VariablesAreTyped(m) ==
  \A n \in DOMAIN m.symbols :
    LET s == m.symbols[n] IN
    /\ s.kind \in {"data", "bss"} => n[1] = "var" /\ s.size > 0
    /\ s.type # NoName =>
         /\ n[1] = "var" /\ s.type \in DOMAIN m.symbols
         /\ m.symbols[s.type].ptrs \subseteq 0 .. (s.size - 1)
         /\ s.kind \in {"data", "bss"} \/ m.symbols[s.type].ptrs = {}

ASSUME VariablesAssumption == \A m \in Modules : VariablesAreTyped(m)

RuntimeDeferReturn == <<"func", <<"runtime", ".", "deferreturn">>>>
OpenCodedDeferInfo == 5  \* FUNCDATA_OpenCodedDeferInfo, counting from 1

\* What is known of the functions of every module: they have code, are compiled in a unit,
\* and have the pc-value tables of sp, file and line; their tables of data are in the objects
\* and hold something; one with open-coded defers calls runtime.deferreturn, which only the program
\* has; and the pointers of stack objects are described by data without a name of its own.
\* Nothing else has tables.  What addSymbols starts from is in the objects.
TablesAreGiven(m, s) ==
  /\ s.unit \in DOMAIN m.units
  /\ s.pcvalues \in Seq(Nat) /\ Len(s.pcvalues) >= 3
  /\ s.inlines => s.pcinline \in Nat \ {0}
  /\ \A t \in Range(s.funcdata) \ {NoName} :
       m.symbols[t].defined /\ m.symbols[t].kind = "noptrdata" /\ m.symbols[t].size > 0
  /\ OpenCodedDeferInfo \in DOMAIN s.funcdata /\ s.funcdata[OpenCodedDeferInfo] # NoName =>
       RuntimeDeferReturn \in Range(s.refs)
  /\ s.stkobj # NoName =>
       /\ s.stkobj \in DOMAIN m.symbols
       /\ \A r \in Range(m.symbols[s.stkobj].refs) :
            m.symbols[r].defined /\ r[1] \notin {"type", "func", "var", "init", "itab"}

FunctionsAreWhole(m) ==
  /\ \A n \in Range(m.order) : m.symbols[n].defined
  /\ m.units \in Seq(Seq(STRING))
  /\ RuntimeDeferReturn \in DOMAIN m.symbols => ~m.symbols[RuntimeDeferReturn].defined
  /\ \A n \in DOMAIN m.symbols :
       LET s == m.symbols[n] IN
       IF s.kind = "text" THEN n[1] = "func" /\ s.size > 0 /\ TablesAreGiven(m, s)
       ELSE s.funcdata = <<>> /\ ~s.inlines

ASSUME FunctionsAssumption == \A m \in Modules : FunctionsAreWhole(m)

\* generategcdata: the words of a section that hold a pointer of the variable, if
\* the module uses its own copy.
\* Mutant: the offset of a variable of bss is counted from the end of data.
PointersOf_AfterData(name) ==
  IF symbolMap[name] # Own(name) \/ Symbol(name).type = NoName THEN {}
  ELSE {OffsetOf(name) - (IF Symbol(name).kind = "bss" THEN sizes["data"] ELSE 0) + i :
          i \in Symbol(Symbol(name).type).ptrs}

PointersOf(name) ==
  IF symbolMap[name] # Own(name) \/ Symbol(name).type = NoName THEN {}
  ELSE {OffsetOf(name) - (IF Symbol(name).kind = "bss" THEN sizes["data"] + sizes["noptrdata"] ELSE 0) + i :
          i \in Symbol(Symbol(name).type).ptrs}

\* sortSym: symbols by their offsets, of which each has one.
At(section, offset) ==
  CHOOSE n \in DOMAIN offsets : Symbol(n).kind = section /\ OffsetOf(n) = offset

Sorted(section) ==
  {At(section, OffsetOf(n)) : n \in {n \in DOMAIN offsets : Symbol(n).kind = section}}

\* addgcdata, as progToPointerMask expands it.
Mask(section) == UNION {PointersOf(n) : n \in Sorted(section)}

\* initmodule: the offsets of tables are taken to be from gofunc, the rest of the
\* module's record being what the linker has collected.
GoFunc == Base("noptrdata")

\* Where runtime.funcdata looks for the i-th table of a function; 0, and an index past
\* the last, stand for no table (addfuncdata).
TableOf(f, i) ==
  IF i \notin DOMAIN funcdata[f] \/ funcdata[f][i] = 0 THEN 0
  ELSE GoFunc + funcdata[f][i]

\* Where it looks for the pointers of the i-th stack object: AddStackObject takes
\* the i-th relocation for that of the i-th object.
StackObject(f, i) == symbolMap[Symbol(Symbol(f).stkobj).refs[i]]

\* addDeferReturn: which reference of a function is the first call of
\* runtime.deferreturn; 0, for none, if the object has so few tables that none can be
\* about open-coded defers.
DeferReturn(f) ==
  LET sites == {i \in DOMAIN Symbol(f).refs : Symbol(f).refs[i] = RuntimeDeferReturn}
  IN IF Len(funcdata[f]) < OpenCodedDeferInfo \/ sites = {} THEN 0 ELSE Min(sites)

\* addFuncTab: what the runtime finds behind a function's entry in ftab.
InitFunc(f) == [pcs |-> pcs[f], cuOffset |-> CuOffset(f)]

FuncRecord(f) ==
  Merge([entryoff |-> IF IsOwn(symbolMap[f]) THEN OffsetOf(f) ELSE sizes["text"],
         deferreturn |-> DeferReturn(f)], InitFunc(f))

\* findfunc: the last entry of ftab that is not behind the pc.
FoundFunc(pc) ==
  LET before == {i \in DOMAIN funcs : FuncRecord(funcs[i]).entryoff <= pc}
  IN funcs[Max(before)]

\* funcfile: the file that the runtime takes the n-th of a function's unit for.
FoundFile(f, n) == FileTables.filetab[FileTables.cutab[FuncRecord(f).cuOffset + n]]

------------------------------------------------------------------------------
Published == phase \in {"deduplicating", "loaded", "panic"}

\* The words, from the start of the module's data, that belong to a symbol: none if
\* it has no data, wherever EmptySymbol has put it.
Words(name) == OffsetOf(name) .. (OffsetOf(name) + Symbol(name).size - 1)
DataSymbols == {n \in DOMAIN offsets : Symbol(n).kind # "text"}

\* No word belongs to two symbols, and the collector looks at the words of the module's memory
\* that hold a pointer of some variable the module's code uses, and takes no other
\* word for a pointer: words of the module's copies of what is the program's are
\* not looked at.  No variable of Go that its code uses and that may hold pointers is without
\* a type to tell them by.
PointersAreScanned ==
  Published =>
    LET scanned == Mask("data") \cup {Base("bss") + i : i \in Mask("bss")}
        ptrs(n) == {OffsetOf(n) + i : i \in Symbol(Symbol(n).type).ptrs}
        typed == {n \in DataSymbols : Symbol(n).type # NoName}
        pointed == {n \in DataSymbols : Symbol(n).kind \in {"data", "bss"} /\ "." \in Range(n[2])}
    IN /\ \A m, n \in DataSymbols : m # n => Words(m) \cap Words(n) = {}
       /\ \A p \in Places(module) :
            /\ Target(p) \in typed /\ IsOwn(places[p]) => ptrs(Target(p)) \subseteq scanned
            /\ Target(p) \in pointed /\ IsOwn(places[p]) => Target(p) \in typed
       /\ scanned \subseteq UNION {ptrs(n) : n \in {n \in typed : IsOwn(symbolMap[n])}}
       /\ \A i \in Mask("data") : i < Base("noptrdata")
       /\ \A i \in Mask("bss") : Base("bss") + i < Base("noptrbss")

\* The bytes of pctab that belong to the i-th pc-value table of a function.
PcTable(f, i) ==
  LET size == IF i = InlTreeIndex /\ Symbol(f).inlines THEN Symbol(f).pcinline
              ELSE IF i \in DOMAIN Symbol(f).pcvalues THEN Symbol(f).pcvalues[i] ELSE 0
  IN FuncRecord(f).pcs[i] .. (FuncRecord(f).pcs[i] + size - 1)

\* From every pc in the module the runtime comes to the function there, and from it
\* to the files of its unit.  For each
\* table that a function's object gives it the runtime finds that very table, of the
\* module, and none where the object has none, though offsets are noted while the
\* sections grow and 0 means none: no two pc-value tables overlap, its inline tree
\* is its own, and its stack objects have their pointers described in the module.
\* A function with open-coded defers has the call to which a recovered panic returns.
TablesAreFound ==
  Published =>
    LET functions == Range(funcs) IN
    /\ \A f \in functions : \A pc \in Words(f) : FoundFunc(pc) = f
    /\ \A f, g \in functions : \A i \in DOMAIN pcs[f], j \in DOMAIN pcs[g] :
         <<f, i>> # <<g, j>> => PcTable(f, i) \cap PcTable(g, j) = {}
    /\ \A f \in functions : \A i \in DOMAIN pcs[f] :
         /\ pcs[f][i] = 0 <=> i > 3 /\ PcTable(f, i) = {}
         /\ PcTable(f, i) \subseteq PtrSize .. (pctab - 1)
    /\ \A f \in functions : \A n \in DOMAIN module.units[Symbol(f).unit] :
         FoundFile(f, n) = module.units[Symbol(f).unit][n]
    /\ \A f \in functions :
         LET its == Symbol(f).funcdata IN
         OpenCodedDeferInfo \in DOMAIN its /\ its[OpenCodedDeferInfo] # NoName =>
           /\ DeferReturn(f) # 0
           /\ places[<<f, DeferReturn(f)>>] = HostSymbol(RuntimeDeferReturn)
    /\ \A f \in functions : \A i \in DOMAIN Symbol(f).funcdata :
         LET table == Symbol(f).funcdata[i] IN
         i # InlTree \/ ~Symbol(f).inlines =>
           TableOf(f, i) = IF table = NoName THEN 0 ELSE OffsetOf(table)
    /\ \A f \in functions : Symbol(f).inlines =>
         LET tree == TableOf(f, InlTree) IN
         /\ tree \in (Base("noptrdata") + 1) .. (Base("bss") - 1)
         /\ \A n \in DataSymbols : tree \notin Words(n)
         /\ \A g \in functions \ {f} : Symbol(g).inlines => TableOf(g, InlTree) # tree
    /\ \A f \in functions : Symbol(f).stkobj # NoName =>
         \A i \in DOMAIN Symbol(Symbol(f).stkobj).refs : IsOwn(StackObject(f, i))
==============================================================================

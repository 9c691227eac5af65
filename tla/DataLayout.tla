----------------------------- MODULE DataLayout -----------------------------
(***************************************************************************)
(* Where the linker puts the symbols of a module: addSymbols, addSymbol,   *)
(* readFuncData and addInlineTree.                                         *)
(*                                                                         *)
(* Symbols are added in the order given, each followed, depth first, by    *)
(* the tables of its function and what its relocations name.  There are    *)
(* five sections, which Load copies behind each other once everything is   *)
(* added; until then a symbol has an offset within its section.  The       *)
(* offsets of a function's tables are noted while sections still grow.     *)
(* addSymbol calls itself: the calls under way are a stack, and each call  *)
(* has a step that it comes to next, the tables, the inline tree and the   *)
(* relocations being its steps, in this order.                             *)
(*                                                                         *)
(* The module is a record of which this module reads                       *)
(*   order    the symbols that addSymbols starts from                      *)
(*   units    the compilation units, each with its files, in order         *)
(*   symbols  by name:                                                     *)
(*              defined   whether an object defines it                     *)
(*              kind      its section                                      *)
(*              size      its size, in words                               *)
(*              refs      the symbols named by its relocations, in order   *)
(*              funcdata  of a function, the names of its tables, NoName   *)
(*                        for those that it has not                        *)
(*              inlines   whether it has an inline tree                    *)
(*              unit      of a function, the number of its unit            *)
(*              pcinline  the size of its pc-value table of inlined calls  *)
(*              pcvalues  of a function, the sizes of its pc-value tables: *)
(*                        of sp, file and line, and of its pcdata, 0 for   *)
(*                        those that it has not                            *)
(* The texts of import paths and the constants that the linker makes on    *)
(* the way are symbols like others; sizes of code are those of CodeLayout. *)
(***************************************************************************)
EXTENDS Naturals, Sequences, SequencesExt, GoMaps

VARIABLES
  module,   \* the module being linked
  offsets,  \* the offset of each symbol in its section
  sizes,    \* the words in each section
  funcs,    \* linker._func, by name
  funcdata, \* Func.FuncData of each function
  pcs,      \* the offsets in pctab of the pc-value tables of each function
  pctab,    \* len(linker.pctab)
  roots,    \* what addSymbols has still to add
  calls,    \* the symbols that calls of addSymbol are adding, the innermost first
  steps     \* the next step of the call for each symbol

layoutVars == <<module, offsets, sizes, funcs, funcdata, pcs, pctab, roots, calls, steps>>
pcVars == <<pcs, pctab>>

NoName == <<"none", "">>
Sections == {"text", "data", "noptrdata", "bss", "noptrbss"}
InlTree == 4      \* FUNCDATA_InlTree, counting from 1
InlTreeSize == 1  \* the words of an inline tree
InlTreeIndex == 6 \* PCDATA_InlTreeIndex, counting sp, file and line before it
PtrSize == 8

Symbol(name) == module.symbols[name]

\* The sum of the first n.
Sum(numbers, n) ==
  LET sum[k \in 0 .. Len(numbers)] == IF k = 0 THEN 0 ELSE sum[k - 1] + numbers[k]
  IN sum[n]

Align(n) == ((n + PtrSize - 1) \div PtrSize) * PtrSize

\* What is known of every module: its symbols go to the sections, and what they name is there.
IsLinkable(m) ==
  /\ m.order \in Seq(DOMAIN m.symbols)
  /\ \A n \in DOMAIN m.symbols :
       LET s == m.symbols[n] IN
       /\ s.kind \in Sections /\ s.size \in Nat
       /\ s.refs \in Seq(DOMAIN m.symbols)
       /\ s.funcdata \in Seq(DOMAIN m.symbols \cup {NoName})

------------------------------------------------------------------------------
\* The start of noptrdata and of pctab is nobody's, so that 0 is no table's offset.
InitLinker ==
  offsets = <<>> /\ funcs = <<>> /\ funcdata = <<>> /\ pcs = <<>> /\ pctab = PtrSize

LayoutInit(Modules) ==
  /\ module \in Modules
  /\ InitLinker
  /\ sizes = [s \in Sections |-> IF s = "noptrdata" THEN 1 ELSE 0]
  /\ roots = module.order /\ calls = <<>> /\ steps = <<>>

\* addSymbols: the files of all units, once each, and where each unit has its own.
WithFile(t, file) ==
  IF file \in Range(t.filetab)
  THEN [t EXCEPT !.cutab = Append(@, CHOOSE i \in DOMAIN t.filetab : t.filetab[i] = file)]
  ELSE [filetab |-> Append(t.filetab, file), cutab |-> Append(t.cutab, Len(t.filetab) + 1)]

FileTables ==
  LET files == FlattenSeq(module.units)
      tables[n \in 0 .. Len(files)] ==
        IF n = 0 THEN [filetab |-> <<>>, cutab |-> <<>>] ELSE WithFile(tables[n - 1], files[n])
  IN tables[Len(files)]

\* Where the files of a function's unit begin in cutab.
CuOffset(f) == Sum([i \in DOMAIN module.units |-> Len(module.units[i])], Symbol(f).unit - 1)

\* The tables of sp, file and line have an offset even if they are empty.
PcOffsets(f) ==
  LET its == Symbol(f).pcvalues IN
  [i \in DOMAIN its |-> IF i > 3 /\ its[i] = 0 THEN 0 ELSE pctab + Sum(its, i - 1)]

AddSymbol(name) ==
  LET s == Symbol(name) IN
  /\ offsets' = Put(offsets, name, sizes[s.kind])
  /\ sizes' = [sizes EXCEPT ![s.kind] = @ + s.size]
  /\ IF s.kind = "text"
     THEN /\ funcs' = Append(funcs, name) /\ funcdata' = Put(funcdata, name, <<>>)
          /\ pcs' = Put(pcs, name, PcOffsets(name))
          /\ LET end == pctab + Sum(s.pcvalues, Len(s.pcvalues)) IN
             pctab' = IF s.inlines THEN end ELSE Align(end)
     ELSE UNCHANGED <<funcs, funcdata, pcVars>>
  /\ calls' = <<name>> \o calls /\ steps' = Put(steps, name, 1)
  /\ UNCHANGED <<module, roots>>

IsAdded(name) == name \in DOMAIN offsets

\* A call goes on: the symbol that it adds, and its next step.
Running == calls # <<>>
Adding == Head(calls)
Step == steps[Adding]
GoOn == steps' = [steps EXCEPT ![Adding] = @ + 1] /\ UNCHANGED <<module, roots, calls>>

\* The numbers of the steps.
TreeStep(name) == Len(Symbol(name).funcdata) + 1
RefStep(name, i) == TreeStep(name) + i

AddNext ==
  /\ calls = <<>> /\ roots # <<>>
  /\ IF IsAdded(Head(roots))
     THEN /\ roots' = Tail(roots)
          /\ UNCHANGED <<module, offsets, sizes, funcs, funcdata, pcVars, calls, steps>>
     ELSE AddSymbol(Head(roots))

\* The next of a function's tables, which is added first if it is not there.
ReadTable ==
  /\ Running /\ Step < TreeStep(Adding)
  /\ LET table == Symbol(Adding).funcdata[Step] IN
     IF table # NoName /\ ~IsAdded(table) THEN AddSymbol(table)
     ELSE /\ funcdata' = [funcdata EXCEPT ![Adding] =
                            Append(@, IF table = NoName THEN 0 ELSE offsets[table])]
          /\ GoOn /\ UNCHANGED <<offsets, sizes, funcs, pcVars>>

\* The table with the value at n, made longer if need be.
WithEntry(table, n, value) ==
  [i \in 1 .. (IF Len(table) < n THEN n ELSE Len(table)) |->
     IF i = n THEN value ELSE IF i \in DOMAIN table THEN table[i] ELSE 0]

\* Mutant: the table of inlined calls goes to the end of the list.
AddInlineTree_Appended ==
  /\ Running /\ Step = TreeStep(Adding)
  /\ IF Symbol(Adding).inlines
     THEN /\ funcdata' = [funcdata EXCEPT ![Adding] = Append(@, sizes["noptrdata"])]
          /\ pcs' = [pcs EXCEPT ![Adding] = WithEntry(@, InlTreeIndex, pctab)]
          /\ pctab' = Align(pctab + Symbol(Adding).pcinline)
          /\ sizes' = [sizes EXCEPT !["noptrdata"] = @ + InlTreeSize]
     ELSE UNCHANGED <<sizes, funcdata, pcVars>>
  /\ GoOn /\ UNCHANGED <<offsets, funcs>>

AddInlineTree ==
  /\ Running /\ Step = TreeStep(Adding)
  /\ IF Symbol(Adding).inlines
     THEN /\ funcdata' = [funcdata EXCEPT ![Adding] = WithEntry(@, InlTree, sizes["noptrdata"])]
          /\ pcs' = [pcs EXCEPT ![Adding] = WithEntry(@, InlTreeIndex, pctab)]
          /\ pctab' = Align(pctab + Symbol(Adding).pcinline)
          /\ sizes' = [sizes EXCEPT !["noptrdata"] = @ + InlTreeSize]
     ELSE UNCHANGED <<sizes, funcdata, pcVars>>
  /\ GoOn /\ UNCHANGED <<offsets, funcs>>

\* The next relocation names a symbol that is added, unless it is there or not the module's.
\* One without data goes to the start of its section when it is referred to.
Refer ==
  /\ Running /\ Step > TreeStep(Adding)
  /\ \E i \in DOMAIN Symbol(Adding).refs :
       LET ref == Symbol(Adding).refs[i] IN
       /\ Step = RefStep(Adding, i)
       /\ IF Symbol(ref).defined /\ ~IsAdded(ref) THEN AddSymbol(ref)
          ELSE /\ offsets' = IF Symbol(ref).defined /\ Symbol(ref).size = 0
                             THEN [offsets EXCEPT ![ref] = 0] ELSE offsets
               /\ GoOn /\ UNCHANGED <<sizes, funcs, funcdata, pcVars>>

Return ==
  /\ Running /\ Step > RefStep(Adding, Len(Symbol(Adding).refs))
  /\ calls' = Tail(calls)
  /\ UNCHANGED <<module, offsets, sizes, funcs, funcdata, pcVars, roots, steps>>

LayoutNext == AddNext \/ ReadTable \/ AddInlineTree \/ Refer \/ Return

------------------------------------------------------------------------------
\* The sections in memory, in words from the start of the module's data, and the
\* offset of a symbol once addSymbols has added that of its section.
Base(section) ==
  CASE section \in {"text", "data"} -> 0
    [] section = "noptrdata" -> sizes["data"]
    [] section = "bss" -> sizes["data"] + sizes["noptrdata"]
    [] section = "noptrbss" -> sizes["data"] + sizes["noptrdata"] + sizes["bss"]

OffsetOf(name) == Base(Symbol(name).kind) + offsets[name]
==============================================================================

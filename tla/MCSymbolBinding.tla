--------------------------- MODULE MCSymbolBinding ---------------------------
(***************************************************************************)
(* Programs and modules for SymbolBinding and ModuleTables.                *)
(*                                                                         *)
(* p.T points to itself; main has two types m.L, local to two functions,   *)
(* of which one is built of q.Y; p.io/q is a package whose path begins with *)
(* that of p.                                                              *)
(***************************************************************************)
EXTENDS ModuleTables

Type(text) == <<"type", text>>
Func(pkg, name) == <<"func", pkg \o <<".", name>>>>
Var(pkg, name) == <<"var", pkg \o <<".", name>>>>
TI == <<"itab", <<"*", "p", ".", "T", ",", "I">>>>

P == <<"p">>
PQ == <<"p", ".", "io", "/", "q">>
Q == <<"q">>
M == <<"m">>

\* Names of types.
pT == <<"p", ".", "T">>
mL == <<"m", ".", "L">>
qY == <<"q", ".", "Y">>
Ptr(name) == <<"*">> \o name
Slice(name) == <<"[]">> \o name
Numbered(name) == Append(name, "·1")
StructOf(field) ==
  <<"struct", " ", "{", " ", "F", " ">> \o field \o <<" ", "\"tag\"", "; ", "m", ".", "g", " ">>
  \o qY \o <<" ", "}">>
Exported == <<"interface", " ", "{", " ", "M", "(">> \o qY \o <<", ", "...">> \o qY \o <<")", " ", "}">>
Unexported == <<"interface", " ", "{", " ", "m", ".", "n", "(", ")", " ", "}">>

\* Types as reflection has them: defined ones, those made of one other, of which pointers
\* to types with methods have a package, and others.
Defined(name, elems, class) ==
  [kind |-> "struct", pkg |-> <<name[1]>>, name |-> <<name[3]>>, string |-> name,
   elems |-> elems, class |-> class]
Made(kind, string, elem, class, pkg) ==
  [kind |-> kind, pkg |-> pkg, name |-> <<>>, string |-> string, elems |-> <<elem>>, class |-> class]

TypesOfP ==
  ("T" :> Defined(pT, <<"PT">>, "T")) @@ ("PT" :> Made("ptr", Ptr(pT), "T", "*T", P))
  @@ ("ST" :> Made("slice", Slice(pT), "T", "[]T", NoPackage))

LocalTypes ==
  ("L1" :> Defined(mL, <<>>, "L1")) @@ ("PL1" :> Made("ptr", Ptr(mL), "L1", "*L1", NoPackage))
  @@ ("L2" :> Defined(mL, <<"Y">>, "L2")) @@ ("PL2" :> Made("ptr", Ptr(mL), "L2", "*L2", NoPackage))
  @@ ("Y" :> Defined(qY, <<>>, "Y"))

\* A struct with a field of a local type, interfaces, and what they are built of.
Field(name, pkg, tag) == [name |-> name, pkg |-> pkg, embedded |-> FALSE, tag |-> tag]
Signature(elems, ins, variadic) ==
  [kind |-> "func", pkg |-> NoPackage, name |-> <<>>, string |-> <<"func">>, elems |-> elems,
   class |-> "func", ins |-> ins, variadic |-> variadic]
Interface(method, class) ==
  [kind |-> "interface", pkg |-> NoPackage, name |-> <<>>, string |-> <<"interface">>, elems |-> <<>>,
   class |-> class, methods |-> <<method>>]

Shapes ==
  [t \in {"L1", "PL1", "Y"} |-> LocalTypes[t]]
  @@ ("S" :> [kind |-> "struct", pkg |-> NoPackage, name |-> <<>>, string |-> <<"struct">>,
              elems |-> <<"L1", "Y">>, class |-> "S",
              fields |-> <<Field("F", NoPackage, "\"tag\""), Field("g", M, "")>>])
  @@ ("PS" :> Made("ptr", <<"*", "struct">>, "S", "*S", NoPackage))
  @@ ("SY" :> Made("slice", Slice(qY), "Y", "[]Y", NoPackage))
  @@ ("FM" :> Signature(<<"Y", "SY">>, 2, TRUE)) @@ ("Fn" :> Signature(<<>>, 0, FALSE))
  @@ ("I" :> Interface([name |-> "M", exported |-> TRUE, type |-> "FM"], "I"))
  @@ ("SI" :> Made("slice", <<"[]", "interface">>, "I", "[]I", NoPackage))
  @@ ("J" :> Interface([name |-> "n", exported |-> FALSE, type |-> "Fn"], "J"))
  @@ ("SJ" :> Made("slice", <<"[]", "interface">>, "J", "[]J", NoPackage))

\* The program with these types and type links, with or without the itab, and
\* with these functions and variables.
HostOf(types, links, itabs, functions, data) ==
  [types |-> types, links |-> links, itabs |-> itabs, funcs |-> functions, data |-> data]

Functions ==
  (Func(P, "F") :> P)
  @@ (RuntimeDeferReturn :> <<"runtime">>)
  @@ (<<"func", PQ \o <<".", "(", "*", "T", ")", ".", "M">>>> :> PQ)
  @@ (<<"func", P \o <<".", "(", "*", "O", ")", ".">> \o PQ \o <<".", "op">>>> :> P)
Vars == {Var(P, "V"), Var(Main, "V"), Var(PQ, "V")}

\* Programs that have p, or parts of it, or not.
HostsOfP ==
  {HostOf(TypesOfP, links, itabs, functions, data) :
     links \in {<<>>, <<"PT">>, <<"ST">>, <<"PT", "ST">>},
     itabs \in {<<>>, TI :> "PT"},
     functions \in {<<>>, Functions},
     data \in {{}, {Var(P, "V")}, Vars, Vars \cup {InitTask(P), InitTask(Main)}}}
  \cup {HostOf(<<>>, <<>>, <<>>, <<>>, {})}

\* Programs with local types, both, one or none of them in the type links.
HostsWithLocals ==
  {HostOf(LocalTypes, links, <<>>, <<>>, {}) :
     links \in {<<>>, <<"PL1">>, <<"PL2">>, <<"PL1", "PL2">>, <<"PL2", "PL1">>}}
  \cup {HostOf([t \in {"L2", "PL2", "Y"} |-> LocalTypes[t]], <<"PL2">>, <<>>, <<>>, {})}

\* Programs with shapes.
HostsWithShapes ==
  {HostOf(Shapes, links, <<>>, <<>>, {}) :
     links \in {<<"SI", "S">>, <<"PS", "SI", "PL1">>, <<"SJ", "S">>}}

MCHosts == HostsOfP \cup HostsWithLocals \cup HostsWithShapes

\* Symbols: of one word and without pointers unless stated otherwise.
Sym(refs, pkg) ==
  [refs |-> refs, defined |-> TRUE, kind |-> "noptrdata", size |-> 1,
   funcdata |-> <<>>, inlines |-> FALSE, pcinline |-> 0, unit |-> 1, stkobj |-> NoName, pcvalues |-> <<>>,
   type |-> NoName, ptrs |-> {},
   pkg |-> pkg, class |-> ""]
Text(refs, pkg) == [Sym(refs, pkg) EXCEPT !.kind = "text", !.pcvalues = <<1, 1, 1>>]
Variable(kind, size, type, refs, pkg) ==
  [Sym(refs, pkg) EXCEPT !.kind = kind, !.size = size, !.type = type]
TypeSym(refs, pkg, class) == [Sym(refs, pkg) EXCEPT !.class = class]
WithPtrs(symbol, ptrs) == [symbol EXCEPT !.ptrs = ptrs]
External(symbol) == [symbol EXCEPT !.defined = FALSE]
WithTables(symbol, its, inlines) ==
  [symbol EXCEPT !.funcdata = its, !.inlines = inlines, !.pcinline = 2, !.unit = 2]

ModuleOf(symbols, order, skip, exported) ==
  [symbols |-> symbols, order |-> order, skip |-> skip, exports |-> exported,
   units |-> <<<<"a.go", "b.go">>, <<"c.go", "a.go">>>>]

\* The types that the module brings, which may be others than the program's.
Types(T, PT) ==
  (Type(pT) :> WithPtrs(TypeSym(<<Type(Ptr(pT))>>, P, T), {1}))
  @@ (Type(Ptr(pT)) :> WithPtrs(TypeSym(<<Type(pT)>>, P, PT), {0}))

\* A package p compiled once more, and the code that uses it.
Rebuilt(types, skip) ==
  ModuleOf(
     types
     @@ (Func(P, "F") :> Text(<<Type(pT), TI, Var(P, "V")>>, P))
     @@ (Func(Main, "run") :> Text(<<Func(P, "F"), TI, Var(Main, "V"), Var(P, "V"), Var(PQ, "V"),
                                    InitTask(P), InitTask(PQ), InitTask(Main)>>, Main))
     @@ (InitTask(Main) :> Sym(<<>>, Main)) @@ (InitTask(P) :> Sym(<<>>, P)) @@ (InitTask(PQ) :> Sym(<<>>, PQ))
     @@ (TI :> Sym(<<Type(Ptr(pT))>>, P))
     @@ (Var(P, "V") :> Variable("data", 2, Type(pT), <<Type(Ptr(pT))>>, P))
     @@ (Var(Main, "V") :> Variable("bss", 1, Type(Ptr(pT)), <<>>, Main))
     @@ (Var(PQ, "V") :> Variable("bss", 2, Type(pT), <<>>, PQ)),
   <<Func(Main, "run")>>, skip,
   {[symbol |-> Var(P, "V"), type |-> Type(pT)],
    [symbol |-> Var(Main, "V"), type |-> Type(Ptr(pT))]})

\* Code that finds all of p in the program, or is not loaded.
Referring ==
  ModuleOf(
     (Func(Main, "run") :> Text(<<Func(P, "F"), Var(P, "V"), Type(Slice(pT)), Type(pT)>>, Main))
     @@ (Func(P, "F") :> External(Text(<<>>, P)))
     @@ (Var(P, "V") :> External(Variable("data", 2, NoName, <<>>, P)))
     @@ (Type(pT) :> External(TypeSym(<<>>, P, "T")))
     @@ (Type(Slice(pT)) :> TypeSym(<<>>, Main, "[]T")),
   <<Func(Main, "run"), Type(Slice(pT))>>, {},
   {[symbol |-> Var(P, "V"), type |-> Type(Slice(pT))]})

\* Code with types local to a function: the compiler numbers them.
WithLocals(class) ==
  ModuleOf(
     (Func(M, "run") :> Text(<<Type(Numbered(mL)), Type(qY), Type(mL)>>, M))
     @@ (Type(Numbered(mL)) :> TypeSym(<<Type(qY)>>, M, class))
     @@ (Type(mL) :> TypeSym(<<>>, M, "L3"))
     @@ (Type(qY) :> TypeSym(<<>>, Q, "Y"))
     @@ (Var(M, "V") :> Variable("bss", 1, Type(mL), <<Type(mL)>>, M)),
   <<Func(M, "run"), Var(M, "V")>>, {},
   {[symbol |-> Var(M, "V"), type |-> Type(mL)]})

\* Code with a struct that has a field of such a type, or a pointer to it, and with
\* an interface.
WithShapes(struct, class, interface, ofInterface) ==
  ModuleOf(
     (Func(M, "run") :> Text(<<Type(struct), Type(interface)>>, M))
     @@ (Type(struct) :> TypeSym(<<Type(qY)>>, NoPackage, class))
     @@ (Type(interface) :> TypeSym(<<>>, NoPackage, ofInterface))
     @@ (Type(qY) :> TypeSym(<<>>, Q, "Y")),
   <<Func(M, "run")>>, {}, {})

\* Functions with tables, shared ones among them, and variables in every section.
Gc(text) == <<"gc", <<text>>>>
Tabled(order) ==
  ModuleOf(
     (Func(M, "F") :> [WithTables(Text(<<Func(M, "G"), Var(M, "V")>>, M),
                                 <<Gc("args"), NoName, Gc("F.stkobj")>>, TRUE)
                        EXCEPT !.stkobj = Gc("F.stkobj")])
     @@ (Func(M, "G") :> [WithTables(Text(<<Var(P, "V"), RuntimeDeferReturn, Var(M, "E")>>, M),
                                    <<Gc("args"), Gc("locals"), NoName, NoName, Gc("info")>>, TRUE)
                           EXCEPT !.pcvalues = <<3, 2, 2, 0, 4, 0>>])
     @@ (RuntimeDeferReturn :> External(Text(<<>>, <<"runtime">>)))
     @@ (Func(M, "H") :> WithTables(Text(<<Func(M, "F"), Var(M, "N")>>, M), <<>>, TRUE))
     @@ (Gc("args") :> Sym(<<>>, NoPackage)) @@ (Gc("locals") :> Sym(<<>>, NoPackage))
     @@ (Gc("info") :> Sym(<<>>, NoPackage)) @@ (Gc("bits") :> Sym(<<>>, NoPackage))
     @@ (Gc("F.stkobj") :> [Sym(<<Gc("bits")>>, NoPackage) EXCEPT !.size = 2])
     @@ (Type(pT) :> WithPtrs(TypeSym(<<>>, P, "T"), {1}))
     @@ (Var(M, "V") :> Variable("bss", 2, Type(pT), <<>>, M))
     @@ (Var(P, "V") :> Variable("data", 2, Type(pT), <<>>, P))
     @@ (Var(M, "N") :> Variable("noptrbss", 1, NoName, <<>>, M))
     @@ (Var(M, "E") :> Variable("noptrbss", 0, NoName, <<>>, M)),
   order, {}, {})

\* Variables of assembly and of C.
Untypeds ==
  ModuleOf(
     (Func(M, "run") :> Text(<<Var(P, "V"), <<"var", <<"x">>>>>>, M))
     @@ (Var(P, "V") :> Variable("data", 2, NoName, <<>>, P))
     @@ (<<"var", <<"x">>>> :> Variable("bss", 1, NoName, <<>>, M)),
   <<Func(M, "run")>>, {}, {})

MCModules ==
  {Rebuilt(Types("T", "*T"), {}), Rebuilt(Types("T", "*T"), {P}), Rebuilt(Types("T2", "*T2"), {}),
   Referring, Untypeds, WithLocals("L1"), WithLocals("L2"),
   WithShapes(StructOf(Numbered(mL)), "S", Slice(Exported), "[]I"),
   WithShapes(Ptr(StructOf(Numbered(mL))), "*S", Exported, "I"),
   WithShapes(Ptr(StructOf(mL)), "*S", Slice(Unexported), "[]J")}
  \cup {Tabled(order) : order \in {<<Func(M, "H"), Type(pT)>>,
                                   <<Type(pT), Var(M, "N"), Func(M, "F"), Func(M, "H")>>,
                                   <<Var(M, "V"), Func(M, "G"), Gc("bits"), Type(pT), Func(M, "H")>>}}
==============================================================================

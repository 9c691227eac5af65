----------------------------- MODULE MCGoObjects -----------------------------
(***************************************************************************)
(* Instances of GoObjects: archives of Go objects, in which a function has *)
(* its body and its wrapper in one object or in two, in either order, and  *)
(* archives of a Go object and one of C in each of the three formats.      *)
(***************************************************************************)
EXTENDS GoObjects

MCPkgPath == <<"example", "/", "a">>
OtherPkg == <<"b", "/", "c">>

N(base) == <<base, "">>
Symbol(name, kind, size, refs) ==
  [name |-> name, kind |-> kind, abi |-> ABIInternal, size |-> size, wrapper |-> FALSE,
   type |-> NoReference, refs |-> refs, exported |-> FALSE,
   text |-> MCPkgPath \o <<".", name[1]>>, owner |-> MCPkgPath]
Ref(i) == [pkg |-> Self, index |-> i, name |-> NoName]
Other(name) == [pkg |-> "other", index |-> 7, name |-> name]

Body(abi) == [Symbol(N("f"), "text", 20, <<>>) EXCEPT !.abi = abi]
Wrapper(abi, refs) == [Symbol(N("f"), "text", 10, refs) EXCEPT !.abi = abi, !.wrapper = TRUE]
Declared(name) == Symbol(name, "none", 0, <<>>)

\* A type and its forms, the last of which has no package.
TypeTexts ==
  LET T == OtherPkg \o <<".", "T">> IN
  {<<"type:">> \o T, <<"type:", "*", "*">> \o T, <<"type:", "[]">> \o T, <<"type:", "noalg.", "[2]">> \o T}
\* Functions of the other package: an instance of a generic function, its dictionary and
\* a method that comes with an embedded type of a third one.
Held ==
  LET arguments == <<"[">> \o MCPkgPath \o <<".", "T", "]">> IN
  {OtherPkg \o <<".", "G">> \o arguments, OtherPkg \o <<"..dict", ".", "G">> \o arguments,
   OtherPkg \o <<".", "(", "*", "P", ")", ".", "s", "/", "x", ".", "op">>}
TypeAndSixth ==
  {<<text, Symbol(N("data"), "rodata", 0, <<>>)>> : text \in TypeTexts}
  \cup {<<<<"type:">> \o OtherPkg \o <<".", "T">>,
          [Symbol(N("held"), "text", 4, <<Ref(4)>>) EXCEPT !.text = text, !.owner = OtherPkg]>> : text \in Held}

\* Index 1 is the caller, 2 and 3 are f, 4 is a variable, 5 its type, 6 and 7 others.
Table(first, second, var, others, refs) ==
  << Symbol(N("main"), "text", 16, refs), first, second, var,
     [Symbol(N("T"), "rodata", 8, <<Ref(4)>>) EXCEPT !.text = others[1]],
     others[2], Declared(N("elsewhere")) >>
Variables ==
  {[Symbol(N("V"), "data", 8, <<Ref(5)>>) EXCEPT !.type = type, !.exported = TRUE] :
     type \in {Ref(5), Ref(7), Other(NoName), Other(N("U"))}}
Compiled(symbols, pkgdefs, defs) ==
  [format |-> "go", symbols |-> symbols, pkgdefs |-> pkgdefs, defs |-> defs]

References == {<<>>, <<Ref(4), Ref(2)>>, <<Ref(3), Other(N("U"))>>, <<Ref(5), Ref(6), Ref(7)>>}
OneObject ==
  {<<Compiled(Table(fs[1], fs[2], v, others, refs), d, 6)>> :
     fs \in {<<Body(ABIInternal), Wrapper(ABI0, <<Ref(2)>>)>>, <<Wrapper(ABI0, <<Ref(3)>>), Body(ABIInternal)>>},
     v \in Variables, others \in TypeAndSixth, refs \in References, d \in 3 .. 5}

\* f is written in assembly; data may have its bytes there.
Assembled(size) ==
  Compiled(<<Body(ABI0), [Symbol(N("data"), "rodata", size, <<Ref(1)>>) EXCEPT !.abi = ABI0]>>, 0, 2)
TwoObjects ==
  LET Pair(refs, v, others, size) ==
        << Compiled(Table(Wrapper(ABIInternal, <<Ref(3)>>), Declared(N("f")), v, others, refs), 4, 6), Assembled(size) >>
      pairs == {Pair(refs, v, others, size) :
                  refs \in References, v \in Variables, others \in TypeAndSixth, size \in {0, 8}}
  IN pairs \cup {Reverse(p) : p \in pairs}

------------------------------------------------------------------------------
\* Two functions, data behind them, and names for what is elsewhere.
Section1(size) == [kind |-> "text", addr |-> 0, size |-> size, pad |-> 0]
CSections ==
  << Section1(16), [kind |-> "data", addr |-> 16, size |-> 8, pad |-> 0],
     [kind |-> "bss", addr |-> 24, size |-> 8, pad |-> 0] >>
CName(format) == IF format = "macho" THEN <<"c", "__cgo_">> ELSE <<"c", "_cgo_">>
CSymbols(format, base) ==
  << [name |-> CName(format), section |-> 1, value |-> 0, size |-> 8],
     [name |-> N("b"), section |-> 1, value |-> 8, size |-> 8],
     [name |-> N("d"), section |-> 2, value |-> base, size |-> 8],
     [name |-> NoName, section |-> 1, value |-> 0, size |-> 0] >>
Undefineds(format) ==
  << [name |-> IF format = "pe" THEN <<"u", "__imp_">> ELSE N("u"),
      section |-> Undefined, value |-> 0, size |-> 0] >>

CReloc(at, type, symbol) ==
  [section |-> 1, at |-> at, type |-> type, symbol |-> symbol, pcrel |-> TRUE, extern |-> TRUE]
CFile(format, arch, relocs) ==
  [format |-> format, arch |-> arch, sections |-> CSections, relocs |-> relocs,
   symbols |-> CSymbols(format, IF format = "macho" THEN 16 ELSE 0) \o Undefineds(format)]

Types(format, arch) ==
  CASE format = "elf" /\ arch = "amd64" -> {"PLT32", "REX_GOTPCRELX", "TPOFF32"}
    [] format = "elf" /\ arch = "arm64" -> {"CALL26", "ADR_GOT_PAGE", "LD64_GOT_LO12_NC"}
    [] format = "macho" /\ arch = "amd64" -> {"BRANCH"}
    [] format = "macho" /\ arch = "arm64" -> {"BRANCH26", "PAGE21", "PAGEOFF12", "UNSIGNED"}
    [] format = "pe" -> {"REL32", "ADDR64", "SECREL"}
\* An instruction of arm64 is relocated at its own address, the first of a function too;
\* of amd64, where the address in it begins.
Places(arch) == IF arch = "arm64" THEN {0, 4, 8, 12} ELSE {1, 4, 7, 9, 15}
\* The symbols named: a function, data, what is elsewhere and a section, which Mach-O
\* has no symbols for.
CRelocs(format, arch) ==
  {CReloc(at, type, symbol) : at \in Places(arch), type \in Types(format, arch),
                              symbol \in IF format = "macho" THEN {2, 3, 5} ELSE {2, 3, 4, 5}}

WithC ==
  LET caller == Compiled(<<Symbol(N("main"), "text", 16, <<Ref(2)>>),
                           Symbol(<<"c", "_cgo_">>, "noptrbss", 1, <<>>)>>, 2, 2)
      Files(format, arch) ==
        {CFile(format, arch, <<r>>) : r \in CRelocs(format, arch)}
        \cup {CFile(format, arch, <<r, q>>) : r \in CRelocs(format, arch),
                q \in {q \in CRelocs(format, arch) : q.at \in {4, 8, 9} /\ q.symbol = 5}}
  IN {<<caller, f>> : f \in UNION {Files(fa[1], fa[2]) :
        fa \in {<<"elf", "amd64">>, <<"elf", "arm64">>, <<"macho", "amd64">>, <<"macho", "arm64">>, <<"pe", "amd64">>}}}

MCArchives == OneObject \cup TwoObjects \cup WithC
=============================================================================

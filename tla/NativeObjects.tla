----------------------------- MODULE NativeObjects -----------------------------
(***************************************************************************)
(* The objects that the C compiler left in an archive of a cgo package,    *)
(* read as ELF, Mach-O or PE (obj/readobj.1.16.go, obj/pe_relocs.1.19.go): *)
(* their symbols become symbols of the package, and their relocations ones *)
(* of a type that the Go linker has, each moved to the symbol whose bytes  *)
(* it lies in.                                                             *)
(*                                                                         *)
(* A file is a record [format, arch, sections, symbols, relocs].           *)
(*   A section is [kind, addr, size, pad]; the first is the text, and pad  *)
(*   is what conversion from Mach-O adds to its size.                      *)
(*   A symbol is [name, section, value, size]; section is an index, or     *)
(*   Undefined or Common.  Symbols that stand for sections have no name.   *)
(*   A name is a pair <<base, mark>>: mark is a prefix or suffix that the  *)
(*   code looks for, or "".                                                *)
(*   A relocation is [section, at, type, symbol, pcrel, extern]: its place *)
(*   is at bytes into the section, and symbol an index.                    *)
(* What a symbol's bytes are is modelled by where they are copied from:    *)
(* <<section, offset>>, or NoBytes.                                        *)
(***************************************************************************)
EXTENDS Integers, Sequences, SequencesExt, FiniteSetsExt, TLC

Undefined == 0
Common == -1
NoBytes == <<>>
NoName == <<"", "">>

Section(f, s) == f.sections[s.section]
Covers(s, at) == s.value <= at /\ at < s.value + s.size

\* The symbol with the byte at a place: the first, in the order of the file.
Target(symbols, at) == SelectInSeq(symbols, LAMBDA s : s.name # NoName /\ Covers(s, at))

\* Mutant: the offset is left as it was in the section.
Moved_SectionOffset(s, r, type, name) == [type |-> type, offset |-> r.at, name |-> name]

\* A relocation of a symbol, with its offset in the symbol.
Moved(s, r, type, name) == [type |-> type, offset |-> r.at - s.value, name |-> name]

Unsupported(types) == "unsupported" \in types

------------------------------------------------------------------------------
\* convertElfRelocs

\* Of a section without bytes in the file, the text is copied.
ElfSymbol(f, s) ==
  [name |-> s.name, value |-> s.value, size |-> s.size,
   kind |-> IF s.section = Undefined THEN "none"
            ELSE IF s.section = Common THEN "bss"
            ELSE IF Section(f, s).kind = "bss" THEN "data" ELSE Section(f, s).kind,
   bytes |-> IF s.section \in {Undefined, Common} \/ Section(f, s).kind = "bss"
             THEN <<1, s.value>> ELSE <<s.section, s.value>>]

ElfType(arch, type) ==
  CASE arch = "amd64" /\ type \in {"PLT32", "PC32"} -> "PCREL"
    [] arch = "amd64" /\ type = "REX_GOTPCRELX" -> "GOTPCREL"
    [] arch = "arm64" /\ type \in {"CALL26", "JUMP26"} -> "CALLARM64"
    [] arch = "arm64" /\ type = "ADR_GOT_PAGE" -> "ARM64_GOTPCREL"
    [] arch = "arm64" /\ type = "LD64_GOT_LO12_NC" -> "paired"
    [] OTHER -> "unsupported"

\* The relocations of the text that name something, for the first symbol with their
\* offset, in whatever section it is; only if that is in the text are they kept.
ElfRelocs(f, read, n) ==
  IF read[n].kind # "text" THEN <<>>
  ELSE SelectSeq(f.relocs, LAMBDA r :
         r.section = 1 /\ Target(read, r.at) = n /\ f.symbols[r.symbol].name # NoName)

ElfSymbols(f) ==
  LET read == [n \in DOMAIN f.symbols |-> ElfSymbol(f, f.symbols[n])]
      Type(r) == ElfType(f.arch, r.type)
      Of(n) == SelectSeq(ElfRelocs(f, read, n), LAMBDA r : Type(r) # "paired")
      Relocs(n) == [k \in DOMAIN Of(n) |->
                      Moved(read[n], Of(n)[k], Type(Of(n)[k]), f.symbols[Of(n)[k].symbol].name)]
  IN [symbols |-> [n \in DOMAIN read |-> [relocs |-> Relocs(n)] @@ read[n]],
      ok |-> ~Unsupported(UNION {{Type(r) : r \in ToSet(Of(n))} : n \in DOMAIN read})]

------------------------------------------------------------------------------
\* convertMachoRelocs

\* Where a section begins when all are put one behind the other.
MachoStart(f, n) ==
  LET before == {m \in DOMAIN f.sections : f.sections[m].addr < f.sections[n].addr}
  IN MapThenSumSet(LAMBDA m : f.sections[m].size + f.sections[m].pad, before)

\* A symbol ends where the next one begins, or with its section.
MachoSymbol(f, s) ==
  LET behind == {t.value : t \in {t \in ToSet(f.symbols) : t.value > s.value}}
      end == IF behind # {} THEN Min(behind) ELSE Section(f, s).addr + Section(f, s).size IN
  [name |-> s.name, value |-> s.value, size |-> end - s.value, kind |-> Section(f, s).kind,
   bytes |-> IF end > s.value THEN <<s.section, s.value - MachoStart(f, s.section)>> ELSE NoBytes]

MachoType(arch, r) ==
  CASE arch = "amd64" /\ r.pcrel -> "PCREL"
    [] arch = "arm64" /\ r.type = "BRANCH26" -> "CALLARM64"
    [] arch = "arm64" /\ r.type \in {"PAGE21", "GOT_LOAD_PAGE21"} -> "ADDRARM64"
    [] arch = "arm64" /\ r.type \in {"PAGEOFF12", "GOT_LOAD_PAGEOFF12"} -> "paired"
    [] arch = "arm64" /\ r.type = "POINTER_TO_GOT" -> "ARM64_GOTPCREL"
    [] OTHER -> "unsupported"

\* The relocations of a symbol's section that lie behind its first byte.
MachoRelocs(f, section, s) ==
  SelectSeq(f.relocs, LAMBDA r :
    /\ r.section = section /\ s.value < r.at /\ Covers(s, r.at)
    /\ MachoType(f.arch, r) # "paired")

\* A relocation of arm64 that names a section makes the code look for a section whose
\* index is the symbol's value.
MachoSymbols(f) ==
  LET defined == SelectSeq(f.symbols, LAMBDA s : s.name # NoName /\ s.section # Undefined)
      read == [n \in DOMAIN defined |-> MachoSymbol(f, defined[n])]
      Of(n) == MachoRelocs(f, defined[n].section, read[n])
      Type(r) == IF f.arch = "arm64" /\ r.pcrel /\ ~r.extern THEN "unsupported" ELSE MachoType(f.arch, r)
      Relocs(n) == [k \in DOMAIN Of(n) |->
                      Moved(read[n], Of(n)[k], Type(Of(n)[k]), f.symbols[Of(n)[k].symbol].name)]
  IN [symbols |-> [n \in DOMAIN read |-> [relocs |-> Relocs(n)] @@ read[n]],
      ok |-> ~Unsupported(UNION {{Type(r) : r \in ToSet(Of(n))} : n \in DOMAIN read})]

------------------------------------------------------------------------------
\* convertPERelocs

Symbols(f) == ToSet(f.symbols)
IsDefined(s) == s.section \notin {Undefined, Common}

\* preprocessSymbols: the names X of which both X and __imp_X are defined.
DefinedTwice(f) ==
  {s.name[1] : s \in {s \in Symbols(f) : /\ IsDefined(s) /\ s.name[2] = "__imp_"
                                       /\ \E t \in Symbols(f) : IsDefined(t) /\ t.name = <<s.name[1], "">>}}

\* readPESym: __imp_X stands for X, and what follows an @ is left out.
PEName(f, name) ==
  IF name[2] = "@" \/ (name[2] = "__imp_" /\ name[1] \notin DefinedTwice(f))
  THEN <<name[1], "">> ELSE name

\* Where a binary search in the values of the symbols, in the order of the file,
\* finds the first that is larger; they need not be sorted.
PESearch(values, value) ==
  LET Bounds == {b \in (1 .. Len(values) + 1) \X (1 .. Len(values) + 1) : b[1] <= b[2]}
      search[b \in Bounds] ==
        LET middle == (b[1] + b[2]) \div 2 IN
        IF b[1] = b[2] THEN b[1]
        ELSE IF values[middle] > value THEN search[<<b[1], middle>>]
        ELSE search[<<middle + 1, b[2]>>]
  IN search[<<1, Len(values) + 1>>]

\* A symbol ends at the value found, or has the size of its section.  Only those
\* of the text have bytes.
PESymbol(f, values, s) ==
  LET n == PESearch(values, s.value)
      size == IF n <= Len(values) THEN values[n] - s.value ELSE Section(f, s).size IN
  [name |-> s.name, value |-> s.value, size |-> size,
   kind |-> IF Section(f, s).kind = "bss" THEN "noptrbss"
            ELSE IF Section(f, s).kind = "data" THEN "noptrdata" ELSE Section(f, s).kind,
   bytes |-> IF size > 0 /\ s.section = 1 THEN <<1, s.value>> ELSE NoBytes]

PEType(type) ==
  CASE type \in {"REL32", "ADDR32", "ADDR32NB"} -> "PCREL"
    [] type \in {"DIR32", "DIR32NB", "ADDR64"} -> "ADDR"
    [] OTHER -> "unsupported"

\* The relocations of every section that is loaded, except those that name a section.
PERelocs(f) ==
  SelectSeq(f.relocs, LAMBDA r :
    f.symbols[r.symbol].name # NoName /\ f.sections[r.section].kind \notin {"debug", "other"})

\* Each is put on the first symbol with its offset, whatever the section of either.
PESymbols(f) ==
  LET defined == SelectSeq(f.symbols, LAMBDA s : s.name # NoName /\ IsDefined(s))
      values == [n \in DOMAIN defined |-> defined[n].value]
      read == [n \in DOMAIN defined |-> PESymbol(f, values, defined[n])]
      Of(n) == SelectSeq(PERelocs(f), LAMBDA r : Target(read, r.at) = n)
      Relocs(n) == [k \in DOMAIN Of(n) |->
                      Moved(read[n], Of(n)[k], PEType(Of(n)[k].type),
                            PEName(f, f.symbols[Of(n)[k].symbol].name))]
  IN [symbols |-> [n \in DOMAIN read |-> [relocs |-> Relocs(n)] @@ read[n]],
      ok |-> /\ \A n \in DOMAIN defined : Section(f, defined[n]).kind # "other"
             /\ ~Unsupported({PEType(r.type) : r \in ToSet(PERelocs(f))})]

------------------------------------------------------------------------------
\* Which of the symbols read become symbols of the package, in order.
Kept(f, symbols) ==
  SelectSeq(symbols, LAMBDA s :
    /\ s.name # NoName
    /\ CASE f.format = "elf" -> s.kind # "none"
         [] f.format = "macho" -> TRUE
         [] f.format = "pe" -> s.size > 0)

NativeSymbols(f) ==
  CASE f.format = "elf" -> ElfSymbols(f)
    [] f.format = "macho" -> MachoSymbols(f)
    [] f.format = "pe" -> PESymbols(f)
=============================================================================

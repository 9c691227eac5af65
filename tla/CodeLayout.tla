------------------------------ MODULE CodeLayout ------------------------------
(***************************************************************************)
(* The text of a module: epilogues, pc-value tables and the table that     *)
(* finds a function from a pc (ld.go, relocate.go).                        *)
(*                                                                         *)
(* addSymbol appends a function's text to the code and, for each           *)
(* relocation that may turn out to be too far for 32 bits, room for a stub *)
(* behind the function: its epilogue.  readFuncData extends the function's *)
(* pc-value tables so that the runtime can unwind inside a stub.  Load     *)
(* then relocates in any order, the addresses being known, and fills the   *)
(* epilogues of those that are too far; buildModule makes findfunctab; and *)
(* deduplicateTypeDescriptors relocates once more what refers to a type    *)
(* that the program has, which may be near or far where its own was not.   *)
(*                                                                         *)
(* Only the layout is modelled: ranges of bytes, not their contents.  A    *)
(* relocation is a record: its type, its offset in the function, whether   *)
(* its symbol is a constant string (toString) and, for R_PCREL, the two    *)
(* bytes before that offset (opcode, next), whether the register of a MOV  *)
(* is RAX (rax) and whether it is one that relocatePCREL refuses (odd): a  *)
(* MOV not from memory at RIP, a CALL with something to add.  A pc-value   *)
(* table is a sequence of pairs <<value, end pc>>, the varints of its      *)
(* encoding being left out.                                                *)
(***************************************************************************)
EXTENDS Integers, Sequences, FiniteSetsExt

CONSTANTS
  Programs,     \* the linker's input: [arch, epilogues, functions], each function
                \* a record [size, relocs, pcvalues]
  PcBucketSize, \* bytes per bucket of findfunctab: 4096, less in small instances
  NSub,         \* subbuckets per bucket: 16
  ByteMod       \* the values that fit a subbucket: 256

ASSUME ConstantsAssumption ==
  /\ PcBucketSize \in Nat /\ NSub \in Nat \ {0} /\ ByteMod \in Nat \ {0}
  /\ PcBucketSize % NSub = 0 /\ PcBucketSize >= NSub

VARIABLES
  program,  \* the program being linked
  placed,   \* the functions added so far, with their places
  codeLen,  \* len(linker.code)
  todo,     \* the relocations <<function, index>> still to be applied
  far,      \* those found too far, or filled whatever the distance
  filled,   \* those whose stub was written, now or before
  stubs,    \* the stubs that are as written: <<relocation, first, last>>
  code,     \* what became of the instructions relocated so far
  saved,    \* applied*Relocs: relocations of which the instruction was kept
  buckets,  \* findfunctab
  phase

vars == <<program, placed, codeLen, todo, far, filled, stubs, code, saved, buckets, phase>>
instructions == <<code, saved>>

Phases == {"add", "relocate", "build", "deduplicate", "built", "failed"}

PtrSize == 8
RelocSize == 4
CallFar == 6   \* len(x86amd64CALLFarCode)
JmpNear == 5   \* len(x86amd64JMPNearCode)
JmpShort == 2  \* len(x86amd64JMPShortCode)
JmpL == 6      \* len(x86amd64JMPLcode)
MovQ == 15     \* len(x86amd64replaceMOVQcode)
MovQRax == 10  \* len(x86amd64replaceMOVQcodeRAX)
CmpL == 16     \* len(x86amd64replaceCMPLcode)

Align(n) == ((n + PtrSize - 1) \div PtrSize) * PtrSize

Quantum(arch) == IF arch = "arm64" THEN 4 ELSE 1

RelocTypes(arch) ==
  {"ADDR"} \cup IF arch = "arm64" THEN {"ADDRARM64", "ARM64_LDST", "CALLARM64", "ARM64_GOTPCREL"}
                ELSE {"CALL", "PCREL", "GOTPCREL"}

\* A value and the pc at which it ends.
PcPairs == Int \X Nat

\* What the compiler gives the linker: relocations lie in the function's text, and
\* a table of pc-values covers it.
WellFormed(arch, f) ==
  /\ f.size \in Nat \ {0} /\ f.size % Quantum(arch) = 0
  /\ f.relocs \in Seq([type : RelocTypes(arch), offset : Nat, toString : BOOLEAN,
                       opcode : STRING, next : STRING, rax : BOOLEAN, odd : BOOLEAN])
  /\ \A i \in DOMAIN f.relocs : f.relocs[i].offset + RelocSize <= f.size
  /\ f.pcvalues \in Seq(PcPairs) /\ f.pcvalues # <<>>
  /\ \A i \in DOMAIN f.pcvalues :
       /\ f.pcvalues[i][2] % Quantum(arch) = 0
       /\ \A j \in 1 .. i : f.pcvalues[j][2] <= f.pcvalues[i][2]
  /\ f.pcvalues[Len(f.pcvalues)][2] = f.size

ASSUME ProgramsAssumption ==
  \A p \in Programs :
    /\ p.arch \in {"amd64", "arm64"} /\ p.epilogues \in BOOLEAN
    /\ Len(p.functions) \in Nat \ {0} /\ DOMAIN p.functions = 1 .. Len(p.functions)
    /\ \A n \in DOMAIN p.functions : WellFormed(p.arch, p.functions[n])

\* The jump back from the end of a stub to behind the instruction relocated.
ShortJump(r, stubEnd) ==
  LET d == r.offset + RelocSize - stubEnd - JmpShort IN d < 0 /\ d > -128

------------------------------------------------------------------------------
\* addSymbol

\* What addSymbol takes the instruction of an R_PCREL to be.
ReservedAs(r) ==
  CASE r.opcode \in {"LEA", "MOV", "CMPL", "JMP"} -> r.opcode
    [] r.opcode = "CALL2" /\ r.next = "15" -> "CALL2"
    [] OTHER -> IF r.next \in {"CALL", "JMP"} THEN r.next ELSE "none"

NearSize(op) ==
  CASE op = "LEA" -> PtrSize
    [] op = "MOV" -> MovQ + JmpNear
    [] op = "CMPL" -> CmpL + JmpNear
    [] op = "JMP" -> JmpL + PtrSize
    [] op = "CALL2" -> PtrSize
    [] op = "CALL" -> CallFar + JmpNear + PtrSize
    [] OTHER -> 0

\* Mutant: the jump back is measured from the start of the stub.
EpilogueSize_FromStart(r, epilogueOffset) ==
  LET Shorter(op, from) ==
        IF op \in {"MOV", "CMPL", "CALL"} /\ ShortJump(r, from)
          THEN NearSize(op) - (JmpNear - JmpShort) ELSE NearSize(op) IN
  CASE r.type = "CALL" -> Shorter("CALL", 0)
    [] r.type = "PCREL" -> Shorter(ReservedAs(r), epilogueOffset)
    [] r.type \in {"GOTPCREL", "ARM64_GOTPCREL"} -> PtrSize
    [] r.type = "ADDRARM64" -> 4 + 4 + PtrSize
    [] r.type = "ARM64_LDST" -> 4 + 8 + PtrSize
    [] r.type = "CALLARM64" -> 8 + PtrSize
    [] OTHER -> 0

\* The bytes reserved at epilogueOffset.  The distance of the jump back is
\* estimated with the larger size.  For R_CALL the code reads EpilogueOffset
\* before it has set it, so that its estimate is made with offset 0.
EpilogueSize(r, epilogueOffset) ==
  LET Shorter(op, from) ==
        IF op \in {"MOV", "CMPL", "CALL"} /\ ShortJump(r, from + NearSize(op))
          THEN NearSize(op) - (JmpNear - JmpShort) ELSE NearSize(op) IN
  CASE r.type = "CALL" -> Shorter("CALL", 0)
    [] r.type = "PCREL" -> Shorter(ReservedAs(r), epilogueOffset)
    [] r.type \in {"GOTPCREL", "ARM64_GOTPCREL"} -> PtrSize
    [] r.type = "ADDRARM64" -> 4 + 4 + PtrSize
    [] r.type = "ARM64_LDST" -> 4 + 8 + PtrSize
    [] r.type = "CALLARM64" -> 8 + PtrSize
    [] OTHER -> 0

\* NoRelocationEpilogues spares what refers to constant strings.
HasEpilogue(r) == (program.epilogues \/ r.toString) /\ r.type # "ADDR"

Reserved(r, at) == IF HasEpilogue(r) THEN EpilogueSize(r, at) ELSE 0

\* The relocation with its epilogue.
Reserve(r, at) ==
  [type |-> r.type, offset |-> r.offset, toString |-> r.toString,
   opcode |-> r.opcode, next |-> r.next, rax |-> r.rax, odd |-> r.odd,
   epilogueOffset |-> IF HasEpilogue(r) THEN at ELSE 0, epilogueSize |-> Reserved(r, at)]

\* The loop over a function's relocations: how long its text is after each.
Lengths(f) ==
  LET len[i \in 0 .. Len(f.relocs)] ==
        IF i = 0 THEN Align(f.size) ELSE Align(len[i - 1] + Reserved(f.relocs[i], len[i - 1]))
  IN len

------------------------------------------------------------------------------
\* patchPCValuesForReloc

PcQuantum == Quantum(program.arch)

\* The value at pc: that of the first pair whose end is behind it.
PcValue(table, pc) ==
  LET behind == {i \in DOMAIN table : pc < table[i][2]} IN IF behind = {} THEN 0 ELSE Min(behind)

\* Mutant: the value of the last pair is extended, whatever the value was.
PatchPcValues_LastValue(table, r) ==
  LET last == table[Len(table)]
      from == IF Len(table) > 1 THEN table[Len(table) - 1][2] ELSE 0
      end == r.epilogueOffset + r.epilogueSize IN
  IF r.epilogueOffset = 0 THEN table
  ELSE [table EXCEPT ![Len(table)] = <<last[1], from + ((end - from) \div PcQuantum) * PcQuantum>>]

\* The epilogue gets the value of the relocation's own place, by making the last
\* pair longer when it has that value, and with a new pair otherwise.
PatchPcValues(table, r) ==
  LET value == table[PcValue(table, r.offset)][1]
      last == table[Len(table)]
      from == IF Len(table) > 1 THEN table[Len(table) - 1][2] ELSE 0
      end == r.epilogueOffset + r.epilogueSize
      Until(pc) == pc + ((end - pc) \div PcQuantum) * PcQuantum IN
  IF r.epilogueOffset = 0 THEN table
  ELSE IF last[1] = value THEN [table EXCEPT ![Len(table)] = <<value, Until(from)>>]
  ELSE Append(table, <<value, Until(last[2])>>)

PatchAll(original, relocs) ==
  LET table[i \in 0 .. Len(relocs)] ==
        IF i = 0 THEN original ELSE PatchPcValues(table[i - 1], relocs[i])
  IN table[Len(relocs)]

\* The function added to the code at its end, with its epilogues and tables.
LaidOut(f) ==
  LET relocs == [i \in 1 .. Len(f.relocs) |-> Reserve(f.relocs[i], Lengths(f)[i - 1])]
  IN [size |-> f.size, relocs |-> relocs, pcvalues |-> PatchAll(f.pcvalues, relocs),
      offset |-> codeLen, len |-> Lengths(f)[Len(f.relocs)]]

Init ==
  /\ program \in Programs
  /\ placed = <<>> /\ codeLen = 0
  /\ todo = {} /\ far = {} /\ filled = {} /\ stubs = {} /\ code = <<>> /\ saved = {}
  /\ buckets = <<>>
  /\ phase = "add"

AddSymbol ==
  /\ phase = "add"
  /\ LET f == LaidOut(program.functions[Len(placed) + 1])
         n == Len(placed) + 1 IN
     /\ placed' = Append(placed, f)
     /\ codeLen' = codeLen + f.len
     /\ todo' = todo \cup {<<n, i>> : i \in DOMAIN f.relocs}
     /\ phase' = IF n < Len(program.functions) THEN "add"
                 ELSE IF todo' = {} THEN "build" ELSE "relocate"
  /\ UNCHANGED <<program, far, filled, stubs, instructions, buckets>>

------------------------------------------------------------------------------
\* relocate

Reloc(x) == placed[x[1]].relocs[x[2]]
\* The place of the epilogue in the code.
Epilogue(x) == placed[x[1]].offset + Reloc(x).epilogueOffset

\* What relocatePCREL takes the instruction to be.
FilledAs(r) ==
  CASE r.opcode \in {"LEA", "MOV", "CMPL", "CALL2"} -> r.opcode
    [] OTHER -> IF r.next \in {"CALL", "JMP"} THEN r.next ELSE "none"

\* The bytes of a stub's code with the jump back behind it.
WithJump(r, size) ==
  size + IF ShortJump(r, r.epilogueOffset + size) THEN JmpShort ELSE JmpNear

\* relocateCALL: a call through the address, the jump back and the address.
CallStub(r) == WithJump(r, CallFar) + PtrSize

\* relocatePCREL
PcrelStub(r) ==
  LET op == FilledAs(r) IN
  CASE op \in {"LEA", "CALL2"} -> PtrSize
    [] op = "MOV" -> WithJump(r, IF r.rax THEN MovQRax ELSE MovQ)
    [] op = "CMPL" -> WithJump(r, CmpL)
    [] op = "JMP" -> JmpL + PtrSize
    [] op = "CALL" -> CallStub(r)

\* relocateADRP: one load, the load or store that followed the ADRP if there was
\* one, the branch back and the address; for a GOT entry the address alone.
AdrpStub(r) ==
  CASE r.type = "ADDRARM64" -> 4 + 4 + PtrSize
    [] r.type = "ARM64_LDST" -> 4 + 4 + 4 + PtrSize
    [] r.type = "ARM64_GOTPCREL" -> PtrSize

\* relocateCALLARM: a load, a branch and the address.
CallArmStub == 8 + PtrSize

StubSize(r) ==
  CASE r.type = "CALL" -> CallStub(r)
    [] r.type = "PCREL" -> PcrelStub(r)
    [] r.type = "GOTPCREL" -> PtrSize
    [] r.type = "CALLARM64" -> CallArmStub
    [] OTHER -> AdrpStub(r)

Stub(x) == <<x, Epilogue(x), Epilogue(x) + StubSize(Reloc(x)) - 1>>
\* The stubs left when the bytes from first to last are written.
Overwritten(first, last) == {s \in stubs : first <= last /\ first <= s[3] /\ s[2] <= last}
\* Each relocation first makes nops of what is in its epilogue.
Cleared(x) == stubs \ Overwritten(Epilogue(x), Epilogue(x) + Reloc(x).epilogueSize - 1)

IsAdrp(r) == r.type \in {"ADDRARM64", "ARM64_LDST", "ARM64_GOTPCREL"}

IsCmpl(r) == r.type = "PCREL" /\ FilledAs(r) = "CMPL"

\* A CALL or JMP whose opcode is taken for the second byte of another instruction.
Misread(r) == r.type = "PCREL" /\ r.next \in {"CALL", "JMP"} /\ r.opcode \in {"LEA", "CMPL", "CALL2"}

\* relocateADRP and relocatePCREL start from the instruction as they first found it;
\* but of a CMPL seven bytes are written over and six were kept, so that what it
\* compares with is a nop from then on.
Start(x) ==
  IF x \notin DOMAIN code THEN "original"
  ELSE IF x \notin saved THEN code[x]
  ELSE IF IsCmpl(Reloc(x)) /\ code[x] # "near" THEN "cut" ELSE "original"

\* The jump to a stub is no instruction to start from, and the two halves of an
\* address are or'ed into those that use it.
Became(x, outcome) ==
  IF \/ Start(x) = "cut"
     \/ Start(x) = "stub" /\ (Reloc(x).type = "PCREL" \/ IsAdrp(Reloc(x)))
     \/ Start(x) = "near" /\ IsAdrp(Reloc(x))
     \/ outcome = "stub" /\ Misread(Reloc(x))
    THEN "garbled" ELSE outcome

Applied(x, outcome) ==
  /\ code' = [y \in DOMAIN code \cup {x} |-> IF y = x THEN Became(x, outcome) ELSE code[y]]
  /\ saved' = IF Reloc(x).type = "PCREL" \/ IsAdrp(Reloc(x)) THEN saved \cup {x} ELSE saved
  /\ todo' = todo \ {x}
  /\ phase' = IF todo' # {} THEN phase ELSE IF phase = "relocate" THEN "build" ELSE "built"
  /\ UNCHANGED <<program, placed, codeLen, buckets>>

Relocating(x) == phase \in {"relocate", "deduplicate"} /\ x \in todo

\* The distance fits the instruction.  A relocation through the global offset
\* table has its address in the epilogue whatever the distance.
RelocateNear(x) ==
  /\ Relocating(x)
  /\ Reloc(x).type \notin {"GOTPCREL", "ARM64_GOTPCREL"}
  /\ stubs' = Cleared(x)
  /\ far' = far \ {x} /\ filled' = filled
  /\ Applied(x, "near")

\* relocatePCREL knows the instruction.
CanFill(r) ==
  r.type = "PCREL" => FilledAs(r) # "none" /\ ~(FilledAs(r) \in {"MOV", "CALL"} /\ r.odd)

\* R_GOTPCREL does not look whether there is an epilogue, and R_ARM64_GOTPCREL only
\* whether it lies before the instruction.
Unasked(r) == r.type = "GOTPCREL" \/ (r.type = "ARM64_GOTPCREL" /\ r.offset = 0)

\* The distance is too large, or ForceTestRelocationEpilogues is set.
RelocateFar(x) ==
  /\ Relocating(x)
  /\ Reloc(x).epilogueSize > 0 \/ Unasked(Reloc(x))
  /\ CanFill(Reloc(x))
  /\ stubs' = (Cleared(x) \ Overwritten(Stub(x)[2], Stub(x)[3])) \cup {Stub(x)}
  /\ far' = far \cup {x} /\ filled' = filled \cup {x}
  /\ Applied(x, "stub")

\* Too far without an epilogue or at another instruction, or an address that a
\* load or store does not take: Load fails.
FailFar(x) ==
  /\ Relocating(x)
  /\ \/ Reloc(x).epilogueSize = 0 /\ Reloc(x).type # "ADDR" /\ ~Unasked(Reloc(x))
     \/ Reloc(x).type = "ARM64_LDST" \/ ~CanFill(Reloc(x))
  /\ phase' = "failed"
  /\ stubs' = Cleared(x)
  /\ UNCHANGED <<program, placed, codeLen, todo, far, filled, instructions, buckets>>

------------------------------------------------------------------------------
\* buildModule, and the runtime's lookup in what it builds.

SubSize == PcBucketSize \div NSub
Entry(k) == IF k < Len(placed) THEN placed[k + 1].offset ELSE codeLen

\* Mutant: a subbucket is given to the last function that starts in it.
AddBuckets_LastWins(table, k) ==
  LET lb == Entry(k) \div PcBucketSize
      li == (Entry(k) % PcBucketSize) \div SubSize
      b == Entry(k + 1) \div PcBucketSize
      i == IF lb < b THEN NSub - 1 ELSE (Entry(k + 1) % PcBucketSize) \div SubSize
      new == [idx |-> k, sub |-> [n \in 0 .. NSub - 1 |-> 0]]
      grown == table \o [m \in 1 .. b - Len(table) + 1 |-> new] IN
  [grown EXCEPT ![lb + 1].sub =
     [n \in 0 .. NSub - 1 |->
        IF n \in li .. i THEN (k - grown[lb + 1].idx) % ByteMod ELSE @[n]]]

\* Function k, counted from 0, in the buckets that it and the next one start in.
AddBuckets(table, k) ==
  LET lb == Entry(k) \div PcBucketSize
      li == (Entry(k) % PcBucketSize) \div SubSize
      b == Entry(k + 1) \div PcBucketSize
      i == IF lb < b THEN NSub - 1 ELSE (Entry(k + 1) % PcBucketSize) \div SubSize
      new == [idx |-> k, sub |-> [n \in 0 .. NSub - 1 |-> 0]]
      grown == table \o [m \in 1 .. b - Len(table) + 1 |-> new] IN
  [grown EXCEPT ![lb + 1].sub =
     [n \in 0 .. NSub - 1 |->
        IF n \in li + 1 .. i /\ @[n] = 0 THEN (k - grown[lb + 1].idx) % ByteMod ELSE @[n]]]

\* What may refer to a type.
OfTypes ==
  {x \in DOMAIN code :
     Reloc(x).type \in {"ADDR", "GOTPCREL"} \/ IsAdrp(Reloc(x))
       \/ (Reloc(x).type = "PCREL" /\ Reloc(x).opcode \in {"LEA", "MOV", "CMPL"})}

FindFuncTab ==
  LET table[k \in 0 .. Len(placed)] == IF k = 0 THEN <<>> ELSE AddBuckets(table[k - 1], k - 1)
  IN table[Len(placed)]

BuildModule ==
  /\ phase = "build"
  /\ buckets' = FindFuncTab
  /\ todo' \in SUBSET OfTypes
  /\ phase' = IF todo' = {} THEN "built" ELSE "deduplicate"
  /\ UNCHANGED <<program, placed, codeLen, far, filled, stubs, instructions>>

\* ftab: an entry for minpc, one for each function and one for maxpc.
Ftab(n) == IF n = 0 THEN 0 ELSE Entry(n - 1)

\* runtime.findfunc: the first entry from the subbucket's on that ends behind pc,
\* or -1 for "bad findfunctab".
FindFunc(pc) ==
  LET bucket == buckets[pc \div PcBucketSize + 1]
      first == bucket.idx + bucket.sub[(pc % PcBucketSize) \div SubSize]
      behind == {n \in first .. Len(placed) : pc < Ftab(n + 1)} IN
  IF behind = {} THEN -1 ELSE Min(behind)

Finished == phase \in {"built", "failed"} /\ UNCHANGED vars

Next ==
  \/ AddSymbol
  \/ \E x \in todo : RelocateNear(x) \/ RelocateFar(x) \/ FailFar(x)
  \/ BuildModule
  \/ Finished

Spec == Init /\ [][Next]_vars

------------------------------------------------------------------------------
TypeOK ==
  /\ program \in Programs
  /\ Len(placed) <= Len(program.functions) /\ codeLen \in Nat
  /\ far \subseteq filled /\ filled \subseteq DOMAIN code
  /\ {s[1] : s \in stubs} \subseteq far /\ saved \subseteq DOMAIN code
  /\ phase \in Phases

\* The programs for which less is reserved than is written, by what they contain: an
\* R_CALL near the start of a function and far from its own epilogue, a CALL behind a
\* byte that addSymbol takes for a JMP, and an address that is written although no
\* epilogue was made.
TooShort(r) ==
  \/ r.type = "CALL" /\ r.offset < 17 /\ r.epilogueOffset >= r.offset + 124
  \/ r.type = "PCREL" /\ r.opcode = "JMP" /\ r.next = "CALL"
  \/ Unasked(r) /\ ~HasEpilogue(r)

\* The stub of x is in the bytes that addSymbol has reserved for it, behind the text.
Fits(x) ==
  /\ placed[x[1]].offset + placed[x[1]].size <= Stub(x)[2]
  /\ Stub(x)[3] < Epilogue(x) + Reloc(x).epilogueSize

Meet(s, t) == s[2] <= t[3] /\ t[2] <= s[3]
\* No stub that is too long for its epilogue was written to where that of x is.
Spared(x) ==
  ~TooShort(Reloc(x)) /\ \A y \in filled : TooShort(Reloc(y)) => ~Meet(Stub(x), Stub(y))

\* Whatever the order of the relocations and whichever of them are too far, in every
\* program that is linked a stub lies in what was reserved for it and before the next
\* function, unless it is one of the three kinds that are too long: those never do,
\* though addSymbol says that it pads pessimistically (ld.go:289).  If none of those was
\* written across a stub, it is whole in the end.  The instruction jumps to its
\* stub if the relocation was too far when it was last applied and is the one the
\* compiler wrote, with the right address, if it was not, but for a CMPL relocated
\* again after it once was too far, and for an instruction that was misread.
StubsIntact ==
  phase # "failed" =>
    /\ \A x \in filled :
         /\ Fits(x) <=> ~TooShort(Reloc(x))
         /\ Fits(x) => Stub(x)[3] < placed[x[1]].offset + placed[x[1]].len
    /\ \A x \in far : Spared(x) => Stub(x) \in stubs
    /\ \A x \in DOMAIN code :
         \/ code[x] = IF x \in far THEN "stub" ELSE "near"
         \/ IsCmpl(Reloc(x)) /\ x \in filled
         \/ Misread(Reloc(x)) /\ x \in far

\* While a goroutine runs in a stub the runtime unwinds it with the values of the
\* instruction that jumped there; the function's own text keeps its values.
PcValuesCover ==
  \A n \in DOMAIN placed :
    LET f == placed[n]
        original == program.functions[n].pcvalues
        Value(table, pc) == table[PcValue(table, pc)][1] IN
    /\ \A pc \in 0 .. f.size - 1 : Value(f.pcvalues, pc) = Value(original, pc)
    /\ \A i \in DOMAIN f.relocs :
         LET r == f.relocs[i] IN
         \A pc \in r.epilogueOffset .. r.epilogueOffset + r.epilogueSize - 1 :
           PcValue(f.pcvalues, pc) # 0 /\ Value(f.pcvalues, pc) = Value(original, r.offset)

\* The runtime finds the function of every pc of the module, although a subbucket
\* has but a byte for the difference of two indices.
FindFuncFinds ==
  phase = "built" =>
    \A k \in 0 .. Len(placed) - 1 : \A pc \in Entry(k) .. Entry(k + 1) - 1 : FindFunc(pc) = k + 1
=============================================================================

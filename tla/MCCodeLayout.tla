----------------------------- MODULE MCCodeLayout -----------------------------
(***************************************************************************)
(* Instances of CodeLayout.  A program is a function with two relocations, *)
(* of every kind and about 128 bytes from their epilogues, followed by two *)
(* small functions; one more has many functions to a bucket.               *)
(***************************************************************************)
EXTENDS CodeLayout, TLC

Pcrel(opcode, next, rax) ==
  [type |-> "PCREL", toString |-> FALSE, opcode |-> opcode, next |-> next, rax |-> rax, odd |-> FALSE]
Plain(type) == [Pcrel("other", "other", FALSE) EXCEPT !.type = type]
Odd(kind) == [kind EXCEPT !.odd = TRUE]
StringOf(kind) == [kind EXCEPT !.toString = TRUE]

Amd64Kinds ==
  {Plain("CALL"), Plain("GOTPCREL"), Plain("ADDR"),
   Pcrel("LEA", "other", FALSE), Pcrel("CMPL", "other", FALSE),
   Pcrel("MOV", "other", FALSE), Pcrel("MOV", "other", TRUE),
   Pcrel("CALL2", "15", FALSE), Pcrel("other", "CALL", FALSE), Pcrel("other", "JMP", FALSE),
   Pcrel("JMP", "other", FALSE)}
Arm64Kinds ==
  {Plain("ADDRARM64"), Plain("ARM64_LDST"), Plain("CALLARM64"), Plain("ARM64_GOTPCREL")}

At(kind, offset) == kind @@ [offset |-> offset]
\* The value changes after four bytes and changes back for the last eight.
Steps(size) == << <<0, 4>>, <<1, size - 8>>, <<0, size>> >>
Small(kind) == [size |-> 16, relocs |-> <<At(kind, 8)>>, pcvalues |-> << <<0, 16>> >>]
Bare == [size |-> 12, relocs |-> <<>>, pcvalues |-> << <<0, 12>> >>]

Program(arch, epilogues, size, offset, first, second) ==
  [arch |-> arch, epilogues |-> epilogues,
   functions |-> << [size |-> size, pcvalues |-> Steps(size),
                     relocs |-> <<At(first, offset), At(second, size - 4)>>],
                    Small(second), Bare >>]

\* An instruction taken for another, and instructions that relocatePCREL refuses.
Misreadings == {Pcrel("JMP", "CALL", FALSE), Pcrel("CALL2", "CALL", FALSE), Pcrel("CMPL", "JMP", FALSE)}
Refused == {Odd(Pcrel("MOV", "other", FALSE)), Odd(Pcrel("other", "CALL", FALSE))}

\* A function that calls another at its start, and around where that is too early.
EarlyCalls ==
  {Program("amd64", TRUE, 128, offset, Plain("CALL"), l) : offset \in {4, 5, 16}, l \in Amd64Kinds}
  \cup {Program("amd64", TRUE, 144, offset, Plain("CALL"), l) : offset \in {16, 17}, l \in Amd64Kinds}

MCPrograms ==
  EarlyCalls
  \cup {Program("amd64", TRUE, size, offset, k, l) :
     size \in {128, 144}, offset \in 17 .. 24, k \in Amd64Kinds,
     l \in {Plain("CALL"), Pcrel("CMPL", "other", FALSE)}}
  \cup {Program("amd64", TRUE, 28, offset, k, l) :
     offset \in {5, 14}, k \in Amd64Kinds \cup Misreadings \cup Refused, l \in Amd64Kinds}
  \cup {Program("amd64", TRUE, 28, 5, k, l) : k \in Amd64Kinds, l \in Misreadings \cup Refused}
  \cup {Program("amd64", FALSE, 28, 5, k, l) : k \in Amd64Kinds,
     l \in {Plain("CALL"), Plain("GOTPCREL"), StringOf(Pcrel("LEA", "other", FALSE)), StringOf(Plain("GOTPCREL"))}}
  \cup {Program("arm64", TRUE, 28, 8, k, l) : k \in Arm64Kinds, l \in Arm64Kinds}
  \cup {Program("arm64", FALSE, 28, offset, k, l) : offset \in {0, 8},
     k \in {Plain("ARM64_GOTPCREL"), Plain("CALLARM64")}, l \in {Plain("CALLARM64"), StringOf(Plain("ADDRARM64"))}}
  \cup {[arch |-> "amd64", epilogues |-> TRUE,
         functions |-> [n \in 1 .. 20 |-> IF n \in {3, 12} THEN Small(Plain("CALL")) ELSE Bare]]}
  \cup {[arch |-> "arm64", epilogues |-> FALSE, functions |-> <<Bare, Bare>>]}
=============================================================================

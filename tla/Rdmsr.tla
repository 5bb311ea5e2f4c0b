------------------------------- MODULE Rdmsr -------------------------------
(***************************************************************************)
(* rdmsr.c of msr-tools: the options are folded into one number (mode) and a  *)
(* bit field, the register is read and printed whole, the field is cut out of *)
(* it, and a switch over the mode decides how that is printed.                *)
(*                                                                          *)
(* The registers are the machine's; others write them at any time.  How the   *)
(* arguments are parsed is left out: an option has its value, or is wrong.     *)
(* What goes to stdout is a sequence of numbers: the base and the padding of    *)
(* the second follow from mode and width.                                     *)
(***************************************************************************)
EXTENDS Powers, Sequences

CONSTANTS
  Width,   \* bits of a register (64)
  NumCpus  \* CPUs of the machine; -p may name another one

VARIABLES
  registers,        \* the register with the number asked for, of each CPU
  pc,
  mode,             \* the format, and the flags mo_fill and mo_c
  cpu,
  highbit, lowbit,  \* the field
  data,
  width,
  out,              \* the numbers printed, in their order
  exit,             \* the exit status
  asked,            \* history: the last format option,
  raw               \* and what was read

command == <<mode, cpu, highbit, lowbit, asked>>
vars    == <<pc, command, data, width, out, exit, raw>>

Formats == {"hex", "dec", "oct", "raw", "uns", "chx"}

\* mo_hex, .., mo_chx, below mo_mask.
Code(fmt) ==
  CASE fmt = "hex" -> 1 [] fmt = "dec" -> 2 [] fmt = "oct" -> 3
    [] fmt = "raw" -> 4 [] fmt = "uns" -> 5 [] fmt = "chx" -> 6
Masked == 16
Fill   == 64
C      == 128

FormatOf(m) == m % Masked
Filled(m)   == (m \div Fill) % 2 = 1
ForC(m)     == (m \div C) % 2 = 1

\* Digits of the largest number of n bits; the table has an entry for 0.
decdigits ==
  << 1, 1, 1, 1, 2, 2, 2, 3, 3, 3, 4, 4, 4, 4, 5, 5,
     5, 6, 6, 6, 7, 7, 7, 7, 8, 8, 8, 9, 9, 9, 10, 10,
     10, 10, 11, 11, 11, 12, 12, 12, 13, 13, 13, 13, 14, 14, 14, 15,
     15, 15, 16, 16, 16, 16, 17, 17, 17, 18, 18, 18, 19, 19, 19, 19,
     20 >>
DecDigits(n) == decdigits[n + 1]

Bits == highbit - lowbit + 1

Init ==
  /\ pc = "options"
  /\ mode = Code("hex") /\ asked = "hex"
  /\ cpu = 0
  /\ highbit = Width - 1 /\ lowbit = 0
  /\ data = 0 /\ raw = 0 /\ width = 1 /\ out = <<>> /\ exit = 0

-----------------------------------------------------------------------------
(* The options, in any number and order. *)

Format_BugMaskKept(fmt) ==
  /\ pc = "options"
  /\ mode' = IF FormatOf(mode) = Code(fmt) THEN mode ELSE mode + Code(fmt)
  /\ asked' = fmt
  /\ UNCHANGED <<pc, cpu, highbit, lowbit, data, width, out, exit, raw>>

\* -x, -d, -o, -r, -u, -X
Format(fmt) ==
  /\ pc = "options"
  /\ mode' = (mode \div Masked) * Masked + Code(fmt)
  /\ asked' = fmt
  /\ UNCHANGED <<pc, cpu, highbit, lowbit, data, width, out, exit, raw>>

\* -0, -c
Flag(bit) ==
  /\ pc = "options"
  /\ mode' = IF (mode \div bit) % 2 = 1 THEN mode ELSE mode + bit
  /\ UNCHANGED <<pc, cpu, highbit, lowbit, data, width, out, exit, asked, raw>>

\* -p
Processor ==
  /\ pc = "options"
  /\ cpu' \in 0..NumCpus
  /\ UNCHANGED <<pc, mode, highbit, lowbit, data, width, out, exit, asked, raw>>

Bitfield_BugAnyOrder ==
  /\ pc = "options"
  /\ highbit' \in 0..(Width - 1) /\ lowbit' \in 0..(Width - 1)
  /\ UNCHANGED <<pc, mode, cpu, data, width, out, exit, asked, raw>>

\* -f h:l
Bitfield ==
  /\ pc = "options"
  /\ \E h \in 0..(Width - 1) : \E l \in 0..h : highbit' = h /\ lowbit' = l
  /\ UNCHANGED <<pc, mode, cpu, data, width, out, exit, asked, raw>>

Leave(status) == pc' = "exit" /\ exit' = status

\* -h and -V; a wrong option, a wrong value of one, or not one register number.
Quit ==
  /\ pc = "options"
  /\ \E status \in {0, 127} : Leave(status)
  /\ UNCHANGED <<command, data, width, out, raw>>

-----------------------------------------------------------------------------

OpenDevice ==
  /\ pc = "options"
  /\ \/ cpu < NumCpus /\ pc' = "read" /\ UNCHANGED exit
     \/ cpu >= NumCpus /\ Leave(2)
     \/ \E status \in {3, 127} : Leave(status)
  /\ UNCHANGED <<command, data, width, out, raw>>

ReadRegister ==
  /\ pc = "read"
  /\ \/ pc' = "register" /\ data' = registers[cpu] /\ raw' = data' /\ UNCHANGED exit
     \/ \E status \in {4, 127} : Leave(status) /\ UNCHANGED <<data, raw>>
  /\ UNCHANGED <<command, width, out>>

\* "reg data: ": the whole register, whatever the options.
PrintRegister ==
  /\ pc = "register"
  /\ out' = Append(out, data)
  /\ pc' = "field"
  /\ UNCHANGED <<command, data, width, exit, raw>>

\* A field of all bits is not masked: 1ULL << 64 is undefined.
CutField_BugMaskFirst ==
  /\ pc = "field"
  /\ data' = IF Bits < Width THEN (data % Bit(Bits)) \div Bit(lowbit) ELSE data
  /\ pc' = "switch"
  /\ UNCHANGED <<command, width, out, exit, raw>>

CutField ==
  /\ pc = "field"
  /\ data' = IF Bits < Width THEN (data \div Bit(lowbit)) % Bit(Bits) ELSE data
  /\ pc' = "switch"
  /\ UNCHANGED <<command, width, out, exit, raw>>

\* If the highest bit of the field is set, it is cleared and data = -data.
Negate(d) ==
  IF d >= Bit(Bits - 1) THEN (Bit(Width) - (d - Bit(Bits - 1))) % Bit(Width) ELSE d

FillWidth_BugNoSign ==
  CASE mode \in {Code("hex") + Fill, Code("chx") + Fill,
                 Code("hex") + Fill + C, Code("chx") + Fill + C} -> (Bits + 3) \div 4
    [] mode \in {Code("oct") + Fill, Code("oct") + Fill + C} -> (Bits + 2) \div 3
    [] mode = Code("dec") + Fill -> DecDigits(Bits - 1)
    [] mode = Code("uns") + Fill -> DecDigits(Bits)
    [] OTHER -> 1

\* The width of the cases that fill with zeroes, and that of the others.  Decimal
\* constants for C cannot begin with zeroes.
FillWidth ==
  CASE mode \in {Code("hex") + Fill, Code("chx") + Fill,
                 Code("hex") + Fill + C, Code("chx") + Fill + C} -> (Bits + 3) \div 4
    [] mode \in {Code("oct") + Fill, Code("oct") + Fill + C} -> (Bits + 2) \div 3
    [] mode = Code("dec") + Fill -> DecDigits(Bits - 1) + 1
    [] mode = Code("uns") + Fill -> DecDigits(Bits)
    [] OTHER -> 1

Cases == {Code(fmt) + flags : fmt \in Formats, flags \in {0, Fill, C, Fill + C}}

\* switch (mode): one of its cases, or "Impossible case".
Switch ==
  /\ pc = "switch"
  /\ \/ /\ mode \in Cases
        /\ data' = IF FormatOf(mode) = Code("dec") THEN Negate(data) ELSE data
        /\ width' = FillWidth
        /\ pc' = "print"
        /\ UNCHANGED exit
     \/ mode \notin Cases /\ pc' = "impossible" /\ exit' = 127 /\ UNCHANGED <<data, width>>
  /\ UNCHANGED <<command, out, raw>>

\* %lld takes data for a signed number.
Shown ==
  IF FormatOf(mode) = Code("dec") /\ data >= Bit(Width - 1) THEN data - Bit(Width) ELSE data

Output ==
  /\ pc = "print"
  /\ out' = Append(out, Shown)
  /\ pc' = "printed" /\ exit' = 0
  /\ UNCHANGED <<command, data, width, raw>>

Next ==
  \/ \E fmt \in Formats : Format(fmt)
  \/ Flag(Fill) \/ Flag(C) \/ Processor \/ Bitfield \/ Quit
  \/ OpenDevice \/ ReadRegister \/ PrintRegister \/ CutField \/ Switch \/ Output

Spec == Init /\ [][Next]_vars

-----------------------------------------------------------------------------
(* What is printed. *)

Base ==
  CASE FormatOf(mode) \in {Code("hex"), Code("chx")} -> 16
    [] FormatOf(mode) = Code("oct") -> 8
    [] OTHER -> 10

\* The digits of n in base b.
Digits(n, b) == CHOOSE k \in 1..Width : n < Power(b)[k] /\ (k = 1 \/ Power(b)[k - 1] <= n)

\* The bits asked for of what was read, the highest of them, and what was made of them.
Field  == (raw \div Bit(lowbit)) % Bit(Bits)
Sign   == Bit(Bits - 1)
Answer == out[Len(out)]

Length(n) == IF n < 0 THEN 1 + Digits(-n, Base) ELSE Digits(n, Base)

-----------------------------------------------------------------------------
(* Correctness. *)

TypeOK ==
  /\ pc \in {"options", "read", "register", "field", "switch", "print", "printed", "impossible", "exit"}
  /\ mode \in 0..255
  /\ cpu \in 0..NumCpus
  /\ highbit \in 0..(Width - 1) /\ lowbit \in 0..highbit
  /\ data \in 0..(Bit(Width) - 1) /\ raw \in 0..(Bit(Width) - 1)
  /\ width \in 1..(Width + 1)
  /\ out \in Seq(Int)
  /\ exit \in {0, 2, 3, 4, 127}
  /\ asked \in Formats

\* However the options are combined and repeated, the switch has a case for the
\* mode they make.
NeverImpossible == pc # "impossible"

\* The number that the switch prints is the field h:l of the register as it was read,
\* in the base of the last format option.  "Make sure we get sign correct" (line 223):
\* of a field whose highest bit is set, -d makes a number that is not positive.
ShowsField ==
  pc = "printed" =>
    /\ FormatOf(mode) = Code(asked)
    /\ IF asked = "dec" /\ Field >= Sign THEN Answer <= 0 ELSE Answer = Field

\* With -0 the columns align: no number is longer than the width, and one of the
\* numbers that can be in the field has all its digits.
FillFits ==
  pc = "printed" /\ Filled(mode) /\ asked # "raw" /\ ~(ForC(mode) /\ asked \in {"dec", "uns"}) =>
    /\ Length(Answer) <= width
    /\ width = IF asked = "dec" THEN Digits(Sign, 10) + 1 ELSE Digits(Bit(Bits) - 1, Base)

\* "--bitfield h:l  -f  Output bits [h:l] only" (line 88), "--decimal  -d  Signed decimal
\* output" (line 81): of a field of three or more bits that are all set, -d prints -1 and
\* nothing else.  The code prints the whole register first, and takes the highest bit of
\* the field for the sign of the others.
SignedFieldOnly ==
  pc = "printed" /\ asked = "dec" /\ Bits > 2 /\ Field = Bit(Bits) - 1 => out = <<-1>>
=============================================================================

--------------------------- MODULE MsrToolsProofs ---------------------------
(***************************************************************************)
(* Theorems about the tools and rdmsr together.  Neither knows of the other:   *)
(* a run of MsrTools is one of CounterTools beside one of Rdmsr, for which     *)
(* the machine changes the register.  What was proved of each carries over.    *)
(***************************************************************************)
EXTENDS MsrTools, CounterReportProofs

RdP == INSTANCE RdmsrProofs WITH
        registers <- [n \in Cpus |-> msr[n].count["pmc0"] % Bit(Width)], NumCpus <- NumCores

-----------------------------------------------------------------------------
(* The instance of MsrTools and that of the proofs are the same.              *)

LEMMA SameData ==
  /\ Rd!TypeOK <=> RdP!TypeOK
  /\ Rd!NeverImpossible <=> RdP!NeverImpossible
  /\ Rd!ShowsField <=> RdP!ShowsField
  /\ Rd!FillFits <=> RdP!FillFits
<1>1. Rd!TypeOK <=> RdP!TypeOK
  BY DEF Rd!TypeOK, RdP!TypeOK, Rd!Formats, RdP!Formats, Rd!Bit, RdP!Bit, Rd!Power, RdP!Power
<1>2. Rd!NeverImpossible <=> RdP!NeverImpossible
  BY DEF Rd!NeverImpossible, RdP!NeverImpossible
<1>3. Rd!ShowsField <=> RdP!ShowsField
  BY DEF Rd!ShowsField, RdP!ShowsField, Rd!Bit, RdP!Bit, Rd!Power, RdP!Power, Rd!Bits, RdP!Bits,
         Rd!FormatOf, RdP!FormatOf, Rd!Masked, RdP!Masked, Rd!Code, RdP!Code,
         Rd!Field, RdP!Field, Rd!Sign, RdP!Sign, Rd!Answer, RdP!Answer
<1>4. Rd!FillFits <=> RdP!FillFits
  BY DEF Rd!FillFits, RdP!FillFits, Rd!Bit, RdP!Bit, Rd!Power, RdP!Power, Rd!Bits, RdP!Bits,
         Rd!FormatOf, RdP!FormatOf, Rd!Masked, RdP!Masked, Rd!Code, RdP!Code, Rd!Sign, RdP!Sign,
         Rd!Answer, RdP!Answer, Rd!Filled, RdP!Filled, Rd!Fill, RdP!Fill, Rd!ForC, RdP!ForC, Rd!C, RdP!C,
         Rd!Length, RdP!Length, Rd!Digits, RdP!Digits, Rd!Base, RdP!Base
<1> QED BY <1>1, <1>2, <1>3, <1>4

LEMMA SameInit == Rd!Init <=> RdP!Init
  BY DEF Rd!Init, RdP!Init, Rd!Code, RdP!Code

LEMMA SameNext == Rd!Next <=> RdP!Next
<1> USE DEF Rd!command, RdP!command, Rd!Leave, RdP!Leave
<1>1. ASSUME NEW fmt PROVE Rd!Format(fmt) <=> RdP!Format(fmt)
  BY DEF Rd!Format, RdP!Format, Rd!Masked, RdP!Masked, Rd!Code, RdP!Code
<1>2. ASSUME NEW bit PROVE Rd!Flag(bit) <=> RdP!Flag(bit)
  BY DEF Rd!Flag, RdP!Flag
<1>3. (Rd!Processor <=> RdP!Processor) /\ (Rd!Bitfield <=> RdP!Bitfield) /\ (Rd!Quit <=> RdP!Quit)
  BY DEF Rd!Processor, RdP!Processor, Rd!Bitfield, RdP!Bitfield, Rd!Quit, RdP!Quit
<1>4. (Rd!OpenDevice <=> RdP!OpenDevice) /\ (Rd!ReadRegister <=> RdP!ReadRegister)
      /\ (Rd!PrintRegister <=> RdP!PrintRegister)
  BY DEF Rd!OpenDevice, RdP!OpenDevice, Rd!ReadRegister, RdP!ReadRegister,
         Rd!PrintRegister, RdP!PrintRegister
<1>5. Rd!CutField <=> RdP!CutField
  BY DEF Rd!CutField, RdP!CutField, Rd!Bits, RdP!Bits, Rd!Bit, RdP!Bit, Rd!Power, RdP!Power
<1>6. Rd!Switch <=> RdP!Switch
  <2>1. Rd!Negate(data) = RdP!Negate(data)
    BY DEF Rd!Negate, RdP!Negate, Rd!Bits, RdP!Bits, Rd!Bit, RdP!Bit, Rd!Power, RdP!Power
  <2>2. Rd!FillWidth = RdP!FillWidth
    BY DEF Rd!FillWidth, RdP!FillWidth, Rd!Bits, RdP!Bits, Rd!Code, RdP!Code, Rd!Fill, RdP!Fill,
           Rd!C, RdP!C, Rd!DecDigits, RdP!DecDigits, Rd!decdigits, RdP!decdigits
  <2>3. Rd!Cases = RdP!Cases
    BY DEF Rd!Cases, RdP!Cases, Rd!Code, RdP!Code, Rd!Formats, RdP!Formats, Rd!Fill, RdP!Fill,
           Rd!C, RdP!C
  <2>4. Rd!FormatOf(mode) = RdP!FormatOf(mode) /\ Rd!Code("dec") = RdP!Code("dec")
    BY DEF Rd!FormatOf, RdP!FormatOf, Rd!Masked, RdP!Masked, Rd!Code, RdP!Code
  <2> QED BY <2>1, <2>2, <2>3, <2>4 DEF Rd!Switch, RdP!Switch
<1>7. Rd!Output <=> RdP!Output
  BY DEF Rd!Output, RdP!Output, Rd!Shown, RdP!Shown, Rd!FormatOf, RdP!FormatOf,
         Rd!Masked, RdP!Masked, Rd!Code, RdP!Code, Rd!Bit, RdP!Bit, Rd!Power, RdP!Power
<1>8. Rd!Formats = RdP!Formats /\ Rd!Fill = RdP!Fill /\ Rd!C = RdP!C
  BY DEF Rd!Formats, RdP!Formats, Rd!Fill, RdP!Fill, Rd!C, RdP!C
<1> QED BY <1>1, <1>2, <1>3, <1>4, <1>5, <1>6, <1>7, <1>8 DEF Rd!Next, RdP!Next

-----------------------------------------------------------------------------
(* What the machine has in its registers is good enough for rdmsr.            *)

LEMMA SizesHold == RdP!Sizes
  BY WidthAssumption, Cores DEF RdP!Sizes

LEMMA RegistersHold == ASSUME TypeOK PROVE RdP!RegistersOK
<1>1. Width \in Nat /\ RdP!Bit(Width) \in Nat \ {0} /\ Bit(Width) = RdP!Bit(Width)
  BY WidthAssumption, RdP!BitType DEF Bit, RdP!Bit, Power, RdP!Power
<1>2. "pmc0" \in Counters
  BY DEF Counters, Pmcs
<1>3. ASSUME NEW n \in Cpus PROVE msr[n].count["pmc0"] % Bit(Width) \in 0..(RdP!Bit(Width) - 1)
  <2>1. msr[n].count["pmc0"] \in Nat
    BY <1>2, <1>3 DEF TypeOK, Msr
  <2> QED BY <1>1, <2>1
<1> QED BY <1>3 DEF RdP!RegistersOK, Cpus

\* The tools beside rdmsr, and rdmsr beside the tools.
ToolsInv == TypeOK /\ CommandInv /\ RdP!IInv

LEMMA ToolsInitInv == ASSUME ToolsInit PROVE ToolsInv
  BY InitType, SameInit, SizesHold, RdP!InitInv DEF ToolsInit, ToolsInv

LEMMA ToolsStep ==
  ASSUME ToolsInv, [Tools \/ Reader]_<<vars, rdmsrVars>>
  PROVE  ToolsInv'
<1>1. TypeOK' /\ CommandInv'
  BY StepType DEF ToolsInv, Tools, Reader
<1>2. [RdP!Next]_(RdP!vars)
  <2>1. CASE Reader
    BY <2>1, SameNext DEF Reader
  <2>2. CASE UNCHANGED rdmsrVars
    BY <2>2 DEF rdmsrVars, RdP!vars, RdP!command
  <2> QED BY <2>1, <2>2 DEF Tools
<1>3. RdP!IInv'
  BY <1>2, SizesHold, RegistersHold, RdP!StepInv DEF ToolsInv
<1> QED BY <1>1, <1>3 DEF ToolsInv

\* Together they are inductive.
THEOREM ToolsInductive == ToolsSpec => []ToolsInv
<1>1. ToolsInit => ToolsInv
  BY ToolsInitInv
<1>2. ToolsInv /\ [Tools \/ Reader]_<<vars, rdmsrVars>> => ToolsInv'
  BY ToolsStep
<1> QED BY <1>1, <1>2, PTL DEF ToolsSpec

\* The registers, and every number that rdmsr makes of one of them, are of their
\* types while all the programs run.
THEOREM ToolsTypeCorrect == ToolsSpec => []ToolsTypeOK
<1>1. ToolsInv => ToolsTypeOK
  BY SameData DEF ToolsInv, ToolsTypeOK, RdP!IInv
<1> QED BY <1>1, ToolsInductive, PTL

\* Whatever the other tools do, rdmsr finds a case for its mode.
THEOREM NeverImpossibleHolds == ToolsSpec => []NeverImpossible
<1>1. ToolsInv => NeverImpossible
  BY SameData DEF ToolsInv, NeverImpossible, RdP!IInv, RdP!ModeInv, RdP!NeverImpossible
<1> QED BY <1>1, ToolsInductive, PTL

\* Whatever the other tools and the events do to the register before and after,
\* the number that rdmsr makes of what it read is the field asked for; -d of a field
\* whose highest bit is set makes one that is not positive.
THEOREM ShowsFieldHolds == ToolsSpec => []ShowsField
<1>1. ToolsInv => ShowsField
  BY SameData, SizesHold, RdP!ShowsFieldInv DEF ToolsInv, ShowsField
<1> QED BY <1>1, ToolsInductive, PTL

\* With -0 the columns of what rdmsr prints align, whatever the register held.
THEOREM FillFitsHolds == ToolsSpec => []FillFits
<1>1. ToolsInv => FillFits
  BY SameData, SizesHold, RdP!FillFitsInv DEF ToolsInv, FillFits
<1> QED BY <1>1, ToolsInductive, PTL

\* rdmsr is not in the way of the other tools: beside it they do what they do alone.
THEOREM ToolsAlone == ToolsSpec => Spec
<1>1. ToolsInit => Init
  BY DEF ToolsInit
<1>2. [Tools \/ Reader]_<<vars, rdmsrVars>> => [Next]_vars
  BY DEF Tools, Reader
<1> QED BY <1>1, <1>2, PTL DEF ToolsSpec, Spec

\* In particular the reports, the exit status of wrmsr, and what is left behind.
THEOREM ToolsKeepPromises == ToolsSpec => []ReportExact /\ []WrmsrReports /\ LeavesClean
  BY ToolsAlone, ReportExactHolds, WrmsrReportsHolds, LeavesCleanHolds, PTL
=============================================================================

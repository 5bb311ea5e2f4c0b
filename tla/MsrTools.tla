------------------------------ MODULE MsrTools ------------------------------
(***************************************************************************)
(* The counter tools and rdmsr on the registers of one machine: what rdmsr    *)
(* prints is a register that the others, and the events, change.             *)
(***************************************************************************)
EXTENDS CounterTools, Powers

CONSTANT Width   \* bits of a register

ASSUME WidthAssumption == Width \in 1..64

VARIABLES pc, mode, cpu, highbit, lowbit, data, width, out, exit, asked, raw

rdmsrVars == <<pc, mode, cpu, highbit, lowbit, data, width, out, exit, asked, raw>>

\* rdmsr is asked for IA32_PMC0.
Rd == INSTANCE Rdmsr WITH
        registers <- [n \in Cpus |-> msr[n].count["pmc0"] % Bit(Width)], NumCpus <- NumCores

ToolsInit == Init /\ Rd!Init

Tools == Next /\ UNCHANGED rdmsrVars

Reader == "rdmsr" \in programs /\ Rd!Next /\ UNCHANGED vars

ToolsSpec == ToolsInit /\ [][Tools \/ Reader]_<<vars, rdmsrVars>>

-----------------------------------------------------------------------------
(* Correctness. *)

ToolsTypeOK == TypeOK /\ Rd!TypeOK

NeverImpossible == Rd!NeverImpossible
ShowsField      == Rd!ShowsField
FillFits        == Rd!FillFits
SignedFieldOnly == Rd!SignedFieldOnly
=============================================================================

------------------------- MODULE CounterConfigProofs -------------------------
(***************************************************************************)
(* Theorems about CounterConfig, for any number of CPUs, counters, starts    *)
(* and failing accesses.                                                     *)
(***************************************************************************)
EXTENDS CounterConfig, TLAPS

\* Where only the first call of configure_counters, and where either, can be.
SetOnly == {"open", "readFixed", "writeFixed", "select", "enable", "run"}

Programming == {"reset", "checkFixed", "fixedOff", "readFixed", "writeFixed", "select", "enable"}

IsOff(n) == msr[n].global = {} /\ msr[n].fixed = {} /\ dirty[n] = {}

\* How the parameter, the position and the loop variables go together.
PlaceInv ==
  /\ pc \in SetOnly => set
  /\ pc = "exited" => ~set
  /\ pc = "run" => i = 0
  /\ pc = "reset" => c < NPmc
  /\ pc \in {"select", "enable"} => c <= NCustom
  /\ pc = "enable" => c = NCustom

\* The CPUs that the loop has behind it: all of them once it is over.
Behind(n) == n < i \/ pc \in {"run", "exited"}

\* The first loop leaves configured CPUs behind it, the second one silent ones.
BehindInv ==
  \A n \in Cpus : Behind(n) /\ pc # "dead" => IF set THEN Configured(n) ELSE IsOff(n)

\* The CPU that is being programmed: its counters are disabled all along, and
\* each register has its value as soon as the program has been there.
HereInv ==
  /\ pc \in Programming => msr[i].global = {}
  /\ pc = "reset" => \A k \in dirty[i] : k >= c
  /\ pc \in Programming \ {"reset"} => dirty[i] = {}
  /\ pc = "readFixed" => msr[i].fixed = {}
  /\ pc = "writeFixed" => ctrl = {}
  /\ pc \in {"select", "enable"} =>
       /\ msr[i].fixed = 0..(NFixed - 1)
       /\ value = {32 + g : g \in 0..(NFixed - 1)} \union (0..(c - 1))
       /\ \A k \in 0..(c - 1) : msr[i].sel[k] = k

\* All of this as long as no access has failed since the program was started.
IInv == TypeOK /\ PlaceInv /\ (~failed => BehindInv /\ HereInv)

-----------------------------------------------------------------------------
(* Typing. *)

\* A table entry names a register, a counter and an event.
LEMMA TableType ==
  ASSUME NEW n \in 0..(NCustom - 1)
  PROVE  /\ CounterTbl[n].cfg_reg = n /\ CounterTbl[n].evtnr = n /\ CounterTbl[n].id = n
         /\ n \in Pmcs /\ n \in Events /\ n \in Bits
  BY SizesAssumption DEF CounterTbl, Pmcs, Events, Bits

\* The sizes, without the rest of the assumption.
LEMMA Sizes ==
  /\ NCpus \in Nat /\ NCpus > 0
  /\ NPmc \in Nat /\ NCustom \in Nat /\ NCustom > 0 /\ NCustom <= NPmc /\ NPmc <= 32
  /\ NFixed \in Nat /\ NFixed <= 3
  BY SizesAssumption

LEMMA FaultType ==
  ASSUME TypeOK, Unfailing \/ Fault
  PROVE  faults' \in Nat /\ failed' \in BOOLEAN
<1>1. CASE Unfailing
  BY <1>1 DEF TypeOK, Unfailing
<1>2. CASE Fault
  <2>1. faults' \in Nat
    BY <1>2 DEF TypeOK, Fault
  <2>2. failed' = TRUE
    BY <1>2 DEF Fault
  <2> QED BY <2>1, <2>2
<1> QED BY <1>1, <1>2

LEMMA WriteType ==
  ASSUME TypeOK, NEW r \in Registers, Write(r)
  PROVE  msr' \in [Cpus -> Registers] /\ faults' \in Nat /\ failed' \in BOOLEAN
  BY FaultType DEF Write, TypeOK

LEMMA NextCpuType ==
  ASSUME TypeOK, NextCpu
  PROVE  i' \in Cpus /\ pc' \in Labels
  BY Sizes DEF NextCpu, TypeOK, Cpus, Labels, Ended

LEMMA AfterFixedType ==
  ASSUME TypeOK, AfterFixed
  PROVE  i' \in Cpus /\ pc' \in Labels
  BY NextCpuType DEF AfterFixed, TypeOK, Labels

LEMMA TypeInit == Init => TypeOK
<1> SUFFICES ASSUME Init PROVE TypeOK
  OBVIOUS
<1>0. {1, 2} \subseteq Fixed
  BY DEF Fixed
<1>1. Booted \in Registers /\ LeftOver \in Registers
  BY <1>0 DEF Booted, LeftOver, Registers, Events
<1>2. i \in Cpus /\ c \in 0..NPmc
  BY Sizes DEF Init, Cpus
<1>3. pc \in Labels
  BY DEF Init, Labels
<1>4. msr \in [Cpus -> Registers]
  BY <1>1 DEF Init
<1> QED BY <1>2, <1>3, <1>4 DEF Init, TypeOK

LEMMA TypeProgram == ASSUME TypeOK, Program PROVE TypeOK'
<1>r. msr[i] \in Registers
  BY DEF TypeOK
<1>1. CASE Open
  BY <1>1, FaultType DEF Open, TypeOK, Labels, locals
<1>2. CASE OpenThrows
  BY <1>2, FaultType DEF OpenThrows, TypeOK, Labels, Ended, locals
<1>3. CASE Disable
  <2>1. [msr[i] EXCEPT !.global = {}] \in Registers
    BY <1>r DEF Registers
  <2> QED BY <1>3, <2>1, WriteType, Sizes DEF Disable, TypeOK, Labels
<1>4. CASE ResetPmc
  <2>1. faults' \in Nat /\ failed' \in BOOLEAN /\ dirty' \in [Cpus -> SUBSET Pmcs]
    BY <1>4, FaultType DEF ResetPmc, TypeOK
  <2>2. c' \in 0..NPmc /\ pc' \in Labels /\ ctrl' \in SUBSET Fixed
    BY <1>4, Sizes DEF ResetPmc, NextPmc, TypeOK, Labels
  <2> QED BY <1>4, <2>1, <2>2 DEF ResetPmc, TypeOK
<1>5. CASE FixedOff
  <2>1. [msr[i] EXCEPT !.fixed = {}] \in Registers
    BY <1>r DEF Registers
  <2>2. i' \in Cpus /\ pc' \in Labels
    BY <1>5, AfterFixedType DEF FixedOff
  <2> QED BY <1>5, <2>1, <2>2, WriteType DEF FixedOff, TypeOK
<1>6. CASE ReadFixed
  <2>1. ctrl' \in SUBSET Fixed
    BY <1>6, <1>r DEF ReadFixed, Registers, TypeOK
  <2> QED BY <1>6, <2>1, FaultType DEF ReadFixed, TypeOK, Labels
<1>7. CASE WriteFixed
  <2>1. 0..(NFixed - 1) \subseteq Fixed /\ {32 + g : g \in 0..(NFixed - 1)} \subseteq Bits
    BY Sizes DEF Fixed, Bits
  <2>2. [msr[i] EXCEPT !.fixed = ctrl \union (0..(NFixed - 1))] \in Registers
    BY <1>r, <2>1 DEF Registers, TypeOK
  <2>3. msr' \in [Cpus -> Registers] /\ faults' \in Nat /\ failed' \in BOOLEAN
    BY <1>7, <2>2, WriteType DEF WriteFixed
  <2>4. pc' \in Labels /\ c' \in 0..NPmc
    BY <1>7, Sizes DEF WriteFixed, Labels
  <2> QED BY <1>7, <2>1, <2>3, <2>4 DEF WriteFixed, TypeOK
<1>8. CASE Select
  <2>1. c \in 0..(NCustom - 1)
    BY <1>8, Sizes DEF Select, MoreEntries, TypeOK
  <2>2. [msr[i] EXCEPT !.sel[CounterTbl[c].cfg_reg] = CounterTbl[c].evtnr] \in Registers
    BY <1>r, <2>1, TableType DEF Registers
  <2>3. msr' \in [Cpus -> Registers] /\ faults' \in Nat /\ failed' \in BOOLEAN
    BY <1>8, <2>2, WriteType DEF Select
  <2>4. value' \in SUBSET Bits /\ c' \in 0..NPmc
    BY <1>8, <2>1, TableType, Sizes DEF Select, TypeOK
  <2> QED BY <1>8, <2>3, <2>4 DEF Select, TypeOK
<1>9. CASE SelectDone
  BY <1>9, FaultType DEF SelectDone, TypeOK, Labels, locals
<1>10. CASE Enable
  <2>1. [msr[i] EXCEPT !.global = value] \in Registers
    BY <1>r DEF Registers, TypeOK
  <2> QED BY <1>10, <2>1, WriteType, NextCpuType DEF Enable, TypeOK
<1>11. CASE Benchmark
  BY <1>11, FaultType DEF Benchmark, TypeOK, Labels
<1>12. CASE CheckFixed
  <2>1. ctrl' \in SUBSET Fixed
    BY <1>12, <1>r DEF CheckFixed, Registers, TypeOK
  <2>2. faults' \in Nat /\ failed' \in BOOLEAN
    BY <1>12, FaultType DEF CheckFixed
  <2>3. i' \in Cpus /\ pc' \in Labels
    BY <1>12, AfterFixedType DEF CheckFixed, TypeOK, Labels
  <2> QED BY <1>12, <2>1, <2>2, <2>3 DEF CheckFixed, TypeOK
<1> QED
  BY <1>1, <1>2, <1>3, <1>4, <1>5, <1>6, <1>7, <1>8, <1>9, <1>10, <1>11, <1>12 DEF Program

LEMMA TypeNext == TypeOK /\ [Next]_vars => TypeOK'
<1> SUFFICES ASSUME TypeOK, [Next]_vars PROVE TypeOK'
  OBVIOUS
<1>1. CASE Program
  BY <1>1, TypeProgram
<1>2. CASE Crash
  BY <1>2, FaultType DEF Crash, TypeOK, Labels, Ended, locals
<1>3. CASE Restart
  <2>1. pc' \in Labels /\ i' \in Cpus /\ c' \in 0..NPmc /\ runs' \in Nat
    BY <1>3, Sizes DEF Restart, TypeOK, Labels, Cpus
  <2>2. set' \in BOOLEAN /\ failed' \in BOOLEAN /\ ctrl' \in SUBSET Fixed /\ value' \in SUBSET Bits
    BY <1>3 DEF Restart
  <2> QED BY <1>3, <2>1, <2>2 DEF Restart, TypeOK
<1>4. CASE \E n \in Cpus, k \in Pmcs : Count(n, k)
  BY <1>4 DEF Count, TypeOK, locals
<1>5. CASE Stopped \/ UNCHANGED vars
  BY <1>5 DEF Stopped, vars, TypeOK
<1> QED BY <1>1, <1>2, <1>3, <1>4, <1>5 DEF Next, Environment

\* The loops never leave the CPUs, the counters, or the table.
THEOREM TypeCorrect == Spec => []TypeOK
  BY TypeInit, TypeNext, PTL DEF Spec

-----------------------------------------------------------------------------
(* The inductive invariant. *)

\* Where the program is does not depend on failures.
LEMMA PlaceProgram == ASSUME TypeOK, PlaceInv, Program PROVE PlaceInv'
<1> USE DEF PlaceInv, SetOnly
<1>1. CASE Open \/ Benchmark
  BY <1>1 DEF Open, Benchmark, locals
<1>2. CASE OpenThrows
  BY <1>2 DEF OpenThrows, locals
<1>3. CASE Disable
  BY <1>3, Sizes DEF Disable
<1>4. CASE ResetPmc
  BY <1>4, Sizes DEF ResetPmc, NextPmc, TypeOK
<1>5. CASE FixedOff \/ CheckFixed
  BY <1>5, Sizes DEF FixedOff, CheckFixed, AfterFixed, NextCpu, TypeOK, Cpus
<1>6. CASE ReadFixed \/ WriteFixed
  BY <1>6, Sizes DEF ReadFixed, WriteFixed
<1>7. CASE Select
  BY <1>7, Sizes DEF Select, MoreEntries, TypeOK
<1>8. CASE SelectDone
  BY <1>8, Sizes DEF SelectDone, MoreEntries, TypeOK, locals
<1>9. CASE Enable
  BY <1>9, Sizes DEF Enable, NextCpu, TypeOK, Cpus
<1> QED
  BY <1>1, <1>2, <1>3, <1>4, <1>5, <1>6, <1>7, <1>8, <1>9 DEF Program

\* A step after which no access has failed has none that failed.
LEMMA NoFault ==
  /\ ~failed' /\ (Unfailing \/ Fault) => Unfailing /\ ~failed
  /\ \A r : ~failed' /\ Write(r) => msr' = [msr EXCEPT ![i] = r] /\ ~failed
<1>1. ~failed' => ~Fault
  BY DEF Fault
<1>2. Unfailing => (failed' <=> failed)
  BY DEF Unfailing
<1> QED BY <1>1, <1>2 DEF Write

\* A step on the current CPU that stays there leaves the CPUs behind it alone.
LEMMA BehindKept ==
  ASSUME TypeOK, BehindInv, i' = i, set' = set,
         pc \notin {"run", "exited", "dead"}, pc' \notin {"run", "exited"},
         \A n \in Cpus \ {i} : msr'[n] = msr[n] /\ dirty'[n] = dirty[n]
  PROVE  BehindInv'
<1> SUFFICES ASSUME NEW n \in Cpus, n < i
             PROVE  IF set THEN Configured(n)' ELSE IsOff(n)'
  BY DEF BehindInv, Behind
<1>1. n # i /\ n \in Nat /\ i \in Nat
  BY DEF Cpus, TypeOK
<1>2. IF set THEN Configured(n) ELSE IsOff(n)
  BY DEF BehindInv, Behind
<1> QED BY <1>1, <1>2 DEF Configured, IsOff

\* A step that leaves the current CPU as the loop should, and goes on.
LEMMA BehindNext ==
  ASSUME TypeOK, BehindInv, NextCpu, set' = set, pc \notin {"run", "exited", "dead"},
         \A n \in Cpus \ {i} : msr'[n] = msr[n] /\ dirty'[n] = dirty[n],
         NEW m \in Cpus, m = i, IF set THEN Configured(m)' ELSE IsOff(m)'
  PROVE  BehindInv'
<1> SUFFICES ASSUME NEW n \in Cpus, Behind(n)'
             PROVE  IF set THEN Configured(n)' ELSE IsOff(n)'
  BY DEF BehindInv
<1>1. CASE n = i
  BY <1>1
<1>2. CASE n # i
  <2>1. n < i
    BY <1>2, Sizes DEF Behind, NextCpu, Cpus, TypeOK
  <2>2. IF set THEN Configured(n) ELSE IsOff(n)
    BY <2>1 DEF BehindInv, Behind
  <2> QED BY <1>2, <2>2 DEF Configured, IsOff
<1> QED BY <1>1, <1>2

\* The steps of configure_counters that stay on the CPU, one lemma for those
\* before the counters' own registers are written and one for those after.
LEMMA StepsBefore ==
  ASSUME TypeOK, PlaceInv, BehindInv, HereInv, ~failed',
         Open \/ Disable \/ ResetPmc \/ ReadFixed
  PROVE  BehindInv' /\ HereInv'
<1> USE DEF HereInv, Programming
<1>1. CASE Open
  <2>1. BehindInv'
    BY <1>1, BehindKept DEF Open, locals
  <2> QED BY <1>1, <2>1 DEF Open
<1>2. CASE Disable
  <2>1. msr' = [msr EXCEPT ![i] = [msr[i] EXCEPT !.global = {}]]
    BY <1>2, NoFault DEF Disable
  <2>2. msr'[i].global = {}
    BY <2>1 DEF TypeOK, Registers
  <2>3. BehindInv'
    BY <1>2, <2>1, BehindKept DEF Disable, TypeOK
  <2>4. \A k \in dirty[i] : k >= 0
    BY DEF TypeOK, Pmcs
  <2> QED BY <1>2, <2>2, <2>3, <2>4 DEF Disable
<1>3. CASE ResetPmc
  <2>1. dirty' = [dirty EXCEPT ![i] = @ \ {c}]
    <3>1. ~Fault
      BY DEF Fault
    <3> QED BY <1>3, <3>1 DEF ResetPmc
  <2>2. dirty'[i] = dirty[i] \ {c}
    BY <2>1 DEF TypeOK
  <2>3. BehindInv'
    BY <1>3, <2>1, BehindKept DEF ResetPmc, NextPmc, TypeOK
  <2>4. \A k \in dirty'[i] : k \in Nat /\ k < NPmc /\ k >= c + 1
    BY <1>3, <2>2, Sizes DEF ResetPmc, TypeOK, Pmcs
  <2>5. pc' # "reset" => dirty'[i] = {}
    BY <1>3, <2>4, Sizes DEF ResetPmc, NextPmc, TypeOK
  <2> QED BY <1>3, <2>3, <2>4, <2>5 DEF ResetPmc, NextPmc
<1>4. CASE ReadFixed
  <2>1. ctrl' = msr[i].fixed
    <3>1. ~Fault
      BY DEF Fault
    <3> QED BY <1>4, <3>1 DEF ReadFixed
  <2>2. BehindInv'
    BY <1>4, BehindKept DEF ReadFixed
  <2> QED BY <1>4, <2>1, <2>2 DEF ReadFixed
<1> QED BY <1>1, <1>2, <1>3, <1>4

LEMMA StepsAfter ==
  ASSUME TypeOK, PlaceInv, BehindInv, HereInv, ~failed',
         WriteFixed \/ Select \/ SelectDone
  PROVE  BehindInv' /\ HereInv'
<1> USE DEF HereInv, Programming
<1>1. CASE WriteFixed
  <2>1. msr' = [msr EXCEPT ![i] = [msr[i] EXCEPT !.fixed = ctrl \union (0..(NFixed - 1))]]
    BY <1>1, NoFault DEF WriteFixed
  <2>2. msr'[i].fixed = 0..(NFixed - 1) /\ msr'[i].global = {}
    BY <1>1, <2>1 DEF WriteFixed, TypeOK, Registers
  <2>3. BehindInv'
    BY <1>1, <2>1, BehindKept DEF WriteFixed, TypeOK
  <2>4. c' = 0 /\ value' = {32 + g : g \in 0..(NFixed - 1)}
    BY <1>1 DEF WriteFixed
  <2>5. 0..(c' - 1) = {}
    BY <2>4
  <2> QED BY <1>1, <2>2, <2>3, <2>4, <2>5 DEF WriteFixed
<1>2. CASE Select
  <2>1. c \in 0..(NCustom - 1)
    BY <1>2, Sizes DEF Select, MoreEntries, TypeOK
  <2>2. msr' = [msr EXCEPT ![i] = [msr[i] EXCEPT !.sel[CounterTbl[c].cfg_reg] = CounterTbl[c].evtnr]]
    BY <1>2, NoFault DEF Select
  <2>3. msr' = [msr EXCEPT ![i] = [msr[i] EXCEPT !.sel[c] = c]]
    BY <2>1, <2>2, TableType
  <2>4. /\ msr'[i].fixed = msr[i].fixed /\ msr'[i].global = msr[i].global
        /\ msr'[i].sel = [msr[i].sel EXCEPT ![c] = c]
    BY <2>3 DEF TypeOK, Registers
  <2>5. \A k \in 0..c : msr'[i].sel[k] = k
    BY <1>2, <2>1, <2>4, Sizes DEF Select, TypeOK, Registers, Pmcs
  <2>6. value' = {32 + g : g \in 0..(NFixed - 1)} \union (0..c)
    <3>1. value' = value \union {c}
      BY <1>2, <2>1, TableType DEF Select
    <3>2. (0..(c - 1)) \union {c} = 0..c
      BY <2>1, Sizes
    <3> QED BY <1>2, <3>1, <3>2 DEF Select
  <2>7. BehindInv'
    BY <1>2, <2>3, BehindKept DEF Select, TypeOK
  <2>8. c' - 1 = c
    BY <1>2, <2>1 DEF Select
  <2> QED BY <1>2, <2>4, <2>5, <2>6, <2>7, <2>8 DEF Select
<1>3. CASE SelectDone
  <2>1. BehindInv'
    BY <1>3, BehindKept DEF SelectDone, locals
  <2> QED BY <1>3, <2>1 DEF SelectDone, locals
<1> QED BY <1>1, <1>2, <1>3

\* The fixed counters of the CPU are off, one way or the other.
LEMMA FixedDone ==
  ASSUME TypeOK, PlaceInv, BehindInv, AfterFixed, set' = set, pc \in {"checkFixed", "fixedOff"},
         \A n \in Cpus \ {i} : msr'[n] = msr[n] /\ dirty'[n] = dirty[n],
         msr'[i].fixed = {}, msr'[i].global = {}, dirty'[i] = {}
  PROVE  BehindInv' /\ HereInv'
<1> USE DEF HereInv, Programming
<1>1. CASE set
  <2>1. pc' = "readFixed" /\ i' = i
    BY <1>1 DEF AfterFixed
  <2>2. BehindInv'
    BY <2>1, BehindKept
  <2> QED BY <2>1, <2>2
<1>2. CASE ~set
  <2>1. NextCpu
    BY <1>2 DEF AfterFixed
  <2>2. PICK n \in Cpus : n = i
    BY DEF TypeOK
  <2>3. IsOff(n)'
    BY <2>2 DEF IsOff
  <2>4. BehindInv'
    BY <1>2, <2>1, <2>2, <2>3, BehindNext
  <2>5. pc' \in {"disable", "exited"}
    BY <1>2, <2>1 DEF NextCpu
  <2> QED BY <2>4, <2>5
<1> QED BY <1>1, <1>2 DEF TypeOK

\* The steps that leave a CPU, and the one between the two loops.
LEMMA StepsNext ==
  ASSUME TypeOK, PlaceInv, BehindInv, HereInv, ~failed',
         CheckFixed \/ FixedOff \/ Enable \/ Benchmark
  PROVE  BehindInv' /\ HereInv'
<1> USE DEF HereInv, Programming
<1>0. CASE CheckFixed
  <2>1. ctrl' = msr[i].fixed
    <3>1. ~Fault
      BY DEF Fault
    <3> QED BY <1>0, <3>1 DEF CheckFixed
  <2>2. CASE ctrl' = {}
    BY <1>0, <2>1, <2>2, FixedDone DEF CheckFixed
  <2>3. CASE ctrl' # {}
    <3>1. BehindInv'
      BY <1>0, <2>3, BehindKept DEF CheckFixed
    <3> QED BY <1>0, <2>3, <3>1 DEF CheckFixed
  <2> QED BY <2>2, <2>3
<1>1. CASE FixedOff
  <2>1. msr' = [msr EXCEPT ![i] = [msr[i] EXCEPT !.fixed = {}]]
    BY <1>1, NoFault DEF FixedOff
  <2>2. msr'[i].fixed = {} /\ msr'[i].global = {} /\ dirty'[i] = {}
    BY <1>1, <2>1 DEF FixedOff, TypeOK, Registers
  <2>3. \A n \in Cpus \ {i} : msr'[n] = msr[n] /\ dirty'[n] = dirty[n]
    BY <1>1, <2>1 DEF FixedOff, TypeOK
  <2> QED BY <1>1, <2>2, <2>3, FixedDone DEF FixedOff
<1>2. CASE Enable
  <2>1. msr' = [msr EXCEPT ![i] = [msr[i] EXCEPT !.global = value]]
    BY <1>2, NoFault DEF Enable
  <2>2. msr'[i].global = value /\ msr'[i].fixed = msr[i].fixed /\ msr'[i].sel = msr[i].sel
    BY <2>1 DEF TypeOK, Registers
  <2>3. \A n \in Cpus \ {i} : msr'[n] = msr[n] /\ dirty'[n] = dirty[n]
    BY <1>2, <2>1 DEF Enable, TypeOK
  <2>4. PICK n \in Cpus : n = i
    BY DEF TypeOK
  <2>5. c = NCustom /\ set /\ set' = set /\ NextCpu /\ pc = "enable"
    BY <1>2 DEF Enable, PlaceInv, SetOnly
  <2>6. Configured(n)'
    BY <2>2, <2>4, <2>5 DEF Configured, Mask
  <2>7. BehindInv'
    BY <2>3, <2>4, <2>5, <2>6, BehindNext
  <2>8. pc' \in {"open", "run"}
    BY <2>5 DEF NextCpu
  <2> QED BY <2>7, <2>8
<1>3. CASE Benchmark
  <2>1. i' = 0 /\ pc' = "disable"
    BY <1>3 DEF Benchmark, PlaceInv
  <2>2. \A n \in Cpus : ~Behind(n)'
    BY <2>1 DEF Behind, Cpus
  <2> QED BY <2>1, <2>2 DEF BehindInv
<1> QED BY <1>0, <1>1, <1>2, <1>3

\* The counters of the CPU being programmed are disabled and those of the CPUs
\* the second loop has behind it are off: what counts disturbs nothing.
LEMMA CountStep ==
  ASSUME TypeOK, PlaceInv, BehindInv, HereInv,
         NEW n \in Cpus, NEW k \in Pmcs, Count(n, k)
  PROVE  BehindInv' /\ HereInv'
<1> USE DEF Count, locals
<1>1. \A m \in Cpus : m # n => dirty'[m] = dirty[m]
  BY DEF TypeOK
<1>2. BehindInv'
  <2> SUFFICES ASSUME NEW m \in Cpus, Behind(m), pc # "dead"
               PROVE  IF set THEN Configured(m)' ELSE IsOff(m)'
    BY DEF BehindInv, Behind
  <2>1. IF set THEN Configured(m) ELSE IsOff(m)
    BY DEF BehindInv
  <2>2. ~set => m # n
    BY <2>1 DEF IsOff
  <2> QED BY <1>1, <2>1, <2>2 DEF Configured, IsOff
<1>3. pc \in Programming => dirty'[i] = dirty[i]
  BY <1>1 DEF HereInv, TypeOK
<1> QED BY <1>2, <1>3 DEF HereInv, Programming

LEMMA InvInit == Init => IInv
<1> SUFFICES ASSUME Init PROVE IInv
  OBVIOUS
<1>1. PlaceInv
  BY DEF Init, PlaceInv, SetOnly
<1>2. BehindInv
  BY DEF Init, BehindInv, Behind, Cpus
<1>3. HereInv
  BY DEF Init, HereInv, Programming
<1> QED BY <1>1, <1>2, <1>3, TypeInit DEF IInv

LEMMA InvNext == IInv /\ [Next]_vars => IInv'
<1> SUFFICES ASSUME IInv, [Next]_vars PROVE IInv'
  OBVIOUS
<1> USE DEF IInv
<1>1. TypeOK'
  BY TypeNext
<1>2. CASE Program
  <2>1. PlaceInv'
    BY <1>2, PlaceProgram
  <2>2. ASSUME ~failed' PROVE BehindInv' /\ HereInv'
    <3>1. CASE OpenThrows
      <4>1. failed' = TRUE
        BY <3>1 DEF OpenThrows, Fault
      <4> QED BY <2>2, <4>1
    <3>2. CASE ~OpenThrows
      <4>1. ~failed
        BY <1>2, <2>2, <3>2, NoFault
           DEF Program, Open, Disable, ResetPmc, CheckFixed, FixedOff, ReadFixed, WriteFixed, Select,
               SelectDone, Enable, Benchmark
      <4> QED BY <1>2, <2>2, <3>2, <4>1, StepsBefore, StepsAfter, StepsNext DEF Program
    <3> QED BY <3>1, <3>2
  <2> QED BY <1>1, <2>1, <2>2
<1>3. CASE Crash
  <2>1. pc' = "dead"
    BY <1>3 DEF Crash
  <2>2. PlaceInv' /\ BehindInv' /\ HereInv'
    BY <2>1 DEF PlaceInv, SetOnly, BehindInv, HereInv, Programming
  <2> QED BY <1>1, <2>2
<1>4. CASE Restart
  <2>1. pc' = "open" /\ set' /\ i' = 0
    BY <1>4 DEF Restart
  <2>2. PlaceInv' /\ HereInv'
    BY <2>1 DEF PlaceInv, SetOnly, HereInv, Programming
  <2>3. BehindInv'
    BY <2>1 DEF BehindInv, Behind, Cpus
  <2> QED BY <1>1, <2>2, <2>3
<1>5. CASE \E n \in Cpus, k \in Pmcs : Count(n, k)
  <2>1. PICK n \in Cpus, k \in Pmcs : Count(n, k)
    BY <1>5
  <2>2. PlaceInv' /\ failed' = failed
    BY <2>1 DEF Count, PlaceInv, locals
  <2>3. ~failed => BehindInv' /\ HereInv'
    BY <2>1, CountStep
  <2> QED BY <1>1, <2>2, <2>3
<1>6. CASE UNCHANGED vars
  BY <1>1, <1>6 DEF vars, PlaceInv, BehindInv, Behind, HereInv, Configured, IsOff
<1> QED
  BY <1>2, <1>3, <1>4, <1>5, <1>6 DEF Next, Environment, Stopped

\* As long as no access has failed, the CPUs the loop has behind it and the one
\* it is at are as configure_counters should leave them.
THEOREM Inductive == Spec => []IInv
  BY InvInit, InvNext, PTL DEF Spec

-----------------------------------------------------------------------------
(* What follows from it. *)

\* When the threads start, the counters of every CPU count what they should.
THEOREM ConfiguredHolds == Spec => []ConfiguredWhenRunning
<1>1. IInv => ConfiguredWhenRunning
  BY DEF IInv, PlaceInv, SetOnly, BehindInv, Behind, ConfiguredWhenRunning
<1> QED BY <1>1, Inductive, PTL

\* A run that reaches its end leaves no counter on, or with a count, anywhere.
THEOREM QuietHolds == Spec => []QuietOnExit
<1>1. IInv => QuietOnExit
  BY DEF IInv, PlaceInv, BehindInv, Behind, IsOff, QuietOnExit
<1> QED BY <1>1, Inductive, PTL

\* No fixed counter and no event is changed on a CPU that counts.
THEOREM DisabledHolds == Spec => ProgrammedWhileDisabled
<1> DEFINE Safe(n) == (msr[n].fixed # msr'[n].fixed \/ msr[n].sel # msr'[n].sel) /\ ~failed =>
                        msr[n].global = {}
<1>1. IInv /\ [Next]_vars => [\A n \in Cpus : Safe(n)]_vars
  <2> SUFFICES ASSUME IInv, Next, NEW n \in Cpus, ~failed,
                      msr[n].fixed # msr'[n].fixed \/ msr[n].sel # msr'[n].sel
               PROVE  msr[n].global = {}
    OBVIOUS
  <2> USE DEF IInv
  <2>1. PICK r : msr' = [msr EXCEPT ![i] = r] /\ pc \in Programming \union {"disable"}
    BY DEF Next, Program, Environment, Open, OpenThrows, Disable, ResetPmc, CheckFixed, FixedOff,
           ReadFixed, WriteFixed, Select, SelectDone, Enable, Benchmark, Crash, Restart, Count, Stopped,
           vars, Write, Programming
  <2>2. n = i
    BY <2>1 DEF TypeOK
  <2>3. CASE pc = "disable"
    <3>1. Disable
      BY <2>3 DEF Next, Program, Environment, Open, OpenThrows, Disable, ResetPmc, CheckFixed,
             FixedOff, ReadFixed, WriteFixed, Select, SelectDone, Enable, Benchmark, Crash, Restart, Count,
             Stopped, vars, Ended
    <3> QED BY <2>2, <3>1 DEF Disable, Write, TypeOK, Registers
  <2> QED BY <2>1, <2>2, <2>3 DEF HereInv
<1> QED BY <1>1, Inductive, PTL DEF Spec, ProgrammedWhileDisabled

\* Counters are enabled all at once, from zero, and for the right events.
THEOREM StartsCleanHolds == Spec => StartsClean
<1>1. IInv /\ [Next]_vars =>
        [\A n \in Cpus : msr[n].global = {} /\ msr'[n].global # {} /\ ~failed' =>
           Configured(n)' /\ dirty[n] = {}]_vars
  <2> SUFFICES ASSUME IInv, Next, NEW n \in Cpus, ~failed',
                      msr[n].global = {}, msr'[n].global # {}
               PROVE  Configured(n)' /\ dirty[n] = {}
    OBVIOUS
  <2> USE DEF IInv
  <2>1. Enable
    <3>1. msr'[n] # msr[n]
      OBVIOUS
    <3>2. Disable \/ FixedOff \/ WriteFixed \/ Select \/ Enable
      BY <3>1 DEF Next, Program, Environment, Open, OpenThrows, ResetPmc, CheckFixed, ReadFixed, SelectDone,
             Benchmark, Crash, Restart, Count, Stopped, vars
    <3>3. PICK r : Write(r) /\ (r.global = msr[i].global \/ r.global = {} \/ Enable)
      BY <3>2 DEF Disable, FixedOff, WriteFixed, Select, TypeOK, Registers, Enable
    <3>4. msr' = [msr EXCEPT ![i] = r]
      BY <3>1, <3>3 DEF Write
    <3> QED BY <3>1, <3>3, <3>4 DEF TypeOK
  <2>2. msr' = [msr EXCEPT ![i] = [msr[i] EXCEPT !.global = value]]
    BY <2>1, NoFault DEF Enable
  <2>3. n = i
    BY <2>2 DEF TypeOK
  <2>4. ~failed /\ pc = "enable" /\ c = NCustom /\ set /\ dirty[i] = {}
    BY <2>1, NoFault DEF Enable, PlaceInv, SetOnly, HereInv, Programming
  <2>5. /\ msr'[i].global = value /\ msr'[i].fixed = msr[i].fixed
        /\ msr'[i].sel = msr[i].sel
    BY <2>2 DEF TypeOK, Registers
  <2>6. msr'[i].global = Mask /\ msr'[i].fixed = 0..(NFixed - 1)
        /\ \A k \in 0..(NCustom - 1) : msr'[i].sel[k] = k
    BY <2>4, <2>5 DEF HereInv, Mask
  <2> QED BY <2>3, <2>4, <2>6 DEF Configured, Mask
<1> QED BY <1>1, Inductive, PTL DEF Spec, StartsClean

-----------------------------------------------------------------------------
(* CounterConfig implements CounterSession.                                   *)

Course == Session!Course

\* Something is enabled on a CPU that is configured, so that it is not idle.
LEMMA MaskNotEmpty == Mask # {}
<1>1. 0 \in 0..(NCustom - 1)
  BY Sizes
<1> QED BY <1>1 DEF Mask

LEMMA Apart == Idle \subseteq Cpus \ Counting
  BY MaskNotEmpty DEF Idle, Counting, Configured

\* A step on the current CPU changes nothing else.
LEMMA OnlyHere ==
  ASSUME TypeOK, \A n \in Cpus \ {i} : msr'[n] = msr[n] /\ dirty'[n] = dirty[n]
  PROVE  \A n \in Cpus \ {i} : (n \in Counting' <=> n \in Counting) /\ (n \in Idle' <=> n \in Idle)
  BY DEF Counting, Idle, Configured

\* The phase follows the course of a session.
LEMMA PhaseCourse ==
  ASSUME TypeOK, PlaceInv, Program
  PROVE  \/ Benchmark /\ Phase = "measuring" /\ Phase' = "off"
         \/ OpenThrows /\ Phase = "on" /\ Phase' = "dead"
         \/ <<Phase, Phase'>> \in Course /\ Phase \in {"on", "off"}
<1> USE DEF Phase, Course, Session!Course, PlaceInv, SetOnly
<1>1. CASE Open \/ ReadFixed \/ WriteFixed \/ Select \/ SelectDone
  BY <1>1 DEF Open, ReadFixed, WriteFixed, Select, SelectDone, locals
<1>2. CASE OpenThrows \/ Benchmark
  BY <1>2 DEF OpenThrows, Benchmark, locals
<1>3. CASE Disable \/ ResetPmc
  BY <1>3 DEF Disable, ResetPmc, NextPmc, TypeOK
<1>4. CASE CheckFixed \/ FixedOff
  BY <1>4 DEF CheckFixed, FixedOff, AfterFixed, NextCpu, TypeOK
<1>5. CASE Enable
  BY <1>5 DEF Enable, NextCpu, TypeOK
<1> QED BY <1>1, <1>2, <1>3, <1>4, <1>5 DEF Program

LEMMA SessionInit == Init => Session!Init
<1> SUFFICES ASSUME Init PROVE Session!Init
  OBVIOUS
<1>1. Phase = "on" /\ failed = FALSE
  BY DEF Init, Phase
<1>2. ASSUME NEW n \in Cpus PROVE ~Configured(n)
  <2>1. 0 \in 0..(NCustom - 1) /\ 0 \in Pmcs
    BY Sizes DEF Pmcs
  <2>2. CASE msr[n] = Booted
    BY <2>2, MaskNotEmpty DEF Booted, Configured
  <2>3. CASE msr[n] = LeftOver
    <3>1. msr[n].sel[0] = Foreign /\ Foreign # 0
      BY <2>1, <2>3, SizesAssumption DEF LeftOver
    <3> QED BY <2>1, <3>1 DEF Configured
  <2> QED BY <2>2, <2>3 DEF Init
<1>3. Counting = {} /\ Idle \subseteq Cpus
  BY <1>2 DEF Counting, Idle
<1> QED BY <1>1, <1>3 DEF Session!Init

\* A step of the program in which an access fails, or after one that did.
LEMMA BrokenStep ==
  ASSUME TypeOK, PlaceInv, Program, failed' = TRUE
  PROVE  Session!Next
<1>1. CASE failed = TRUE /\ ~Benchmark /\ ~OpenThrows
  <2>1. Counting' \in SUBSET Cpus /\ Idle' \in SUBSET (Cpus \ Counting')
    <3>1. (Idle \subseteq Cpus \ Counting)'
      BY Apart, PTL
    <3> QED BY <3>1 DEF Counting
  <2>2. <<Phase, Phase'>> \in Course
    BY <1>1, PhaseCourse
  <2>3. Session!Broken
    BY <1>1, <2>1, <2>2 DEF Session!Broken, Course
  <2> QED BY <2>3 DEF Session!Next
<1>2. CASE failed # TRUE /\ ~Benchmark /\ ~OpenThrows
  <2>1. Fault
    BY <1>2 DEF Program, Open, Disable, ResetPmc, CheckFixed, FixedOff, ReadFixed, WriteFixed,
           Select, SelectDone, Enable, Unfailing, Write
  <2>2. msr' = msr /\ dirty' = dirty
    BY <1>2, <2>1 DEF Program, Open, Disable, ResetPmc, CheckFixed, FixedOff, ReadFixed,
           WriteFixed, Select, SelectDone, Enable, Unfailing, Write
  <2>3. Counting' = Counting /\ Idle' = Idle
    BY <2>2 DEF Counting, Idle, Configured
  <2>4. Session!Break
    BY <1>2, <2>3, PhaseCourse DEF Session!Break, Course
  <2> QED BY <2>4 DEF Session!Next
<1>3. CASE Benchmark
  <2>1. Counting' = Counting /\ Idle' = Idle /\ failed' = failed
    BY <1>3 DEF Benchmark, Unfailing, Counting, Idle, Configured
  <2>2. Phase = "measuring" /\ Phase' = "off"
    BY <1>3 DEF Phase, Benchmark
  <2>3. Session!Stop
    BY <2>1, <2>2 DEF Session!Stop
  <2> QED BY <2>3 DEF Session!Next
<1>4. CASE OpenThrows
  <2>1. Counting' = Counting /\ Idle' = Idle
    BY <1>4 DEF OpenThrows, Counting, Idle, Configured
  <2>2. Phase = "on" /\ Phase' = "dead"
    BY <1>4 DEF Phase, OpenThrows, PlaceInv, SetOnly
  <2>3. Session!Die
    BY <2>1, <2>2 DEF Session!Die, Session!Over
  <2> QED BY <2>3 DEF Session!Next
<1> QED BY <1>1, <1>2, <1>3, <1>4

\* The steps of a program none of whose accesses has failed: those that leave
\* the registers alone or change what no session sees ...
LEMMA QuietStep ==
  ASSUME IInv, ~failed', failed' = failed, Program, BehindInv',
         Open \/ CheckFixed \/ FixedOff \/ ReadFixed \/ WriteFixed \/ Select \/ SelectDone
  PROVE  Session!Next \/ UNCHANGED Session!vars
<1> USE DEF IInv
<1>1. Counting' = Counting /\ Idle' = Idle
  <2>1. CASE UNCHANGED <<msr, dirty>>
    BY <2>1 DEF Counting, Idle, Configured
  <2>2. CASE FixedOff \/ WriteFixed \/ Select
    <3>1. PICK r : Write(r) /\ r.global = {} /\ dirty' = dirty /\ msr[i].global = {}
      BY <2>2 DEF FixedOff, WriteFixed, Select, HereInv, Programming, TypeOK, Registers
    <3>2. msr' = [msr EXCEPT ![i] = r]
      BY <3>1, NoFault
    <3>3. msr'[i].global = {} /\ i \in Cpus
      BY <3>1, <3>2 DEF TypeOK
    <3>4. \A n \in Cpus : (n \in Counting' <=> n \in Counting) /\ (n \in Idle' <=> n \in Idle)
      BY <3>1, <3>2, <3>3, OnlyHere, MaskNotEmpty DEF Counting, Idle, Configured, TypeOK
    <3> QED BY <3>4 DEF Counting, Idle
  <2> QED BY <2>1, <2>2 DEF Open, CheckFixed, ReadFixed, SelectDone
<1>2. CASE Phase' = Phase
  BY <1>1, <1>2 DEF Session!vars
<1>3. CASE Phase' # Phase
  <2>1. pc' = "exited" /\ Phase = "off" /\ Phase' = "over" /\ ~set' /\ i' = 0
    <3>1. CASE Open \/ ReadFixed \/ WriteFixed \/ Select \/ SelectDone
      BY <1>3, <3>1 DEF Open, ReadFixed, WriteFixed, Select, SelectDone, locals, Phase
    <3>2. CASE CheckFixed \/ FixedOff
      BY <1>3, <3>2 DEF CheckFixed, FixedOff, AfterFixed, NextCpu, Phase, TypeOK
    <3> QED BY <3>1, <3>2
  <2>2. \A n \in Cpus : IsOff(n)'
    BY <2>1 DEF BehindInv, Behind
  <2>3. Idle' = Cpus
    BY <2>2 DEF Idle, IsOff
  <2>4. Session!Finish
    BY <1>1, <2>1, <2>3 DEF Session!Finish
  <2> QED BY <2>4 DEF Session!Next
<1> QED BY <1>2, <1>3

\* ... those that disable a CPU or clear one of its counters ...
LEMMA ClearStep ==
  ASSUME IInv, ~failed', failed' = failed, Disable \/ ResetPmc
  PROVE  Session!Next
<1> USE DEF IInv
<1>1. Phase' = Phase /\ Phase \in {"on", "off"}
  BY DEF Disable, ResetPmc, NextPmc, Phase
<1>2. \A n \in Cpus \ {i} : msr'[n] = msr[n] /\ dirty'[n] = dirty[n]
  BY DEF Disable, ResetPmc, Write, TypeOK
<1>3. /\ msr'[i].global = {} /\ i \in Cpus
      /\ msr[i].global = {} /\ dirty[i] = {} => dirty'[i] = {}
  <2>1. CASE Disable
    <3>1. msr' = [msr EXCEPT ![i] = [msr[i] EXCEPT !.global = {}]]
      BY <2>1, NoFault DEF Disable
    <3> QED BY <2>1, <3>1 DEF Disable, TypeOK, Registers
  <2>2. CASE ResetPmc
    <3>1. msr' = msr /\ (dirty' = dirty \/ dirty' = [dirty EXCEPT ![i] = @ \ {c}])
      BY <2>2 DEF ResetPmc
    <3> QED BY <2>2, <3>1 DEF ResetPmc, HereInv, Programming, TypeOK
  <2> QED BY <2>1, <2>2
<1>4. i \notin Counting'
  BY <1>3, MaskNotEmpty DEF Counting, Configured
<1>5. Counting' = Counting \ {i}
  BY <1>2, <1>4, OnlyHere DEF Counting
<1>6. Idle' \in {Idle, Idle \union {i}}
  <2>1. i \in Idle => i \in Idle'
    BY <1>3 DEF Idle
  <2> QED BY <1>2, <1>3, <2>1, OnlyHere DEF Idle
<1>7. Session!Clear(i)
  BY <1>1, <1>5, <1>6 DEF Session!Clear
<1> QED BY <1>3, <1>7 DEF Session!Next

\* ... and the one that enables a CPU.
LEMMA StartStep ==
  ASSUME IInv, ~failed', failed' = failed, Enable, BehindInv'
  PROVE  Session!Next
<1> USE DEF IInv
<1>1. msr' = [msr EXCEPT ![i] = [msr[i] EXCEPT !.global = value]]
  BY NoFault DEF Enable
<1>2. /\ msr'[i].global = value /\ msr'[i].fixed = msr[i].fixed
      /\ msr'[i].sel = msr[i].sel /\ i \in Cpus
  BY <1>1 DEF TypeOK, Registers
<1>3. pc = "enable" /\ c = NCustom /\ set /\ set' = set /\ NextCpu /\ dirty' = dirty
  BY DEF Enable, PlaceInv, SetOnly
<1>4. i \in Idle
  BY <1>2, <1>3 DEF HereInv, Programming, Idle
<1>5. i \in Counting'
  BY <1>2, <1>3 DEF HereInv, Configured, Mask, Counting
<1>6. \A n \in Cpus \ {i} : msr'[n] = msr[n] /\ dirty'[n] = dirty[n]
  BY <1>1, <1>3 DEF TypeOK
<1>7. Counting' = Counting \union {i}
  BY <1>2, <1>5, <1>6, OnlyHere DEF Counting
<1>8. Idle' = Idle \ {i}
  <2>1. (Idle \subseteq Cpus \ Counting)'
    BY Apart, PTL
  <2> QED BY <1>5, <1>6, <2>1, OnlyHere DEF Idle
<1>9. Phase = "on" /\ Phase' \in {"on", "measuring"}
  BY <1>3 DEF Phase, NextCpu
<1>10. Phase' = "measuring" => Counting' = Cpus
  <2>1. Phase' = "measuring" => pc' = "run"
    BY DEF Phase
  <2> QED BY <1>3, <2>1 DEF BehindInv, Behind, Counting
<1>11. Session!Start(i)
  BY <1>4, <1>7, <1>8, <1>9, <1>10 DEF Session!Start
<1> QED BY <1>2, <1>11 DEF Session!Next

LEMMA SessionStep ==
  ASSUME IInv, IInv', [Next]_vars
  PROVE  [Session!Next]_(Session!vars)
<1> USE DEF IInv
<1>1. CASE Program
  <2>1. CASE failed' = TRUE
    BY <1>1, <2>1, BrokenStep
  <2>2. CASE ~failed'
    <3>1. ~OpenThrows
      BY <2>2 DEF OpenThrows, Fault
    <3>2. ~failed
      BY <1>1, <2>2, <3>1, NoFault
         DEF Program, Open, Disable, ResetPmc, CheckFixed, FixedOff, ReadFixed, WriteFixed, Select,
             SelectDone, Enable, Benchmark
    <3>3. failed' = failed
      BY <2>2, <3>2 DEF TypeOK
    <3>4. CASE Benchmark
      <4>1. Counting' = Counting /\ Idle' = Idle
        BY <3>4 DEF Benchmark, Counting, Idle, Configured
      <4>2. Phase = "measuring" /\ Phase' = "off"
        BY <3>4 DEF Phase, Benchmark
      <4> QED BY <3>3, <4>1, <4>2 DEF Session!Stop, Session!Next
    <3>5. CASE ~Benchmark
      BY <1>1, <2>2, <3>1, <3>3, <3>5, QuietStep, ClearStep, StartStep DEF Program
    <3> QED BY <3>4, <3>5
  <2> QED BY <2>1, <2>2 DEF TypeOK
<1>2. CASE Crash
  <2>1. Counting' = Counting /\ Idle' = Idle /\ failed' = failed
    BY <1>2 DEF Crash, Unfailing, Counting, Idle, Configured
  <2>2. Phase \notin {"over", "dead"} /\ Phase' = "dead"
    BY <1>2 DEF Crash, Phase, Ended
  <2> QED BY <2>1, <2>2 DEF Session!Die, Session!Over, Session!Next
<1>3. CASE Restart
  <2>1. Counting' = Counting /\ Idle' = Idle
    BY <1>3 DEF Restart, Counting, Idle, Configured
  <2>2. Phase \in {"over", "dead"} /\ Phase' = "on" /\ failed' = FALSE
    BY <1>3 DEF Restart, Phase, Ended
  <2> QED BY <2>1, <2>2 DEF Session!Restart, Session!Over, Session!Next
<1>4. CASE \E n \in Cpus, k \in Pmcs : Count(n, k)
  <2>1. PICK n \in Cpus, k \in Pmcs : Count(n, k)
    BY <1>4
  <2>2. Counting' = Counting /\ failed' = failed /\ Phase' = Phase
    BY <2>1 DEF Count, Counting, Configured, Phase, locals
  <2>3. \A m \in Cpus : m \in Idle' <=> m \in Idle
    BY <2>1 DEF Count, Idle, TypeOK
  <2>4. Idle' = Idle
    BY <2>3 DEF Idle
  <2> QED BY <2>2, <2>4 DEF Session!vars
<1>5. CASE UNCHANGED vars
  BY <1>5 DEF vars, Session!vars, Phase, Counting, Idle, Configured
<1> QED BY <1>1, <1>2, <1>3, <1>4, <1>5 DEF Next, Environment, Stopped

\* Every start of the program is a session: a CPU starts only when it is idle and
\* programmed, measuring starts when all do, and the end finds all of them idle.
THEOREM RefinesSession == Spec => Session!Spec
<1>1. IInv /\ IInv' /\ [Next]_vars => [Session!Next]_(Session!vars)
  BY SessionStep
<1> QED BY <1>1, SessionInit, Inductive, PTL DEF Spec, Session!Spec

-----------------------------------------------------------------------------
(* Progress: no start of a program goes round in its loops. *)

\* What the CPUs after cpus[n], and the second call, take at most.
CpusAfter(n) == (NCpus - 1 - n) * StepsPerCpu

SecondCall == 1 + NCpus * StepsPerCpu

\* Products, so that the rest is linear.
LEMMA CpusAfterIs ==
  /\ StepsPerCpu \in Nat /\ StepsPerCpu = NPmc + NCustom + 8
  /\ SecondCall \in Nat /\ SecondCall = 1 + CpusAfter(0) + StepsPerCpu
  /\ \A n \in Cpus : CpusAfter(n) \in Nat
  /\ \A n \in Cpus : CpusAfter(n + 1) = CpusAfter(n) - StepsPerCpu
<1>1. /\ StepsPerCpu \in Nat /\ StepsPerCpu = NPmc + NCustom + 8 /\ NCpus \in Nat
  BY Sizes DEF StepsPerCpu
<1>2. \A n \in Cpus : n \in Int /\ NCpus - 1 - n \in Nat
  BY Sizes DEF Cpus
<1>3. \A d, k \in Nat : d * k \in Nat
  OBVIOUS
<1>4. \A n \in Cpus : CpusAfter(n) \in Nat
  BY <1>1, <1>2, <1>3 DEF CpusAfter
<1>5. \A n, k \in Int : (NCpus - 1 - (n + 1)) * k = (NCpus - 1 - n) * k - k
  BY <1>1
<1>6. \A n \in Cpus : CpusAfter(n + 1) = CpusAfter(n) - StepsPerCpu
  BY <1>1, <1>2, <1>5 DEF CpusAfter
<1>7. SecondCall \in Nat
  BY <1>1, <1>3 DEF SecondCall
<1>8. \A k \in Int : NCpus * k = (NCpus - 1 - 0) * k + k
  BY <1>1
<1>9. SecondCall = 1 + CpusAfter(0) + StepsPerCpu
  BY <1>1, <1>8 DEF SecondCall, CpusAfter
<1> QED BY <1>1, <1>4, <1>6, <1>7, <1>9

\* The measure, position by position.
Ahead == CpusAfter(i) + (IF set THEN SecondCall ELSE 0)

WorkShown ==
  /\ Ahead \in Nat
  /\ pc = "open" => Work = Ahead + NCustom + NPmc + 8
  /\ pc = "disable" => Work = Ahead + NCustom + NPmc + 7
  /\ pc = "reset" => Work = Ahead + NCustom + 6 + NPmc - c /\ c < NPmc
  /\ pc = "checkFixed" => Work = Ahead + NCustom + 6
  /\ pc = "fixedOff" => Work = Ahead + NCustom + 5
  /\ pc = "readFixed" => Work = Ahead + NCustom + 4
  /\ pc = "writeFixed" => Work = Ahead + NCustom + 3
  /\ pc = "select" => Work = Ahead + NCustom + 2 - c /\ c <= NCustom
  /\ pc = "enable" => Work = Ahead + 1
  /\ pc = "run" => Work = SecondCall
  /\ pc \in Ended => Work = 0

LEMMA WorkIs == ASSUME TypeOK, PlaceInv PROVE WorkShown
<1>1. /\ NPmc \in Nat /\ NCustom \in Nat /\ StepsPerCpu = NPmc + NCustom + 8
      /\ CpusAfter(i) \in Nat /\ SecondCall \in Nat /\ c \in Nat /\ set \in BOOLEAN
  BY CpusAfterIs, Sizes DEF TypeOK
<1>2. Ahead \in Nat
  BY <1>1 DEF Ahead
<1>3. pc = "run" => Work = SecondCall
  BY DEF Work, SecondCall, Ended
<1>4. pc \in Ended => Work = 0
  BY DEF Work, Ended
<1>5. pc \notin Ended \union {"run"} =>
        Work = AtThisCpu + CpusAfter(i) + (IF set THEN SecondCall ELSE 0)
  BY DEF Work, SecondCall, CpusAfter
<1>6. ASSUME AtThisCpu \in Int
      PROVE AtThisCpu + CpusAfter(i) + (IF set THEN SecondCall ELSE 0) = Ahead + AtThisCpu
  BY <1>1, <1>6 DEF Ahead
<1>7. pc \in Labels
  BY DEF TypeOK
<1> QED BY <1>1, <1>2, <1>3, <1>4, <1>5, <1>6, <1>7 DEF WorkShown, AtThisCpu, Labels,
           Ended, PlaceInv

\* Going on to the next CPU, or out of the loop.
LEMMA NextCpuNearer ==
  ASSUME TypeOK, WorkShown, WorkShown', NextCpu, set' = set
  PROVE  Work' \in Int /\ Work' <= Ahead
<1>1. /\ i \in Cpus /\ i \in Nat /\ NCpus \in Nat /\ NPmc \in Nat /\ NCustom \in Nat /\ set \in BOOLEAN
      /\ StepsPerCpu = NPmc + NCustom + 8 /\ SecondCall \in Nat
      /\ CpusAfter(i) \in Nat /\ CpusAfter(i + 1) = CpusAfter(i) - StepsPerCpu
  BY CpusAfterIs, Sizes DEF TypeOK, Cpus
<1>2. CASE i + 1 < NCpus
  <2>1. i' = i + 1 /\ pc' = IF set THEN "open" ELSE "disable"
    BY <1>2 DEF NextCpu
  <2>2. Ahead' = Ahead - StepsPerCpu
    BY <1>1, <2>1 DEF Ahead
  <2>3. Ahead \in Nat
    BY DEF WorkShown
  <2> QED BY <1>1, <2>1, <2>2, <2>3 DEF WorkShown
<1>3. CASE ~(i + 1 < NCpus)
  <2>1. pc' = IF set THEN "run" ELSE "exited"
    BY <1>3 DEF NextCpu
  <2> QED BY <1>1, <2>1 DEF WorkShown, Ahead, Ended
<1> QED BY <1>2, <1>3

\* With the fixed counters off there are at most the events left for this CPU.
LEMMA AfterFixedNearer ==
  ASSUME TypeOK, WorkShown, WorkShown', AfterFixed, set' = set
  PROVE  Work' \in Int /\ Work' <= Ahead + NCustom + 4
<1>1. Ahead \in Nat /\ NCustom \in Nat
  BY Sizes DEF WorkShown
<1>2. CASE set
  <2>1. pc' = "readFixed" /\ i' = i
    BY <1>2 DEF AfterFixed
  <2>2. Ahead' = Ahead
    BY <2>1 DEF Ahead
  <2> QED BY <1>1, <2>1, <2>2 DEF WorkShown
<1>3. CASE ~set
  <2>1. Work' \in Int /\ Work' <= Ahead
    BY <1>3, NextCpuNearer DEF AfterFixed
  <2> QED BY <1>1, <2>1
<1> QED BY <1>2, <1>3

LEMMA ProgramNearer ==
  ASSUME TypeOK, PlaceInv, TypeOK', PlaceInv', Program
  PROVE  Work' < Work
<1>1. WorkShown
  BY WorkIs
<1>2. WorkShown'
  BY WorkIs, PTL
<1>3. NPmc \in Nat /\ NCustom \in Nat /\ NCustom <= NPmc /\ c \in Nat
  BY Sizes DEF TypeOK
<1>4. Ahead \in Nat
  BY <1>1 DEF WorkShown
<1>5. i' = i /\ set' = set => Ahead' = Ahead
  BY DEF Ahead
<1> USE DEF WorkShown
<1>6. CASE Open
  BY <1>6, <1>1, <1>2, <1>3, <1>4, <1>5 DEF Open, locals
<1>7. CASE OpenThrows
  BY <1>7, <1>1, <1>2, <1>3, <1>4 DEF OpenThrows, Ended
<1>8. CASE Disable
  BY <1>8, <1>1, <1>2, <1>3, <1>4, <1>5 DEF Disable
<1>9. CASE ResetPmc
  <2>1. pc = "reset" /\ i' = i /\ set' = set
    BY <1>9 DEF ResetPmc
  <2>2. \/ pc' = "reset" /\ c' = c + 1
        \/ pc' \in {"fixedOff", "checkFixed"}
    BY <1>9, <2>1 DEF ResetPmc, NextPmc
  <2> QED BY <2>1, <2>2, <1>1, <1>2, <1>3, <1>4, <1>5
<1>10. CASE CheckFixed
  <2>1. pc = "checkFixed" /\ set' = set
    BY <1>10 DEF CheckFixed
  <2>2. CASE pc' = "fixedOff" /\ i' = i
    BY <2>1, <2>2, <1>1, <1>2, <1>3, <1>4, <1>5
  <2>3. CASE AfterFixed
    BY <2>1, <2>3, <1>1, <1>2, <1>3, <1>4, AfterFixedNearer
  <2> QED BY <1>10, <2>2, <2>3 DEF CheckFixed
<1>11. CASE FixedOff
  <2>1. pc = "fixedOff" /\ set' = set /\ AfterFixed
    BY <1>11 DEF FixedOff
  <2> QED BY <2>1, <1>1, <1>2, <1>3, <1>4, AfterFixedNearer
<1>12. CASE ReadFixed
  BY <1>12, <1>1, <1>2, <1>3, <1>4, <1>5 DEF ReadFixed
<1>13. CASE WriteFixed
  BY <1>13, <1>1, <1>2, <1>3, <1>4, <1>5 DEF WriteFixed
<1>14. CASE Select
  BY <1>14, <1>1, <1>2, <1>3, <1>4, <1>5 DEF Select
<1>15. CASE SelectDone
  <2>1. pc = "select" /\ pc' = "enable" /\ i' = i /\ set' = set
    BY <1>15 DEF SelectDone, locals
  <2> QED BY <2>1, <1>1, <1>2, <1>3, <1>4, <1>5
<1>16. CASE Enable
  <2>1. pc = "enable" /\ set' = set /\ NextCpu
    BY <1>16 DEF Enable
  <2> QED BY <2>1, <1>1, <1>2, <1>4, NextCpuNearer
<1>17. CASE Benchmark
  <2>1. pc = "run" /\ pc' = "disable" /\ i' = i /\ i = 0 /\ set' = FALSE
    BY <1>17 DEF Benchmark, PlaceInv
  <2>2. Ahead' = CpusAfter(0)
    BY <2>1, CpusAfterIs, Sizes DEF Ahead, Cpus
  <2> QED BY <2>1, <2>2, <1>1, <1>2, <1>3, <1>4, CpusAfterIs
<1> QED
  BY <1>6, <1>7, <1>8, <1>9, <1>10, <1>11, <1>12, <1>13, <1>14, <1>15, <1>16,
     <1>17 DEF Program

\* Any start of either program ends after at most as many steps as Work says.
THEOREM ProgressHolds == Spec => Progress /\ [](Work \in Nat)
<1>1. IInv => Work \in Nat
  <2> SUFFICES ASSUME IInv PROVE Work \in Nat
    OBVIOUS
  <2>1. WorkShown
    BY WorkIs DEF IInv
  <2> QED BY <2>1, CpusAfterIs, Sizes DEF WorkShown, IInv, TypeOK, Labels, Ended
<1>2. IInv /\ IInv' /\ [Next]_vars =>
        [Restart \/ (\E n \in Cpus, k \in Pmcs : Count(n, k)) \/ Work' < Work]_vars
  <2> SUFFICES ASSUME IInv, IInv', Program \/ Crash PROVE Work' < Work
    BY DEF Next, Environment, Stopped
  <2>1. CASE Program
    BY <2>1, ProgramNearer DEF IInv
  <2>2. CASE Crash
    <3>1. WorkShown
      BY WorkIs DEF IInv
    <3>2. WorkShown'
      BY WorkIs, PTL DEF IInv
    <3>3. Work' = 0
      BY <2>2, <3>2 DEF WorkShown, Crash, Ended
    <3>4. /\ NPmc \in Nat /\ NCustom \in Nat /\ c \in Nat /\ SecondCall \in Nat
          /\ SecondCall > 0 /\ pc \in Labels \ Ended
      <4>1. SecondCall = 1 + CpusAfter(0) + StepsPerCpu /\ CpusAfter(0) \in Nat
        BY CpusAfterIs, Sizes DEF Cpus
      <4> QED BY <2>2, <4>1, CpusAfterIs, Sizes DEF Crash, IInv, TypeOK
    <3>5. Work \in Nat /\ Work > 0
      BY <3>1, <3>4 DEF WorkShown, Labels
    <3> QED BY <3>3, <3>5
  <2> QED BY <2>1, <2>2
<1> QED BY <1>1, <1>2, Inductive, PTL DEF Spec, Progress
=============================================================================

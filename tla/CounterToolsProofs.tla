-------------------------- MODULE CounterToolsProofs --------------------------
(***************************************************************************)
(* Proofs about CounterTools: typing (CommandInv), what the register of wrmsr *)
(* holds (WrmsrInv), and what the kernel module and the L3 counting leave in  *)
(* their counters (CleanInv), for any number of CPUs, fixed counters, events  *)
(* and failures, and any programs run at any time.                            *)
(***************************************************************************)
EXTENDS CounterTools, TLAPS, SequenceTheorems

Accesses ==
  [op : {"open", "fixed"}, cpu : Cpus]
    \union [op : {"read"}, cpu : Cpus, counter : Counters]
    \union Writes

LEMMA Cores == NumCores \in Nat \ {0} /\ 0 \in Cpus /\ (\A k \in 1..NumCores : k - 1 \in Cpus)
  BY ToolsAssumption DEF Cpus

LEMMA AccessTypes ==
  ASSUME NEW n \in Cpus
  PROVE  /\ Open(n) \in Accesses /\ FixedOn(n) \in Accesses
         /\ \A c \in Counters : Read(n, c) \in Accesses /\ \A v \in Nat : Put(n, c, v) \in Accesses
         /\ \A c \in Pmcs, e \in {"none", "miss", "ref"} : Select(n, c, e) \in Accesses
         /\ \A S \in SUBSET Counters : Global(n, S) \in Accesses
  BY DEF Accesses, Writes, Open, FixedOn, Read, Put, Select, Global

LEMMA Divide ==
  ASSUME NEW n \in Nat \ {0}, NEW d \in Nat \ {0}, NEW k \in 1..(n * d)
  PROVE  (k - 1) \div d \in 0..(n - 1) /\ ((k - 1) % d) + 1 \in 1..d
<1> DEFINE q == (k - 1) \div d
           r == (k - 1) % d
<1>1. q \in Nat /\ r \in 0..(d - 1) /\ k - 1 = q * d + r
  OBVIOUS
<1>2. ASSUME q >= n PROVE FALSE
  <2>1. q * d >= n * d
    BY <1>1, <1>2
  <2>2. n * d \in Nat /\ q * d \in Nat
    BY <1>1
  <2> QED BY <1>1, <2>1, <2>2
<1> QED BY <1>1, <1>2

LEMMA KernelType == ASSUME NEW n \in Cpus PROVE Kernel(n) \in Seq(Accesses) /\ Len(Kernel(n)) = 6
<1>1. {"pmc0"} \subseteq Pmcs /\ Pmcs \subseteq Counters
  BY DEF Pmcs, Counters
<1>2. LowerHalf(Counters) \in SUBSET Counters
  BY DEF LowerHalf
<1> QED BY <1>1, <1>2, AccessTypes DEF Kernel

LEMMA L3Type == L3(0) \in Seq(Accesses) /\ Len(L3(0)) = 13
<1>1. {"pmc0", "pmc1"} \subseteq Pmcs /\ Pmcs \subseteq Counters /\ 0 \in Cpus
  BY Cores DEF Pmcs, Counters
<1>2. Disable(0, "pmc0") \in Seq(Accesses) /\ Disable(0, "pmc1") \in Seq(Accesses)
  BY <1>1, AccessTypes DEF Disable
<1> QED BY <1>1, <1>2, AccessTypes DEF L3, Disable

LEMMA SetUpsType == EachCore(SetUp, 3) \in Seq(Accesses)
<1>1. ASSUME NEW n \in Cpus PROVE SetUp[n] \in [1..3 -> Accesses]
  <2>1. Counters \in SUBSET Counters
    OBVIOUS
  <2> QED BY <2>1, AccessTypes DEF SetUp
<1>2. ASSUME NEW k \in 1..(NumCores * 3) PROVE SetUp[(k - 1) \div 3][((k - 1) % 3) + 1] \in Accesses
  BY <1>1, Cores, Divide DEF Cpus
<1>3. NumCores * 3 \in Nat
  BY Cores
<1> QED BY <1>2, <1>3 DEF EachCore

LEMMA ReadAllType == ReadAll \in Seq(Accesses)
<1> DEFINE f == Len(FixedCounters)
<1>1. f \in Nat \ {0} /\ DOMAIN FixedCounters = 1..f
  BY ToolsAssumption
<1>2. ASSUME NEW n \in Cpus PROVE ReadCore[n] \in [1..f -> Accesses]
  <2>1. \A k \in 1..f : FixedCounters[k] \in Counters
    BY <1>1 DEF Counters, Fixed
  <2> QED BY <1>1, <2>1, AccessTypes DEF ReadCore
<1>3. ASSUME NEW k \in 1..(NumCores * f) PROVE ReadCore[(k - 1) \div f][((k - 1) % f) + 1] \in Accesses
  BY <1>1, <1>2, Cores, Divide DEF Cpus
<1>4. NumCores * f \in Nat
  BY <1>1, Cores
<1> QED BY <1>3, <1>4 DEF EachCore, ReadAll

LEMMA MsrTestType == MsrTest \in Seq(Accesses)
  BY SetUpsType, ReadAllType DEF MsrTest

LEMMA ScriptType ==
  ASSUME where \in Cpus, command \in Seq(Writes), command # <<>>, NEW p \in Programs
  PROVE  Script(p) \in Seq(Accesses)
<1>1. Wrmsr \in Seq(Accesses)
  <2>1. command[1] \in Writes /\ command \in Seq(Accesses)
    BY DEF Accesses
  <2>2. command[1].cpu \in Cpus
    BY <2>1 DEF Writes
  <2> QED BY <2>1, <2>2, AccessTypes DEF Wrmsr
<1> QED BY <1>1, KernelType, L3Type, MsrTestType DEF Script, Programs

-----------------------------------------------------------------------------
(* Typing. *)

\* The operands of wrmsr are there once it has been started.
CommandInv ==
  /\ status["wrmsr"] # "idle" => command \in Commands
  /\ \A p \in Programs : status[p] = "idle" => at[p] = 0

LEMMA CommandType ==
  ASSUME NEW w \in Commands
  PROVE  /\ w \in Seq(Writes) /\ w # <<>> /\ w[1] \in Writes
         /\ \A k \in DOMAIN w : w[k] \in Writes /\ SameRegister(w[k], w[1])
  BY ToolsAssumption

\* The next access of a running program.
LEMMA AccessType ==
  ASSUME TypeOK, CommandInv, NEW p \in Programs, More(p)
  PROVE  Access(p) \in Accesses /\ at[p] + 1 \in 1..Len(Script(p))
<1>1. at[p] \in Nat /\ where \in Cpus
  BY DEF TypeOK
<1>2. CASE p = "wrmsr"
  <2>1. Script(p) \in Seq(Accesses)
    BY <1>1, <1>2, ScriptType, CommandType DEF More, CommandInv
  <2> QED BY <1>1, <2>1 DEF More, Access
<1>3. CASE p # "wrmsr"
  <2>1. Script(p) \in Seq(Accesses)
    BY <1>1, <1>3, KernelType, L3Type, MsrTestType DEF Script, Programs
  <2> QED BY <1>1, <2>1 DEF More, Access
<1> QED BY <1>2, <1>3

\* A write leaves a CPU's registers what they are.
LEMMA WrittenType ==
  ASSUME NEW m \in Msr, NEW a \in Accesses, a.op \notin {"open", "read"}
  PROVE  Written(m, a) \in Msr
<1>1. CASE a.op = "select"
  <2>1. a.counter \in Pmcs /\ a.value \in {"none", "miss", "ref"}
    BY <1>1 DEF Accesses, Writes
  <2> QED BY <1>1, <2>1 DEF Written, Msr
<1>2. CASE a.op = "put"
  <2>1. a.counter \in Counters /\ a.value \in Nat
    BY <1>2 DEF Accesses, Writes
  <2> QED BY <1>2, <2>1 DEF Written, Msr
<1>3. CASE a.op = "global"
  <2>1. a.value \in SUBSET Counters
    BY <1>3 DEF Accesses, Writes
  <2> QED BY <1>3, <2>1 DEF Written, Msr
<1>4. CASE a.op = "fixed"
  BY <1>4 DEF Written, Msr
<1> QED BY <1>1, <1>2, <1>3, <1>4 DEF Accesses, Writes

LEMMA OpTypes ==
  ASSUME NEW a \in Accesses
  PROVE  /\ a.cpu \in Cpus
         /\ a.op \in {"open", "read", "select", "put", "global", "fixed"}
         /\ a.op \in {"read", "put"} => a.counter \in Counters
         /\ a.op = "select" => a.counter \in Pmcs /\ a.value \in {"none", "miss", "ref"}
         /\ a.op = "global" => a.value \in SUBSET Counters
         /\ a.op = "put" => a.value \in Nat
  BY DEF Accesses, Writes

LEMMA MeantType == \A c \in Counters : Meant(c) \in Events
  BY DEF Meant, Counters, Events, Pmcs

LEMMA InitType == ASSUME Init PROVE TypeOK /\ CommandInv
<1>1. PICK s \in Scenarios : programs = s.programs /\ msr \in s.found /\ events = s.events /\ faults = s.faults
  BY DEF Init
<1>2. msr \in [Cpus -> Msr] /\ events \in Nat /\ faults \in Nat
  BY <1>1, ToolsAssumption
<1>3. programs \in {x.programs : x \in Scenarios}
  BY <1>1
<1>4. /\ status \in [Programs -> {"idle", "running", "over", "failed"}] /\ at \in [Programs -> Nat]
      /\ fd \in [Programs -> BOOLEAN] /\ got \in [Programs -> Seq(Nat)] /\ saw \in [Programs -> Seq(Nat)]
  BY DEF Init
<1>5. happened \in [Cpus -> [Events -> Nat]]
  BY DEF Init
<1>6. \A p \in Programs : status[p] = "idle" /\ at[p] = 0
  BY DEF Init
<1>7. TypeOK
  BY <1>2, <1>3, <1>4, <1>5, <1>6, Cores DEF Init, TypeOK
<1>8. "wrmsr" \in Programs
  BY DEF Programs
<1> QED BY <1>6, <1>7, <1>8 DEF CommandInv

\* A step of p takes p from one access to the next and lets all others be.
LEMMA AtType ==
  ASSUME TypeOK, CommandInv, NEW p \in Programs, More(p), Made(p), UNCHANGED <<command, status, where>>
  PROVE  /\ at' \in [Programs -> Nat] /\ CommandInv'
         /\ \A q \in Programs : status'[q] # "idle" => at'[q] <= Len(Script(q)')
<1>1. at' \in [Programs -> Nat]
  BY DEF TypeOK, Made
<1>2. CommandInv'
  BY DEF CommandInv, Made, TypeOK, More
<1>3. \A q \in Programs : Script(q)' = Script(q)
  BY DEF Script, Kernel, Wrmsr
<1>4. at[p] + 1 <= Len(Script(p))
  BY AccessType
<1>5. ASSUME NEW q \in Programs, status'[q] # "idle" PROVE at'[q] <= Len(Script(q)')
  BY <1>3, <1>4, <1>5 DEF TypeOK, Made
<1> QED BY <1>1, <1>2, <1>5

\* The same for the steps that move a program to another status.
LEMMA StatusType ==
  ASSUME TypeOK, CommandInv, NEW p \in Programs, status[p] = "running", NEW s \in {"over", "failed"},
         status' = [status EXCEPT ![p] = s], UNCHANGED <<command, at, where>>
  PROVE  /\ status' \in [Programs -> {"idle", "running", "over", "failed"}] /\ CommandInv'
         /\ \A q \in Programs : status'[q] # "idle" => at'[q] <= Len(Script(q)')
<1>1. status' \in [Programs -> {"idle", "running", "over", "failed"}]
  BY DEF TypeOK
<1>2. CommandInv'
  BY DEF CommandInv, TypeOK, Programs
<1>3. \A q \in Programs : Script(q)' = Script(q)
  BY DEF Script, Kernel, Wrmsr
<1> QED BY <1>1, <1>2, <1>3 DEF TypeOK

LEMMA StepType == ASSUME TypeOK, CommandInv, [Next]_vars PROVE TypeOK' /\ CommandInv'
<1>1. ASSUME NEW p \in Programs, Start(p) PROVE TypeOK' /\ CommandInv'
  <2>1. status' \in [Programs -> {"idle", "running", "over", "failed"}]
    BY <1>1 DEF Start, TypeOK
  <2>2. command' \in Commands \union {<<>>} /\ where' \in Cpus /\ clean' \in BOOLEAN
    BY <1>1 DEF Start, TypeOK
  <2>3. CommandInv'
    BY <1>1 DEF Start, CommandInv, TypeOK, Programs
  <2>4. ASSUME NEW q \in Programs, status'[q] # "idle" PROVE at'[q] <= Len(Script(q)')
    <3>1. at'[q] = at[q]
      BY <1>1 DEF Start
    <3>2. CASE q = p
      <4>1. Script(q)' \in Seq(Accesses)
        <5>1. CASE q = "wrmsr"
          <6>1. command' \in Seq(Writes) /\ command' # <<>> /\ command'[1].cpu \in Cpus
            BY <1>1, <3>2, <5>1, CommandType DEF Start, Writes
          <6>2. command' \in Seq(Accesses)
            BY <6>1 DEF Accesses
          <6> QED BY <5>1, <6>1, <6>2, AccessTypes DEF Script, Wrmsr
        <5>2. CASE q # "wrmsr"
          BY <2>2, <5>2, KernelType, L3Type, MsrTestType DEF Script, Programs
        <5> QED BY <5>1, <5>2
      <4>2. at[q] = 0
        BY <1>1, <3>2 DEF Start, CommandInv
      <4> QED BY <3>1, <4>1, <4>2
    <3>3. CASE q # p
      <4>1. status[q] # "idle"
        BY <1>1, <2>4, <3>3 DEF Start, TypeOK
      <4>2. Len(Script(q)') = Len(Script(q))
        <5>1. CASE q = "kernel"
          BY <2>2, <5>1, KernelType DEF Script, TypeOK
        <5>2. CASE q = "wrmsr"
          BY <1>1, <3>3, <5>2 DEF Start, Script, Wrmsr
        <5>3. CASE q \in {"l3", "msrtest"}
          BY <5>3 DEF Script
        <5> QED BY <5>1, <5>2, <5>3 DEF Programs
      <4> QED BY <3>1, <4>1, <4>2 DEF TypeOK
    <3> QED BY <3>2, <3>3
  <2> QED BY <1>1, <2>1, <2>2, <2>3, <2>4 DEF Start, TypeOK
<1>2. ASSUME NEW p \in Programs, OpenDevice(p) PROVE TypeOK' /\ CommandInv'
  <2>1. fd' \in [Programs -> BOOLEAN]
    BY <1>2 DEF OpenDevice, TypeOK
  <2>2. /\ at' \in [Programs -> Nat] /\ CommandInv'
        /\ \A q \in Programs : status'[q] # "idle" => at'[q] <= Len(Script(q)')
    BY <1>2, AtType DEF OpenDevice
  <2> QED BY <1>2, <2>1, <2>2 DEF OpenDevice, TypeOK
<1>3. ASSUME NEW p \in Programs, WriteMsr(p) PROVE TypeOK' /\ CommandInv'
  <2>1. Access(p) \in Accesses
    BY <1>3, AccessType DEF WriteMsr
  <2>2. msr' \in [Cpus -> Msr]
    <3>1. msr' = [msr EXCEPT ![Access(p).cpu] = Written(@, Access(p))]
      BY <1>3 DEF WriteMsr
    <3>2. msr[Access(p).cpu] \in Msr
      BY <2>1, OpTypes DEF TypeOK
    <3>3. Written(msr[Access(p).cpu], Access(p)) \in Msr
      BY <1>3, <2>1, <3>2, WrittenType DEF WriteMsr
    <3> QED BY <3>1, <3>3 DEF TypeOK
  <2>3. spoiled' \subseteq Programs
    BY <1>3 DEF WriteMsr, TypeOK
  <2>4. since' \in Nat
    <3>1. "miss" \in Events
      BY DEF Events
    <3> QED BY <1>3, <2>1, <3>1, OpTypes DEF WriteMsr, TypeOK
  <2>5. /\ at' \in [Programs -> Nat] /\ CommandInv'
        /\ \A q \in Programs : status'[q] # "idle" => at'[q] <= Len(Script(q)')
    BY <1>3, AtType DEF WriteMsr
  <2> QED BY <1>3, <2>2, <2>3, <2>4, <2>5 DEF WriteMsr, TypeOK
<1>4. ASSUME NEW p \in Programs, ReadMsr(p) PROVE TypeOK' /\ CommandInv'
  <2>1. Access(p) \in Accesses /\ Access(p).op = "read"
    BY <1>4, AccessType DEF ReadMsr
  <2>2. Access(p).cpu \in Cpus /\ Access(p).counter \in Counters
    BY <2>1, OpTypes
  <2>3. msr[Access(p).cpu].count[Access(p).counter] \in Nat
    BY <2>2 DEF TypeOK, Msr
  <2>4. happened[Access(p).cpu][Meant(Access(p).counter)] \in Nat
    BY <2>2, MeantType DEF TypeOK
  <2>5. got' \in [Programs -> Seq(Nat)] /\ saw' \in [Programs -> Seq(Nat)]
    BY <1>4, <2>3, <2>4 DEF ReadMsr, TypeOK
  <2>6. /\ at' \in [Programs -> Nat] /\ CommandInv'
        /\ \A q \in Programs : status'[q] # "idle" => at'[q] <= Len(Script(q)')
    BY <1>4, AtType DEF ReadMsr
  <2> QED BY <1>4, <2>5, <2>6 DEF ReadMsr, TypeOK
<1>5. ASSUME NEW p \in Programs, Fault(p), faults \in Nat PROVE faults' \in Nat
  BY <1>5 DEF Fault
<1>6. ASSUME NEW p \in Programs, Fails(p) PROVE TypeOK' /\ CommandInv'
  <2>1. faults' \in Nat /\ faulty' \subseteq Programs
    BY <1>5, <1>6 DEF Fails, Fault, TypeOK
  <2>2. /\ status' \in [Programs -> {"idle", "running", "over", "failed"}] /\ CommandInv'
        /\ \A q \in Programs : status'[q] # "idle" => at'[q] <= Len(Script(q)')
    BY <1>6, StatusType DEF Fails, More
  <2> QED BY <1>6, <2>1, <2>2 DEF Fails, TypeOK
<1>7. ASSUME NEW p \in Programs, FailsUnnoticed(p) PROVE TypeOK' /\ CommandInv'
  <2>1. faults' \in Nat /\ faulty' \subseteq Programs
    BY <1>5, <1>7 DEF FailsUnnoticed, Fault, TypeOK
  <2>2. got' \in [Programs -> Seq(Nat)] /\ saw' \in [Programs -> Seq(Nat)]
    <3>1. Uninit \in Nat /\ got[p] \in Seq(Nat) /\ saw[p] \in Seq(Nat)
      BY ToolsAssumption DEF TypeOK
    <3>2. Append(got[p], Uninit) \in Seq(Nat) /\ Append(saw[p], 0) \in Seq(Nat)
      BY <3>1
    <3>3. \/ got' = [got EXCEPT ![p] = Append(@, Uninit)] /\ saw' = [saw EXCEPT ![p] = Append(@, 0)]
          \/ UNCHANGED <<got, saw>>
      BY <1>7 DEF FailsUnnoticed
    <3> QED BY <3>2, <3>3 DEF TypeOK
  <2>3. /\ at' \in [Programs -> Nat] /\ CommandInv'
        /\ \A q \in Programs : status'[q] # "idle" => at'[q] <= Len(Script(q)')
    BY <1>7, AtType DEF FailsUnnoticed
  <2> QED BY <1>7, <2>1, <2>2, <2>3 DEF FailsUnnoticed, TypeOK
<1>8. ASSUME NEW p \in Programs, Finish(p) PROVE TypeOK' /\ CommandInv'
  <2>1. /\ status' \in [Programs -> {"idle", "running", "over", "failed"}] /\ CommandInv'
        /\ \A q \in Programs : status'[q] # "idle" => at'[q] <= Len(Script(q)')
    BY <1>8, StatusType DEF Finish
  <2> QED BY <1>8, <2>1 DEF Finish, TypeOK
<1>9. CASE Migrate
  <2>1. ASSUME NEW q \in Programs PROVE Len(Script(q)') = Len(Script(q))
    <3>1. CASE q = "kernel"
      BY <1>9, <3>1, KernelType DEF Script, TypeOK, Migrate
    <3>2. CASE q # "kernel"
      BY <1>9, <3>2 DEF Migrate, Script, Wrmsr, Programs
    <3> QED BY <3>1, <3>2
  <2>2. \A q \in Programs : status'[q] # "idle" => at'[q] <= Len(Script(q)')
    BY <1>9, <2>1 DEF Migrate, TypeOK
  <2>3. CommandInv' /\ spoiled' \subseteq Programs /\ where' \in Cpus
    BY <1>9 DEF Migrate, CommandInv, TypeOK, Programs
  <2> QED BY <1>9, <2>2, <2>3 DEF Migrate, TypeOK
<1>10. ASSUME NEW n \in Cpus, NEW e \in Events, Happen(n, e) PROVE TypeOK' /\ CommandInv'
  <2>1. \A q \in Programs : Script(q)' = Script(q)
    BY <1>10 DEF Happen, Script, Wrmsr
  <2>2. msr' \in [Cpus -> Msr]
    <3> DEFINE hits == {c \in Counters : Counts(msr[n], c, e)}
               ticked == [c \in Counters |-> IF c \in hits THEN msr[n].count[c] + 1 ELSE msr[n].count[c]]
    <3>1. msr[n] \in Msr
      BY DEF TypeOK
    <3>2. ticked \in [Counters -> Nat]
      BY <3>1 DEF Msr
    <3>3. msr' = [msr EXCEPT ![n].count = ticked]
      BY <1>10 DEF Happen, TypeOK
    <3> HIDE DEF ticked
    <3>4. [msr[n] EXCEPT !.count = ticked] \in Msr
      BY <3>1, <3>2 DEF Msr
    <3> QED BY <3>3, <3>4 DEF TypeOK
  <2>3. happened' \in [Cpus -> [Events -> Nat]] /\ events' \in Nat
    BY <1>10 DEF Happen, TypeOK
  <2>4. spoiled' \subseteq Programs
    BY <1>10 DEF Happen, TypeOK, Programs
  <2>5. CommandInv'
    BY <1>10 DEF Happen, CommandInv
  <2> QED BY <1>10, <2>1, <2>2, <2>3, <2>4, <2>5 DEF Happen, TypeOK
<1>11. CASE UNCHANGED vars
  <2>1. \A q \in Programs : Script(q)' = Script(q)
    BY <1>11 DEF vars, Script, Wrmsr, Kernel
  <2> QED BY <1>11, <2>1 DEF vars, TypeOK, CommandInv
<1> QED BY <1>1, <1>2, <1>3, <1>4, <1>6, <1>7, <1>8, <1>9, <1>10, <1>11 DEF Next, Program, Stopped
-----------------------------------------------------------------------------
(* What wrmsr has written. *)

\* The register that w writes holds its value.
Has(m, w) ==
  CASE w.op = "select" -> m.select[w.counter] = w.value
    [] w.op = "put"    -> m.count[w.counter] = w.value
    [] w.op = "global" -> m.global = w.value

LEMMA HasWritten ==
  ASSUME NEW m \in Msr, NEW w \in Writes
  PROVE  Written(m, w) = m <=> Has(m, w)
<1>1. CASE w.op = "select"
  <2>1. w.counter \in Pmcs
    BY <1>1 DEF Writes
  <2> QED BY <1>1, <2>1 DEF Written, Has, Msr
<1>2. CASE w.op = "put"
  <2>1. w.counter \in Counters
    BY <1>2 DEF Writes
  <2> QED BY <1>2, <2>1 DEF Written, Has, Msr
<1>3. CASE w.op = "global"
  BY <1>3 DEF Written, Has, Msr
<1> QED BY <1>1, <1>2, <1>3 DEF Writes

LEMMA HasAfter ==
  ASSUME NEW m \in Msr, NEW w \in Writes
  PROVE  Has(Written(m, w), w)
<1>1. CASE w.op = "select"
  <2>1. w.counter \in Pmcs
    BY <1>1 DEF Writes
  <2> QED BY <1>1, <2>1 DEF Written, Has, Msr
<1>2. CASE w.op = "put"
  <2>1. w.counter \in Counters
    BY <1>2 DEF Writes
  <2> QED BY <1>2, <2>1 DEF Written, Has, Msr
<1>3. CASE w.op = "global"
  BY <1>3 DEF Written, Has, Msr
<1> QED BY <1>1, <1>2, <1>3 DEF Writes

\* A write to another register leaves it alone.
LEMMA HasStill ==
  ASSUME NEW m \in Msr, NEW w \in Writes, Has(m, w),
         NEW a \in Accesses, a.op \notin {"open", "read"}, a.cpu = w.cpu, ~SameRegister(w, a)
  PROVE  Has(Written(m, a), w)
<1>0. /\ w.op \in {"select", "put", "global"}
      /\ w.op = "select" => w.counter \in Pmcs
      /\ w.op = "put" => w.counter \in Counters
  BY DEF Writes
<1>1. CASE a.op = "select"
  BY <1>0, <1>1 DEF Written, Has, Msr, SameRegister
<1>2. CASE a.op = "put"
  BY <1>0, <1>2 DEF Written, Has, Msr, SameRegister
<1>3. CASE a.op = "global"
  BY <1>0, <1>3 DEF Written, Has, Msr, SameRegister
<1>4. CASE a.op = "fixed"
  BY <1>0, <1>4 DEF Written, Has, Msr
<1> QED BY <1>1, <1>2, <1>3, <1>4, OpTypes

\* The last value that wrmsr has written.
Last == command[at["wrmsr"] - 1]

\* When wrmsr has written a value its register holds it, unless somebody has
\* written or counted there since; it is over when it has written all of them.
WrmsrInv ==
  /\ status["wrmsr"] = "over" => at["wrmsr"] = Len(command) + 1
  /\ "wrmsr" \notin spoiled /\ status["wrmsr"] # "idle" /\ at["wrmsr"] > 1 =>
       Has(msr[Last.cpu], Last)

\* The write with the number k of wrmsr.
LEMMA WrmsrScript ==
  ASSUME TypeOK, CommandInv, status["wrmsr"] # "idle"
  PROVE  /\ Len(Script("wrmsr")) = Len(command) + 1
         /\ Script("wrmsr")[1].op = "open"
         /\ \A k \in 1..Len(command) : Script("wrmsr")[k + 1] = command[k]
         /\ at["wrmsr"] > 1 => /\ at["wrmsr"] - 1 \in DOMAIN command /\ Last \in Writes
                               /\ Last.cpu \in Cpus /\ SameRegister(Last, command[1])
<1>1. command \in Seq(Writes) /\ command # <<>>
  BY CommandType DEF CommandInv
<1>2. Script("wrmsr") = << Open(command[1].cpu) >> \o command
  BY DEF Script, Wrmsr
<1>3. Len(Script("wrmsr")) = Len(command) + 1
  BY <1>1, <1>2
<1>4. Script("wrmsr")[1].op = "open"
  BY <1>1, <1>2 DEF Open
<1>5. \A k \in 1..Len(command) : Script("wrmsr")[k + 1] = command[k]
  BY <1>1, <1>2
<1>6. at["wrmsr"] \in Nat /\ at["wrmsr"] <= Len(command) + 1
  BY <1>3 DEF TypeOK, Programs
<1>7. ASSUME at["wrmsr"] > 1 PROVE at["wrmsr"] - 1 \in DOMAIN command
  BY <1>1, <1>6, <1>7
<1>8. ASSUME at["wrmsr"] > 1 PROVE Last \in Writes /\ Last.cpu \in Cpus /\ SameRegister(Last, command[1])
  <2>1. Last \in Writes /\ SameRegister(Last, command[1])
    BY <1>7, <1>8, CommandType DEF CommandInv, Last
  <2> QED BY <2>1 DEF Writes
<1> QED BY <1>3, <1>4, <1>5, <1>7, <1>8

LEMMA WrmsrInit == ASSUME Init PROVE WrmsrInv
  BY DEF Init, WrmsrInv, Programs

LEMMA WrmsrStep ==
  ASSUME TypeOK, CommandInv, WrmsrInv, [Next]_vars
  PROVE  WrmsrInv'
<1>w. "wrmsr" \in Programs /\ at["wrmsr"] \in Nat
  BY DEF Programs, TypeOK
<1>1. ASSUME NEW p \in Programs, Start(p) PROVE WrmsrInv'
  <2>1. CASE p = "wrmsr"
    BY <1>1, <1>w, <2>1 DEF Start, WrmsrInv, CommandInv, TypeOK
  <2>2. CASE p # "wrmsr"
    BY <1>1, <1>w, <2>2 DEF Start, WrmsrInv, Last, TypeOK
  <2> QED BY <2>1, <2>2
<1>2. ASSUME NEW p \in Programs, More(p), Made(p), UNCHANGED <<msr, status, command>>,
             spoiled' = spoiled, p = "wrmsr" => at[p] = 0 PROVE WrmsrInv'
  <2>1. CASE p = "wrmsr"
    BY <1>2, <1>w, <2>1 DEF Made, More, WrmsrInv, TypeOK
  <2>2. CASE p # "wrmsr"
    <3>1. at'["wrmsr"] = at["wrmsr"]
      BY <1>2, <1>w, <2>2 DEF Made, TypeOK
    <3> QED BY <1>2, <3>1 DEF WrmsrInv, Last
  <2> QED BY <2>1, <2>2
<1>3. ASSUME NEW p \in Programs, More(p), p = "wrmsr", Access(p).op \in {"open", "read"} PROVE at[p] = 0
  <2>1. ASSUME at[p] # 0 PROVE FALSE
    <3>1. status["wrmsr"] # "idle" /\ at[p] \in 1..Len(command)
      BY <1>3, <1>w, <2>1, WrmsrScript DEF More, TypeOK
    <3>2. Access(p) = command[at[p]]
      BY <1>3, <3>1, WrmsrScript DEF Access
    <3>3. command[at[p]] \in Writes
      BY <3>1, CommandType DEF CommandInv
    <3> QED BY <1>3, <3>2, <3>3 DEF Writes
  <2> QED BY <2>1
<1>4. ASSUME NEW p \in Programs, OpenDevice(p) \/ ReadMsr(p) PROVE WrmsrInv'
  BY <1>2, <1>3, <1>4 DEF OpenDevice, ReadMsr
<1>5. ASSUME NEW p \in Programs, FailsUnnoticed(p) PROVE WrmsrInv'
  BY <1>2, <1>5 DEF FailsUnnoticed
<1>6. ASSUME NEW p \in Programs, WriteMsr(p) PROVE WrmsrInv'
  <2>1. Access(p) \in Accesses /\ Access(p).op \notin {"open", "read"} /\ Access(p).cpu \in Cpus
    BY <1>6, AccessType, OpTypes DEF WriteMsr
  <2>2. msr' = [msr EXCEPT ![Access(p).cpu] = Written(@, Access(p))] /\ UNCHANGED <<status, command>>
    BY <1>6 DEF WriteMsr
  <2>3. CASE p = "wrmsr"
    <3>1. status["wrmsr"] = "running" /\ at'["wrmsr"] = at["wrmsr"] + 1
      BY <1>6, <1>w, <2>3 DEF WriteMsr, More, Made, TypeOK
    <3>2. at["wrmsr"] \in 1..Len(command)
      <4>1. at["wrmsr"] # 0
        BY <2>1, <2>3, <3>1, WrmsrScript DEF Access
      <4> QED BY <1>6, <1>w, <2>3, <3>1, <4>1, WrmsrScript, CommandType DEF WriteMsr, More, CommandInv
    <3>3. Access(p) = command[at["wrmsr"]]
      BY <2>3, <3>1, <3>2, WrmsrScript DEF Access
    <3>4. Last' = Access(p) /\ Access(p) \in Writes
      <4>1. Last' = command'[at'["wrmsr"] - 1] /\ command' = command
        BY <2>2 DEF Last
      <4>2. at'["wrmsr"] - 1 = at["wrmsr"]
        BY <1>w, <3>1
      <4>3. command[at["wrmsr"]] \in Writes
        BY <3>1, <3>2, CommandType DEF CommandInv
      <4> QED BY <3>3, <4>1, <4>2, <4>3
    <3>5. Has(msr'[Access(p).cpu], Access(p))
      BY <2>1, <2>2, <3>4, HasAfter DEF TypeOK
    <3> QED BY <2>2, <3>1, <3>4, <3>5 DEF WrmsrInv
  <2>4. CASE p # "wrmsr"
    <3>1. at'["wrmsr"] = at["wrmsr"]
      BY <1>6, <1>w, <2>4 DEF WriteMsr, Made, TypeOK
    <3>2. SUFFICES ASSUME "wrmsr" \notin spoiled', status["wrmsr"] # "idle", at["wrmsr"] > 1
                   PROVE  Has(msr'[Last.cpu], Last)
      BY <2>2, <3>1 DEF WrmsrInv, Last
    <3>3. "wrmsr" \notin spoiled /\ ~Spoils(Access(p), "wrmsr")
      BY <1>6, <1>w, <2>4, <3>2 DEF WriteMsr
    <3>4. ~SameRegister(Last, Access(p))
      <4>1. ~SameRegister(command[1], Access(p))
        BY <3>2, <3>3 DEF Spoils, Replaces
      <4>2. SameRegister(Last, command[1])
        BY <3>2, WrmsrScript
      <4> QED BY <4>1, <4>2 DEF SameRegister
    <3>5. Has(msr[Last.cpu], Last) /\ Last \in Writes /\ Last.cpu \in Cpus
      BY <3>2, <3>3, WrmsrScript DEF WrmsrInv
    <3>6. CASE Access(p).cpu = Last.cpu
      <4>1. msr'[Last.cpu] = Written(msr[Last.cpu], Access(p)) /\ msr[Last.cpu] \in Msr
        BY <2>2, <3>5, <3>6 DEF TypeOK
      <4> QED BY <2>1, <3>4, <3>5, <3>6, <4>1, HasStill
    <3>7. CASE Access(p).cpu # Last.cpu
      BY <2>1, <2>2, <3>5, <3>7 DEF TypeOK
    <3> QED BY <3>6, <3>7
  <2> QED BY <2>3, <2>4
<1>7. ASSUME NEW p \in Programs, Fails(p) PROVE WrmsrInv'
  <2>1. UNCHANGED <<msr, at, command, spoiled>> /\ status' = [status EXCEPT ![p] = "failed"] /\ status[p] = "running"
    BY <1>7 DEF Fails, More
  <2>2. status'["wrmsr"] # "idle" => status["wrmsr"] # "idle"
    BY <1>w, <2>1 DEF TypeOK
  <2>3. status'["wrmsr"] = "over" => status["wrmsr"] = "over"
    BY <1>w, <2>1 DEF TypeOK
  <2> QED BY <2>1, <2>2, <2>3 DEF WrmsrInv, Last
<1>8. ASSUME NEW p \in Programs, Finish(p) PROVE WrmsrInv'
  <2>1. /\ UNCHANGED <<msr, at, command, spoiled>> /\ status' = [status EXCEPT ![p] = "over"]
        /\ status[p] = "running" /\ at[p] = Len(Script(p))
    BY <1>8 DEF Finish
  <2>2. status'["wrmsr"] # "idle" => status["wrmsr"] # "idle"
    BY <1>w, <2>1 DEF TypeOK
  <2>3. status'["wrmsr"] = "over" => at["wrmsr"] = Len(command) + 1
    <3>1. CASE p = "wrmsr"
      BY <2>1, <3>1, WrmsrScript
    <3>2. CASE p # "wrmsr"
      BY <1>w, <2>1, <3>2 DEF WrmsrInv, TypeOK
    <3> QED BY <3>1, <3>2
  <2> QED BY <2>1, <2>2, <2>3 DEF WrmsrInv, Last
<1>9. CASE Migrate
  BY <1>9 DEF Migrate, WrmsrInv, Last
<1>10. ASSUME NEW n \in Cpus, NEW e \in Events, Happen(n, e) PROVE WrmsrInv'
  <2> DEFINE hits == {c \in Counters : Counts(msr[n], c, e)}
             ticked == [c \in Counters |-> IF c \in hits THEN msr[n].count[c] + 1 ELSE msr[n].count[c]]
  <2>1. UNCHANGED <<status, at, command>>
    BY <1>10 DEF Happen
  <2>2. SUFFICES ASSUME "wrmsr" \notin spoiled', status["wrmsr"] # "idle", at["wrmsr"] > 1
                 PROVE  Has(msr'[Last.cpu], Last)
    BY <2>1 DEF WrmsrInv, Last
  <2>3. "wrmsr" \notin spoiled /\ ~ \E c \in hits : Replaces([op |-> "put", cpu |-> n, counter |-> c])
    BY <1>10, <2>2 DEF Happen
  <2>4. Has(msr[Last.cpu], Last) /\ Last \in Writes /\ Last.cpu \in Cpus /\ SameRegister(Last, command[1])
    BY <2>2, <2>3, WrmsrScript DEF WrmsrInv
  <2>5. msr' = [msr EXCEPT ![n].count = ticked] /\ msr[n] \in Msr
    BY <1>10 DEF Happen, TypeOK
  <2>6. ASSUME Last.cpu = n, Last.op = "put" PROVE Last.counter \notin hits
    BY <2>2, <2>3, <2>4, <2>6 DEF Replaces, SameRegister
  <2>7. Last.op \in {"select", "put", "global"} /\ (Last.op = "put" => Last.counter \in Counters)
    BY <2>4 DEF Writes
  <2>8. ASSUME Last.cpu = n, Last.op = "put" PROVE ticked[Last.counter] = msr[n].count[Last.counter]
    BY <2>6, <2>7, <2>8
  <2> HIDE DEF ticked, hits
  <2>9. CASE Last.cpu = n
    <3>1. msr'[n] = [msr[n] EXCEPT !.count = ticked]
      BY <2>5 DEF TypeOK
    <3>2. msr'[n].select = msr[n].select /\ msr'[n].global = msr[n].global /\ msr'[n].count = ticked
      BY <2>5, <3>1 DEF Msr
    <3> QED BY <2>4, <2>7, <2>8, <2>9, <3>2 DEF Has
  <2>10. CASE Last.cpu # n
    BY <2>4, <2>5, <2>10 DEF TypeOK
  <2> QED BY <2>9, <2>10
<1>11. CASE UNCHANGED vars
  BY <1>11 DEF vars, WrmsrInv, Last
<1> QED BY <1>1, <1>4, <1>5, <1>6, <1>7, <1>8, <1>9, <1>10, <1>11 DEF Next, Program, Stopped

-----------------------------------------------------------------------------
(* What the kernel module and the L3 counting leave behind. *)

Tidy == {"kernel", "l3"}

Home(p) == IF p = "kernel" THEN where ELSE 0

\* The accesses with which they take the event from a counter, and disable all of them.
Off(p, c) == CASE p = "kernel" -> 4 [] p = "l3" -> IF c = "pmc0" THEN 10 ELSE 12
AllOff(p) == IF p = "kernel" THEN 6 ELSE 9

\* From there on the counter is off and zero, and disabled if nobody else has run,
Clean(p, c) ==
  /\ at[p] >= Off(p, c) => msr[Home(p)].select[c] = "none"
  /\ at[p] > Off(p, c) => msr[Home(p)].count[c] = 0
  /\ at[p] >= AllOff(p) /\ (\A q \in Programs \ {p} : status[q] = "idle")
       => c \notin msr[Home(p)].global

\* unless something came in the way.
CleanInv ==
  \A p \in Tidy : \A c \in Owns(p) : status[p] = "running" /\ Undisturbed(p) => Clean(p, c)

LEMMA TidyOwns ==
  ASSUME NEW p \in Tidy
  PROVE  p \in Programs /\ Owns(p) \subseteq Pmcs /\ Owns(p) # {} /\ CpusOf(p) = {Home(p)}
  BY DEF Tidy, Programs, Owns, Pmcs, CpusOf, Home

LEMMA HomeType == ASSUME TypeOK, NEW p \in Tidy PROVE Home(p) \in Cpus /\ msr[Home(p)] \in Msr
  BY Cores DEF Home, TypeOK

\* The accesses of the scripts one by one.
LEMMA KernelAccesses ==
  ASSUME NEW n \in Cpus
  PROVE  /\ Kernel(n)[1] = Global(n, LowerHalf(Counters)) /\ Kernel(n)[2] = Select(n, "pmc0", "miss")
         /\ Kernel(n)[3] = Read(n, "pmc0") /\ Kernel(n)[4] = Select(n, "pmc0", "none")
         /\ Kernel(n)[5] = Put(n, "pmc0", 0) /\ Kernel(n)[6] = Global(n, {})
  BY DEF Kernel

LEMMA L3Accesses ==
  /\ L3(0)[1] = Open(0) /\ L3(0)[2] = Select(0, "pmc0", "miss") /\ L3(0)[3] = Select(0, "pmc1", "ref")
  /\ L3(0)[4] = Global(0, Pmcs) /\ L3(0)[5] = Read(0, "pmc0") /\ L3(0)[6] = Read(0, "pmc1")
  /\ L3(0)[7] = Read(0, "pmc0") /\ L3(0)[8] = Read(0, "pmc1") /\ L3(0)[9] = Global(0, {})
  /\ L3(0)[10] = Select(0, "pmc0", "none") /\ L3(0)[11] = Put(0, "pmc0", 0)
  /\ L3(0)[12] = Select(0, "pmc1", "none") /\ L3(0)[13] = Put(0, "pmc1", 0)
  BY DEF L3, Disable

\* What they do to a counter of theirs, and in which order.
TidyAccess(p, c, k, a) ==
  /\ a.cpu = Home(p)
  /\ k = Off(p, c) => a.op = "select" /\ a.counter = c /\ a.value = "none"
  /\ k = Off(p, c) + 1 => a.op = "put" /\ a.counter = c /\ a.value = 0
  /\ k > Off(p, c) => ~(a.op = "select" /\ a.counter = c)
  /\ k > Off(p, c) + 1 => ~(a.op = "put" /\ a.counter = c)
  /\ k = AllOff(p) => a.op = "global" /\ a.value = {}
  /\ k > AllOff(p) => a.op # "global"

LEMMA TidyScript ==
  ASSUME where \in Cpus, NEW p \in Tidy, NEW c \in Owns(p), NEW k \in 1..Len(Script(p))
  PROVE  TidyAccess(p, c, k, Script(p)[k])
<1>1. CASE p = "kernel"
  <2>1. Script(p) = Kernel(where) /\ Home(p) = where /\ c = "pmc0" /\ Off(p, c) = 4 /\ AllOff(p) = 6
    BY <1>1 DEF Script, Home, Owns, Off, AllOff
  <2>2. k \in {1, 2, 3, 4, 5, 6}
    BY <2>1 DEF Kernel
  <2>3. /\ Script(p)[1] = Global(where, LowerHalf(Counters)) /\ Script(p)[2] = Select(where, "pmc0", "miss")
        /\ Script(p)[3] = Read(where, "pmc0") /\ Script(p)[4] = Select(where, "pmc0", "none")
        /\ Script(p)[5] = Put(where, "pmc0", 0) /\ Script(p)[6] = Global(where, {})
    BY <2>1, KernelAccesses
  <2> QED BY <2>1, <2>2, <2>3 DEF TidyAccess, Global, Select, Read, Put
<1>2. CASE p = "l3"
  <2>1. Script(p) = L3(0) /\ Home(p) = 0 /\ c \in {"pmc0", "pmc1"} /\ AllOff(p) = 9
        /\ Off(p, c) = IF c = "pmc0" THEN 10 ELSE 12
    BY <1>2 DEF Script, Home, Owns, Off, AllOff, Pmcs
  <2>2. k \in 1..13
    BY <2>1, L3Type
  <2>3. CASE k <= 8
    <3>1. k \in {1, 2, 3, 4} => L3(0)[k].cpu = 0
      BY L3Accesses DEF Open, Global, Select
    <3>2. k \in {5, 6, 7, 8} => L3(0)[k].cpu = 0
      BY L3Accesses DEF Read
    <3>3. k \in {1, 2, 3, 4, 5, 6, 7, 8}
      BY <2>2, <2>3
    <3> QED BY <2>1, <3>1, <3>2, <3>3 DEF TidyAccess
  <2>4. CASE k = 9
    BY <2>1, <2>4, L3Accesses DEF TidyAccess, Global
  <2>5. CASE k \in {10, 11}
    BY <2>1, <2>5, L3Accesses DEF TidyAccess, Select, Put
  <2>6. CASE k \in {12, 13}
    BY <2>1, <2>6, L3Accesses DEF TidyAccess, Select, Put
  <2> QED BY <2>2, <2>3, <2>4, <2>5, <2>6
<1> QED BY <1>1, <1>2 DEF Tidy

LEMMA CleanInit == ASSUME Init PROVE CleanInv
  BY TidyOwns DEF Init, CleanInv

\* What a write can change.
LEMMA WrittenOnly ==
  ASSUME NEW m \in Msr, NEW a \in Accesses, a.op \notin {"open", "read"}, NEW c \in Pmcs
  PROVE  /\ IF a.op = "select" /\ a.counter = c THEN Written(m, a).select[c] = a.value
              ELSE Written(m, a).select[c] = m.select[c]
         /\ IF a.op = "put" /\ a.counter = c THEN Written(m, a).count[c] = a.value
              ELSE Written(m, a).count[c] = m.count[c]
         /\ IF a.op = "global" THEN Written(m, a).global = a.value
              ELSE Written(m, a).global = m.global
<1>0. c \in Counters
  BY DEF Counters
<1>1. CASE a.op = "select"
  BY <1>0, <1>1, OpTypes DEF Written, Msr
<1>2. CASE a.op = "put"
  BY <1>0, <1>2, OpTypes DEF Written, Msr
<1>3. CASE a.op = "global"
  BY <1>0, <1>3 DEF Written, Msr
<1>4. CASE a.op = "fixed"
  BY <1>0, <1>4 DEF Written, Msr
<1> QED BY <1>1, <1>2, <1>3, <1>4, OpTypes

\* A counter of p that p itself accesses.
LEMMA OwnAccess ==
  ASSUME TypeOK, CommandInv, NEW p \in Tidy, More(p), Made(p), NEW c \in Owns(p)
  PROVE  /\ p \in Programs /\ at[p] \in Nat /\ at'[p] = at[p] + 1
         /\ Access(p) \in Accesses /\ TidyAccess(p, c, at'[p], Access(p))
         /\ Off(p, c) \in Nat /\ AllOff(p) \in Nat
<1>1. p \in Programs /\ at[p] \in Nat /\ at'[p] = at[p] + 1
  BY TidyOwns DEF TypeOK, Made
<1>2. Access(p) \in Accesses /\ at[p] + 1 \in 1..Len(Script(p))
  BY <1>1, AccessType
<1>3. TidyAccess(p, c, at[p] + 1, Script(p)[at[p] + 1])
  BY <1>2, TidyScript DEF TypeOK
<1> QED BY <1>1, <1>2, <1>3 DEF Access, Off, AllOff, Tidy

LEMMA CleanStep ==
  ASSUME TypeOK, CommandInv, CleanInv, [Next]_vars
  PROVE  CleanInv'
<1> SUFFICES ASSUME NEW p \in Tidy, NEW c \in Owns(p), status'[p] = "running", Undisturbed(p)'
             PROVE  Clean(p, c)'
  BY DEF CleanInv, Owns
<1>p. p \in Programs /\ c \in Pmcs /\ at[p] \in Nat /\ Off(p, c) \in 4..12 /\ AllOff(p) \in 6..9
  BY TidyOwns DEF TypeOK, Off, AllOff, Tidy
<1>h. Home(p) \in Cpus /\ msr[Home(p)] \in Msr
  BY HomeType
<1>b. status[p] = "running" /\ Undisturbed(p) => Clean(p, c)
  BY DEF CleanInv
<1>s. Off(p, c)' = Off(p, c) /\ AllOff(p)' = AllOff(p)
  BY DEF Off, AllOff
<1>1. ASSUME NEW r \in Programs, Start(r) PROVE Clean(p, c)'
  <2>1. CASE r = p
    <3>1. at'[p] = 0
      BY <1>1, <1>p, <2>1 DEF Start, CommandInv
    <3> QED BY <1>p, <1>s, <3>1 DEF Clean
  <2>2. CASE r # p
    <3>1. /\ UNCHANGED <<at, msr, spoiled, faulty>> /\ Home(p)' = Home(p) /\ status'[p] = status[p]
          /\ \A q \in Programs : status'[q] = "idle" => status[q] = "idle"
      BY <1>1, <1>p, <2>2 DEF Start, Home, Tidy, TypeOK
    <3>2. Clean(p, c)
      BY <1>b, <3>1 DEF Undisturbed
    <3> QED BY <1>s, <3>1, <3>2 DEF Clean
  <2> QED BY <2>1, <2>2
<1>2. ASSUME NEW r \in Programs, More(r), Made(r), UNCHANGED <<msr, status, where, spoiled>>,
             faulty \subseteq faulty', r = p => Access(p).op \in {"open", "read"}
      PROVE  Clean(p, c)'
  <2>0. Home(p)' = Home(p) /\ Clean(p, c)
    BY <1>2, <1>b DEF Home, Undisturbed
  <2>1. CASE r = p
    <3>1. at'[p] = at[p] + 1 /\ at'[p] # Off(p, c) /\ at'[p] # Off(p, c) + 1 /\ at'[p] # AllOff(p)
      BY <1>2, <2>1, OwnAccess DEF TidyAccess
    <3> QED BY <1>2, <1>p, <1>s, <2>0, <3>1 DEF Clean
  <2>2. CASE r # p
    <3>1. at'[p] = at[p]
      BY <1>2, <1>p, <2>2 DEF Made, TypeOK
    <3> QED BY <1>2, <1>s, <2>0, <3>1 DEF Clean
  <2> QED BY <2>1, <2>2
<1>3. ASSUME NEW r \in Programs, OpenDevice(r) \/ ReadMsr(r) PROVE Clean(p, c)'
  BY <1>2, <1>3 DEF OpenDevice, ReadMsr
<1>4. ASSUME NEW r \in Programs, FailsUnnoticed(r) PROVE Clean(p, c)'
  <2>1. r # p
    BY <1>4 DEF FailsUnnoticed, Fault, Undisturbed
  <2> QED BY <1>2, <1>4, <2>1 DEF FailsUnnoticed, Fault
<1>5. ASSUME NEW r \in Programs, WriteMsr(r) PROVE Clean(p, c)'
  <2> DEFINE a == Access(r)
             m == msr[Home(p)]
  <2>1. a \in Accesses /\ a.op \notin {"open", "read"} /\ a.cpu \in Cpus
    BY <1>5, AccessType, OpTypes DEF WriteMsr
  <2>2. /\ msr' = [msr EXCEPT ![a.cpu] = Written(@, a)] /\ UNCHANGED <<status, where, faulty>>
        /\ More(r) /\ Made(r) /\ Home(p)' = Home(p)
    BY <1>5 DEF WriteMsr, Home
  <2>3. Clean(p, c)
    BY <1>5, <1>b, <2>2 DEF WriteMsr, Undisturbed
  <2>4. CASE r = p
    <3>1. at'[p] = at[p] + 1 /\ TidyAccess(p, c, at'[p], a)
      BY <2>2, <2>4, OwnAccess
    <3>2. msr'[Home(p)] = Written(m, a)
      BY <1>h, <2>2, <3>1 DEF TidyAccess, TypeOK
    <3> HIDE DEF a, m
    <3>3. at'[p] >= Off(p, c) => Written(m, a).select[c] = "none"
      BY <1>h, <1>p, <2>1, <2>3, <3>1, WrittenOnly DEF TidyAccess, Clean, m
    <3>4. at'[p] > Off(p, c) => Written(m, a).count[c] = 0
      BY <1>h, <1>p, <2>1, <2>3, <3>1, WrittenOnly DEF TidyAccess, Clean, m
    <3>5. at'[p] >= AllOff(p) /\ (\A q \in Programs \ {p} : status[q] = "idle") => c \notin Written(m, a).global
      BY <1>h, <1>p, <2>1, <2>3, <3>1, WrittenOnly DEF TidyAccess, Clean, m
    <3> QED BY <1>s, <2>2, <3>2, <3>3, <3>4, <3>5 DEF Clean
  <2>5. CASE r # p
    <3>1. at'[p] = at[p] /\ status[r] = "running"
      BY <1>p, <2>2, <2>5 DEF Made, More, TypeOK
    <3>2. ~Spoils(a, p)
      BY <1>5, <1>p, <2>5 DEF WriteMsr, Undisturbed
    <3>3. CASE a.cpu = Home(p)
      <4>1. ~(a.op \in {"select", "put"} /\ a.counter = c)
        BY <2>2, <3>2, <3>3, TidyOwns DEF Spoils
      <4>2. msr'[Home(p)] = Written(m, a)
        BY <1>h, <2>2, <3>3 DEF TypeOK
      <4>3. msr'[Home(p)].select[c] = m.select[c] /\ msr'[Home(p)].count[c] = m.count[c]
        BY <1>h, <1>p, <2>1, <4>1, <4>2, WrittenOnly
      <4>4. r \in Programs \ {p} /\ status'[r] # "idle"
        BY <2>2, <2>5, <3>1
      <4> QED BY <1>s, <2>2, <2>3, <3>1, <4>3, <4>4 DEF Clean
    <3>4. CASE a.cpu # Home(p)
      <4>1. msr'[Home(p)] = m
        BY <1>h, <2>2, <3>4 DEF TypeOK
      <4> QED BY <1>s, <2>2, <2>3, <3>1, <4>1 DEF Clean
    <3> QED BY <3>3, <3>4
  <2> QED BY <2>4, <2>5
<1>6. ASSUME NEW r \in Programs, NEW s \in {"over", "failed"}, status' = [status EXCEPT ![r] = s],
             UNCHANGED <<at, msr, where, spoiled>>, faulty \subseteq faulty'
      PROVE  Clean(p, c)'
  <2>1. /\ Home(p)' = Home(p) /\ status[p] = "running"
        /\ \A q \in Programs : status'[q] = "idle" => status[q] = "idle"
    BY <1>6, <1>p DEF Home, TypeOK
  <2>2. Clean(p, c)
    BY <1>6, <1>b, <2>1 DEF Undisturbed
  <2> QED BY <1>6, <1>s, <2>1, <2>2 DEF Clean
<1>7. ASSUME NEW r \in Programs, Fails(r) \/ Finish(r) PROVE Clean(p, c)'
  BY <1>6, <1>7 DEF Fails, Fault, Finish
<1>8. CASE Migrate
  <2>1. p # "kernel" /\ UNCHANGED <<at, msr, status, faulty>> /\ "kernel" \in spoiled' /\ spoiled \subseteq spoiled'
    BY <1>8 DEF Migrate, Undisturbed
  <2>2. Home(p)' = Home(p)
    BY <2>1 DEF Home
  <2>3. Clean(p, c)
    BY <1>b, <2>1 DEF Undisturbed
  <2> QED BY <1>s, <2>1, <2>2, <2>3 DEF Clean
<1>9. ASSUME NEW n \in Cpus, NEW e \in Events, Happen(n, e) PROVE Clean(p, c)'
  <2> DEFINE hits == {x \in Counters : Counts(msr[n], x, e)}
             ticked == [x \in Counters |-> IF x \in hits THEN msr[n].count[x] + 1 ELSE msr[n].count[x]]
  <2>1. UNCHANGED <<status, at, where, faulty>> /\ spoiled \subseteq spoiled' /\ Home(p)' = Home(p)
    BY <1>9 DEF Happen, Home
  <2>2. Clean(p, c)
    BY <1>b, <2>1 DEF Undisturbed
  <2>3. msr' = [msr EXCEPT ![n].count = ticked] /\ msr[n] \in Msr
    BY <1>9 DEF Happen, TypeOK
  <2>4. msr[n].select[c] = "none" => ticked[c] = msr[n].count[c]
    <3>1. c \in Counters /\ c \notin Fixed /\ e # "none"
      BY <1>p, ToolsAssumption DEF Counters, Pmcs, Events
    <3> QED BY <3>1 DEF Counts, EventOf
  <2> HIDE DEF ticked, hits
  <2>5. CASE Home(p) = n
    <3>1. msr'[n].select = msr[n].select /\ msr'[n].global = msr[n].global /\ msr'[n].count = ticked
      BY <2>3 DEF TypeOK, Msr
    <3> QED BY <1>p, <1>s, <2>1, <2>2, <2>4, <2>5, <3>1 DEF Clean
  <2>6. CASE Home(p) # n
    <3>1. msr'[Home(p)] = msr[Home(p)]
      BY <1>h, <2>3, <2>6 DEF TypeOK
    <3> QED BY <1>s, <2>1, <2>2, <3>1 DEF Clean
  <2> QED BY <2>5, <2>6
<1>10. CASE UNCHANGED vars
  <2>1. Home(p)' = Home(p) /\ UNCHANGED <<at, msr, status, faulty, spoiled>>
    BY <1>10 DEF vars, Home
  <2> QED BY <1>b, <1>s, <2>1 DEF Clean, Undisturbed
<1> QED BY <1>1, <1>3, <1>4, <1>5, <1>7, <1>8, <1>9, <1>10 DEF Next, Program, Stopped

-----------------------------------------------------------------------------
(* What these invariants give. *)

IInv == TypeOK /\ CommandInv /\ WrmsrInv /\ CleanInv

\* Together they are inductive.
THEOREM Inductive == Spec => []IInv
<1>1. Init => IInv
  BY InitType, WrmsrInit, CleanInit DEF IInv
<1>2. IInv /\ [Next]_vars => IInv'
  BY StepType, WrmsrStep, CleanStep DEF IInv
<1> QED BY <1>1, <1>2, PTL DEF Spec

\* Registers, descriptors and read values stay what they are, and no program makes
\* more accesses than its script has, whichever programs run and wherever they are
\* moved (msr_kernel.c, msr-old.c, msrtest.cc, wrmsr.c).
THEOREM TypeCorrect == Spec => []TypeOK
<1>1. IInv => TypeOK
  BY DEF IInv
<1> QED BY <1>1, Inductive, PTL

\* The exit status of wrmsr tells what its register holds (wrmsr.c: 0 after the last
\* of the values, another one at the access that failed).
THEOREM WrmsrReportsHolds == Spec => []WrmsrReports
<1>1. ASSUME IInv PROVE WrmsrReports
  <2>1. SUFFICES ASSUME "wrmsr" \notin spoiled, status["wrmsr"] \in {"over", "failed"}, at["wrmsr"] > 1
                 PROVE  Holds(Last)
    <3>1. ASSUME status["wrmsr"] = "over"
          PROVE  at["wrmsr"] > 1 /\ Last = command[Len(command)]
      <4>1. at["wrmsr"] = Len(command) + 1 /\ command # <<>> /\ command \in Seq(Writes)
        BY <1>1, <3>1, CommandType DEF IInv, WrmsrInv, CommandInv
      <4>2. Len(command) \in Nat \ {0}
        BY <4>1
      <4> QED BY <4>1, <4>2 DEF Last
    <3> QED BY <2>1, <3>1 DEF WrmsrReports, Last
  <2>2. Last \in Writes /\ Last.cpu \in Cpus /\ Has(msr[Last.cpu], Last)
    BY <1>1, <2>1, WrmsrScript DEF IInv, WrmsrInv
  <2>3. msr[Last.cpu] \in Msr
    BY <1>1, <2>2 DEF IInv, TypeOK
  <2> QED BY <2>2, <2>3, HasWritten DEF Holds
<1> QED BY <1>1, Inductive, PTL

\* The kernel module (PMC_exit) and the L3 counting (msr-old.c), if nothing came in
\* their way, leave their counters zero, without an event and, alone, disabled.
THEOREM LeavesCleanHolds == Spec => LeavesClean
<1>1. ASSUME IInv, NEW p \in {"kernel", "l3"}, Finish(p), Undisturbed(p),
             NEW n \in CpusOf(p), NEW c \in Owns(p)
      PROVE  /\ msr[n].select[c] = "none" /\ msr[n].count[c] = 0
             /\ (\A q \in Programs \ {p} : status[q] = "idle") => c \notin msr[n].global
  <2>1. p \in Tidy /\ n = Home(p) /\ c \in Pmcs /\ status[p] = "running"
    BY <1>1, TidyOwns DEF Tidy, Finish
  <2>2. at[p] > Off(p, c) /\ at[p] >= Off(p, c) /\ at[p] >= AllOff(p)
    <3>1. CASE p = "kernel"
      <4>1. at[p] = 6
        BY <1>1, <3>1, KernelType DEF Finish, Script, IInv, TypeOK
      <4> QED BY <3>1, <4>1 DEF Off, AllOff
    <3>2. CASE p = "l3"
      <4>1. at[p] = 13
        BY <1>1, <3>2, L3Type DEF Finish, Script
      <4> QED BY <3>2, <4>1 DEF Off, AllOff
    <3> QED BY <3>1, <3>2
  <2>3. Clean(p, c)
    BY <1>1, <2>1 DEF IInv, CleanInv
  <2> QED BY <2>1, <2>2, <2>3 DEF Clean
<1>2. ASSUME IInv
      PROVE  [\A p \in {"kernel", "l3"} : Finish(p) /\ Undisturbed(p) =>
                \A n \in CpusOf(p), c \in Owns(p) :
                  /\ msr[n].select[c] = "none" /\ msr[n].count[c] = 0
                  /\ (\A q \in Programs \ {p} : status[q] = "idle") => c \notin msr[n].global]_vars
  BY <1>1, <1>2
<1> QED BY <1>2, Inductive, PTL DEF LeavesClean
=============================================================================

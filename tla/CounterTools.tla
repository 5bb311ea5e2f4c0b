---------------------------- MODULE CounterTools ----------------------------
(***************************************************************************)
(* The programs of this repository that use the performance counters besides *)
(* main: the kernel module (msr_kernel.c), the L3 counting of cpuid.c through *)
(* msr-old.c, msrtest.cc, and wrmsr, with which a user sets an event select    *)
(* register, a counter or the global control register (the fixed control        *)
(* register is only written by msrtest).  They run at any time on the same      *)
(* CPUs and know nothing of each other.                                       *)
(*                                                                          *)
(* Each is a straight line of accesses to registers, given as a sequence of   *)
(* records.  One access is one step.  In between the CPUs count, the kernel   *)
(* module may be moved to another CPU, and the other programs do theirs.      *)
(***************************************************************************)
EXTENDS Integers, Sequences

CONSTANTS
  NumCores,       \* NUM_CORES, the CPUs of the machine
  FixedCounters,  \* the fixed counters, in the order in which msrtest reads them
  Uninit,         \* what an uninitialised uint64_t holds
  Commands,       \* what wrmsr is told: sequences of writes to one register
  Scenarios       \* the programs that are run, what they find in the CPUs, and as
                  \* bounds the number of events and of failing accesses

Programs == {"kernel", "l3", "msrtest", "wrmsr"}
Cpus     == 0..(NumCores - 1)
Pmcs     == {"pmc0", "pmc1"}     \* nobody selects an event for the other two
Fixed    == {FixedCounters[k] : k \in DOMAIN FixedCounters}
Counters == Pmcs \union Fixed
Events   == {"miss", "ref"} \union Fixed   \* a fixed counter counts its own event

Msr == [select : [Pmcs -> {"none", "miss", "ref"}],  \* IA32_PERFEVTSELx
        fixed  : BOOLEAN,                            \* IA32_FIXED_CTR_CTRL: do they count?
        global : SUBSET Counters,                    \* IA32_PERF_GLOBAL_CTRL
        count  : [Counters -> Nat]]                  \* IA32_PMCx, IA32_FIXED_CTRx

\* What wrmsr can be told to write.
Writes ==
  [op : {"select"}, cpu : Cpus, counter : Pmcs, value : {"none", "miss", "ref"}]
    \union [op : {"put"}, cpu : Cpus, counter : Counters, value : Nat]
    \union [op : {"global"}, cpu : Cpus, value : SUBSET Counters]

SameRegister(a, b) ==
  a.op = b.op /\ a.cpu = b.cpu /\ (a.op # "global" => a.counter = b.counter)

ASSUME ToolsAssumption ==
  /\ NumCores \in Nat \ {0}
  /\ FixedCounters \in Seq(Fixed) /\ FixedCounters # <<>>
  /\ Fixed \intersect {"pmc0", "pmc1", "none", "miss", "ref"} = {}
  /\ Uninit \in Nat
  /\ Commands \subseteq Seq(Writes)
  /\ \A w \in Commands : w # <<>> /\ \A k \in DOMAIN w : SameRegister(w[k], w[1])
  /\ \A s \in Scenarios : s.found \subseteq [Cpus -> Msr] /\ s.events \in Nat /\ s.faults \in Nat

VARIABLES
  programs,  \* those that are run
  msr,       \* the registers of each CPU
  status,    \* of each program: idle, running, over, or failed
  at,        \* how many accesses each has made
  fd,        \* has its open succeeded?
  got,       \* the values each has read
  command,   \* the operands of wrmsr
  where,     \* the CPU that the kernel module's function runs on
  happened,  \* history: the events of each CPU since the beginning,
  saw,       \* what had happened of an event when its counter was read,
  since,     \* and when the kernel module began to count,
  clean,     \* whether it found its counter unused,
  spoiled,   \* the programs in whose way another one, or a move, came,
  faulty,    \* and those one of whose accesses failed
  events,    \* how many are still to happen
  faults     \* how many accesses are still to fail

vars == <<programs, msr, status, at, fd, got, command, where, happened, saw, since, clean,
          spoiled, faulty, events, faults>>

-----------------------------------------------------------------------------
(* The programs. *)

Open(n)         == [op |-> "open", cpu |-> n]
Read(n, c)      == [op |-> "read", cpu |-> n, counter |-> c]
Select(n, c, e) == [op |-> "select", cpu |-> n, counter |-> c, value |-> e]
Put(n, c, v)    == [op |-> "put", cpu |-> n, counter |-> c, value |-> v]
Global(n, S)    == [op |-> "global", cpu |-> n, value |-> S]
FixedOn(n)      == [op |-> "fixed", cpu |-> n]

\* enable_global_counters of msr_kernel.c loads all bits into rax, of which wrmsr
\* takes the lower half; the upper half is that of rdx, which is zero.
LowerHalf(S) == S \ Fixed

\* PMC_init, and later PMC_exit.
Kernel(n) ==
  << Global(n, LowerHalf(Counters)), Select(n, "pmc0", "miss"),
     Read(n, "pmc0"), Select(n, "pmc0", "none"), Put(n, "pmc0", 0), Global(n, {}) >>

Disable_BugResetFirst(n, c) == << Put(n, c, 0), Select(n, c, "none") >>

\* disable_l3_cache_miss and disable_l3_cache_reference.
Disable(n, c) == << Select(n, c, "none"), Put(n, c, 0) >>

L3_BugOneEvent(n) ==
  << Open(n), Select(n, "pmc0", "miss"), Select(n, "pmc1", "miss"), Global(n, Pmcs),
     Read(n, "pmc0"), Read(n, "pmc1"), Read(n, "pmc0"), Read(n, "pmc1"),
     Global(n, {}) >> \o Disable(n, "pmc0") \o Disable(n, "pmc1")

\* count_l3_cache_misses_references.  The parameter cpu is not used.
L3(n) ==
  << Open(n), Select(n, "pmc0", "miss"), Select(n, "pmc1", "ref"), Global(n, Pmcs),
     Read(n, "pmc0"), Read(n, "pmc1"), Read(n, "pmc0"), Read(n, "pmc1"),
     Global(n, {}) >> \o Disable(n, "pmc0") \o Disable(n, "pmc1")

\* msrtest: every core is made to count, every counter is read, and again.  It
\* leaves them counting.
SetUp    == [n \in Cpus |-> << Open(n), FixedOn(n), Global(n, Counters) >>]
ReadCore == [n \in Cpus |-> [k \in DOMAIN FixedCounters |-> Read(n, FixedCounters[k])]]

\* The parts of all cores one after the other; each has n accesses.
EachCore(part, n) ==
  [k \in 1..(NumCores * n) |-> part[(k - 1) \div n][((k - 1) % n) + 1]]

ReadAll == EachCore(ReadCore, Len(FixedCounters))

MsrTest == EachCore(SetUp, 3) \o ReadAll \o ReadAll

Wrmsr == << Open(command[1].cpu) >> \o command

Script(p) ==
  CASE p = "kernel"  -> Kernel(where)
    [] p = "l3"      -> L3(0)
    [] p = "msrtest" -> MsrTest
    [] p = "wrmsr"   -> Wrmsr

-----------------------------------------------------------------------------
(* Registers, and what the programs need of them. *)

Written(m, a) ==
  CASE a.op = "select" -> [m EXCEPT !.select[a.counter] = a.value]
    [] a.op = "put"    -> [m EXCEPT !.count[a.counter] = a.value]
    [] a.op = "global" -> [m EXCEPT !.global = a.value]
    [] a.op = "fixed"  -> [m EXCEPT !.fixed = TRUE]

EventOf(m, c) == IF c \in Fixed THEN IF m.fixed THEN c ELSE "none" ELSE m.select[c]

Counts(m, c, e) == c \in m.global /\ EventOf(m, c) = e

\* What a read of a counter is meant to tell the number of.
Meant(c) == CASE c = "pmc0" -> "miss" [] c = "pmc1" -> "ref" [] OTHER -> c

Owns(p) == CASE p = "kernel" -> {"pmc0"} [] p = "l3" -> Pmcs [] p = "msrtest" -> Fixed
             [] p = "wrmsr" -> {}

CpusOf(p) == CASE p = "kernel" -> {where} [] p = "l3" -> {0} [] p = "msrtest" -> Cpus
               [] p = "wrmsr" -> {}

\* Does a write the register that wrmsr writes?
Replaces(a) == status["wrmsr"] # "idle" /\ SameRegister(command[1], a)

\* Does the register that a writes hold its value?
Holds(a) == Written(msr[a.cpu], a) = msr[a.cpu]

\* Does the write a come in the way of p?
Spoils(a, p) ==
  \/ /\ status[p] = "running" /\ a.cpu \in CpusOf(p)
     /\ \/ a.op \in {"select", "put"} /\ a.counter \in Owns(p)
        \/ a.op = "global" /\ ~(Owns(p) \subseteq a.value)
  \/ p = "wrmsr" /\ Replaces(a)

-----------------------------------------------------------------------------
(* Steps. *)

Init ==
  /\ \E s \in Scenarios : programs = s.programs /\ msr \in s.found
                          /\ events = s.events /\ faults = s.faults
  /\ status = [p \in Programs |-> "idle"]
  /\ at = [p \in Programs |-> 0]
  /\ fd = [p \in Programs |-> FALSE]
  /\ got = [p \in Programs |-> <<>>] /\ saw = [p \in Programs |-> <<>>]
  /\ command = <<>>
  /\ where = 0
  /\ happened = [n \in Cpus |-> [e \in Events |-> 0]]
  /\ since = 0 /\ clean = FALSE
  /\ spoiled = {} /\ faulty = {}

Start(p) ==
  /\ p \in programs \intersect Programs /\ status[p] = "idle"
  /\ status' = [status EXCEPT ![p] = "running"]
  /\ IF p = "wrmsr" THEN command' \in Commands ELSE command' = command
  /\ IF p = "kernel"
       THEN /\ where' \in Cpus
            /\ clean' = (msr[where'].select["pmc0"] = "none" /\ msr[where'].count["pmc0"] = 0)
       ELSE UNCHANGED <<where, clean>>
  /\ UNCHANGED <<programs, msr, at, fd, got, happened, saw, since, spoiled, faulty, faults, events>>

More(p) == status[p] = "running" /\ at[p] < Len(Script(p))

Access(p) == Script(p)[at[p] + 1]

Made(p) == at' = [at EXCEPT ![p] = @ + 1]

OpenDevice(p) ==
  /\ More(p) /\ Access(p).op = "open"
  /\ Made(p)
  /\ fd' = [fd EXCEPT ![p] = TRUE]
  /\ UNCHANGED <<programs, msr, status, got, command, where, happened, saw, since, clean,
                 spoiled, faulty, faults, events>>

CanAccess(p) == p = "kernel" \/ fd[p]

WriteMsr(p) ==
  /\ More(p) /\ Access(p).op \notin {"open", "read"} /\ CanAccess(p)
  /\ Made(p)
  /\ LET a == Access(p) IN
       /\ msr' = [msr EXCEPT ![a.cpu] = Written(@, a)]
       /\ spoiled' = spoiled \union {q \in Programs \ {p} : Spoils(a, q)}
       /\ since' = IF p = "kernel" /\ a = Select(where, "pmc0", "miss")
                     THEN happened[a.cpu]["miss"] ELSE since
  /\ UNCHANGED <<programs, status, fd, got, command, where, happened, saw, clean, faulty, events,
                 faults>>

ReadMsr(p) ==
  /\ More(p) /\ Access(p).op = "read" /\ CanAccess(p)
  /\ Made(p)
  /\ LET a == Access(p) IN
       /\ got' = [got EXCEPT ![p] = Append(@, msr[a.cpu].count[a.counter])]
       /\ saw' = [saw EXCEPT ![p] = Append(@, happened[a.cpu][Meant(a.counter)])]
  /\ UNCHANGED <<programs, msr, status, fd, command, where, happened, since, clean, spoiled,
                 faulty, faults, events>>

\* An access fails, as all do after an open that failed.  The instructions of the
\* kernel module do not.
Fault(p) ==
  /\ p # "kernel"
  /\ faulty' = faulty \union {p}
  /\ \/ faults > 0 /\ faults' = faults - 1
     \/ Access(p).op # "open" /\ ~fd[p] /\ faults' = faults

\* wrmsr exits (4, 2, 3 or 127), and the exception of MsrHandle ends msrtest.
Fails(p) ==
  /\ More(p) /\ p # "l3"
  /\ p = "wrmsr" \/ Access(p).op = "open"
  /\ Fault(p)
  /\ status' = [status EXCEPT ![p] = "failed"]
  /\ UNCHANGED <<programs, msr, at, fd, got, command, where, happened, saw, since, clean,
                 spoiled, events>>

FailsUnnoticed_BugWrmsr(p) ==
  /\ More(p)
  /\ p = "l3" \/ Access(p).op # "open"
  /\ Fault(p)
  /\ Made(p)
  /\ IF Access(p).op = "read"
       THEN /\ got' = [got EXCEPT ![p] = Append(@, Uninit)]
            /\ saw' = [saw EXCEPT ![p] = Append(@, 0)]
       ELSE UNCHANGED <<got, saw>>
  /\ UNCHANGED <<programs, msr, status, fd, command, where, happened, since, clean, spoiled,
                 events>>

\* msr-old.c reports the failure, msrtest asserts that an unsigned number is not
\* negative, and they go on; the value of a failed read is what its variable held.
FailsUnnoticed(p) ==
  /\ More(p) /\ p # "wrmsr"
  /\ p = "l3" \/ Access(p).op # "open"
  /\ Fault(p)
  /\ Made(p)
  /\ IF Access(p).op = "read"
       THEN /\ got' = [got EXCEPT ![p] = Append(@, Uninit)]
            /\ saw' = [saw EXCEPT ![p] = Append(@, 0)]
       ELSE UNCHANGED <<got, saw>>
  /\ UNCHANGED <<programs, msr, status, fd, command, where, happened, since, clean, spoiled,
                 events>>

Finish(p) ==
  /\ status[p] = "running" /\ at[p] = Len(Script(p))
  /\ status' = [status EXCEPT ![p] = "over"]
  /\ UNCHANGED <<programs, msr, at, fd, got, command, where, happened, saw, since, clean, spoiled,
                 faulty, faults, events>>

Program(p) ==
  \/ Start(p) \/ OpenDevice(p) \/ WriteMsr(p) \/ ReadMsr(p)
  \/ Fails(p) \/ FailsUnnoticed(p) \/ Finish(p)

\* insmod and rmmod run on any CPU, and may be moved between two instructions.
\* Bound: not after something came in the module's way, a move included.
Migrate ==
  /\ status["kernel"] = "running" /\ "kernel" \notin spoiled
  /\ where' \in Cpus \ {where}
  /\ spoiled' = spoiled \union {"kernel"}
  /\ UNCHANGED <<programs, msr, status, at, fd, got, command, happened, saw, since, clean,
                 faulty, faults, events>>

\* Something happens on CPU n, and the counters that are there for it count it.
Happen(n, e) ==
  /\ events > 0
  /\ events' = events - 1
  /\ happened' = [happened EXCEPT ![n][e] = @ + 1]
  /\ LET counting == {c \in Counters : Counts(msr[n], c, e)} IN
       /\ msr' = [msr EXCEPT ![n].count =
            [c \in Counters |-> IF c \in counting THEN @[c] + 1 ELSE @[c]]]
       /\ spoiled' = IF \E c \in counting : Replaces([op |-> "put", cpu |-> n, counter |-> c])
                       THEN spoiled \union {"wrmsr"} ELSE spoiled
  /\ UNCHANGED <<programs, status, at, fd, got, command, where, saw, since, clean, faulty, faults>>

Stopped ==
  /\ \A p \in programs \intersect Programs : status[p] \in {"over", "failed"}
  /\ UNCHANGED vars

Next ==
  \/ \E p \in Programs : Program(p)
  \/ Migrate
  \/ \E n \in Cpus, e \in Events : Happen(n, e)
  \/ Stopped

Spec == Init /\ [][Next]_vars

-----------------------------------------------------------------------------
(* Correctness. *)

TypeOK ==
  /\ programs \in {s.programs : s \in Scenarios}
  /\ msr \in [Cpus -> Msr]
  /\ status \in [Programs -> {"idle", "running", "over", "failed"}]
  /\ at \in [Programs -> Nat] /\ \A p \in Programs : status[p] # "idle" => at[p] <= Len(Script(p))
  /\ fd \in [Programs -> BOOLEAN]
  /\ got \in [Programs -> Seq(Nat)] /\ saw \in [Programs -> Seq(Nat)]
  /\ command \in Commands \union {<<>>}
  /\ where \in Cpus
  /\ happened \in [Cpus -> [Events -> Nat]]
  /\ since \in Nat /\ clean \in BOOLEAN
  /\ spoiled \subseteq Programs /\ faulty \subseteq Programs
  /\ events \in Nat /\ faults \in Nat

Undisturbed(p) == p \notin spoiled \union faulty

\* A program in whose way nothing came reports what happened on its CPU: the L3
\* counting and msrtest between their two reads of a counter, whatever it held
\* before, the kernel module since it was loaded, if its counter was unused.
\* msrtest and the others do not come in each other's way as long as the others
\* do not switch its counters off, although it writes the same registers.
ReportExact ==
  /\ \A p \in {"l3", "msrtest"} : status[p] = "over" /\ Undisturbed(p) =>
       LET half == Len(got[p]) \div 2 IN
       \A k \in 1..half : got[p][half + k] - got[p][k] = saw[p][half + k] - saw[p][k]
  /\ got["kernel"] # <<>> /\ clean /\ Undisturbed("kernel") =>
       got["kernel"][1] = saw["kernel"][1] - since

\* The kernel module and the L3 counting, if nothing came in their way, end with
\* their counters zero and without an event, even if another program has enabled
\* all counters again in the meantime, and disabled if none could have.
LeavesClean ==
  [][\A p \in {"kernel", "l3"} : Finish(p) /\ Undisturbed(p) =>
       \A n \in CpusOf(p), c \in Owns(p) :
         /\ msr[n].select[c] = "none" /\ msr[n].count[c] = 0
         /\ (\A q \in Programs \ {p} : status[q] = "idle") => c \notin msr[n].global]_vars

\* wrmsr exits with 0 when the register holds the last of its values, and
\* otherwise the register holds the last one before the failure.
WrmsrReports ==
  "wrmsr" \notin spoiled =>
    /\ status["wrmsr"] = "over" => Holds(command[Len(command)])
    /\ status["wrmsr"] = "failed" /\ at["wrmsr"] > 1 => Holds(command[at["wrmsr"] - 1])
=============================================================================

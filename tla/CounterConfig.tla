---------------------------- MODULE CounterConfig ----------------------------
(***************************************************************************)
(* configure_counters, and what surrounds it: the program opens the MSR      *)
(* device of each CPU in cpus, programs the performance counters of that CPU  *)
(* register by register, runs the benchmark, and goes over the CPUs once more *)
(* to switch the counters off.  There are two programs with a function of     *)
(* this name: main.cc, and main_ritika.cc, which looks at the fixed counters' *)
(* control register before it clears it.                                     *)
(*                                                                          *)
(* The registers belong to the machine, not to the process.  They keep what  *)
(* another tool, or a run of this program that died, left in them, and they  *)
(* go on counting while they are being programmed.  An access to them may    *)
(* fail: main.cc stores the result in a uint32_t and asserts that it is >= 0, *)
(* so the program goes on as if nothing had happened.                        *)
(***************************************************************************)
EXTENDS Integers

CONSTANTS
  Programs,   \* the programs that may be started
  NCpus,      \* cpus.size() (2 in main.cc, 1 in main_ritika.cc)
  NPmc,       \* PERF_MAX_CUSTOM_COUNTERS (8)
  NCustom,    \* N_CUSTOM_CTR (8), the custom entries of counter_tbl
  NFixed,     \* N_FIXED_CTR (0)
  Off,        \* an event select register that selects nothing
  Foreign,    \* an event that another tool selected
  MaxRuns,    \* bound: how often the program is started
  MaxFaults   \* bound: how many accesses to the MSR device fail

Cpus  == 0..(NCpus - 1)
Pmcs  == 0..(NPmc - 1)
Fixed == 0..2                       \* PERF_MAX_FIXED_COUNTERS
Bits  == Pmcs \union (32..34)       \* bits of the global control register

ASSUME SizesAssumption ==
  /\ Programs \subseteq {"main", "main_ritika"}
  /\ NCpus \in Nat \ {0}
  /\ NPmc \in 1..32
  /\ NCustom \in 1..NPmc
  /\ NFixed \in 0..3
  /\ Off \notin Int /\ Foreign \notin Int /\ Off # Foreign

\* counter_tbl: entry c selects its event in register c and uses counter c.
CounterTbl == [c \in 0..(NCustom - 1) |-> [evtnr |-> c, cfg_reg |-> c, id |-> c]]

Events == {Off, Foreign} \union (0..(NCustom - 1))

Registers == [global : SUBSET Bits, fixed : SUBSET Fixed, sel : [Pmcs -> Events]]

-----------------------------------------------------------------------------

VARIABLES
  msr,      \* msr[i]: the control registers of cpus[i]
  dirty,    \* dirty[i]: the PMCs of cpus[i] that are not zero
  prog,     \* the program that was started last
  pc,       \* where it is
  set,      \* the parameter of configure_counters
  i, c,     \* its loop variables
  ctrl,     \* ctrl_reg.value: the fixed counters it enables
  value,    \* the mask for the global control register
  runs,     \* how often the program was started
  faults,   \* how many accesses failed
  failed    \* did one fail since the program was last started?

vars == <<msr, dirty, prog, pc, set, i, c, ctrl, value, runs, faults, failed>>

locals == <<prog, set, i, c, ctrl, value>>

Ended  == {"exited", "dead"}
Labels == {"open", "disable", "reset", "checkFixed", "fixedOff", "readFixed",
           "writeFixed", "select", "enable", "run"} \union Ended

\* Registers after a boot, and registers another tool left counting everything
\* but the first fixed counter.
Booted   == [global |-> {}, fixed |-> {}, sel |-> [k \in Pmcs |-> Off]]
LeftOver == [global |-> Bits, fixed |-> {1, 2}, sel |-> [k \in Pmcs |-> Foreign]]

Init ==
  /\ msr \in [Cpus -> {Booted, LeftOver}]
  /\ dirty = [n \in Cpus |-> {}]
  /\ prog \in Programs
  /\ pc = "open" /\ set = TRUE /\ i = 0 /\ c = 0
  /\ ctrl = {} /\ value = {}
  /\ runs = 1 /\ faults = 0 /\ failed = FALSE

-----------------------------------------------------------------------------
(* Accesses to the MSR device of cpus[i].                                     *)

Unfailing == UNCHANGED <<faults, failed>>

Fault == faults < MaxFaults /\ faults' = faults + 1 /\ failed' = TRUE

\* pwrite, which gives the registers of the CPU the values in r; the program
\* never knows it to have failed.
Write(r) ==
  \/ msr' = [msr EXCEPT ![i] = r] /\ Unfailing
  \/ msr' = msr /\ Fault

\* The loop over cpus: on to the next one, or out of configure_counters.
NextCpu_BugNoIncrement ==
  /\ pc' = IF i + 1 < NCpus THEN IF set THEN "open" ELSE "disable"
                            ELSE IF set THEN "run" ELSE "exited"
  /\ i' = 0

NextCpu_BugInclusive ==
  /\ pc' = IF i < NCpus THEN IF set THEN "open" ELSE "disable"
                        ELSE IF set THEN "run" ELSE "exited"
  /\ i' = IF i < NCpus THEN i + 1 ELSE 0

NextCpu ==
  /\ pc' = IF i + 1 < NCpus THEN IF set THEN "open" ELSE "disable"
                            ELSE IF set THEN "run" ELSE "exited"
  /\ i' = IF i + 1 < NCpus THEN i + 1 ELSE 0

-----------------------------------------------------------------------------
(* configure_counters. *)

\* new MsrHandle(cpus[i]).
Open ==
  /\ pc = "open"
  /\ pc' = "disable"
  /\ Unfailing
  /\ UNCHANGED <<msr, dirty, locals, runs>>

\* The constructor throws, nobody catches: the process is gone.
OpenThrows ==
  /\ pc = "open"
  /\ Fault
  /\ pc' = "dead"
  /\ UNCHANGED <<msr, dirty, locals, runs>>

Disable_BugOmitted ==
  /\ pc = "disable"
  /\ UNCHANGED msr /\ Unfailing
  /\ pc' = "reset" /\ c' = 0
  /\ UNCHANGED <<dirty, prog, set, i, ctrl, value, runs>>

Disable_BugOnlyWhenSetting ==
  /\ pc = "disable"
  /\ IF set THEN Write([msr[i] EXCEPT !.global = {}]) ELSE UNCHANGED msr /\ Unfailing
  /\ pc' = "reset" /\ c' = 0
  /\ UNCHANGED <<dirty, prog, set, i, ctrl, value, runs>>

Disable ==
  /\ pc = "disable"
  /\ Write([msr[i] EXCEPT !.global = {}])
  /\ pc' = "reset" /\ c' = 0
  /\ UNCHANGED <<dirty, prog, set, i, ctrl, value, runs>>

\* On to the next counter, or out of the loop: ctrl_reg.value starts as all ones.
NextPmc ==
  IF c + 1 < NPmc
    THEN c' = c + 1 /\ pc' = pc /\ ctrl' = ctrl
    ELSE /\ c' = 0 /\ ctrl' = Fixed
         /\ pc' = IF prog = "main" THEN "fixedOff" ELSE "checkFixed"

ResetPmc_BugLastKept ==
  /\ pc = "reset"
  /\ \/ dirty' = [dirty EXCEPT ![i] = IF c = NPmc - 1 THEN @ ELSE @ \ {c}] /\ Unfailing
     \/ UNCHANGED dirty /\ Fault
  /\ NextPmc
  /\ UNCHANGED <<msr, prog, set, i, value, runs>>

ResetPmc ==
  /\ pc = "reset"
  /\ \/ dirty' = [dirty EXCEPT ![i] = @ \ {c}] /\ Unfailing
     \/ UNCHANGED dirty /\ Fault
  /\ NextPmc
  /\ UNCHANGED <<msr, prog, set, i, value, runs>>

\* With the fixed counters off: the events, or the next CPU.
AfterFixed == IF set THEN pc' = "readFixed" /\ i' = i ELSE NextCpu

\* main_ritika.cc: the register is read, and cleared if a bit of it is set.  A
\* read that fails leaves the all ones in place.
CheckFixed_BugOneCounter ==
  /\ pc = "checkFixed"
  /\ \/ ctrl' = msr[i].fixed /\ Unfailing
     \/ ctrl' = ctrl /\ Fault
  /\ IF 0 \in ctrl' THEN pc' = "fixedOff" /\ i' = i ELSE AfterFixed
  /\ UNCHANGED <<msr, dirty, prog, set, c, value, runs>>

CheckFixed ==
  /\ pc = "checkFixed"
  /\ \/ ctrl' = msr[i].fixed /\ Unfailing
     \/ ctrl' = ctrl /\ Fault
  /\ IF ctrl' # {} THEN pc' = "fixedOff" /\ i' = i ELSE AfterFixed
  /\ UNCHANGED <<msr, dirty, prog, set, c, value, runs>>

FixedOff ==
  /\ pc = "fixedOff"
  /\ Write([msr[i] EXCEPT !.fixed = {}])
  /\ AfterFixed
  /\ UNCHANGED <<dirty, prog, set, c, ctrl, value, runs>>

\* A read that fails leaves in ctrl_reg.value what was there.
ReadFixed ==
  /\ pc = "readFixed"
  /\ \/ ctrl' = msr[i].fixed /\ Unfailing
     \/ ctrl' = ctrl /\ Fault
  /\ pc' = "writeFixed"
  /\ UNCHANGED <<msr, dirty, prog, set, i, c, value, runs>>

WriteFixed ==
  /\ pc = "writeFixed"
  /\ LET first == 0..(NFixed - 1) IN
       /\ Write([msr[i] EXCEPT !.fixed = ctrl \union first])
       /\ ctrl' = ctrl \union first
       /\ value' = {32 + f : f \in first}
  /\ pc' = "select" /\ c' = 0
  /\ UNCHANGED <<dirty, prog, set, i, runs>>

\* Entry c of counter_tbl.  The event register is read first, but what is read
\* is thrown away.  The guard against too many counters is c > NPmc, so it
\* would let one entry too many through if NCustom exceeded NPmc.
MoreEntries_BugShort == c < NCustom - 1

MoreEntries == c < NCustom /\ ~(c > NPmc)

Select ==
  /\ pc = "select"
  /\ MoreEntries
  /\ Write([msr[i] EXCEPT !.sel[CounterTbl[c].cfg_reg] = CounterTbl[c].evtnr])
  /\ value' = value \union {CounterTbl[c].id}
  /\ c' = c + 1
  /\ UNCHANGED <<dirty, prog, pc, set, i, ctrl, runs>>

SelectDone ==
  /\ pc = "select"
  /\ ~MoreEntries
  /\ pc' = "enable"
  /\ Unfailing
  /\ UNCHANGED <<msr, dirty, locals, runs>>

Enable ==
  /\ pc = "enable"
  /\ Write([msr[i] EXCEPT !.global = value])
  /\ NextCpu
  /\ UNCHANGED <<dirty, prog, set, c, ctrl, value, runs>>

-----------------------------------------------------------------------------
(* The rest of main, and of the machine.                                      *)

\* The threads run and are joined (main_ritika.cc calls one function itself);
\* then configure_counters(.., false).
Benchmark ==
  /\ pc = "run"
  /\ set' = FALSE
  /\ pc' = "disable"
  /\ Unfailing
  /\ UNCHANGED <<msr, dirty, prog, i, c, ctrl, value, runs>>

\* The process is killed, or one of its threads dies.
Crash ==
  /\ pc \notin Ended
  /\ pc' = "dead"
  /\ Unfailing
  /\ UNCHANGED <<msr, dirty, locals, runs>>

Restart ==
  /\ pc \in Ended
  /\ runs < MaxRuns
  /\ runs' = runs + 1
  /\ prog' \in Programs
  /\ pc' = "open" /\ set' = TRUE /\ i' = 0 /\ c' = 0 /\ ctrl' = {} /\ value' = {}
  /\ failed' = FALSE
  /\ UNCHANGED <<msr, dirty, faults>>

\* A counter that is enabled globally and selects an event counts it.
Count(n, k) ==
  /\ k \in msr[n].global
  /\ msr[n].sel[k] # Off
  /\ dirty' = [dirty EXCEPT ![n] = @ \union {k}]
  /\ UNCHANGED <<msr, pc, locals, runs, faults, failed>>

Program ==
  \/ Open \/ OpenThrows \/ Disable \/ ResetPmc \/ CheckFixed \/ FixedOff \/ ReadFixed \/ WriteFixed
  \/ Select \/ SelectDone \/ Enable \/ Benchmark

Environment ==
  \/ Crash \/ Restart
  \/ \E n \in Cpus, k \in Pmcs : Count(n, k)

\* Nobody starts the program again.
Stopped == pc \in Ended /\ UNCHANGED vars

Next == Program \/ Environment \/ Stopped

Spec == Init /\ [][Next]_vars /\ WF_vars(Program)

-----------------------------------------------------------------------------
(* Correctness. *)

TypeOK ==
  /\ msr \in [Cpus -> Registers]
  /\ dirty \in [Cpus -> SUBSET Pmcs]
  /\ prog \in Programs
  /\ pc \in Labels
  /\ set \in BOOLEAN
  /\ i \in Cpus
  /\ c \in 0..NPmc
  /\ ctrl \in SUBSET Fixed
  /\ value \in SUBSET Bits
  /\ runs \in Nat
  /\ faults \in Nat
  /\ failed \in BOOLEAN

\* What configure_counters is meant to leave in the registers of a CPU.
Mask == {32 + f : f \in 0..(NFixed - 1)} \union (0..(NCustom - 1))

Configured(n) ==
  /\ msr[n].global = Mask
  /\ msr[n].fixed = 0..(NFixed - 1)
  /\ \A k \in 0..(NCustom - 1) : msr[n].sel[k] = k

\* "Disable counters while programming" (main.cc): no control register but the
\* global one changes on a CPU whose counters are enabled, whatever an earlier
\* run left there, unless the access that disables them failed.
ProgrammedWhileDisabled ==
  [][\A n \in Cpus :
       (msr[n].fixed # msr'[n].fixed \/ msr[n].sel # msr'[n].sel) /\ ~failed =>
         msr[n].global = {}]_vars

\* A CPU's counters start from zero, all at once, and count the events of
\* counter_tbl only: nothing an earlier run or another tool had counted or
\* selected survives into a measurement.
StartsClean ==
  [][\A n \in Cpus :
       msr[n].global = {} /\ msr'[n].global # {} /\ ~failed' =>
         Configured(n)' /\ dirty[n] = {}]_vars

\* When the threads start every CPU counts what it should: also in a run that
\* follows one that died half way or whose accesses failed.
ConfiguredWhenRunning == pc = "run" /\ ~failed => \A n \in Cpus : Configured(n)

\* "Clean MSRs" (main.cc): a run that reaches its end leaves nothing counting.
QuietOnExit ==
  pc = "exited" /\ ~failed =>
    \A n \in Cpus : msr[n].global = {} /\ msr[n].fixed = {} /\ dirty[n] = {}

\* The steps a start of the program has left, at most: for the CPU it is at, for
\* those after it, and for the second call of configure_counters.
StepsPerCpu == NPmc + NCustom + 8

AtThisCpu ==
  CASE pc = "open"       -> StepsPerCpu
    [] pc = "disable"    -> StepsPerCpu - 1
    [] pc = "reset"      -> NCustom + 6 + NPmc - c
    [] pc = "checkFixed" -> NCustom + 6
    [] pc = "fixedOff"   -> NCustom + 5
    [] pc = "readFixed"  -> NCustom + 4
    [] pc = "writeFixed" -> NCustom + 3
    [] pc = "select"     -> NCustom + 2 - c
    [] pc = "enable"     -> 1

Work ==
  LET thisCall   == AtThisCpu + (NCpus - 1 - i) * StepsPerCpu
      secondCall == 1 + NCpus * StepsPerCpu
  IN CASE pc \in Ended -> 0
       [] pc = "run"   -> secondCall
       [] OTHER        -> thisCall + (IF set THEN secondCall ELSE 0)

\* No start of either program goes round in its loops: whatever the registers
\* hold and whichever accesses fail, each step, and a crash, brings its end nearer.
Progress ==
  [][Restart \/ (\E n \in Cpus, k \in Pmcs : Count(n, k)) \/ Work' < Work]_vars

\* The session of CounterSession that a start of the program is.
Phase ==
  CASE pc = "run"    -> "measuring"
    [] pc = "exited" -> "over"
    [] pc = "dead"   -> "dead"
    [] OTHER         -> IF set THEN "on" ELSE "off"

Counting == {n \in Cpus : Configured(n)}

Idle == {n \in Cpus : msr[n].global = {} /\ dirty[n] = {}}

\* The two calls of configure_counters are a session of CounterSession: from the
\* first write to the last nothing but the next CPU starts to count, none stops
\* while the threads run, the CPUs change hands in no other way, and every start
\* comes to an end.
Session == INSTANCE CounterSession WITH
  phase <- Phase, counting <- Counting, idle <- Idle, broken <- failed

ImplementsSession == Session!LiveSpec

\* assert(res >= 0) after each access: past the assertions every access has
\* succeeded, so the counters of every CPU are enabled when the threads start.
EnabledWhenRunning == pc = "run" => \A n \in Cpus : msr[n].global = Mask
=============================================================================

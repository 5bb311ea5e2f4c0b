# inline-stuff: models, checks and proofs

`inline-stuff` measures cache behaviour. A driver (`main.cc`) programs the
performance counters of a few CPUs through `/dev/cpu/N/msr`, starts one thread
per CPU that reads or writes an array over and over, reads the counters around
each pass, and writes the differences to a CSV file. Around it are older tools on
the same registers: a second driver, an L3 counting, a test, a kernel module,
`rdmsr` and `wrmsr`. This directory holds TLA+ models of these programs, the TLC
runs that check them, and TLAPS proofs.

    tlc -config SharedArrayBench.cfg MCSharedArrayBench.tla
    tlc -config CounterConfig.cfg    CounterConfig.tla
    tlc -config Experiment.cfg       MCExperiment.tla
    tlc -config SoloBench.cfg        MCSoloBench.tla
    tlc -config MsrTools.cfg         MCMsrTools.tla
    for m in SharedArray CounterConfig Experiment SoloBench Rdmsr CounterTools CounterReport MsrTools
    do tlapm ${m}Proofs.tla; done

`PROJECT.json` lists the runs, the mutants that show what each property
detects, the source lines behind each definition, the hazards, the findings and
the theorems.

## Inventory

| part | state | operations | hard about it |
|---|---|---|---|
| Multi-threaded benchmarks (`benchmarks.cc` 18-453, `fake_out_optimizations` in `benchmarks.hh`) | `sa_flag`, `shared_array` and its contents, `can_run`, a static `fd`; per thread `counts`, `times`, `values` | prepare the array, wait, passes, signal | a test-then-set flag, a flag that precedes what it announces, a plain `bool` as hand-over, a lazily opened descriptor: all unlocked |
| Counter configuration (`configure_counters` in `main.cc` 43-136 and `main_ritika.cc`; `types.h`) | the MSRs of each CPU, which outlive the process | open, disable, reset, select events, enable; disable again | leftovers of a crashed run, accesses that fail unnoticed, order of the register writes |
| Driver (`main.cc` 138-221, `pin_thread`, `BenchmarkThread`) | threads and their placement, the CSV file | pin itself, configure, spawn, pin, join, print, clean up | a thread runs before it is pinned, failures are reported and ignored, counters are read one after the other, rows are printed with times they may not have |
| MSR access (`msr.cc`, `msr.hh`, `msr-old.c`) | a descriptor per CPU | open (throws, or reports), `pread`, `pwrite` | results are ignored by most callers |
| Single-threaded benchmarks (`benchmarks.cc` 374-411, 455-720) | an array each, `arr_2d` | fill, passes | index arithmetic |
| L3 counting (`cpuid.c`, `msr-old.c`), `msrtest.cc`, kernel module (`msr_kernel.c`) | counters and event registers of one CPU or of all | select, enable, read twice, tidy up (or not) | they write the same registers and know nothing of each other; the kernel code runs on whatever CPU it is on |
| `msr-tools-1.2` (`rdmsr`, `wrmsr`) | none between calls | format a register or a bit field; a sequence of writes | options that are folded into one number; sign, width and digits; stopping in the middle of a sequence |
| CPUID decoding (`cpuid.c`), `msr_ioclt_freeBSD`, `cacheflush.c`, `plot_script.py` | none | prints, an unfinished example, a timing loop, plots | |

They interact like this. `main` runs `configure_counters` for all CPUs, then
creates the threads; from there on the threads share memory with each other
(the array, the flags, the descriptor) and with `main` (their `ThreadArgs`,
which `main` reads after `join`, and the `MsrHandle` objects). The counters are
shared by the threads, which read them, `main`, which programs them, and the
machine, which increments them. The other tools share with each other nothing but
the registers of the CPUs.

What makes each part correct:

* benchmarks: thread 1 of a function that waits measures after thread 0; the
  array it measures is there and whole; every pass gives one row and one stamp;
  both threads return;
* configuration: counters are programmed while disabled, start from zero with
  the events of `counter_tbl`, whatever was there before, and are off at the end;
* driver: what a row says was counted by the CPU the thread ran on during that
  pass only, for every counter alike; the CSV has every row in order, each with its
  time; the process ends with the counters off;
* single-threaded functions: each element once per pass, inside the array;
* older tools: what they report is what happened in between, unless somebody came
  in their way; those that tidy up leave nothing behind;
* `wrmsr`: the exit status and the register agree; `rdmsr`: what is printed is the
  field, in the format and the width asked for.

## Modules

| module | models |
|---|---|
| `OrderedRuns` | what a pair of benchmark functions promises: passes, rows, order, completion (abstract) |
| `SharedArrayBench` | the five functions on the shared array; implements `OrderedRuns` |
| `CounterSession` | what the two calls of `configure_counters` promise to what runs between them (abstract) |
| `CounterConfig` | `configure_counters` of both drivers and the registers; implements `CounterSession` |
| `Experiment` | `main` with its threads; composes `OrderedRuns` and `CounterSession` with placement, the counters and the CSV |
| `SoloBench` | the access patterns of the single-threaded functions |
| `CounterTools` | the L3 counting, `msrtest`, the kernel module and `wrmsr` on the same CPUs |
| `Rdmsr` | `rdmsr`, from its options to what it prints |
| `Powers` | powers of a number, for `Rdmsr` |
| `MsrTools` | `CounterTools` and `Rdmsr` on one machine |
| `MCSharedArrayBench`, `MCExperiment`, `MCSoloBench`, `MCMsrTools` | the function tables, patterns and scenarios for TLC |
| `SharedArrayProofs`, `CounterConfigProofs`, `ExperimentProofs`, `SoloBenchProofs`, `RdmsrProofs`, `CounterToolsProofs`, `CounterReportProofs`, `MsrToolsProofs` | theorems |

### SharedArrayBench

A thread's position is `pc[t]`; each action is one access to a shared variable.

| code | actions |
|---|---|
| `if (sa_flag == false)` / `sa_flag = true` / `malloc` / fill loop | `CheckFlag`, `ClaimFlag`, `AllocArray`, `FillElement`, `FillDone` |
| `while (!can_run);` | `Spin`, `StartRun` |
| stamp, first `read_values` | `BeginPass` |
| `b = shared_array[jj]`, `shared_array[j] = j` | `ReadElement`, `WriteElement`, `NullAccess` |
| second `read_values`, differences | `EndPass` |
| `fake_out_optimizations`, `counts++` | `SinkCheck`, `SinkOpen`, `SinkWrite` |
| end of the function, `can_run = true` | `FinishRun` |

What differs between the functions `t1` to `t4` and the writing one is data, a
record of `Benchmark` (passes, which of them write, which are stamped, hand-over,
halves), and `func` is a pair of them as in `main.cc`. `shared_array` is
`NoArray` or the thread whose `malloc` it points to, `written[b]` the elements
of that block that were stored: values are left out, every store of one function
writes the same value to an element. The stores and loads go through the global
pointer, so a thread that is filling its block goes on in the other one's when
that thread replaces the pointer. One step loads the pointer and uses it; the
block a stale pointer names is never freed, so splitting it would only add
stores to a block nobody reads and loads from a whole or a half filled one.

Two things about this code are known and have no run of their own. With
`MULTITHREADED_HALF_ARRAY_READ` the ranges `Lo(t)..Hi(t)-1` of the two threads leave
element `n \div 2` to nobody (`benchmarks.cc:66`), although
`plots/single_l2_smaller_len_multi_threaded_half_arr_read_pf_disabled.txt:7` speaks of the
first and the second half. And `assert(fd = open(..))` (`benchmarks.hh:64`) holds for the
-1 of a failed `open`: with `OpenMayFail = TRUE` `SinkFdValid` is violated. The run has
`OpenMayFail = FALSE`, and so has the theorem.

Sequential consistency is assumed. The Makefile builds with `-O0`, so every
access in the source is one in the program and the spin loop reloads `can_run`;
`sa_flag` is a sequentially consistent atomic; and on x86 the plain stores (the
pointer, the elements, then `can_run`) become visible in program order.

`func` may pair any two functions. A thread 1 that waits beside a thread 0 that does
not signal (`Mispaired`) spins for ever, and `main` hangs in its `join`: `Termination`
and, for the whole program, `Ends` of `Experiment` say that the program ends with
every other table, and how it hangs with this one.

### CounterSession and CounterConfig

`CounterSession` has no registers. A session clears the CPUs and starts the
counters of each cleared one (`Clear`, `Start`), measures once all of them count,
and goes over them again until all are idle (`Stop`, `Clear`, `Finish`). An access
that fails makes it `broken`: it runs its course and nothing is known of the CPUs
any more. It can die anywhere, and the next one finds the CPUs as it left them.

In `CounterConfig`, `msr[i]` has the global, the fixed and the event select
registers of `cpus[i]`, `dirty[i]` the counters that are not zero; what a counter
has counted beyond that is irrelevant here. The program goes through the registers
in the order of the code with `pc`, `i`, `c` and its locals `ctrl`
(`ctrl_reg.value`), `value` and `set`. `Write` models `pwrite`: it may fail
(`Fault`), and the program does not notice, because `assert(res >= 0)` is about a
`uint32_t`. The machine counts (`Count`) whenever a counter is enabled, also in the
middle of the programming; the process can die anywhere (`Crash`, `OpenThrows`) and
be started again (`Restart`) with the registers as they are. The first start finds
the registers of a fresh boot or everything counting for another tool. `failed` is
a history variable.

`prog` tells the two programs apart, and a restart may change it. They differ in the
fixed counters' control register: `main.cc` clears it (`fixedOff`), `main_ritika.cc`
reads it, looks at nine of its bits (`checkFixed`), and later reads and writes it
once more (`readFixed`, `writeFixed`), which is another place where a failed access
leaves an old value. `main_ritika.cc` measures on one CPU; the model lets it have
`NCpus`. The rest of it is not modelled: it creates no thread and writes no file, but
pins itself to CPU 2 and calls `bm_single_array`, which no file of the repository
defines, between the two calls.

The read of an event select register is left out: what it reads is overwritten
before use. `counter_tbl` is used with entry `c` in register `c`, counter `c`, as
in `types.h`. The fixed counters' own values are not modelled (`N_FIXED_CTR` is
0; TLC uses 1 so that the branches for fixed counters are taken).

### Experiment

| code | actions |
|---|---|
| `pin_thread(pthread_self(), 0)` | `PinMain` |
| `configure_counters(.., true)`, for each CPU | `Clear`, `Start` |
| `new std::thread`, `pin_thread` | `Spawn`, `Pin` |
| `fopen`, header | `OpenCsv` |
| `join`, the loop over the rows, the next thread | `Join`, `PrintRow`, `RowsPrinted` |
| `fclose`, `configure_counters(.., false)`, `delete` | `CloseCsv`, `SwitchOff`, `DeleteHandles` |
| the time, `read_values` before and after the accesses | `BeginPass`, `ReadStart`, `ReadEnd` |
| the accesses of a pass | `Access` |
| differences, `counts++` | `EndPass` |
| a null array, the wait for thread 0, the end of the function | `Die`, `Spin`, `Return` |
| what `main` and the other thread do on the CPU of this one, if no pin keeps them off it | `Intrude` |

`Clear`, `Start` and `SwitchOff` are conjoined with the actions of
`CounterSession`, `BeginPass`, `EndPass` and `Die` with those of `OrderedRuns`.
`ImplementsSession` closes the first of these: `main` with its threads, however they
end, is a session.

A pass of a thread is `NCounters` reads, `Accesses` accesses and `NCounters` reads,
one step each. Every step, a read too, is counted by all counters of the CPU it
happens on, so `pmc[t]` is one number for the counters of `cpus[t]`, and a thread
reads the counters of `cpus[t]` wherever it is. A read may fail: its result
is ignored, and `store_start[k]` or `store_end[k]` keeps what it held, at first the
contents of `malloc`'ed memory (`Uninit`). Differences are unsigned (`Word`).

Each of the three pins may fail; the program reports it and goes on. A thread is
"unpinned" until its pin succeeds and has the affinity of `main`, as threads inherit
it. If `main` has pinned itself (`pinned`), that is CPU 0, which is none of `cpus`.
If not, an unpinned thread may be on any CPU at each of its steps: on its own
(`Step` with `Stray`), on that of the other thread, and so may `main` unless it sleeps in a
join (`Intrude`): the steps they make there are counted in the passes of the thread
that belongs there. `strays` counts all of them, within a bound. Other processes on a CPU are left out.

`ok`, `home` and `alone` are history variables: the counters both of whose reads
succeeded, whether the pass began on the CPU it is measured on, and whether nobody else
was counted there since. `times[t]` is the number of times a thread has pushed: a
function pushes one for each pass (`stamps`) or none. `main` prints `times[j]` with row `j`;
if there is none it reads an empty vector, through a null pointer, and dies. So it does at the first write
to a CSV file it could not open. `Outcome` lists these ends; that there is a time
for every row is `RowsHaveTime`, which the run `unstamped_rows` refutes.

### SoloBench

A function is a `Pattern`: the size of its array, how much of it is filled, the
sequence of elements it visits between the two reads of the counters, and the
element from which it goes on after the second one.

### CounterTools, Rdmsr, MsrTools

Each tool is a straight line of register accesses, so it is given as a sequence of
records (`Kernel`, `L3`, `MsrTest`, `Wrmsr`), and one access is one step: `OpenDevice`,
`WriteMsr`, `ReadMsr`, or `Fails` or `FailsUnnoticed`, which differ from tool to tool.
`wrmsr` exits at the first failure; the exception of `MsrHandle` ends `msrtest` if an
open fails, but the results of its accesses are asserted to be `>= 0` as unsigned
numbers; `msr-old.c` prints an error and goes on, even without a descriptor, and
returns an uninitialised variable (`Uninit`) for a value. Between any two accesses
the CPUs count (`Happen`), the other tools make theirs, and the kernel module's
function may move to another CPU (`Migrate`, once: after that it is `spoiled`). The
call of the L3 counting is commented out in `cpuid.c`; it is modelled as written.
`enable_global_counters` of the kernel module puts 64 bits into `rax`, of which
`wrmsr` uses the lower half: `LowerHalf`, without the fixed counters.

The history variables say what the properties need: `happened`, the events so far;
`saw`, what had happened when a counter was read, and `since` when the kernel module
selected its event; `clean`, whether it found its counter unused; `spoiled`, the
tools in whose way another tool (a write to one of its registers) or a move came;
`faulty`, those one of whose accesses failed.

`Rdmsr` folds any sequence of options into `mode`, opens, reads, prints the whole
register (`PrintRegister`, `rdmsr.c:201`), cuts out the field, goes through the switch,
with the widths of the zero-filled formats, and prints the field (`Output`); `out` holds the
numbers printed. `mode` keeps the encoding of the code (a format below `Masked`, flags
above). `MsrTools` runs it with the tools: the register it is asked for is `IA32_PMC0`. Registers have `Width` bits,
1 to 64 of them; the table of decimal widths ends there. `1ULL << n` is `Bit(n)`, an
element of a recursive function and not `2^n`, of which the provers know nothing.

Two sentences of `rdmsr`'s usage do not describe the code, and one trace of
`signed_field_only` refutes both. "Output bits [h:l] only": the whole register comes first.
"Signed decimal output": `-d` takes a field for a sign and a magnitude, not for a two's
complement, so the register that holds -1 shows as -(2^63 - 1). What is left for `ShowsField` is that the number after the
register is the field, in the format asked for, except that of a field with its highest
bit set `-d` makes a number that is not positive. That this number is minus the
lower bits is the lemma `ShownField` of `RdmsrProofs`.

## Runs

| run | shows |
|---|---|
| `shared_array` | all interleavings of ten pairs of functions (each with itself, with half arrays, and mixtures, one of which hangs), arrays of 3, two iterations: order, array, rows, descriptor, progress, termination and how a pair can hang, `OrderedRuns` |
| `counter_config` | both programs, 2 CPUs, 3 counters of which 2 are in the table, 1 fixed counter, 2 starts, 1 failing access: configuration, order of the writes, clean start and end, progress, `CounterSession` with its liveness |
| `experiment` | two threads, five tables (one with a function that pushes no times, one with two passes), 2 counters, one access per pass, failing pins, a failing `fopen`, and a failing read or a step on a foreign CPU: exact rows, complete CSV, untouched counters, `CounterSession`, progress, the process ends in one of the ways of `Outcome`, or hangs in the one way in which it can (766 087 states) |
| `solo_bench` | five functions on arrays whose two dimensions differ |
| `msr_tools` | pairs of tools on two CPUs with events and failures, and `rdmsr` on every register value, field and combination of options: exact reports, nothing left behind, `wrmsr`'s status, `rdmsr`'s field and its width |
| `prepared_before_read`, `second_done_first`, `access_fails`, `pin_race`, `unstamped_rows`, `fill_overrun`, `signed_field_only` | one disagreement each between the code and what a comment, an assertion or the notes in `plots/` say (see `findings`) |

Bounds. An array of 3 has a first, a middle and a last element, so a fill can be
overtaken before, within and after it; two iterations give a first pass, a next
one and a last one, and for `t2` a write between reads. Two threads is the number
in `main.cc`, not a bound. `MaxRuns = 2` gives a run that died and one that starts
from what it left; `MaxFaults = 1` because the properties are conditional on a run
or a tool without failures, so that what a single failure leaves behind for
the next one is what matters. `MaxMishaps = 1` bounds the failing reads and the steps on a
foreign CPU together: `RowsExact` is conditional on a counter that was read and a pass
that was alone, so one of either kind shows what it does to the other counters, rows
and threads; that a second one does nothing else is proved, since the theorems have no such bound. Two counters are one that is read before and one that
is read after another; a pass of five steps lets a pin fall before, between and
after its reads, and two passes let a failed read find an old value. The tools
run in pairs: each property is about one tool and what comes in its way. Two
events are one before and one after any access. A register of 4 bits has fields of
every kind (all bits, one bit, within, at either end); the table of decimal widths,
which is written for 64, is compared with the lengths of 2^0 to 2^64, computed digit
by digit, in `DecDigitsRight`.

Liveness comes in three parts. `Progress` says that a step, other than a turn of the
spin loop (and, for `CounterConfig`, a restart or a count, for `Experiment` an `Intrude`), makes `Work` smaller, a bound
on the steps that are left: a number for each position, times the passes, rows or CPUs to
come. `OnlyMispairedHangs` says in which states nothing but a spin is left to do. Both
are about safety, so they need no fairness, and they are proved. `Termination`, `Ends` and
`Completes` add that whoever can make a step does.

Fairness. Each thread is a kernel thread that never blocks in `SharedArrayBench`
(a spin is a step), so each gets weak fairness; so do `main` and the threads in
`Experiment` and the program in `CounterConfig`. Nothing makes a crash, a restart,
a failure, a count or an `Intrude` happen. `Completes`, the liveness of `CounterSession` that
`CounterConfig` implements, says that no started session hangs. `CounterTools`
and `MsrTools` have no fairness: straight lines without a wait, about which only
safety is in question.

Mutants. Operators named `.._Bug..` are plausible slips in the code (a loop bound
off by one, a flag tested for the wrong thread, a wait left out); each property is
violated when one of them takes the place of the definition it imitates.

## Proofs

`SharedArrayProofs` proves, for every array length, every number of passes and
every table that satisfies `ConstantsAssumption` and `FuncTablesAssumption`:

* `TypeCorrect`, `PassOrderHolds`, `PreparedArrayHolds`, `SecondReaderSafeHolds`,
  `RowsStampedHolds`: the invariants of the run `shared_array`;
* `CodeRowsStamped`: in particular, for an even or an odd number of iterations, `t1` to
  `t4` have a stamp for each of their rows, and the writing function has none at any
  time (`CodeStamped`), which is why `main` must not be given it (`unstamped_rows`);
* `ProgressHolds` and `OnlyMispairedHangsHolds`;
* `SinkFdValidHolds`, `OneDescriptorLeakedHolds`, for an `open` that does not fail;
* `RefinesOrderedRuns`: the safety part of `ImplementsOrderedRuns`.

The invariants are not inductive. `PreparedArray`, for instance, says nothing of
the states in which it will be lost: two threads in the middle of preparing. `IInv`
adds what the argument needs: `FlagInv` (past the check the flag is set; a flag
without an array means that a thread is about to `malloc`), `BlockInv` (the block
in use belongs to a thread that is filling it, from the left and without gaps, or
to one that has filled it), `RowInv` (rows and passes) and `SignalInv` (`can_run`
only when thread 0 is done, and thread 1 past its loop only then). A thread that
steals the pointer therefore replaces a block by an empty one of its own, and the
preparation is over only when the owner of the block in use has filled it. If
thread 1 is past its loop thread 0 is done, so nobody is preparing and the array
is whole: hence `SecondReaderSafe`, and hence no null access by thread 1, which is
what the refinement needs for its abort step. `Progress` follows from `RowInv`: a
thread at a pass has a row less than passes, so what it has left is not negative; the
rest is linear once a pass is known to take at most `StepsPerPass`. `OnlyMispairedHangs`
needs the converse of `SignalInv` too: a thread 0 that hands over and is done has set
`can_run`.

`CounterConfigProofs` proves `TypeCorrect`, `ConfiguredHolds`, `QuietHolds`,
`DisabledHolds`, `StartsCleanHolds`, `ProgressHolds`, and `RefinesSession`, the safety part of
`ImplementsSession`, for both programs and every number of CPUs, counters, table
entries, starts and failing accesses that `SizesAssumption` admits (a table no
longer than there are counters, as in `types.h`). The properties speak of the
moments when the program is through with the CPUs; `IInv` says what holds on the
way. `PlaceInv` ties the parameter and the loop variables to the position.
`BehindInv` speaks of the CPUs the loop has passed: configured by the first call,
silent after the second. `HereInv` is about the CPU the loop is at: its counters are
disabled from the first write to the last, those below `c` are zero, the table
entries below `c` are in place and in `value`. The last two hold while no access
has failed, from a start on whatever registers it finds. Counting disturbs neither:
the CPU at hand is disabled, those that the second loop has passed are off, and a
configured CPU may count. `Progress` needs no more than `TypeOK` and `PlaceInv`, so failing
accesses and foreign values in the registers cannot make a loop longer.

`ExperimentProofs` proves `TypeCorrect`, `RowsExactHolds`, `CountersUntouchedHolds`,
`CsvCompleteHolds`, `ProgressHolds`, `OnlyMispairedHangsHolds` and `RefinesSession`, for
every number of accesses, counters, failing reads, steps on foreign CPUs and passes,
whichever pins fail. `PlaceInv` says that a thread runs only while `main` is
between the spawn and the join of it, so that all CPUs count while anybody measures
(`CountingInv`): hence nobody programs a counter in the middle of a pass. `PassInv`
is the heart of `RowsExact`. Within a pass at step `at[t]` in which nobody else was counted, a counter read at step
`k` shows at most what was counted up to `k`, and if the thread began at home the
difference between the counter and `start[k]` is exactly the number of steps since,
so after the second read it is `Accesses + NCounters` whatever `k` is; for a thread
that comes home in the middle it is less. A thread that strays onto its own CPU before
it is pinned is counted for some of its own steps, so the bound holds for it too. The difference stays below `Word`, which is
why it is not disturbed by being unsigned. If `main` has pinned itself every pass is
such a pass, because nobody strays. `RowInv` and `CsvInv` say that the CSV is
the rows of the threads joined so far and the first `j` of the one being printed.
`StampInv` counts the times, one per pass begun or none: hence `main` dies at a row without one
only if a function pushes none, and comes to its end only if none of those with passes is such
a function (`OutcomeInv`).

`SoloBenchProofs` proves the four invariants of `solo_bench` for arrays of every size
and any number of iterations, if `Patterns` are among the functions that stay inside
(`Safe`: all but `oned_arrays`, whose fill does not, see `fill_overrun`).
The arithmetic is that of rows and columns: an index below `R * C` is `r * C + c` for
one `r` and one `c`, so walking along the columns is a bijection, and `cache_work`,
which mixes the two up, stays inside because there are not more columns than rows.

`RdmsrProofs` proves `NeverImpossible`, `TypeOK`, `ShowsField` and `FillFits` of `rdmsr`,
for every width up to 64 (`Sizes`) and whatever happens to the registers between its
steps (`RegistersOK`). The mode is always a format plus flags (`ModeInv`): that is all
`NeverImpossible` needs. `DataInv` follows the number: after the cut `data` is the field,
and after the switch the field, or for `-d` what `Negate` makes of it, which `%lld` shows as
minus the magnitude (`NegateShows`), because the wrapped number has its top bit set unless the
magnitude is zero. `OutInv` says what has been printed at each position. What is known of powers comes from `Power` alone. That it is defined for
every exponent, and its laws, need inductions, and an induction theorem cannot be
cited; `Induction` therefore is the least element of the set of the exceptions
(`WFMin`), a theorem without an operator parameter. `Digits` is the one place between two
powers of the base (`DigitsAre`); for a hexadecimal or octal field the powers are
powers of two (`PowerOfPower`, `GroupWidth`), and for a decimal one each entry of the table is
compared with the powers of two and of ten around it (`DecimalTable`, `DecimalWidth`).

`MsrToolsProofs` puts `rdmsr` beside the tools. Whatever they write, the low `Width` bits of a
counter are a register (`RegistersHold`), and a step of theirs leaves `rdmsr` alone, so the
theorems of both modules hold of `ToolsSpec`: `ToolsTypeCorrect`, `NeverImpossibleHolds`,
`ShowsFieldHolds`, `FillFitsHolds`, and, because a run of all is a run of the tools
(`ToolsAlone`), `ToolsKeepPromises`.

`CounterToolsProofs` and `CounterReportProofs` prove `WrmsrReports`, `LeavesClean` and
`ReportExact` for every number of CPUs and fixed counters, any commands, events and
failures. They share `TypeOK` and `CommandInv` (the operands of `wrmsr` are there once it
runs). `WrmsrInv` says that the register holds the value written last unless another
tool or an event came in between. `CleanInv` says how far a tool that tidies up has
come; the order in `Disable` matters, as a counter that is zeroed before its event is
deselected counts on if somebody enables it. `ReportExact` rests on the fact
that a counter and the number of its events grow together: `L3Set` and `MsrTestSet` say that from its
set-up on an undisturbed tool finds its counters with their events and enabled,
`KernelInv` the same of the CPU the module was loaded on, and `ReportInv` that the
difference of counter and event is the same at the second read as at the first.

Every safety property of the passing runs is a theorem. Only model-checked is liveness
(`Termination`, `Ends`, `Completes`, the fairness parts of the refinements): it needs
`ENABLED`, which TLAPS does not do. What can be proved of it without fairness is
in the theorems `ProgressHolds` and `OnlyMispairedHangsHolds`.

## Plan

All of it is done: the shared array and its refinement; the counter configuration of
both drivers and the session it implements; the experiment with failing reads and
several counters; the older tools against each other and the events; `rdmsr` and
`wrmsr`; and the proofs of all safety properties.

Not modelled:

* the command line, the parsing of numbers and of `h:l` in the `msr-tools`, the text
  of the output, the values in the arrays;
* `file_work` (reads two files, records nothing), the decoding of CPUID leaves
  (prints only), the FreeBSD example, `cacheflush.c`, the plotting script;
* the caches themselves: the notes in `plots/` discuss what the hardware does, the
  program only measures it;
* the number of bytes that `fake_out_optimizations` writes to `/dev/null`: it is `L2_SIZE`, twice the
  length of the shared block, but a write to `/dev/null` looks at none of them;
* counters that wrap at 48 bits within a pass, and more rows than `MAX_PTS`: they are
  reset before each run, and `iterations` is 10;
* `wrmsr` on the fixed counters' control register: of the tools only `msrtest` writes it.

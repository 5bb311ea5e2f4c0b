--------------------------- MODULE SharedArrayBench ---------------------------
(***************************************************************************)
(* The multi-threaded benchmark functions of benchmarks.cc: two threads     *)
(* that share one array, a preparation flag (sa_flag), a hand-over flag     *)
(* (can_run) and the lazily opened descriptor of fake_out_optimizations.    *)
(*                                                                          *)
(* A thread prepares the array unless the flag says that somebody has begun *)
(* to, waits for its turn when its function asks for it, and then makes its *)
(* measured passes: each reads or writes the elements one by one through    *)
(* the global pointer, records a row of counter deltas, and pushes the      *)
(* array into /dev/null.                                                    *)
(*                                                                          *)
(* One action is one access to a shared variable; what a thread does with   *)
(* its own locals is part of the access before or after it.  The operators  *)
(* whose names end in _Bug... are slips a change to the code could make;    *)
(* nothing in the specification uses them (README.md, "Mutants").           *)
(***************************************************************************)
EXTENDS Integers, FiniteSets

CONSTANTS
  N,            \* elements of the shared array (16384 in the code)
  Iterations,   \* args.iterations (10 in main.cc)
  FixedReads,   \* the literal 9 of t3 and t4
  HalfRead,     \* is MULTITHREADED_HALF_ARRAY_READ defined?
  OpenMayFail,  \* may open("/dev/null") fail?
  FuncTables,   \* the func[] tables to check, each in [Threads -> Benchmark]
  NoArray       \* the null pointer

Threads == {0, 1}          \* args.id
Idx     == 0..(N - 1)      \* valid indices of the array
NoFd    == -1

(***************************************************************************)
(* What tells one benchmark function from another:                          *)
(*   passes   how many measured passes it makes,                            *)
(*   writes   which of them write the array (the others read it),           *)
(*   timed    which of them push a time stamp to args.times,                *)
(*   handoff  does thread 1 wait for can_run, and thread 0 set it?          *)
(*   halves   does each thread read only its half of the array?             *)
(***************************************************************************)
Benchmark ==
  [passes: Nat, writes: SUBSET Nat, timed: SUBSET Nat,
   handoff: BOOLEAN, halves: BOOLEAN]

ASSUME ConstantsAssumption ==
  /\ N \in Nat \ {0}
  /\ Iterations \in Nat
  /\ FixedReads \in Nat
  /\ HalfRead \in BOOLEAN
  /\ OpenMayFail \in BOOLEAN
  /\ NoArray \notin Threads

\* func[] (main.cc) may name any functions.
ASSUME FuncTablesAssumption == FuncTables \subseteq [Threads -> Benchmark]

\* bm_single_d_array_multithreaded_t1: reads only.
T1 ==
  [passes |-> Iterations, writes |-> {}, timed |-> 0..(Iterations - 1),
   handoff |-> TRUE, halves |-> HalfRead]

\* bm_single_d_array_multithreaded_t2: half of the reads, one write, the
\* other half (the integer division drops a read when Iterations is odd).
T2_BugWriteUntimed ==
  [passes |-> 2 * (Iterations \div 2) + 1, writes |-> {Iterations \div 2},
   timed |-> (0..(2 * (Iterations \div 2))) \ {Iterations \div 2},
   handoff |-> TRUE, halves |-> FALSE]

T2 ==
  [passes |-> 2 * (Iterations \div 2) + 1, writes |-> {Iterations \div 2},
   timed |-> 0..(2 * (Iterations \div 2)),
   handoff |-> TRUE, halves |-> FALSE]

\* bm_single_d_array_multithreaded_t3: nine reads, then one write, no waiting.
T3 ==
  [passes |-> FixedReads + 1, writes |-> {FixedReads}, timed |-> 0..FixedReads,
   handoff |-> FALSE, halves |-> FALSE]

\* bm_single_d_array_multithreaded_t4: one write, then nine reads, no waiting.
T4 ==
  [passes |-> FixedReads + 1, writes |-> {0}, timed |-> 0..FixedReads,
   handoff |-> FALSE, halves |-> FALSE]

\* bm_single_d_array_write_multithreaded: writes only, and no time stamps.
WriteAll ==
  [passes |-> Iterations, writes |-> 0..(Iterations - 1), timed |-> {},
   handoff |-> FALSE, halves |-> FALSE]

-----------------------------------------------------------------------------

VARIABLES
  func,          \* func[t]: the function thread t runs (main.cc, never changes)
  pc,            \* where each thread is
  sa_flag,       \* "somebody has begun to set the array up"
  shared_array,  \* the global pointer: NoArray, or the thread whose malloc it is
  written,       \* written[b]: the indices of b's block that were ever stored to
  idx,           \* the index of each thread's current loop over the array
  can_run,       \* thread 0 lets thread 1 go
  counts,        \* args.counts: rows recorded
  times,         \* Len(args.times)
  fd,            \* the static descriptor of fake_out_optimizations
  opened,        \* descriptors on /dev/null the process holds
  crashed        \* a null dereference killed the process

vars == <<func, pc, sa_flag, shared_array, written, idx, can_run, counts,
          times, fd, opened, crashed>>

arrayVars  == <<sa_flag, shared_array, written>>
sampleVars == <<counts, times>>
sinkVars   == <<fd, opened>>

Preparing == {"claim", "alloc", "fill"}
InPass    == {"access", "sink", "open", "drain"}
Labels    == {"check", "wait", "pass", "done"} \union Preparing \union InPass

Init ==
  /\ func \in FuncTables
  /\ pc = [t \in Threads |-> "check"]
  /\ sa_flag = FALSE
  /\ shared_array = NoArray
  /\ written = [b \in Threads |-> {}]
  /\ idx = [t \in Threads |-> 0]
  /\ can_run = FALSE
  /\ counts = [t \in Threads |-> 0]
  /\ times = [t \in Threads |-> 0]
  /\ fd = NoFd
  /\ opened = 0
  /\ crashed = FALSE

At(t, label)   == ~crashed /\ pc[t] = label
Goto(t, label) == pc' = [pc EXCEPT ![t] = label]

-----------------------------------------------------------------------------
(* Preparing the array.  The test of the flag and the store that sets it are *)
(* two steps, and the flag is set before there is an array to use.           *)

CheckFlag(t) ==
  /\ At(t, "check")
  /\ Goto(t, IF sa_flag THEN "wait" ELSE "claim")
  /\ UNCHANGED <<func, arrayVars, idx, can_run, sampleVars, sinkVars, crashed>>

ClaimFlag(t) ==
  /\ At(t, "claim")
  /\ sa_flag' = TRUE
  /\ Goto(t, "alloc")
  /\ UNCHANGED <<func, shared_array, written, idx, can_run, sampleVars, sinkVars,
                 crashed>>

AllocArray_BugSkipFirst(t) ==
  /\ At(t, "alloc")
  /\ shared_array' = t
  /\ idx' = [idx EXCEPT ![t] = 1]
  /\ Goto(t, "fill")
  /\ UNCHANGED <<func, sa_flag, written, can_run, sampleVars, sinkVars, crashed>>

AllocArray(t) ==
  /\ At(t, "alloc")
  /\ shared_array' = t
  /\ idx' = [idx EXCEPT ![t] = 0]
  /\ Goto(t, "fill")
  /\ UNCHANGED <<func, sa_flag, written, can_run, sampleVars, sinkVars, crashed>>

\* Store through the global pointer: into whatever block it points to now.
Store(t) == written' = [written EXCEPT ![shared_array] = @ \union {idx[t]}]

\* The bound of the fill loop, i < n.
FillBound_BugInclusive == N + 1

FillBound_BugShort == N - 1

FillBound == N

FillElement(t) ==
  /\ At(t, "fill")
  /\ idx[t] < FillBound
  /\ Store(t)
  /\ idx' = [idx EXCEPT ![t] = @ + 1]
  /\ UNCHANGED <<func, pc, sa_flag, shared_array, can_run, sampleVars, sinkVars,
                 crashed>>

FillDone(t) ==
  /\ At(t, "fill")
  /\ idx[t] >= FillBound
  /\ Goto(t, "wait")
  /\ UNCHANGED <<func, arrayVars, idx, can_run, sampleVars, sinkVars, crashed>>

-----------------------------------------------------------------------------
(* The hand-over.  clear_l1 and clear_l2 come first: they touch only the      *)
(* thread's own stack.  The build is -O0, so the spin reloads can_run.        *)

MustWait_BugSwappedId(t) == t = 0 /\ func[t].handoff

MustWait(t) == t = 1 /\ func[t].handoff

Spin(t) ==
  /\ At(t, "wait")
  /\ MustWait(t)
  /\ ~can_run
  /\ UNCHANGED vars

StartRun(t) ==
  /\ At(t, "wait")
  /\ MustWait(t) => can_run
  /\ Goto(t, "pass")
  /\ UNCHANGED <<func, arrayVars, idx, can_run, sampleVars, sinkVars, crashed>>

MaySignal_BugNobody(t) == FALSE

MaySignal(t) == t = 0 /\ func[t].handoff

FinishRun(t) ==
  /\ At(t, "pass")
  /\ counts[t] >= func[t].passes
  /\ can_run' = (can_run \/ MaySignal(t))
  /\ Goto(t, "done")
  /\ UNCHANGED <<func, arrayVars, idx, sampleVars, sinkVars, crashed>>

-----------------------------------------------------------------------------
(* A measured pass over the elements Lo(t) .. Hi(t) - 1.                      *)

Lo(t) == IF func[t].halves /\ t = 1 THEN N \div 2 + 1 ELSE 0

Hi(t) == IF func[t].halves /\ t = 0 THEN N \div 2 ELSE N

BeginPass_BugSignalFirst(t) ==
  /\ At(t, "pass")
  /\ counts[t] < func[t].passes
  /\ can_run' = (can_run \/ MaySignal(t))
  /\ times' = [times EXCEPT ![t] = IF counts[t] \in func[t].timed THEN @ + 1 ELSE @]
  /\ idx' = [idx EXCEPT ![t] = Lo(t)]
  /\ Goto(t, "access")
  /\ UNCHANGED <<func, arrayVars, counts, sinkVars, crashed>>

\* The time stamp is pushed and the counters are read at the start.
BeginPass(t) ==
  /\ At(t, "pass")
  /\ counts[t] < func[t].passes
  /\ times' = [times EXCEPT ![t] = IF counts[t] \in func[t].timed THEN @ + 1 ELSE @]
  /\ idx' = [idx EXCEPT ![t] = Lo(t)]
  /\ Goto(t, "access")
  /\ UNCHANGED <<func, arrayVars, can_run, counts, sinkVars, crashed>>

MoreElements(t) == At(t, "access") /\ idx[t] < Hi(t)

ReadElement(t) ==
  /\ MoreElements(t)
  /\ shared_array # NoArray
  /\ counts[t] \notin func[t].writes
  /\ idx' = [idx EXCEPT ![t] = @ + 1]
  /\ UNCHANGED <<func, pc, arrayVars, can_run, sampleVars, sinkVars, crashed>>

WriteElement(t) ==
  /\ MoreElements(t)
  /\ shared_array # NoArray
  /\ counts[t] \in func[t].writes
  /\ Store(t)
  /\ idx' = [idx EXCEPT ![t] = @ + 1]
  /\ UNCHANGED <<func, pc, sa_flag, shared_array, can_run, sampleVars, sinkVars,
                 crashed>>

\* Either access through a null pointer ends the process.
NullAccess(t) ==
  /\ MoreElements(t)
  /\ shared_array = NoArray
  /\ crashed' = TRUE
  /\ UNCHANGED <<func, pc, arrayVars, idx, can_run, sampleVars, sinkVars>>

\* The counters are read again and row counts[t] of args.values is stored.
EndPass(t) ==
  /\ At(t, "access")
  /\ idx[t] >= Hi(t)
  /\ Goto(t, "sink")
  /\ UNCHANGED <<func, arrayVars, idx, can_run, sampleVars, sinkVars, crashed>>

-----------------------------------------------------------------------------
(* fake_out_optimizations: a static descriptor, tested and opened in two     *)
(* steps.  assert(fd = open(..)) and assert(write(..)) hold for -1 as well.  *)

SinkCheck_BugAlwaysOpen(t) ==
  /\ At(t, "sink")
  /\ Goto(t, "open")
  /\ UNCHANGED <<func, arrayVars, idx, can_run, sampleVars, sinkVars, crashed>>

SinkCheck_BugInverted(t) ==
  /\ At(t, "sink")
  /\ Goto(t, IF fd # NoFd THEN "open" ELSE "drain")
  /\ UNCHANGED <<func, arrayVars, idx, can_run, sampleVars, sinkVars, crashed>>

SinkCheck(t) ==
  /\ At(t, "sink")
  /\ Goto(t, IF fd = NoFd THEN "open" ELSE "drain")
  /\ UNCHANGED <<func, arrayVars, idx, can_run, sampleVars, sinkVars, crashed>>

SinkOpen(t) ==
  /\ At(t, "open")
  /\ \/ fd' = opened + 1 /\ opened' = opened + 1
     \/ OpenMayFail /\ fd' = NoFd /\ opened' = opened
  /\ Goto(t, "drain")
  /\ UNCHANGED <<func, arrayVars, idx, can_run, sampleVars, crashed>>

SinkWrite_BugNoCount(t) ==
  /\ At(t, "drain")
  /\ Goto(t, "pass")
  /\ UNCHANGED <<func, arrayVars, idx, can_run, sampleVars, sinkVars, crashed>>

\* write(fd, ..) and args.counts++.
SinkWrite(t) ==
  /\ At(t, "drain")
  /\ counts' = [counts EXCEPT ![t] = @ + 1]
  /\ Goto(t, "pass")
  /\ UNCHANGED <<func, arrayVars, idx, can_run, times, sinkVars, crashed>>

-----------------------------------------------------------------------------

Step(t) ==
  \/ CheckFlag(t) \/ ClaimFlag(t) \/ AllocArray(t) \/ FillElement(t) \/ FillDone(t)
  \/ Spin(t) \/ StartRun(t) \/ FinishRun(t)
  \/ BeginPass(t) \/ ReadElement(t) \/ WriteElement(t) \/ NullAccess(t) \/ EndPass(t)
  \/ SinkCheck(t) \/ SinkOpen(t) \/ SinkWrite(t)

\* Both threads have returned, or the process is dead.
Stopped ==
  /\ crashed \/ \A t \in Threads : pc[t] = "done"
  /\ UNCHANGED vars

Next == (\E t \in Threads : Step(t)) \/ Stopped

\* Both are kernel-scheduled threads that never block: each keeps running.
Fairness == \A t \in Threads : WF_vars(Step(t))

Spec == Init /\ [][Next]_vars /\ Fairness
-----------------------------------------------------------------------------
(* Correctness. *)

Blocks == Threads \union {NoArray}

TypeOK ==
  /\ func \in FuncTables
  /\ pc \in [Threads -> Labels]
  /\ sa_flag \in BOOLEAN
  /\ shared_array \in Blocks
  /\ written \in [Threads -> SUBSET Idx]
  /\ idx \in [Threads -> Nat]
  /\ can_run \in BOOLEAN
  /\ counts \in [Threads -> Nat]
  /\ times \in [Threads -> Nat]
  /\ fd \in Nat \union {NoFd}
  /\ opened \in Nat
  /\ crashed \in BOOLEAN

\* Thread 1 of a table that hands over has left its spin loop.
Released == func[1].handoff /\ pc[1] \in {"pass", "done"} \union InPass

\* "Let the other array run completely first" (benchmarks.cc): when the table
\* hands over, thread 1 measures nothing until thread 0 recorded all its rows.
PassOrder ==
  Released => pc[0] = "done" /\ counts[0] = func[0].passes

\* The hand-over also covers the array, which thread 0 may have prepared, or
\* thread 1 itself, or both: a released thread 1 never meets a null pointer or
\* an element nobody stored, although nothing else orders the preparation.
SecondReaderSafe ==
  Released => shared_array # NoArray /\ written[shared_array] = Idx

\* Any number of threads may pass the check of sa_flag before it is set, and
\* the last malloc wins; once nobody is preparing any more, the block that won
\* is complete, whoever filled it.
PreparedArray ==
  sa_flag /\ (\A t \in Threads : pc[t] \notin Preparing) =>
    shared_array # NoArray /\ written[shared_array] = Idx

\* main prints times[j] beside row j for every j < counts: a thread whose
\* function pushes time stamps has one for each row, in step with the rows, one
\* whose function pushes none (WriteAll) has none at any time, and a thread that
\* has returned has a row for each pass.
RowsStamped ==
  \A t \in Threads :
    /\ times[t] = IF func[t].timed = {} THEN 0
                  ELSE counts[t] + (IF pc[t] \in InPass THEN 1 ELSE 0)
    /\ pc[t] = "done" => counts[t] = func[t].passes

\* assert(fd = open(..)): nobody writes to descriptor -1, not even the thread
\* that finds the static descriptor while the other one is opening it.  True
\* as long as open does not fail (OpenMayFail = FALSE); the assertion, which
\* -1 satisfies, does not make it true when open may fail.
SinkFdValid == \A t \in Threads : pc[t] = "drain" => fd # NoFd

\* The racy test of the static descriptor leaks at most one descriptor, however
\* many passes the threads make.
OneDescriptorLeaked == opened <= Cardinality(Threads)

\* plots/iteration_2/.._2_reads_pf_disabled.txt: one core prepares the array,
\* clears its caches, and then the array is read.  Only a hand-over orders one
\* thread's preparation before the other one's reads, and thread 0 never waits:
\* it can read elements thread 1 has yet to store, or through a null pointer.
PreparedBeforeRead ==
  \A t \in Threads :
    MoreElements(t) /\ counts[t] \notin func[t].writes =>
      shared_array # NoArray /\ idx[t] \in written[shared_array]

\* plots/iteration3/run_4_analysis.txt: core 2 "completes all its 10 iterations
\* before core 1 writes to array".  The waits of t3 and t4 are commented out.
SecondDoneBeforeFirstWrites ==
  pc[0] = "access" /\ counts[0] \in func[0].writes =>
    counts[1] = func[1].passes

\* The passes, seen as OrderedRuns sees them: the benchmark implements it.
Ordered ==
  INSTANCE OrderedRuns WITH
    table <- func, active <- {t \in Threads : pc[t] \in InPass},
    rows <- counts, aborted <- crashed

ImplementsOrderedRuns == Ordered!Spec

\* Both threads return, unless one of them dies of a null array, or thread 1
\* waits for a thread 0 whose function never sets can_run: then it spins for
\* ever behind thread 0, which has returned.
Termination ==
  <>[](crashed \/ /\ pc[0] = "done"
                  /\ pc[1] = IF Ordered!Mispaired THEN "wait" ELSE "done")

\* The steps thread t has left, at most: what remains of its current pass or of
\* its preparation, and the passes after that.
StepsPerPass == N + 5

ElementsLeft(t, bound) == IF idx[t] < bound THEN bound - idx[t] ELSE 0

InThisPass(t) ==
  CASE pc[t] = "access" -> ElementsLeft(t, Hi(t)) + 4
    [] pc[t] = "sink"   -> 3
    [] pc[t] = "open"   -> 2
    [] pc[t] = "drain"  -> 1

BeforeThePasses(t) ==
  CASE pc[t] = "check" -> N + 6
    [] pc[t] = "claim" -> N + 5
    [] pc[t] = "alloc" -> N + 4
    [] pc[t] = "fill"  -> ElementsLeft(t, FillBound) + 3
    [] pc[t] = "wait"  -> 2
    [] pc[t] = "pass"  -> 1

LaterPasses(t) ==
  (func[t].passes - counts[t] - (IF pc[t] \in InPass THEN 1 ELSE 0)) * StepsPerPass

StepsLeft(t) ==
  IF pc[t] = "done" THEN 0
  ELSE LaterPasses(t) + (IF pc[t] \in InPass THEN InThisPass(t) + 1 ELSE BeforeThePasses(t))

Work == StepsLeft(0) + StepsLeft(1) + (IF crashed THEN 0 ELSE 1)

\* No thread runs in circles, whatever the other one does to the flag, the
\* pointer and the descriptor meanwhile: a step of either, other than a turn of
\* the spin loop, brings the end of the program nearer.
Progress == [][Work' < Work]_vars

\* The spin loop is then the only place to hang, and a thread is stuck there only
\* if thread 0's function was never going to let it go.
OnlyMispairedHangs ==
  (\A t \in Threads : pc[t] = "done" \/ (pc[t] = "wait" /\ MustWait(t) /\ ~can_run)) =>
    /\ pc[0] = "done"
    /\ pc[1] = IF Ordered!Mispaired THEN "wait" ELSE "done"
=============================================================================

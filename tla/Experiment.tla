----------------------------- MODULE Experiment -----------------------------
(***************************************************************************)
(* main of main.cc with its threads: it pins itself to CPU 0, enables the     *)
(* counters of every CPU in cpus, creates one benchmark thread for each and   *)
(* pins it, joins the threads one after the other, writes their rows to the  *)
(* CSV file, and switches the counters off.                                  *)
(*                                                                          *)
(* The threads make their passes as OrderedRuns says (SharedArrayBench       *)
(* implements it), and main goes over the counters as CounterSession says     *)
(* (CounterConfig implements it).  Here a pass is a number of steps: thread t *)
(* reads the counters of cpus[t] one after the other, makes its accesses to   *)
(* the array, and reads the counters again, wherever it runs itself.  Each    *)
(* step, a read too, is counted by every counter of the CPU it happens on.    *)
(* A thread is born with the affinity of main and moves when main pins it,    *)
(* which may be in the middle of a pass, or never: until then it runs on CPU  *)
(* 0, which is none of cpus, or, if main has failed to pin itself, on any     *)
(* CPU, that of the other thread included, where it is counted too.           *)
(* Programs other than this one, which nothing keeps off cpus, are left out.  *)
(***************************************************************************)
EXTENDS Integers, Sequences

CONSTANTS
  FuncTables,   \* the func[] tables
  Accesses,     \* counted accesses in one pass
  NCounters,    \* entries of counter_tbl before the NULL entry (8)
  Word,         \* 2^64, the values of a uint64_t
  Uninit,       \* what malloc'ed memory holds
  MaxMishaps,   \* bound: how many reads of a counter fail and steps go astray
  PinMayFail,   \* may pthread_setaffinity_np fail?
  CsvMayFail    \* may fopen fail?

Threads  == {0, 1}    \* args.id, and the index in cpus
Counters == 0..(NCounters - 1)

ASSUME ExperimentAssumption ==
  /\ FuncTables \subseteq [Threads -> [passes : Nat, handoff : BOOLEAN, stamps : BOOLEAN]]
  /\ Accesses \in Nat
  /\ NCounters \in Nat
  /\ Word \in Nat /\ Accesses + NCounters < Word
  /\ Uninit \in Nat
  /\ PinMayFail \in BOOLEAN
  /\ CsvMayFail \in BOOLEAN

VARIABLES
  table, active, rows, aborted,   \* the passes (OrderedRuns)
  pc,          \* where main is
  i, j,        \* its loop variables
  counting,    \* the threads whose CPU has its counters enabled,
  idle,        \* and those whose CPU is idle (CounterSession)
  pinned,      \* has main pinned itself?
  place,       \* is each thread pinned, if it runs?
  pmc,         \* pmc[t]: what each counter of cpus[t] has counted
  at,          \* how far each thread is in its pass
  start, end,  \* store_start and store_end of each thread
  ok,          \* history: the counters whose reads in this pass succeeded,
  home,        \* whether it began on cpus[t],
  alone,       \* and whether nobody else was counted there since
  values,      \* args.values, with ok, home and alone beside each row
  times,       \* the length of args.times
  faults,      \* how many reads failed
  strays,      \* and how many steps were counted on a CPU their maker is not pinned to
  f,           \* FILE *f
  csv          \* the rows in the file

passVars   == <<table, active, rows, aborted>>
mainVars   == <<pc, i, j, counting, idle, f, csv, pinned>>
notRead    == <<home, alone, values, times>>   \* what a read leaves alone
measured   == <<at, start, end, ok, faults, strays, notRead>>
threadVars == <<place, pmc, measured>>
vars       == <<passVars, mainVars, threadVars>>

Runs == INSTANCE OrderedRuns

Ended  == {"exited", "dead"}
Labels == {"self", "configure", "enable", "spawn", "pin", "fopen", "join", "print",
           "fclose", "clean", "delete"} \union Ended
Places == {"unborn", "unpinned", "pinned", "returned"}

\* The phase of the counter session that main is in.  Its accesses to the
\* registers do not fail here.
Phase ==
  CASE aborted \/ pc = "dead"                -> "dead"
    [] pc \in {"self", "configure", "enable"} -> "on"
    [] pc \in {"clean", "delete"}             -> "off"
    [] pc = "exited"                         -> "over"
    [] OTHER                                 -> "measuring"

Session == INSTANCE CounterSession WITH Cpus <- Threads, phase <- Phase, broken <- FALSE

Init ==
  /\ Runs!Init
  /\ pc = "self" /\ i = 0 /\ j = 0
  /\ counting = {} /\ idle = {}
  /\ pinned = FALSE
  /\ place = [t \in Threads |-> "unborn"]
  /\ pmc = [t \in Threads |-> 0]
  /\ at = [t \in Threads |-> 0]
  /\ start = [t \in Threads |-> [k \in Counters |-> Uninit]]
  /\ end = [t \in Threads |-> [k \in Counters |-> Uninit]]
  /\ ok = [t \in Threads |-> {}]
  /\ home = [t \in Threads |-> FALSE]
  /\ alone = [t \in Threads |-> FALSE]
  /\ values = [t \in Threads |-> <<>>]
  /\ times = [t \in Threads |-> 0]
  /\ faults = 0 /\ strays = 0
  /\ f = "NULL" /\ csv = <<>>

Alive      == ~aborted /\ pc \notin Ended
MainAt(l)  == Alive /\ pc = l
Running(t) == Alive /\ place[t] \in {"unpinned", "pinned"}

\* The loops of main over its threads: the next one, or on to the next part.
NextThread_BugInclusive(again, after) ==
  IF i \in Threads THEN i' = i + 1 /\ pc' = again ELSE i' = 0 /\ pc' = after

NextThread_BugNoIncrement(again, after) ==
  IF i + 1 \in Threads THEN i' = i /\ pc' = again ELSE i' = 0 /\ pc' = after

NextThread(again, after) ==
  IF i + 1 \in Threads THEN i' = i + 1 /\ pc' = again ELSE i' = 0 /\ pc' = after

-----------------------------------------------------------------------------
(* main. *)

\* pin_thread(pthread_self(), 0).  An error is reported and otherwise ignored.
PinMain ==
  /\ MainAt("self")
  /\ pinned' \in {TRUE} \union (IF PinMayFail THEN {FALSE} ELSE {})
  /\ pc' = "configure"
  /\ UNCHANGED <<passVars, i, j, counting, idle, f, csv, threadVars>>

\* configure_counters for one CPU: it is cleared,
Clear ==
  /\ MainAt("configure")
  /\ pc' = "enable"
  /\ UNCHANGED aborted
  /\ Session!Clear(i) /\ i \in idle'
  /\ pmc' = [pmc EXCEPT ![i] = 0]
  /\ UNCHANGED <<passVars, i, j, f, csv, pinned, place, measured>>

Start_BugFirstOnly ==
  /\ MainAt("enable")
  /\ i' = 0 /\ pc' = "spawn"
  /\ counting' = counting \union {i} /\ idle' = idle \ {i}
  /\ UNCHANGED <<passVars, j, f, csv, pinned, threadVars>>

\* and starts to count.
Start ==
  /\ MainAt("enable")
  /\ NextThread("configure", "spawn")
  /\ UNCHANGED aborted
  /\ Session!Start(i)
  /\ UNCHANGED <<passVars, j, f, csv, pinned, threadVars>>

\* new std::thread: the thread runs from now on, where main may run.
Spawn ==
  /\ MainAt("spawn")
  /\ place' = [place EXCEPT ![i] = "unpinned"]
  /\ pc' = "pin"
  /\ UNCHANGED <<passVars, i, j, counting, idle, f, csv, pinned, pmc, measured>>

\* The handle stays valid when the thread has returned, until it is joined.  An
\* error is reported and otherwise ignored.
Pin ==
  /\ MainAt("pin")
  /\ \/ place' = [place EXCEPT ![i] = IF @ = "returned" THEN @ ELSE "pinned"]
     \/ PinMayFail /\ UNCHANGED place
  /\ NextThread("spawn", "fopen")
  /\ UNCHANGED <<passVars, j, counting, idle, f, csv, pinned, pmc, measured>>

\* fopen and the header.  Without a file main complains and goes on.
OpenCsv ==
  /\ MainAt("fopen")
  /\ f' \in {"open"} \union (IF CsvMayFail THEN {"NULL"} ELSE {})
  /\ pc' = "join"
  /\ UNCHANGED <<passVars, i, j, counting, idle, csv, pinned, threadVars>>

Join_BugNoWait ==
  /\ MainAt("join")
  /\ pc' = "print" /\ j' = 0
  /\ UNCHANGED <<passVars, i, counting, idle, f, csv, pinned, threadVars>>

Join ==
  /\ MainAt("join")
  /\ place[i] = "returned"
  /\ pc' = "print" /\ j' = 0
  /\ UNCHANGED <<passVars, i, counting, idle, f, csv, pinned, threadVars>>

\* Writing to a null FILE kills the process, and so does the time of a row that has
\* none: the vector of a function that pushes no times is empty, and its data null.
PrintRow ==
  /\ MainAt("print")
  /\ j < rows[i]
  /\ IF f = "NULL" \/ j >= times[i]
       THEN pc' = "dead" /\ UNCHANGED <<csv, j>>
       ELSE /\ csv' = Append(csv, [tid |-> i, delta |-> values[i][j + 1].delta])
            /\ j' = j + 1
            /\ UNCHANGED pc
  /\ UNCHANGED <<passVars, i, counting, idle, f, pinned, threadVars>>

RowsPrinted_BugOneThread ==
  /\ MainAt("print")
  /\ j >= rows[i]
  /\ i' = 0 /\ pc' = "fclose"
  /\ UNCHANGED <<passVars, j, counting, idle, f, csv, pinned, threadVars>>

RowsPrinted ==
  /\ MainAt("print")
  /\ j >= rows[i]
  /\ NextThread("join", "fclose")
  /\ UNCHANGED <<passVars, j, counting, idle, f, csv, pinned, threadVars>>

\* fclose of a null FILE kills the process too.  Then configure_counters(.., false).
CloseCsv ==
  /\ MainAt("fclose")
  /\ pc' = IF f = "NULL" THEN "dead" ELSE "clean"
  /\ UNCHANGED <<passVars, i, j, counting, idle, f, csv, pinned, threadVars>>

SwitchOff_BugFirstOnly ==
  /\ MainAt("clean")
  /\ pc' = "delete"
  /\ UNCHANGED <<aborted, i>>
  /\ Session!Clear(i) /\ i \in idle'
  /\ pmc' = [pmc EXCEPT ![i] = 0]
  /\ UNCHANGED <<passVars, j, f, csv, pinned, place, measured>>

SwitchOff ==
  /\ MainAt("clean")
  /\ NextThread("clean", "delete")
  /\ UNCHANGED aborted
  /\ Session!Clear(i) /\ i \in idle'
  /\ pmc' = [pmc EXCEPT ![i] = 0]
  /\ UNCHANGED <<passVars, j, f, csv, pinned, place, measured>>

DeleteHandles ==
  /\ MainAt("delete")
  /\ pc' = "exited"
  /\ UNCHANGED <<passVars, i, j, counting, idle, f, csv, pinned, threadVars>>

Main ==
  \/ PinMain \/ Clear \/ Start \/ Spawn \/ Pin \/ OpenCsv \/ Join \/ PrintRow \/ RowsPrinted
  \/ CloseCsv \/ SwitchOff \/ DeleteHandles

-----------------------------------------------------------------------------
(* The threads. *)

\* The steps of a pass: the reads into store_start, the accesses, the reads
\* into store_end.
PassLength == NCounters + Accesses + NCounters

EndsAt == NCounters + Accesses   \* where the second reads begin

\* Most functions of the array push the time first.
BeginPass(t) ==
  /\ Running(t)
  /\ Runs!BeginPass(t)
  /\ times' = [times EXCEPT ![t] = IF table[t].stamps THEN @ + 1 ELSE @]
  /\ at' = [at EXCEPT ![t] = 0]
  /\ ok' = [ok EXCEPT ![t] = Counters]
  /\ home' = [home EXCEPT ![t] = place[t] = "pinned"]
  /\ alone' = [alone EXCEPT ![t] = TRUE]
  /\ UNCHANGED <<mainVars, place, pmc, start, end, values, faults, strays>>

Count(t) == pmc' = [pmc EXCEPT ![t] = IF t \in counting THEN @ + 1 ELSE @]

\* A step on cpus[t] of somebody who is not pinned to it.
Stray(t) ==
  /\ ~pinned
  /\ faults + strays < MaxMishaps
  /\ strays' = strays + 1
  /\ Count(t)

\* A step of thread t is counted if it is on cpus[t].  Before it is pinned it is on CPU
\* 0 if main is, and anywhere if not.
Step(t) ==
  /\ at' = [at EXCEPT ![t] = @ + 1]
  /\ \/ place[t] = "pinned" /\ Count(t) /\ UNCHANGED strays
     \/ place[t] = "unpinned" /\ UNCHANGED <<pmc, strays>>
     \/ place[t] = "unpinned" /\ Stray(t)

Access(t) ==
  /\ Running(t) /\ t \in active
  /\ at[t] >= NCounters /\ at[t] < EndsAt
  /\ Step(t)
  /\ UNCHANGED <<passVars, mainVars, place, start, end, ok, faults, notRead>>

\* cpu_msr->read(counter_tbl[k].pmc, &store[k]), whose result is ignored: after
\* a failure store[k] is what it was.
ReadCounter(t, k, store, storeNext) ==
  \/ storeNext = [store EXCEPT ![t][k] = pmc[t]] /\ UNCHANGED <<ok, faults>>
  \/ /\ faults + strays < MaxMishaps
     /\ faults' = faults + 1
     /\ ok' = [ok EXCEPT ![t] = @ \ {k}]
     /\ storeNext = store

ReadStart_BugFirstPassOnly(t) ==
  /\ Running(t) /\ t \in active
  /\ at[t] < NCounters
  /\ IF rows[t] = 0 THEN ReadCounter(t, at[t], start, start') ELSE UNCHANGED <<start, ok, faults>>
  /\ Step(t)
  /\ UNCHANGED <<passVars, mainVars, place, end, notRead>>

ReadStart(t) ==
  /\ Running(t) /\ t \in active
  /\ at[t] < NCounters
  /\ ReadCounter(t, at[t], start, start')
  /\ Step(t)
  /\ UNCHANGED <<passVars, mainVars, place, end, notRead>>

ReadEnd(t) ==
  /\ Running(t) /\ t \in active
  /\ at[t] >= EndsAt /\ at[t] < PassLength
  /\ ReadCounter(t, at[t] - EndsAt, end, end')
  /\ Step(t)
  /\ UNCHANGED <<passVars, mainVars, place, start, notRead>>

\* The differences, as unsigned numbers, and counts++.
EndPass(t) ==
  /\ Running(t)
  /\ at[t] = PassLength
  /\ Runs!RecordRow(t)
  /\ values' = [values EXCEPT ![t] =
       Append(@, [delta |-> [k \in Counters |-> (end[t][k] - start[t][k]) % Word],
                  ok |-> ok[t], home |-> home[t], alone |-> alone[t]])]
  /\ UNCHANGED <<mainVars, place, pmc, at, start, end, ok, home, alone, times, faults,
                 strays>>

\* A null array kills the process.
Die(t) ==
  /\ Running(t)
  /\ Runs!Abort(t)
  /\ UNCHANGED <<mainVars, threadVars>>

\* Thread 1 waits for its turn, without an access to the array.
Spin(t) ==
  /\ Running(t)
  /\ ~Runs!HasTurn(t)
  /\ UNCHANGED vars

Return(t) ==
  /\ Running(t)
  /\ Runs!HasTurn(t)
  /\ t \notin active /\ rows[t] >= table[t].passes
  /\ place' = [place EXCEPT ![t] = "returned"]
  /\ UNCHANGED <<passVars, mainVars, pmc, measured>>

Thread(t) ==
  \/ BeginPass(t) \/ ReadStart(t) \/ Access(t) \/ ReadEnd(t) \/ EndPass(t)
  \/ Die(t) \/ Return(t)

\* Somebody else is counted on cpus[t]: main that has failed to pin itself and is not
\* asleep in a join, or the other thread before it is pinned, with whatever it does.
Intrude(t) ==
  /\ Alive
  /\ \/ ~(pc = "join" /\ place[i] # "returned")
     \/ \E u \in Threads \ {t} : place[u] = "unpinned"
  /\ t \in counting
  /\ Stray(t)
  /\ alone' = [alone EXCEPT ![t] = FALSE]
  /\ UNCHANGED <<passVars, mainVars, place, at, start, end, ok, home, values, times, faults>>

-----------------------------------------------------------------------------

Stopped == ~Alive /\ UNCHANGED vars

Next == Main \/ (\E t \in Threads : Thread(t) \/ Spin(t) \/ Intrude(t)) \/ Stopped

Spec ==
  /\ Init /\ [][Next]_vars
  /\ WF_vars(Main) /\ \A t \in Threads : WF_vars(Thread(t))

-----------------------------------------------------------------------------
(* Correctness. *)

Deltas == [Counters -> 0..(Word - 1)]

Row == [delta : Deltas, ok : SUBSET Counters, home : BOOLEAN, alone : BOOLEAN]

TypeOK ==
  /\ table \in FuncTables
  /\ active \subseteq Threads
  /\ rows \in [Threads -> Nat]
  /\ aborted \in BOOLEAN
  /\ pc \in Labels
  /\ i \in Threads
  /\ j \in Nat
  /\ counting \subseteq Threads /\ idle \subseteq Threads
  /\ pinned \in BOOLEAN
  /\ place \in [Threads -> Places]
  /\ pmc \in [Threads -> Nat]
  /\ at \in [Threads -> 0..PassLength]
  /\ start \in [Threads -> [Counters -> Nat]]
  /\ end \in [Threads -> [Counters -> Nat]]
  /\ ok \in [Threads -> SUBSET Counters]
  /\ home \in [Threads -> BOOLEAN] /\ alone \in [Threads -> BOOLEAN]
  /\ values \in [Threads -> Seq(Row)]
  /\ times \in [Threads -> Nat]
  /\ faults \in Nat /\ strays \in Nat
  /\ f \in {"NULL", "open"}
  /\ csv \in Seq([tid : Threads, delta : Deltas])

\* A pass that nobody else was counted in, which is every pass if main has pinned
\* itself, shows for each counter whose two reads succeeded at most its own accesses
\* and one round of reads, and exactly those, the same for all counters although they
\* are read one after the other, if it began on the CPU it is measured on: moving a
\* thread, ending the other one, reprogramming a counter or a failed read of another
\* counter or pass never falls between the two reads.
RowsExact ==
  \A t \in Threads : \A n \in DOMAIN values[t] : \A k \in values[t][n].ok :
    LET row == values[t][n] IN
      pinned \/ row.alone =>
        /\ row.delta[k] <= Accesses + NCounters
        /\ row.home => row.delta[k] = Accesses + NCounters

\* No counter is programmed, enabled or disabled while a thread could measure.
CountersUntouched ==
  [][(\E t \in Threads : Running(t)) => UNCHANGED counting]_vars

\* Seen from the counters main with its threads is a session, however the
\* threads end: it measures while all CPUs count, and a run that gets to the end
\* goes through the idle state of each of them.
ImplementsSession == Session!Spec

\* A run that gets to the end has written every row of both threads, thread 0's
\* first, each thread's in the order it measured them.
CsvComplete ==
  pc = "exited" =>
    LET RowsOf(t) == [n \in DOMAIN values[t] |-> [tid |-> t, delta |-> values[t][n].delta]]
    IN  /\ \A t \in Threads : Len(values[t]) = table[t].passes
        /\ csv = RowsOf(0) \o RowsOf(1)

\* A thread makes rows without a time.
Unstamped == \E t \in Threads : table[t].passes > 0 /\ ~table[t].stamps

\* How the process may end: main has returned, with the file written and the counters
\* of every CPU off, or a null array, a missing file or a row without a time killed it
\* and the counters of every CPU are still on.
Outcome ==
  \/ /\ pc = "exited" /\ ~aborted /\ f = "open" /\ counting = {}
     /\ ~Runs!Mispaired /\ ~Unstamped
  \/ counting = Threads /\ (aborted \/ (pc = "dead" /\ (f = "NULL" \/ Unstamped)))

\* The process ends in one of these ways.  With a table whose thread 1 waits for a
\* signal that thread 0 does not give, it may hang instead: main in the join of thread
\* 1, the rows of thread 0 in the file, and the counters counting on.
Ends ==
  <>[](\/ ~Alive /\ Outcome
       \/ /\ Runs!Mispaired /\ Alive
          /\ pc = "join" /\ i = 1 /\ Len(csv) = table[0].passes /\ counting = Threads)

\* The steps that main and the threads have left, at most.
MainSteps ==
  LET all  == table[0].passes + table[1].passes
      both == 2 * (2 - i)   \* two steps for each thread from thread i on
      rest == 6 + (IF i = 0 THEN table[1].passes + 2 ELSE 0)
  IN CASE pc = "self"      -> all + 14 + both
       [] pc = "configure" -> all + 13 + both
       [] pc = "enable"    -> all + 12 + both
       [] pc = "spawn"     -> all + 9 + both
       [] pc = "pin"       -> all + 8 + both
       [] pc = "fopen"     -> all + 9
       [] pc = "join"      -> rest + table[i].passes
       [] pc = "print"     -> rest + table[i].passes - j - 1
       [] pc = "fclose"    -> 4
       [] pc = "clean"     -> 3 - i
       [] pc = "delete"    -> 1
       [] pc \in Ended     -> 0

ThreadSteps(t) ==
  IF place[t] = "returned" THEN 0
  ELSE (table[t].passes - rows[t]) * (PassLength + 2) + 1
         - (IF t \in active THEN at[t] + 1 ELSE 0)

Work == MainSteps + ThreadSteps(0) + ThreadSteps(1) + (IF aborted THEN 0 ELSE 1)

\* Nobody runs in circles: whoever makes a step, other than a turn of the spin
\* loop or one of those of others that are counted, brings the end of the process
\* nearer.
Progress == [][(\E t \in Threads : Intrude(t)) \/ Work' < Work]_vars

\* So the process ends, or nobody can make another step.  It ends in one of the ways
\* of Outcome; and it hangs only in the join of a thread 1 that waits for a signal
\* thread 0 does not give, with thread 0's rows in the file and the counters on.
OnlyMispairedHangs ==
  /\ ~Alive => Outcome
  /\ MainAt("join") /\ place[i] # "returned"
     /\ (\A t \in Threads : place[t] = "returned" \/ ~Runs!HasTurn(t)) =>
       /\ Runs!Mispaired
       /\ i = 1 /\ Len(csv) = table[0].passes /\ counting = Threads

\* plots/iteration3/run_1_analysis.txt: "2 threads - 1 runs on core 1, another
\* on core 2".  A pass can begin before main has pinned the thread.
MeasuredOnOwnCpu ==
  \A t \in Threads : \A n \in DOMAIN values[t] : \A k \in Counters :
    values[t][n].delta[k] = Accesses + NCounters

\* main.cc:190: every row of the file has its TIME, at which plot_script.py:14 draws
\* it.  A function that pushes no times leaves main without one to write.
RowsHaveTime == MainAt("print") /\ j < rows[i] => j < times[i]
=============================================================================

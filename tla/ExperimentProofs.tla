--------------------------- MODULE ExperimentProofs ---------------------------
(***************************************************************************)
(* Theorems about Experiment, for every function table, number of counters,  *)
(* accesses per pass and failing reads.                                      *)
(***************************************************************************)
EXTENDS Experiment, SequenceTheorems, TLAPS

\* Where main is while the CPUs start, count, and stop.
Starting  == {"self", "configure", "enable"}
Measuring == {"spawn", "pin", "fopen", "join", "print", "fclose"}
Stopping  == {"clean", "delete"}

\* Where each thread can be, and what counts, when main is at a label.
PlaceInv ==
  /\ pc \in Starting => \A t \in Threads : place[t] = "unborn"
  /\ pc = "spawn" => \A t \in Threads : t >= i => place[t] = "unborn"
  /\ pc = "pin" => \A t \in Threads : t > i => place[t] = "unborn"
  /\ pc \in {"join", "print"} => \A t \in Threads : t < i => place[t] = "returned"
  /\ pc = "print" => place[i] = "returned"
  /\ pc \in {"fclose", "exited"} \union Stopping => \A t \in Threads : place[t] = "returned"

CountingInv ==
  /\ pc \in Starting => counting = {t \in Threads : t < i}
  /\ pc = "self" => i = 0
  /\ pc = "enable" => i \in idle
  /\ pc \in Measuring => counting = Threads
  /\ pc \in {"fopen", "fclose"} => i = 0
  /\ pc = "clean" => counting = {t \in Threads : t >= i} /\ {t \in Threads : t < i} \subseteq idle
  /\ pc \in {"delete", "exited"} => counting = {} /\ idle = Threads

\* Rows and passes.
RowInv ==
  \A t \in Threads :
    /\ rows[t] <= table[t].passes
    /\ Len(values[t]) = rows[t]
    /\ t \in active => rows[t] < table[t].passes /\ place[t] \in {"unpinned", "pinned"}
    /\ place[t] = "unborn" => rows[t] = 0
    /\ place[t] = "returned" => rows[t] = table[t].passes

\* In this pass of thread t nobody else has been counted on cpus[t].
Sole(t) == pinned \/ alone[t]

\* What thread t has read so far in its pass: counter k was read k steps after
\* the pass began, and again EndsAt steps later.
Read(t, k) ==
  /\ home[t] => place[t] = "pinned"
  /\ k < at[t] =>
       /\ start[t][k] <= pmc[t]
       /\ Sole(t) => pmc[t] <= start[t][k] + (at[t] - k)
       /\ home[t] /\ Sole(t) => pmc[t] = start[t][k] + (at[t] - k)
  /\ EndsAt + k < at[t] =>
       /\ start[t][k] <= end[t][k]
       /\ Sole(t) => end[t][k] <= start[t][k] + EndsAt
       /\ home[t] /\ Sole(t) => end[t][k] = start[t][k] + EndsAt

PassInv == \A t \in active : \A k \in ok[t] : Read(t, k)

\* The rows of thread 0 are in the file when main is at thread 1, and the first
\* j rows of the thread at which main is.
Printed(t) == [n \in DOMAIN values[t] |-> [tid |-> t, delta |-> values[t][n].delta]]

Before(t) == IF t = 0 THEN 0 ELSE rows[0]

InFile(t, m) == \A n \in 1..m : csv[Before(t) + n] = [tid |-> t, delta |-> values[t][n].delta]

CsvInv ==
  /\ pc \in Starting \union {"spawn", "pin", "fopen"} => csv = <<>>
  /\ pc = "join" => Len(csv) = Before(i)
  /\ pc = "print" => j <= rows[i] /\ Len(csv) = Before(i) + j /\ InFile(i, j)
  /\ pc \in {"join", "print"} /\ i = 1 => InFile(0, rows[0])
  /\ pc \in {"fclose", "exited"} \union Stopping =>
       Len(csv) = rows[0] + rows[1] /\ InFile(0, rows[0]) /\ InFile(1, rows[1])

IInv == TypeOK /\ PlaceInv /\ CountingInv /\ RowInv /\ PassInv /\ RowsExact /\ CsvInv

-----------------------------------------------------------------------------
(* Typing. *)

LEMMA Sizes ==
  /\ Accesses \in Nat /\ NCounters \in Nat /\ Word \in Nat /\ Word > 0
  /\ EndsAt \in Nat /\ EndsAt < Word /\ EndsAt = NCounters + Accesses
  /\ PassLength = EndsAt + NCounters /\ Uninit \in Nat
  BY ExperimentAssumption DEF EndsAt, PassLength

\* The uint64_t difference.
LEMMA Difference ==
  ASSUME NEW x \in Nat, NEW y \in Nat
  PROVE  /\ (y - x) % Word \in 0..(Word - 1)
         /\ x <= y /\ y <= x + EndsAt => (y - x) % Word = y - x
<1>1. y - x \in Int /\ Word \in Nat /\ Word > 0 /\ EndsAt < Word /\ EndsAt \in Nat
  BY Sizes
<1> QED BY <1>1

LEMMA NextThreadType ==
  ASSUME TypeOK, NEW l \in Labels, NEW m \in Labels, NextThread(l, m)
  PROVE  i' \in Threads /\ pc' \in Labels
  BY DEF NextThread, Threads, TypeOK

\* The part of TypeOK that arithmetic is about.
LEMMA Numbers ==
  ASSUME TypeOK, NEW t \in Threads
  PROVE  /\ at[t] \in Nat /\ at[t] <= PassLength
         /\ pmc[t] \in Nat /\ rows[t] \in Nat
         /\ \A k \in Counters : start[t][k] \in Nat /\ end[t][k] \in Nat
         /\ ok[t] \subseteq Counters
<1>1. at[t] \in 0..PassLength
  BY DEF TypeOK
<1>2. at[t] \in Nat /\ at[t] <= PassLength
  BY <1>1, Sizes
<1> QED BY <1>2 DEF TypeOK

LEMMA TypeInit == Init => TypeOK
<1> SUFFICES ASSUME Init PROVE TypeOK
  OBVIOUS
<1>1. aborted \in BOOLEAN
  BY DEF Init, Runs!Init
<1>2. table \in FuncTables /\ active \subseteq Threads /\ rows \in [Threads -> Nat]
  BY DEF Init, Runs!Init
<1>3. pc \in Labels /\ i \in Threads /\ j \in Nat
  BY DEF Init, Labels, Threads
<1>4. counting \subseteq Threads /\ idle \subseteq Threads /\ place \in [Threads -> Places]
  BY DEF Init, Places
<1>5. /\ start \in [Threads -> [Counters -> Nat]] /\ end \in [Threads -> [Counters -> Nat]]
      /\ pmc \in [Threads -> Nat] /\ at \in [Threads -> 0..PassLength]
  BY Sizes DEF Init
<1>6. /\ home \in [Threads -> BOOLEAN] /\ alone \in [Threads -> BOOLEAN] /\ pinned \in BOOLEAN
      /\ times \in [Threads -> Nat] /\ strays \in Nat
  BY DEF Init
<1>7. /\ ok \in [Threads -> SUBSET Counters] /\ values \in [Threads -> Seq(Row)]
      /\ faults \in Nat /\ f \in {"NULL", "open"} /\ csv \in Seq([tid : Threads, delta : Deltas])
  BY DEF Init
<1> QED BY <1>1, <1>2, <1>3, <1>4, <1>5, <1>6, <1>7 DEF TypeOK

LEMMA TypeMain == ASSUME TypeOK, RowInv, Main PROVE TypeOK'
<1> USE DEF TypeOK, MainAt, passVars, mainVars, threadVars, measured, notRead
<1>0. CASE PinMain
  BY <1>0 DEF PinMain, Labels
<1>1. CASE Clear
  <2>1. counting' \subseteq Threads /\ idle' \subseteq Threads
    BY <1>1 DEF Clear, Session!Clear
  <2> QED BY <1>1, <2>1 DEF Clear, Labels
<1>2. CASE Start
  <2>1. counting' \subseteq Threads /\ idle' \subseteq Threads
    BY <1>2 DEF Start, Session!Start
  <2>2. i' \in Threads /\ pc' \in Labels
    BY <1>2, NextThreadType DEF Start, Labels
  <2> QED BY <1>2, <2>1, <2>2 DEF Start
<1>3. CASE Spawn
  BY <1>3 DEF Spawn, Labels, Places
<1>4. CASE Pin
  <2>1. i' \in Threads /\ pc' \in Labels
    BY <1>4, NextThreadType DEF Pin, Labels
  <2>2. place' \in [Threads -> Places]
    BY <1>4 DEF Pin, Places
  <2> QED BY <1>4, <2>1, <2>2 DEF Pin
<1>5. CASE OpenCsv
  BY <1>5, ExperimentAssumption DEF OpenCsv, Labels
<1>6. CASE Join
  BY <1>6 DEF Join, Labels
<1>7. CASE PrintRow
  <2>1. CASE f = "NULL" \/ j >= times[i]
    BY <1>7, <2>1 DEF PrintRow, Labels, Ended
  <2>2. CASE ~(f = "NULL" \/ j >= times[i])
    <3>1. j + 1 \in DOMAIN values[i]
      <4>1. j \in Nat /\ j < rows[i] /\ rows[i] \in Nat /\ i \in Threads
        BY <1>7 DEF PrintRow
      <4>2. Len(values[i]) = rows[i] /\ values[i] \in Seq(Row)
        BY <4>1 DEF RowInv
      <4> QED BY <4>1, <4>2
    <3>2. values[i][j + 1] \in Row
      BY <3>1
    <3>3. values[i][j + 1].delta \in Deltas
      BY <3>2 DEF Row
    <3>4. [tid |-> i, delta |-> values[i][j + 1].delta] \in [tid : Threads, delta : Deltas]
      BY <3>3
    <3>5. csv' \in Seq([tid : Threads, delta : Deltas])
      <4>1. csv' = Append(csv, [tid |-> i, delta |-> values[i][j + 1].delta])
        BY <1>7, <2>2 DEF PrintRow
      <4> QED BY <3>4, <4>1, AppendProperties
    <3>6. j' \in Nat
      BY <1>7, <2>2 DEF PrintRow
    <3> QED BY <1>7, <2>2, <3>5, <3>6 DEF PrintRow
  <2> QED BY <2>1, <2>2
<1>8. CASE RowsPrinted
  <2>1. i' \in Threads /\ pc' \in Labels
    BY <1>8, NextThreadType DEF RowsPrinted, Labels
  <2> QED BY <1>8, <2>1 DEF RowsPrinted
<1>9. CASE CloseCsv
  BY <1>9 DEF CloseCsv, Labels, Ended
<1>10. CASE SwitchOff
  <2>1. counting' \subseteq Threads /\ idle' \subseteq Threads
    BY <1>10 DEF SwitchOff, Session!Clear
  <2>2. i' \in Threads /\ pc' \in Labels
    BY <1>10, NextThreadType DEF SwitchOff, Labels
  <2> QED BY <1>10, <2>1, <2>2 DEF SwitchOff
<1>11. CASE DeleteHandles
  BY <1>11 DEF DeleteHandles, Labels, Ended
<1> QED
  BY <1>0, <1>1, <1>2, <1>3, <1>4, <1>5, <1>6, <1>7, <1>8, <1>9, <1>10, <1>11 DEF Main

\* A read of counter k, into either array.
LEMMA ReadType ==
  ASSUME TypeOK, NEW t \in Threads, NEW k \in Counters,
         NEW store \in [Threads -> [Counters -> Nat]], NEW storeNext,
         ReadCounter(t, k, store, storeNext)
  PROVE  /\ storeNext \in [Threads -> [Counters -> Nat]]
         /\ ok' \in [Threads -> SUBSET Counters] /\ faults' \in Nat
<1>1. pmc[t] \in Nat /\ faults \in Nat /\ ok \in [Threads -> SUBSET Counters]
  BY DEF TypeOK
<1> HIDE DEF TypeOK
<1>2. CASE storeNext = [store EXCEPT ![t][k] = pmc[t]] /\ UNCHANGED <<ok, faults>>
  BY <1>1, <1>2
<1>3. CASE /\ faults' = faults + 1
           /\ ok' = [ok EXCEPT ![t] = @ \ {k}]
           /\ storeNext = store
  BY <1>1, <1>3
<1> QED BY <1>2, <1>3 DEF ReadCounter

\* A step that is counted, and one that goes astray.
LEMMA CountType ==
  ASSUME TypeOK, NEW t \in Threads
  PROVE  /\ Count(t) => pmc' \in [Threads -> Nat] /\ pmc'[t] >= pmc[t]
         /\ Stray(t) => pmc' \in [Threads -> Nat] /\ pmc'[t] >= pmc[t] /\ strays' \in Nat
<1>1. pmc \in [Threads -> Nat] /\ strays \in Nat
  BY DEF TypeOK
<1>2. Count(t) => pmc' \in [Threads -> Nat] /\ pmc'[t] >= pmc[t]
  BY <1>1 DEF Count
<1>3. Stray(t) => strays' \in Nat /\ Count(t)
  BY <1>1 DEF Stray
<1> QED BY <1>2, <1>3

LEMMA StepType ==
  ASSUME TypeOK, NEW t \in Threads, Step(t), at[t] < PassLength
  PROVE  /\ at' \in [Threads -> 0..PassLength] /\ pmc' \in [Threads -> Nat]
         /\ strays' \in Nat
<1>1. /\ at \in [Threads -> 0..PassLength] /\ at' = [at EXCEPT ![t] = @ + 1]
      /\ pmc \in [Threads -> Nat] /\ strays \in Nat
  BY DEF Step, TypeOK
<1>2. at' \in [Threads -> 0..PassLength]
  BY <1>1, Sizes
<1>3. pmc' \in [Threads -> Nat] /\ strays' \in Nat
  BY <1>1, CountType DEF Step
<1> QED BY <1>2, <1>3

LEMMA TypeThread == ASSUME TypeOK, NEW t \in Threads, Thread(t) PROVE TypeOK'
<1> USE DEF passVars, mainVars, threadVars, measured, notRead
<1>1. CASE BeginPass(t)
  <2>1. /\ at' \in [Threads -> 0..PassLength] /\ ok' \in [Threads -> SUBSET Counters]
        /\ active' \subseteq Threads
    BY <1>1, Sizes DEF BeginPass, Runs!BeginPass, TypeOK
  <2>2. home' \in [Threads -> BOOLEAN] /\ alone' \in [Threads -> BOOLEAN]
        /\ times' \in [Threads -> Nat]
    BY <1>1 DEF BeginPass, TypeOK
  <2> QED BY <1>1, <2>1, <2>2 DEF BeginPass, Runs!BeginPass, TypeOK
<1>2. CASE ReadStart(t)
  <2>1. at[t] \in Counters /\ at[t] < PassLength
    BY <1>2, Sizes, Numbers DEF ReadStart, Counters
  <2>2. at' \in [Threads -> 0..PassLength] /\ pmc' \in [Threads -> Nat] /\ strays' \in Nat
    BY <1>2, <2>1, StepType DEF ReadStart
  <2>3. /\ start' \in [Threads -> [Counters -> Nat]]
        /\ ok' \in [Threads -> SUBSET Counters] /\ faults' \in Nat
    BY <1>2, <2>1, ReadType DEF ReadStart, TypeOK
  <2> QED BY <1>2, <2>2, <2>3 DEF ReadStart, TypeOK
<1>3. CASE Access(t)
  <2>1. at' \in [Threads -> 0..PassLength] /\ pmc' \in [Threads -> Nat] /\ strays' \in Nat
    BY <1>3, StepType, Sizes, Numbers DEF Access
  <2> QED BY <1>3, <2>1 DEF Access, TypeOK
<1>4. CASE ReadEnd(t)
  <2>1. at[t] - EndsAt \in Counters
    BY <1>4, Sizes, Numbers DEF ReadEnd, Counters
  <2>2. at' \in [Threads -> 0..PassLength] /\ pmc' \in [Threads -> Nat] /\ strays' \in Nat
    BY <1>4, StepType DEF ReadEnd
  <2>3. /\ end' \in [Threads -> [Counters -> Nat]]
        /\ ok' \in [Threads -> SUBSET Counters] /\ faults' \in Nat
    BY <1>4, <2>1, ReadType DEF ReadEnd, TypeOK
  <2> QED BY <1>4, <2>2, <2>3 DEF ReadEnd, TypeOK
<1>5. CASE EndPass(t)
  <2> DEFINE d == [k \in Counters |-> (end[t][k] - start[t][k]) % Word]
             r == [delta |-> d, ok |-> ok[t], home |-> home[t], alone |-> alone[t]]
  <2>1. \A k \in Counters : start[t][k] \in Nat /\ end[t][k] \in Nat
    BY DEF TypeOK
  <2>2. d \in Deltas
    BY <2>1, Difference DEF Deltas
  <2>3. r \in Row
    <3>1. home[t] \in BOOLEAN /\ alone[t] \in BOOLEAN /\ ok[t] \subseteq Counters
      BY DEF TypeOK
    <3> HIDE DEF d
    <3> QED BY <2>2, <3>1 DEF Row
  <2>4. values' = [values EXCEPT ![t] = Append(values[t], r)]
    BY <1>5 DEF EndPass
  <2>5. Append(values[t], r) \in Seq(Row)
    <3> HIDE DEF r
    <3> QED BY <2>3, AppendProperties DEF TypeOK
  <2>6. values' \in [Threads -> Seq(Row)]
    <3> HIDE DEF r
    <3> QED BY <2>4, <2>5 DEF TypeOK
  <2>7. active' \subseteq Threads /\ rows' \in [Threads -> Nat]
    BY <1>5 DEF EndPass, Runs!RecordRow, TypeOK
  <2> QED BY <1>5, <2>6, <2>7 DEF EndPass, Runs!RecordRow, TypeOK
<1>6. CASE Die(t)
  <2>1. aborted' \in BOOLEAN
    BY <1>6 DEF Die, Runs!Abort
  <2> QED BY <1>6, <2>1 DEF Die, Runs!Abort, TypeOK
<1>7. CASE Return(t)
  <2>1. place' \in [Threads -> Places]
    BY <1>7 DEF Return, TypeOK, Places
  <2> QED BY <1>7, <2>1 DEF Return, TypeOK
<1> QED BY <1>1, <1>2, <1>3, <1>4, <1>5, <1>6, <1>7 DEF Thread

LEMMA TypeIntrude == ASSUME TypeOK, NEW t \in Threads, Intrude(t) PROVE TypeOK'
<1>1. alone' \in [Threads -> BOOLEAN] /\ pmc' \in [Threads -> Nat] /\ strays' \in Nat
  BY CountType DEF Intrude, TypeOK
<1> QED BY <1>1 DEF Intrude, passVars, mainVars, TypeOK

LEMMA TypeStay == TypeOK /\ UNCHANGED vars => TypeOK'
  BY DEF TypeOK, vars, passVars, mainVars, threadVars, measured, notRead

-----------------------------------------------------------------------------
(* Where main and the threads are. *)

\* The loops of main over the two threads.
LEMMA NextThreadIs ==
  ASSUME TypeOK, NEW l, NEW m, NextThread(l, m)
  PROVE  \/ i = 0 /\ i' = 1 /\ pc' = l
         \/ i = 1 /\ i' = 0 /\ pc' = m
  BY DEF NextThread, Threads, TypeOK

\* Threads run only while all CPUs count.
LEMMA RunningWhenMeasuring ==
  ASSUME TypeOK, PlaceInv, CountingInv, NEW t \in Threads, Running(t)
  PROVE  pc \in Measuring /\ counting = Threads
<1>1. pc \in Labels /\ pc \notin Ended /\ place[t] # "unborn" /\ place[t] # "returned"
  BY DEF Running, Alive, TypeOK
<1>2. pc \in Measuring
  BY <1>1 DEF PlaceInv, Starting, Measuring, Stopping, Labels, Ended
<1> QED BY <1>2 DEF CountingInv

LEMMA PlaceMain == ASSUME TypeOK, PlaceInv, CountingInv, Main PROVE PlaceInv'
<1> USE DEF PlaceInv, MainAt, threadVars, Starting, Stopping
<1>0. CASE PinMain
  BY <1>0 DEF PinMain
<1>1. CASE Clear
  BY <1>1 DEF Clear
<1>2. CASE Start
  BY <1>2, NextThreadIs DEF Start, Threads
<1>3. CASE Spawn
  <2>1. pc = "spawn" /\ pc' = "pin" /\ i' = i /\ i \in {0, 1}
    BY <1>3 DEF Spawn, TypeOK, Threads
  <2>2. \A t \in Threads : t > i => place'[t] = place[t]
    <3>1. place' = [place EXCEPT ![i] = "unpinned"] /\ place \in [Threads -> Places]
      BY <1>3 DEF Spawn, TypeOK
    <3>2. \A t \in Threads : t > i => t # i
      BY <2>1 DEF Threads
    <3> QED BY <3>1, <3>2
  <2> QED BY <2>1, <2>2 DEF Threads
<1>4. CASE Pin
  <2>1. pc = "pin" /\ NextThread("spawn", "fopen")
    BY <1>4 DEF Pin
  <2>2. \/ i = 0 /\ i' = 1 /\ pc' = "spawn"
        \/ i = 1 /\ i' = 0 /\ pc' = "fopen"
    BY <2>1, NextThreadIs
  <2>3. \A t \in Threads : t # i => place'[t] = place[t]
    BY <1>4 DEF Pin, TypeOK
  <2>4. pc' = "spawn" => place'[1] = "unborn"
    BY <2>1, <2>2, <2>3 DEF Threads
  <2> QED BY <2>2, <2>4 DEF Threads
<1>5. CASE OpenCsv
  BY <1>5 DEF OpenCsv, CountingInv, Threads
<1>6. CASE Join
  BY <1>6 DEF Join
<1>7. CASE PrintRow
  BY <1>7 DEF PrintRow
<1>8. CASE RowsPrinted
  BY <1>8, NextThreadIs DEF RowsPrinted, Threads
<1>9. CASE CloseCsv
  BY <1>9 DEF CloseCsv
<1>10. CASE SwitchOff
  BY <1>10, NextThreadIs DEF SwitchOff
<1>11. CASE DeleteHandles
  BY <1>11 DEF DeleteHandles
<1> QED
  BY <1>0, <1>1, <1>2, <1>3, <1>4, <1>5, <1>6, <1>7, <1>8, <1>9, <1>10, <1>11 DEF Main

LEMMA PlaceThread ==
  ASSUME TypeOK, PlaceInv, NEW t \in Threads, Thread(t)
  PROVE  PlaceInv'
<1>1. pc' = pc /\ i' = i /\ Running(t)
  BY DEF Thread, BeginPass, ReadStart, Access, ReadEnd, EndPass, Die, Return, mainVars
<1>2. place' = place \/ place' = [place EXCEPT ![t] = "returned"]
  BY DEF Thread, BeginPass, ReadStart, Access, ReadEnd, EndPass, Die, Return, threadVars
<1>3. place[t] # "unborn"
  BY <1>1 DEF Running
<1> QED BY <1>1, <1>2, <1>3 DEF PlaceInv, TypeOK

LEMMA CountingMain == ASSUME TypeOK, CountingInv, Main PROVE CountingInv'
<1> USE DEF CountingInv, MainAt, Starting, Measuring
<1>0. CASE PinMain
  BY <1>0 DEF PinMain
<1>1. CASE Clear
  BY <1>1 DEF Clear, Session!Clear, Threads
<1>2. CASE Start
  <2>1. counting' = counting \union {i}
    BY <1>2 DEF Start, Session!Start
  <2> QED BY <1>2, <2>1, NextThreadIs DEF Start, Threads
<1>3. CASE Spawn
  BY <1>3 DEF Spawn
<1>4. CASE Pin
  BY <1>4, NextThreadIs DEF Pin
<1>5. CASE OpenCsv
  BY <1>5 DEF OpenCsv
<1>6. CASE Join
  BY <1>6 DEF Join
<1>7. CASE PrintRow
  BY <1>7 DEF PrintRow
<1>8. CASE RowsPrinted
  BY <1>8, NextThreadIs DEF RowsPrinted
<1>9. CASE CloseCsv
  <2>1. /\ pc = "fclose" /\ pc' \in {"clean", "dead"}
        /\ i = 0 /\ i' = 0 /\ counting = Threads /\ counting' = counting
    BY <1>9 DEF CloseCsv
  <2> QED BY <2>1 DEF Threads
<1>10. CASE SwitchOff
  <2>1. counting' = counting \ {i} /\ i \in idle' /\ idle \subseteq idle' /\ idle' \subseteq Threads
    BY <1>10 DEF SwitchOff, Session!Clear, TypeOK
  <2>2. /\ pc = "clean"
        /\ \/ i = 0 /\ i' = 1 /\ pc' = "clean"
           \/ i = 1 /\ i' = 0 /\ pc' = "delete"
    BY <1>10, NextThreadIs DEF SwitchOff
  <2>3. counting = {t \in Threads : t >= i} /\ {t \in Threads : t < i} \subseteq idle
    BY <2>2
  <2>4. CASE i = 0
    <3>1. counting' = {1} /\ 0 \in idle'
      BY <2>1, <2>3, <2>4 DEF Threads
    <3> QED BY <2>2, <2>4, <3>1 DEF Threads
  <2>5. CASE i = 1
    <3>1. counting' = {} /\ idle' = Threads
      <4>1. counting' = {}
        BY <2>1, <2>3, <2>5 DEF Threads
      <4>2. 0 \in idle' /\ 1 \in idle'
        BY <2>1, <2>3, <2>5 DEF Threads
      <4> QED BY <2>1, <4>1, <4>2 DEF Threads
    <3> QED BY <2>2, <2>5, <3>1
  <2> QED BY <2>2, <2>4, <2>5
<1>11. CASE DeleteHandles
  BY <1>11 DEF DeleteHandles
<1> QED
  BY <1>0, <1>1, <1>2, <1>3, <1>4, <1>5, <1>6, <1>7, <1>8, <1>9, <1>10, <1>11 DEF Main

LEMMA CountingThread == ASSUME CountingInv, NEW t \in Threads, Thread(t) PROVE CountingInv'
<1>1. UNCHANGED mainVars
  BY DEF Thread, BeginPass, ReadStart, Access, ReadEnd, EndPass, Die, Return
<1> QED BY <1>1 DEF mainVars, CountingInv

-----------------------------------------------------------------------------
(* Rows and passes. *)

LEMMA PassesNat == ASSUME TypeOK, NEW t \in Threads PROVE table[t].passes \in Nat
<1>1. table \in [Threads -> [passes : Nat, handoff : BOOLEAN, stamps : BOOLEAN]]
  BY ExperimentAssumption DEF TypeOK
<1> QED BY <1>1

LEMMA RowMain == ASSUME TypeOK, PlaceInv, RowInv, Main PROVE RowInv'
<1>1. UNCHANGED <<table, active, rows, values>>
  BY DEF Main, PinMain, Clear, Start, Spawn, Pin, OpenCsv, Join, PrintRow, RowsPrinted, CloseCsv, SwitchOff,
         DeleteHandles, passVars, threadVars, measured, notRead
<1>2. \A t \in Threads :
        \/ place'[t] = place[t]
        \/ place[t] = "unborn" /\ place'[t] = "unpinned"
        \/ place'[t] = "pinned"
  <2>1. CASE Spawn
    <3>1. place' = [place EXCEPT ![i] = "unpinned"] /\ pc = "spawn"
      BY <2>1 DEF Spawn, MainAt
    <3>2. i \in Threads /\ i >= i /\ place \in [Threads -> Places]
      BY DEF TypeOK, Threads
    <3>3. place[i] = "unborn"
      BY <3>1, <3>2 DEF PlaceInv
    <3> QED BY <3>1, <3>2, <3>3
  <2>2. CASE Pin
    BY <2>2 DEF Pin, TypeOK
  <2>3. CASE ~Spawn /\ ~Pin
    BY <2>3 DEF Main, PinMain, Clear, Start, OpenCsv, Join, PrintRow, RowsPrinted, CloseCsv, SwitchOff,
           DeleteHandles, threadVars
  <2> QED BY <2>1, <2>2, <2>3
<1> QED BY <1>1, <1>2 DEF RowInv

LEMMA RowThread ==
  ASSUME TypeOK, RowInv, NEW t \in Threads, Thread(t)
  PROVE  RowInv'
<1> USE DEF passVars, threadVars, measured, notRead
<1>1. CASE ReadStart(t) \/ Access(t) \/ ReadEnd(t) \/ Die(t)
  <2>1. UNCHANGED <<table, active, rows, values, place>>
    BY <1>1 DEF ReadStart, Access, ReadEnd, Die, Runs!Abort
  <2> QED BY <2>1 DEF RowInv
<1>2. CASE BeginPass(t)
  <2>1. UNCHANGED <<table, rows, values, place>>
    BY <1>2 DEF BeginPass, Runs!BeginPass
  <2>2. active' = active \union {t} /\ rows[t] < table[t].passes /\ place[t] \in {"unpinned", "pinned"}
    BY <1>2 DEF BeginPass, Runs!BeginPass, Running
  <2> QED BY <2>1, <2>2 DEF RowInv
<1>3. CASE EndPass(t)
  <2>1. PICK r : values' = [values EXCEPT ![t] = Append(values[t], r)]
    BY <1>3 DEF EndPass
  <2>2. /\ UNCHANGED <<table, place>>
        /\ t \in active /\ active' = active \ {t} /\ rows' = [rows EXCEPT ![t] = rows[t] + 1]
    BY <1>3 DEF EndPass, Runs!RecordRow
  <2>3. values[t] \in Seq(Row) /\ rows[t] \in Nat /\ table[t].passes \in Nat
    BY PassesNat, Numbers DEF TypeOK
  <2>4. values'[t] = Append(values[t], r) /\ rows'[t] = rows[t] + 1
    BY <2>1, <2>2 DEF TypeOK
  <2>5. Len(values[t]) = rows[t] /\ rows[t] < table[t].passes /\ place[t] \in {"unpinned", "pinned"}
    BY <2>2 DEF RowInv
  <2>6. Len(Append(values[t], r)) = Len(values[t]) + 1
    BY <2>3
  <2>7. \A u \in Threads \ {t} : values'[u] = values[u] /\ rows'[u] = rows[u]
    BY <2>1, <2>2 DEF TypeOK
  <2>8. rows[t] + 1 <= table[t].passes
    <3>1. rows[t] < table[t].passes /\ rows[t] \in Nat /\ table[t].passes \in Nat
      BY <2>3, <2>5
    <3> QED BY <3>1
  <2>9. rows'[t] <= table'[t].passes /\ Len(values'[t]) = rows'[t]
    BY <2>2, <2>4, <2>5, <2>6, <2>8
  <2>10. t \notin active' /\ place'[t] # "returned"
    BY <2>2, <2>5
  <2> QED BY <2>2, <2>7, <2>9, <2>10 DEF RowInv
<1>4. CASE Return(t)
  <2>1. /\ UNCHANGED <<table, active, rows, values>>
        /\ place' = [place EXCEPT ![t] = "returned"]
        /\ t \notin active /\ rows[t] >= table[t].passes
    BY <1>4 DEF Return
  <2>2. rows[t] <= table[t].passes /\ table[t].passes \in Nat /\ rows[t] \in Nat
    BY PassesNat, Numbers DEF RowInv
  <2>3. rows[t] = table[t].passes
    BY <2>1, <2>2
  <2> QED BY <2>1, <2>3 DEF RowInv, TypeOK
<1> QED BY <1>1, <1>2, <1>3, <1>4 DEF Thread

-----------------------------------------------------------------------------
(* What has been read in a pass. *)

LEMMA PassMain ==
  ASSUME TypeOK, PlaceInv, CountingInv, RowInv, PassInv, Main
  PROVE  PassInv'
<1>1. UNCHANGED <<active, at, start, end, ok, home, alone>>
  BY DEF Main, PinMain, Clear, Start, Spawn, Pin, OpenCsv, Join, PrintRow, RowsPrinted, CloseCsv, SwitchOff,
         DeleteHandles, passVars, threadVars, measured, notRead
<1>2. ASSUME NEW t \in active
      PROVE  /\ pmc'[t] = pmc[t] /\ pinned' = pinned
             /\ place[t] = "pinned" => place'[t] = "pinned"
  <2>1. t \in Threads /\ place[t] \in {"unpinned", "pinned"}
    BY <1>2 DEF TypeOK, RowInv
  <2>2. CASE Clear \/ SwitchOff
    <3>1. pc \in Starting \union Stopping
      BY <2>2 DEF Clear, SwitchOff, MainAt, Starting, Stopping
    <3> QED BY <2>1, <3>1 DEF PlaceInv
  <2>0. CASE PinMain
    <3>1. pc \in Starting
      BY <2>0 DEF PinMain, MainAt, Starting
    <3> QED BY <2>1, <3>1 DEF PlaceInv
  <2>3. CASE Spawn
    <3>1. /\ place' = [place EXCEPT ![i] = "unpinned"] /\ pc = "spawn"
          /\ pmc' = pmc /\ pinned' = pinned
      BY <2>3 DEF Spawn, MainAt
    <3>2. i \in Threads /\ i >= i
      BY DEF TypeOK, Threads
    <3>3. place[i] = "unborn"
      BY <3>1, <3>2 DEF PlaceInv
    <3>4. t # i
      BY <2>1, <3>3
    <3> QED BY <2>1, <3>1, <3>4 DEF TypeOK
  <2>4. CASE Pin
    BY <2>1, <2>4 DEF Pin, TypeOK
  <2>5. CASE ~PinMain /\ ~Clear /\ ~SwitchOff /\ ~Spawn /\ ~Pin
    BY <2>5 DEF Main, Start, OpenCsv, Join, PrintRow, RowsPrinted, CloseCsv,
           DeleteHandles, threadVars
  <2> QED BY <2>0, <2>2, <2>3, <2>4, <2>5
<1> QED BY <1>1, <1>2 DEF PassInv, Read, Sole

\* A step of thread t, with what it counts.
LEMMA StepCounts ==
  ASSUME TypeOK, PlaceInv, CountingInv, PassInv, NEW t \in Threads, Running(t), t \in active, Step(t)
  PROVE  /\ at'[t] = at[t] + 1
         /\ pmc'[t] \in {pmc[t], pmc[t] + 1}
         /\ place[t] = "pinned" => pmc'[t] = pmc[t] + 1
         /\ \A u \in Threads \ {t} : at'[u] = at[u] /\ pmc'[u] = pmc[u]
<1>1. t \in counting
  BY RunningWhenMeasuring
<1>2. at \in [Threads -> 0..PassLength] /\ pmc \in [Threads -> Nat]
  BY DEF TypeOK
<1> QED BY <1>1, <1>2 DEF Step, Stray, Count

LEMMA PassThread ==
  ASSUME TypeOK, PlaceInv, CountingInv, RowInv, PassInv, NEW t \in Threads, Thread(t)
  PROVE  PassInv'
<1> USE DEF passVars, mainVars, threadVars, measured, notRead
<1>1. CASE BeginPass(t)
  <2>1. /\ active' = active \union {t} /\ UNCHANGED <<place, pmc, start, end, pinned>>
        /\ alone' = [alone EXCEPT ![t] = TRUE]
        /\ at' = [at EXCEPT ![t] = 0] /\ ok' = [ok EXCEPT ![t] = Counters]
        /\ home' = [home EXCEPT ![t] = place[t] = "pinned"]
    BY <1>1 DEF BeginPass, Runs!BeginPass
  <2>2. at'[t] = 0 /\ ok'[t] = Counters /\ (home'[t] => place[t] = "pinned")
    BY <2>1 DEF TypeOK
  <2>3. \A k \in Counters : ~(k < 0) /\ ~(EndsAt + k < 0)
    BY Sizes DEF Counters
  <2>4. \A u \in Threads \ {t} :
          at'[u] = at[u] /\ ok'[u] = ok[u] /\ home'[u] = home[u] /\ alone'[u] = alone[u]
    BY <2>1 DEF TypeOK
  <2>5. active \subseteq Threads
    BY DEF TypeOK
  <2>6. \A k \in ok'[t] : Read(t, k)'
    BY <2>1, <2>2, <2>3 DEF Read
  <2>7. \A u \in active \ {t} : \A k \in ok'[u] : Read(u, k)'
    BY <2>1, <2>4, <2>5 DEF PassInv, Read, Sole
  <2> QED BY <2>1, <2>6, <2>7 DEF PassInv
<1>2. CASE ReadStart(t) \/ Access(t) \/ ReadEnd(t)
  <2>1. Running(t) /\ t \in active /\ Step(t) /\ UNCHANGED <<active, place, home, alone, pinned>>
    BY <1>2 DEF ReadStart, Access, ReadEnd
  <2>2. /\ at'[t] = at[t] + 1
        /\ pmc'[t] \in {pmc[t], pmc[t] + 1}
        /\ place[t] = "pinned" => pmc'[t] = pmc[t] + 1
        /\ \A u \in Threads \ {t} : at'[u] = at[u] /\ pmc'[u] = pmc[u]
    BY <2>1, StepCounts
  <2>3. active \subseteq Threads
    BY DEF TypeOK
  <2>4. \A u \in Threads \ {t} : start'[u] = start[u] /\ end'[u] = end[u] /\ ok'[u] = ok[u]
    BY <1>2 DEF ReadStart, Access, ReadEnd, ReadCounter, TypeOK
  <2>5. ok'[t] \subseteq ok[t] /\ ok[t] \subseteq Counters
    BY <1>2 DEF ReadStart, Access, ReadEnd, ReadCounter, TypeOK
  <2>6. /\ at[t] \in Nat /\ at[t] <= PassLength /\ pmc[t] \in Nat
        /\ \A k \in Counters : start[t][k] \in Nat /\ end[t][k] \in Nat
    BY Numbers
  <2>7. ASSUME NEW k \in ok'[t]
        PROVE  Read(t, k)'
    <3>1. k \in ok[t] /\ k \in Counters /\ k \in Nat /\ k < NCounters
      BY <2>5, <2>7, Sizes DEF Counters
    <3>2. Read(t, k)
      BY <2>1, <3>1 DEF PassInv
    <3> USE DEF Read, Sole
    <3>3. start[t][k] \in Nat /\ end[t][k] \in Nat
      BY <2>6, <3>1
    <3>4. /\ home'[t] = home[t] /\ place'[t] = place[t] /\ alone'[t] = alone[t]
          /\ pinned' = pinned
      BY <2>1
    <3>5. CASE Access(t)
      <4>1. start' = start /\ end' = end /\ at[t] >= NCounters /\ at[t] < EndsAt
        BY <3>5 DEF Access
      <4> QED BY <2>2, <2>6, <3>1, <3>2, <3>3, <3>4, <4>1, Sizes
    <3>6. CASE ReadStart(t)
      <4>1. end' = end /\ at[t] < NCounters
        BY <3>6 DEF ReadStart
      <4>2. CASE k = at[t]
        <5>1. start'[t][k] = pmc[t]
          BY <2>7, <3>1, <3>6, <4>2 DEF ReadStart, ReadCounter, TypeOK
        <5> QED BY <2>2, <2>6, <3>1, <3>2, <3>3, <3>4, <4>1, <4>2, <5>1, Sizes
      <4>3. CASE k # at[t]
        <5>1. start'[t][k] = start[t][k]
          BY <3>6, <4>3 DEF ReadStart, ReadCounter, TypeOK
        <5>2. k < at'[t] => k < at[t]
          BY <2>2, <2>6, <3>1, <4>3
        <5> QED BY <2>2, <2>6, <3>1, <3>2, <3>3, <3>4, <4>1, <5>1, <5>2, Sizes
      <4> QED BY <4>2, <4>3
    <3>7. CASE ReadEnd(t)
      <4>1. start' = start /\ at[t] >= EndsAt /\ at[t] < PassLength
        BY <3>7 DEF ReadEnd
      <4>2. k < at[t]
        BY <2>6, <3>1, <4>1, Sizes
      <4>3. CASE EndsAt + k = at[t]
        <5>1. at[t] - EndsAt = k
          BY <2>6, <3>1, <4>3, Sizes
        <5>2. end'[t][k] = pmc[t]
          BY <2>7, <3>1, <3>7, <5>1 DEF ReadEnd, ReadCounter, TypeOK
        <5>3. at[t] - k = EndsAt
          BY <2>6, <3>1, <4>3, Sizes
        <5> QED BY <2>2, <2>6, <3>1, <3>2, <3>3, <3>4, <4>1, <4>2, <5>2, <5>3, Sizes
      <4>4. CASE EndsAt + k # at[t]
        <5>1. at[t] - EndsAt # k
          BY <2>6, <3>1, <4>4, Sizes
        <5>2. end'[t][k] = end[t][k]
          BY <3>7, <5>1 DEF ReadEnd, ReadCounter, TypeOK
        <5>3. EndsAt + k < at'[t] => EndsAt + k < at[t]
          BY <2>2, <2>6, <3>1, <4>4, Sizes
        <5> QED BY <2>2, <2>6, <3>1, <3>2, <3>3, <3>4, <4>1, <4>2, <5>2, <5>3, Sizes
      <4> QED BY <4>3, <4>4
    <3> QED BY <1>2, <3>5, <3>6, <3>7
  <2>8. \A u \in active \ {t} : \A k \in ok'[u] : Read(u, k)'
    BY <2>1, <2>2, <2>3, <2>4 DEF PassInv, Read, Sole
  <2> QED BY <2>1, <2>7, <2>8 DEF PassInv
<1>3. CASE EndPass(t)
  <2>1. active' = active \ {t} /\ UNCHANGED <<place, pmc, at, start, end, ok, home, alone, pinned>>
    BY <1>3 DEF EndPass, Runs!RecordRow
  <2> QED BY <2>1 DEF PassInv, Read, Sole
<1>4. CASE Die(t)
  <2>1. active' = active /\ UNCHANGED <<place, pmc, at, start, end, ok, home, alone, pinned>>
    BY <1>4 DEF Die, Runs!Abort
  <2> QED BY <2>1 DEF PassInv, Read, Sole
<1>5. CASE Return(t)
  <2>1. /\ t \notin active /\ place' = [place EXCEPT ![t] = "returned"]
        /\ UNCHANGED <<active, pmc, at, start, end, ok, home, alone, pinned>>
    BY <1>5 DEF Return
  <2>2. \A u \in active : place'[u] = place[u]
    BY <2>1 DEF TypeOK
  <2> QED BY <2>1, <2>2 DEF PassInv, Read, Sole
<1> QED BY <1>1, <1>2, <1>3, <1>4, <1>5 DEF Thread

\* A step of somebody else on cpus[t] may be one too many for the pass.
LEMMA PassIntrude ==
  ASSUME TypeOK, PassInv, NEW t \in Threads, Intrude(t)
  PROVE  PassInv'
<1>1. UNCHANGED <<active, place, at, start, end, ok, home, pinned>> /\ ~pinned
  BY DEF Intrude, Stray, passVars, mainVars
<1>2. alone' = [alone EXCEPT ![t] = FALSE] /\ alone \in [Threads -> BOOLEAN]
  BY DEF Intrude, TypeOK
<1>3. /\ pmc' \in [Threads -> Nat] /\ pmc'[t] >= pmc[t]
      /\ \A u \in Threads \ {t} : pmc'[u] = pmc[u]
  BY CountType DEF Intrude, Stray, Count, TypeOK
<1>4. active \subseteq Threads
  BY DEF TypeOK
<1>5. ASSUME NEW u \in active, NEW k \in ok[u] PROVE Read(u, k)'
  <2>1. Read(u, k) /\ u \in Threads
    BY <1>4 DEF PassInv
  <2>2. CASE u = t
    <3>1. ~Sole(u)'
      BY <1>1, <1>2, <2>2 DEF Sole
    <3>2. start[u][k] <= pmc[u] => start[u][k] <= pmc'[u]
      <4>1. start[u][k] \in Nat /\ pmc[u] \in Nat /\ pmc'[u] \in Nat
        BY <1>3, <2>1, Numbers DEF PassInv, TypeOK
      <4> QED BY <1>3, <2>2, <4>1
    <3> QED BY <1>1, <2>1, <3>1, <3>2 DEF Read
  <2>3. CASE u # t
    <3>1. Sole(u)' <=> Sole(u)
      BY <1>1, <1>2, <2>1, <2>3 DEF Sole
    <3> QED BY <1>1, <1>3, <2>1, <2>3, <3>1 DEF Read
  <2> QED BY <2>2, <2>3
<1> QED BY <1>1, <1>5 DEF PassInv

-----------------------------------------------------------------------------
(* The rows of one pass, and of all in the file. *)

\* When main pins itself there is no row yet.
LEMMA RowsMain == ASSUME TypeOK, PlaceInv, RowInv, RowsExact, Main PROVE RowsExact'
<1>1. values' = values
  BY DEF Main, PinMain, Clear, Start, Spawn, Pin, OpenCsv, Join, PrintRow, RowsPrinted, CloseCsv,
         SwitchOff, DeleteHandles, threadVars, measured, notRead
<1>2. CASE PinMain
  <2>1. \A t \in Threads : Len(values[t]) = 0 /\ values[t] \in Seq(Row)
    BY <1>2 DEF PinMain, MainAt, PlaceInv, Starting, RowInv, TypeOK
  <2>2. \A t \in Threads : values[t] = <<>>
    BY <2>1
  <2> QED BY <1>1, <2>2 DEF RowsExact
<1>3. CASE ~PinMain
  <2>1. pinned' = pinned
    BY <1>3 DEF Main, Clear, Start, Spawn, Pin, OpenCsv, Join, PrintRow, RowsPrinted, CloseCsv,
           SwitchOff, DeleteHandles
  <2> QED BY <1>1, <2>1 DEF RowsExact
<1> QED BY <1>2, <1>3

LEMMA RowsThread ==
  ASSUME TypeOK, PassInv, RowsExact, NEW t \in Threads, Thread(t)
  PROVE  RowsExact'
<1>1. CASE EndPass(t)
  <2> DEFINE r == [delta |-> [k \in Counters |-> (end[t][k] - start[t][k]) % Word],
                   ok |-> ok[t], home |-> home[t], alone |-> alone[t]]
  <2>1. values' = [values EXCEPT ![t] = Append(values[t], r)] /\ t \in active /\ at[t] = PassLength
    BY <1>1 DEF EndPass, Runs!RecordRow
  <2>2. ASSUME NEW k \in r.ok, pinned \/ r.alone
        PROVE  /\ r.delta[k] <= Accesses + NCounters
               /\ r.home => r.delta[k] = Accesses + NCounters
    <3>1. k \in ok[t] /\ k \in Counters /\ k \in Nat /\ k < NCounters
      BY <2>2, Numbers, Sizes DEF Counters
    <3>2. EndsAt + k < at[t]
      BY <2>1, <3>1, Sizes
    <3>3. /\ start[t][k] <= end[t][k] /\ end[t][k] <= start[t][k] + EndsAt
          /\ home[t] => end[t][k] = start[t][k] + EndsAt
      BY <2>1, <2>2, <3>1, <3>2 DEF PassInv, Read, Sole
    <3>4. start[t][k] \in Nat /\ end[t][k] \in Nat
      BY <3>1, Numbers
    <3>5. r.delta[k] = end[t][k] - start[t][k]
      BY <3>1, <3>3, <3>4, Difference
    <3> HIDE DEF r
    <3>6. r.delta[k] <= EndsAt /\ (home[t] => r.delta[k] = EndsAt)
      BY <3>3, <3>4, <3>5, Sizes
    <3>7. EndsAt = Accesses + NCounters
      BY Sizes
    <3> QED BY <3>6, <3>7 DEF r
  <2> HIDE DEF r
  <2>3. values[t] \in Seq(Row)
    BY DEF TypeOK
  <2>4. ASSUME NEW n \in DOMAIN values'[t]
        PROVE  \/ n \in DOMAIN values[t] /\ values'[t][n] = values[t][n]
               \/ values'[t][n] = r
    <3>1. values'[t] = Append(values[t], r)
      BY <2>1 DEF TypeOK
    <3> QED BY <2>3, <2>4, <3>1
  <2>5. \A u \in Threads \ {t} : values'[u] = values[u]
    BY <2>1 DEF TypeOK
  <2>6. pinned' = pinned
    BY <1>1 DEF EndPass, mainVars
  <2> QED BY <2>2, <2>4, <2>5, <2>6 DEF RowsExact
<1>2. CASE ~EndPass(t)
  <2>1. values' = values /\ pinned' = pinned
    BY <1>2 DEF Thread, BeginPass, ReadStart, Access, ReadEnd, Die, Return, mainVars, threadVars,
                measured, notRead
  <2> QED BY <2>1 DEF RowsExact
<1> QED BY <1>1, <1>2

\* What the file holds stays when neither it nor the rows in it change.
LEMMA CsvThread ==
  ASSUME TypeOK, PlaceInv, CsvInv, NEW t \in Threads, Thread(t)
  PROVE  CsvInv'
<1>1. pc' = pc /\ i' = i /\ j' = j /\ csv' = csv /\ Running(t)
  BY DEF Thread, BeginPass, ReadStart, Access, ReadEnd, EndPass, Die, Return, mainVars
<1>2. ASSUME NEW u \in Threads, place[u] = "returned"
      PROVE  rows'[u] = rows[u] /\ values'[u] = values[u]
  <2>1. u # t
    BY <1>1, <1>2 DEF Running
  <2>2. CASE EndPass(t)
    BY <2>1, <2>2 DEF EndPass, Runs!RecordRow, TypeOK
  <2>3. CASE ~EndPass(t)
    BY <2>3 DEF Thread, BeginPass, Runs!BeginPass, ReadStart, Access, ReadEnd, Die, Runs!Abort,
                Return, passVars, threadVars, measured, notRead
  <2> QED BY <2>2, <2>3
<1>3. 0 \in Threads /\ 1 \in Threads /\ i \in {0, 1}
  BY DEF Threads, TypeOK
<1>4. CASE pc \in Starting \union {"spawn", "pin", "fopen"}
  BY <1>1, <1>4 DEF CsvInv, Starting, Stopping
<1>5. CASE pc = "join"
  <2>1. i = 1 => place[0] = "returned"
    BY <1>3, <1>5 DEF PlaceInv
  <2> QED BY <1>1, <1>2, <1>3, <1>5, <2>1 DEF CsvInv, Starting, Stopping, Before, InFile
<1>6. CASE pc = "print"
  <2>1. place[i] = "returned" /\ (i = 1 => place[0] = "returned")
    BY <1>3, <1>6 DEF PlaceInv
  <2>2. rows'[i] = rows[i] /\ values'[i] = values[i]
    BY <1>2, <1>3, <2>1
  <2>3. i = 1 => rows'[0] = rows[0] /\ values'[0] = values[0]
    BY <1>2, <1>3, <2>1
  <2> QED BY <1>1, <1>3, <1>6, <2>2, <2>3 DEF CsvInv, Starting, Stopping, Before, InFile
<1>7. CASE pc \in {"fclose", "exited"} \union Stopping
  <2>1. place[0] = "returned" /\ place[1] = "returned"
    BY <1>3, <1>7 DEF PlaceInv
  <2>2. rows'[0] = rows[0] /\ values'[0] = values[0] /\ rows'[1] = rows[1] /\ values'[1] = values[1]
    BY <1>2, <1>3, <2>1
  <2> QED BY <1>1, <1>7, <2>2 DEF CsvInv, Starting, Stopping, Before, InFile
<1>8. CASE pc = "dead"
  BY <1>1, <1>8 DEF CsvInv, Starting, Stopping
<1>9. pc \in Labels
  BY DEF TypeOK
<1> QED BY <1>4, <1>5, <1>6, <1>7, <1>8, <1>9 DEF Labels, Ended, Starting, Stopping

LEMMA CsvMain == ASSUME TypeOK, CountingInv, CsvInv, Main PROVE CsvInv'
<1>1. rows' = rows /\ values' = values
  BY DEF Main, PinMain, Clear, Start, Spawn, Pin, OpenCsv, Join, PrintRow, RowsPrinted, CloseCsv, SwitchOff,
         DeleteHandles, passVars, threadVars, measured, notRead
<1>2. \A t, m : csv' = csv => Before(t)' = Before(t) /\ InFile(t, m)' = InFile(t, m)
  BY <1>1 DEF Before, InFile
<1>3. rows[0] \in Nat /\ rows[1] \in Nat /\ i \in {0, 1} /\ j \in Nat
  BY DEF TypeOK, Threads
<1> USE DEF MainAt, Starting, Stopping
<1>4. CASE PinMain \/ Clear \/ Start \/ Spawn \/ Pin
  <2>1. csv' = csv /\ csv = <<>> /\ pc' \in Starting \union {"spawn", "pin", "fopen"}
    BY <1>4 DEF PinMain, Clear, Start, Spawn, Pin, NextThread, CsvInv
  <2> QED BY <2>1 DEF CsvInv
<1>5. CASE OpenCsv
  <2>1. csv' = csv /\ csv = <<>> /\ pc' = "join" /\ i' = 0
    BY <1>5 DEF OpenCsv, CsvInv, CountingInv
  <2> QED BY <2>1 DEF CsvInv, Before
<1>6. CASE Join
  <2>1. csv' = csv /\ pc = "join" /\ pc' = "print" /\ i' = i /\ j' = 0
    BY <1>6 DEF Join
  <2>2. Len(csv) = Before(i) /\ (i = 1 => InFile(0, rows[0])) /\ Before(i) \in Nat
    BY <1>3, <2>1 DEF CsvInv, Before
  <2>3. InFile(i, 0)' /\ Before(i)' = Before(i)
    BY <1>1, <2>1 DEF InFile, Before
  <2> QED BY <1>1, <1>3, <2>1, <2>2, <2>3, <1>2 DEF CsvInv
<1>7. CASE PrintRow /\ ~(f = "NULL" \/ j >= times[i])
  <2> DEFINE r == [tid |-> i, delta |-> values[i][j + 1].delta]
  <2>1. /\ pc = "print" /\ pc' = "print" /\ i' = i /\ j' = j + 1 /\ j < rows[i]
        /\ csv' = Append(csv, r)
    BY <1>7 DEF PrintRow
  <2>2. /\ Len(csv) = Before(i) + j /\ InFile(i, j) /\ (i = 1 => InFile(0, rows[0]))
        /\ Before(i) \in Nat
    BY <1>3, <2>1 DEF CsvInv, Before
  <2> HIDE DEF r
  <2>3. /\ Len(csv') = Before(i) + (j + 1) /\ csv'[Before(i) + (j + 1)] = r
        /\ \A n \in 1..Len(csv) : csv'[n] = csv[n]
    BY <1>3, <2>1, <2>2 DEF TypeOK
  <2>4. Before(i)' = Before(i)
    BY <1>1, <2>1 DEF Before
  <2>5. ASSUME NEW n \in 1..(j + 1)
        PROVE  csv'[Before(i) + n] = [tid |-> i, delta |-> values[i][n].delta]
    <3>1. CASE n = j + 1
      BY <2>3, <3>1 DEF r
    <3>2. CASE n # j + 1
      <4>1. n \in 1..j /\ Before(i) + n \in 1..Len(csv)
        BY <1>3, <2>2, <3>2
      <4> QED BY <2>2, <2>3, <4>1 DEF InFile
    <3> QED BY <3>1, <3>2
  <2>6. InFile(i, j)'
    BY <1>1, <2>1, <2>4, <2>5 DEF InFile
  <2>7. i = 1 => InFile(0, rows[0])'
    <3>1. i = 1 => \A n \in 1..rows[0] : n \in 1..Len(csv)
      BY <1>3, <2>2 DEF Before
    <3>2. i = 1 => \A n \in 1..rows[0] : csv'[n] = csv[n]
      BY <2>3, <3>1
    <3>3. i = 1 => \A n \in 1..rows[0] : csv[0 + n] = [tid |-> 0, delta |-> values[0][n].delta]
      BY <2>2 DEF InFile, Before
    <3>4. \A n \in 1..rows[0] : 0 + n = n
      BY <1>3
    <3> QED BY <1>1, <3>2, <3>3, <3>4 DEF InFile, Before
  <2>8. j + 1 <= rows[i]
    BY <1>3, <2>1
  <2> QED BY <1>1, <2>1, <2>3, <2>4, <2>6, <2>7, <2>8 DEF CsvInv
<1>8. CASE PrintRow /\ (f = "NULL" \/ j >= times[i])
  BY <1>8 DEF PrintRow, CsvInv
<1>9. CASE RowsPrinted
  <2>1. csv' = csv /\ pc = "print" /\ j >= rows[i]
    BY <1>9 DEF RowsPrinted
  <2>2. /\ j <= rows[i] /\ Len(csv) = Before(i) + j /\ InFile(i, j)
        /\ i = 1 => InFile(0, rows[0])
    BY <2>1 DEF CsvInv
  <2>3. j = rows[i]
    BY <1>3, <2>1, <2>2
  <2>4. CASE i = 0 /\ i' = 1 /\ pc' = "join"
    <3>1. Len(csv) = Before(1) /\ InFile(0, rows[0])
      BY <1>3, <2>2, <2>3, <2>4 DEF Before
    <3> QED BY <1>1, <1>2, <2>1, <2>4, <3>1 DEF CsvInv
  <2>5. CASE i = 1 /\ i' = 0 /\ pc' = "fclose"
    <3>1. Len(csv) = rows[0] + rows[1] /\ InFile(0, rows[0]) /\ InFile(1, rows[1])
      BY <1>3, <2>2, <2>3, <2>5 DEF Before
    <3> QED BY <1>1, <1>2, <2>1, <2>5, <3>1 DEF CsvInv
  <2> QED BY <1>9, <2>4, <2>5, NextThreadIs DEF RowsPrinted
<1>10. CASE CloseCsv \/ SwitchOff \/ DeleteHandles
  <2>1. /\ csv' = csv /\ pc \in {"fclose"} \union Stopping
        /\ pc' \in {"exited", "dead"} \union Stopping
    BY <1>10 DEF CloseCsv, SwitchOff, DeleteHandles, NextThread
  <2>2. Len(csv) = rows[0] + rows[1] /\ InFile(0, rows[0]) /\ InFile(1, rows[1])
    BY <2>1 DEF CsvInv
  <2> QED BY <1>1, <1>2, <2>1, <2>2 DEF CsvInv
<1> QED BY <1>4, <1>5, <1>6, <1>7, <1>8, <1>9, <1>10 DEF Main

-----------------------------------------------------------------------------
(* The invariant is inductive. *)

LEMMA InitIInv == Init => IInv
<1> SUFFICES ASSUME Init PROVE IInv
  OBVIOUS
<1>1. TypeOK
  BY TypeInit
<1>2. PlaceInv
  BY DEF Init, PlaceInv, Starting, Stopping
<1>3. CountingInv
  <2>1. {t \in Threads : t < 0} = {}
    BY DEF Threads
  <2> QED BY <2>1 DEF Init, CountingInv, Starting, Measuring
<1>4. RowInv
  <2>1. \A t \in Threads : 0 <= table[t].passes
    BY <1>1, PassesNat
  <2> QED BY <2>1 DEF Init, Runs!Init, RowInv
<1>5. PassInv
  BY DEF Init, Runs!Init, PassInv
<1>6. RowsExact
  BY DEF Init, RowsExact
<1>7. CsvInv
  BY DEF Init, CsvInv, Starting, Stopping
<1> QED BY <1>1, <1>2, <1>3, <1>4, <1>5, <1>6, <1>7 DEF IInv

LEMMA StepIInv == IInv /\ [Next]_vars => IInv'
<1> SUFFICES ASSUME IInv, [Next]_vars PROVE IInv'
  OBVIOUS
<1> USE DEF IInv
<1>1. CASE Main
  BY <1>1, TypeMain, PlaceMain, CountingMain, RowMain, PassMain, RowsMain, CsvMain
<1>2. ASSUME NEW t \in Threads, Thread(t) PROVE IInv'
  BY <1>2, TypeThread, PlaceThread, CountingThread, RowThread, PassThread, RowsThread, CsvThread
<1>3. ASSUME NEW t \in Threads, Intrude(t) PROVE IInv'
  <2>1. TypeOK' /\ PassInv'
    BY <1>3, TypeIntrude, PassIntrude
  <2>2. /\ UNCHANGED <<table, active, rows, pc, i, j, counting, idle, csv, pinned>>
        /\ UNCHANGED <<place, values>>
    BY <1>3 DEF Intrude, passVars, mainVars
  <2>3. PlaceInv' /\ CountingInv' /\ RowInv' /\ RowsExact'
    BY <2>2 DEF PlaceInv, CountingInv, RowInv, RowsExact
  <2>4. CsvInv'
    BY <2>2 DEF CsvInv, Before, InFile
  <2> QED BY <2>1, <2>3, <2>4
<1>4. CASE UNCHANGED vars
  <2>1. TypeOK'
    BY <1>4, TypeStay
  <2> USE <1>4 DEF vars, passVars, mainVars, threadVars, measured, notRead
  <2>2. PlaceInv' /\ CountingInv'
    BY DEF PlaceInv, CountingInv
  <2>4. RowInv' /\ PassInv' /\ RowsExact'
    <3>1. RowInv'
      BY DEF RowInv
    <3>2. PassInv'
      BY DEF PassInv, Read, Sole
    <3>3. RowsExact'
      BY DEF RowsExact
    <3> QED BY <3>1, <3>2, <3>3
  <2>3. CsvInv'
    BY DEF CsvInv, Before, InFile
  <2> QED BY <2>1, <2>2, <2>3, <2>4
<1> QED BY <1>1, <1>2, <1>3, <1>4 DEF Next, Stopped, Spin

THEOREM Inductive == Spec => []IInv
  BY InitIInv, StepIInv, PTL DEF Spec

\* Every variable keeps its type: loop variables index cpus, a pass has no more
\* steps than it should, and the differences are 64-bit numbers.
THEOREM TypeCorrect == Spec => []TypeOK
<1>1. IInv => TypeOK
  BY DEF IInv
<1> QED BY <1>1, Inductive, PTL

\* A row of a pass in which nobody else was counted has at most the counts of the pass
\* in every counter it could read, and exactly those if the pass began on its CPU, for
\* any number of counters, accesses, passes, failing reads and steps of others, and
\* whether main and the threads get pinned or not: read_values of benchmarks.hh,
\* main's configuring before the threads exist and switching off after the last has
\* been joined.
THEOREM RowsExactHolds == Spec => []RowsExact
<1>1. IInv => RowsExact
  BY DEF IInv
<1> QED BY <1>1, Inductive, PTL

\* main does not touch the counters of a CPU while either thread runs.
THEOREM CountersUntouchedHolds == Spec => CountersUntouched
<1>1. IInv /\ [Next]_vars => [(\E t \in Threads : Running(t)) => UNCHANGED counting]_vars
  <2> SUFFICES ASSUME IInv, [Next]_vars, NEW t \in Threads, Running(t) PROVE UNCHANGED counting
    OBVIOUS
  <2>1. pc \in Measuring
    BY RunningWhenMeasuring DEF IInv
  <2>2. CASE Main
    BY <2>1, <2>2 DEF Main, PinMain, Clear, Start, Spawn, Pin, OpenCsv, Join, PrintRow, RowsPrinted, CloseCsv,
       SwitchOff, DeleteHandles, MainAt, Measuring
  <2>3. CASE \E u \in Threads : Thread(u)
    BY <2>3 DEF Thread, BeginPass, ReadStart, Access, ReadEnd, EndPass, Die, Return, mainVars
  <2>4. CASE \E u \in Threads : Intrude(u)
    BY <2>4 DEF Intrude, mainVars
  <2>5. CASE UNCHANGED vars
    BY <2>5 DEF vars, mainVars
  <2> QED BY <2>2, <2>3, <2>4, <2>5 DEF Next, Stopped, Spin
<1> QED BY <1>1, Inductive, PTL DEF Spec, CountersUntouched

\* A run that gets to the end has all rows of both threads in the file, in
\* their order: the joins and print_values of main.cc.
THEOREM CsvCompleteHolds == Spec => []CsvComplete
<1>1. IInv => CsvComplete
  <2> SUFFICES ASSUME IInv, pc = "exited"
               PROVE  /\ \A t \in Threads : Len(values[t]) = table[t].passes
                      /\ csv = Printed(0) \o Printed(1)
    BY DEF CsvComplete, Printed
  <2> USE DEF IInv
  <2> DEFINE S == [tid : Threads, delta : Deltas]
  <2>1. 0 \in Threads /\ 1 \in Threads
    BY DEF Threads
  <2>2. \A t \in Threads : rows[t] \in Nat /\ Len(values[t]) = rows[t] /\ rows[t] = table[t].passes
    BY Numbers DEF PlaceInv, RowInv
  <2>3. ASSUME NEW t \in Threads PROVE Printed(t) \in Seq(S) /\ Len(Printed(t)) = rows[t]
    <3>1. values[t] \in Seq(Row) /\ Len(values[t]) = rows[t]
      BY <2>2 DEF TypeOK
    <3>2. \A n \in 1..rows[t] : [tid |-> t, delta |-> values[t][n].delta] \in S
      <4>1. \A n \in 1..rows[t] : values[t][n] \in Row
        BY <3>1
      <4>2. \A r \in Row : r.delta \in Deltas
        BY DEF Row
      <4> QED BY <4>1, <4>2
    <3>3. Printed(t) = [n \in 1..rows[t] |-> [tid |-> t, delta |-> values[t][n].delta]]
      BY <3>1 DEF Printed
    <3>4. rows[t] \in Nat
      BY <2>2
    <3> HIDE DEF S
    <3>5. DOMAIN Printed(t) = 1..rows[t] /\ \A n \in 1..rows[t] : Printed(t)[n] \in S
      BY <3>2, <3>3
    <3>6. Printed(t) \in Seq(S)
      <4>1. \E n \in Nat : Printed(t) \in [1..n -> S]
        BY <3>3, <3>4, <3>5
      <4> QED BY <4>1
    <3> QED BY <3>4, <3>5, <3>6
  <2>4. csv \in Seq(S) /\ Len(csv) = rows[0] + rows[1] /\ InFile(0, rows[0]) /\ InFile(1, rows[1])
    BY DEF TypeOK, CsvInv
  <2> HIDE DEF S
  <2>5. /\ Printed(0) \o Printed(1) \in Seq(S)
        /\ Len(Printed(0) \o Printed(1)) = rows[0] + rows[1]
        /\ \A n \in 1..(rows[0] + rows[1]) : (Printed(0) \o Printed(1))[n] =
             IF n <= rows[0] THEN Printed(0)[n] ELSE Printed(1)[n - rows[0]]
    <3>1. /\ Printed(0) \in Seq(S) /\ Len(Printed(0)) = rows[0]
          /\ Printed(1) \in Seq(S) /\ Len(Printed(1)) = rows[1]
      BY <2>1, <2>3
    <3>2. /\ Printed(0) \o Printed(1) \in Seq(S)
          /\ Len(Printed(0) \o Printed(1)) = Len(Printed(0)) + Len(Printed(1))
          /\ \A n \in 1..(Len(Printed(0)) + Len(Printed(1))) : (Printed(0) \o Printed(1))[n] =
               IF n <= Len(Printed(0)) THEN Printed(0)[n] ELSE Printed(1)[n - Len(Printed(0))]
      BY <3>1, ConcatProperties, Zenon
    <3> QED BY <3>1, <3>2, Zenon
  <2>6. ASSUME NEW n \in 1..(rows[0] + rows[1]) PROVE csv[n] = (Printed(0) \o Printed(1))[n]
    <3>1. CASE n <= rows[0]
      <4>1. n \in 1..rows[0] /\ 0 + n = n
        BY <2>1, <2>2, <2>6, <3>1
      <4>2. csv[n] = [tid |-> 0, delta |-> values[0][n].delta]
        BY <2>4, <4>1 DEF InFile, Before
      <4>3. DOMAIN values[0] = 1..rows[0]
        BY <2>1, <2>2 DEF TypeOK
      <4> QED BY <2>5, <2>6, <3>1, <4>1, <4>2, <4>3 DEF Printed
    <3>2. CASE ~(n <= rows[0])
      <4> DEFINE m == n - rows[0]
      <4>1. m \in 1..rows[1] /\ rows[0] + m = n
        BY <2>1, <2>2, <2>6, <3>2
      <4> HIDE DEF m
      <4>2. csv[n] = [tid |-> 1, delta |-> values[1][m].delta]
        <5>1. Before(1) = rows[0]
          BY DEF Before
        <5> QED BY <2>4, <4>1, <5>1 DEF InFile
      <4>3. DOMAIN values[1] = 1..rows[1]
        BY <2>1, <2>2 DEF TypeOK
      <4>4. Printed(1)[m] = [tid |-> 1, delta |-> values[1][m].delta]
        BY <4>1, <4>3 DEF Printed
      <4> QED BY <2>5, <2>6, <3>2, <4>2, <4>4 DEF m
    <3> QED BY <3>1, <3>2
  <2> QED BY <2>2, <2>4, <2>5, <2>6, SeqEqual
<1> QED BY <1>1, Inductive, PTL

\* main with its threads is a session, whichever way the threads end: this
\* holds for every order of their steps and needs no failure-free run.
THEOREM RefinesSession == Spec => ImplementsSession
<1>1. Init => Session!Init
  BY DEF Init, Runs!Init, Session!Init, Phase
<1>2. IInv /\ [Next]_vars => [Session!Next]_(Session!vars)
  <2> SUFFICES ASSUME IInv, [Next]_vars PROVE Session!Next \/ UNCHANGED Session!vars
    OBVIOUS
  <2> USE DEF IInv
  <2>1. i \in Threads /\ pc \in Labels
    BY DEF TypeOK
  <2>0. CASE PinMain
    BY <2>0 DEF PinMain, MainAt, Alive, passVars, Phase, Session!vars
  <2>2. CASE Clear \/ SwitchOff
    <3>1. Session!Clear(i)
      BY <2>2 DEF Clear, SwitchOff
    <3> QED BY <2>1, <3>1 DEF Session!Next
  <2>3. CASE Start
    <3>1. Session!Start(i)
      BY <2>3 DEF Start
    <3> QED BY <2>1, <3>1 DEF Session!Next
  <2>4. CASE Spawn \/ Pin \/ OpenCsv \/ Join \/ PrintRow \/ RowsPrinted \/ CloseCsv
    <3>1. /\ UNCHANGED <<counting, idle, aborted>> /\ ~aborted /\ pc \in Measuring
          /\ pc' \in Measuring \union {"clean", "dead"}
      BY <2>4 DEF Spawn, Pin, OpenCsv, Join, PrintRow, RowsPrinted, CloseCsv, passVars, MainAt,
                  Alive, NextThread, Measuring
    <3>2. Phase = "measuring"
      BY <3>1 DEF Phase, Measuring
    <3>3. CASE pc' \in Measuring
      BY <3>1, <3>2, <3>3 DEF Phase, Measuring, Session!vars
    <3>4. CASE pc' = "clean"
      BY <3>1, <3>2, <3>4 DEF Phase, Session!Next, Session!Stop
    <3>5. CASE pc' = "dead"
      BY <3>1, <3>2, <3>5 DEF Phase, Session!Next, Session!Die, Session!Over
    <3> QED BY <3>1, <3>3, <3>4, <3>5
  <2>5. CASE DeleteHandles
    <3>1. /\ UNCHANGED <<counting, idle, aborted>> /\ ~aborted /\ pc = "delete" /\ pc' = "exited"
      BY <2>5 DEF DeleteHandles, passVars, MainAt, Alive
    <3> QED BY <3>1 DEF CountingInv, Phase, Session!Next, Session!Finish
  <2>6. CASE \E t \in Threads : Thread(t)
    <3>1. PICK t \in Threads : Thread(t)
      BY <2>6
    <3>2. UNCHANGED <<counting, idle, pc>> /\ Running(t)
      BY <3>1 DEF Thread, BeginPass, ReadStart, Access, ReadEnd, EndPass, Die, Return, mainVars
    <3>3. ~aborted /\ pc \in Measuring
      BY <3>2, RunningWhenMeasuring DEF Running, Alive
    <3>4. Phase = "measuring"
      BY <3>3 DEF Phase, Measuring
    <3>5. CASE Die(t)
      <4>1. Phase' = "dead"
        <5>1. aborted'
          BY <3>5 DEF Die, Runs!Abort
        <5> QED BY <3>2, <3>3, <5>1 DEF Phase, Measuring
      <4> QED BY <3>2, <3>4, <4>1 DEF Session!Next, Session!Die, Session!Over
    <3>6. CASE ~Die(t)
      <4>1. aborted' = aborted
        BY <3>1, <3>6 DEF Thread, BeginPass, Runs!BeginPass, ReadStart, Access, ReadEnd, EndPass,
                          Runs!RecordRow, Return, passVars
      <4> QED BY <3>2, <4>1 DEF Phase, Session!vars
    <3> QED BY <3>5, <3>6
  <2>7. CASE UNCHANGED vars \/ \E t \in Threads : Intrude(t)
    BY <2>7 DEF vars, Intrude, passVars, mainVars, Phase, Session!vars
  <2> QED BY <2>0, <2>2, <2>3, <2>4, <2>5, <2>6, <2>7 DEF Next, Main, Stopped, Spin
<1> QED BY <1>1, <1>2, Inductive, PTL DEF Spec, ImplementsSession, Session!Spec

-----------------------------------------------------------------------------
(* Progress: the process ends, or hangs in the one way there is. *)

\* The measure of main, position by position.
MainStepsShown ==
  LET p == table[0].passes
      q == table[1].passes
  IN /\ p \in Nat /\ q \in Nat /\ j \in Nat /\ i \in {0, 1} /\ pc \in Labels
     /\ pc = "self" => MainSteps = p + q + 18 - 2 * i
     /\ pc = "configure" => MainSteps = p + q + 17 - 2 * i
     /\ pc = "enable" => MainSteps = p + q + 16 - 2 * i
     /\ pc = "spawn" => MainSteps = p + q + 13 - 2 * i
     /\ pc = "pin" => MainSteps = p + q + 12 - 2 * i
     /\ pc = "fopen" => MainSteps = p + q + 9
     /\ pc = "join" /\ i = 0 => MainSteps = q + 8 + p
     /\ pc = "join" /\ i = 1 => MainSteps = 6 + q
     /\ pc = "print" /\ i = 0 =>
          MainSteps = q + 7 + p - j /\ j <= rows[0] /\ rows[0] <= p /\ rows[0] \in Nat
     /\ pc = "print" /\ i = 1 =>
          MainSteps = 5 + q - j /\ j <= rows[1] /\ rows[1] <= q /\ rows[1] \in Nat
     /\ pc = "fclose" => MainSteps = 4
     /\ pc = "clean" => MainSteps = 3 - i
     /\ pc = "delete" => MainSteps = 1
     /\ pc \in Ended => MainSteps = 0

LEMMA MainStepsAre == IInv => MainStepsShown
<1> SUFFICES ASSUME IInv PROVE MainStepsShown
  OBVIOUS
<1>1. /\ table[0].passes \in Nat /\ table[1].passes \in Nat
      /\ j \in Nat /\ i \in {0, 1} /\ pc \in Labels
  BY PassesNat DEF IInv, TypeOK, Threads
<1>2. \A t \in {0, 1} : rows[t] <= table[t].passes /\ rows[t] \in Nat
  BY DEF IInv, TypeOK, RowInv, Threads
<1>3. pc = "print" => j <= rows[i]
  BY DEF IInv, CsvInv
<1>4. CASE pc = "print"
  BY <1>1, <1>2, <1>3, <1>4 DEF MainStepsShown, MainSteps, Ended
<1>5. CASE pc # "print"
  BY <1>1, <1>5 DEF MainStepsShown, MainSteps, Ended
<1> QED BY <1>4, <1>5

LEMMA MainNearer ==
  ASSUME IInv, Main, IInv'
  PROVE  MainSteps' < MainSteps
<1>1. MainStepsShown
  BY MainStepsAre
<1>2. MainStepsShown'
  BY MainStepsAre, PTL
<1>3. \A l, m : NextThread(l, m) => \/ i = 0 /\ i' = 1 /\ pc' = l
                                    \/ i = 1 /\ i' = 0 /\ pc' = m
  BY NextThreadIs DEF IInv
<1>4. table' = table
  BY DEF Main, PinMain, Clear, Start, Spawn, Pin, OpenCsv, Join, PrintRow, RowsPrinted, CloseCsv,
     SwitchOff,
     DeleteHandles, passVars
<1> USE <1>1, <1>2, <1>3, <1>4 DEF MainStepsShown, MainAt
<1>0. CASE PinMain
  BY <1>0 DEF PinMain
<1>5. CASE Clear
  BY <1>5 DEF Clear
<1>6. CASE Start
  BY <1>6 DEF Start
<1>7. CASE Spawn
  <2>1. pc = "spawn" /\ pc' = "pin" /\ i' = i
    BY <1>7 DEF Spawn
  <2> QED BY <2>1
<1>8. CASE Pin
  BY <1>8 DEF Pin
<1>9. CASE OpenCsv
  BY <1>9 DEF OpenCsv, IInv, CountingInv
<1>10. CASE Join
  BY <1>10 DEF Join
<1>11. CASE PrintRow
  <2>1. pc = "print" /\ j < rows[i] /\ i' = i
    BY <1>11 DEF PrintRow
  <2>2. CASE f = "NULL" \/ j >= times[i]
    <3>1. pc' = "dead"
      BY <1>11, <2>2 DEF PrintRow
    <3>2. MainSteps' = 0
      BY <3>1 DEF Ended
    <3> QED BY <2>1, <3>2
  <2>3. CASE ~(f = "NULL" \/ j >= times[i])
    <3>1. pc' = pc /\ j' = j + 1
      BY <1>11, <2>3 DEF PrintRow
    <3> QED BY <2>1, <3>1
  <2> QED BY <2>2, <2>3
<1>12. CASE RowsPrinted
  BY <1>12 DEF RowsPrinted
<1>13. CASE CloseCsv
  BY <1>13 DEF CloseCsv, IInv, CountingInv, Ended
<1>14. CASE SwitchOff
  BY <1>14 DEF SwitchOff
<1>15. CASE DeleteHandles
  BY <1>15 DEF DeleteHandles, Ended
<1> QED
  BY <1>0, <1>5, <1>6, <1>7, <1>8, <1>9, <1>10, <1>11, <1>12, <1>13, <1>14, <1>15 DEF Main

\* main leaves the measure of the threads alone: it creates and moves threads, but
\* does not return for them.
LEMMA MainKeeps ==
  ASSUME IInv, Main, NEW t \in Threads
  PROVE  ThreadSteps(t)' = ThreadSteps(t)
<1>1. table' = table /\ active' = active /\ rows' = rows /\ aborted' = aborted /\ at' = at
  BY DEF Main, PinMain, Clear, Start, Spawn, Pin, OpenCsv, Join, PrintRow, RowsPrinted, CloseCsv,
     SwitchOff, DeleteHandles, passVars, threadVars, measured, notRead
<1>2. place'[t] = "returned" <=> place[t] = "returned"
  <2>1. CASE Spawn
    <3>1. i \in Threads /\ i >= i
      BY DEF IInv, TypeOK, Threads
    <3>2. place[i] = "unborn"
      BY <2>1, <3>1 DEF Spawn, MainAt, IInv, PlaceInv
    <3>3. place' = [place EXCEPT ![i] = "unpinned"]
      BY <2>1 DEF Spawn
    <3> QED BY <3>2, <3>3 DEF IInv, TypeOK
  <2>2. CASE Pin
    BY <2>2 DEF Pin, IInv, TypeOK
  <2>3. CASE ~Spawn /\ ~Pin
    BY <2>3 DEF Main, PinMain, Clear, Start, OpenCsv, Join, PrintRow, RowsPrinted, CloseCsv,
       SwitchOff, DeleteHandles, threadVars
  <2> QED BY <2>1, <2>2, <2>3
<1> QED BY <1>1, <1>2 DEF ThreadSteps

\* What the passes still to be recorded take at most.
PassesLeft(p, r) == (p - r) * (PassLength + 2)

LEMMA PassesLeftIs ==
  ASSUME NEW p \in Nat, NEW r \in Nat
  PROVE  /\ PassesLeft(p, r) \in Int
         /\ r <= p => PassesLeft(p, r) \in Nat
         /\ r < p => PassesLeft(p, r) >= PassLength + 2
         /\ PassesLeft(p, r + 1) = PassesLeft(p, r) - PassLength - 2
<1>1. PassLength \in Nat
  BY Sizes
<1>2. \A k \in Nat : /\ (p - (r + 1)) * k = (p - r) * k - k /\ (p - r) * k \in Int
  OBVIOUS
<1>3. \A d, k \in Nat : d * k \in Nat /\ (d > 0 => d * k >= k)
  OBVIOUS
<1>4. PassLength + 2 \in Nat
  BY <1>1
<1>5. r <= p => p - r \in Nat
  OBVIOUS
<1>6. r < p => p - r > 0
  OBVIOUS
<1> QED BY <1>1, <1>2, <1>3, <1>4, <1>5, <1>6 DEF PassesLeft

\* The measure of a thread.
ThreadStepsShown(t) ==
  LET left == PassesLeft(table[t].passes, rows[t])
  IN /\ left \in Nat /\ at[t] \in Nat /\ at[t] <= PassLength /\ PassLength \in Nat
     /\ place[t] = "returned" => ThreadSteps(t) = 0
     /\ place[t] # "returned" /\ t \notin active => ThreadSteps(t) = left + 1
     /\ place[t] # "returned" /\ t \in active =>
          ThreadSteps(t) = left - at[t] /\ left >= PassLength + 2

LEMMA ThreadStepsAre ==
  ASSUME IInv, NEW t \in Threads
  PROVE  ThreadStepsShown(t)
<1>1. /\ table[t].passes \in Nat /\ rows[t] \in Nat /\ at[t] \in Nat /\ at[t] <= PassLength
      /\ PassLength \in Nat
  BY PassesNat, Numbers, Sizes DEF IInv
<1>2. rows[t] <= table[t].passes /\ (t \in active => rows[t] < table[t].passes)
  BY DEF IInv, RowInv
<1> DEFINE left == PassesLeft(table[t].passes, rows[t])
<1>3. left \in Nat /\ (t \in active => left >= PassLength + 2)
  BY <1>1, <1>2, PassesLeftIs
<1>4. ThreadSteps(t) = IF place[t] = "returned" THEN 0
                       ELSE left + 1 - (IF t \in active THEN at[t] + 1 ELSE 0)
  BY DEF ThreadSteps, PassesLeft
<1> HIDE DEF left
<1>5. left + 1 - (at[t] + 1) = left - at[t] /\ left + 1 - 0 = left + 1
  BY <1>1, <1>3
<1>6. /\ place[t] = "returned" => ThreadSteps(t) = 0
      /\ place[t] # "returned" /\ t \notin active => ThreadSteps(t) = left + 1
      /\ place[t] # "returned" /\ t \in active => ThreadSteps(t) = left - at[t]
  BY <1>4, <1>5
<1> QED BY <1>1, <1>3, <1>6 DEF ThreadStepsShown, left

\* A step of a thread brings its end nearer, or the end of the process.
Nearer(t) ==
  \/ aborted' = aborted /\ ThreadSteps(t)' < ThreadSteps(t)
  \/ ~aborted /\ aborted' /\ ThreadSteps(t)' = ThreadSteps(t)

LEMMA ThreadNearer ==
  ASSUME IInv, NEW t \in Threads, Thread(t), IInv'
  PROVE  Nearer(t)
<1>1. ThreadStepsShown(t)
  BY ThreadStepsAre
<1>2. ThreadStepsShown(t)'
  BY ThreadStepsAre, PTL
<1>3. /\ place[t] # "returned"
      /\ place \in [Threads -> Places] /\ at \in [Threads -> 0..PassLength]
      /\ rows \in [Threads -> Nat] /\ table[t].passes \in Nat /\ rows[t] \in Nat
  BY PassesNat DEF Thread, BeginPass, ReadStart, Access, ReadEnd, EndPass, Die, Return,
     Running, IInv, TypeOK
<1>4. table' = table
  BY DEF Thread, BeginPass, ReadStart, Access, ReadEnd, EndPass, Die, Return, passVars,
     Runs!BeginPass,
     Runs!RecordRow, Runs!Abort
<1>5. CASE BeginPass(t)
  <2>1. /\ t \notin active /\ t \in active' /\ place' = place /\ rows' = rows
        /\ aborted' = aborted /\ at'[t] = 0
    BY <1>5, <1>3 DEF BeginPass, Runs!BeginPass
  <2> QED BY <1>1, <1>2, <1>3, <1>4, <2>1 DEF ThreadStepsShown, Nearer
<1>6. CASE ReadStart(t) \/ Access(t) \/ ReadEnd(t)
  <2>1. /\ t \in active /\ active' = active /\ place' = place /\ rows' = rows
        /\ aborted' = aborted /\ at'[t] = at[t] + 1
    BY <1>6, <1>3 DEF ReadStart, Access, ReadEnd, Step, passVars
  <2> QED BY <1>1, <1>2, <1>3, <1>4, <2>1 DEF ThreadStepsShown, Nearer
<1>7. CASE EndPass(t)
  <2>1. /\ t \in active /\ t \notin active' /\ place' = place /\ rows'[t] = rows[t] + 1
        /\ aborted' = aborted /\ at[t] = PassLength
    BY <1>7, <1>3 DEF EndPass, Runs!RecordRow
  <2>2. PassesLeft(table[t].passes, rows[t] + 1)
          = PassesLeft(table[t].passes, rows[t]) - PassLength - 2
    BY <1>3, PassesLeftIs
  <2> QED BY <1>1, <1>2, <1>3, <1>4, <2>1, <2>2 DEF ThreadStepsShown, Nearer
<1>8. CASE Die(t)
  BY <1>8, <1>4 DEF Die, Runs!Abort, ThreadSteps, threadVars, measured, notRead, Nearer
<1>9. CASE Return(t)
  <2>1. /\ t \notin active /\ place'[t] = "returned" /\ aborted' = aborted
    BY <1>9, <1>3 DEF Return, passVars
  <2> QED BY <1>1, <1>2, <1>3, <2>1 DEF ThreadStepsShown, Nearer
<1> QED BY <1>5, <1>6, <1>7, <1>8, <1>9 DEF Thread

\* It leaves main's measure and the other thread's alone.
LEMMA ThreadKeeps ==
  ASSUME IInv, NEW t \in Threads, Thread(t), NEW u \in Threads \ {t}
  PROVE  MainSteps' = MainSteps /\ ThreadSteps(u)' = ThreadSteps(u)
<1>1. UNCHANGED <<table, pc, i, j>>
  BY DEF Thread, BeginPass, ReadStart, Access, ReadEnd, EndPass, Die, Return, passVars,
     mainVars,
     Runs!BeginPass, Runs!RecordRow, Runs!Abort
<1>2. /\ place'[u] = place[u] /\ at'[u] = at[u] /\ rows'[u] = rows[u]
      /\ u \in active' <=> u \in active
  BY DEF Thread, BeginPass, ReadStart, Access, ReadEnd, EndPass, Die, Return, passVars,
     Step,
     threadVars, measured, notRead, Runs!BeginPass, Runs!RecordRow, Runs!Abort, IInv, TypeOK
<1> QED BY <1>1, <1>2 DEF MainSteps, ThreadSteps

LEMMA WorkType ==
  IInv => MainSteps \in Nat /\ ThreadSteps(0) \in Nat /\ ThreadSteps(1) \in Nat
<1> SUFFICES ASSUME IInv
             PROVE  MainSteps \in Nat /\ ThreadSteps(0) \in Nat /\ ThreadSteps(1) \in Nat
  OBVIOUS
<1>1. MainSteps \in Nat
  BY MainStepsAre DEF MainStepsShown, Labels, Ended
<1>2. \A t \in Threads : ThreadSteps(t) \in Nat
  BY ThreadStepsAre DEF ThreadStepsShown
<1> QED BY <1>1, <1>2 DEF Threads

\* The process takes no more steps than Work says at its beginning, turns of the
\* spin loop and the counted steps of others aside.
THEOREM ProgressHolds == Spec => Progress /\ [](Work \in Nat)
<1>1. IInv => Work \in Nat
  BY WorkType DEF Work
<1>2. IInv /\ IInv' /\ [Next]_vars => [(\E t \in Threads : Intrude(t)) \/ Work' < Work]_vars
  <2> SUFFICES ASSUME IInv, IInv', Next, vars' # vars, ~\E t \in Threads : Intrude(t)
               PROVE  Work' < Work
    OBVIOUS
  <2>1. MainSteps \in Nat /\ ThreadSteps(0) \in Nat /\ ThreadSteps(1) \in Nat
    BY WorkType
  <2>2. (MainSteps \in Nat /\ ThreadSteps(0) \in Nat /\ ThreadSteps(1) \in Nat)'
    BY WorkType, PTL
  <2>3. CASE Main
    <3>1. MainSteps' < MainSteps
      BY <2>3, MainNearer
    <3>2. ThreadSteps(0)' = ThreadSteps(0) /\ ThreadSteps(1)' = ThreadSteps(1)
      BY <2>3, MainKeeps DEF Threads
    <3>3. aborted' = aborted
      BY <2>3 DEF Main, PinMain, Clear, Start, Spawn, Pin, OpenCsv, Join, PrintRow, RowsPrinted,
         CloseCsv, SwitchOff, DeleteHandles, passVars
    <3> QED BY <2>1, <2>2, <3>1, <3>2, <3>3 DEF Work
  <2>4. ASSUME NEW t \in Threads, Thread(t) PROVE Work' < Work
    <3>1. PICK u \in Threads : u # t /\ Threads = {t, u}
      BY DEF Threads
    <3>2. MainSteps' = MainSteps /\ ThreadSteps(u)' = ThreadSteps(u)
      BY <2>4, <3>1, ThreadKeeps
    <3>3. Nearer(t)
      BY <2>4, ThreadNearer
    <3> QED BY <2>1, <2>2, <3>1, <3>2, <3>3 DEF Work, Nearer, Threads
  <2> QED BY <2>3, <2>4 DEF Next, Spin, Stopped
<1> QED BY <1>1, <1>2, Inductive, PTL DEF Spec, Progress

\* A function that stamps its passes has a time for each row, and for the pass it is
\* in; one that does not has none.
StampInv ==
  \A t \in Threads :
    times[t] = IF table[t].stamps THEN rows[t] + (IF t \in active THEN 1 ELSE 0) ELSE 0

LEMMA StampNext == IInv /\ StampInv /\ [Next]_vars => StampInv'
<1> SUFFICES ASSUME IInv, StampInv, [Next]_vars PROVE StampInv'
  OBVIOUS
<1>1. /\ times \in [Threads -> Nat] /\ rows \in [Threads -> Nat] /\ active \subseteq Threads
  BY DEF IInv, TypeOK
<1> USE DEF passVars, mainVars, threadVars, measured, notRead
<1>2. CASE Main \/ UNCHANGED vars \/ \E t \in Threads : Intrude(t)
  <2>1. UNCHANGED <<table, active, rows, times>>
    BY <1>2 DEF Main, PinMain, Clear, Start, Spawn, Pin, OpenCsv, Join, PrintRow, RowsPrinted,
       CloseCsv, SwitchOff, DeleteHandles, Intrude, vars
  <2> QED BY <2>1 DEF StampInv
<1>3. ASSUME NEW t \in Threads, Thread(t) PROVE StampInv'
  <2>1. CASE BeginPass(t)
    <3>1. /\ times' = [times EXCEPT ![t] = IF table[t].stamps THEN @ + 1 ELSE @]
          /\ UNCHANGED <<table, rows>> /\ t \notin active /\ active' = active \union {t}
      BY <2>1 DEF BeginPass, Runs!BeginPass
    <3> QED BY <1>1, <3>1 DEF StampInv
  <2>2. CASE EndPass(t)
    <3>1. /\ UNCHANGED <<table, times>> /\ t \in active /\ active' = active \ {t}
          /\ rows' = [rows EXCEPT ![t] = @ + 1]
      BY <2>2 DEF EndPass, Runs!RecordRow
    <3> QED BY <1>1, <3>1 DEF StampInv
  <2>3. CASE ~BeginPass(t) /\ ~EndPass(t)
    <3>1. UNCHANGED <<table, active, rows, times>>
      BY <1>3, <2>3 DEF Thread, ReadStart, Access, ReadEnd, Die, Runs!Abort, Return
    <3> QED BY <3>1 DEF StampInv
  <2> QED BY <2>1, <2>2, <2>3
<1> QED BY <1>2, <1>3 DEF Next, Spin, Stopped

\* How a thread 1 that waits, and a main that is dead or gets to the end, came about:
\* to print the rows of a thread, it needs a time for each.
TimesPrinted(t) == rows[t] = 0 \/ table[t].stamps

OutcomeInv ==
  /\ place[1] = "returned" => ~Runs!Mispaired
  /\ aborted => counting = Threads
  /\ pc = "dead" => counting = Threads /\ (f = "NULL" \/ Unstamped)
  /\ pc \in Stopping \union {"exited"} => f = "open"
  /\ pc \in {"join", "print"} => \A t \in Threads : t < i => TimesPrinted(t)
  /\ pc = "print" => j = 0 \/ table[i].stamps
  /\ pc \in {"fclose", "exited"} \union Stopping => \A t \in Threads : TimesPrinted(t)

LEMMA OutcomeMain ==
  ASSUME IInv, StampInv, OutcomeInv, Main
  PROVE  OutcomeInv'
<1>1. /\ ~aborted /\ UNCHANGED <<table, active, rows, aborted>>
      /\ place'[1] = "returned" => place[1] = "returned"
  BY DEF Main, PinMain, Clear, Start, Spawn, Pin, OpenCsv, Join, PrintRow, RowsPrinted, CloseCsv,
     SwitchOff, DeleteHandles, MainAt, Alive, passVars, threadVars, IInv, TypeOK, Threads
<1>2. i \in {0, 1} /\ j \in Nat /\ \A t \in Threads : rows[t] \in Nat
  BY DEF IInv, TypeOK, Threads
<1>3. (Unstamped <=> Unstamped') /\ \A t : TimesPrinted(t) <=> TimesPrinted(t)'
  BY <1>1 DEF Unstamped, TimesPrinted
<1> USE <1>1, <1>2, <1>3 DEF OutcomeInv, MainAt, Stopping, Runs!Mispaired, Runs!Waits
<1>4. CASE PinMain \/ Clear \/ Start \/ Spawn \/ Pin
  BY <1>4 DEF PinMain, Clear, Start, Spawn, Pin, NextThread
<1>5. CASE OpenCsv
  <2>1. pc' = "join" /\ i' = 0
    BY <1>5 DEF OpenCsv, IInv, CountingInv
  <2> QED BY <2>1 DEF Threads
<1>6. CASE Join
  BY <1>6 DEF Join
<1>7. CASE PrintRow
  <2>1. /\ pc = "print" /\ j < rows[i] /\ i' = i /\ i \in Threads
        /\ UNCHANGED <<f, counting>> /\ counting = Threads
    BY <1>7 DEF PrintRow, IInv, CountingInv, Measuring, TypeOK
  <2>2. CASE f = "NULL" \/ j >= times[i]
    <3>1. pc' = "dead"
      BY <1>7, <2>2 DEF PrintRow
    <3>2. f # "NULL" => Unstamped
      <4>1. rows[i] <= table[i].passes /\ table[i].passes \in Nat
        BY <2>1, PassesNat DEF IInv, RowInv
      <4>2. f # "NULL" => ~table[i].stamps
        BY <2>1, <2>2 DEF StampInv
      <4>3. table[i].passes > 0
        BY <2>1, <4>1
      <4> QED BY <2>1, <4>2, <4>3 DEF Unstamped
    <3> QED BY <2>1, <3>1, <3>2
  <2>3. CASE ~(f = "NULL" \/ j >= times[i])
    <3>1. pc' = "print" /\ table[i].stamps
      BY <1>7, <2>1, <2>3 DEF PrintRow, StampInv
    <3> QED BY <2>1, <3>1
  <2> QED BY <2>2, <2>3
<1>8. CASE RowsPrinted
  <2>1. pc = "print" /\ j >= rows[i] /\ UNCHANGED <<f, counting>> /\ NextThread("join", "fclose")
    BY <1>8 DEF RowsPrinted
  <2>2. TimesPrinted(i)
    <3>1. j <= rows[i]
      BY <2>1 DEF IInv, CsvInv
    <3> QED BY <2>1, <3>1 DEF TimesPrinted, Threads
  <2>3. \/ i = 0 /\ i' = 1 /\ pc' = "join"
        \/ i = 1 /\ i' = 0 /\ pc' = "fclose"
    BY <2>1, NextThreadIs DEF IInv
  <2> QED BY <2>1, <2>2, <2>3 DEF Threads
<1>9. CASE CloseCsv
  <2>1. /\ pc = "fclose" /\ UNCHANGED <<f, counting>> /\ counting = Threads /\ f \in {"NULL", "open"}
        /\ pc' = IF f = "NULL" THEN "dead" ELSE "clean"
    BY <1>9 DEF CloseCsv, IInv, CountingInv, Measuring, TypeOK
  <2> QED BY <2>1
<1>10. CASE SwitchOff \/ DeleteHandles
  <2>1. pc \in Stopping /\ f' = f /\ pc' \in Stopping \union {"exited"}
    BY <1>10 DEF SwitchOff, DeleteHandles, NextThread
  <2> QED BY <2>1
<1> QED BY <1>4, <1>5, <1>6, <1>7, <1>8, <1>9, <1>10 DEF Main

LEMMA OutcomeThread ==
  ASSUME IInv, OutcomeInv, NEW t \in Threads, Thread(t)
  PROVE  OutcomeInv'
<1>1. UNCHANGED <<table, pc, i, j, counting, f>> /\ Running(t)
  BY DEF Thread, BeginPass, ReadStart, Access, ReadEnd, EndPass, Die, Return, passVars, mainVars,
     Runs!BeginPass, Runs!RecordRow, Runs!Abort
<1>2. pc \in Measuring /\ counting = Threads /\ pc # "dead"
  BY <1>1, RunningWhenMeasuring DEF IInv, Measuring
<1>3. place'[1] = "returned" => place[1] = "returned" \/ Runs!HasTurn(1)
  <2>1. CASE Return(t)
    <3>1. t # 1 => place'[1] = place[1]
      BY <2>1 DEF Return, IInv, TypeOK
    <3>2. t = 1 => Runs!HasTurn(1)
      BY <2>1 DEF Return, Runs!HasTurn, Runs!Waits
    <3> QED BY <3>1, <3>2
  <2>2. CASE ~Return(t)
    BY <2>2 DEF Thread, BeginPass, ReadStart, Access, ReadEnd, EndPass, Die, threadVars
  <2> QED BY <2>1, <2>2
<1>4. ASSUME NEW u \in Threads, place[u] = "returned" PROVE TimesPrinted(u) => TimesPrinted(u)'
  <2>1. u # t
    BY <1>1, <1>4 DEF Running
  <2>2. rows'[u] = rows[u]
    BY <2>1 DEF Thread, BeginPass, ReadStart, Access, ReadEnd, EndPass, Die, Return, passVars,
       Runs!BeginPass, Runs!RecordRow, Runs!Abort, IInv, TypeOK
  <2> QED BY <1>1, <2>2 DEF TimesPrinted
<1>5. /\ pc \in {"join", "print"} => \A u \in Threads : u < i => place[u] = "returned"
      /\ pc = "fclose" => \A u \in Threads : place[u] = "returned"
  BY DEF IInv, PlaceInv
<1>6. ~Runs!Mispaired \/ place'[1] # "returned"
  BY <1>3 DEF OutcomeInv, Runs!HasTurn, Runs!Mispaired, Runs!Waits
<1>7. Runs!Mispaired' <=> Runs!Mispaired
  BY <1>1 DEF Runs!Mispaired, Runs!Waits
<1> QED BY <1>1, <1>2, <1>4, <1>5, <1>6, <1>7 DEF OutcomeInv, Measuring, Stopping

LEMMA OutcomeNext == IInv /\ StampInv /\ OutcomeInv /\ [Next]_vars => OutcomeInv'
<1> SUFFICES ASSUME IInv, StampInv, OutcomeInv, [Next]_vars PROVE OutcomeInv'
  OBVIOUS
<1>1. CASE UNCHANGED vars \/ \E t \in Threads : Intrude(t)
  <2>1. UNCHANGED <<table, rows, aborted, pc, i, j, counting, f, place>>
    BY <1>1 DEF vars, Intrude, passVars, mainVars, threadVars
  <2> QED BY <2>1 DEF OutcomeInv, TimesPrinted, Unstamped, Runs!Mispaired, Runs!Waits
<1> QED BY <1>1, OutcomeMain, OutcomeThread DEF Next, Spin, Stopped

\* A process that has ended, or can make no other step than a turn of the spin loop, is
\* one that did what it should, or was killed with the counters on for one of the three
\* reasons there are, or whose table is mispaired.
THEOREM OnlyMispairedHangsHolds == Spec => []OnlyMispairedHangs
<1>1. Init => StampInv /\ OutcomeInv
  BY DEF Init, Runs!Init, StampInv, OutcomeInv, Stopping, Threads
<1>2. Spec => [](StampInv /\ OutcomeInv)
  BY <1>1, StampNext, OutcomeNext, Inductive, PTL DEF Spec
<1>3. ASSUME IInv, OutcomeInv PROVE OnlyMispairedHangs
  <2>1. ~Alive => Outcome
    <3>1. CASE aborted \/ pc = "dead"
      BY <1>3, <3>1 DEF OutcomeInv, Outcome
    <3>2. CASE ~aborted /\ pc = "exited"
      <4>1. \A t \in Threads : rows[t] = table[t].passes /\ TimesPrinted(t)
        BY <1>3, <3>2 DEF OutcomeInv, IInv, PlaceInv, RowInv
      <4>2. ~Unstamped
        BY <4>1 DEF Unstamped, TimesPrinted
      <4> QED BY <1>3, <3>2, <4>2 DEF Outcome, OutcomeInv, IInv, CountingInv, PlaceInv, Threads
    <3> QED BY <3>1, <3>2 DEF Alive, Ended
  <2>2. ASSUME MainAt("join"), place[i] # "returned",
               \A t \in Threads : place[t] = "returned" \/ ~Runs!HasTurn(t)
        PROVE  Runs!Mispaired /\ i = 1 /\ Len(csv) = table[0].passes /\ counting = Threads
    <3>1. place[0] = "returned"
      BY <2>2 DEF Runs!HasTurn, Runs!Waits, Threads
    <3>2. i = 1 /\ rows[0] = table[0].passes
      BY <1>3, <2>2, <3>1 DEF IInv, TypeOK, RowInv, Threads
    <3>3. Runs!Mispaired
      BY <2>2, <3>2 DEF Runs!HasTurn, Runs!Mispaired, Threads
    <3>4. Len(csv) = table[0].passes /\ counting = Threads
      BY <1>3, <2>2, <3>2 DEF IInv, CsvInv, CountingInv, Measuring, Before, MainAt
    <3> QED BY <3>2, <3>3, <3>4
  <2> QED BY <2>1, <2>2 DEF OnlyMispairedHangs
<1> QED BY <1>2, <1>3, Inductive, PTL
=============================================================================

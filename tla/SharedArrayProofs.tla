-------------------------- MODULE SharedArrayProofs --------------------------
(***************************************************************************)
(* Theorems about SharedArrayBench, for any array length, any number of      *)
(* passes and any table of functions.  All of them follow from the inductive *)
(* invariant IInv below.                                                     *)
(***************************************************************************)
EXTENDS SharedArrayBench, FiniteSetTheorems, TLAPS

\* Where a thread is before it has prepared the array or found it prepared.
Early == {"check"} \union Preparing

\* Who stores through the pointer does so after its own malloc, and the flag
\* was set before that: a flag without an array means a malloc is due.
FlagInv ==
  /\ \A t \in Threads : pc[t] \notin {"check", "claim"} => sa_flag
  /\ \A t \in Threads : pc[t] = "fill" => shared_array # NoArray
  /\ sa_flag /\ shared_array = NoArray => \E t \in Threads : pc[t] = "alloc"

\* The block in use belongs to a thread that is still filling it, from the left
\* and without gaps, or to one that has filled it.
BlockInv ==
  \A b \in Threads : shared_array = b =>
    \/ pc[b] = "fill" /\ 0..(idx[b] - 1) \subseteq written[b]
    \/ pc[b] \notin Early /\ written[b] = Idx

\* Rows and passes.
RowInv ==
  \A t \in Threads :
    /\ pc[t] = "done" => counts[t] = func[t].passes
    /\ pc[t] \in InPass => counts[t] < func[t].passes
    /\ counts[t] <= func[t].passes

\* Only a thread 0 that is done signals, and thread 1 leaves its loop only then.
SignalInv ==
  /\ can_run => pc[0] = "done" /\ func[0].handoff
  /\ Released => can_run

IInv == TypeOK /\ FlagInv /\ BlockInv /\ RowInv /\ SignalInv

-----------------------------------------------------------------------------
(* Typing. *)

\* A table of FuncTables gives each thread a benchmark.
LEMMA FuncType ==
  ASSUME TypeOK, NEW t \in Threads
  PROVE  /\ func[t] \in Benchmark
         /\ func[t].passes \in Nat
         /\ func[t].handoff \in BOOLEAN
         /\ func[t].halves \in BOOLEAN
  BY FuncTablesAssumption DEF TypeOK, Benchmark

\* A measured pass stays inside the array, and starts at a natural number.
LEMMA Bounds ==
  ASSUME TypeOK, NEW t \in Threads
  PROVE  Lo(t) \in Nat /\ Hi(t) \in Nat /\ Hi(t) <= N
  BY FuncType, ConstantsAssumption DEF Lo, Hi

\* Init, and every step, keeps the variables in their types: in particular no
\* thread stores outside the array.
LEMMA TypeInit == Init => TypeOK
<1> SUFFICES ASSUME Init PROVE TypeOK
  OBVIOUS
<1>1. pc \in [Threads -> Labels]
  BY DEF Init, Labels
<1>2. shared_array \in Blocks /\ fd \in Nat \union {NoFd}
  BY DEF Init, Blocks
<1>3. written \in [Threads -> SUBSET Idx]
  BY DEF Init
<1> QED BY <1>1, <1>2, <1>3 DEF Init, TypeOK

LEMMA TypeStep ==
  ASSUME TypeOK, NEW t \in Threads, Step(t)
  PROVE  TypeOK'
<1> USE DEF TypeOK, At, Goto, Labels, Preparing, InPass, arrayVars, sampleVars, sinkVars
<1>1. CASE CheckFlag(t)
  BY <1>1 DEF CheckFlag
<1>2. CASE ClaimFlag(t)
  BY <1>2 DEF ClaimFlag
<1>3. CASE AllocArray(t)
  BY <1>3 DEF AllocArray, Blocks
<1>4. CASE FillElement(t)
  <2>1. idx[t] \in Idx
    BY <1>4, ConstantsAssumption DEF FillElement, FillBound, Idx
  <2>2. written' \in [Threads -> SUBSET Idx]
    BY <1>4, <2>1 DEF FillElement, Store
  <2> QED BY <1>4, <2>2 DEF FillElement, Store
<1>5. CASE FillDone(t)
  BY <1>5 DEF FillDone
<1>6. CASE Spin(t)
  BY <1>6 DEF Spin, vars
<1>7. CASE StartRun(t)
  BY <1>7 DEF StartRun
<1>8. CASE FinishRun(t)
  <2>1. MaySignal(t) \in BOOLEAN
    BY FuncType DEF MaySignal
  <2> QED BY <1>8, <2>1 DEF FinishRun
<1>9. CASE BeginPass(t)
  BY <1>9, Bounds DEF BeginPass
<1>10. CASE ReadElement(t)
  BY <1>10 DEF ReadElement, MoreElements
<1>11. CASE WriteElement(t)
  <2>1. idx[t] \in Idx
    BY <1>11, Bounds, ConstantsAssumption DEF WriteElement, MoreElements, Idx
  <2>2. written' \in [Threads -> SUBSET Idx]
    BY <1>11, <2>1 DEF WriteElement, Store
  <2> QED BY <1>11, <2>2 DEF WriteElement, Store
<1>12. CASE NullAccess(t)
  BY <1>12 DEF NullAccess
<1>13. CASE EndPass(t)
  BY <1>13 DEF EndPass
<1>14. CASE SinkCheck(t)
  BY <1>14 DEF SinkCheck
<1>15. CASE SinkOpen(t)
  BY <1>15 DEF SinkOpen
<1>16. CASE SinkWrite(t)
  BY <1>16 DEF SinkWrite
<1> QED
  BY <1>1, <1>2, <1>3, <1>4, <1>5, <1>6, <1>7, <1>8, <1>9, <1>10, <1>11, <1>12,
     <1>13, <1>14, <1>15, <1>16 DEF Step

LEMMA TypeNext == TypeOK /\ [Next]_vars => TypeOK'
<1> SUFFICES ASSUME TypeOK, [Next]_vars PROVE TypeOK'
  OBVIOUS
<1>1. CASE \E t \in Threads : Step(t)
  BY <1>1, TypeStep
<1>2. CASE Stopped \/ UNCHANGED vars
  BY <1>2 DEF Stopped, TypeOK, vars
<1> QED BY <1>1, <1>2 DEF Next

\* No run stores outside the array or leaves the labels of the code.
THEOREM TypeCorrect == Spec => []TypeOK
  BY TypeInit, TypeNext, PTL DEF Spec

-----------------------------------------------------------------------------
(* The inductive invariant, part by part. *)

\* The flag and the pointer are only ever set, and by a thread that says so.
LEMMA FlagStep ==
  ASSUME TypeOK, FlagInv, NEW t \in Threads, Step(t)
  PROVE  FlagInv'
<1> USE DEF TypeOK, FlagInv, At, Goto, Labels, Preparing, InPass, arrayVars, sampleVars,
     sinkVars, Blocks
<1>1. CASE CheckFlag(t)
  BY <1>1 DEF CheckFlag
<1>2. CASE ClaimFlag(t)
  BY <1>2 DEF ClaimFlag
<1>3. CASE AllocArray(t)
  BY <1>3, ConstantsAssumption DEF AllocArray
<1>4. CASE FillElement(t)
  BY <1>4 DEF FillElement, Store
<1>5. CASE FillDone(t)
  BY <1>5 DEF FillDone
<1>6. CASE Spin(t)
  BY <1>6 DEF Spin, vars
<1>7. CASE StartRun(t)
  BY <1>7 DEF StartRun
<1>8. CASE FinishRun(t)
  BY <1>8 DEF FinishRun
<1>9. CASE BeginPass(t)
  BY <1>9 DEF BeginPass
<1>10. CASE ReadElement(t)
  BY <1>10 DEF ReadElement
<1>11. CASE WriteElement(t)
  BY <1>11 DEF WriteElement, Store
<1>12. CASE NullAccess(t)
  BY <1>12 DEF NullAccess
<1>13. CASE EndPass(t)
  BY <1>13 DEF EndPass
<1>14. CASE SinkCheck(t)
  BY <1>14 DEF SinkCheck
<1>15. CASE SinkOpen(t)
  BY <1>15 DEF SinkOpen
<1>16. CASE SinkWrite(t)
  BY <1>16 DEF SinkWrite
<1> QED
  BY <1>1, <1>2, <1>3, <1>4, <1>5, <1>6, <1>7, <1>8,
     <1>9, <1>10, <1>11, <1>12, <1>13, <1>14, <1>15, <1>16 DEF Step

\* A malloc starts an empty block of a thread that is filling it; a store adds
\* one element at the right of what its owner has filled, or one that is there.
LEMMA BlockStep ==
  ASSUME TypeOK, FlagInv, BlockInv, NEW t \in Threads, Step(t)
  PROVE  BlockInv'
<1> USE DEF TypeOK, BlockInv, At, Goto, Labels, Preparing, InPass, arrayVars, sampleVars,
     sinkVars, Early, Idx, FlagInv
<1>1. CASE CheckFlag(t)
  BY <1>1 DEF CheckFlag
<1>2. CASE ClaimFlag(t)
  BY <1>2 DEF ClaimFlag
<1>3. CASE AllocArray(t)
  BY <1>3, ConstantsAssumption DEF AllocArray
<1>4. CASE FillElement(t)
  <2> SUFFICES ASSUME NEW b \in Threads, shared_array = b
               PROVE  \/ pc[b] = "fill" /\ 0..(idx'[b] - 1) \subseteq written'[b]
                      \/ pc[b] \notin Early /\ written'[b] = Idx
    BY <1>4 DEF FillElement
  <2>1. idx[t] \in Idx /\ idx[t] \in Nat /\ pc[t] = "fill"
    BY <1>4, ConstantsAssumption DEF FillElement, FillBound
  <2>2. written'[b] = written[b] \union {idx[t]}
    BY <1>4 DEF FillElement, Store
  <2>3. CASE b = t
    <3>1. 0..(idx[t] - 1) \subseteq written[t]
      BY <2>1, <2>3
    <3>2. 0..(idx[t] + 1 - 1) = 0..(idx[t] - 1) \union {idx[t]}
      BY <2>1
    <3>3. idx'[t] = idx[t] + 1
      BY <1>4 DEF FillElement
    <3> QED BY <2>1, <2>2, <2>3, <3>1, <3>2, <3>3
  <2>4. CASE b # t
    <3>1. idx'[b] = idx[b]
      BY <1>4, <2>4 DEF FillElement
    <3>2. CASE pc[b] = "fill" /\ 0..(idx[b] - 1) \subseteq written[b]
      BY <2>2, <3>1, <3>2
    <3>3. CASE pc[b] \notin Early /\ written[b] = Idx
      BY <2>1, <2>2, <3>3
    <3> QED BY <3>2, <3>3
  <2> QED BY <2>3, <2>4
<1>5. CASE FillDone(t)
  <2>1. 0..(idx[t] - 1) \subseteq written[t] => written[t] = Idx
    <3>1. idx[t] >= N /\ idx[t] \in Nat /\ written[t] \subseteq Idx
      BY <1>5 DEF FillDone, FillBound
    <3>2. Idx \subseteq 0..(idx[t] - 1)
      BY <3>1, ConstantsAssumption
    <3> QED BY <3>1, <3>2
  <2> QED BY <1>5, <2>1 DEF FillDone
<1>6. CASE Spin(t)
  BY <1>6 DEF Spin, vars
<1>7. CASE StartRun(t)
  BY <1>7 DEF StartRun
<1>8. CASE FinishRun(t)
  BY <1>8 DEF FinishRun
<1>9. CASE BeginPass(t)
  BY <1>9 DEF BeginPass
<1>10. CASE ReadElement(t)
  BY <1>10 DEF ReadElement, MoreElements
<1>11. CASE WriteElement(t)
  BY <1>11, ConstantsAssumption, TypeStep DEF WriteElement, Store
<1>12. CASE NullAccess(t)
  BY <1>12 DEF NullAccess
<1>13. CASE EndPass(t)
  BY <1>13 DEF EndPass
<1>14. CASE SinkCheck(t)
  BY <1>14 DEF SinkCheck
<1>15. CASE SinkOpen(t)
  BY <1>15 DEF SinkOpen
<1>16. CASE SinkWrite(t)
  BY <1>16 DEF SinkWrite
<1> QED
  BY <1>1, <1>2, <1>3, <1>4, <1>5, <1>6, <1>7, <1>8,
     <1>9, <1>10, <1>11, <1>12, <1>13, <1>14, <1>15, <1>16 DEF Step

\* A pass begins only while rows are missing, and adds one.
LEMMA RowStep ==
  ASSUME TypeOK, RowInv, NEW t \in Threads, Step(t)
  PROVE  RowInv'
<1> USE DEF TypeOK, RowInv, At, Goto, Labels, Preparing, InPass, arrayVars, sampleVars,
     sinkVars
<1>1. CASE CheckFlag(t)
  BY <1>1, FuncType DEF CheckFlag
<1>2. CASE ClaimFlag(t)
  BY <1>2, FuncType DEF ClaimFlag
<1>3. CASE AllocArray(t)
  BY <1>3, FuncType DEF AllocArray
<1>4. CASE FillElement(t)
  BY <1>4, FuncType DEF FillElement, Store
<1>5. CASE FillDone(t)
  BY <1>5, FuncType DEF FillDone
<1>6. CASE Spin(t)
  BY <1>6 DEF Spin, vars
<1>7. CASE StartRun(t)
  BY <1>7, FuncType DEF StartRun, MustWait
<1>8. CASE FinishRun(t)
  BY <1>8, FuncType DEF FinishRun, MaySignal
<1>9. CASE BeginPass(t)
  BY <1>9, FuncType DEF BeginPass
<1>10. CASE ReadElement(t)
  BY <1>10, FuncType DEF ReadElement
<1>11. CASE WriteElement(t)
  BY <1>11, FuncType DEF WriteElement, Store
<1>12. CASE NullAccess(t)
  BY <1>12, FuncType DEF NullAccess
<1>13. CASE EndPass(t)
  BY <1>13, FuncType DEF EndPass
<1>14. CASE SinkCheck(t)
  BY <1>14, FuncType DEF SinkCheck
<1>15. CASE SinkOpen(t)
  BY <1>15, FuncType DEF SinkOpen
<1>16. CASE SinkWrite(t)
  BY <1>16, FuncType DEF SinkWrite
<1> QED
  BY <1>1, <1>2, <1>3, <1>4, <1>5, <1>6, <1>7, <1>8,
     <1>9, <1>10, <1>11, <1>12, <1>13, <1>14, <1>15, <1>16 DEF Step

\* can_run is set once, by thread 0 on its way out.
LEMMA SignalStep ==
  ASSUME TypeOK, SignalInv, NEW t \in Threads, Step(t)
  PROVE  SignalInv'
<1> USE DEF TypeOK, SignalInv, At, Goto, Labels, Preparing, InPass, arrayVars, sampleVars,
     sinkVars, Released, Threads
<1>1. CASE CheckFlag(t)
  BY <1>1 DEF CheckFlag
<1>2. CASE ClaimFlag(t)
  BY <1>2 DEF ClaimFlag
<1>3. CASE AllocArray(t)
  BY <1>3 DEF AllocArray
<1>4. CASE FillElement(t)
  BY <1>4 DEF FillElement, Store
<1>5. CASE FillDone(t)
  BY <1>5 DEF FillDone
<1>6. CASE Spin(t)
  BY <1>6 DEF Spin, vars
<1>7. CASE StartRun(t)
  BY <1>7, FuncType DEF StartRun, MustWait
<1>8. CASE FinishRun(t)
  BY <1>8, FuncType DEF FinishRun, MaySignal
<1>9. CASE BeginPass(t)
  BY <1>9 DEF BeginPass
<1>10. CASE ReadElement(t)
  BY <1>10 DEF ReadElement
<1>11. CASE WriteElement(t)
  BY <1>11 DEF WriteElement, Store
<1>12. CASE NullAccess(t)
  BY <1>12 DEF NullAccess
<1>13. CASE EndPass(t)
  BY <1>13 DEF EndPass
<1>14. CASE SinkCheck(t)
  BY <1>14 DEF SinkCheck
<1>15. CASE SinkOpen(t)
  BY <1>15 DEF SinkOpen
<1>16. CASE SinkWrite(t)
  BY <1>16 DEF SinkWrite
<1> QED
  BY <1>1, <1>2, <1>3, <1>4, <1>5, <1>6, <1>7, <1>8,
     <1>9, <1>10, <1>11, <1>12, <1>13, <1>14, <1>15, <1>16 DEF Step

-----------------------------------------------------------------------------
(* The theorems. *)

LEMMA IInvInit == Init => IInv
<1> SUFFICES ASSUME Init PROVE IInv
  OBVIOUS
<1>1. TypeOK
  BY TypeInit
<1>2. FlagInv
  BY DEF Init, FlagInv
<1>3. BlockInv
  BY ConstantsAssumption DEF Init, BlockInv
<1>4. RowInv
  BY <1>1, FuncType DEF Init, RowInv, InPass
<1>5. SignalInv
  BY DEF Init, SignalInv, Released, Threads, InPass
<1> QED BY <1>1, <1>2, <1>3, <1>4, <1>5 DEF IInv

LEMMA IInvNext == IInv /\ [Next]_vars => IInv'
<1> SUFFICES ASSUME IInv, [Next]_vars PROVE IInv'
  OBVIOUS
<1>1. CASE \E t \in Threads : Step(t)
  <2>1. PICK t \in Threads : Step(t)
    BY <1>1
  <2>2. TypeOK'
    BY <2>1, TypeStep DEF IInv
  <2>3. FlagInv'
    BY <2>1, FlagStep DEF IInv
  <2>4. BlockInv'
    BY <2>1, BlockStep DEF IInv
  <2>5. RowInv'
    BY <2>1, RowStep DEF IInv
  <2>6. SignalInv'
    BY <2>1, SignalStep DEF IInv
  <2> QED BY <2>2, <2>3, <2>4, <2>5, <2>6 DEF IInv
<1>2. CASE Stopped \/ UNCHANGED vars
  <2>1. UNCHANGED vars
    BY <1>2 DEF Stopped
  <2>2. TypeOK' /\ FlagInv' /\ SignalInv'
    BY <2>1 DEF IInv, vars, TypeOK, FlagInv, SignalInv, Released
  <2>3. BlockInv' /\ RowInv'
    BY <2>1 DEF IInv, vars, BlockInv, RowInv
  <2> QED BY <2>2, <2>3 DEF IInv
<1> QED BY <1>1, <1>2 DEF Next

\* The invariant all the others follow from.
THEOREM Inductive == Spec => []IInv
  BY IInvInit, IInvNext, PTL DEF Spec

\* Thread 1 of a table that hands over measures nothing before thread 0 has
\* recorded every row of its own, whichever of them prepared the array.
THEOREM PassOrderHolds == Spec => []PassOrder
<1>1. IInv => PassOrder
  BY DEF IInv, RowInv, SignalInv, PassOrder, Threads
<1> QED BY <1>1, Inductive, PTL

\* The array is whole once somebody has begun to prepare it and nobody is
\* preparing it any more: no interleaving of two preparations leaves the
\* pointer at a block with a hole.
LEMMA PreparedFromIInv == IInv => PreparedArray
<1> SUFFICES ASSUME IInv, sa_flag, \A t \in Threads : pc[t] \notin Preparing
             PROVE  shared_array # NoArray /\ written[shared_array] = Idx
  BY DEF PreparedArray
<1>1. shared_array # NoArray
  BY DEF IInv, FlagInv, Preparing
<1>2. shared_array \in Threads
  BY <1>1 DEF IInv, TypeOK, Blocks
<1> QED BY <1>1, <1>2 DEF IInv, BlockInv, Preparing

THEOREM PreparedArrayHolds == Spec => []PreparedArray
  BY PreparedFromIInv, Inductive, PTL

LEMMA SafeFromIInv == IInv => SecondReaderSafe
<1> SUFFICES ASSUME IInv, Released
             PROVE  shared_array # NoArray /\ written[shared_array] = Idx
  BY DEF SecondReaderSafe
<1>1. pc[0] = "done" /\ pc[1] \in {"pass", "done"} \union InPass
  BY DEF IInv, SignalInv, Released
<1>2. sa_flag
  BY <1>1 DEF IInv, FlagInv, Threads
<1>3. \A t \in Threads : pc[t] \notin Preparing
  BY <1>1 DEF Threads, Preparing, InPass
<1> QED BY <1>2, <1>3, PreparedFromIInv DEF PreparedArray

\* A thread 1 that waited for its turn finds the whole array.
THEOREM SecondReaderSafeHolds == Spec => []SecondReaderSafe
  BY SafeFromIInv, Inductive, PTL

-----------------------------------------------------------------------------
(* Time stamps and the descriptor: invariants that stand beside IInv. *)

\* A thread whose function stamps every pass has pushed one stamp per row, and
\* one more while a pass is under way; one whose function stamps none, no stamp.
StampInv ==
  \A t \in Threads :
    /\ func[t].timed = 0..(func[t].passes - 1) =>
         times[t] = counts[t] + (IF pc[t] \in InPass THEN 1 ELSE 0)
    /\ func[t].timed = {} => times[t] = 0

LEMMA StampStep ==
  ASSUME TypeOK, StampInv, NEW t \in Threads, Step(t)
  PROVE  StampInv'
<1> USE DEF TypeOK, StampInv, At, Goto, Labels, Preparing, InPass, arrayVars,
     sampleVars, sinkVars
<1>1. CASE CheckFlag(t)
  BY <1>1 DEF CheckFlag
<1>2. CASE ClaimFlag(t)
  BY <1>2 DEF ClaimFlag
<1>3. CASE AllocArray(t)
  BY <1>3 DEF AllocArray
<1>4. CASE FillElement(t)
  BY <1>4 DEF FillElement
<1>5. CASE FillDone(t)
  BY <1>5 DEF FillDone
<1>6. CASE Spin(t)
  BY <1>6 DEF Spin, vars
<1>7. CASE StartRun(t)
  BY <1>7 DEF StartRun
<1>8. CASE FinishRun(t)
  BY <1>8 DEF FinishRun
<1>9. CASE BeginPass(t)
  BY <1>9, FuncType DEF BeginPass
<1>10. CASE ReadElement(t)
  BY <1>10 DEF ReadElement, MoreElements
<1>11. CASE WriteElement(t)
  BY <1>11 DEF WriteElement, MoreElements
<1>12. CASE NullAccess(t)
  BY <1>12 DEF NullAccess, MoreElements
<1>13. CASE EndPass(t)
  BY <1>13 DEF EndPass
<1>14. CASE SinkCheck(t)
  BY <1>14 DEF SinkCheck
<1>15. CASE SinkOpen(t)
  BY <1>15 DEF SinkOpen
<1>16. CASE SinkWrite(t)
  BY <1>16 DEF SinkWrite
<1> QED
  BY <1>1, <1>2, <1>3, <1>4, <1>5, <1>6, <1>7, <1>8,
     <1>9, <1>10, <1>11, <1>12, <1>13, <1>14, <1>15, <1>16 DEF Step

\* The stamps and the rows keep this relation in every reachable state.
LEMMA StampInductive == Spec => []StampInv
<1>1. Init => StampInv
  BY DEF Init, StampInv, InPass
<1>2. TypeOK /\ StampInv /\ [Next]_vars => StampInv'
  <2> SUFFICES ASSUME TypeOK, StampInv, [Next]_vars PROVE StampInv'
    OBVIOUS
  <2>1. CASE \E t \in Threads : Step(t)
    BY <2>1, StampStep
  <2>2. CASE Stopped \/ UNCHANGED vars
    BY <2>2 DEF Stopped, vars, StampInv
  <2> QED BY <2>1, <2>2 DEF Next
<1> QED BY <1>1, <1>2, TypeCorrect, PTL DEF Spec

\* If each function stamps all of its passes or none, main finds a time stamp
\* beside every row of those that do and no stamp of those that do not, and as
\* many rows as passes once the thread has returned.
THEOREM RowsStampedHolds ==
  ASSUME \A g \in FuncTables, t \in Threads : g[t].timed \in {{}, 0..(g[t].passes - 1)}
  PROVE  Spec => []RowsStamped
<1>1. IInv /\ StampInv => RowsStamped
  BY DEF IInv, TypeOK, RowInv, StampInv, RowsStamped
<1> QED BY <1>1, StampInductive, Inductive, PTL

\* Four of the five functions of benchmarks.cc stamp all of their passes, for any
\* number of iterations, odd ones too; the fifth stamps none.
StampedFunctions == {T1, T2, T3, T4}
CodeFunctions    == StampedFunctions \cup {WriteAll}

LEMMA CodeStamps ==
  ASSUME NEW g \in CodeFunctions
  PROVE  /\ g \in Benchmark
         /\ g \in StampedFunctions => g.timed = 0..(g.passes - 1)
         /\ g \notin StampedFunctions => g.timed = {}
<1>1. Iterations \in Nat /\ Iterations \div 2 \in Nat /\ FixedReads \in Nat /\ HalfRead \in BOOLEAN
  BY ConstantsAssumption
<1>2. ASSUME g \in StampedFunctions PROVE g \in Benchmark /\ g.timed = 0..(g.passes - 1)
  <2>1. CASE g = T1
    BY <1>1, <2>1 DEF T1, Benchmark
  <2>2. CASE g = T2
    <3> DEFINE half == Iterations \div 2
    <3>1. half \in Nat
      BY <1>1
    <3> HIDE DEF half
    <3>2. /\ g.passes = 2 * half + 1 /\ g.writes = {half} /\ g.timed = 0..(2 * half)
          /\ g = [passes |-> 2 * half + 1, writes |-> {half}, timed |-> 0..(2 * half),
                  handoff |-> TRUE, halves |-> FALSE]
      BY <2>2 DEF T2, half
    <3> QED BY <3>1, <3>2 DEF Benchmark
  <2>3. CASE g = T3
    BY <1>1, <2>3 DEF T3, Benchmark
  <2>4. CASE g = T4
    BY <1>1, <2>4 DEF T4, Benchmark
  <2> QED BY <1>2, <2>1, <2>2, <2>3, <2>4 DEF StampedFunctions
<1>3. ASSUME g = WriteAll PROVE g \in Benchmark /\ g.timed = {}
  BY <1>1, <1>3 DEF WriteAll, Benchmark
<1> QED BY <1>2, <1>3 DEF CodeFunctions

\* What main finds in times[] of a thread of the code's own functions.
CodeStamped ==
  \A t \in Threads :
    times[t] = IF func[t] \in StampedFunctions
               THEN counts[t] + (IF pc[t] \in InPass THEN 1 ELSE 0) ELSE 0

\* Hence with any table of the code's own functions the rows of T1 to T4 have their
\* stamps, and those of WriteAll, which main prints with times[j] too (main.cc:203),
\* have none.
THEOREM CodeRowsStamped ==
  ASSUME FuncTables \subseteq [Threads -> CodeFunctions]
  PROVE  Spec => []RowsStamped /\ []CodeStamped
<1>1. \A g \in FuncTables, t \in Threads :
        /\ g[t] \in StampedFunctions => g[t].timed = 0..(g[t].passes - 1)
        /\ g[t] \notin StampedFunctions => g[t].timed = {}
  BY CodeStamps
<1>2. Spec => []RowsStamped
  BY <1>1, RowsStampedHolds
<1>3. TypeOK /\ StampInv => CodeStamped
  <2> SUFFICES ASSUME TypeOK, StampInv, NEW t \in Threads
               PROVE  times[t] = IF func[t] \in StampedFunctions
                                 THEN counts[t] + (IF pc[t] \in InPass THEN 1 ELSE 0) ELSE 0
    BY DEF CodeStamped
  <2>1. func \in FuncTables
    BY DEF TypeOK
  <2> QED BY <1>1, <2>1 DEF StampInv
<1> QED BY <1>2, <1>3, StampInductive, TypeCorrect, PTL

\* Opening is 1 for a thread that found the descriptor missing and has yet to
\* open it.  At most both do, and only before the first descriptor is there.
Opening(t) == IF pc[t] = "open" THEN 1 ELSE 0

SinkInv ==
  /\ opened + Opening(0) + Opening(1) <= 2
  /\ fd = NoFd => opened = 0
  /\ fd = NoFd => \A t \in Threads : pc[t] # "drain"

LEMMA SinkStep ==
  ASSUME OpenMayFail = FALSE, TypeOK, SinkInv, NEW t \in Threads, Step(t)
  PROVE  SinkInv'
<1> USE DEF TypeOK, SinkInv, Opening, Threads, NoFd, At, Goto, Labels, Preparing, InPass,
     arrayVars, sampleVars, sinkVars
<1>1. CASE CheckFlag(t)
  BY <1>1 DEF CheckFlag
<1>2. CASE ClaimFlag(t)
  BY <1>2 DEF ClaimFlag
<1>3. CASE AllocArray(t)
  BY <1>3 DEF AllocArray
<1>4. CASE FillElement(t)
  BY <1>4 DEF FillElement
<1>5. CASE FillDone(t)
  BY <1>5 DEF FillDone
<1>6. CASE Spin(t)
  BY <1>6 DEF Spin, vars
<1>7. CASE StartRun(t)
  BY <1>7 DEF StartRun
<1>8. CASE FinishRun(t)
  BY <1>8 DEF FinishRun
<1>9. CASE BeginPass(t)
  BY <1>9 DEF BeginPass
<1>10. CASE ReadElement(t)
  BY <1>10 DEF ReadElement, MoreElements
<1>11. CASE WriteElement(t)
  BY <1>11 DEF WriteElement, MoreElements
<1>12. CASE NullAccess(t)
  BY <1>12 DEF NullAccess, MoreElements
<1>13. CASE EndPass(t)
  BY <1>13 DEF EndPass
<1>14. CASE SinkCheck(t)
  BY <1>14 DEF SinkCheck
<1>15. CASE SinkOpen(t)
  BY <1>15 DEF SinkOpen
<1>16. CASE SinkWrite(t)
  BY <1>16 DEF SinkWrite
<1> QED
  BY <1>1, <1>2, <1>3, <1>4, <1>5, <1>6, <1>7, <1>8,
     <1>9, <1>10, <1>11, <1>12, <1>13, <1>14, <1>15, <1>16 DEF Step

LEMMA SinkAlways == ASSUME OpenMayFail = FALSE PROVE Spec => []SinkInv
<1>1. Init => SinkInv
  BY DEF Init, SinkInv, Opening, Threads
<1>2. TypeOK /\ SinkInv /\ [Next]_vars => SinkInv'
  <2> SUFFICES ASSUME TypeOK, SinkInv, [Next]_vars PROVE SinkInv'
    OBVIOUS
  <2>1. CASE \E t \in Threads : Step(t)
    BY <2>1, SinkStep
  <2>2. CASE Stopped \/ UNCHANGED vars
    BY <2>2 DEF Stopped, vars, SinkInv, Opening
  <2> QED BY <2>1, <2>2 DEF Next
<1> QED BY <1>1, <1>2, TypeCorrect, PTL DEF Spec

\* As long as open does not fail no thread writes to descriptor -1, although a
\* thread may use the descriptor while the other one replaces it.
THEOREM SinkFdValidHolds == ASSUME OpenMayFail = FALSE PROVE Spec => []SinkFdValid
<1>1. SinkInv => SinkFdValid
  BY DEF SinkInv, SinkFdValid
<1> QED BY <1>1, SinkAlways, PTL

\* And at most one descriptor too many is opened, however long the run.
THEOREM OneDescriptorLeakedHolds ==
  ASSUME OpenMayFail = FALSE PROVE Spec => []OneDescriptorLeaked
<1>1. Cardinality(Threads) = 2
  <2>1. IsFiniteSet({0}) /\ Cardinality({0}) = 1
    BY FS_Singleton
  <2>2. Cardinality({0} \union {1}) = 2
    BY <2>1, FS_AddElement
  <2>3. Threads = {0} \union {1}
    BY DEF Threads
  <2> QED BY <2>2, <2>3
<1>2. TypeOK /\ SinkInv => OneDescriptorLeaked
  BY <1>1 DEF TypeOK, SinkInv, Opening, OneDescriptorLeaked
<1> QED BY <1>2, SinkAlways, TypeCorrect, PTL

-----------------------------------------------------------------------------
(* The benchmark implements OrderedRuns. *)

LEMMA OrderedInit == Init => Ordered!Init
  BY DEF Init, Ordered!Init, InPass

\* What a thread does outside a pass, or within one, leaves the passes alone.
LEMMA StepOutsidePasses ==
  ASSUME TypeOK, NEW t \in Threads, UNCHANGED <<func, counts, crashed>>,
         NEW l \in Labels, pc' = [pc EXCEPT ![t] = l], pc[t] \in InPass <=> l \in InPass
  PROVE  UNCHANGED Ordered!vars
<1>1. \A u \in Threads : pc'[u] \in InPass <=> pc[u] \in InPass
  BY DEF TypeOK
<1> QED BY <1>1 DEF Ordered!vars

\* Every step of a thread is a step of OrderedRuns or leaves its state alone.
LEMMA OrderedStep ==
  ASSUME IInv, NEW t \in Threads, Step(t)
  PROVE  [Ordered!Next]_Ordered!vars
<1> USE DEF At, Goto, InPass
<1>t. TypeOK
  BY DEF IInv
<1>1. CASE BeginPass(t)
  <2>1. t = 1 /\ func[t].handoff => func[0].handoff /\ counts[0] = func[0].passes
    BY <1>1 DEF BeginPass, IInv, SignalInv, RowInv, Released, Threads
  <2>2. {u \in Threads : pc[u] \in InPass}' = {u \in Threads : pc[u] \in InPass} \union {t}
    BY <1>1, <1>t DEF BeginPass, TypeOK
  <2>3. Ordered!BeginPass(t)
    BY <1>1, <2>1, <2>2 DEF BeginPass, Ordered!BeginPass, Ordered!HasTurn, Ordered!Waits, sampleVars
  <2> QED BY <2>3 DEF Ordered!Next, Ordered!Measure
<1>2. CASE SinkWrite(t)
  <2>1. {u \in Threads : pc[u] \in InPass}' = {u \in Threads : pc[u] \in InPass} \ {t}
    BY <1>2, <1>t DEF SinkWrite, TypeOK
  <2>2. Ordered!RecordRow(t)
    BY <1>2, <2>1 DEF SinkWrite, Ordered!RecordRow
  <2> QED BY <2>2 DEF Ordered!Next, Ordered!Measure
<1>3. CASE NullAccess(t)
  <2>1. ~(t = 1 /\ func[t].handoff)
    BY <1>3, SafeFromIInv DEF NullAccess, MoreElements, SecondReaderSafe, Released
  <2>2. Ordered!Abort(t)
    BY <1>3, <2>1 DEF NullAccess, MoreElements, Ordered!Abort, Ordered!Waits, sampleVars
  <2> QED BY <2>2 DEF Ordered!Next, Ordered!Measure
<1>4. CASE Spin(t) \/ FillElement(t) \/ ReadElement(t) \/ WriteElement(t)
  BY <1>4 DEF Spin, FillElement, ReadElement, WriteElement, vars, sampleVars,
     Ordered!vars
<1>5. CASE CheckFlag(t)
  BY <1>5, <1>t, StepOutsidePasses DEF CheckFlag, sampleVars, Labels, Preparing
<1>6. CASE ClaimFlag(t) \/ AllocArray(t) \/ FillDone(t)
  BY <1>6, <1>t, StepOutsidePasses
  DEF ClaimFlag, AllocArray, FillDone, sampleVars, Labels, Preparing
<1>7. CASE StartRun(t) \/ FinishRun(t)
  BY <1>7, <1>t, StepOutsidePasses DEF StartRun, FinishRun, sampleVars, Labels
<1>8. CASE EndPass(t) \/ SinkOpen(t)
  BY <1>8, <1>t, StepOutsidePasses DEF EndPass, SinkOpen, sampleVars, Labels
<1>9. CASE SinkCheck(t)
  BY <1>9, <1>t, StepOutsidePasses DEF SinkCheck, sampleVars, Labels
<1> QED
  BY <1>1, <1>2, <1>3, <1>4, <1>5, <1>6, <1>7, <1>8, <1>9 DEF Step

\* The safety part of ImplementsOrderedRuns: no step of the threads begins,
\* ends or aborts a pass other than as OrderedRuns allows.
THEOREM RefinesOrderedRuns == Spec => Ordered!Init /\ [][Ordered!Next]_Ordered!vars
<1>1. IInv /\ [Next]_vars => [Ordered!Next]_Ordered!vars
  <2> SUFFICES ASSUME IInv, [Next]_vars PROVE [Ordered!Next]_Ordered!vars
    OBVIOUS
  <2>1. CASE \E t \in Threads : Step(t)
    BY <2>1, OrderedStep
  <2>2. CASE Stopped \/ UNCHANGED vars
    BY <2>2 DEF Stopped, vars, Ordered!vars
  <2> QED BY <2>1, <2>2 DEF Next
<1> QED BY <1>1, OrderedInit, Inductive, PTL DEF Spec

-----------------------------------------------------------------------------
(* Progress: the threads come to an end, or hang in the one way there is. *)

\* The measure is a number of steps.
LEMMA StepsLeftType ==
  ASSUME TypeOK, RowInv, NEW t \in Threads
  PROVE  StepsLeft(t) \in Nat /\ LaterPasses(t) \in Nat
<1> DEFINE more == func[t].passes - counts[t] - (IF pc[t] \in InPass THEN 1 ELSE 0)
<1>1. pc[t] \in Labels /\ idx[t] \in Nat /\ counts[t] \in Nat
  BY DEF TypeOK
<1>2. more \in Nat
  BY <1>1, FuncType DEF RowInv
<1>3. StepsPerPass \in Nat
  BY ConstantsAssumption DEF StepsPerPass
<1>4. LaterPasses(t) \in Nat
  <2>1. \A a, b \in Nat : a * b \in Nat
    OBVIOUS
  <2>2. more * StepsPerPass \in Nat
    BY <2>1, <1>2, <1>3
  <2> QED BY <2>2 DEF LaterPasses
<1>5. ElementsLeft(t, Hi(t)) \in Nat /\ ElementsLeft(t, FillBound) \in Nat
  BY <1>1, Bounds, ConstantsAssumption DEF ElementsLeft, FillBound
<1>6. pc[t] \in InPass => InThisPass(t) \in Nat
  BY <1>5 DEF InPass, InThisPass
<1>7. pc[t] \notin InPass \union {"done"} => BeforeThePasses(t) \in Nat
  BY <1>1, <1>5, ConstantsAssumption DEF Labels, Preparing, InPass, BeforeThePasses
<1> QED BY <1>1, <1>4, <1>6, <1>7 DEF StepsLeft

\* A step of a thread, unless it changes nothing, brings the end of the thread
\* nearer, or the end of the process.
Nearer(t) ==
  \/ crashed' = crashed /\ StepsLeft(t)' < StepsLeft(t)
  \/ ~crashed /\ crashed' /\ StepsLeft(t)' = StepsLeft(t)

\* What the passes still to be recorded take at most.
Rest(passes, rows) == (passes - rows) * StepsPerPass

LEMMA RestIs ==
  ASSUME NEW p \in Nat, NEW r \in Nat
  PROVE  /\ Rest(p, r) \in Int
         /\ Rest(p, r + 1) = Rest(p, r) - N - 5
         /\ (p - r - 0) * StepsPerPass = Rest(p, r)
         /\ (p - r - 1) * StepsPerPass = Rest(p, r) - N - 5
<1>1. N \in Int
  BY ConstantsAssumption
<1>2. \A k \in Int : (p - r - 0) * k = (p - r) * k /\ (p - r - 1) * k = (p - r) * k - k
                     /\ (p - (r + 1)) * k = (p - r) * k - k /\ (p - r) * k \in Int
  OBVIOUS
<1> QED BY <1>1, <1>2 DEF Rest, StepsPerPass

\* The measure, position by position.
StepsShown(t) ==
  LET rest == Rest(func[t].passes, counts[t])
  IN /\ pc[t] = "check" => StepsLeft(t) = rest + N + 6
     /\ pc[t] = "claim" => StepsLeft(t) = rest + N + 5
     /\ pc[t] = "alloc" => StepsLeft(t) = rest + N + 4
     /\ pc[t] = "fill" => StepsLeft(t) = rest + ElementsLeft(t, N) + 3
     /\ pc[t] = "wait" => StepsLeft(t) = rest + 2
     /\ pc[t] = "pass" => StepsLeft(t) = rest + 1
     /\ pc[t] = "access" => StepsLeft(t) = rest - N + ElementsLeft(t, Hi(t))
     /\ pc[t] = "sink" => StepsLeft(t) = rest - N - 1
     /\ pc[t] = "open" => StepsLeft(t) = rest - N - 2
     /\ pc[t] = "drain" => StepsLeft(t) = rest - N - 3
     /\ pc[t] = "done" => StepsLeft(t) = 0

LEMMA StepsAre ==
  ASSUME TypeOK, NEW t \in Threads
  PROVE  StepsShown(t)
<1>1. /\ func[t].passes \in Nat /\ counts[t] \in Nat /\ idx[t] \in Nat /\ N \in Int
      /\ Hi(t) \in Nat
  BY FuncType, Bounds, ConstantsAssumption DEF TypeOK
<1> DEFINE rest == Rest(func[t].passes, counts[t])
<1>2. /\ rest \in Int
      /\ (func[t].passes - counts[t] - 0) * StepsPerPass = rest
      /\ (func[t].passes - counts[t] - 1) * StepsPerPass = rest - N - 5
  BY <1>1, RestIs
<1>3. LaterPasses(t) = IF pc[t] \in InPass THEN rest - N - 5 ELSE rest
  BY <1>2 DEF LaterPasses
<1>4. ElementsLeft(t, Hi(t)) \in Nat /\ ElementsLeft(t, N) \in Nat
  BY <1>1, ConstantsAssumption DEF ElementsLeft
<1> QED
  BY <1>1, <1>2, <1>3, <1>4 DEF StepsShown, StepsLeft, InThisPass, BeforeThePasses, InPass,
     FillBound

LEMMA StepNearer ==
  ASSUME TypeOK, RowInv, NEW t \in Threads, Step(t), vars' # vars
  PROVE  Nearer(t)
<1>1. /\ pc \in [Threads -> Labels] /\ idx \in [Threads -> Nat] /\ counts \in [Threads -> Nat]
      /\ N \in Nat /\ N > 0 /\ func[t].passes \in Nat
      /\ Hi(t) \in Nat /\ Lo(t) \in Nat /\ Hi(t) <= N
  BY FuncType, Bounds, ConstantsAssumption DEF TypeOK
<1>2. /\ Rest(func[t].passes, counts[t]) \in Int
      /\ Rest(func[t].passes, counts[t] + 1) = Rest(func[t].passes, counts[t]) - N - 5
  BY <1>1, RestIs
<1>3. StepsShown(t) /\ StepsShown(t)'
  <2>1. TypeOK'
    BY TypeStep
  <2>2. StepsShown(t)'
    BY <2>1, StepsAre, PTL
  <2> QED BY <2>2, StepsAre
<1>4. func' = func /\ Hi(t)' = Hi(t)
  BY DEF Step, CheckFlag, ClaimFlag, AllocArray, FillElement, FillDone, Spin, StartRun,
     FinishRun, BeginPass, ReadElement, WriteElement, NullAccess, EndPass, SinkCheck,
     SinkOpen, SinkWrite, vars, Hi
<1> USE <1>1, <1>2, <1>3, <1>4 DEF At, Goto, Nearer, StepsShown, sampleVars
<1>5. CASE CheckFlag(t)
  BY <1>5 DEF CheckFlag
<1>6. CASE ClaimFlag(t)
  BY <1>6 DEF ClaimFlag
<1>7. CASE AllocArray(t)
  BY <1>7 DEF AllocArray, ElementsLeft
<1>8. CASE FillElement(t)
  BY <1>8 DEF FillElement, ElementsLeft, FillBound
<1>9. CASE FillDone(t)
  BY <1>9 DEF FillDone, ElementsLeft, FillBound
<1>10. CASE StartRun(t)
  BY <1>10 DEF StartRun
<1>11. CASE FinishRun(t)
  <2>1. counts[t] = func[t].passes
    BY <1>11 DEF FinishRun, RowInv
  <2>2. Rest(func[t].passes, counts[t]) = 0
    BY <2>1, ConstantsAssumption DEF Rest, StepsPerPass
  <2> QED BY <1>11, <2>2 DEF FinishRun
<1>12. CASE BeginPass(t)
  BY <1>12 DEF BeginPass, ElementsLeft
<1>13. CASE ReadElement(t)
  BY <1>13 DEF ReadElement, ElementsLeft, MoreElements
<1>14. CASE WriteElement(t)
  BY <1>14 DEF WriteElement, ElementsLeft, MoreElements
<1>15. CASE NullAccess(t)
  <2>1. pc' = pc /\ idx' = idx /\ counts' = counts /\ pc[t] = "access"
    BY <1>15 DEF NullAccess, MoreElements
  <2>2. ElementsLeft(t, Hi(t))' = ElementsLeft(t, Hi(t))
    BY <2>1 DEF ElementsLeft
  <2>3. StepsLeft(t)' = StepsLeft(t)
    BY <2>1, <2>2
  <2> QED BY <1>15, <2>3 DEF NullAccess, MoreElements
<1>16. CASE EndPass(t)
  BY <1>16 DEF EndPass, ElementsLeft
<1>17. CASE SinkCheck(t)
  BY <1>17 DEF SinkCheck
<1>18. CASE SinkOpen(t)
  BY <1>18 DEF SinkOpen
<1>19. CASE SinkWrite(t)
  BY <1>19 DEF SinkWrite
<1>20. CASE Spin(t)
  BY <1>20 DEF Spin
<1> QED
  BY <1>5, <1>6, <1>7, <1>8, <1>9, <1>10, <1>11, <1>12, <1>13, <1>14, <1>15, <1>16, <1>17,
     <1>18, <1>19, <1>20 DEF Step

\* The other thread's measure is not touched.
LEMMA OtherKeeps ==
  ASSUME TypeOK, NEW t \in Threads, Step(t), NEW u \in Threads \ {t}
  PROVE  StepsLeft(u)' = StepsLeft(u)
<1>1. pc'[u] = pc[u] /\ idx'[u] = idx[u] /\ counts'[u] = counts[u] /\ func' = func
  BY DEF TypeOK, Step, At, Goto, vars, sampleVars, CheckFlag, ClaimFlag, AllocArray,
     FillElement, FillDone, Spin, StartRun, FinishRun, BeginPass, ReadElement,
     WriteElement, NullAccess, EndPass, SinkCheck, SinkOpen, SinkWrite
<1>2. /\ ElementsLeft(u, Hi(u))' = ElementsLeft(u, Hi(u))
      /\ ElementsLeft(u, FillBound)' = ElementsLeft(u, FillBound)
  BY <1>1 DEF ElementsLeft, Hi, FillBound
<1> QED BY <1>1, <1>2 DEF StepsLeft, LaterPasses, InThisPass, BeforeThePasses

LEMMA WorkType == IInv => StepsLeft(0) \in Nat /\ StepsLeft(1) \in Nat
  BY StepsLeftType DEF IInv, Threads

\* A run has only as many steps as Work says at its beginning.
THEOREM ProgressHolds == Spec => Progress /\ [](Work \in Nat)
<1>1. IInv => Work \in Nat
  BY WorkType DEF Work
<1>2. IInv /\ IInv' /\ [Next]_vars => [Work' < Work]_vars
  <2> SUFFICES ASSUME IInv, IInv', Next, vars' # vars PROVE Work' < Work
    OBVIOUS
  <2>1. PICK t \in Threads : Step(t)
    BY DEF Next, Stopped
  <2>2. PICK u \in Threads : u # t /\ Threads = {t, u}
    BY DEF Threads
  <2>3. Nearer(t) /\ StepsLeft(u)' = StepsLeft(u)
    BY <2>1, <2>2, StepNearer, OtherKeeps DEF IInv
  <2>4. StepsLeft(0) \in Nat /\ StepsLeft(1) \in Nat
    BY WorkType
  <2>5. (StepsLeft(0) \in Nat /\ StepsLeft(1) \in Nat)'
    BY WorkType, PTL
  <2> QED BY <2>2, <2>3, <2>4, <2>5 DEF Work, Nearer, Threads
<1> QED BY <1>1, <1>2, Inductive, PTL DEF Spec, Progress

\* A thread 0 that signals has done so when it is done.
SignalledInv == pc[0] = "done" /\ func[0].handoff => can_run

LEMMA SignalledInit == Init => SignalledInv
  BY DEF Init, SignalledInv, Threads

LEMMA SignalledNext == TypeOK /\ SignalledInv /\ [Next]_vars => SignalledInv'
<1> SUFFICES ASSUME TypeOK, SignalledInv, [Next]_vars PROVE SignalledInv'
  OBVIOUS
<1> USE DEF SignalledInv
<1>1. CASE \E t \in Threads : Step(t)
  <2>1. PICK t \in Threads : Step(t)
    BY <1>1
  <2>2. CASE FinishRun(t)
    BY <2>2, FuncType DEF FinishRun, MaySignal, TypeOK, Goto, Threads
  <2>3. CASE ~FinishRun(t)
    BY <2>1, <2>3 DEF TypeOK, Step, At, Goto, Threads, vars, CheckFlag, ClaimFlag,
       AllocArray, FillElement, FillDone, Spin, StartRun, BeginPass, ReadElement,
       WriteElement, NullAccess, EndPass, SinkCheck, SinkOpen, SinkWrite
  <2> QED BY <2>2, <2>3
<1>2. CASE Stopped \/ UNCHANGED vars
  BY <1>2 DEF Stopped, vars
<1> QED BY <1>1, <1>2 DEF Next

\* A run that has stopped, or spins, is one that ended as it should, or whose
\* table pairs a thread 1 that waits with a thread 0 that does not hand over.
THEOREM OnlyMispairedHangsHolds == Spec => []OnlyMispairedHangs
<1>1. IInv /\ SignalledInv => OnlyMispairedHangs
  BY DEF IInv, SignalInv, SignalledInv, OnlyMispairedHangs, Released, MustWait, Threads,
     Ordered!Mispaired, Ordered!Waits
<1>2. Spec => []SignalledInv
  BY SignalledInit, SignalledNext, TypeCorrect, PTL DEF Spec
<1> QED BY <1>1, <1>2, Inductive, PTL
=============================================================================

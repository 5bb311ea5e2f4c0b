------------------------- MODULE MCSharedArrayBench -------------------------
(* The func[] tables on which TLC checks SharedArrayBench.                    *)
EXTENDS SharedArrayBench

Table(f, g) == [t \in Threads |-> IF t = 0 THEN f ELSE g]

\* T1 built with MULTITHREADED_HALF_ARRAY_READ.
T1Half == [T1 EXCEPT !.halves = TRUE]

\* Each function run by both threads, as main.cc and the recorded experiments
\* do, and the mixtures in which one thread writes while the other one reads
\* or in which only one thread knows of the hand-over.
AllTables ==
  {Table(f, f) : f \in {T1, T1Half, T2, T3, T4, WriteAll}}
    \union {Table(T3, T4), Table(T2, T1), Table(T1, WriteAll), Table(WriteAll, T1)}

\* func[] as it stands in main.cc.
MainTable == {Table(T1, T1)}

\* The fourth experiment of plots/iteration3.
Run4Table == {Table(T3, T4)}
=============================================================================

---------------------------- MODULE MCExperiment ----------------------------
(* The func[] tables on which TLC checks Experiment.                          *)
EXTENDS Experiment

Func(passes, handoff, stamps) == [passes |-> passes, handoff |-> handoff, stamps |-> stamps]

Table(g, h) == [t \in Threads |-> IF t = 0 THEN g ELSE h]

\* Both threads hand over, neither does, a thread that has nothing to measure beside
\* one that makes two passes and one that pushes no times, and a thread 1 that waits in
\* vain.
SmallTables ==
  {Table(Func(1, TRUE, TRUE), Func(1, TRUE, TRUE)),
   Table(Func(1, FALSE, TRUE), Func(1, FALSE, TRUE)),
   Table(Func(0, TRUE, TRUE), Func(2, TRUE, TRUE)),
   Table(Func(0, FALSE, TRUE), Func(1, FALSE, FALSE)),
   Table(Func(1, FALSE, TRUE), Func(1, TRUE, TRUE))}

\* func[] of main.cc, with two passes for ten.
MainTable == {Table(Func(2, TRUE, TRUE), Func(2, TRUE, TRUE))}

\* Thread 1's function is bm_single_d_array_write_multithreaded, with one pass for ten.
WriteTable == {Table(Func(1, TRUE, TRUE), Func(1, FALSE, FALSE))}
=============================================================================

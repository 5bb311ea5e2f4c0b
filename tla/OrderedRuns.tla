----------------------------- MODULE OrderedRuns -----------------------------
(***************************************************************************)
(* What a table of two benchmark functions promises to whoever reads the     *)
(* CSV: each thread measures its passes one after the other and records a    *)
(* row for each; when thread 1's function hands over, none of its passes     *)
(* overlaps, or comes before, one of thread 0's; and all the rows are        *)
(* eventually there, unless a null array kills the process, which a thread   *)
(* 1 that waited for its turn cannot do, or thread 1 waits for a thread 0    *)
(* that does not hand over.                                                  *)
(*                                                                          *)
(* SharedArrayBench implements this specification.                           *)
(***************************************************************************)
EXTENDS Naturals

CONSTANTS
  Threads,      \* {0, 1}
  FuncTables    \* the tables: for each thread, its number of passes and handoff

VARIABLES
  table,        \* the table in use
  active,       \* the threads in the middle of a pass
  rows,         \* the rows each thread has recorded
  aborted       \* the process died

vars == <<table, active, rows, aborted>>

Init ==
  /\ table \in FuncTables
  /\ active = {}
  /\ rows = [t \in Threads |-> 0]
  /\ aborted = FALSE

Waits(t) == t = 1 /\ table[t].handoff

\* A thread that waits for its turn gets it after the other one's last row, if
\* that one hands over.
HasTurn(t) == Waits(t) => table[0].handoff /\ rows[0] = table[0].passes

\* Thread 1 never gets its turn.
Mispaired == Waits(1) /\ ~table[0].handoff

BeginPass(t) ==
  /\ ~aborted
  /\ t \notin active
  /\ rows[t] < table[t].passes
  /\ HasTurn(t)
  /\ active' = active \union {t}
  /\ UNCHANGED <<table, rows, aborted>>

RecordRow(t) ==
  /\ ~aborted
  /\ t \in active
  /\ active' = active \ {t}
  /\ rows' = [rows EXCEPT ![t] = @ + 1]
  /\ UNCHANGED <<table, aborted>>

Abort(t) ==
  /\ ~aborted
  /\ t \in active
  /\ ~Waits(t)
  /\ aborted' = TRUE
  /\ UNCHANGED <<table, active, rows>>

Measure(t) == BeginPass(t) \/ RecordRow(t) \/ Abort(t)

Next == \E t \in Threads : Measure(t)

Spec == Init /\ [][Next]_vars /\ \A t \in Threads : WF_vars(Measure(t))
=============================================================================

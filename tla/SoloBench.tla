------------------------------ MODULE SoloBench ------------------------------
(***************************************************************************)
(* The benchmark functions of benchmarks.cc that use memory of their own:    *)
(* which elements each of them fills, which ones it visits between the two   *)
(* reads of the counters, and which ones it visits after the second read.    *)
(*                                                                          *)
(* The question is whether what is measured is what the function is written  *)
(* to measure: every element the same number of times, none outside the      *)
(* array, and none that was never given a value.                             *)
(***************************************************************************)
EXTENDS Integers

CONSTANTS
  N,               \* n: elements of the one-dimensional array (16384)
  Rows, Cols,      \* arr_2d (1024 and 16)
  MRows, MCols,    \* nrows and ncols of cache_work (50 and 10)
  Bytes,           \* L2_SIZE (262144)
  Line,            \* the 64 elements of one byte that bm_cache_line_test measures
  Word,            \* sizeof(uint64_t) (8)
  Iterations,      \* args.iterations (10)
  Patterns         \* the functions to check

ASSUME SoloAssumption ==
  /\ {N, Rows, Cols, MRows, MCols, Bytes, Line, Word} \subseteq Nat \ {0}
  /\ MCols <= MRows
  /\ Line <= Bytes
  /\ Iterations \in Nat

(***************************************************************************)
(* A pattern: the size of the array in elements, and how many elements are   *)
(* filled, visited while measuring (the k-th of them is visit[k]), and       *)
(* visited in order afterwards, from the element `from' on.                  *)
(***************************************************************************)
Upwards(n) == [k \in 0..(n - 1) |-> k]

Pattern(size, filled, visit, from) ==
  [size |-> size, filled |-> filled, visit |-> visit, from |-> from]

\* bm_single_d_array
SingleArray == Pattern(N, N, Upwards(N), N)

\* bm_2d_array: the inner loop runs along a row.
RowWise ==
  Pattern(Rows * Cols, Rows * Cols,
          [k \in 0..(Rows * Cols - 1) |-> (k \div Cols) * Cols + (k % Cols)],
          Rows * Cols)

\* bm_2d_array_non_cont: the inner loop runs along a column.
ColumnWise_BugRowLength ==
  Pattern(Rows * Cols, Rows * Cols,
          [k \in 0..(Rows * Cols - 1) |-> (k % Rows) * Rows + (k \div Rows)],
          Rows * Cols)

ColumnWise_BugSwappedBounds ==
  Pattern(Rows * Cols, Rows * Cols,
          [k \in 0..(Rows * Cols - 1) |-> (k % Cols) * Cols + (k \div Cols)],
          Rows * Cols)

ColumnWise ==
  Pattern(Rows * Cols, Rows * Cols,
          [k \in 0..(Rows * Cols - 1) |-> (k % Rows) * Cols + (k \div Rows)],
          Rows * Cols)

\* bm_cache_line_test: one line is measured, and the rest is written afterwards
\* so that the line has to give way.
CacheLine == Pattern(Bytes, Bytes, Upwards(Line), Line)

\* oned_arrays: Bytes words are filled in memory for Bytes bytes.  The measured
\* loop is commented out.
OneDArrays == Pattern(Bytes \div Word, Bytes, Upwards(0), Bytes \div Word)

\* cache_work: the row index runs over the columns and the other way round.
CacheWork ==
  Pattern(MRows * MCols, MRows * MCols,
          [k \in 0..(MRows * MCols - 1) |-> (k \div MRows) * MCols + (k % MRows)],
          MRows * MCols)

-----------------------------------------------------------------------------

VARIABLES
  pattern,   \* the function that runs
  pc,        \* where it is
  k,         \* its loop variable
  stored,    \* the elements that were given a value
  visits,    \* how often each element was visited since the pass began
  counts,    \* args.counts
  stray,     \* an element outside the array was used
  unset      \* an element was visited that was never given a value

vars == <<pattern, pc, k, stored, visits, counts, stray, unset>>

Inside(e) == e \in 0..(pattern.size - 1)

Init ==
  /\ pattern \in Patterns
  /\ pc = "fill" /\ k = 0
  /\ stored = {}
  /\ visits = [e \in 0..(pattern.size - 1) |-> 0]
  /\ counts = 0
  /\ stray = FALSE /\ unset = FALSE

Touch(e) ==
  /\ visits' = IF Inside(e) THEN [visits EXCEPT ![e] = @ + 1] ELSE visits
  /\ stray' = (stray \/ ~Inside(e))
  /\ unset' = (unset \/ e \notin stored)

FillElement_BugSkipped ==
  /\ pc = "fill" /\ k < pattern.filled
  /\ stored' = IF k > 0 THEN stored \union {k} ELSE stored
  /\ stray' = (stray \/ ~Inside(k))
  /\ k' = k + 1
  /\ UNCHANGED <<pattern, pc, visits, counts, unset>>

FillElement ==
  /\ pc = "fill" /\ k < pattern.filled
  /\ stored' = stored \union {k}
  /\ stray' = (stray \/ ~Inside(k))
  /\ k' = k + 1
  /\ UNCHANGED <<pattern, pc, visits, counts, unset>>

FillDone ==
  /\ pc = "fill" /\ k >= pattern.filled
  /\ pc' = "pass"
  /\ UNCHANGED <<pattern, k, stored, visits, counts, stray, unset>>

BeginPass_BugInclusive ==
  /\ pc = "pass" /\ counts <= Iterations
  /\ pc' = "measure" /\ k' = 0
  /\ visits' = [e \in DOMAIN visits |-> 0]
  /\ UNCHANGED <<pattern, stored, counts, stray, unset>>

\* The counters are read, the loop starts.
BeginPass ==
  /\ pc = "pass" /\ counts < Iterations
  /\ pc' = "measure" /\ k' = 0
  /\ visits' = [e \in DOMAIN visits |-> 0]
  /\ UNCHANGED <<pattern, stored, counts, stray, unset>>

Measure ==
  /\ pc = "measure" /\ k \in DOMAIN pattern.visit
  /\ Touch(pattern.visit[k])
  /\ k' = k + 1
  /\ UNCHANGED <<pattern, pc, stored, counts>>

\* The counters are read again and the row is recorded.
RecordRow ==
  /\ pc = "measure" /\ k \notin DOMAIN pattern.visit
  /\ counts' = counts + 1
  /\ pc' = "after" /\ k' = pattern.from
  /\ UNCHANGED <<pattern, stored, visits, stray, unset>>

Overwrite ==
  /\ pc = "after" /\ k < pattern.size
  /\ Touch(k)
  /\ k' = k + 1
  /\ UNCHANGED <<pattern, pc, stored, counts>>

EndPass ==
  /\ pc = "after" /\ k >= pattern.size
  /\ pc' = "pass"
  /\ UNCHANGED <<pattern, k, stored, visits, counts, stray, unset>>

Return ==
  /\ pc = "pass" /\ counts >= Iterations
  /\ pc' = "done"
  /\ UNCHANGED <<pattern, k, stored, visits, counts, stray, unset>>

Stopped == pc = "done" /\ UNCHANGED vars

Next ==
  \/ FillElement \/ FillDone \/ BeginPass \/ Measure \/ RecordRow \/ Overwrite \/ EndPass
  \/ Return \/ Stopped

Spec == Init /\ [][Next]_vars

-----------------------------------------------------------------------------
(* Correctness. *)

TypeOK ==
  /\ pattern \in Patterns
  /\ pc \in {"fill", "pass", "measure", "after", "done"}
  /\ k \in Nat
  /\ stored \subseteq Nat
  /\ visits \in [0..(pattern.size - 1) -> Nat]
  /\ counts \in 0..Iterations
  /\ stray \in BOOLEAN /\ unset \in BOOLEAN

\* No function uses an element outside the array it allocated: in particular
\* not cache_work, whose two indices are swapped.
InArray == ~stray

\* Nor one that was never given a value.
OnlyFilled == ~unset

\* A function that walks over its array uses each element exactly once in each
\* pass, whether along the rows, along the columns, or the line that is measured
\* first and the rest afterwards.
EachOncePerPass ==
  pc = "pass" /\ counts > 0 /\ pattern \in {SingleArray, RowWise, ColumnWise, CacheLine} =>
    \A e \in DOMAIN visits : visits[e] = 1
=============================================================================

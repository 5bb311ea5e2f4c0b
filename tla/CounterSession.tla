---------------------------- MODULE CounterSession ----------------------------
(***************************************************************************)
(* What the two calls of configure_counters promise to what runs between     *)
(* them, without registers: a session clears the CPUs, starts the counters of *)
(* each cleared one, measures when all of them count, and goes over them once *)
(* more until all are idle.  CounterConfig implements it, and Experiment is   *)
(* built on it.                                                             *)
(*                                                                          *)
(* A CPU is counting (what it should, from zero), idle (disabled, and its     *)
(* counters are zero) or neither.  A session in which an access failed is     *)
(* broken: it runs its course, but nothing is known of the CPUs any more.     *)
(***************************************************************************)
CONSTANT Cpus

VARIABLES
  phase,      \* where the session is
  counting,   \* the CPUs that count
  idle,       \* the CPUs that are idle
  broken      \* has an access failed?

vars == <<phase, counting, idle, broken>>

Over   == {"over", "dead"}
Phases == {"on", "measuring", "off"} \union Over

\* A CPU may be found idle, but nobody has counted for this program before.
Init ==
  /\ phase = "on"
  /\ counting = {}
  /\ idle \in SUBSET Cpus
  /\ broken = FALSE

\* A CPU is disabled, or its last counter is zero and it is idle.
Clear(n) ==
  /\ phase \in {"on", "off"} /\ ~broken
  /\ counting' = counting \ {n}
  /\ idle' \in {idle, idle \union {n}}
  /\ phase' = phase /\ broken' = broken

\* An idle CPU counts; with the last one the measurement begins.
Start(n) ==
  /\ phase = "on" /\ ~broken
  /\ n \in idle
  /\ counting' = counting \union {n}
  /\ idle' = idle \ {n}
  /\ phase' \in {"on"} \union (IF counting' = Cpus THEN {"measuring"} ELSE {})
  /\ broken' = broken

Stop ==
  /\ phase = "measuring"
  /\ phase' = "off"
  /\ broken' = broken
  /\ UNCHANGED <<counting, idle>>

Finish ==
  /\ phase = "off" /\ ~broken
  /\ idle = Cpus
  /\ phase' = "over"
  /\ broken' = broken
  /\ UNCHANGED <<counting, idle>>

\* An access fails.  It leaves the CPUs as they are, and the session goes on.
Course == {<<"on", "on">>, <<"on", "measuring">>, <<"off", "off">>, <<"off", "over">>}

Break ==
  /\ <<phase, phase'>> \in Course
  /\ broken' = TRUE
  /\ UNCHANGED <<counting, idle>>

Broken ==
  /\ broken
  /\ <<phase, phase'>> \in Course
  /\ counting' \in SUBSET Cpus
  /\ idle' \in SUBSET (Cpus \ counting')
  /\ broken' = broken

\* The process is gone, perhaps because the access that failed was an open.
Die ==
  /\ phase \notin Over
  /\ phase' = "dead"
  /\ broken' \in {broken, TRUE}
  /\ UNCHANGED <<counting, idle>>

\* Another session begins with the CPUs as the last one left them.
Restart ==
  /\ phase \in Over
  /\ phase' = "on"
  /\ broken' = FALSE
  /\ UNCHANGED <<counting, idle>>

Next ==
  \/ \E n \in Cpus : Clear(n) \/ Start(n)
  \/ Stop \/ Finish \/ Break \/ Broken \/ Die \/ Restart

Spec == Init /\ [][Next]_vars

\* No session hangs.
Completes == (phase \notin Over) ~> (phase \in Over)

LiveSpec == Spec /\ Completes
=============================================================================

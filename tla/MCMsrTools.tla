----------------------------- MODULE MCMsrTools -----------------------------
(* The programs that TLC lets run together, and the registers they find.      *)
EXTENDS MsrTools

OneFixed == <<"cycles">>

\* After a boot; and after an L3 counting that was killed.
Booted ==
  [select |-> [c \in Pmcs |-> "none"], fixed |-> FALSE, global |-> {},
   count |-> [c \in Counters |-> 0]]
Left ==
  [Booted EXCEPT !.select["pmc0"] = "miss", !.global = Pmcs, !.count["pmc0"] = 1]

\* What wrmsr is used for.
SomeCommands == {<<Put(0, "pmc0", 9), Put(0, "pmc0", 3)>>, <<Global(0, {})>>}

Everywhere(m) == [n \in Cpus |-> m]
LeftBehind    == [Everywhere(Booted) EXCEPT ![0] = Left]

Scenario(p, found, n, k) == [programs |-> p, found |-> found, events |-> n, faults |-> k]

\* Any value in the register.
AlmostBooted ==
  {Everywhere([Booted EXCEPT !.count["pmc0"] = v]) : v \in 0..(Bit(Width) - 1)}

RdmsrScenarios == {Scenario({"rdmsr"}, AlmostBooted, 0, 0)}

SomeScenarios ==
  RdmsrScenarios \cup
  {Scenario({"l3", "msrtest"}, {LeftBehind}, 2, 0),
   Scenario({"l3", "msrtest"}, {LeftBehind}, 1, 1),
   Scenario({"kernel", "msrtest"}, {Everywhere(Booted)}, 2, 0),
   Scenario({"kernel", "msrtest"}, {LeftBehind}, 1, 0),
   Scenario({"kernel", "l3"}, {Everywhere(Booted)}, 2, 0),
   Scenario({"l3", "wrmsr"}, {Everywhere(Booted)}, 1, 1),
   Scenario({"wrmsr", "rdmsr"}, {LeftBehind}, 0, 1)}

\* The table of decimal digits against doubling in decimal, for all its entries.
Double(d) ==   \* d: decimal digits, the lowest one first
  LET carry[k \in 0..Len(d)] == IF k = 0 THEN 0 ELSE (2 * d[k] + carry[k - 1]) \div 10
      low == [k \in 1..Len(d) |-> (2 * d[k] + carry[k - 1]) % 10]
  IN  IF carry[Len(d)] = 0 THEN low ELSE Append(low, carry[Len(d)])

Doubled[n \in 0..64] == IF n = 0 THEN <<1>> ELSE Double(Doubled[n - 1])

ASSUME DecDigitsRight == \A n \in 0..64 : Rd!DecDigits(n) = Len(Doubled[n])
=============================================================================

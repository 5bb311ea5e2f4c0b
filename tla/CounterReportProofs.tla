------------------------- MODULE CounterReportProofs -------------------------
(***************************************************************************)
(* ReportExact of CounterTools for any number of CPUs, fixed counters, events *)
(* and failures: what an undisturbed program reports is what happened on the  *)
(* CPU.  The argument: from the first read of a counter to the second one the *)
(* counter and the number of its events grow together, so that their          *)
(* difference at the first read is still there at the second one.             *)
(***************************************************************************)
EXTENDS CounterToolsProofs

\* The L3 counting and msrtest read each of their counters twice: Half(p) reads
\* follow the first First(p) accesses, and the same reads once more.
Reporters == {"l3", "msrtest"}

FixedLen == Len(FixedCounters)
First(p) == IF p = "l3" THEN 4 ELSE NumCores * 3
Half(p)  == IF p = "l3" THEN 2 ELSE NumCores * FixedLen
Last2(p) == First(p) + Half(p) + Half(p)   \* after the last read

\* What the read with the number k of a round reads.
SlotCpu(p, k)     == IF p = "l3" THEN 0 ELSE (k - 1) \div FixedLen
SlotCounter(p, k) ==
  IF p = "l3" THEN IF k = 1 THEN "pmc0" ELSE "pmc1" ELSE FixedCounters[((k - 1) % FixedLen) + 1]

Slot(p, j) == IF j <= Half(p) THEN j ELSE j - Half(p)

LEMMA Thirds ==
  ASSUME NEW i \in Nat
  PROVE  i \div 3 \in Nat /\ i % 3 \in 0..2 /\ i = (i \div 3) * 3 + (i % 3)
OBVIOUS

LEMMA SizeTypes ==
  ASSUME NEW p \in Reporters
  PROVE  p \in Programs /\ First(p) \in Nat /\ Half(p) \in Nat /\ Last2(p) \in Nat
<1>1. NumCores \in Nat \ {0} /\ FixedLen \in Nat \ {0}
  BY ToolsAssumption DEF FixedLen
<1>2. NumCores * 3 \in Nat /\ NumCores * FixedLen \in Nat
  BY <1>1
<1> HIDE DEF FixedLen
<1> QED BY <1>2 DEF Reporters, Programs, First, Half, Last2

LEMMA SlotTypes ==
  ASSUME NEW p \in Reporters, NEW k \in 1..Half(p)
  PROVE  /\ SlotCpu(p, k) \in Cpus /\ SlotCpu(p, k) \in CpusOf(p)
         /\ SlotCounter(p, k) \in Owns(p) /\ SlotCounter(p, k) \in Counters
         /\ Meant(SlotCounter(p, k)) \in Events
<1>1. CASE p = "l3"
  <2>1. SlotCpu(p, k) = 0 /\ SlotCounter(p, k) \in Pmcs
    BY <1>1 DEF SlotCpu, SlotCounter, Pmcs
  <2> QED BY <1>1, <2>1, Cores, MeantType DEF CpusOf, Owns, Counters
<1>2. CASE p = "msrtest"
  <2>1. NumCores \in Nat \ {0} /\ FixedLen \in Nat \ {0} /\ k \in 1..(NumCores * FixedLen)
    BY <1>2, ToolsAssumption DEF FixedLen, Half
  <2>2. (k - 1) \div FixedLen \in 0..(NumCores - 1) /\ ((k - 1) % FixedLen) + 1 \in 1..FixedLen
    BY <2>1, Divide
  <2>3. DOMAIN FixedCounters = 1..FixedLen
    BY ToolsAssumption DEF FixedLen
  <2>4. SlotCpu(p, k) \in Cpus /\ SlotCounter(p, k) \in Fixed
    BY <1>2, <2>2, <2>3 DEF SlotCpu, SlotCounter, Cpus, Fixed
  <2> QED BY <1>2, <2>4, MeantType DEF CpusOf, Owns, Counters
<1> QED BY <1>1, <1>2 DEF Reporters

\* The parts of msrtest.
LEMMA MsrTestParts ==
  /\ Len(MsrTest) = Last2("msrtest")
  /\ \A k \in 1..First("msrtest") : MsrTest[k] = SetUp[(k - 1) \div 3][((k - 1) % 3) + 1]
  /\ \A j \in 1..(Half("msrtest") + Half("msrtest")) :
       LET k == Slot("msrtest", j) IN
       MsrTest[First("msrtest") + j] = Read(SlotCpu("msrtest", k), SlotCounter("msrtest", k))
<1> DEFINE a == NumCores * 3
           h == NumCores * FixedLen
<1>1. NumCores \in Nat \ {0} /\ FixedLen \in Nat \ {0} /\ DOMAIN FixedCounters = 1..FixedLen
  BY ToolsAssumption DEF FixedLen
<1>2. a \in Nat /\ h \in Nat
  BY <1>1
<1>3. EachCore(SetUp, 3) = [k \in 1..a |-> SetUp[(k - 1) \div 3][((k - 1) % 3) + 1]]
  BY DEF EachCore
<1>4. ReadAll = [k \in 1..h |-> ReadCore[(k - 1) \div FixedLen][((k - 1) % FixedLen) + 1]]
  BY DEF ReadAll, EachCore, FixedLen
<1>5. First("msrtest") = a /\ Half("msrtest") = h /\ Last2("msrtest") = a + h + h
  BY DEF First, Half, Last2
<1>6. ASSUME NEW k \in 1..h PROVE ReadAll[k] = Read(SlotCpu("msrtest", k), SlotCounter("msrtest", k))
  <2>1. ((k - 1) % FixedLen) + 1 \in 1..FixedLen /\ (k - 1) \div FixedLen \in Cpus
    BY <1>1, <1>6, Divide DEF Cpus
  <2> QED BY <1>1, <1>4, <1>6, <2>1 DEF ReadCore, SlotCpu, SlotCounter
<1>s. EachCore(SetUp, 3) \in Seq(Accesses) /\ ReadAll \in Seq(Accesses)
  BY SetUpsType, ReadAllType
<1> HIDE DEF a, h
<1>7. Len(EachCore(SetUp, 3)) = a /\ Len(ReadAll) = h
  BY <1>2, <1>3, <1>4, <1>s
<1>8. Len(MsrTest) = a + h + h
  BY <1>2, <1>7, <1>s DEF MsrTest
<1>9. ASSUME NEW k \in 1..a PROVE MsrTest[k] = EachCore(SetUp, 3)[k]
  BY <1>2, <1>7, <1>9, <1>s DEF MsrTest
<1>10. ASSUME NEW j \in 1..(h + h) PROVE MsrTest[a + j] = ReadAll[IF j <= h THEN j ELSE j - h]
  BY <1>2, <1>7, <1>10, <1>s DEF MsrTest
<1>11. ASSUME NEW j \in 1..(h + h) PROVE Slot("msrtest", j) \in 1..h /\ Slot("msrtest", j) = IF j <= h THEN j ELSE j - h
  BY <1>2, <1>5, <1>11 DEF Slot
<1> QED BY <1>3, <1>5, <1>6, <1>8, <1>9, <1>10, <1>11

\* The reads of a reporter, and that it has no others.
LEMMA ReadScript ==
  ASSUME NEW p \in Reporters
  PROVE  /\ Len(Script(p)) \in Nat /\ Len(Script(p)) >= Last2(p)
         /\ \A j \in 1..(Half(p) + Half(p)) :
              /\ Slot(p, j) \in 1..Half(p)
              /\ Script(p)[First(p) + j] = Read(SlotCpu(p, Slot(p, j)), SlotCounter(p, Slot(p, j)))
         /\ \A k \in 1..Len(Script(p)) : k <= First(p) \/ k > Last2(p) => Script(p)[k].op # "read"
<1>1. CASE p = "l3"
  <2>1. Script(p) = L3(0) /\ Len(L3(0)) = 13 /\ First(p) = 4 /\ Half(p) = 2 /\ Last2(p) = 8
    BY <1>1, L3Type DEF Script, First, Half, Last2
  <2>2. ASSUME NEW j \in 1..4
        PROVE  Slot(p, j) \in 1..2 /\ L3(0)[4 + j] = Read(SlotCpu(p, Slot(p, j)), SlotCounter(p, Slot(p, j)))
    <3>1. CASE j \in {1, 3}
      <4>1. Slot(p, j) = 1
        BY <2>1, <3>1 DEF Slot
      <4> QED BY <1>1, <3>1, <4>1, L3Accesses DEF SlotCpu, SlotCounter
    <3>2. CASE j \in {2, 4}
      <4>1. Slot(p, j) = 2
        BY <2>1, <3>2 DEF Slot
      <4> QED BY <1>1, <3>2, <4>1, L3Accesses DEF SlotCpu, SlotCounter
    <3> QED BY <3>1, <3>2
  <2>3. ASSUME NEW k \in 1..13, k <= 4 \/ k > 8 PROVE L3(0)[k].op # "read"
    <3>1. k \in {1, 2, 3, 4} => L3(0)[k].op # "read"
      BY L3Accesses DEF Open, Select, Global
    <3>2. k \in {9, 10, 11, 12, 13} => L3(0)[k].op # "read"
      BY L3Accesses DEF Select, Global, Put
    <3> QED BY <2>3, <3>1, <3>2
  <2>4. Half(p) + Half(p) = 4 /\ 1..Half(p) = 1..2
    BY <2>1
  <2>5. ASSUME NEW j \in 1..(Half(p) + Half(p))
        PROVE  /\ Slot(p, j) \in 1..Half(p)
               /\ Script(p)[First(p) + j] = Read(SlotCpu(p, Slot(p, j)), SlotCounter(p, Slot(p, j)))
    BY <2>1, <2>2, <2>4
  <2>6. ASSUME NEW k \in 1..Len(Script(p)), k <= First(p) \/ k > Last2(p) PROVE Script(p)[k].op # "read"
    BY <2>1, <2>3, <2>6
  <2>7. Len(Script(p)) \in Nat /\ Len(Script(p)) >= Last2(p)
    <3>1. Len(Script(p)) = 13
      BY <1>1, L3Type DEF Script
    <3>2. Last2(p) = 8
      BY <2>1
    <3> QED BY <3>1, <3>2
  <2> QED BY <2>5, <2>6, <2>7
<1>2. CASE p = "msrtest"
  <2>1. Script(p) = MsrTest
    BY <1>2 DEF Script
  <2>2. ASSUME NEW j \in 1..(Half(p) + Half(p)) PROVE Slot(p, j) \in 1..Half(p)
    BY <2>2, SizeTypes DEF Slot
  <2>3. ASSUME NEW k \in 1..First(p) PROVE MsrTest[k].op # "read"
    <3>1. k \in 1..First("msrtest") /\ k \in Nat \ {0}
      BY <1>2, SizeTypes
    <3>3. MsrTest[k] = SetUp[(k - 1) \div 3][((k - 1) % 3) + 1]
      BY <3>1, MsrTestParts
    <3>2. (k - 1) \div 3 \in Cpus /\ ((k - 1) % 3) + 1 \in {1, 2, 3}
      <4>1. NumCores \in Nat \ {0} /\ k \in 1..(NumCores * 3)
        BY <3>1, Cores DEF First
      <4>2. (k - 1) \div 3 \in 0..(NumCores - 1) /\ ((k - 1) % 3) + 1 \in 1..3
        BY <4>1, Divide
      <4> QED BY <4>2 DEF Cpus
    <3> QED BY <3>2, <3>3 DEF SetUp, Open, FixedOn, Global
  <2>4. Len(Script(p)) = Last2(p) /\ First(p) \in Nat /\ Half(p) \in Nat /\ Last2(p) \in Nat
    BY <1>2, <2>1, MsrTestParts, SizeTypes
  <2>5. ASSUME NEW j \in 1..(Half(p) + Half(p))
        PROVE  Script(p)[First(p) + j] = Read(SlotCpu(p, Slot(p, j)), SlotCounter(p, Slot(p, j)))
    BY <1>2, <2>1, <2>5, MsrTestParts
  <2>6. ASSUME NEW k \in 1..Len(Script(p)), k <= First(p) \/ k > Last2(p) PROVE Script(p)[k].op # "read"
    <3>1. k \in 1..First(p)
      BY <2>4, <2>6
    <3> QED BY <2>1, <2>3, <3>1
  <2> QED BY <2>2, <2>4, <2>5, <2>6
<1> QED BY <1>1, <1>2 DEF Reporters

-----------------------------------------------------------------------------
(* What makes the counters count. *)

\* From its set-up to its last read an undisturbed reporter finds its counters as it set them.
L3Set ==
  status["l3"] = "running" /\ Undisturbed("l3") =>
    /\ at["l3"] \in 2..9 => msr[0].select["pmc0"] = "miss"
    /\ at["l3"] \in 3..9 => msr[0].select["pmc1"] = "ref"
    /\ at["l3"] \in 4..8 => Pmcs \subseteq msr[0].global

MsrTestSet ==
  status["msrtest"] = "running" /\ Undisturbed("msrtest") =>
    \A n \in Cpus : /\ at["msrtest"] >= n * 3 + 2 => msr[n].fixed
                    /\ at["msrtest"] >= n * 3 + 3 => Fixed \subseteq msr[n].global

\* A counter counts what it is meant to.
Tracks(m, c) == \A e \in Events : Counts(m, c, e) <=> e = Meant(c)

LEMMA SetTracks ==
  ASSUME TypeOK, L3Set, MsrTestSet, NEW p \in Reporters, status[p] = "running", Undisturbed(p),
         at[p] >= First(p), at[p] < Last2(p), NEW k \in 1..Half(p)
  PROVE  Tracks(msr[SlotCpu(p, k)], SlotCounter(p, k))
<1>1. CASE p = "l3"
  <2>0. First(p) = 4 /\ Half(p) = 2 /\ Last2(p) = 8 /\ at[p] \in Nat
    BY <1>1, SizeTypes DEF First, Half, Last2, TypeOK
  <2>1. at[p] \in 4..7 /\ k \in {1, 2} /\ SlotCpu(p, k) = 0
    BY <1>1, <2>0 DEF SlotCpu
  <2>2. /\ msr[0].select["pmc0"] = "miss" /\ msr[0].select["pmc1"] = "ref"
        /\ "pmc0" \in msr[0].global /\ "pmc1" \in msr[0].global
    BY <1>1, <2>1 DEF L3Set, Pmcs
  <2>3. "pmc0" \notin Fixed /\ "pmc1" \notin Fixed
    BY ToolsAssumption
  <2>4. CASE k = 1
    BY <1>1, <2>1, <2>2, <2>3, <2>4 DEF SlotCounter, Tracks, Counts, EventOf, Meant
  <2>5. CASE k = 2
    BY <1>1, <2>1, <2>2, <2>3, <2>5 DEF SlotCounter, Tracks, Counts, EventOf, Meant
  <2> QED BY <2>1, <2>4, <2>5
<1>2. CASE p = "msrtest"
  <2> DEFINE n == SlotCpu(p, k)
             c == SlotCounter(p, k)
  <2>1. n \in Cpus /\ c \in Fixed
    BY <1>2, SlotTypes DEF Owns
  <2> HIDE DEF n, c
  <2>2. at[p] >= n * 3 + 3
    BY <1>2, <2>1, Cores, SizeTypes DEF First, Cpus, TypeOK
  <2>3. msr[n].fixed /\ c \in msr[n].global
    <3>1. at["msrtest"] >= n * 3 + 3 /\ n * 3 + 3 >= n * 3 + 2 /\ at["msrtest"] \in Nat /\ n \in Nat
      BY <1>2, <2>1, <2>2, SizeTypes, Cores DEF TypeOK, Cpus
    <3>2. at["msrtest"] >= n * 3 + 2
      BY <3>1
    <3> QED BY <1>2, <2>1, <3>1, <3>2 DEF MsrTestSet
  <2>4. c \notin {"pmc0", "pmc1"}
    BY <2>1, ToolsAssumption
  <2> QED BY <2>1, <2>3, <2>4 DEF Tracks, Counts, EventOf, Meant, n, c
<1> QED BY <1>1, <1>2 DEF Reporters


\* A write of another program, if it does not spoil p.
LEMMA OthersWrite ==
  ASSUME TypeOK, CommandInv, NEW p \in Programs, status[p] = "running",
         NEW a \in Accesses, a.op \notin {"open", "read"}, ~Spoils(a, p), NEW n \in CpusOf(p), n \in Cpus,
         msr' = [msr EXCEPT ![a.cpu] = Written(@, a)]
  PROVE  /\ msr[n].fixed => msr'[n].fixed
         /\ Owns(p) \subseteq msr[n].global => Owns(p) \subseteq msr'[n].global
         /\ \A c \in Owns(p) \intersect Pmcs : msr'[n].select[c] = msr[n].select[c]
         /\ \A c \in Owns(p) \intersect Counters : msr'[n].count[c] = msr[n].count[c]
<1>0. a.cpu \in Cpus /\ msr[n] \in Msr
  BY OpTypes DEF TypeOK
<1>1. CASE a.cpu # n
  <2>1. msr'[n] = msr[n]
    BY <1>0, <1>1 DEF TypeOK
  <2> QED BY <2>1
<1>2. CASE a.cpu = n
  <2>1. msr'[n] = Written(msr[n], a)
    BY <1>0, <1>2 DEF TypeOK
  <2>2. /\ a.op \in {"select", "put"} => a.counter \notin Owns(p)
        /\ a.op = "global" => Owns(p) \subseteq a.value
    BY <1>2 DEF Spoils
  <2>3. CASE a.op = "select"
    BY <1>0, <2>1, <2>2, <2>3, OpTypes DEF Written, Msr
  <2>4. CASE a.op = "put"
    BY <1>0, <2>1, <2>2, <2>4, OpTypes DEF Written, Msr
  <2>5. CASE a.op = "global"
    BY <1>0, <2>1, <2>2, <2>5 DEF Written, Msr
  <2>6. CASE a.op = "fixed"
    BY <1>0, <2>1, <2>6 DEF Written, Msr
  <2> QED BY <2>3, <2>4, <2>5, <2>6, OpTypes
<1> QED BY <1>1, <1>2

\* An event changes nothing but counts, and those that are there for it by one.
LEMMA EventStep ==
  ASSUME TypeOK, NEW n \in Cpus, NEW e \in Events, Happen(n, e), NEW m \in Cpus
  PROVE  /\ msr'[m].select = msr[m].select /\ msr'[m].fixed = msr[m].fixed
         /\ msr'[m].global = msr[m].global
         /\ \A c \in Counters :
              msr'[m].count[c] = IF m = n /\ Counts(msr[m], c, e) THEN msr[m].count[c] + 1
                                                               ELSE msr[m].count[c]
         /\ \A x \in Events :
              happened'[m][x] = IF m = n /\ x = e THEN happened[m][x] + 1 ELSE happened[m][x]
<1> DEFINE hits == {c \in Counters : Counts(msr[n], c, e)}
           ticked == [c \in Counters |-> IF c \in hits THEN msr[n].count[c] + 1 ELSE msr[n].count[c]]
<1>1. msr' = [msr EXCEPT ![n].count = ticked] /\ msr[n] \in Msr
  BY DEF Happen, TypeOK
<1>2. \A x \in Events :
        happened'[m][x] = IF m = n /\ x = e THEN happened[m][x] + 1 ELSE happened[m][x]
  BY DEF Happen, TypeOK
<1>3. \A c \in Counters :
        ticked[c] = IF Counts(msr[n], c, e) THEN msr[n].count[c] + 1 ELSE msr[n].count[c]
  OBVIOUS
<1> HIDE DEF ticked
<1>4. CASE m = n
  <2>1. msr'[m] = [msr[n] EXCEPT !.count = ticked]
    BY <1>1, <1>4 DEF TypeOK
  <2>2. /\ msr'[m].select = msr[m].select /\ msr'[m].fixed = msr[m].fixed
        /\ msr'[m].global = msr[m].global /\ msr'[m].count = ticked
    BY <1>1, <1>4, <2>1 DEF Msr
  <2> QED BY <1>2, <1>3, <1>4, <2>2
<1>5. CASE m # n
  <2>1. msr'[m] = msr[m]
    BY <1>1, <1>5 DEF TypeOK
  <2> QED BY <1>2, <1>5, <2>1
<1> QED BY <1>4, <1>5

\* The counters of p stay as p set them through a step that is not an access of p.
SameSetting(p) ==
  \A n \in CpusOf(p) :
    /\ msr[n].fixed => msr'[n].fixed
    /\ Owns(p) \subseteq msr[n].global => Owns(p) \subseteq msr'[n].global
    /\ \A c \in Owns(p) \intersect Pmcs : msr'[n].select[c] = msr[n].select[c]

LEMMA SettingStep ==
  ASSUME TypeOK, CommandInv, [Next]_vars, NEW p \in {"kernel"} \union Reporters,
         status'[p] = "running", Undisturbed(p)', at'[p] = at[p], ~Start(p)
  PROVE  /\ status[p] = "running" /\ Undisturbed(p) /\ CpusOf(p)' = CpusOf(p)
         /\ SameSetting(p)
<1>p. p \in Programs /\ CpusOf(p) \subseteq Cpus /\ at[p] \in Nat
  BY Cores DEF Reporters, Programs, CpusOf, TypeOK
<1> DEFINE Goal == /\ status[p] = "running" /\ Undisturbed(p) /\ CpusOf(p)' = CpusOf(p)
                   /\ SameSetting(p)
<1>0. ASSUME UNCHANGED <<msr, where>>, status[p] = "running", Undisturbed(p) PROVE Goal
  BY <1>0 DEF SameSetting, CpusOf
<1>1. ASSUME NEW r \in Programs, Start(r) PROVE Goal
  <2>1. r # p
    BY <1>1
  <2>2. /\ UNCHANGED <<msr, spoiled, faulty>> /\ status[p] = "running" /\ CpusOf(p)' = CpusOf(p)
    BY <1>1, <1>p, <2>1 DEF Start, CpusOf, TypeOK, Reporters
  <2> QED BY <2>2 DEF SameSetting, Undisturbed
<1>2. ASSUME NEW r \in Programs, OpenDevice(r) \/ ReadMsr(r) PROVE Goal
  BY <1>0, <1>2 DEF OpenDevice, ReadMsr, Undisturbed
<1>3. ASSUME NEW r \in Programs, FailsUnnoticed(r) PROVE Goal
  BY <1>0, <1>3 DEF FailsUnnoticed, Fault, Undisturbed
<1>4. ASSUME NEW r \in Programs, WriteMsr(r) PROVE Goal
  <2>1. r # p
    BY <1>4, <1>p DEF WriteMsr, Made, TypeOK
  <2>2. /\ status[p] = "running" /\ Undisturbed(p) /\ CpusOf(p)' = CpusOf(p)
        /\ msr' = [msr EXCEPT ![Access(r).cpu] = Written(@, Access(r))] /\ ~Spoils(Access(r), p)
    BY <1>4, <1>p, <2>1 DEF WriteMsr, Undisturbed, CpusOf
  <2>3. Access(r) \in Accesses /\ Access(r).op \notin {"open", "read"}
    BY <1>4, AccessType DEF WriteMsr
  <2>4. SameSetting(p)
    BY <1>p, <2>2, <2>3, OthersWrite DEF SameSetting
  <2> QED BY <2>2, <2>4
<1>5. ASSUME NEW r \in Programs, Fails(r) \/ Finish(r) PROVE Goal
  <2>1. UNCHANGED <<msr, where, spoiled>> /\ faulty \subseteq faulty' /\ status[p] = "running"
    BY <1>5, <1>p DEF Fails, Fault, Finish, TypeOK
  <2> QED BY <1>0, <2>1 DEF Undisturbed
<1>6. CASE Migrate
  <2>1. p # "kernel" /\ UNCHANGED <<msr, status, faulty>> /\ spoiled \subseteq spoiled'
    BY <1>6 DEF Migrate, Undisturbed
  <2> QED BY <2>1 DEF SameSetting, CpusOf, Undisturbed, Reporters
<1>7. ASSUME NEW n \in Cpus, NEW e \in Events, Happen(n, e) PROVE Goal
  <2>1. UNCHANGED <<status, where, faulty>> /\ spoiled \subseteq spoiled'
    BY <1>7 DEF Happen
  <2>2. SameSetting(p)
    BY <1>p, <1>7, EventStep DEF SameSetting
  <2> QED BY <2>1, <2>2 DEF CpusOf, Undisturbed
<1>8. CASE UNCHANGED vars
  BY <1>0, <1>8 DEF vars, Undisturbed
<1> QED BY <1>1, <1>2, <1>3, <1>4, <1>5, <1>6, <1>7, <1>8 DEF Next, Program, Stopped

\* The counts of p, meanwhile: one that tracks its event grows with it, and one that
\* counts nothing stays.
LEMMA CountStep ==
  ASSUME TypeOK, CommandInv, [Next]_vars, NEW p \in {"kernel"} \union Reporters,
         status'[p] = "running", Undisturbed(p)', at'[p] = at[p], ~Start(p),
         NEW n \in CpusOf(p), NEW c \in Owns(p)
  PROVE  /\ Tracks(msr[n], c) => msr'[n].count[c] - happened'[n][Meant(c)]
                                   = msr[n].count[c] - happened[n][Meant(c)]
         /\ (\A e \in Events : ~Counts(msr[n], c, e)) => msr'[n].count[c] = msr[n].count[c]
<1>p. /\ p \in Programs /\ n \in Cpus /\ c \in Counters /\ at[p] \in Nat /\ Meant(c) \in Events
      /\ msr[n].count[c] \in Nat /\ happened[n][Meant(c)] \in Nat
  <2>1. p \in Programs /\ n \in Cpus /\ c \in Counters
    BY Cores DEF Reporters, Programs, CpusOf, Owns, Counters, Pmcs, TypeOK
  <2> QED BY <2>1, MeantType DEF TypeOK, Msr
<1>s. status[p] = "running" /\ Undisturbed(p)
  BY SettingStep
<1> DEFINE Same == msr'[n].count[c] = msr[n].count[c] /\ happened' = happened
<1>1. ASSUME NEW r \in Programs, WriteMsr(r) PROVE Same
  <2>1. r # p
    BY <1>1, <1>p DEF WriteMsr, Made, TypeOK
  <2>2. /\ msr' = [msr EXCEPT ![Access(r).cpu] = Written(@, Access(r))] /\ ~Spoils(Access(r), p)
        /\ happened' = happened
    BY <1>1, <1>p, <2>1 DEF WriteMsr, Undisturbed
  <2>3. Access(r) \in Accesses /\ Access(r).op \notin {"open", "read"}
    BY <1>1, AccessType DEF WriteMsr
  <2>4. \A x \in Owns(p) \intersect Counters : msr'[n].count[x] = msr[n].count[x]
    BY <1>p, <1>s, <2>2, <2>3, OthersWrite
  <2> QED BY <1>p, <2>2, <2>4
<1>2. ASSUME NEW r \in Programs, Program(r), ~WriteMsr(r) PROVE Same
  BY <1>2 DEF Program, Start, OpenDevice, ReadMsr, Fails, FailsUnnoticed, Finish
<1>3. CASE Migrate \/ UNCHANGED vars
  BY <1>3 DEF Migrate, vars
<1>4. ASSUME NEW m \in Cpus, NEW e \in Events, Happen(m, e)
      PROVE  /\ Tracks(msr[n], c) => msr'[n].count[c] - happened'[n][Meant(c)]
                                       = msr[n].count[c] - happened[n][Meant(c)]
             /\ (\A x \in Events : ~Counts(msr[n], c, x)) => msr'[n].count[c] = msr[n].count[c]
  <2>1. /\ msr'[n].count[c] = IF n = m /\ Counts(msr[n], c, e) THEN msr[n].count[c] + 1 ELSE msr[n].count[c]
        /\ happened'[n][Meant(c)] = IF n = m /\ Meant(c) = e THEN happened[n][Meant(c)] + 1
                                                             ELSE happened[n][Meant(c)]
    BY <1>4, <1>p, EventStep
  <2>2. Tracks(msr[n], c) => (Counts(msr[n], c, e) <=> e = Meant(c))
    BY DEF Tracks
  <2> QED BY <1>p, <2>1, <2>2
<1> QED BY <1>1, <1>2, <1>3, <1>4 DEF Next, Stopped

\* Only an access of its own takes a program further or gives it a value.
LEMMA MovesOn ==
  ASSUME TypeOK, [Next]_vars, NEW p \in Programs
  PROVE  /\ at'[p] # at[p] => OpenDevice(p) \/ WriteMsr(p) \/ ReadMsr(p) \/ FailsUnnoticed(p)
         /\ at'[p] = at[p] => got'[p] = got[p] /\ saw'[p] = saw[p]
         /\ p = "kernel" /\ at'[p] = at[p] => since' = since
         /\ p = "kernel" /\ ~Start(p) => clean' = clean
         /\ status'[p] # "idle" /\ ~Start(p) => status[p] # "idle"
         /\ spoiled \subseteq spoiled' /\ faulty \subseteq faulty'
<1>1. ASSUME NEW r \in Programs, Program(r)
      PROVE  /\ at'[p] # at[p] => OpenDevice(p) \/ WriteMsr(p) \/ ReadMsr(p) \/ FailsUnnoticed(p)
             /\ at'[p] = at[p] => got'[p] = got[p] /\ saw'[p] = saw[p]
             /\ p = "kernel" /\ at'[p] = at[p] => since' = since
             /\ p = "kernel" /\ ~Start(p) => clean' = clean
             /\ status'[p] # "idle" /\ ~Start(p) => status[p] # "idle"
             /\ spoiled \subseteq spoiled' /\ faulty \subseteq faulty'
  <2>0. at[p] \in Nat /\ at[r] \in Nat
    BY DEF TypeOK
  <2>1. CASE Start(r)
    BY <2>1 DEF Start, TypeOK
  <2>2. CASE OpenDevice(r)
    BY <2>2 DEF OpenDevice, Made, TypeOK
  <2>3. CASE WriteMsr(r)
    <3>1. r = p => at'[p] # at[p]
      BY <2>0, <2>3 DEF WriteMsr, Made, TypeOK
    <3>2. r # p => at'[p] = at[p]
      BY <2>3 DEF WriteMsr, Made, TypeOK
    <3>3. r # "kernel" => since' = since
      BY <2>3 DEF WriteMsr
    <3> QED BY <2>3, <3>1, <3>2, <3>3 DEF WriteMsr
  <2>4. CASE ReadMsr(r)
    <3>1. r = p => at'[p] # at[p]
      BY <2>0, <2>4 DEF ReadMsr, Made, TypeOK
    <3> QED BY <2>4, <3>1 DEF ReadMsr, Made, TypeOK
  <2>5. CASE FailsUnnoticed(r)
    <3>1. r = p => at'[p] # at[p]
      BY <2>0, <2>5 DEF FailsUnnoticed, Made, TypeOK
    <3>2. r # p => at'[p] = at[p] /\ got'[p] = got[p] /\ saw'[p] = saw[p]
      BY <2>5 DEF FailsUnnoticed, Made, TypeOK
    <3> QED BY <2>5, <3>1, <3>2 DEF FailsUnnoticed, Fault
  <2>6. CASE Fails(r) \/ Finish(r)
    BY <2>6 DEF Fails, Fault, More, Finish, TypeOK
  <2> QED BY <1>1, <2>1, <2>2, <2>3, <2>4, <2>5, <2>6 DEF Program
<1>2. ASSUME Migrate \/ (\E n \in Cpus, e \in Events : Happen(n, e)) \/ UNCHANGED vars
      PROVE  /\ UNCHANGED <<at, got, saw, since, clean, status, faulty>>
             /\ spoiled \subseteq spoiled'
  BY <1>2 DEF Migrate, Happen, vars
<1> QED BY <1>1, <1>2 DEF Next, Stopped

\* An access of p's own, if p stays undisturbed.
LEMMA OwnStep ==
  ASSUME TypeOK, CommandInv, [Next]_vars, NEW p \in {"kernel"} \union Reporters,
         Undisturbed(p)', at'[p] # at[p]
  PROVE  /\ p \in Programs /\ status[p] = "running" /\ Undisturbed(p) /\ UNCHANGED <<where, happened>>
         /\ at[p] \in Nat /\ at'[p] = at[p] + 1 /\ at'[p] \in 1..Len(Script(p))
         /\ Access(p) = Script(p)[at'[p]] /\ Access(p) \in Accesses
         /\ \/ Access(p).op \in {"open", "read"} /\ msr' = msr
            \/ /\ Access(p).op \notin {"open", "read"}
               /\ msr' = [msr EXCEPT ![Access(p).cpu] = Written(@, Access(p))]
         /\ IF Access(p).op = "read"
              THEN /\ got'[p] = Append(got[p], msr[Access(p).cpu].count[Access(p).counter])
                   /\ saw'[p] = Append(saw[p], happened[Access(p).cpu][Meant(Access(p).counter)])
              ELSE got'[p] = got[p] /\ saw'[p] = saw[p]
         /\ p = "kernel" /\ Access(p) # Select(where, "pmc0", "miss") => since' = since
         /\ p = "kernel" /\ Access(p) = Select(where, "pmc0", "miss") => since' = happened[where]["miss"]
<1>1. p \in Programs
  BY DEF Reporters, Programs
<1>2. OpenDevice(p) \/ WriteMsr(p) \/ ReadMsr(p)
  BY <1>1, MovesOn DEF FailsUnnoticed, Fault, Undisturbed
<1>3. More(p) /\ Made(p) /\ UNCHANGED <<where, happened>> /\ Undisturbed(p)
  BY <1>2 DEF OpenDevice, WriteMsr, ReadMsr, Undisturbed
<1>4. status[p] = "running" /\ at[p] \in Nat /\ at'[p] = at[p] + 1
  BY <1>1, <1>3 DEF More, Made, TypeOK
<1>5. Access(p) \in Accesses /\ at'[p] \in 1..Len(Script(p)) /\ Access(p) = Script(p)[at'[p]]
  BY <1>1, <1>3, <1>4, AccessType DEF Access
<1>6. /\ \/ Access(p).op \in {"open", "read"} /\ msr' = msr
         \/ /\ Access(p).op \notin {"open", "read"}
            /\ msr' = [msr EXCEPT ![Access(p).cpu] = Written(@, Access(p))]
      /\ IF Access(p).op = "read"
           THEN /\ got'[p] = Append(got[p], msr[Access(p).cpu].count[Access(p).counter])
                /\ saw'[p] = Append(saw[p], happened[Access(p).cpu][Meant(Access(p).counter)])
           ELSE got'[p] = got[p] /\ saw'[p] = saw[p]
  <2>1. CASE OpenDevice(p)
    BY <2>1 DEF OpenDevice
  <2>2. CASE WriteMsr(p)
    BY <2>2 DEF WriteMsr
  <2>3. CASE ReadMsr(p)
    BY <1>1, <2>3 DEF ReadMsr, TypeOK
  <2> QED BY <1>2, <2>1, <2>2, <2>3
<1>7. ASSUME p = "kernel", Access(p) # Select(where, "pmc0", "miss") PROVE since' = since
  BY <1>2, <1>7 DEF OpenDevice, WriteMsr, ReadMsr
<1>8. ASSUME p = "kernel", Access(p) = Select(where, "pmc0", "miss") PROVE since' = happened[where]["miss"]
  <2>1. Access(p).op = "select" /\ Access(p).cpu = where
    BY <1>8 DEF Select
  <2> QED BY <1>2, <1>8, <2>1 DEF OpenDevice, WriteMsr, ReadMsr
<1> QED BY <1>1, <1>3, <1>4, <1>5, <1>6, <1>7, <1>8

-----------------------------------------------------------------------------
(* The settings hold. *)

LEMMA L3SetStep ==
  ASSUME TypeOK, CommandInv, L3Set, [Next]_vars
  PROVE  L3Set'
<1> SUFFICES ASSUME status'["l3"] = "running", Undisturbed("l3")'
             PROVE  /\ at'["l3"] \in 2..9 => msr'[0].select["pmc0"] = "miss"
                    /\ at'["l3"] \in 3..9 => msr'[0].select["pmc1"] = "ref"
                    /\ at'["l3"] \in 4..8 => Pmcs \subseteq msr'[0].global
  BY DEF L3Set
<1>p. /\ "l3" \in Reporters /\ "l3" \in Programs /\ at["l3"] \in Nat /\ Owns("l3") = Pmcs
      /\ CpusOf("l3") = {0} /\ "pmc0" \in Pmcs /\ "pmc1" \in Pmcs /\ 0 \in Cpus /\ msr[0] \in Msr
  BY Cores DEF Reporters, Programs, TypeOK, Owns, CpusOf, Pmcs
<1>1. CASE at'["l3"] = at["l3"]
  <2>1. CASE Start("l3")
    BY <1>1, <1>p, <2>1 DEF Start, CommandInv
  <2>2. CASE ~Start("l3")
    <3>1. status["l3"] = "running" /\ Undisturbed("l3") /\ SameSetting("l3")
      BY <1>1, <1>p, <2>2, SettingStep
    <3> QED BY <1>1, <1>p, <3>1 DEF L3Set, SameSetting
  <2> QED BY <2>1, <2>2
<1>2. CASE at'["l3"] # at["l3"]
  <2> DEFINE a == Access("l3")
             k == at'["l3"]
  <2>1. /\ status["l3"] = "running" /\ Undisturbed("l3") /\ at["l3"] + 1 = k
        /\ a = L3(0)[k] /\ a \in Accesses /\ k \in 1..13
        /\ \/ a.op \in {"open", "read"} /\ msr' = msr
           \/ a.op \notin {"open", "read"} /\ msr' = [msr EXCEPT ![a.cpu] = Written(@, a)]
    BY <1>2, <1>p, OwnStep, L3Type DEF Script
  <2> HIDE DEF a
  <2>2. CASE k \in {1, 5, 6, 7, 8}
    <3>1. a.op \in {"open", "read"}
      BY <2>1, <2>2, L3Accesses DEF Open, Read
    <3> QED BY <1>p, <2>1, <2>2, <3>1 DEF L3Set
  <2>3. ASSUME k \in {2, 3, 4, 9}
        PROVE  /\ a.cpu = 0 /\ a.op \in {"select", "global"} /\ msr'[0] = Written(msr[0], a)
               /\ k = 2 => a.op = "select" /\ a.counter = "pmc0" /\ a.value = "miss"
               /\ k = 3 => a.op = "select" /\ a.counter = "pmc1" /\ a.value = "ref"
               /\ k = 4 => a.op = "global" /\ a.value = Pmcs
               /\ k = 9 => a.op = "global"
    <3>1. /\ a.cpu = 0 /\ a.op \in {"select", "global"}
          /\ k = 2 => a.op = "select" /\ a.counter = "pmc0" /\ a.value = "miss"
          /\ k = 3 => a.op = "select" /\ a.counter = "pmc1" /\ a.value = "ref"
          /\ k = 4 => a.op = "global" /\ a.value = Pmcs
          /\ k = 9 => a.op = "global"
      BY <2>1, <2>3, L3Accesses DEF Select, Global
    <3> QED BY <1>p, <2>1, <3>1 DEF TypeOK
  <2>4. CASE k \in {2, 3, 4, 9}
    <3>1. /\ IF a.op = "select" /\ a.counter = "pmc0" THEN msr'[0].select["pmc0"] = a.value
               ELSE msr'[0].select["pmc0"] = msr[0].select["pmc0"]
          /\ IF a.op = "select" /\ a.counter = "pmc1" THEN msr'[0].select["pmc1"] = a.value
               ELSE msr'[0].select["pmc1"] = msr[0].select["pmc1"]
          /\ IF a.op = "global" THEN msr'[0].global = a.value ELSE msr'[0].global = msr[0].global
      BY <1>p, <2>1, <2>3, <2>4, WrittenOnly
    <3> QED BY <1>p, <2>1, <2>3, <2>4, <3>1 DEF L3Set
  <2>5. CASE k > 9
    BY <2>1, <2>5
  <2>6. k \in {1, 5, 6, 7, 8} \union {2, 3, 4, 9} \/ k > 9
    BY <2>1
  <2> QED BY <2>2, <2>4, <2>5, <2>6
<1> QED BY <1>1, <1>2

LEMMA MsrTestSetStep ==
  ASSUME TypeOK, CommandInv, MsrTestSet, [Next]_vars
  PROVE  MsrTestSet'
<1> SUFFICES ASSUME status'["msrtest"] = "running", Undisturbed("msrtest")', NEW n \in Cpus
             PROVE  /\ at'["msrtest"] >= n * 3 + 2 => msr'[n].fixed
                    /\ at'["msrtest"] >= n * 3 + 3 => Fixed \subseteq msr'[n].global
  BY DEF MsrTestSet
<1>p. /\ "msrtest" \in Reporters /\ "msrtest" \in Programs /\ at["msrtest"] \in Nat
      /\ Owns("msrtest") = Fixed /\ CpusOf("msrtest") = Cpus /\ n \in Nat /\ msr[n] \in Msr
  BY Cores DEF Reporters, Programs, TypeOK, Owns, CpusOf, Cpus
<1>1. CASE at'["msrtest"] = at["msrtest"]
  <2>1. CASE Start("msrtest")
    BY <1>1, <1>p, <2>1 DEF Start, CommandInv
  <2>2. CASE ~Start("msrtest")
    <3>1. status["msrtest"] = "running" /\ Undisturbed("msrtest") /\ SameSetting("msrtest")
      BY <1>1, <1>p, <2>2, SettingStep
    <3> QED BY <1>1, <1>p, <3>1 DEF MsrTestSet, SameSetting
  <2> QED BY <2>1, <2>2
<1>2. CASE at'["msrtest"] # at["msrtest"]
  <2> DEFINE a == Access("msrtest")
             k == at'["msrtest"]
  <2>1. /\ status["msrtest"] = "running" /\ Undisturbed("msrtest") /\ at["msrtest"] + 1 = k
        /\ a = MsrTest[k] /\ a \in Accesses /\ k \in 1..Len(MsrTest)
        /\ \/ a.op \in {"open", "read"} /\ msr' = msr
           \/ a.op \notin {"open", "read"} /\ msr' = [msr EXCEPT ![a.cpu] = Written(@, a)]
    BY <1>2, <1>p, OwnStep DEF Script
  <2>2. /\ k > n * 3 + 2 => msr[n].fixed
        /\ k > n * 3 + 3 => Fixed \subseteq msr[n].global
    BY <1>p, <2>1 DEF MsrTestSet
  <2>n. /\ k # n * 3 + 2 /\ k >= n * 3 + 2 => k > n * 3 + 2
        /\ k # n * 3 + 3 /\ k >= n * 3 + 3 => k > n * 3 + 3
    <3>1. k \in Nat /\ n * 3 + 2 \in Nat /\ n * 3 + 3 \in Nat
      BY <1>p, <2>1
    <3> HIDE DEF k
    <3> QED BY <3>1
  <2>3. CASE k > First("msrtest")
    <3>1. a.op = "read"
      <4> DEFINE j == k - First("msrtest")
      <4>1. j \in 1..(Half("msrtest") + Half("msrtest")) /\ First("msrtest") + j = k
        BY <1>p, <2>1, <2>3, SizeTypes, MsrTestParts DEF Last2
      <4> HIDE DEF j
      <4>2. MsrTest[First("msrtest") + j]
              = Read(SlotCpu("msrtest", Slot("msrtest", j)), SlotCounter("msrtest", Slot("msrtest", j)))
        BY <4>1, MsrTestParts
      <4> QED BY <2>1, <4>1, <4>2 DEF Read
    <3>2. k > n * 3 + 3
      BY <1>p, <2>1, <2>3, Cores DEF First, Cpus
    <3> QED BY <1>p, <2>1, <2>2, <3>1, <3>2
  <2>4. CASE k <= First("msrtest")
    <3> DEFINE x == (k - 1) \div 3
               r == (k - 1) % 3
    <3>0. k \in 1..First("msrtest") /\ First("msrtest") = NumCores * 3 /\ k \in Nat \ {0}
      BY <1>p, <2>1, <2>4, SizeTypes DEF First
    <3>1. x \in Cpus /\ r \in 0..2 /\ k = x * 3 + r + 1
      <4>1. k - 1 \in Nat
        BY <3>0
      <4>2. x \in Nat /\ r \in 0..2 /\ k - 1 = x * 3 + r
        BY <4>1, Thirds
      <4>3. NumCores \in Nat \ {0} /\ k \in 1..(NumCores * 3)
        BY <3>0, Cores
      <4>4. x \in 0..(NumCores - 1)
        BY <4>3, Divide
      <4> HIDE DEF x, r
      <4> QED BY <3>0, <4>2, <4>4 DEF Cpus
    <3>2. a = SetUp[x][r + 1]
      BY <2>1, <3>0, MsrTestParts
    <3> HIDE DEF x, r, a
    <3>3. SetUp[x] = << Open(x), FixedOn(x), Global(x, Counters) >>
      BY <3>1 DEF SetUp
    <3>4. CASE r = 0
      <4>1. a.op = "open" /\ k # n * 3 + 2 /\ k # n * 3 + 3
        BY <1>p, <3>1, <3>2, <3>3, <3>4 DEF Open, Cpus
      <4>2. msr' = msr
        BY <2>1, <4>1
      <4> QED BY <2>2, <2>n, <4>1, <4>2
    <3>5. CASE r = 1
      <4>1. a.op = "fixed" /\ a.cpu = x /\ k # n * 3 + 3 /\ (k = n * 3 + 2 => x = n)
        BY <1>p, <3>1, <3>2, <3>3, <3>5 DEF FixedOn, Cpus
      <4>2. x = n => msr'[n] = [msr[n] EXCEPT !.fixed = TRUE]
        BY <2>1, <4>1 DEF Written, TypeOK
      <4>3. x # n => msr'[n] = msr[n]
        BY <2>1, <3>1, <4>1 DEF TypeOK
      <4>4. /\ msr'[n].global = msr[n].global /\ msr[n].fixed => msr'[n].fixed
            /\ x = n => msr'[n].fixed
        BY <1>p, <4>2, <4>3 DEF Msr
      <4>5. msr'[n].global = msr[n].global
        BY <1>p, <4>2, <4>3 DEF Msr
      <4> QED BY <1>p, <2>1, <2>2, <4>1, <4>4, <4>5
    <3>6. CASE r = 2
      <4>1. a.op = "global" /\ a.cpu = x /\ a.value = Counters /\ k # n * 3 + 2 /\ (k = n * 3 + 3 => x = n)
        BY <1>p, <3>1, <3>2, <3>3, <3>6 DEF Global, Cpus
      <4>2. x = n => msr'[n] = [msr[n] EXCEPT !.global = Counters]
        BY <2>1, <4>1 DEF Written, TypeOK
      <4>3. x # n => msr'[n] = msr[n]
        BY <2>1, <3>1, <4>1 DEF TypeOK
      <4>4. msr'[n].fixed = msr[n].fixed
        BY <1>p, <4>2, <4>3 DEF Msr
      <4>5. /\ x = n => msr'[n].global = Counters
            /\ x # n => msr'[n].global = msr[n].global
        BY <1>p, <4>2, <4>3 DEF Msr
      <4>6. Fixed \subseteq Counters
        BY DEF Counters
      <4> QED BY <1>p, <2>1, <2>2, <4>1, <4>4, <4>5, <4>6
    <3> QED BY <3>1, <3>4, <3>5, <3>6
  <2> QED BY <1>p, <2>1, <2>3, <2>4, SizeTypes
<1> QED BY <1>1, <1>2

-----------------------------------------------------------------------------
(* What the kernel module reports. *)

\* Its counter is silent until its event is selected, and then has counted the events
\* since; the one value it reads keeps that.
KernelInv ==
  status["kernel"] # "idle" /\ Undisturbed("kernel") =>
    /\ at["kernel"] < 3 => got["kernel"] = <<>> /\ saw["kernel"] = <<>>
    /\ status["kernel"] = "running" =>
         /\ at["kernel"] \in {1, 2} => "pmc0" \in msr[where].global
         /\ at["kernel"] = 2 => msr[where].select["pmc0"] = "miss"
         /\ clean /\ at["kernel"] < 2 => msr[where].select["pmc0"] = "none"
         /\ clean /\ at["kernel"] < 2 => msr[where].count["pmc0"] = 0
         /\ clean /\ at["kernel"] = 2 =>
              msr[where].count["pmc0"] - happened[where]["miss"] = 0 - since
    /\ clean /\ at["kernel"] >= 3 => got["kernel"][1] = saw["kernel"][1] - since

\* Nobody has read anything before it was started.
GotInv == \A p \in Programs : status[p] = "idle" => got[p] = <<>> /\ saw[p] = <<>>

LEMMA GotStep == ASSUME TypeOK, CommandInv, GotInv, [Next]_vars PROVE GotInv'
<1> SUFFICES ASSUME NEW p \in Programs, status'[p] = "idle"
             PROVE  status[p] = "idle" /\ got'[p] = got[p] /\ saw'[p] = saw[p]
  BY DEF GotInv
<1>1. ASSUME NEW r \in Programs, Program(r)
      PROVE  status[p] = "idle" /\ got'[p] = got[p] /\ saw'[p] = saw[p]
  <2>1. status[p] = "idle"
    BY <1>1 DEF Program, Start, OpenDevice, WriteMsr, ReadMsr, Fails, FailsUnnoticed, Finish, TypeOK
  <2>2. at'[p] = at[p]
    BY <1>1, <2>1 DEF Program, Start, OpenDevice, WriteMsr, ReadMsr, Fails, FailsUnnoticed, Finish,
                      More, Made, TypeOK
  <2> QED BY <2>1, <2>2, MovesOn
<1>2. ASSUME Migrate \/ (\E n \in Cpus, e \in Events : Happen(n, e)) \/ UNCHANGED vars
      PROVE  status[p] = "idle" /\ got'[p] = got[p] /\ saw'[p] = saw[p]
  BY <1>2 DEF Migrate, Happen, vars
<1> QED BY <1>1, <1>2 DEF Next, Stopped

LEMMA KernelStep ==
  ASSUME TypeOK, CommandInv, GotInv, KernelInv, [Next]_vars
  PROVE  KernelInv'
<1> SUFFICES ASSUME status'["kernel"] # "idle", Undisturbed("kernel")'
             PROVE  /\ at'["kernel"] < 3 => got'["kernel"] = <<>> /\ saw'["kernel"] = <<>>
                    /\ status'["kernel"] = "running" =>
                         /\ at'["kernel"] \in {1, 2} => "pmc0" \in msr'[where'].global
                         /\ at'["kernel"] = 2 => msr'[where'].select["pmc0"] = "miss"
                         /\ clean' /\ at'["kernel"] < 2 => msr'[where'].select["pmc0"] = "none"
                         /\ clean' /\ at'["kernel"] < 2 => msr'[where'].count["pmc0"] = 0
                         /\ clean' /\ at'["kernel"] = 2 =>
                              msr'[where'].count["pmc0"] - happened'[where']["miss"] = 0 - since'
                    /\ clean' /\ at'["kernel"] >= 3 => got'["kernel"][1] = saw'["kernel"][1] - since'
  BY DEF KernelInv
<1>p. /\ "kernel" \in {"kernel"} \union Reporters /\ "kernel" \in Programs /\ at["kernel"] \in Nat
      /\ Owns("kernel") = {"pmc0"} /\ CpusOf("kernel") = {where} /\ "pmc0" \in Pmcs /\ "pmc0" \in Counters
      /\ where \in Cpus /\ msr[where] \in Msr /\ "pmc0" \notin Fixed /\ Meant("pmc0") = "miss"
      /\ "miss" \in Events /\ happened[where]["miss"] \in Nat /\ since \in Nat
      /\ \A e \in Events : e # "none"
  <2>1. "kernel" \in Programs /\ "miss" \in Events /\ \A e \in Events : e # "none"
    BY ToolsAssumption DEF Programs, Events
  <2>2. where \in Cpus /\ msr[where] \in Msr /\ happened[where]["miss"] \in Nat
    BY <2>1 DEF TypeOK
  <2> QED BY <2>1, <2>2, ToolsAssumption DEF TypeOK, Owns, CpusOf, Pmcs, Counters, Meant
<1>1. CASE Start("kernel")
  <2>1. at'["kernel"] = 0 /\ status["kernel"] = "idle" /\ UNCHANGED <<msr, got, saw>>
    BY <1>1, <1>p DEF Start, CommandInv
  <2>2. clean' => msr[where'].select["pmc0"] = "none" /\ msr[where'].count["pmc0"] = 0
    BY <1>1 DEF Start
  <2>3. got["kernel"] = <<>> /\ saw["kernel"] = <<>>
    BY <1>p, <2>1 DEF GotInv
  <2> QED BY <2>1, <2>2, <2>3
<1>2. CASE ~Start("kernel") /\ at'["kernel"] = at["kernel"]
  <2>1. /\ status["kernel"] # "idle" /\ Undisturbed("kernel") /\ clean' = clean /\ since' = since
        /\ got'["kernel"] = got["kernel"] /\ saw'["kernel"] = saw["kernel"]
    BY <1>2, <1>p, MovesOn DEF Undisturbed
  <2>2. CASE status'["kernel"] # "running"
    BY <1>2, <2>1, <2>2 DEF KernelInv
  <2>3. CASE status'["kernel"] = "running"
    <3>1. status["kernel"] = "running" /\ where' = where /\ SameSetting("kernel")
      BY <1>2, <1>p, <2>3, SettingStep DEF CpusOf
    <3>2. msr'[where].select["pmc0"] = msr[where].select["pmc0"]
          /\ ("pmc0" \in msr[where].global => "pmc0" \in msr'[where].global)
      BY <1>p, <3>1 DEF SameSetting
    <3>3. /\ Tracks(msr[where], "pmc0") => msr'[where].count["pmc0"] - happened'[where]["miss"]
                                             = msr[where].count["pmc0"] - happened[where]["miss"]
          /\ (\A e \in Events : ~Counts(msr[where], "pmc0", e)) =>
               msr'[where].count["pmc0"] = msr[where].count["pmc0"]
      BY <1>2, <1>p, <2>3, CountStep
    <3>4. msr[where].select["pmc0"] = "none" => \A e \in Events : ~Counts(msr[where], "pmc0", e)
      BY <1>p DEF Counts, EventOf
    <3>5. msr[where].select["pmc0"] = "miss" /\ "pmc0" \in msr[where].global => Tracks(msr[where], "pmc0")
      BY <1>p DEF Tracks, Counts, EventOf
    <3> QED BY <1>2, <1>p, <2>1, <2>3, <3>1, <3>2, <3>3, <3>4, <3>5 DEF KernelInv
  <2> QED BY <2>2, <2>3
<1>3. CASE at'["kernel"] # at["kernel"]
  <2> DEFINE a == Access("kernel")
             k == at'["kernel"]
  <2>0. Script("kernel") = Kernel(where) /\ Len(Kernel(where)) = 6 /\ ~Start("kernel")
    BY <1>3, <1>p, KernelType DEF Script, Start
  <2>1. /\ status["kernel"] = "running" /\ Undisturbed("kernel") /\ UNCHANGED <<where, happened>>
        /\ at["kernel"] + 1 = k /\ k \in 1..Len(Script("kernel")) /\ a = Script("kernel")[k] /\ a \in Accesses
        /\ \/ a.op \in {"open", "read"} /\ msr' = msr
           \/ a.op \notin {"open", "read"} /\ msr' = [msr EXCEPT ![a.cpu] = Written(@, a)]
        /\ IF a.op = "read"
             THEN /\ got'["kernel"] = Append(got["kernel"], msr[a.cpu].count[a.counter])
                  /\ saw'["kernel"] = Append(saw["kernel"], happened[a.cpu][Meant(a.counter)])
             ELSE got'["kernel"] = got["kernel"] /\ saw'["kernel"] = saw["kernel"]
        /\ a # Select(where, "pmc0", "miss") => since' = since
        /\ a = Select(where, "pmc0", "miss") => since' = happened[where]["miss"]
    BY <1>3, <1>p, OwnStep
  <2>2. clean' = clean /\ k \in {1, 2, 3, 4, 5, 6}
    <3>1. Len(Script("kernel")) = 6
      BY <2>0
    <3> QED BY <1>p, <2>0, <2>1, <3>1, MovesOn
  <2>3. /\ Kernel(where)[1] = Global(where, LowerHalf(Counters)) /\ Kernel(where)[2] = Select(where, "pmc0", "miss")
        /\ Kernel(where)[3] = Read(where, "pmc0") /\ Kernel(where)[4] = Select(where, "pmc0", "none")
        /\ Kernel(where)[5] = Put(where, "pmc0", 0) /\ Kernel(where)[6] = Global(where, {})
    BY <1>p, KernelAccesses
  <2>a. a = Kernel(where)[k]
    BY <2>0, <2>1
  <2>i. /\ at["kernel"] < 3 => got["kernel"] = <<>> /\ saw["kernel"] = <<>>
        /\ at["kernel"] \in {1, 2} => "pmc0" \in msr[where].global
        /\ at["kernel"] = 2 => msr[where].select["pmc0"] = "miss"
        /\ clean /\ at["kernel"] < 2 => msr[where].select["pmc0"] = "none" /\ msr[where].count["pmc0"] = 0
        /\ clean /\ at["kernel"] = 2 => msr[where].count["pmc0"] - happened[where]["miss"] = 0 - since
        /\ clean /\ at["kernel"] >= 3 => got["kernel"][1] = saw["kernel"][1] - since
    BY <2>1 DEF KernelInv
  <2> HIDE DEF a
  <2>4. CASE k = 1
    <3>1. a.op = "global" /\ a.cpu = where /\ a.value = LowerHalf(Counters)
      BY <2>a, <2>3, <2>4 DEF Global
    <3>2. msr'[where] = [msr[where] EXCEPT !.global = LowerHalf(Counters)]
      BY <1>p, <2>1, <3>1 DEF Written, TypeOK
    <3>3. "pmc0" \in msr'[where].global /\ msr'[where].select = msr[where].select /\ msr'[where].count = msr[where].count
      BY <1>p, <3>2 DEF Msr, LowerHalf
    <3> QED BY <1>p, <2>1, <2>2, <2>4, <2>i, <3>1, <3>3
  <2>5. CASE k = 2
    <3>1. a.op = "select" /\ a.cpu = where /\ a.counter = "pmc0" /\ a.value = "miss"
          /\ a = Select(where, "pmc0", "miss")
      BY <2>a, <2>3, <2>5 DEF Select
    <3>2. msr'[where] = Written(msr[where], a)
      BY <1>p, <2>1, <3>1 DEF TypeOK
    <3>3. /\ msr'[where].select["pmc0"] = "miss" /\ msr'[where].global = msr[where].global
          /\ msr'[where].count["pmc0"] = msr[where].count["pmc0"]
      BY <1>p, <2>1, <3>1, <3>2, WrittenOnly
    <3> QED BY <1>p, <2>1, <2>2, <2>5, <2>i, <3>1, <3>3
  <2>6. CASE k = 3
    <3>1. a.op = "read" /\ a.cpu = where /\ a.counter = "pmc0"
      BY <2>a, <2>3, <2>6 DEF Read
    <3>2. since' = since
      BY <2>1, <3>1 DEF Select
    <3>3. got'["kernel"] = << msr[where].count["pmc0"] >> /\ saw'["kernel"] = << happened[where]["miss"] >>
      BY <1>p, <2>1, <2>6, <2>i, <3>1
    <3>4. msr[where].count["pmc0"] \in Nat
      BY <1>p DEF Msr
    <3>5. clean => msr[where].count["pmc0"] = happened[where]["miss"] - since
      <4>1. at["kernel"] = 2
        BY <1>p, <2>1, <2>6
      <4>2. clean => msr[where].count["pmc0"] - happened[where]["miss"] = 0 - since
        BY <2>i, <4>1
      <4> QED BY <1>p, <3>4, <4>2
    <3> QED BY <2>2, <2>6, <3>2, <3>3, <3>5
  <2>7. CASE k \in {4, 5, 6}
    <3>1. a.op # "read" /\ a # Select(where, "pmc0", "miss")
      <4>1. k = 4 => a.op # "read" /\ a.value # "miss"
        BY <2>a, <2>3 DEF Select
      <4>2. k = 5 => a.op = "put"
        BY <2>a, <2>3 DEF Put
      <4>3. k = 6 => a.op = "global"
        BY <2>a, <2>3 DEF Global
      <4> QED BY <2>7, <4>1, <4>2, <4>3 DEF Select
    <3> QED BY <1>p, <2>1, <2>2, <2>7, <2>i, <3>1
  <2> QED BY <2>2, <2>4, <2>5, <2>6, <2>7
<1> QED BY <1>1, <1>2, <1>3

-----------------------------------------------------------------------------
(* What the L3 counting and msrtest report. *)

\* How many of its reads p has made.
Reads(p) ==
  IF at[p] <= First(p) THEN 0 ELSE IF at[p] <= Last2(p) THEN at[p] - First(p) ELSE Half(p) + Half(p)

Count(p, k) == msr[SlotCpu(p, k)].count[SlotCounter(p, k)]
Seen(p, k)  == happened[SlotCpu(p, k)][Meant(SlotCounter(p, k))]

\* The difference at the first read of a counter is still there until the second one,
\* which then has it too.
Report(p) ==
  /\ Len(got[p]) = Reads(p) /\ Len(saw[p]) = Reads(p)
  /\ status[p] = "over" => at[p] = Len(Script(p))
  /\ status[p] = "running" /\ at[p] < Last2(p) =>
       \A k \in 1..Half(p) : k <= Reads(p) => Count(p, k) - Seen(p, k) = got[p][k] - saw[p][k]
  /\ \A k \in 1..Half(p) : Half(p) + k <= Reads(p) =>
       got[p][Half(p) + k] - saw[p][Half(p) + k] = got[p][k] - saw[p][k]

ReportInv ==
  \A p \in Reporters : status[p] \in {"running", "over"} /\ Undisturbed(p) => Report(p)

LEMMA ReadsType ==
  ASSUME TypeOK, NEW p \in Reporters
  PROVE  /\ Reads(p) \in Nat /\ Reads(p) <= Half(p) + Half(p) /\ at[p] \in Nat
         /\ got[p] \in Seq(Nat) /\ saw[p] \in Seq(Nat)
<1>1. at[p] \in Nat /\ got[p] \in Seq(Nat) /\ saw[p] \in Seq(Nat)
  BY SizeTypes DEF TypeOK
<1> QED BY <1>1, SizeTypes DEF Reads, Last2

LEMMA ReportIdle ==
  ASSUME TypeOK, CommandInv, GotInv, L3Set, MsrTestSet, ReportInv, [Next]_vars, NEW p \in Reporters,
         status'[p] \in {"running", "over"}, Undisturbed(p)', at'[p] = at[p]
  PROVE  Report(p)'
<1>p. p \in Programs /\ p # "wrmsr" /\ p # "kernel" /\ First(p) \in Nat /\ Half(p) \in Nat /\ Last2(p) \in Nat
      /\ at[p] \in Nat
  BY SizeTypes DEF Reporters, TypeOK
<1>r. Reads(p)' = Reads(p) /\ Script(p)' = Script(p)
  BY DEF Reads, First, Half, Last2, Reporters, Script
<1>d. First(p)' = First(p) /\ Half(p)' = Half(p) /\ Last2(p)' = Last2(p)
  BY DEF First, Half, Last2
<1>1. CASE Start(p)
  <2>1. at[p] = 0 /\ got'[p] = <<>> /\ saw'[p] = <<>> /\ status'[p] = "running"
    BY <1>1, <1>p DEF Start, CommandInv, GotInv, TypeOK
  <2>2. Reads(p) = 0
    BY <1>p, <2>1 DEF Reads
  <2>3. \A k \in 1..Half(p) : ~(k <= 0) /\ ~(Half(p) + k <= 0)
    BY <1>p
  <2> QED BY <1>r, <1>d, <2>1, <2>2, <2>3 DEF Report
<1>2. CASE ~Start(p)
  <2>1. /\ status[p] # "idle" /\ Undisturbed(p) /\ got'[p] = got[p] /\ saw'[p] = saw[p]
    BY <1>2, <1>p, MovesOn DEF Undisturbed
  <2>2. status[p] \in {"running", "over"} /\ (status'[p] = "over" => status[p] = "over" \/ at[p] = Len(Script(p)))
    <3>1. ASSUME NEW r \in Programs, Program(r)
          PROVE  status[p] \in {"running", "over"} /\ (status'[p] = "over" => status[p] = "over" \/ at[p] = Len(Script(p)))
      BY <1>p, <2>1, <3>1 DEF Program, Start, OpenDevice, WriteMsr, ReadMsr, Fails, FailsUnnoticed, Finish,
                             More, TypeOK
    <3>2. ASSUME Migrate \/ (\E n \in Cpus, e \in Events : Happen(n, e)) \/ UNCHANGED vars
          PROVE  status' = status
      BY <3>2 DEF Migrate, Happen, vars
    <3> QED BY <3>1, <3>2 DEF Next, Stopped
  <2>3. Report(p)
    BY <2>1, <2>2 DEF ReportInv
  <2>4. ASSUME status'[p] = "running", at[p] < Last2(p), NEW k \in 1..Half(p), k <= Reads(p)
        PROVE  (Count(p, k) - Seen(p, k))' = got[p][k] - saw[p][k]
    <3>1. status[p] = "running" /\ SlotCpu(p, k)' = SlotCpu(p, k) /\ SlotCounter(p, k)' = SlotCounter(p, k)
      BY <1>2, <2>4, SettingStep DEF SlotCpu, SlotCounter, FixedLen
    <3>2. Count(p, k) - Seen(p, k) = got[p][k] - saw[p][k]
      BY <2>3, <2>4, <3>1 DEF Report
    <3>3. at[p] >= First(p)
      BY <1>p, <2>4 DEF Reads
    <3>4. Tracks(msr[SlotCpu(p, k)], SlotCounter(p, k))
      BY <2>1, <2>4, <3>1, <3>3, SetTracks
    <3> QED BY <1>2, <2>4, <3>1, <3>2, <3>4, CountStep, SlotTypes DEF Count, Seen
  <2> QED BY <1>r, <1>d, <2>1, <2>2, <2>3, <2>4 DEF Report
<1> QED BY <1>1, <1>2

LEMMA ValuesNat == ASSUME NEW q \in Seq(Nat) PROVE \A x \in 1..Len(q) : q[x] \in Nat
OBVIOUS

LEMMA AppendAt ==
  ASSUME NEW q \in Seq(Nat), NEW v \in Nat, NEW n \in Nat \ {0}, Len(q) = n - 1
  PROVE  /\ Len(Append(q, v)) = n /\ Append(q, v)[n] = v
         /\ \A x \in 1..(n - 1) : Append(q, v)[x] = q[x]
OBVIOUS

LEMMA ReportOwn ==
  ASSUME TypeOK, CommandInv, ReportInv, [Next]_vars, NEW p \in Reporters,
         status'[p] \in {"running", "over"}, Undisturbed(p)', at'[p] # at[p]
  PROVE  Report(p)'
<1> DEFINE a == Access(p)
           k == at'[p]
           h == Half(p)
<1>p. p \in Programs /\ First(p) \in Nat /\ h \in Nat /\ Last2(p) = First(p) + h + h
      /\ Reads(p) \in Nat /\ Reads(p) <= h + h /\ at[p] \in Nat /\ got[p] \in Seq(Nat) /\ saw[p] \in Seq(Nat)
  BY SizeTypes, ReadsType DEF Last2
<1>d. First(p)' = First(p) /\ Half(p)' = h /\ Last2(p)' = Last2(p)
  BY DEF First, Half, Last2
<1>r. /\ Reads(p) = IF at[p] <= First(p) THEN 0
                    ELSE IF at[p] <= Last2(p) THEN at[p] - First(p) ELSE h + h
      /\ Reads(p)' = IF k <= First(p) THEN 0
                     ELSE IF k <= Last2(p) THEN k - First(p) ELSE h + h
  BY <1>d DEF Reads
<1>1. /\ status[p] = "running" /\ Undisturbed(p) /\ happened' = happened /\ k = at[p] + 1
      /\ a = Script(p)[k] /\ k \in 1..Len(Script(p))
      /\ a.op \in {"open", "read"} => msr' = msr
      /\ IF a.op = "read"
           THEN /\ got'[p] = Append(got[p], msr[a.cpu].count[a.counter])
                /\ saw'[p] = Append(saw[p], happened[a.cpu][Meant(a.counter)])
           ELSE got'[p] = got[p] /\ saw'[p] = saw[p]
  BY OwnStep
<1>2. Report(p)
  BY <1>1 DEF ReportInv
<1>3. status'[p] = "running"
  <2>1. OpenDevice(p) \/ WriteMsr(p) \/ ReadMsr(p) \/ FailsUnnoticed(p)
    BY <1>p, MovesOn
  <2> QED BY <1>1, <2>1 DEF OpenDevice, WriteMsr, ReadMsr, FailsUnnoticed
<1> HIDE DEF a
<1>4. CASE k <= First(p) \/ k > Last2(p)
  <2>1. a.op # "read"
    BY <1>1, <1>4, ReadScript
  <2>2. Reads(p)' = Reads(p) /\ (k < Last2(p) => Reads(p) = 0)
    <3> DEFINE f == First(p)
    <3>1. f \in Nat /\ h \in Nat /\ Last2(p) = f + h + h /\ at[p] \in Nat /\ k = at[p] + 1
          /\ (k <= f \/ k > f + h + h)
      BY <1>1, <1>4, <1>p
    <3> HIDE DEF f, h, k
    <3>2. CASE k <= f
      BY <1>r, <3>1, <3>2 DEF f
    <3>3. CASE k > f + h + h
      <4>1. at[p] <= f => h = 0 /\ at[p] = f
        BY <3>1, <3>3
      <4>2. ~(k <= f) /\ ~(k <= f + h + h) /\ ~(k < f + h + h) /\ (at[p] <= f + h + h => at[p] - f = h + h)
        BY <3>1, <3>3
      <4> QED BY <1>r, <3>1, <4>1, <4>2 DEF f
    <3> QED BY <3>1, <3>2, <3>3
  <2>3. got'[p] = got[p] /\ saw'[p] = saw[p]
    BY <1>1, <2>1
  <2>4. \A x \in 1..h : ~(x <= 0)
    BY <1>p
  <2> QED BY <1>2, <1>3, <1>d, <2>2, <2>3, <2>4 DEF Report
<1>5. CASE k > First(p) /\ k <= Last2(p)
  <2> DEFINE j == k - First(p)
             s == Slot(p, j)
  <2>1. j \in 1..(h + h) /\ First(p) + j = k /\ Reads(p)' = j /\ Reads(p) = j - 1 /\ at[p] < Last2(p)
    <3> DEFINE f == First(p)
    <3>1. f \in Nat /\ h \in Nat /\ Last2(p) = f + h + h /\ at[p] \in Nat /\ k = at[p] + 1
          /\ k > f /\ k <= f + h + h /\ j = k - f
      BY <1>1, <1>5, <1>p
    <3> HIDE DEF f, h, k, j
    <3>2. j \in 1..(h + h) /\ f + j = k /\ at[p] < f + h + h
      BY <3>1
    <3>3. Reads(p)' = j
      BY <1>r, <3>1 DEF f
    <3>4. Reads(p) = j - 1
      BY <1>r, <3>1 DEF f
    <3> QED BY <3>1, <3>2, <3>3, <3>4 DEF f
  <2> HIDE DEF j
  <2>2. a = Read(SlotCpu(p, s), SlotCounter(p, s)) /\ s \in 1..h /\ s = IF j <= h THEN j ELSE j - h
    <3>1. a = Script(p)[First(p) + j]
      BY <1>1, <2>1
    <3> QED BY <2>1, <3>1, ReadScript DEF Slot
  <2> HIDE DEF s
  <2>3. /\ msr' = msr /\ got'[p] = Append(got[p], Count(p, s)) /\ saw'[p] = Append(saw[p], Seen(p, s))
    BY <1>1, <2>2 DEF Read, Count, Seen
  <2>4. \A x \in 1..h : Count(p, x)' = Count(p, x) /\ Seen(p, x)' = Seen(p, x)
    BY <1>1, <2>3 DEF Count, Seen, SlotCpu, SlotCounter, FixedLen
  <2>5. Count(p, s) \in Nat /\ Seen(p, s) \in Nat
    BY <2>2, SlotTypes DEF Count, Seen, TypeOK, Msr
  <2>6. /\ Len(got[p]) = j - 1 /\ Len(saw[p]) = j - 1
        /\ \A x \in 1..h : x <= j - 1 => Count(p, x) - Seen(p, x) = got[p][x] - saw[p][x]
        /\ \A x \in 1..h : h + x <= j - 1 => got[p][h + x] - saw[p][h + x] = got[p][x] - saw[p][x]
    BY <1>1, <1>2, <2>1 DEF Report
  <2>n. j \in Nat \ {0} /\ h \in Nat
    BY <1>p, <2>1
  <2>7. /\ Len(got'[p]) = j /\ Len(saw'[p]) = j /\ got'[p][j] = Count(p, s) /\ saw'[p][j] = Seen(p, s)
        /\ \A x \in 1..(j - 1) : got'[p][x] = got[p][x] /\ saw'[p][x] = saw[p][x]
    <3>1. /\ Len(Append(got[p], Count(p, s))) = j /\ Append(got[p], Count(p, s))[j] = Count(p, s)
          /\ \A x \in 1..(j - 1) : Append(got[p], Count(p, s))[x] = got[p][x]
      BY <1>p, <2>5, <2>6, <2>n, AppendAt
    <3>2. /\ Len(Append(saw[p], Seen(p, s))) = j /\ Append(saw[p], Seen(p, s))[j] = Seen(p, s)
          /\ \A x \in 1..(j - 1) : Append(saw[p], Seen(p, s))[x] = saw[p][x]
      BY <1>p, <2>5, <2>6, <2>n, AppendAt
    <3>3. got'[p] = Append(got[p], Count(p, s)) /\ saw'[p] = Append(saw[p], Seen(p, s))
      BY <2>3
    <3> QED BY <3>1, <3>2, <3>3, Zenon
  <2>8. ASSUME NEW x \in 1..h, x <= j PROVE Count(p, x) - Seen(p, x) = got'[p][x] - saw'[p][x]
    <3>1. CASE x = j
      <4>1. s = j
        BY <1>p, <2>2, <2>8, <3>1
      <4> QED BY <2>7, <3>1, <4>1
    <3>2. CASE x # j
      <4>1. x \in 1..(j - 1) /\ x <= j - 1
        BY <1>p, <2>1, <2>8, <3>2
      <4> QED BY <2>6, <2>7, <4>1
    <3> QED BY <3>1, <3>2
  <2>9. ASSUME NEW x \in 1..h, h + x <= j
        PROVE  got'[p][h + x] - saw'[p][h + x] = got'[p][x] - saw'[p][x]
    <3>0. x \in 1..(j - 1) /\ x <= j
      BY <2>n, <2>9
    <3>1. CASE h + x = j
      <4>1. s = x
        BY <1>p, <2>1, <2>2, <2>9, <3>1
      <4> QED BY <2>7, <2>8, <3>0, <3>1, <4>1
    <3>2. CASE h + x # j
      <4>1. h + x \in 1..(j - 1) /\ h + x <= j - 1
        BY <2>n, <2>9, <3>2
      <4> QED BY <2>6, <2>7, <3>0, <4>1
    <3> QED BY <3>1, <3>2
  <2> QED BY <1>3, <1>d, <2>1, <2>4, <2>7, <2>8, <2>9 DEF Report
<1> QED BY <1>1, <1>4, <1>5, <1>p

LEMMA ReportStep ==
  ASSUME TypeOK, CommandInv, GotInv, L3Set, MsrTestSet, ReportInv, [Next]_vars
  PROVE  ReportInv'
<1> SUFFICES ASSUME NEW p \in Reporters, status'[p] \in {"running", "over"}, Undisturbed(p)'
             PROVE  Report(p)'
  BY DEF ReportInv
<1> QED BY ReportIdle, ReportOwn

-----------------------------------------------------------------------------
(* What these invariants give. *)

ReportsInv == GotInv /\ L3Set /\ MsrTestSet /\ KernelInv /\ ReportInv

LEMMA ReportsInit == ASSUME Init PROVE ReportsInv
  BY DEF Init, ReportsInv, GotInv, L3Set, MsrTestSet, KernelInv, ReportInv, Programs, Reporters

\* Settings, events and reads fit together in every reachable state.
THEOREM ReportsInductive == Spec => [](TypeOK /\ CommandInv /\ ReportsInv)
<1>1. Init => TypeOK /\ CommandInv /\ ReportsInv
  BY InitType, ReportsInit
<1>2. TypeOK /\ CommandInv /\ ReportsInv /\ [Next]_vars => (TypeOK /\ CommandInv /\ ReportsInv)'
  BY StepType, GotStep, L3SetStep, MsrTestSetStep, KernelStep, ReportStep DEF ReportsInv
<1> QED BY <1>1, <1>2, PTL DEF Spec

\* The L3 counting and msrtest report what happened between their two reads of each
\* counter, and the kernel module what happened since it was loaded, unless another
\* program, a move or a failed access came in the way (cpuid.c, msr-old.c, msrtest.cc,
\* msr_kernel.c).
THEOREM ReportExactHolds == Spec => []ReportExact
<1>1. ASSUME TypeOK, CommandInv, ReportsInv, NEW p \in {"l3", "msrtest"}, status[p] = "over", Undisturbed(p),
             NEW k \in 1..(Len(got[p]) \div 2)
      PROVE  got[p][(Len(got[p]) \div 2) + k] - got[p][k] = saw[p][(Len(got[p]) \div 2) + k] - saw[p][k]
  <2> DEFINE h == Half(p)
  <2>1. p \in Reporters /\ Report(p)
    BY <1>1 DEF Reporters, ReportsInv, ReportInv
  <2>2. /\ h \in Nat /\ First(p) \in Nat /\ Last2(p) = First(p) + h + h /\ at[p] >= Last2(p) /\ at[p] \in Nat
        /\ got[p] \in Seq(Nat) /\ saw[p] \in Seq(Nat)
    BY <1>1, <2>1, SizeTypes, ReadScript, ReadsType DEF Last2, Report
  <2>3. Reads(p) = h + h
    <3> DEFINE f == First(p)
    <3>1. Reads(p) = IF at[p] <= f THEN 0 ELSE IF at[p] <= Last2(p) THEN at[p] - f ELSE h + h
      BY DEF Reads
    <3>2. f \in Nat /\ h \in Nat /\ Last2(p) = f + h + h /\ at[p] >= f + h + h /\ at[p] \in Nat
      BY <2>2
    <3> HIDE DEF f, h
    <3>3. at[p] <= f => h = 0
      BY <3>2
    <3>4. ~(at[p] <= f) /\ at[p] <= f + h + h => at[p] - f = h + h
      BY <3>2
    <3> QED BY <3>1, <3>2, <3>3, <3>4
  <2>4. Len(got[p]) = h + h /\ Len(saw[p]) = h + h
    BY <2>1, <2>3 DEF Report
  <2>5. \A x \in 1..h : h + x <= h + h => got[p][h + x] - saw[p][h + x] = got[p][x] - saw[p][x]
    BY <2>1, <2>3 DEF Report
  <2> HIDE DEF h
  <2>6. Len(got[p]) \div 2 = h
    BY <2>2, <2>4
  <2>7. k \in 1..h /\ h + k <= h + h /\ k \in 1..(h + h) /\ h + k \in 1..(h + h)
    <3>1. k \in 1..h
      BY <1>1, <2>6
    <3> QED BY <2>2, <3>1
  <2>8. /\ got[p][k] \in Nat /\ got[p][h + k] \in Nat /\ saw[p][k] \in Nat /\ saw[p][h + k] \in Nat
    <3>1. (\A x \in 1..Len(got[p]) : got[p][x] \in Nat) /\ (\A x \in 1..Len(saw[p]) : saw[p][x] \in Nat)
      BY <2>2, ValuesNat
    <3> QED BY <2>4, <2>7, <3>1
  <2>9. got[p][h + k] - saw[p][h + k] = got[p][k] - saw[p][k]
    BY <2>5, <2>7
  <2>10. got[p][h + k] - got[p][k] = saw[p][h + k] - saw[p][k]
    BY <2>8, <2>9
  <2> QED BY <2>6, <2>10, Zenon
<1>2. ASSUME TypeOK, CommandInv, ReportsInv, got["kernel"] # <<>>, clean, Undisturbed("kernel")
      PROVE  got["kernel"][1] = saw["kernel"][1] - since
  <2>1. "kernel" \in Programs /\ at["kernel"] \in Nat
    BY <1>2 DEF Programs, TypeOK
  <2>2. status["kernel"] # "idle"
    BY <1>2, <2>1 DEF ReportsInv, GotInv
  <2> QED BY <1>2, <2>1, <2>2 DEF ReportsInv, KernelInv
<1>3. TypeOK /\ CommandInv /\ ReportsInv => ReportExact
  BY <1>1, <1>2 DEF ReportExact
<1> QED BY <1>3, ReportsInductive, PTL
=============================================================================

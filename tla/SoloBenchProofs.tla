--------------------------- MODULE SoloBenchProofs ---------------------------
(***************************************************************************)
(* Theorems about SoloBench, for arrays of every size and any number of      *)
(* passes: the functions but oned_arrays stay within the elements they have  *)
(* filled, and those that walk over an array visit each element once.        *)
(***************************************************************************)
EXTENDS SoloBench, TLAPS

\* The functions that walk over an array, and with cache_work those that stay
\* within theirs.
Walks == {SingleArray, RowWise, ColumnWise, CacheLine}
Safe  == Walks \union {CacheWork}

\* What those have in common: visit has some length.
Within(p) ==
  /\ p.size \in Nat /\ p.filled = p.size
  /\ p.from \in Nat /\ p.from <= p.size
  /\ \E n \in Nat : p.visit \in [0..(n - 1) -> 0..(p.size - 1)]

\* The measured elements are those below `from', each once.
Once(p) ==
  /\ \A m, n \in DOMAIN p.visit : p.visit[m] = p.visit[n] => m = n
  /\ \A n \in DOMAIN p.visit : p.visit[n] < p.from
  /\ \A e \in 0..(p.from - 1) : \E n \in DOMAIN p.visit : p.visit[n] = e

-----------------------------------------------------------------------------
(* Arithmetic of rows and columns. *)

LEMMA Monotone ==
  ASSUME NEW a \in Nat, NEW b \in Nat, NEW d \in Nat, a <= b
  PROVE  a * d <= b * d
  OBVIOUS

LEMMA Divide ==
  ASSUME NEW n \in Nat, NEW d \in Nat \ {0}
  PROVE  /\ n \div d \in Nat /\ n % d \in 0..(d - 1)
         /\ n = (n \div d) * d + (n % d)
  OBVIOUS

LEMMA Cell ==
  ASSUME NEW R \in Nat \ {0}, NEW D \in Nat \ {0}, NEW r \in 0..(R - 1), NEW d \in 0..(D - 1)
  PROVE  r * D + d \in 0..(R * D - 1)
<1>1. (r + 1) * D <= R * D
  BY Monotone
<1>2. (r + 1) * D = r * D + D
  OBVIOUS
<1>3. r * D \in Nat /\ R * D \in Nat
  OBVIOUS
<1> QED BY <1>1, <1>2, <1>3

LEMMA Unique ==
  ASSUME NEW D \in Nat \ {0}, NEW r \in Nat, NEW s \in Nat,
         NEW c \in 0..(D - 1), NEW d \in 0..(D - 1),
         r * D + c = s * D + d
  PROVE  r = s /\ c = d
<1>1. ASSUME NEW x \in Nat, NEW y \in Nat, NEW e \in 0..(D - 1), NEW f \in 0..(D - 1),
             x < y, x * D + e = y * D + f
      PROVE  FALSE
  <2>1. (x + 1) * D <= y * D
    BY <1>1, Monotone
  <2>2. (x + 1) * D = x * D + D
    OBVIOUS
  <2>3. x * D \in Nat /\ y * D \in Nat
    OBVIOUS
  <2> QED BY <1>1, <2>1, <2>2, <2>3
<1>2. r = s
  BY <1>1
<1>3. r * D \in Nat
  OBVIOUS
<1> QED BY <1>2, <1>3

LEMMA Place ==
  ASSUME NEW R \in Nat \ {0}, NEW D \in Nat \ {0}, NEW n \in 0..(R * D - 1)
  PROVE  n \in Nat /\ n \div R \in 0..(D - 1) /\ n % R \in 0..(R - 1) /\ n = (n \div R) * R + (n % R)
<1>0. R * D \in Nat /\ R * D = D * R /\ n \in Nat
  OBVIOUS
<1>1. n \div R \in Nat /\ n % R \in 0..(R - 1) /\ n = (n \div R) * R + (n % R)
  BY <1>0, Divide
<1>2. ASSUME n \div R >= D PROVE FALSE
  <2>1. D * R <= (n \div R) * R
    BY <1>1, <1>2, Monotone
  <2>2. (n \div R) * R \in Nat
    BY <1>1
  <2> QED BY <1>0, <1>1, <2>1, <2>2
<1> QED BY <1>0, <1>1, <1>2

-----------------------------------------------------------------------------
(* The patterns. *)

LEMMA Sizes ==
  /\ N \in Nat \ {0} /\ Rows \in Nat \ {0} /\ Cols \in Nat \ {0}
  /\ MRows \in Nat \ {0} /\ MCols \in Nat \ {0} /\ MCols <= MRows
  /\ Bytes \in Nat \ {0} /\ Line \in Nat \ {0} /\ Line <= Bytes
  /\ Iterations \in Nat
  BY SoloAssumption

LEMMA SingleArrayWalks == Within(SingleArray) /\ Once(SingleArray)
  BY Sizes DEF SingleArray, Pattern, Upwards, Within, Once

LEMMA CacheLineWalks == Within(CacheLine) /\ Once(CacheLine)
<1>1. \A e \in 0..(Line - 1) : e \in 0..(Bytes - 1)
  BY Sizes
<1>2. Within(CacheLine)
  BY <1>1, Sizes DEF CacheLine, Pattern, Upwards, Within
<1>3. Once(CacheLine)
  BY Sizes DEF CacheLine, Pattern, Upwards, Once
<1> QED BY <1>2, <1>3

LEMMA RowWiseWalks == Within(RowWise) /\ Once(RowWise)
<1> DEFINE n == Rows * Cols
<1>1. n \in Nat
  BY Sizes
<1>2. \A e \in 0..(n - 1) : (e \div Cols) * Cols + (e % Cols) = e
  BY Sizes, Place, <1>1
<1>3. RowWise = Pattern(n, n, [e \in 0..(n - 1) |-> e], n)
  BY <1>2 DEF RowWise
<1> HIDE DEF n
<1> QED BY <1>1, <1>3 DEF Pattern, Within, Once

LEMMA ColumnWiseWalks == Within(ColumnWise) /\ Once(ColumnWise)
<1> DEFINE n    == Rows * Cols
           v(e) == (e % Rows) * Cols + (e \div Rows)
<1>1. n \in Nat
  BY Sizes
<1>2. ASSUME NEW e \in 0..(n - 1)
      PROVE  /\ e \in Nat /\ e \div Rows \in 0..(Cols - 1) /\ e % Rows \in 0..(Rows - 1)
             /\ e = ((e \div Rows) * Rows) + (e % Rows)
  BY Sizes, Place
<1>3. ASSUME NEW e \in 0..(n - 1) PROVE v(e) \in 0..(n - 1)
  BY <1>2, Sizes, Cell
<1>4. ASSUME NEW e \in 0..(n - 1), NEW g \in 0..(n - 1), v(e) = v(g) PROVE e = g
  <2>1. e % Rows = g % Rows /\ e \div Rows = g \div Rows
    <3> DEFINE r == e % Rows
               s == g % Rows
               c == e \div Rows
               d == g \div Rows
    <3>1. r \in Nat /\ s \in Nat /\ c \in 0..(Cols - 1) /\ d \in 0..(Cols - 1)
      BY <1>2
    <3>2. r * Cols + c = s * Cols + d
      BY <1>4
    <3> HIDE DEF r, s, c, d
    <3>3. r = s /\ c = d
      BY <3>1, <3>2, Sizes, Unique
    <3> QED BY <3>3 DEF r, s, c, d
  <2> QED BY <1>2, <2>1
<1>5. ASSUME NEW e \in 0..(n - 1) PROVE \E g \in 0..(n - 1) : v(g) = e
  <2> DEFINE r == e \div Cols
             d == e % Cols
             g == d * Rows + r
  <2>0. n = Cols * Rows /\ e \in 0..(Cols * Rows - 1)
    BY Sizes
  <2>1. r \in 0..(Rows - 1) /\ d \in 0..(Cols - 1) /\ e = r * Cols + d
    BY <2>0, Sizes, Place
  <2>2. g \in 0..(n - 1)
    BY <2>0, <2>1, Sizes, Cell
  <2>3. g % Rows = r /\ g \div Rows = d
    <3> HIDE DEF r, d
    <3>1. /\ g \div Rows \in Nat /\ g % Rows \in 0..(Rows - 1)
          /\ ((g \div Rows) * Rows) + (g % Rows) = d * Rows + r
      BY <1>2, <2>2
    <3> QED BY <2>1, <3>1, Sizes, Unique
  <2>4. v(g) = e
    BY <2>1, <2>3
  <2> QED BY <2>2, <2>4
<1>6. ColumnWise = Pattern(n, n, [e \in 0..(n - 1) |-> v(e)], n)
  BY DEF ColumnWise
<1> HIDE DEF n, v
<1>7. Within(ColumnWise)
  BY <1>1, <1>3, <1>6 DEF Pattern, Within
<1>8. Once(ColumnWise)
  BY <1>1, <1>3, <1>4, <1>5, <1>6 DEF Pattern, Once
<1> QED BY <1>7, <1>8

\* cache_work mixes its indices up, but in a matrix with more rows than columns
\* that does not lead outside.
LEMMA CacheWorkWithin == Within(CacheWork)
<1> DEFINE n    == MRows * MCols
           v(e) == (e \div MRows) * MCols + (e % MRows)
<1>1. n \in Nat
  BY Sizes
<1>2. ASSUME NEW e \in 0..(n - 1) PROVE v(e) \in 0..(n - 1)
  <2> DEFINE r == e \div MRows
             d == e % MRows
  <2>1. r \in 0..(MCols - 1) /\ d \in 0..(MRows - 1)
    BY Sizes, Place
  <2> HIDE DEF r, d
  <2>2. r * MCols <= (MCols - 1) * MCols
    BY <2>1, Sizes, Monotone
  <2>3. (MCols - 1) * (MRows - MCols) >= 0
    <3>1. MCols - 1 \in Nat /\ MRows - MCols \in Nat
      BY Sizes
    <3> QED BY <3>1
  <2>4. (MCols - 1) * (MRows - MCols) = n - MCols * MCols - MRows + MCols
    BY Sizes
  <2>5. (MCols - 1) * MCols = MCols * MCols - MCols
    BY Sizes
  <2>6. r * MCols \in Nat /\ MCols * MCols \in Nat
    BY <2>1, Sizes
  <2>7. r * MCols + d \in 0..(n - 1)
    <3> HIDE DEF n
    <3> QED BY <1>1, <2>1, <2>2, <2>3, <2>4, <2>5, <2>6, Sizes
  <2> QED BY <2>7 DEF r, d
<1>3. CacheWork = Pattern(n, n, [e \in 0..(n - 1) |-> v(e)], n)
  BY DEF CacheWork
<1> HIDE DEF n, v
<1> QED BY <1>1, <1>2, <1>3 DEF Pattern, Within

LEMMA SafeWithin == \A p \in Safe : Within(p)
  BY SingleArrayWalks, CacheLineWalks, RowWiseWalks, ColumnWiseWalks, CacheWorkWithin DEF Safe, Walks

LEMMA WalksOnce == \A p \in Walks : Within(p) /\ Once(p)
  BY SingleArrayWalks, CacheLineWalks, RowWiseWalks, ColumnWiseWalks DEF Walks

-----------------------------------------------------------------------------
(* The inductive invariant. *)

\* Filling has come to k; what comes after finds everything filled.
FillInv ==
  /\ pc = "fill" => k <= pattern.filled /\ stored = 0..(k - 1)
  /\ pc # "fill" => stored = 0..(pattern.size - 1)

PassInv ==
  /\ pc = "fill" => counts = 0
  /\ pc = "measure" => counts < Iterations

\* What a pass has visited when it has come to k.
VisitInv ==
  pattern \in Walks =>
    /\ pc = "measure" => \A e \in 0..(pattern.size - 1) :
         visits[e] = IF \E n \in DOMAIN pattern.visit : n < k /\ pattern.visit[n] = e THEN 1 ELSE 0
    /\ pc = "after" => pattern.from <= k /\ \A e \in 0..(pattern.size - 1) :
         visits[e] = IF e < k THEN 1 ELSE 0
    /\ pc = "pass" /\ counts > 0 => \A e \in 0..(pattern.size - 1) : visits[e] = 1

IInv == TypeOK /\ ~stray /\ ~unset /\ FillInv /\ PassInv /\ VisitInv

LEMMA PatternType ==
  ASSUME Patterns \subseteq Safe, TypeOK
  PROVE  /\ pattern \in Safe /\ Within(pattern)
         /\ pattern \in Walks => Once(pattern)
  BY SafeWithin, WalksOnce DEF TypeOK

LEMMA InitInv == ASSUME Patterns \subseteq Safe, Init PROVE IInv
<1>1. Within(pattern)
  BY SafeWithin DEF Init
<1>2. TypeOK
  <2>1. visits \in [0..(pattern.size - 1) -> Nat]
    BY DEF Init
  <2>2. counts \in 0..Iterations
    BY Sizes DEF Init
  <2> QED BY <2>1, <2>2 DEF Init, TypeOK
<1>3. FillInv
  BY <1>1 DEF Init, FillInv, Within
<1> QED BY <1>2, <1>3 DEF IInv, Init, PassInv, VisitInv

LEMMA StepInv == ASSUME Patterns \subseteq Safe, IInv, [Next]_vars PROVE IInv'
<1>t. TypeOK /\ Within(pattern) /\ (pattern \in Walks => Once(pattern))
  BY PatternType DEF IInv
<1>p. pattern' = pattern
  BY DEF Next, FillElement, FillDone, BeginPass, Measure, RecordRow, Overwrite, EndPass, Return,
         Stopped, vars
<1>w. Within(pattern)' /\ (pattern \in Walks => Once(pattern))'
  BY <1>t, <1>p
<1>1. CASE FillElement
  <2>1. Inside(k)
    BY <1>1, <1>t DEF FillElement, Inside, Within, TypeOK
  <2>2. TypeOK' /\ ~stray' /\ ~unset'
    BY <1>1, <2>1 DEF FillElement, IInv, TypeOK
  <2>3. FillInv'
    <3>1. stored' = 0..k
      BY <1>1, <1>t DEF FillElement, IInv, FillInv, TypeOK
    <3> QED BY <1>1, <1>t, <3>1 DEF FillElement, FillInv, TypeOK, Within
  <2> QED BY <1>1, <2>2, <2>3 DEF FillElement, IInv, PassInv, VisitInv
<1>2. CASE FillDone
  <2>1. TypeOK' /\ ~stray' /\ ~unset'
    BY <1>2 DEF FillDone, IInv, TypeOK
  <2>2. FillInv'
    BY <1>2, <1>t DEF FillDone, IInv, FillInv, TypeOK, Within
  <2>3. PassInv' /\ VisitInv'
    BY <1>2 DEF FillDone, IInv, PassInv, VisitInv
  <2> QED BY <2>1, <2>2, <2>3 DEF IInv
<1>3. CASE BeginPass
  <2>1. TypeOK' /\ ~stray' /\ ~unset'
    BY <1>3 DEF BeginPass, IInv, TypeOK
  <2>2. FillInv' /\ PassInv'
    BY <1>3 DEF BeginPass, IInv, FillInv, PassInv
  <2>3. VisitInv'
    BY <1>3, <1>t DEF BeginPass, VisitInv, Within, TypeOK
  <2> QED BY <2>1, <2>2, <2>3 DEF IInv
<1>4. CASE Measure
  <2>1. /\ Inside(pattern.visit[k]) /\ pattern.visit[k] \in stored
    BY <1>4, <1>t DEF Measure, Inside, Within, IInv, FillInv
  <2>2. visits' = [visits EXCEPT ![pattern.visit[k]] = @ + 1] /\ ~stray' /\ ~unset'
    BY <1>4, <2>1 DEF Measure, Touch, IInv
  <2>3. TypeOK'
    <3>1. visits' \in [0..(pattern.size - 1) -> Nat]
      BY <1>t, <2>1, <2>2 DEF TypeOK, Inside
    <3>2. stray' \in BOOLEAN /\ unset' \in BOOLEAN
      BY <1>4 DEF Measure, Touch
    <3> QED BY <1>4, <1>t, <3>1, <3>2 DEF Measure, TypeOK
  <2>4. FillInv' /\ PassInv'
    BY <1>4 DEF Measure, IInv, FillInv, PassInv
  <2>5. VisitInv'
    <3> SUFFICES ASSUME pattern \in Walks, NEW e \in 0..(pattern.size - 1)
                 PROVE  visits'[e] = IF \E n \in DOMAIN pattern.visit :
                                          n < k + 1 /\ pattern.visit[n] = e THEN 1 ELSE 0
      BY <1>4 DEF Measure, VisitInv
    <3>1. visits[e] = IF \E n \in DOMAIN pattern.visit : n < k /\ pattern.visit[n] = e THEN 1 ELSE 0
      BY <1>4 DEF Measure, IInv, VisitInv
    <3>2. k \in DOMAIN pattern.visit /\ k \in Nat /\ DOMAIN pattern.visit \subseteq Nat
      BY <1>4, <1>t DEF Measure, Within, TypeOK
    <3>3. CASE pattern.visit[k] = e
      <4>1. ~ \E n \in DOMAIN pattern.visit : n < k /\ pattern.visit[n] = e
        BY <1>t, <3>2, <3>3 DEF Once
      <4>2. visits'[e] = 1
        BY <1>t, <2>2, <3>1, <3>3, <4>1 DEF TypeOK
      <4> QED BY <3>2, <3>3, <4>2
    <3>4. CASE pattern.visit[k] # e
      <4>1. visits'[e] = visits[e]
        BY <1>t, <2>2, <3>4 DEF TypeOK
      <4>2. \A n \in DOMAIN pattern.visit : n < k + 1 /\ pattern.visit[n] = e => n < k
        BY <3>2, <3>4
      <4>3. \A n \in DOMAIN pattern.visit : n < k => n < k + 1
        BY <3>2
      <4> QED BY <3>1, <4>1, <4>2, <4>3
    <3> QED BY <3>3, <3>4
  <2> QED BY <2>2, <2>3, <2>4, <2>5 DEF IInv
<1>5. CASE RecordRow
  <2>1. TypeOK' /\ ~stray' /\ ~unset'
    BY <1>5, <1>t, Sizes DEF RecordRow, IInv, PassInv, TypeOK, Within
  <2>2. FillInv' /\ PassInv'
    BY <1>5 DEF RecordRow, IInv, FillInv, PassInv
  <2>3. VisitInv'
    <3> SUFFICES ASSUME pattern \in Walks, NEW e \in 0..(pattern.size - 1)
                 PROVE  visits[e] = IF e < pattern.from THEN 1 ELSE 0
      BY <1>5, <1>t DEF RecordRow, VisitInv, Within
    <3>1. visits[e] = IF \E n \in DOMAIN pattern.visit : n < k /\ pattern.visit[n] = e THEN 1 ELSE 0
      BY <1>5 DEF RecordRow, IInv, VisitInv
    <3>2. \A n \in DOMAIN pattern.visit : n < k
      BY <1>5, <1>t DEF RecordRow, Within, TypeOK
    <3>3. e < pattern.from <=> \E n \in DOMAIN pattern.visit : pattern.visit[n] = e
      BY <1>t DEF Once, Within
    <3> QED BY <3>1, <3>2, <3>3
  <2> QED BY <2>1, <2>2, <2>3 DEF IInv
<1>6. CASE Overwrite
  <2>1. Inside(k) /\ k \in stored
    BY <1>6, <1>t DEF Overwrite, Inside, Within, TypeOK, IInv, FillInv
  <2>2. visits' = [visits EXCEPT ![k] = @ + 1] /\ ~stray' /\ ~unset'
    BY <1>6, <2>1 DEF Overwrite, Touch, IInv
  <2>3. TypeOK'
    <3>1. visits' \in [0..(pattern.size - 1) -> Nat]
      BY <1>t, <2>1, <2>2 DEF TypeOK, Inside
    <3>2. stray' \in BOOLEAN /\ unset' \in BOOLEAN
      BY <1>6 DEF Overwrite, Touch
    <3> QED BY <1>6, <1>t, <3>1, <3>2 DEF Overwrite, TypeOK
  <2>4. FillInv' /\ PassInv'
    BY <1>6 DEF Overwrite, IInv, FillInv, PassInv
  <2>5. VisitInv'
    <3> SUFFICES ASSUME pattern \in Walks
                 PROVE  /\ pattern.from <= k + 1
                        /\ \A e \in 0..(pattern.size - 1) :
                             visits'[e] = IF e < k + 1 THEN 1 ELSE 0
      BY <1>6 DEF Overwrite, VisitInv
    <3>1. /\ pattern.from <= k
          /\ \A e \in 0..(pattern.size - 1) : visits[e] = IF e < k THEN 1 ELSE 0
      BY <1>6 DEF Overwrite, IInv, VisitInv
    <3>2. pattern.from <= k + 1
      BY <1>t, <3>1 DEF TypeOK, Within
    <3>3. ASSUME NEW e \in 0..(pattern.size - 1)
          PROVE  visits'[e] = IF e < k + 1 THEN 1 ELSE 0
      <4>1. visits'[e] = IF e = k THEN visits[e] + 1 ELSE visits[e]
        BY <1>t, <2>2 DEF TypeOK
      <4>2. e \in Int /\ k \in Nat
        BY <1>t DEF TypeOK
      <4> QED BY <3>1, <4>1, <4>2
    <3> QED BY <3>2, <3>3
  <2> QED BY <2>2, <2>3, <2>4, <2>5 DEF IInv
<1>7. CASE EndPass
  <2>1. TypeOK' /\ ~stray' /\ ~unset' /\ FillInv' /\ PassInv'
    BY <1>7 DEF EndPass, IInv, TypeOK, FillInv, PassInv
  <2>2. VisitInv'
    <3> SUFFICES ASSUME pattern \in Walks, NEW e \in 0..(pattern.size - 1) PROVE visits[e] = 1
      BY <1>7 DEF EndPass, VisitInv
    <3>1. visits[e] = IF e < k THEN 1 ELSE 0
      BY <1>7 DEF EndPass, IInv, VisitInv
    <3>2. e < k
      BY <1>7, <1>t DEF EndPass, TypeOK, Within
    <3> QED BY <3>1, <3>2
  <2> QED BY <2>1, <2>2 DEF IInv
<1>8. CASE Return
  BY <1>8 DEF Return, IInv, TypeOK, FillInv, PassInv, VisitInv
<1>9. CASE UNCHANGED vars
  BY <1>9 DEF vars, IInv, TypeOK, FillInv, PassInv, VisitInv
<1> QED
  BY <1>1, <1>2, <1>3, <1>4, <1>5, <1>6, <1>7, <1>8, <1>9 DEF Next, Stopped

-----------------------------------------------------------------------------
(* The theorems. *)

\* As long as no function but those is run, the invariant holds: the program has
\* filled what it visits and visits what it should.
THEOREM Inductive == ASSUME Patterns \subseteq Safe PROVE Spec => []IInv
<1>1. Init => IInv
  BY InitInv
<1>2. IInv /\ [Next]_vars => IInv'
  BY StepInv
<1> QED BY <1>1, <1>2, PTL DEF Spec

\* The loops of each function keep its counters in their ranges: no row more than
\* there are iterations.
THEOREM TypeCorrect == ASSUME Patterns \subseteq Safe PROVE Spec => []TypeOK
<1>1. IInv => TypeOK
  BY DEF IInv
<1> QED BY <1>1, Inductive, PTL

\* The functions stay inside the arrays they allocated, for every size: cache_work
\* because its matrix has at least as many rows as columns.
THEOREM InArrayHolds == ASSUME Patterns \subseteq Safe PROVE Spec => []InArray
<1>1. IInv => InArray
  BY DEF IInv, InArray
<1> QED BY <1>1, Inductive, PTL

\* They use no element that they have not filled.
THEOREM OnlyFilledHolds == ASSUME Patterns \subseteq Safe PROVE Spec => []OnlyFilled
<1>1. IInv => OnlyFilled
  BY DEF IInv, OnlyFilled
<1> QED BY <1>1, Inductive, PTL

\* Rows, columns, or one line and then the rest: after each pass every element of
\* the array has been used once.
THEOREM EachOncePerPassHolds == ASSUME Patterns \subseteq Safe PROVE Spec => []EachOncePerPass
<1>1. IInv => EachOncePerPass
  BY DEF IInv, TypeOK, VisitInv, Walks, EachOncePerPass
<1> QED BY <1>1, Inductive, PTL
=============================================================================

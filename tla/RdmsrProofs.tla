----------------------------- MODULE RdmsrProofs -----------------------------
(***************************************************************************)
(* Theorems about rdmsr, for registers of any width up to 64 bits and any     *)
(* number of options.  Those about fields and digits rest on the powers of    *)
(* two and ten, about which the first part has what is needed.               *)
(***************************************************************************)
EXTENDS Rdmsr, WellFoundedInduction, TLAPS

-----------------------------------------------------------------------------
(* Induction, and the powers of a number. *)

\* Every set of natural numbers that is not empty has a least element.
LEMMA Least ==
  ASSUME NEW T \in SUBSET Nat, T # {}
  PROVE  \E x \in T : \A y \in T : x <= y
<1> DEFINE R == OpToRel(<, Nat)
<1>1. IsWellFoundedOn(R, Nat)
  BY NatLessThanWellFounded
<1>2. \A x, y \in Nat : <<x, y>> \in R <=> x < y
  BY DEF OpToRel
<1> HIDE DEF R
<1>3. PICK x \in T : \A y \in T : ~ (<<y, x>> \in R)
  BY <1>1, WFMin
<1>4. \A y \in T : x <= y
  <2> TAKE y \in T
  <2>1. x \in Nat /\ y \in Nat
    OBVIOUS
  <2>2. ~(y < x)
    BY <1>2, <1>3, <2>1
  <2> QED BY <2>1, <2>2
<1> QED BY <1>4

\* Induction over the natural numbers, for a set instead of a predicate.
LEMMA Induction ==
  ASSUME NEW S \in SUBSET Nat, 0 \in S, \A n \in S : n + 1 \in S
  PROVE  \A n \in Nat : n \in S
<1> SUFFICES ASSUME Nat \ S # {} PROVE FALSE
  OBVIOUS
<1>1. PICK x \in Nat \ S : \A y \in Nat \ S : x <= y
  <2> DEFINE T == Nat \ S
  <2>1. T \in SUBSET Nat /\ T # {}
    OBVIOUS
  <2> HIDE DEF T
  <2>2. \E x \in T : \A y \in T : x <= y
    BY <2>1, Least
  <2> QED BY <2>2 DEF T
<1>2. x # 0 /\ x - 1 \in Nat /\ x - 1 \in S
  BY <1>1
<1>3. x - 1 + 1 = x
  BY <1>1
<1> QED BY <1>1, <1>2, <1>3

\* g holds the powers of b up to the n-th.
Upto(b, n, g) ==
  /\ g \in [0..n -> Nat] /\ g[0] = 1
  /\ \A i \in 1..n : g[i] = b * g[i - 1]

\* For every n there is such a g,
LEMMA UptoExists ==
  ASSUME NEW b \in Nat
  PROVE  \A n \in Nat : \E g : Upto(b, n, g)
<1> DEFINE S == {n \in Nat : \E g : Upto(b, n, g)}
<1>1. 0 \in S
  <2>1. Upto(b, 0, [i \in 0..0 |-> 1])
    BY DEF Upto
  <2> QED BY <2>1
<1>2. ASSUME NEW n \in S PROVE n + 1 \in S
  <2>1. PICK g : Upto(b, n, g)
    OBVIOUS
  <2> DEFINE h == [i \in 0..(n + 1) |-> IF i = n + 1 THEN b * g[n] ELSE g[i]]
  <2>2. h \in [0..(n + 1) -> Nat]
    BY <2>1 DEF Upto
  <2>3. h[0] = 1
    BY <2>1 DEF Upto
  <2>4. ASSUME NEW i \in 1..(n + 1) PROVE h[i] = b * h[i - 1]
    BY <2>1 DEF Upto
  <2> HIDE DEF h
  <2>5. Upto(b, n + 1, h)
    BY <2>2, <2>3, <2>4 DEF Upto
  <2> QED BY <2>5
<1> HIDE DEF S
<1>3. S \in SUBSET Nat
  BY DEF S
<1>4. \A n \in Nat : n \in S
  BY <1>1, <1>2, <1>3, Induction
<1> QED BY <1>4 DEF S

\* and two of them agree as far as both go.
LEMMA UptoUnique ==
  ASSUME NEW b \in Nat, NEW n \in Nat, NEW m \in Nat, NEW g, NEW h,
         Upto(b, n, g), Upto(b, m, h), n <= m
  PROVE  \A i \in 0..n : g[i] = h[i]
<1> DEFINE S == {i \in Nat : i <= n => g[i] = h[i]}
<1>1. 0 \in S
  BY DEF Upto
<1>2. ASSUME NEW i \in S PROVE i + 1 \in S
  BY DEF Upto
<1> HIDE DEF S
<1>3. S \in SUBSET Nat
  BY DEF S
<1>4. \A i \in Nat : i \in S
  BY <1>1, <1>2, <1>3, Induction
<1> QED BY <1>4 DEF S

\* The recursive definition of the powers has a solution, and hence defines them.
LEMMA PowerDef ==
  ASSUME NEW b \in Nat
  PROVE  /\ Power(b) \in [Nat -> Nat] /\ Power(b)[0] = 1
         /\ \A n \in Nat : Power(b)[n + 1] = b * Power(b)[n]
<1> DEFINE G(n) == CHOOSE g : Upto(b, n, g)
           p == [n \in Nat |-> G(n)[n]]
<1>1. ASSUME NEW n \in Nat PROVE Upto(b, n, G(n))
  BY UptoExists
<1> HIDE DEF G
<1>2. p \in [Nat -> Nat] /\ p[0] = 1
  BY <1>1 DEF Upto
<1>3. ASSUME NEW n \in Nat PROVE p[n + 1] = b * p[n]
  <2>1. G(n + 1)[n + 1] = b * G(n + 1)[n]
    BY <1>1 DEF Upto
  <2>2. n <= n + 1 /\ n + 1 \in Nat /\ n \in 0..n
    OBVIOUS
  <2>3. G(n)[n] = G(n + 1)[n]
    BY <1>1, <2>2, UptoUnique
  <2> QED BY <2>1, <2>2, <2>3
<1> HIDE DEF p
<1>4. p = [k \in Nat |-> IF k = 0 THEN 1 ELSE b * p[k - 1]]
  <2>1. ASSUME NEW k \in Nat PROVE p[k] = IF k = 0 THEN 1 ELSE b * p[k - 1]
    <3>1. CASE k = 0
      BY <1>2, <3>1
    <3>2. CASE k # 0
      <4>1. k - 1 \in Nat /\ k - 1 + 1 = k
        BY <3>2
      <4>2. p[k - 1 + 1] = b * p[k - 1]
        BY <1>3, <4>1
      <4> QED BY <3>2, <4>1, <4>2
    <3> QED BY <3>1, <3>2
  <2> QED BY <1>2, <2>1
<1>5. Power(b) = [k \in Nat |-> IF k = 0 THEN 1 ELSE b * Power(b)[k - 1]]
  BY <1>4 DEF Power
<1>6. Power(b)[0] = 1
  BY <1>5
<1>7. ASSUME NEW n \in Nat PROVE Power(b)[n + 1] = b * Power(b)[n]
  <2>1. n + 1 \in Nat /\ n + 1 # 0 /\ n + 1 - 1 = n
    OBVIOUS
  <2>2. Power(b)[n + 1] = b * Power(b)[n + 1 - 1]
    BY <1>5, <2>1
  <2> QED BY <2>1, <2>2
<1>8. ASSUME NEW n \in Nat PROVE Power(b)[n] \in Nat
  <2> DEFINE S == {k \in Nat : Power(b)[k] \in Nat}
  <2>1. 0 \in S
    BY <1>6
  <2>2. ASSUME NEW k \in S PROVE k + 1 \in S
    BY <1>7
  <2> HIDE DEF S
  <2>3. S \in SUBSET Nat
    BY DEF S
  <2>4. \A k \in Nat : k \in S
    BY <2>1, <2>2, <2>3, Induction
  <2> QED BY <2>4 DEF S
<1>9. Power(b) \in [Nat -> Nat]
  BY <1>5, <1>8
<1> QED BY <1>6, <1>7, <1>9

\* No power of a number that is not zero is zero.
LEMMA PowerPositive ==
  ASSUME NEW b \in Nat \ {0}
  PROVE  \A n \in Nat : Power(b)[n] \in Nat \ {0}
<1> DEFINE S == {n \in Nat : Power(b)[n] \in Nat \ {0}}
<1>0. b \in Nat /\ b # 0
  OBVIOUS
<1>1. 0 \in S
  <2>1. Power(b)[0] = 1
    BY <1>0, PowerDef
  <2> QED BY <2>1
<1>2. ASSUME NEW n \in S PROVE n + 1 \in S
  <2>1. Power(b)[n + 1] = b * Power(b)[n]
    BY <1>0, PowerDef
  <2> QED BY <2>1
<1> HIDE DEF S
<1>3. S \in SUBSET Nat
  BY DEF S
<1>4. \A n \in Nat : n \in S
  BY <1>1, <1>2, <1>3, Induction
<1> QED BY <1>4 DEF S

\* Reordering a product of three.
LEMMA Associative == \A x, y, z \in Nat : x * (y * z) = (x * y) * z /\ x * (y * z) = y * (x * z)
  OBVIOUS

\* b^(m + n) = b^m * b^n
LEMMA PowerPlus ==
  ASSUME NEW b \in Nat, NEW m \in Nat
  PROVE  \A n \in Nat : Power(b)[m + n] = Power(b)[m] * Power(b)[n]
<1> DEFINE S == {n \in Nat : Power(b)[m + n] = Power(b)[m] * Power(b)[n]}
<1>1. 0 \in S
  <2>1. Power(b)[0] = 1 /\ Power(b)[m] \in Nat /\ m + 0 = m
    BY PowerDef
  <2> QED BY <2>1
<1>2. ASSUME NEW n \in S PROVE n + 1 \in S
  <2>1. m + (n + 1) = m + n + 1 /\ m + n \in Nat /\ n \in Nat
    OBVIOUS
  <2>2. Power(b)[m + (n + 1)] = b * Power(b)[m + n]
    BY <2>1, PowerDef
  <2>3. Power(b)[n + 1] = b * Power(b)[n] /\ Power(b)[m] \in Nat /\ Power(b)[n] \in Nat
    BY <2>1, PowerDef
  <2>4. Power(b)[m] * Power(b)[n + 1] = b * (Power(b)[m] * Power(b)[n])
    BY <2>3, Associative
  <2>5. Power(b)[m + n] = Power(b)[m] * Power(b)[n]
    OBVIOUS
  <2> QED BY <2>2, <2>4, <2>5
<1> HIDE DEF S
<1>3. S \in SUBSET Nat
  BY DEF S
<1>4. \A n \in Nat : n \in S
  BY <1>1, <1>2, <1>3, Induction
<1> QED BY <1>4 DEF S

\* The powers of two and of larger numbers grow.
LEMMA PowerLess ==
  ASSUME NEW b \in Nat, b >= 2, NEW m \in Nat, NEW n \in Nat, m < n
  PROVE  Power(b)[m] < Power(b)[n]
<1> DEFINE S == {k \in Nat : Power(b)[m] < Power(b)[m + (k + 1)]}
<1>0. ASSUME NEW k \in Nat PROVE Power(b)[k] < Power(b)[k + 1]
  <2>0. b \in Nat \ {0}
    OBVIOUS
  <2>1. Power(b)[k + 1] = b * Power(b)[k] /\ Power(b)[k] \in Nat \ {0}
    BY <2>0, PowerDef, PowerPositive
  <2>2. \A x \in Nat \ {0} : x < b * x
    OBVIOUS
  <2> QED BY <2>1, <2>2
<1>1. 0 \in S
  BY <1>0
<1>2. ASSUME NEW k \in S PROVE k + 1 \in S
  <2>1. m + (k + 1 + 1) = m + (k + 1) + 1 /\ m + (k + 1) \in Nat /\ k \in Nat
    OBVIOUS
  <2>2. Power(b)[m + (k + 1)] < Power(b)[m + (k + 1 + 1)]
    BY <1>0, <2>1
  <2>3. Power(b)[m] < Power(b)[m + (k + 1)]
    OBVIOUS
  <2>4. Power(b)[m] \in Nat /\ Power(b)[m + (k + 1)] \in Nat /\ Power(b)[m + (k + 1 + 1)] \in Nat
    <3>1. m + (k + 1 + 1) \in Nat
      BY <2>1
    <3> QED BY <2>1, <3>1, PowerDef
  <2> QED BY <2>2, <2>3, <2>4
<1> HIDE DEF S
<1>3. S \in SUBSET Nat
  BY DEF S
<1>4. n - m - 1 \in S
  BY <1>1, <1>2, <1>3, Induction
<1>5. m + (n - m - 1 + 1) = n
  OBVIOUS
<1> QED BY <1>4, <1>5 DEF S

\* They never fall.
LEMMA PowerLeq ==
  ASSUME NEW b \in Nat, b >= 2, NEW m \in Nat, NEW n \in Nat, m <= n
  PROVE  Power(b)[m] <= Power(b)[n]
<1>1. Power(b)[m] \in Nat /\ Power(b)[n] \in Nat
  BY PowerDef
<1>2. CASE m = n
  BY <1>1, <1>2
<1>3. CASE m < n
  BY <1>1, <1>3, PowerLess
<1> QED BY <1>2, <1>3

\* (b^m)^n = b^(m * n)
LEMMA PowerOfPower ==
  ASSUME NEW b \in Nat, NEW m \in Nat
  PROVE  \A n \in Nat : Power(Power(b)[m])[n] = Power(b)[m * n]
<1> DEFINE q == Power(b)[m]
           S == {n \in Nat : Power(q)[n] = Power(b)[m * n]}
<1>0. q \in Nat
  BY PowerDef
<1> HIDE DEF q
<1>1. 0 \in S
  <2>1. Power(q)[0] = 1 /\ Power(b)[0] = 1 /\ m * 0 = 0
    BY <1>0, PowerDef
  <2> QED BY <2>1
<1>2. ASSUME NEW n \in S PROVE n + 1 \in S
  <2>1. m * (n + 1) = m + m * n /\ m * n \in Nat /\ n \in Nat
    OBVIOUS
  <2>2. Power(q)[n + 1] = q * Power(q)[n]
    BY <1>0, <2>1, PowerDef
  <2>3. Power(b)[m + m * n] = q * Power(b)[m * n]
    BY <2>1, PowerPlus DEF q
  <2> QED BY <2>1, <2>2, <2>3
<1> HIDE DEF S
<1>3. S \in SUBSET Nat
  BY DEF S
<1>4. \A n \in Nat : n \in S
  BY <1>1, <1>2, <1>3, Induction
<1> QED BY <1>4 DEF S, q

-----------------------------------------------------------------------------
(* The table of decimal digits. *)

\* The powers of two up to 2^64,
LEMMA Twos ==
  ASSUME NEW p, p = Power(2)
  PROVE  /\ p[0] = 1
         /\ p[1] = 2 /\ p[2] = 4 /\ p[3] = 8 /\ p[4] = 16 /\ p[5] = 32 /\ p[6] = 64 /\ p[7] = 128
         /\ p[8] = 256 /\ p[9] = 512 /\ p[10] = 1024 /\ p[11] = 2048 /\ p[12] = 4096
         /\ p[13] = 8192 /\ p[14] = 16384 /\ p[15] = 32768 /\ p[16] = 65536 /\ p[17] = 131072
         /\ p[18] = 262144 /\ p[19] = 524288 /\ p[20] = 1048576 /\ p[21] = 2097152
         /\ p[22] = 4194304 /\ p[23] = 8388608 /\ p[24] = 16777216 /\ p[25] = 33554432
         /\ p[26] = 67108864 /\ p[27] = 134217728 /\ p[28] = 268435456 /\ p[29] = 536870912
         /\ p[30] = 1073741824 /\ p[31] = 2147483648 /\ p[32] = 4294967296 /\ p[33] = 8589934592
         /\ p[34] = 17179869184 /\ p[35] = 34359738368 /\ p[36] = 68719476736
         /\ p[37] = 137438953472 /\ p[38] = 274877906944 /\ p[39] = 549755813888
         /\ p[40] = 1099511627776 /\ p[41] = 2199023255552 /\ p[42] = 4398046511104
         /\ p[43] = 8796093022208 /\ p[44] = 17592186044416 /\ p[45] = 35184372088832
         /\ p[46] = 70368744177664 /\ p[47] = 140737488355328 /\ p[48] = 281474976710656
         /\ p[49] = 562949953421312 /\ p[50] = 1125899906842624 /\ p[51] = 2251799813685248
         /\ p[52] = 4503599627370496 /\ p[53] = 9007199254740992 /\ p[54] = 18014398509481984
         /\ p[55] = 36028797018963968 /\ p[56] = 72057594037927936 /\ p[57] = 144115188075855872
         /\ p[58] = 288230376151711744 /\ p[59] = 576460752303423488
         /\ p[60] = 1152921504606846976 /\ p[61] = 2305843009213693952
         /\ p[62] = 4611686018427387904 /\ p[63] = 9223372036854775808
         /\ p[64] = 18446744073709551616
<1>1. p[0] = 1 /\ \A n \in Nat : p[n + 1] = 2 * p[n]
  BY PowerDef
<1> QED BY <1>1, SMTT(30)

\* and those of ten that are not much larger.
LEMMA Tens ==
  ASSUME NEW p, p = Power(10)
  PROVE  /\ p[0] = 1
         /\ p[1] = 10 /\ p[2] = 100 /\ p[3] = 1000 /\ p[4] = 10000 /\ p[5] = 100000
         /\ p[6] = 1000000 /\ p[7] = 10000000 /\ p[8] = 100000000 /\ p[9] = 1000000000
         /\ p[10] = 10000000000 /\ p[11] = 100000000000 /\ p[12] = 1000000000000
         /\ p[13] = 10000000000000 /\ p[14] = 100000000000000 /\ p[15] = 1000000000000000
         /\ p[16] = 10000000000000000 /\ p[17] = 100000000000000000 /\ p[18] = 1000000000000000000
         /\ p[19] = 10000000000000000000 /\ p[20] = 100000000000000000000
<1>1. p[0] = 1 /\ \A n \in Nat : p[n + 1] = 10 * p[n]
  BY PowerDef
<1> QED BY <1>1, SMTT(30)

\* The table is right: no entry is more than the number of bits, and 2^n has as many
\* digits as its entry says.
LEMMA DecimalTable ==
  ASSUME NEW n \in 1..64, NEW two, two = Power(2), NEW ten, ten = Power(10)
  PROVE  /\ DecDigits(n) \in 1..n
         /\ ten[DecDigits(n) - 1] < two[n] /\ two[n] < ten[DecDigits(n)]
<1>1. CASE n \in 1..8
  BY <1>1, Twos, Tens DEF DecDigits, decdigits
<1>2. CASE n \in 9..16
  BY <1>2, Twos, Tens DEF DecDigits, decdigits
<1>3. CASE n \in 17..24
  BY <1>3, Twos, Tens DEF DecDigits, decdigits
<1>4. CASE n \in 25..32
  BY <1>4, Twos, Tens DEF DecDigits, decdigits
<1>5. CASE n \in 33..40
  BY <1>5, Twos, Tens DEF DecDigits, decdigits
<1>6. CASE n \in 41..48
  BY <1>6, Twos, Tens DEF DecDigits, decdigits
<1>7. CASE n \in 49..56
  BY <1>7, Twos, Tens DEF DecDigits, decdigits
<1>8. CASE n \in 57..64
  BY <1>8, Twos, Tens DEF DecDigits, decdigits
<1> QED BY <1>1, <1>2, <1>3, <1>4, <1>5, <1>6, <1>7, <1>8

-----------------------------------------------------------------------------
(* The mode. *)

\* The options make one of the modes that the switch has a case for, with the
\* format that was given last; the mode does not change afterwards.
ModeInv ==
  /\ asked \in Formats
  /\ mode \in {Code(asked) + flags : flags \in {0, Fill, C, Fill + C}}
  /\ pc # "impossible"

LEMMA CodeRange == \A fmt \in Formats : Code(fmt) \in 1..6
  BY DEF Formats, Code

\* The three parts of a mode do not overlap.
LEMMA Parts ==
  ASSUME NEW c \in 1..6, NEW flags \in {0, Fill, C, Fill + C}
  PROVE  /\ (c + flags) % Masked = c
         /\ ((c + flags) \div Masked) * Masked = flags
         /\ (((c + flags) \div Fill) % 2 = 1) <=> flags \in {Fill, Fill + C}
         /\ (((c + flags) \div C) % 2 = 1) <=> flags \in {C, Fill + C}
  BY DEF Masked, Fill, C

LEMMA ModeInit == ASSUME Init PROVE ModeInv
<1>1. mode = Code(asked) + 0 /\ asked \in Formats
  BY DEF Init, Formats, Code
<1> QED BY <1>1 DEF Init, ModeInv

LEMMA ModeStep == ASSUME ModeInv, [Next]_vars PROVE ModeInv'
<1>0. PICK flags \in {0, Fill, C, Fill + C} : mode = Code(asked) + flags
  BY DEF ModeInv
<1>c. Code(asked) \in 1..6
  BY CodeRange DEF ModeInv
<1>1. ASSUME NEW fmt \in Formats, Format(fmt) PROVE ModeInv'
  <2>1. mode' = Code(fmt) + flags
    <3>1. (mode \div Masked) * Masked = flags
      BY <1>0, <1>c, Parts
    <3>2. Code(fmt) \in 1..6 /\ flags \in Int
      BY CodeRange DEF Fill, C
    <3> QED BY <1>1, <3>1, <3>2 DEF Format
  <2> QED BY <1>1, <2>1 DEF Format, ModeInv
<1>2. ASSUME NEW bit \in {Fill, C}, Flag(bit) PROVE ModeInv'
  <2>1. mode' \in {Code(asked) + g : g \in {0, Fill, C, Fill + C}}
    <3>1. CASE flags \in {bit, Fill + C}
      <4>1. (mode \div bit) % 2 = 1
        BY <1>0, <1>2, <1>c, <3>1, Parts
      <4> QED BY <1>0, <1>2, <4>1 DEF Flag
    <3>2. CASE flags \notin {bit, Fill + C}
      <4>1. (mode \div bit) % 2 # 1
        BY <1>0, <1>2, <1>c, <3>2, Parts DEF Fill, C
      <4>2. mode' = Code(asked) + flags + bit
        BY <1>0, <1>2, <4>1 DEF Flag
      <4> QED BY <1>2, <1>c, <3>2, <4>2 DEF Fill, C
    <3> QED BY <3>1, <3>2
  <2> QED BY <1>2, <2>1 DEF Flag, ModeInv
<1>3. CASE Processor \/ Bitfield
  BY <1>3 DEF Processor, Bitfield, ModeInv
<1>4. CASE Quit \/ OpenDevice \/ ReadRegister \/ PrintRegister \/ CutField \/ Output
  BY <1>4 DEF Quit, OpenDevice, ReadRegister, PrintRegister, CutField, Output, Leave, command, ModeInv
<1>5. CASE Switch
  <2>1. mode \in Cases
    BY <1>0 DEF Cases, ModeInv
  <2> QED BY <1>5, <2>1 DEF Switch, command, ModeInv
<1>6. CASE UNCHANGED vars
  BY <1>6 DEF vars, command, ModeInv
<1> QED BY <1>1, <1>2, <1>3, <1>4, <1>5, <1>6 DEF Next

-----------------------------------------------------------------------------
(* The field. *)

Sizes       == Width \in 1..64 /\ NumCpus \in Nat
RegistersOK == registers \in [0..(NumCpus - 1) -> 0..(Bit(Width) - 1)]

\* How far the register that was read has been turned into what is printed.
DataInv ==
  /\ pc = "read" => cpu < NumCpus
  /\ pc \in {"register", "field"} => data = raw
  /\ pc = "switch" => data = Field
  /\ pc \in {"print", "printed"} =>
       /\ data = IF asked = "dec" THEN Negate(Field) ELSE Field
       /\ width = FillWidth

\* And what has been printed.
OutInv ==
  /\ pc \in {"options", "read", "register"} => Len(out) = 0
  /\ pc \in {"field", "switch", "print"} => Len(out) = 1 /\ out[1] = raw
  /\ pc = "printed" => Len(out) = 2 /\ out[1] = raw /\ out[2] = Shown

IInv == TypeOK /\ ModeInv /\ DataInv /\ OutInv

LEMMA BitType ==
  /\ \A n \in Nat : Bit(n) \in Nat \ {0} /\ Bit(n + 1) = 2 * Bit(n)
  /\ Bit(0) = 1
  BY PowerDef, PowerPositive DEF Bit

LEMMA BitLeq == ASSUME NEW m \in Nat, NEW n \in Nat, m <= n PROVE Bit(m) <= Bit(n)
  BY PowerLeq DEF Bit

LEMMA DivMod ==
  ASSUME NEW x \in Nat, NEW m \in Nat \ {0}
  PROVE  /\ x % m \in 0..(m - 1) /\ x \div m \in Nat
         /\ x < m => x % m = x
         /\ x \div 1 = x
  OBVIOUS

LEMMA BitsType ==
  ASSUME Sizes, TypeOK
  PROVE  /\ Bits \in 1..Width /\ lowbit \in Nat
         /\ ~(Bits < Width) => (Bits = Width /\ lowbit = 0)
  BY DEF Sizes, TypeOK, Bits

LEMMA FieldType ==
  ASSUME Sizes, TypeOK
  PROVE  /\ Sign \in Nat \ {0} /\ Bit(Bits) = 2 * Sign
         /\ Bit(Width - 1) \in Nat /\ Bit(Width) = 2 * Bit(Width - 1)
         /\ Sign <= Bit(Width - 1)
         /\ Field \in 0..(Bit(Bits) - 1)
<1>1. Bits - 1 \in Nat /\ Width - 1 \in Nat /\ Bits - 1 <= Width - 1 /\ lowbit \in Nat
      /\ Bits - 1 + 1 = Bits /\ Width - 1 + 1 = Width
  BY BitsType DEF Sizes
<1>2. Sign \in Nat \ {0} /\ Bit(Bits) = 2 * Sign
  BY <1>1, BitType DEF Sign
<1>3. Bit(Width - 1) \in Nat /\ Bit(Width) = 2 * Bit(Width - 1)
  BY <1>1, BitType
<1>4. Sign <= Bit(Width - 1)
  BY <1>1, BitLeq DEF Sign
<1>5. Field \in 0..(Bit(Bits) - 1)
  <2>1. raw \in Nat /\ Bit(lowbit) \in Nat \ {0} /\ Bit(Bits) \in Nat \ {0}
    <3>1. raw \in 0..(Bit(Width) - 1)
      BY DEF TypeOK
    <3> QED BY <1>1, <1>2, <1>3, <3>1, BitType
  <2>2. raw \div Bit(lowbit) \in Nat
    BY <2>1, DivMod
  <2> QED BY <2>1, <2>2, DivMod DEF Field
<1> QED BY <1>2, <1>3, <1>4, <1>5

\* -data, in numbers of which the largest is 2h - 1, and what it is meant to be, if
\* s is the sign.
Wrapped(d, s, h)    == IF d >= s THEN (2 * h - (d - s)) % (2 * h) ELSE d
SignMagnitude(d, s) == IF d >= s THEN - (d - s) ELSE d
Signed(n, h)        == IF n >= h THEN n - 2 * h ELSE n   \* %lld

LEMMA NegateShows ==
  ASSUME NEW s \in Nat \ {0}, NEW h \in Nat, s <= h, NEW d \in 0..(2 * s - 1)
  PROVE  /\ Wrapped(d, s, h) \in 0..(2 * h - 1)
         /\ Signed(Wrapped(d, s, h), h) = SignMagnitude(d, s)
<1>1. CASE d < s
  BY <1>1 DEF Wrapped, Signed, SignMagnitude
<1>2. CASE d = s
  <2>1. (2 * h) % (2 * h) = 0
    OBVIOUS
  <2>2. Wrapped(d, s, h) = 0
    BY <1>2, <2>1 DEF Wrapped
  <2>3. h > 0 /\ 2 * h - 1 \in Nat
    OBVIOUS
  <2>4. SignMagnitude(d, s) = 0
    <3>1. \A x \in Int : - x = 0 - x
      OBVIOUS
    <3>2. - (d - s) = 0 - (d - s)
      BY <3>1
    <3> QED BY <1>2, <3>2 DEF SignMagnitude
  <2>5. Signed(0, h) = 0
    BY <2>3 DEF Signed
  <2> QED BY <2>2, <2>3, <2>4, <2>5
<1>3. CASE d > s
  <2> DEFINE x == 2 * h - (d - s)
  <2>1. x \in Nat /\ x < 2 * h /\ x >= h /\ 2 * h \in Nat \ {0}
    BY <1>3
  <2>2. Wrapped(d, s, h) = x % (2 * h)
    BY <1>3 DEF Wrapped
  <2>3. Wrapped(d, s, h) = x
    BY <2>1, <2>2, DivMod
  <2> QED BY <1>3, <2>1, <2>3 DEF Signed, SignMagnitude
<1> QED BY <1>1, <1>2, <1>3

LEMMA NegateIs ==
  ASSUME Sizes, TypeOK
  PROVE  /\ Negate(Field) = Wrapped(Field, Sign, Bit(Width - 1))
         /\ Negate(Field) \in 0..(Bit(Width) - 1)
         /\ Signed(Negate(Field), Bit(Width - 1)) = SignMagnitude(Field, Sign)
<1>1. /\ Sign \in Nat \ {0} /\ Bit(Width - 1) \in Nat /\ Sign <= Bit(Width - 1)
      /\ Field \in 0..(2 * Sign - 1) /\ Bit(Width) = 2 * Bit(Width - 1)
  BY FieldType
<1>2. Negate(Field) = Wrapped(Field, Sign, Bit(Width - 1))
  BY <1>1 DEF Negate, Wrapped, Sign
<1> QED BY <1>1, <1>2, NegateShows

LEMMA DecType == ASSUME NEW n \in 0..64 PROVE DecDigits(n) \in 1..(IF n = 0 THEN 1 ELSE n)
<1>1. DecDigits(0) = 1
  BY DEF DecDigits, decdigits
<1> QED BY <1>1, DecimalTable

LEMMA FillWidthType == ASSUME Sizes, TypeOK PROVE FillWidth \in 1..(Width + 1)
<1>1. Bits \in 1..Width /\ Bits \in 0..64 /\ Bits - 1 \in 0..64 /\ Width \in Nat
  BY BitsType DEF Sizes
<1>2. DecDigits(Bits) \in 1..Width /\ DecDigits(Bits - 1) \in 1..Width
  BY <1>1, DecType
<1>3. (Bits + 3) \div 4 \in 1..Width /\ (Bits + 2) \div 3 \in 1..Width
  BY <1>1
<1> QED BY <1>1, <1>2, <1>3 DEF FillWidth

LEMMA InitInv == ASSUME Sizes, Init PROVE IInv
<1>1. 0 \in 0..(Bit(Width) - 1)
  BY BitType DEF Sizes
<1>2. mode = 1 /\ 0 \in 0..NumCpus /\ Width - 1 \in 0..(Width - 1) /\ 0 \in 0..(Width - 1)
  <2>1. mode = Code("hex")
    BY DEF Init
  <2> QED BY <2>1 DEF Sizes, Code
<1>3. TypeOK
  <2>1. out \in Seq(Int)
    BY DEF Init
  <2> QED BY <1>1, <1>2, <2>1 DEF Sizes, Init, TypeOK, Formats
<1>4. DataInv /\ OutInv
  BY DEF Init, DataInv, OutInv
<1> QED BY <1>3, <1>4, ModeInit DEF IInv

LEMMA Appended ==
  ASSUME NEW s \in Seq(Int), NEW a \in Int
  PROVE  /\ Append(s, a) \in Seq(Int) /\ Len(s) \in Nat /\ Len(Append(s, a)) = Len(s) + 1
         /\ \A i \in 1..Len(s) : Append(s, a)[i] = s[i]
         /\ Append(s, a)[Len(s) + 1] = a
  OBVIOUS

LEMMA ShownType == ASSUME Sizes, TypeOK PROVE Shown \in Int /\ raw \in Int /\ data \in Int
<1>1. data \in 0..(Bit(Width) - 1) /\ raw \in 0..(Bit(Width) - 1)
  BY DEF TypeOK
<1> QED BY <1>1, FieldType DEF Shown

\* From the field to what is printed nothing happens to the options.
LEMMA TypeStep == ASSUME Sizes, IInv, RegistersOK, [Next]_vars PROVE TypeOK'
<1>0. TypeOK /\ ModeInv /\ ModeInv' /\ Width \in Nat \ {0}
  BY ModeStep DEF IInv, Sizes
<1>m. mode' \in 0..255
  <2>1. PICK flags \in {0, Fill, C, Fill + C} : mode' = Code(asked') + flags
    BY <1>0 DEF ModeInv
  <2>2. Code(asked') \in 1..6
    BY <1>0, CodeRange DEF ModeInv
  <2> QED BY <2>1, <2>2 DEF Fill, C
<1>a. asked' \in Formats
  BY <1>0 DEF ModeInv
<1>1. ASSUME NEW fmt \in Formats, Format(fmt) PROVE TypeOK'
  BY <1>0, <1>1, <1>a, <1>m DEF Format, TypeOK
<1>2. ASSUME NEW bit \in {Fill, C}, Flag(bit) PROVE TypeOK'
  BY <1>0, <1>2, <1>a, <1>m DEF Flag, TypeOK
<1>3. CASE Processor
  BY <1>0, <1>3, <1>a, <1>m DEF Processor, TypeOK
<1>4. CASE Bitfield
  BY <1>0, <1>4, <1>a, <1>m DEF Bitfield, TypeOK
<1>5. CASE Quit \/ OpenDevice
  <2>1. pc' \in {"read", "exit"} /\ exit' \in {0, 2, 3, 127, exit}
        /\ UNCHANGED <<mode, cpu, highbit, lowbit, asked, data, width, out, raw>>
    BY <1>5 DEF Quit, OpenDevice, Leave, command
  <2> QED BY <1>0, <2>1 DEF TypeOK
<1>6. CASE ReadRegister
  <2>1. data' \in 0..(Bit(Width) - 1) /\ raw' \in 0..(Bit(Width) - 1)
    <3>1. CASE pc' = "register" /\ data' = registers[cpu] /\ raw' = data'
      <4>1. cpu \in 0..(NumCpus - 1)
        BY <1>6, <1>0 DEF ReadRegister, TypeOK, IInv, DataInv, Sizes
      <4> QED BY <3>1, <4>1 DEF RegistersOK
    <3>2. CASE UNCHANGED <<data, raw>>
      BY <1>0, <3>2 DEF TypeOK
    <3> QED BY <1>6, <3>1, <3>2 DEF ReadRegister
  <2> QED BY <1>0, <1>6, <2>1 DEF ReadRegister, Leave, command, TypeOK
<1>7. CASE CutField
  <2>1. data' \in 0..(Bit(Width) - 1)
    <3>1. CASE Bits < Width
      <4>1. data \in Nat /\ Bit(lowbit) \in Nat \ {0} /\ Bit(Bits) \in Nat \ {0}
            /\ Bit(Bits) <= Bit(Width) /\ Bit(Width) \in Nat
        <5>1. Bits \in Nat /\ lowbit \in Nat /\ Width \in Nat /\ Bits <= Width
          BY <1>0, BitsType
        <5>2. Bit(lowbit) \in Nat \ {0} /\ Bit(Bits) \in Nat \ {0} /\ Bit(Width) \in Nat
          BY <5>1, BitType
        <5>3. Bit(Bits) <= Bit(Width)
          BY <5>1, BitLeq
        <5> QED BY <1>0, <5>2, <5>3 DEF TypeOK
      <4>2. data \div Bit(lowbit) \in Nat
        BY <4>1, DivMod
      <4>3. data' \in 0..(Bit(Bits) - 1)
        BY <1>7, <3>1, <4>1, <4>2, DivMod DEF CutField
      <4> QED BY <4>1, <4>3
    <3>2. CASE ~(Bits < Width)
      BY <1>0, <1>7, <3>2 DEF CutField, TypeOK
    <3> QED BY <3>1, <3>2
  <2> QED BY <1>0, <1>7, <2>1 DEF CutField, command, TypeOK
<1>8. CASE Switch
  <2>1. data' \in 0..(Bit(Width) - 1)
    <3>1. CASE data' = data
      BY <1>0, <3>1 DEF TypeOK
    <3>2. CASE data' = Negate(data)
      <4>1. data = Field
        BY <1>8 DEF Switch, IInv, DataInv
      <4> QED BY <1>0, <3>2, <4>1, NegateIs
    <3> QED BY <1>8, <3>1, <3>2 DEF Switch
  <2>2. width' \in 1..(Width + 1)
    BY <1>0, <1>8, FillWidthType DEF Switch, TypeOK
  <2> QED BY <1>0, <1>8, <2>1, <2>2 DEF Switch, command, TypeOK
<1>9. CASE Output
  <2>1. out' \in Seq(Int)
    <3>1. out \in Seq(Int) /\ out' = Append(out, Shown)
      BY <1>0, <1>9 DEF Output, TypeOK
    <3> QED BY <1>0, <3>1, ShownType, Appended
  <2> QED BY <1>0, <1>9, <2>1 DEF Output, command, TypeOK
<1>11. CASE PrintRegister
  <2>1. out' \in Seq(Int)
    <3>1. out \in Seq(Int) /\ out' = Append(out, data)
      BY <1>0, <1>11 DEF PrintRegister, TypeOK
    <3> QED BY <1>0, <3>1, ShownType, Appended
  <2> QED BY <1>0, <1>11, <2>1 DEF PrintRegister, command, TypeOK
<1>10. CASE UNCHANGED vars
  BY <1>0, <1>10 DEF vars, command, TypeOK
<1> QED BY <1>1, <1>2, <1>3, <1>4, <1>5, <1>6, <1>7, <1>8, <1>9, <1>10, <1>11 DEF Next

LEMMA DataStep == ASSUME Sizes, IInv, [Next]_vars PROVE DataInv'
<1>1. CASE (\E fmt \in Formats : Format(fmt)) \/ Flag(Fill) \/ Flag(C) \/ Processor \/ Bitfield
           \/ Quit \/ OpenDevice
  <2>1. pc' \in {"options", "read", "exit"} /\ (pc' = "read" => cpu' < NumCpus)
    BY <1>1 DEF Format, Flag, Processor, Bitfield, Quit, OpenDevice, Leave, command
  <2> QED BY <2>1 DEF DataInv
<1>2. CASE ReadRegister
  BY <1>2 DEF ReadRegister, Leave, DataInv
<1>6. CASE PrintRegister
  BY <1>6 DEF PrintRegister, DataInv, IInv
<1>3. CASE CutField
  <2>1. pc' = "switch" /\ data = raw /\ UNCHANGED <<command, raw>> /\ TypeOK
    BY <1>3 DEF CutField, IInv, DataInv
  <2>2. data' = Field
    <3>1. CASE Bits < Width
      BY <1>3, <2>1, <3>1 DEF CutField, Field
    <3>2. CASE ~(Bits < Width)
      <4>1. Bits = Width /\ lowbit = 0 /\ raw \in Nat /\ raw < Bit(Width) /\ Bit(lowbit) = 1
            /\ Bit(Width) \in Nat \ {0}
        <5>1. raw \in 0..(Bit(Width) - 1)
          BY <2>1 DEF TypeOK
        <5> QED BY <2>1, <3>2, <5>1, BitsType, BitType DEF Sizes
      <4>2. Field = raw
        BY <4>1, DivMod DEF Field
      <4> QED BY <1>3, <2>1, <3>2, <4>2 DEF CutField
    <3> QED BY <3>1, <3>2
  <2>3. Field' = Field
    BY <2>1 DEF command, Field, Bits
  <2> QED BY <2>1, <2>2, <2>3 DEF DataInv
<1>4. CASE Switch
  <2>1. CASE pc' = "print"
    <3>1. data = Field /\ UNCHANGED <<command, raw>>
      BY <1>4 DEF Switch, IInv, DataInv
    <3>2. FormatOf(mode) = Code(asked)
      <4>1. PICK flags \in {0, Fill, C, Fill + C} : mode = Code(asked) + flags
        BY DEF IInv, ModeInv
      <4> QED BY <4>1, Parts, CodeRange DEF FormatOf, IInv, ModeInv
    <3>3. FormatOf(mode) = Code("dec") <=> asked = "dec"
      BY <3>2 DEF IInv, ModeInv, Formats, Code
    <3>4. data' = (IF asked = "dec" THEN Negate(Field) ELSE Field) /\ width' = FillWidth
      BY <1>4, <2>1, <3>1, <3>3 DEF Switch
    <3>5. Field' = Field /\ Negate(Field)' = Negate(Field) /\ FillWidth' = FillWidth /\ asked' = asked
      BY <3>1 DEF command, Field, Bits, Negate, FillWidth
    <3> QED BY <2>1, <3>4, <3>5 DEF DataInv
  <2>2. CASE pc' = "impossible"
    BY <2>2 DEF DataInv
  <2> QED BY <1>4, <2>1, <2>2 DEF Switch
<1>5. CASE Output \/ UNCHANGED vars
  <2>1. UNCHANGED <<command, data, width, raw>> /\ (pc' = pc \/ (pc = "print" /\ pc' = "printed"))
    BY <1>5 DEF Output, vars
  <2>2. Field' = Field /\ Negate(Field)' = Negate(Field) /\ FillWidth' = FillWidth /\ asked' = asked
    BY <2>1 DEF command, Field, Bits, Negate, FillWidth
  <2> QED BY <2>1, <2>2 DEF IInv, DataInv, command
<1> QED BY <1>1, <1>2, <1>3, <1>4, <1>5, <1>6 DEF Next

\* The register is printed after it was read and before its field is cut out.
LEMMA OutStep == ASSUME Sizes, IInv, [Next]_vars PROVE OutInv'
<1>1. CASE (\E fmt \in Formats : Format(fmt)) \/ Flag(Fill) \/ Flag(C) \/ Processor \/ Bitfield
           \/ Quit \/ OpenDevice \/ ReadRegister
  <2>1. pc \in {"options", "read"} /\ pc' \in {"options", "read", "register", "exit"} /\ out' = out
    BY <1>1 DEF Format, Flag, Processor, Bitfield, Quit, OpenDevice, ReadRegister, Leave, command
  <2> QED BY <2>1 DEF OutInv, IInv
<1>2. CASE PrintRegister
  <2>1. Len(out) = 0 /\ data = raw /\ pc' = "field" /\ raw' = raw /\ out' = Append(out, data)
    BY <1>2 DEF PrintRegister, OutInv, DataInv, IInv
  <2>2. out \in Seq(Int) /\ data \in Int
    BY ShownType DEF IInv, TypeOK
  <2>3. Len(out') = 1 /\ out'[1] = raw'
    BY <2>1, <2>2, Appended
  <2> QED BY <2>1, <2>3 DEF OutInv
<1>3. CASE CutField \/ Switch
  <2>1. pc \in {"field", "switch"} /\ pc' \in {"switch", "print", "impossible"}
        /\ raw' = raw /\ out' = out
    BY <1>3 DEF CutField, Switch
  <2> QED BY <2>1 DEF OutInv, IInv
<1>4. CASE Output
  <2>1. Len(out) = 1 /\ out[1] = raw /\ pc' = "printed" /\ out' = Append(out, Shown)
        /\ raw' = raw /\ data' = data /\ mode' = mode
    BY <1>4 DEF Output, command, OutInv, IInv
  <2>2. Shown' = Shown
    BY <2>1 DEF Shown, FormatOf
  <2>3. out \in Seq(Int) /\ Shown \in Int
    BY ShownType DEF IInv, TypeOK
  <2>4. Len(out') = 2 /\ out'[1] = raw' /\ out'[2] = Shown'
    <3>1. out'[1] = out[1]
      BY <2>1, <2>3, Appended
    <3>2. Len(out') = Len(out) + 1 /\ out'[Len(out) + 1] = Shown
      BY <2>1, <2>3, Appended
    <3>3. Len(out) + 1 = 2
      BY <2>1
    <3> QED BY <2>1, <2>2, <3>1, <3>2, <3>3
  <2> QED BY <2>1, <2>4 DEF OutInv
<1>5. CASE UNCHANGED vars
  <2>1. pc' = pc /\ raw' = raw /\ out' = out /\ data' = data /\ mode' = mode
    BY <1>5 DEF vars, command
  <2>2. Shown' = Shown
    BY <2>1 DEF Shown, FormatOf
  <2> QED BY <2>1, <2>2 DEF OutInv, IInv
<1> QED BY <1>1, <1>2, <1>3, <1>4, <1>5 DEF Next

LEMMA StepInv == ASSUME Sizes, IInv, RegistersOK, [Next]_vars PROVE IInv'
  BY TypeStep, ModeStep, DataStep, OutStep DEF IInv

-----------------------------------------------------------------------------
(* What is printed. *)

LEMMA PrintedMode ==
  ASSUME ModeInv
  PROVE  /\ FormatOf(mode) = Code(asked)
         /\ \A fmt \in Formats : FormatOf(mode) = Code(fmt) <=> asked = fmt
<1>1. PICK flags \in {0, Fill, C, Fill + C} : mode = Code(asked) + flags
  BY DEF ModeInv
<1>2. FormatOf(mode) = Code(asked)
  BY <1>1, Parts, CodeRange DEF FormatOf, ModeInv
<1> QED BY <1>2 DEF ModeInv, Formats, Code

LEMMA AnswerIs == ASSUME IInv, pc = "printed" PROVE Answer = Shown
<1>1. Len(out) = 2 /\ out[2] = Shown
  BY DEF IInv, OutInv
<1> QED BY <1>1 DEF Answer

\* Exactly: -d takes the highest bit of the field for the sign of the others.
LEMMA ShownField ==
  ASSUME Sizes, IInv, pc = "printed"
  PROVE  /\ FormatOf(mode) = Code(asked)
         /\ Shown = IF asked = "dec" /\ Field >= Sign THEN - (Field - Sign) ELSE Field
<1>1. TypeOK /\ ModeInv
  BY DEF IInv
<1>2. FormatOf(mode) = Code(asked) /\ (FormatOf(mode) = Code("dec") <=> asked = "dec")
  BY <1>1, PrintedMode DEF Formats
<1>3. CASE asked = "dec"
  <2>1. data = Negate(Field)
    BY <1>3 DEF IInv, DataInv
  <2>2. Shown = Signed(data, Bit(Width - 1))
    BY <1>1, <1>2, <1>3, FieldType DEF Shown, Signed
  <2>3. Shown = SignMagnitude(Field, Sign)
    BY <1>1, <2>1, <2>2, NegateIs
  <2> QED BY <1>2, <1>3, <2>3 DEF SignMagnitude
<1>4. CASE asked # "dec"
  BY <1>2, <1>4 DEF IInv, DataInv, Shown
<1> QED BY <1>3, <1>4, <1>2

LEMMA ShowsFieldInv == ASSUME Sizes, IInv PROVE ShowsField
<1> SUFFICES ASSUME pc = "printed"
             PROVE  /\ FormatOf(mode) = Code(asked)
                    /\ IF asked = "dec" /\ Field >= Sign THEN Answer <= 0 ELSE Answer = Field
  BY DEF ShowsField
<1>1. /\ FormatOf(mode) = Code(asked)
      /\ Answer = IF asked = "dec" /\ Field >= Sign THEN - (Field - Sign) ELSE Field
  BY ShownField, AnswerIs
<1>2. Field \in Int /\ Sign \in Int
  BY FieldType DEF IInv
<1>3. ASSUME Field >= Sign PROVE - (Field - Sign) <= 0
  BY <1>2, <1>3
<1> QED BY <1>1, <1>3

\* A number has as many digits as it takes to get beyond it.
LEMMA DigitsAre ==
  ASSUME Sizes, NEW b \in Nat, b >= 2, NEW n \in Nat, NEW k \in 1..Width,
         n < Power(b)[k], k = 1 \/ Power(b)[k - 1] <= n
  PROVE  Digits(n, b) = k
<1>1. ASSUME NEW j \in 1..Width, n < Power(b)[j], j = 1 \/ Power(b)[j - 1] <= n
      PROVE  j = k
  <2>1. \A i \in Nat : Power(b)[i] \in Nat
    BY PowerDef
  <2>2. CASE j < k
    <3>1. Power(b)[j] <= Power(b)[k - 1]
      BY <2>2, PowerLeq
    <3> QED BY <1>1, <2>1, <2>2, <3>1
  <2>3. CASE k < j
    <3>1. Power(b)[k] <= Power(b)[j - 1]
      BY <2>3, PowerLeq
    <3> QED BY <1>1, <2>1, <2>3, <3>1
  <2> QED BY <2>2, <2>3
<1> QED BY <1>1 DEF Digits

LEMMA DigitsAtMost ==
  ASSUME Sizes, NEW b \in Nat, b >= 2, NEW n \in Nat, NEW k \in 1..Width, n < Power(b)[k]
  PROVE  Digits(n, b) \in 1..k
<1> DEFINE T == {j \in Nat : j >= 1 /\ n < Power(b)[j]}
<1>1. T \in SUBSET Nat /\ k \in T
  OBVIOUS
<1> HIDE DEF T
<1>2. PICK j \in T : \A i \in T : j <= i
  BY <1>1, Least
<1>3. j \in 1..k /\ n < Power(b)[j] /\ j \in 1..Width
  BY <1>1, <1>2 DEF T, Sizes
<1>4. j = 1 \/ Power(b)[j - 1] <= n
  <2>1. CASE j # 1
    <3>1. j - 1 \notin T /\ j - 1 \in Nat /\ j - 1 >= 1
      BY <1>1, <1>2, <1>3, <2>1
    <3>2. Power(b)[j - 1] \in Nat
      BY <3>1, PowerDef
    <3> QED BY <3>1, <3>2 DEF T
  <2> QED BY <2>1
<1>5. Digits(n, b) = j
  BY <1>3, <1>4, DigitsAre
<1> QED BY <1>3, <1>5

\* A digit of an octal or hexadecimal number stands for m bits.
LEMMA GroupWidth ==
  ASSUME Sizes, NEW m \in Nat \ {0}, NEW n \in 1..Width, NEW k \in 1..Width,
         m * (k - 1) < n, n <= m * k, NEW x \in 0..(Bit(n) - 1)
  PROVE  /\ Digits(x, Power(2)[m]) \in 1..k
         /\ Digits(Bit(n) - 1, Power(2)[m]) = k
<1> DEFINE q == Power(2)[m]
<1>1. m \in Nat /\ n \in Nat /\ k \in Nat /\ k - 1 \in Nat /\ n - 1 \in Nat
      /\ m * k \in Nat /\ m * (k - 1) \in Nat /\ m * (k - 1) <= n - 1
  BY DEF Sizes
<1>2. q \in Nat /\ q >= 2
  <2>1. Power(2)[0] = 1 /\ q \in Nat
    BY <1>1, PowerDef
  <2>2. Power(2)[0] < q
    BY <1>1, PowerLess
  <2> QED BY <2>1, <2>2
<1>3. Power(q)[k] = Bit(m * k) /\ Power(q)[k - 1] = Bit(m * (k - 1))
  <2>1. \A i \in Nat : Power(q)[i] = Power(2)[m * i]
    BY <1>1, PowerOfPower
  <2> QED BY <1>1, <2>1 DEF Bit
<1> HIDE DEF q
<1>4. Bit(n) <= Bit(m * k) /\ Bit(m * (k - 1)) <= Bit(n - 1)
  BY <1>1, BitLeq
<1>5. Bit(n) = 2 * Bit(n - 1) /\ Bit(n - 1) \in Nat \ {0}
      /\ Bit(m * k) \in Nat /\ Bit(m * (k - 1)) \in Nat
  <2>1. n - 1 + 1 = n
    BY <1>1
  <2> QED BY <1>1, <2>1, BitType
<1>6. Bit(n) - 1 \in Nat /\ Bit(n) - 1 < Power(q)[k] /\ Power(q)[k - 1] <= Bit(n) - 1
  BY <1>3, <1>4, <1>5
<1>7. x \in Nat /\ x < Power(q)[k]
  BY <1>3, <1>4, <1>5
<1>8. Digits(Bit(n) - 1, q) = k
  BY <1>2, <1>6, DigitsAre
<1>9. Digits(x, q) \in 1..k
  BY <1>2, <1>7, DigitsAtMost
<1> QED BY <1>8, <1>9 DEF q

LEMMA DecimalWidth ==
  ASSUME Sizes, NEW n \in 0..Width, NEW x \in 0..Bit(n)
  PROVE  /\ Digits(x, 10) \in 1..DecDigits(n)
         /\ Digits(Bit(n), 10) = DecDigits(n)
         /\ n # 0 => Digits(Bit(n) - 1, 10) = DecDigits(n)
<1> DEFINE k == DecDigits(n)
           two == Power(2)
           ten == Power(10)
<1>1. n \in Nat /\ Bit(n) = two[n] /\ two[n] \in Nat \ {0}
  BY BitType DEF Bit, Sizes
<1>2. /\ k \in 1..Width /\ two[n] < ten[k]
      /\ k = 1 \/ ten[k - 1] <= two[n]
      /\ n # 0 => ten[k - 1] < two[n]
  <2>1. CASE n = 0
    <3>1. k = 1 /\ two[n] = 1 /\ ten[1] = 10
      BY <2>1, Twos, Tens DEF DecDigits, decdigits
    <3> QED BY <2>1, <3>1 DEF Sizes
  <2>2. CASE n # 0
    <3>1. n \in 1..64 /\ n \in 1..Width
      BY <2>2 DEF Sizes
    <3>2. k \in 1..n /\ ten[k - 1] < two[n] /\ two[n] < ten[k]
      BY <3>1, DecimalTable
    <3>3. ten[k - 1] \in Nat
      BY <3>1, <3>2, PowerDef
    <3>4. k \in 1..Width
      BY <3>1, <3>2 DEF Sizes
    <3>5. ten[k - 1] <= two[n]
      BY <1>1, <3>2, <3>3
    <3> QED BY <3>2, <3>4, <3>5
  <2> QED BY <2>1, <2>2
<1>3. \A i \in Nat : ten[i] \in Nat
  BY PowerDef
<1> HIDE DEF k, two
<1>4. Digits(two[n], 10) = k
  BY <1>1, <1>2, DigitsAre
<1>5. ASSUME n # 0 PROVE Digits(two[n] - 1, 10) = k
  <2>1. two[n] - 1 \in Nat /\ two[n] - 1 < ten[k] /\ ten[k - 1] <= two[n] - 1
    BY <1>1, <1>2, <1>3, <1>5
  <2> QED BY <1>2, <2>1, DigitsAre
<1>6. Digits(x, 10) \in 1..k
  <2>1. x \in Nat /\ x < ten[k]
    BY <1>1, <1>2, <1>3
  <2> QED BY <1>2, <2>1, DigitsAtMost
<1> QED BY <1>1, <1>4, <1>5, <1>6 DEF k

LEMMA FillFitsInv == ASSUME Sizes, IInv PROVE FillFits
<1> SUFFICES ASSUME pc = "printed", Filled(mode), asked # "raw",
                    ~(ForC(mode) /\ asked \in {"dec", "uns"})
             PROVE  /\ Length(Shown) <= width
                    /\ width = IF asked = "dec" THEN Digits(Bit(Bits - 1), 10) + 1
                                               ELSE Digits(Bit(Bits) - 1, Base)
  BY AnswerIs DEF FillFits, Sign
<1>1. TypeOK /\ ModeInv
  BY DEF IInv
<1>2. width = FillWidth
  BY DEF IInv, DataInv
<1>3. PICK flags \in {Fill, Fill + C} :
        mode = Code(asked) + flags /\ (asked \in {"dec", "uns"} => flags = Fill)
  <2>1. PICK flags \in {0, Fill, C, Fill + C} : mode = Code(asked) + flags
    BY <1>1 DEF ModeInv
  <2>2. /\ Filled(mode) <=> flags \in {Fill, Fill + C}
        /\ ForC(mode) <=> flags \in {C, Fill + C}
    BY <1>1, <2>1, Parts, CodeRange DEF Filled, ForC, ModeInv
  <2> QED BY <2>1, <2>2
<1>4. Bits \in 1..Width /\ Bits \in 0..Width /\ Bits - 1 \in 0..Width /\ Width \in 1..64
  BY <1>1, BitsType DEF Sizes
<1>5. Field \in 0..(Bit(Bits) - 1) /\ Bit(Bits) = 2 * Sign /\ Sign \in Nat \ {0}
  BY <1>1, FieldType
<1>6. FormatOf(mode) = Code(asked)
  BY <1>1, PrintedMode
<1>7. asked # "dec" => Shown = Field
  BY ShownField
<1>a. CASE asked \in {"hex", "chx"}
  <2>1. width = (Bits + 3) \div 4
    BY <1>2, <1>3, <1>a DEF FillWidth, Code, Fill, C
  <2>2. Base = 16
    BY <1>6, <1>a DEF Base, Code
  <2>3. width \in 1..Width /\ 4 * (width - 1) < Bits /\ Bits <= 4 * width
    BY <1>4, <2>1
  <2>4. Power(2)[4] = 16
    BY Twos
  <2>5. Digits(Field, 16) \in 1..width /\ Digits(Bit(Bits) - 1, 16) = width
    <3>1. 4 \in Nat \ {0}
      OBVIOUS
    <3>2. /\ Digits(Field, Power(2)[4]) \in 1..width
          /\ Digits(Bit(Bits) - 1, Power(2)[4]) = width
      BY <1>4, <1>5, <2>3, <3>1, GroupWidth
    <3> QED BY <2>4, <3>2
  <2>6. Length(Shown) = Digits(Field, 16)
    BY <1>5, <1>7, <1>a, <2>2 DEF Length
  <2> QED BY <1>a, <2>2, <2>3, <2>5, <2>6
<1>b. CASE asked = "oct"
  <2>1. width = (Bits + 2) \div 3
    BY <1>2, <1>3, <1>b DEF FillWidth, Code, Fill, C
  <2>2. Base = 8
    BY <1>6, <1>b DEF Base, Code
  <2>3. width \in 1..Width /\ 3 * (width - 1) < Bits /\ Bits <= 3 * width
    BY <1>4, <2>1
  <2>4. Power(2)[3] = 8
    BY Twos
  <2>5. Digits(Field, 8) \in 1..width /\ Digits(Bit(Bits) - 1, 8) = width
    <3>1. 3 \in Nat \ {0}
      OBVIOUS
    <3>2. /\ Digits(Field, Power(2)[3]) \in 1..width
          /\ Digits(Bit(Bits) - 1, Power(2)[3]) = width
      BY <1>4, <1>5, <2>3, <3>1, GroupWidth
    <3> QED BY <2>4, <3>2
  <2>6. Length(Shown) = Digits(Field, 8)
    BY <1>5, <1>7, <1>b, <2>2 DEF Length
  <2> QED BY <1>b, <2>2, <2>3, <2>5, <2>6
<1>c. CASE asked = "uns"
  <2>1. width = DecDigits(Bits)
    BY <1>2, <1>3, <1>c DEF FillWidth, Code, Fill, C
  <2>2. Base = 10
    <3>1. FormatOf(mode) = 5
      BY <1>6, <1>c DEF Code
    <3>2. Code("hex") = 1 /\ Code("chx") = 6 /\ Code("oct") = 3
      BY DEF Code
    <3> QED BY <3>1, <3>2 DEF Base
  <2>3. Field \in 0..Bit(Bits) /\ Bits # 0
    BY <1>4, <1>5
  <2>4. Digits(Field, 10) \in 1..width /\ Digits(Bit(Bits) - 1, 10) = width
    BY <1>4, <2>1, <2>3, DecimalWidth
  <2>5. Length(Shown) = Digits(Field, 10)
    BY <1>5, <1>7, <1>c, <2>2 DEF Length
  <2> QED BY <1>c, <2>2, <2>4, <2>5
<1>d. CASE asked = "dec"
  <2>1. width = DecDigits(Bits - 1) + 1
    BY <1>2, <1>3, <1>d DEF FillWidth, Code, Fill, C
  <2>2. Base = 10
    <3>1. FormatOf(mode) = 2
      BY <1>6, <1>d DEF Code
    <3>2. Code("hex") = 1 /\ Code("chx") = 6 /\ Code("oct") = 3
      BY DEF Code
    <3> QED BY <3>1, <3>2 DEF Base
  <2>3. Shown = IF Field >= Sign THEN - (Field - Sign) ELSE Field
    BY <1>d, ShownField
  <2>4. DecDigits(Bits - 1) \in Nat
    BY <1>4, DecType
  <2>5. ASSUME NEW x \in 0..Sign
        PROVE  Digits(x, 10) \in 1..DecDigits(Bits - 1) /\ Digits(Sign, 10) = DecDigits(Bits - 1)
    BY <1>4, DecimalWidth DEF Sign
  <2>6. Length(Shown) <= DecDigits(Bits - 1) + 1
    <3>1. CASE Shown < 0
      <4>1. - Shown \in 0..Sign
        BY <1>5, <2>3, <3>1
      <4>2. Digits(- Shown, 10) \in 1..DecDigits(Bits - 1)
        BY <2>5, <4>1
      <4> QED BY <2>2, <2>4, <3>1, <4>2 DEF Length
    <3>2. CASE ~(Shown < 0)
      <4>1. Shown \in 0..Sign
        BY <1>5, <2>3, <3>2
      <4>2. Digits(Shown, 10) \in 1..DecDigits(Bits - 1)
        BY <2>5, <4>1
      <4> QED BY <2>2, <2>4, <3>2, <4>2 DEF Length
    <3> QED BY <3>1, <3>2
  <2>7. Digits(Sign, 10) = DecDigits(Bits - 1)
    <3>1. 0 \in 0..Sign
      BY <1>5
    <3> QED BY <2>5, <3>1
  <2> QED BY <1>d, <2>1, <2>6, <2>7 DEF Sign
<1> QED BY <1>1, <1>a, <1>b, <1>c, <1>d DEF ModeInv, Formats

-----------------------------------------------------------------------------
(* The theorems.  The registers are the machine's: whatever is written into      *)
(* them are numbers of Width bits.                                             *)

\* However often and in whichever order the options are given, the switch finds a
\* case for their mode: "Impossible case" is just that.
THEOREM NeverImpossibleHolds == Spec => []NeverImpossible
<1>1. Init => ModeInv
  BY ModeInit
<1>2. ModeInv /\ [Next]_vars => ModeInv'
  BY ModeStep
<1>3. ModeInv => NeverImpossible
  BY DEF ModeInv, NeverImpossible
<1> QED BY <1>1, <1>2, <1>3, PTL DEF Spec

\* Every number rdmsr computes fits in a register, the width of what it prints does
\* not exceed that of the register by more than the sign.
THEOREM TypeCorrect == ASSUME Sizes PROVE Spec /\ []RegistersOK => []TypeOK
<1>1. Init => IInv
  BY InitInv
<1>2. IInv /\ RegistersOK /\ [Next]_vars => IInv'
  BY StepInv
<1>3. IInv => TypeOK
  BY DEF IInv
<1> QED BY <1>1, <1>2, <1>3, PTL DEF Spec

\* After the whole register, rdmsr prints its field, in the format of the last option;
\* only -d of a field whose highest bit is set shows another number, which is not
\* positive.  For every register, field and width.
THEOREM ShowsFieldHolds == ASSUME Sizes PROVE Spec /\ []RegistersOK => []ShowsField
<1>1. Init => IInv
  BY InitInv
<1>2. IInv /\ RegistersOK /\ [Next]_vars => IInv'
  BY StepInv
<1>3. IInv => ShowsField
  BY ShowsFieldInv
<1> QED BY <1>1, <1>2, <1>3, PTL DEF Spec

\* With -0 nothing is longer than the width, and the width is that of the longest
\* number the field can hold.
THEOREM FillFitsHolds == ASSUME Sizes PROVE Spec /\ []RegistersOK => []FillFits
<1>1. Init => IInv
  BY InitInv
<1>2. IInv /\ RegistersOK /\ [Next]_vars => IInv'
  BY StepInv
<1>3. IInv => FillFits
  BY FillFitsInv
<1> QED BY <1>1, <1>2, <1>3, PTL DEF Spec
=============================================================================

------------------------ MODULE AddressMappingProofs ------------------------
(***************************************************************************)
(* Theorems of AddressMapping, for every parameter file, every layout of   *)
(* the fields and every address.                                           *)
(***************************************************************************)
EXTENDS AddressMapping, Arithmetic

-----------------------------------------------------------------------------
(* Powers of two. *)

PowersUpTo(m, g) == g = [i \in 0 .. m |-> IF i = 0 THEN 1 ELSE 2 * g[i - 1]]
IsPow2(f) == f = [n \in Nat |-> IF n = 0 THEN 1 ELSE 2 * f[n - 1]]

(* The recursion defines a function. *)
LEMMA Pow2Defined == IsPow2(Pow2)
<1> DEFINE S == {m \in Nat : \E g : PowersUpTo(m, g)}
<1>1. 0 \in S
  <2>1. PowersUpTo(0, [i \in 0 .. 0 |-> 1])
    BY DEF PowersUpTo
  <2> QED BY <2>1
<1>2. ASSUME NEW m \in Nat, m \in S
      PROVE  m + 1 \in S
  <2>1. PICK g : PowersUpTo(m, g)
    BY <1>2
  <2> DEFINE h == [i \in 0 .. m + 1 |-> IF i <= m THEN g[i] ELSE 2 * g[m]]
  <2>2. \A i \in 0 .. m + 1 : h[i] = IF i = 0 THEN 1 ELSE 2 * h[i - 1]
    <3> TAKE i \in 0 .. m + 1
    <3>1. CASE i <= m
      <4>1. g[i] = IF i = 0 THEN 1 ELSE 2 * g[i - 1]
        BY <2>1, <3>1 DEF PowersUpTo
      <4>2. i # 0 => h[i - 1] = g[i - 1]
        BY <3>1
      <4> QED BY <3>1, <4>1, <4>2
    <3>2. CASE i = m + 1
      BY <3>2
    <3> QED BY <3>1, <3>2
  <2>3. h = [i \in 0 .. m + 1 |-> h[i]]
    OBVIOUS
  <2> HIDE DEF h
  <2>4. PowersUpTo(m + 1, h)
    BY <2>2, <2>3 DEF PowersUpTo
  <2> QED BY <2>4
<1>3. Nat \subseteq S
  <2> HIDE DEF S
  <2> QED BY <1>1, <1>2, Induction
<1> DEFINE G(m) == CHOOSE g : PowersUpTo(m, g)
<1>4. \A m \in Nat : PowersUpTo(m, G(m))
  BY <1>3
\* Two tables agree as far as both go.
<1>5. ASSUME NEW m \in Nat, NEW g, NEW h, PowersUpTo(m, g), PowersUpTo(m + 1, h)
      PROVE  \A i \in 0 .. m : g[i] = h[i]
  <2> DEFINE T == {i \in Nat : i <= m => g[i] = h[i]}
  <2>1. 0 \in T
    BY <1>5 DEF PowersUpTo
  <2>2. ASSUME NEW i \in Nat, i \in T
        PROVE  i + 1 \in T
    <3> SUFFICES ASSUME i + 1 <= m PROVE g[i + 1] = h[i + 1]
      OBVIOUS
    <3>1. g[i] = h[i]
      BY <2>2
    <3>2. i + 1 \in 0 .. m /\ i + 1 \in 0 .. m + 1 /\ i + 1 # 0 /\ (i + 1) - 1 = i
      OBVIOUS
    <3>3. g[i + 1] = 2 * g[i]
      BY <1>5, <3>2 DEF PowersUpTo
    <3>4. h[i + 1] = 2 * h[i]
      BY <1>5, <3>2 DEF PowersUpTo
    <3> QED BY <3>1, <3>3, <3>4
  <2>3. Nat \subseteq T
    <3> HIDE DEF T
    <3> QED BY <2>1, <2>2, Induction
  <2> QED BY <2>3
<1> HIDE DEF G
<1> DEFINE f == [n \in Nat |-> G(n)[n]]
<1>6. \A n \in Nat : f[n] = IF n = 0 THEN 1 ELSE 2 * f[n - 1]
  <2> TAKE n \in Nat
  <2>1. G(n)[n] = IF n = 0 THEN 1 ELSE 2 * G(n)[n - 1]
    <3>1. PowersUpTo(n, G(n)) /\ n \in 0 .. n
      BY <1>4
    <3> QED BY <3>1 DEF PowersUpTo
  <2>2. CASE n = 0
    BY <2>1, <2>2
  <2>3. CASE n # 0
    <3>1. n - 1 \in Nat /\ (n - 1) + 1 = n /\ n - 1 \in 0 .. n - 1
      BY <2>3
    <3>2. PowersUpTo(n - 1, G(n - 1)) /\ PowersUpTo((n - 1) + 1, G(n))
      BY <1>4, <3>1
    <3>3. G(n - 1)[n - 1] = G(n)[n - 1]
      BY <1>5, <3>1, <3>2
    <3> QED BY <2>1, <2>3, <3>1, <3>3
  <2> QED BY <2>2, <2>3
<1>7. IsPow2(f)
  <2>1. f = [n \in Nat |-> f[n]]
    OBVIOUS
  <2> HIDE DEF f
  <2> QED BY <1>6, <2>1 DEF IsPow2
<1>8. Pow2 = CHOOSE x : IsPow2(x)
  BY Zenon DEF Pow2, IsPow2
<1> QED BY <1>7, <1>8, Zenon

(* What a power of two is. *)
LEMMA Pow2Facts ==
  /\ Pow2[0] = 1
  /\ \A n \in Nat : Pow2[n] \in Nat \ {0} /\ Pow2[n + 1] = 2 * Pow2[n]
<1>1. Pow2[0] = 1
  BY Pow2Defined DEF IsPow2
<1>2. ASSUME NEW n \in Nat PROVE Pow2[n + 1] = 2 * Pow2[n]
  <2>1. n + 1 \in Nat /\ n + 1 # 0 /\ (n + 1) - 1 = n
    OBVIOUS
  <2>2. Pow2[n + 1] = 2 * Pow2[(n + 1) - 1]
    BY <2>1, Pow2Defined DEF IsPow2
  <2> QED BY <2>1, <2>2
<1> DEFINE S == {n \in Nat : Pow2[n] \in Nat \ {0}}
<1>3. 0 \in S
  BY <1>1
<1>4. \A n \in Nat : n \in S => n + 1 \in S
  BY <1>2
<1>5. Nat \subseteq S
  <2> HIDE DEF S
  <2> QED BY <1>3, <1>4, Induction
<1> QED BY <1>1, <1>2, <1>5

(* Exponents add. *)
LEMMA Pow2Sum ==
  ASSUME NEW a \in Nat, NEW b \in Nat
  PROVE  Pow2[a + b] = Pow2[a] * Pow2[b]
<1> DEFINE S == {n \in Nat : Pow2[a + n] = Pow2[a] * Pow2[n]}
<1>1. 0 \in S
  <2>1. Pow2[a] \in Nat /\ Pow2[0] = 1 /\ a + 0 = a
    BY Pow2Facts
  <2> QED BY <2>1
<1>2. ASSUME NEW n \in Nat, n \in S PROVE n + 1 \in S
  <2>1. Pow2[a + n] = Pow2[a] * Pow2[n]
    BY <1>2
  <2>2. Pow2[(a + n) + 1] = 2 * Pow2[a + n] /\ Pow2[n + 1] = 2 * Pow2[n]
        /\ Pow2[a] \in Nat /\ Pow2[n] \in Nat
    BY Pow2Facts
  <2>3. a + (n + 1) = (a + n) + 1
    OBVIOUS
  <2>4. Pow2[a + (n + 1)] = Pow2[a] * Pow2[n + 1]
    BY <2>1, <2>2, <2>3
  <2> QED BY <2>4
<1>3. Nat \subseteq S
  <2> HIDE DEF S
  <2> QED BY <1>1, <1>2, Induction
<1> QED BY <1>3

(* A larger exponent at least doubles. *)
LEMMA Pow2Grows ==
  ASSUME NEW a \in Nat, NEW b \in Nat, a < b
  PROVE  2 * Pow2[a] <= Pow2[b]
<1>1. PICK d \in Nat : b = (a + 1) + d
  <2>1. b - a - 1 \in Nat /\ b = (a + 1) + (b - a - 1)
    OBVIOUS
  <2> QED BY <2>1
<1>2. a + 1 \in Nat
  OBVIOUS
<1>3. Pow2[b] = Pow2[a + 1] * Pow2[d]
  BY <1>1, <1>2, Pow2Sum
<1>4. Pow2[a + 1] = 2 * Pow2[a] /\ Pow2[a] \in Nat /\ Pow2[d] \in Nat \ {0}
  BY Pow2Facts
<1>5. PICK e \in Nat : Pow2[d] = 1 + e
  <2>1. Pow2[d] - 1 \in Nat /\ Pow2[d] = 1 + (Pow2[d] - 1)
    BY <1>4
  <2> QED BY <2>1
<1> DEFINE p == Pow2[a + 1]
<1>6. p \in Nat /\ Pow2[b] = p + p * e /\ p * e \in Nat
  <2>1. p \in Nat
    BY <1>4
  <2> HIDE DEF p
  <2> QED BY <1>3, <1>5, <2>1 DEF p
<1> QED BY <1>4, <1>6

(* A number is below its power. *)
LEMMA Pow2Above ==
  ASSUME NEW n \in Nat
  PROVE  n < Pow2[n]
<1> DEFINE S == {k \in Nat : k < Pow2[k]}
<1>1. 0 \in S
  BY Pow2Facts
<1>2. ASSUME NEW k \in Nat, k \in S PROVE k + 1 \in S
  <2>1. k < Pow2[k] /\ Pow2[k + 1] = 2 * Pow2[k] /\ Pow2[k] \in Nat
    BY <1>2, Pow2Facts
  <2> QED BY <2>1
<1>3. Nat \subseteq S
  <2> HIDE DEF S
  <2> QED BY <1>1, <1>2, Induction
<1> QED BY <1>3

-----------------------------------------------------------------------------
(* The logarithm: between which powers of two a number lies. *)

LogIs(n, k) == k \in Nat /\ Pow2[k] <= n /\ n < 2 * Pow2[k]
IsLogBase2(f) == f = [n \in Nat |-> IF n > 1 THEN 1 + f[n \div 2] ELSE 0]

(* A number lies between two powers, *)
LEMMA LogExists ==
  ASSUME NEW n \in Nat \ {0}
  PROVE  \E k \in Nat : LogIs(n, k)
<1> DEFINE S == {k \in Nat : n < 2 * Pow2[k]}
<1>1. n \in S
  BY Pow2Above, Pow2Facts
<1>2. PICK k \in S : \A j \in S : k <= j
  BY <1>1, Least
<1>3. CASE k = 0
  BY <1>2, <1>3, Pow2Facts DEF LogIs
<1>4. CASE k # 0
  <2>1. k - 1 \in Nat /\ k - 1 \notin S /\ (k - 1) + 1 = k
    BY <1>2, <1>4
  <2>2. Pow2[k] = 2 * Pow2[k - 1] /\ Pow2[k - 1] \in Nat
    BY <2>1, Pow2Facts
  <2>3. ~ n < 2 * Pow2[k - 1]
    BY <2>1
  <2>4. Pow2[k] <= n
    BY <2>2, <2>3
  <2> QED BY <1>2, <2>4 DEF LogIs
<1> QED BY <1>3, <1>4

(* and only between these. *)
LEMMA LogUnique ==
  ASSUME NEW n \in Nat, NEW k, NEW j, LogIs(n, k), LogIs(n, j)
  PROVE  k = j
<1>1. k \in Nat /\ j \in Nat /\ Pow2[k] \in Nat /\ Pow2[j] \in Nat
  BY Pow2Facts DEF LogIs
<1>2. ~ k < j
  <2> SUFFICES ASSUME k < j PROVE FALSE
    OBVIOUS
  <2>1. 2 * Pow2[k] <= Pow2[j]
    BY <1>1, Pow2Grows
  <2> QED BY <1>1, <2>1 DEF LogIs
<1>3. ~ j < k
  <2> SUFFICES ASSUME j < k PROVE FALSE
    OBVIOUS
  <2>1. 2 * Pow2[j] <= Pow2[k]
    BY <1>1, Pow2Grows
  <2> QED BY <1>1, <2>1 DEF LogIs
<1> QED BY <1>1, <1>2, <1>3

(* Half a number has one less. *)
LEMMA LogOfHalf ==
  ASSUME NEW n \in Nat, n > 1, NEW k, LogIs(n \div 2, k)
  PROVE  LogIs(n, k + 1)
<1>1. n \div 2 \in Nat /\ n = 2 * (n \div 2) + (n % 2) /\ n % 2 \in 0 .. 1
  OBVIOUS
<1>2. k \in Nat /\ Pow2[k] \in Nat /\ Pow2[k + 1] = 2 * Pow2[k]
  BY Pow2Facts DEF LogIs
<1>3. Pow2[k] <= n \div 2 /\ n \div 2 < 2 * Pow2[k]
  BY DEF LogIs
<1> DEFINE h == n \div 2
<1>4. h \in Nat /\ n = 2 * h + (n % 2) /\ n % 2 \in 0 .. 1 /\ Pow2[k] <= h /\ h < 2 * Pow2[k]
  BY <1>1, <1>3
<1> HIDE DEF h
<1>5. 2 * Pow2[k] <= n /\ n < 2 * (2 * Pow2[k])
  BY <1>2, <1>4
<1> QED BY <1>2, <1>5 DEF LogIs

(* Halving until one is left counts them: LogBase2 of the source rounds down. *)
LEMMA LogBase2Defined == IsLogBase2(LogBase2)
<1> DEFINE L(n) == CHOOSE k : LogIs(n, k)
           f == [n \in Nat |-> IF n > 1 THEN L(n) ELSE 0]
<1>1. \A n \in Nat \ {0} : LogIs(n, L(n))
  BY LogExists
<1>2. L(1) = 0
  <2>1. LogIs(1, 0)
    BY Pow2Facts DEF LogIs
  <2> QED BY <1>1, <2>1, LogUnique
<1> HIDE DEF L
<1>3. \A n \in Nat : f[n] = IF n > 1 THEN 1 + f[n \div 2] ELSE 0
  <2> TAKE n \in Nat
  <2>1. CASE ~ n > 1
    BY <2>1
  <2>2. CASE n > 1
    <3>1. n \div 2 \in Nat /\ n \div 2 # 0
      BY <2>2
    <3>2. f[n \div 2] = L(n \div 2)
      <4>1. n \div 2 > 1 \/ n \div 2 = 1
        BY <3>1
      <4> QED BY <1>2, <3>1, <4>1
    <3>3. LogIs(n, L(n \div 2) + 1)
      BY <1>1, <2>2, <3>1, LogOfHalf
    <3>4. LogIs(n, L(n))
      BY <1>1, <2>2
    <3>5. L(n) = L(n \div 2) + 1 /\ L(n \div 2) \in Nat
      BY <1>1, <3>1, <3>3, <3>4, LogUnique DEF LogIs
    <3>6. f[n] = 1 + f[n \div 2]
      BY <2>2, <3>2, <3>5
    <3> QED BY <2>2, <3>6
  <2> QED BY <2>1, <2>2
<1>4. f = [n \in Nat |-> f[n]]
  OBVIOUS
<1> HIDE DEF f
<1>5. IsLogBase2(f)
  BY <1>3, <1>4 DEF IsLogBase2
<1>6. LogBase2 = CHOOSE x : IsLogBase2(x)
  BY Zenon DEF LogBase2, IsLogBase2
<1> QED BY <1>5, <1>6, Zenon

(* What the logarithm of a number is. *)
LEMMA LogFacts ==
  /\ LogBase2[0] = 0
  /\ \A n \in Nat \ {0} : LogIs(n, LogBase2[n])
<1>0. \A n \in Nat : LogBase2[n] = IF n > 1 THEN 1 + LogBase2[n \div 2] ELSE 0
  BY LogBase2Defined DEF IsLogBase2
<1>1. LogBase2[0] = 0 /\ LogBase2[1] = 0
  BY <1>0
<1>2. LogIs(1, 0)
  BY Pow2Facts DEF LogIs
<1> DEFINE D == {n \in Nat \ {0} : ~ LogIs(n, LogBase2[n])}
<1>3. D = {}
  <2> SUFFICES ASSUME D # {} PROVE FALSE
    OBVIOUS
  <2>1. PICK n \in D : \A m \in D : n <= m
    <3>1. D \in SUBSET Nat
      OBVIOUS
    <3> HIDE DEF D
    <3> QED BY <3>1, Least
  <2>2. n \in Nat /\ n > 1
    BY <1>1, <1>2, <2>1
  <2>3. n \div 2 \in Nat \ {0} /\ ~ n <= n \div 2
    BY <2>2
  <2>4. LogIs(n \div 2, LogBase2[n \div 2])
    BY <2>1, <2>3
  <2>5. LogIs(n, LogBase2[n \div 2] + 1)
    BY <2>2, <2>4, LogOfHalf
  <2>6. LogBase2[n] = LogBase2[n \div 2] + 1
    <3>1. LogBase2[n \div 2] \in Nat
      BY <2>4 DEF LogIs
    <3> QED BY <1>0, <2>2, <3>1
  <2> QED BY <2>1, <2>5, <2>6
<1> QED BY <1>1, <1>3

(* It is a number. *)
LEMMA LogIsNat ==
  ASSUME NEW n \in Nat
  PROVE  LogBase2[n] \in Nat
BY LogFacts DEF LogIs

(* The logarithm of a power is its exponent. *)
LEMMA LogOfPower ==
  ASSUME NEW k \in Nat
  PROVE  LogBase2[Pow2[k]] = k /\ PowerOfTwo(Pow2[k])
<1>1. Pow2[k] \in Nat \ {0}
  BY Pow2Facts
<1>2. LogIs(Pow2[k], k)
  BY <1>1 DEF LogIs
<1>3. LogIs(Pow2[k], LogBase2[Pow2[k]])
  BY <1>1, LogFacts
<1>4. LogBase2[Pow2[k]] = k
  BY <1>1, <1>2, <1>3, LogUnique
<1> QED BY <1>4 DEF PowerOfTwo

(* Logarithms of powers add in a product, *)
LEMMA LogOfProduct ==
  ASSUME NEW a \in Nat, NEW b \in Nat, PowerOfTwo(a), PowerOfTwo(b)
  PROVE  PowerOfTwo(a * b) /\ LogBase2[a * b] = LogBase2[a] + LogBase2[b]
<1>1. LogBase2[a] \in Nat /\ LogBase2[b] \in Nat
  BY LogIsNat
<1>2. a * b = Pow2[LogBase2[a] + LogBase2[b]]
  BY <1>1, Pow2Sum DEF PowerOfTwo
<1>3. LogBase2[a] + LogBase2[b] \in Nat
  BY <1>1
<1> QED BY <1>2, <1>3, LogOfPower

(* and are subtracted in a quotient, unless it is rounded to nothing. *)
LEMMA LogOfQuotient ==
  ASSUME NEW a \in Nat, NEW b \in Nat, PowerOfTwo(a), PowerOfTwo(b), a \div b # 0
  PROVE  /\ PowerOfTwo(a \div b) /\ LogBase2[b] <= LogBase2[a]
         /\ LogBase2[a \div b] = LogBase2[a] - LogBase2[b]
<1> DEFINE i == LogBase2[a]
           j == LogBase2[b]
<1>1. i \in Nat /\ j \in Nat /\ a = Pow2[i] /\ b = Pow2[j]
  BY LogIsNat DEF PowerOfTwo
<1>2. b \in Nat \ {0} /\ a \in Nat \ {0}
  BY <1>1, Pow2Facts
<1> HIDE DEF i, j
<1>3. ~ i < j
  <2> SUFFICES ASSUME i < j PROVE FALSE
    OBVIOUS
  <2>1. 2 * a <= b
    BY <1>1, Pow2Grows
  <2>2. a < b
    BY <1>2, <2>1
  <2>3. a \div b = 0
    BY <1>2, <2>2
  <2> QED BY <2>3
<1>4. i - j \in Nat /\ (i - j) + j = i
  BY <1>1, <1>3
<1>5. a = Pow2[i - j] * b
  BY <1>1, <1>4, Pow2Sum
<1>6. a \div b = Pow2[i - j]
  <2> DEFINE q == Pow2[i - j]
  <2>1. q \in Nat
    BY <1>4, Pow2Facts
  <2> HIDE DEF q
  <2>2. a = b * q + 0 /\ 0 \in 0 .. b - 1
    BY <1>2, <1>5, <2>1 DEF q
  <2>3. a \div b \in Nat /\ a % b \in 0 .. b - 1 /\ a = b * (a \div b) + (a % b)
    BY <1>2, Division
  <2>4. b * (a \div b) + (a % b) = b * q + 0
    BY <2>2, <2>3
  <2>5. a \div b = q
    BY ONLY <1>2, <2>1, <2>2, <2>3, <2>4, DivisionUnique
  <2> QED BY <2>5 DEF q
<1>7. LogBase2[a \div b] = i - j /\ PowerOfTwo(a \div b)
  BY <1>4, <1>6, LogOfPower
<1> QED BY <1>1, <1>3, <1>7 DEF i, j

-----------------------------------------------------------------------------
(* The address fills its width. *)

(* The parameters are numbers. *)
LEMMA ConfigTypes ==
  ASSUME NEW c \in Configs
  PROVE  /\ c.channel_size \in Nat /\ c.channels \in Nat \ {0} /\ c.bus_width \in Nat
         /\ c.bankgroups \in Nat /\ c.banks_per_group \in Nat
         /\ c.rows \in Nat /\ c.columns \in Nat /\ c.device_width \in Nat /\ c.BL \in Nat
BY ConfigAssumption

(* The division of the code is \div on natural numbers. *)
LEMMA QuotientIsDiv ==
  ASSUME NEW a \in Nat, NEW b \in Nat \ {0}
  PROVE  Quotient(a, b) = a \div b
BY DEF Quotient, Abs

\* The sizes, with it.
PlainSizes(c) ==
  /\ ActualColumns(c) = c.columns \div c.BL
  /\ DevicesPerRank(c) = c.bus_width \div c.device_width
  /\ PageSize(c) = (c.columns * c.device_width) \div 8
  /\ MegsPerBank(c) = (PageSize(c) * (c.rows \div Kilo)) \div Kilo

(* The sizes of a file without negative numbers. *)
LEMMA SizesArePlain ==
  ASSUME NEW c \in Configs, c.BL # 0, c.device_width # 0
  PROVE  PlainSizes(c)
<1>1. Kilo \in Nat \ {0} /\ c.BL \in Nat \ {0} /\ c.device_width \in Nat \ {0}
  BY KiloAssumption, ConfigTypes
<1>2. ActualColumns(c) = c.columns \div c.BL
  BY <1>1, ConfigTypes, QuotientIsDiv DEF ActualColumns
<1>3. DevicesPerRank(c) = c.bus_width \div c.device_width
  BY <1>1, ConfigTypes, QuotientIsDiv DEF DevicesPerRank
<1>4. PICK x : x = c.columns * c.device_width
  OBVIOUS
<1>5. x \in Nat
  BY <1>4, ConfigTypes
<1>6. PageSize(c) = x \div 8 /\ PageSize(c) \in Nat
  <2>1. PageSize(c) = Quotient(x, 8)
    BY <1>4, Zenon DEF PageSize
  <2>2. 8 \in Nat \ {0}
    OBVIOUS
  <2>3. Quotient(x, 8) = x \div 8 /\ x \div 8 \in Nat
    BY ONLY <1>5, <2>2, QuotientIsDiv, Division
  <2> QED
    BY <2>1, <2>3
<1>7. Quotient(c.rows, Kilo) = c.rows \div Kilo /\ c.rows \div Kilo \in Nat
  BY <1>1, ConfigTypes, QuotientIsDiv, Division
<1>8. PICK y : y = PageSize(c) * (c.rows \div Kilo)
  OBVIOUS
<1>9. y \in Nat
  BY <1>6, <1>7, <1>8
<1>10. MegsPerBank(c) = y \div Kilo
  BY <1>1, <1>7, <1>8, <1>9, QuotientIsDiv DEF MegsPerBank
<1> QED
  BY <1>2, <1>3, <1>4, <1>6, <1>8, <1>10 DEF PlainSizes

(* So are the sizes, once no division has failed. *)
LEMMA SizeTypes ==
  ASSUME NEW c \in Configs, ~ DividesByZero(c)
  PROVE  /\ BankGroups(c) \in Nat /\ BanksPerGroup(c) \in Nat /\ Banks(c) \in Nat
         /\ ActualColumns(c) \in Nat /\ DevicesPerRank(c) \in Nat
         /\ PageSize(c) \in Nat /\ c.rows \div Kilo \in Nat
         /\ MegsPerBank(c) \in Nat /\ MegsPerRank(c) \in Nat \ {0}
         /\ Ranks(c) \in Nat \ {0} /\ c.BL \in Nat \ {0} /\ c.device_width \in Nat \ {0}
         /\ (c.bus_width \div 8) * c.BL \in Nat
<1>1. c.BL \in Nat \ {0} /\ c.device_width \in Nat \ {0} /\ MegsPerRank(c) # 0
  BY ConfigTypes DEF DividesByZero
<1>0. PlainSizes(c)
  BY <1>1, SizesArePlain
<1>2. BankGroups(c) \in Nat /\ BanksPerGroup(c) \in Nat
  BY ConfigTypes DEF BankGroups, BanksPerGroup
<1>3. Banks(c) \in Nat
  BY <1>2 DEF Banks
<1>4. ActualColumns(c) \in Nat /\ DevicesPerRank(c) \in Nat
  <2>1. c.columns \div c.BL \in Nat /\ c.bus_width \div c.device_width \in Nat
    BY <1>1, ConfigTypes, Division
  <2> QED BY <1>0, <2>1, Zenon DEF PlainSizes
<1>5. PageSize(c) \in Nat
  <2>1. c.columns * c.device_width \in Nat
    BY ConfigTypes
  <2>2. (c.columns * c.device_width) \div 8 \in Nat
    BY <2>1
  <2> QED BY <1>0, <2>2, Zenon DEF PlainSizes
<1>6. c.rows \div Kilo \in Nat
  BY KiloAssumption, ConfigTypes, Division
<1>7. MegsPerBank(c) \in Nat
  <2>1. PageSize(c) * (c.rows \div Kilo) \in Nat
    BY <1>5, <1>6
  <2>2. Kilo \in Nat \ {0}
    BY KiloAssumption
  <2> QED BY <1>0, <2>1, <2>2, Division DEF PlainSizes
<1>8. MegsPerRank(c) \in Nat
  <2>1. MegsPerBank(c) * Banks(c) \in Nat
    BY <1>3, <1>7
  <2> QED BY <1>4, <2>1 DEF MegsPerRank
<1>9. Ranks(c) \in Nat \ {0}
  <2> DEFINE m == MegsPerRank(c)
             s == c.channel_size
  <2>1. m \in Nat \ {0} /\ s \in Nat
    BY <1>1, <1>8, ConfigTypes
  <2>2. Ranks(c) = IF m > s THEN 1 ELSE s \div m
    BY <2>1, QuotientIsDiv DEF Ranks
  <2> HIDE DEF m, s
  <2>3. s \div m \in Nat /\ s % m \in 0 .. m - 1 /\ s = m * (s \div m) + (s % m)
    BY <2>1, Division
  <2>4. ~ m > s => s \div m # 0
    <3> SUFFICES ASSUME s \div m = 0 PROVE m > s
      OBVIOUS
    <3> QED BY <2>1, <2>3
  <2> QED BY <2>2, <2>3, <2>4
<1>10. (c.bus_width \div 8) * c.BL \in Nat
  <2>1. c.bus_width \div 8 \in Nat
    BY ConfigTypes
  <2> QED BY <1>1, <2>1
<1> QED BY <1>1, <1>2, <1>3, <1>4, <1>5, <1>6, <1>7, <1>8, <1>9, <1>10

(* A rank of at least a megabyte has no factor that is zero. *)
LEMMA NoFactorIsZero ==
  ASSUME NEW c \in Configs, ~ DividesByZero(c)
  PROVE  /\ MegsPerBank(c) # 0 /\ Banks(c) # 0 /\ DevicesPerRank(c) # 0
         /\ PageSize(c) # 0 /\ c.rows \div Kilo # 0
         /\ BankGroups(c) # 0 /\ BanksPerGroup(c) # 0 /\ c.rows # 0
<1>1. Kilo \in Nat \ {0} /\ c.rows \in Nat
  BY KiloAssumption, ConfigTypes
<1>2. /\ BankGroups(c) \in Nat /\ BanksPerGroup(c) \in Nat /\ Banks(c) \in Nat
      /\ DevicesPerRank(c) \in Nat /\ PageSize(c) \in Nat /\ c.rows \div Kilo \in Nat
      /\ MegsPerBank(c) \in Nat /\ MegsPerRank(c) \in Nat \ {0}
  BY SizeTypes
<1>0. PlainSizes(c)
  BY SizeTypes, SizesArePlain
<1>3. /\ MegsPerBank(c) # 0 /\ Banks(c) # 0 /\ DevicesPerRank(c) # 0
  <2>1. MegsPerBank(c) * Banks(c) * DevicesPerRank(c) # 0
    BY <1>2 DEF MegsPerRank
  <2> QED BY <1>2, <2>1
<1>4. PageSize(c) * (c.rows \div Kilo) # 0
  <2> SUFFICES ASSUME PageSize(c) * (c.rows \div Kilo) = 0 PROVE FALSE
    OBVIOUS
  <2>1. MegsPerBank(c) = 0 \div Kilo
    BY <1>0 DEF PlainSizes
  <2> QED BY <1>1, <1>3, <2>1
<1>5. PageSize(c) # 0 /\ c.rows \div Kilo # 0
  BY <1>2, <1>4
<1>6. BankGroups(c) # 0 /\ BanksPerGroup(c) # 0
  BY <1>2, <1>3 DEF Banks
<1>7. c.rows # 0
  <2>1. 0 \div Kilo = 0
    BY <1>1
  <2> QED BY <1>5, <2>1
<1> QED BY <1>3, <1>5, <1>6, <1>7

(* Every size is a power of two, and its logarithm the sum of those it is     *)
(* made of.                                                                   *)
LEMMA AddressIsFilled ==
  ASSUME NEW c \in Configs, ~ DividesByZero(c), PowersOfTwo(c),
         PowerOfTwo(c.device_width), c.bus_width >= 8
  PROVE  LET w == FieldWidths(c)
         IN w["ra"] + w["bg"] + w["ba"] + w["ro"] + w["co"] + ShiftBits(c) = AddressBits(c)
<1> DEFINE lg(n) == LogBase2[n]
<1>1. /\ c.columns \in Nat /\ c.rows \in Nat /\ c.bus_width \in Nat /\ c.BL \in Nat
      /\ c.device_width \in Nat /\ Kilo \in Nat \ {0} /\ PowerOfTwo(Kilo)
      /\ PowerOfTwo(c.columns) /\ PowerOfTwo(c.BL) /\ PowerOfTwo(c.bus_width)
  BY ConfigTypes, KiloAssumption DEF PowersOfTwo
<1>2. /\ PowerOfTwo(Ranks(c)) /\ PowerOfTwo(BankGroups(c)) /\ PowerOfTwo(BanksPerGroup(c))
      /\ PowerOfTwo(c.rows)
  BY DEF PowersOfTwo, Size, Fields
<1>3. /\ BankGroups(c) \in Nat /\ BanksPerGroup(c) \in Nat /\ Banks(c) \in Nat
      /\ DevicesPerRank(c) \in Nat /\ PageSize(c) \in Nat /\ c.rows \div Kilo \in Nat
      /\ MegsPerBank(c) \in Nat /\ MegsPerRank(c) \in Nat \ {0} /\ Ranks(c) \in Nat
  BY SizeTypes
<1>4. 8 \in Nat /\ PowerOfTwo(8) /\ lg(8) = 3
  <2>1. /\ Pow2[0 + 1] = 2 * Pow2[0] /\ Pow2[1 + 1] = 2 * Pow2[1] /\ Pow2[2 + 1] = 2 * Pow2[2]
        /\ Pow2[0] = 1
    BY Pow2Facts
  <2>2. Pow2[3] = 8
    BY <2>1
  <2> QED BY <2>2, LogOfPower
<1>5. /\ MegsPerBank(c) # 0 /\ Banks(c) # 0 /\ DevicesPerRank(c) # 0
      /\ PageSize(c) # 0 /\ c.rows \div Kilo # 0
  BY NoFactorIsZero
<1>7. PageSize(c) # 0 /\ c.rows \div Kilo # 0
  BY <1>5
<1>0. PlainSizes(c)
  BY SizeTypes, SizesArePlain
<1>8. PowerOfTwo(c.columns * c.device_width)
      /\ lg(c.columns * c.device_width) = lg(c.columns) + lg(c.device_width)
      /\ c.columns * c.device_width \in Nat
  <2>1. c.columns * c.device_width \in Nat
    BY <1>1
  <2>2. /\ PowerOfTwo(c.columns * c.device_width)
        /\ lg(c.columns * c.device_width) = lg(c.columns) + lg(c.device_width)
    BY <1>1, LogOfProduct
  <2> QED BY <2>1, <2>2
<1>9. PowerOfTwo(PageSize(c)) /\ lg(PageSize(c)) = lg(c.columns) + lg(c.device_width) - 3
  <2> DEFINE a == c.columns * c.device_width
  <2>1. a \in Nat /\ PowerOfTwo(a) /\ PageSize(c) = a \div 8 /\ a \div 8 # 0
    BY <1>7, <1>8, <1>0 DEF PlainSizes
  <2>2. lg(a) = lg(c.columns) + lg(c.device_width)
    BY <1>8
  <2> HIDE DEF a
  <2>3. PowerOfTwo(a \div 8) /\ lg(a \div 8) = lg(a) - lg(8)
    BY <1>4, <2>1, LogOfQuotient
  <2>4. PowerOfTwo(PageSize(c)) /\ lg(PageSize(c)) = lg(a) - 3
    BY <1>4, <2>1, <2>3, Zenon
  <2>5. lg(c.columns) \in Nat /\ lg(c.device_width) \in Nat
    BY <1>1, LogIsNat
  <2> HIDE DEF lg
  <2> QED BY <2>2, <2>4, <2>5
<1>10. PowerOfTwo(c.rows \div Kilo) /\ lg(c.rows \div Kilo) = lg(c.rows) - lg(Kilo)
  BY <1>1, <1>2, <1>7, LogOfQuotient
<1>11. /\ PowerOfTwo(PageSize(c) * (c.rows \div Kilo))
       /\ lg(PageSize(c) * (c.rows \div Kilo)) = lg(PageSize(c)) + lg(c.rows \div Kilo)
       /\ PageSize(c) * (c.rows \div Kilo) \in Nat
  <2> DEFINE a == PageSize(c)
             b == c.rows \div Kilo
  <2>1. a \in Nat /\ b \in Nat /\ PowerOfTwo(a) /\ PowerOfTwo(b)
    BY <1>3, <1>9, <1>10
  <2> HIDE DEF a, b
  <2>2. a * b \in Nat /\ PowerOfTwo(a * b)
    BY <2>1, LogOfProduct
  <2>3. lg(a * b) = lg(a) + lg(b)
    BY <2>1, LogOfProduct
  <2> QED BY <2>2, <2>3 DEF a, b
<1>12. /\ PowerOfTwo(MegsPerBank(c))
       /\ lg(MegsPerBank(c)) = lg(PageSize(c) * (c.rows \div Kilo)) - lg(Kilo)
  BY <1>1, <1>5, <1>11, <1>0, LogOfQuotient DEF PlainSizes
<1>13. PowerOfTwo(Banks(c)) /\ lg(Banks(c)) = lg(BankGroups(c)) + lg(BanksPerGroup(c))
  BY <1>2, <1>3, LogOfProduct DEF Banks
<1>14. /\ PowerOfTwo(DevicesPerRank(c))
       /\ lg(DevicesPerRank(c)) = lg(c.bus_width) - lg(c.device_width)
  BY <1>1, <1>5, <1>0, LogOfQuotient DEF PlainSizes
<1>15. /\ PowerOfTwo(MegsPerBank(c) * Banks(c)) /\ MegsPerBank(c) * Banks(c) \in Nat
       /\ lg(MegsPerBank(c) * Banks(c)) = lg(MegsPerBank(c)) + lg(Banks(c))
  <2> DEFINE a == MegsPerBank(c)
             b == Banks(c)
  <2>1. a \in Nat /\ b \in Nat /\ PowerOfTwo(a) /\ PowerOfTwo(b)
    BY <1>3, <1>12, <1>13
  <2> HIDE DEF a, b
  <2>2. a * b \in Nat /\ PowerOfTwo(a * b)
    BY <2>1, LogOfProduct
  <2>3. lg(a * b) = lg(a) + lg(b)
    BY <2>1, LogOfProduct
  <2> QED BY <2>2, <2>3 DEF a, b
<1>16. /\ PowerOfTwo(MegsPerRank(c))
       /\ lg(MegsPerRank(c)) = lg(MegsPerBank(c) * Banks(c)) + lg(DevicesPerRank(c))
  BY <1>3, <1>14, <1>15, LogOfProduct DEF MegsPerRank
<1>17. lg(ChannelSize(c)) = lg(Ranks(c)) + lg(MegsPerRank(c))
  BY <1>2, <1>3, <1>16, LogOfProduct DEF ChannelSize
<1>18. c.bus_width \div 8 # 0 /\ c.bus_width \div 8 \in Nat
  BY <1>1
<1>19. PowerOfTwo(c.bus_width \div 8) /\ lg(c.bus_width \div 8) = lg(c.bus_width) - 3
  BY <1>1, <1>4, <1>18, LogOfQuotient
<1>20. ShiftBits(c) = lg(c.bus_width) - 3 + lg(c.BL)
  <2>1. lg((c.bus_width \div 8) * c.BL) = lg(c.bus_width \div 8) + lg(c.BL)
    BY <1>1, <1>18, <1>19, LogOfProduct
  <2> QED BY <1>19, <2>1 DEF ShiftBits
<1>21. AddressBits(c) = lg(ChannelSize(c)) + lg(Kilo) + lg(Kilo)
  BY DEF AddressBits
<1>22. LET w == FieldWidths(c)
       IN /\ w["ra"] = lg(Ranks(c)) /\ w["bg"] = lg(BankGroups(c))
          /\ w["ba"] = lg(BanksPerGroup(c)) /\ w["ro"] = lg(c.rows)
          /\ w["co"] = lg(c.columns) - lg(c.BL)
  BY DEF FieldWidths, Size, Fields
<1>23. /\ lg(Ranks(c)) \in Nat /\ lg(BankGroups(c)) \in Nat /\ lg(BanksPerGroup(c)) \in Nat
       /\ lg(c.rows) \in Nat /\ lg(c.columns) \in Nat /\ lg(c.BL) \in Nat /\ lg(Kilo) \in Nat
       /\ lg(c.bus_width) \in Nat /\ lg(c.device_width) \in Nat
  BY <1>1, <1>3, LogIsNat
<1> HIDE DEF lg
<1>24. lg(ChannelSize(c)) =
         lg(Ranks(c)) + lg(c.columns) - 3 + lg(c.rows) - lg(Kilo) - lg(Kilo)
           + lg(BankGroups(c)) + lg(BanksPerGroup(c)) + lg(c.bus_width)
  BY <1>9, <1>10, <1>11, <1>12, <1>13, <1>14, <1>15, <1>16, <1>17, <1>23
<1> QED BY <1>20, <1>21, <1>22, <1>23, <1>24

-----------------------------------------------------------------------------
(* Numbers as sets of bits. *)

(* A small enough number has no quotient. *)
LEMMA SmallQuotient ==
  ASSUME NEW n \in Nat, NEW p \in Nat \ {0}, n < p
  PROVE  n \div p = 0
<1>1. n \div p \in Nat /\ n % p \in 0 .. p - 1 /\ n = p * (n \div p) + (n % p)
  BY Division
<1>2. 0 \in Nat /\ n \in 0 .. p - 1 /\ p * (n \div p) + (n % p) = p * 0 + n
  BY <1>1
<1> QED BY ONLY <1>1, <1>2, DivisionUnique

(* Powers grow with their exponent. *)
LEMMA Pow2Monotone ==
  ASSUME NEW a \in Nat, NEW b \in Nat, a <= b
  PROVE  Pow2[a] <= Pow2[b]
<1>1. Pow2[a] \in Nat /\ Pow2[b] \in Nat
  BY Pow2Facts
<1>2. a < b => 2 * Pow2[a] <= Pow2[b]
  BY Pow2Grows
<1> QED BY <1>1, <1>2

(* BitsOf holds every bit, although it looks no further than the logarithm. *)
LEMMA BitOf ==
  ASSUME NEW n \in Nat, NEW b \in Nat
  PROVE  b \in BitsOf(n) <=> (n \div Pow2[b]) % 2 = 1
<1>1. LogBase2[n] \in Nat /\ Pow2[b] \in Nat \ {0}
  BY LogIsNat, Pow2Facts
<1>2. ASSUME (n \div Pow2[b]) % 2 = 1 PROVE b <= LogBase2[n]
  <2>1. n \div Pow2[b] # 0
    BY <1>2
  <2>2. ~ n < Pow2[b]
    BY <1>1, <2>1, SmallQuotient
  <2>3. n # 0
    BY <1>1, <2>2
  <2>4. n < 2 * Pow2[LogBase2[n]] /\ Pow2[LogBase2[n]] \in Nat
    BY <1>1, <2>3, LogFacts, Pow2Facts DEF LogIs
  <2>5. LogBase2[n] < b => 2 * Pow2[LogBase2[n]] <= Pow2[b]
    BY <1>1, Pow2Grows
  <2> QED BY <1>1, <2>2, <2>4, <2>5
<1> QED BY <1>1, <1>2 DEF BitsOf

(* The bits of a number below a power are below its exponent, *)
LEMMA BitsBelow ==
  ASSUME NEW w \in Nat, NEW n \in Nat, n < Pow2[w]
  PROVE  BitsOf(n) \subseteq 0 .. w - 1
<1> SUFFICES ASSUME NEW b \in BitsOf(n) PROVE b \in 0 .. w - 1
  OBVIOUS
<1>1. b \in Nat
  BY LogIsNat DEF BitsOf
<1>2. ~ w <= b
  <2> SUFFICES ASSUME w <= b PROVE FALSE
    OBVIOUS
  <2>1. Pow2[w] <= Pow2[b] /\ Pow2[w] \in Nat /\ Pow2[b] \in Nat \ {0}
    BY <1>1, Pow2Monotone, Pow2Facts
  <2>2. n \div Pow2[b] = 0
    BY <2>1, SmallQuotient
  <2> QED BY <1>1, <2>2, BitOf
<1> QED BY <1>1, <1>2

(* and every set of bits below an exponent is a number below the power. *)
LEMMA BitsFrom ==
  ASSUME NEW w \in Nat
  PROVE  \A S \in SUBSET (0 .. w - 1) : \E n \in Nat : n < Pow2[w] /\ BitsOf(n) = S
<1> DEFINE K == {k \in Nat : \A S \in SUBSET (0 .. k - 1) :
                               \E n \in Nat : n < Pow2[k] /\ BitsOf(n) = S}
<1>1. 0 \in K
  <2> SUFFICES ASSUME NEW S \in SUBSET (0 .. 0 - 1)
               PROVE  \E n \in Nat : n < Pow2[0] /\ BitsOf(n) = S
    OBVIOUS
  <2>1. S = {} /\ 0 < Pow2[0]
    BY Pow2Facts
  <2>2. BitsOf(0) \subseteq 0 .. 0 - 1
    BY <2>1, BitsBelow
  <2> QED BY <2>1, <2>2
<1>2. ASSUME NEW k \in Nat, k \in K PROVE k + 1 \in K
  <2> SUFFICES ASSUME NEW S \in SUBSET (0 .. (k + 1) - 1)
               PROVE  \E n \in Nat : n < Pow2[k + 1] /\ BitsOf(n) = S
    OBVIOUS
  <2> DEFINE T == {b \in 0 .. k - 1 : b + 1 \in S}
  <2>1. PICK m \in Nat : m < Pow2[k] /\ BitsOf(m) = T
    BY <1>2
  <2> DEFINE d == IF 0 \in S THEN 1 ELSE 0
             n == 2 * m + d
  <2>2. n \in Nat /\ d \in 0 .. 1
    BY <2>1
  <2>3. n < Pow2[k + 1]
    BY <2>1, <2>2, Pow2Facts
  <2>4. n \div 2 = m /\ n % 2 = d
    BY <2>1, <2>2
  <2>5. ASSUME NEW b \in Nat PROVE b \in BitsOf(n) <=> b \in S
    <3>1. CASE b = 0
      <4>1. n \div Pow2[0] = n
        BY <2>2, Pow2Facts
      <4> QED BY <2>2, <2>4, <3>1, <4>1, BitOf
    <3>2. CASE b # 0
      <4>1. PICK a \in Nat : b = a + 1
        <5>1. b - 1 \in Nat /\ b = (b - 1) + 1
          BY <3>2
        <5> QED BY <5>1
      <4>2. Pow2[a] \in Nat \ {0} /\ Pow2[b] = 2 * Pow2[a]
        BY <4>1, Pow2Facts
      <4> HIDE DEF n
      <4>3. n \div Pow2[b] = m \div Pow2[a]
        <5> DEFINE p == Pow2[a]
        <5>1. p \in Nat \ {0} /\ Pow2[b] = p * 2
          BY <4>2
        <5> HIDE DEF p
        <5>2. n \div (p * 2) = (n \div 2) \div p
          <6>1. n \in Nat /\ 2 \in Nat \ {0}
            BY <2>2
          <6> QED BY ONLY <5>1, <6>1, NestedDivision
        <5> QED BY <2>4, <5>1, <5>2 DEF p
      <4>4. b \in BitsOf(n) <=> a \in BitsOf(m)
        BY <2>2, <4>3, BitOf
      <4>5. a \in T <=> b \in S
        BY <4>1
      <4> QED BY <2>1, <4>4, <4>5
    <3> QED BY <3>1, <3>2
  <2>6. BitsOf(n) = S
    <3>1. BitsOf(n) \subseteq Nat /\ S \subseteq Nat
      BY <2>2, LogIsNat DEF BitsOf
    <3> HIDE DEF n
    <3> QED BY <2>5, <3>1
  <2> QED BY <2>2, <2>3, <2>6
<1>3. Nat \subseteq K
  <2> HIDE DEF K
  <2> QED BY <1>1, <1>2, Induction
<1> QED BY <1>3

-----------------------------------------------------------------------------
(* Widths and sizes. *)

(* The logarithm grows with the number. *)
LEMMA LogMonotone ==
  ASSUME NEW a \in Nat \ {0}, NEW b \in Nat, a <= b
  PROVE  LogBase2[a] <= LogBase2[b]
<1> DEFINE i == LogBase2[a]
           j == LogBase2[b]
<1>1. /\ i \in Nat /\ Pow2[i] <= a /\ j \in Nat /\ b < 2 * Pow2[j]
  BY LogFacts DEF LogIs
<1> HIDE DEF i, j
<1>2. Pow2[i] \in Nat /\ Pow2[j] \in Nat
  BY <1>1, Pow2Facts
<1>3. j < i => 2 * Pow2[j] <= Pow2[i]
  BY <1>1, Pow2Grows
<1>4. ~ j < i
  BY <1>1, <1>2, <1>3
<1> QED BY <1>1, <1>4 DEF i, j

(* The number of rows, columns and banks of a configured memory. *)
LEMMA Dimensions ==
  ASSUME NEW c \in Configs, ~ DividesByZero(c)
  PROVE  /\ \A f \in Fields : Size(c)[f] \in Nat
         /\ \A f \in Fields \ {"co"} : Size(c)[f] # 0
<1>1. /\ Ranks(c) \in Nat \ {0} /\ BankGroups(c) \in Nat /\ BanksPerGroup(c) \in Nat
      /\ ActualColumns(c) \in Nat
  BY SizeTypes
<1>2. BankGroups(c) # 0 /\ BanksPerGroup(c) # 0 /\ c.rows # 0
  BY NoFactorIsZero
<1>3. c.rows \in Nat /\ c.channels \in Nat \ {0}
  BY ConfigTypes
<1> QED BY <1>1, <1>2, <1>3 DEF Size, Fields

(* A burst no longer than a row leaves every field a width, *)
LEMMA WidthTypes ==
  ASSUME NEW c \in Configs, ~ DividesByZero(c), c.BL <= c.columns
  PROVE  \A f \in Fields : FieldWidths(c)[f] \in Nat
<1>1. c.BL \in Nat \ {0} /\ c.columns \in Nat
  BY SizeTypes, ConfigTypes
<1>2. LogBase2[c.columns] - LogBase2[c.BL] \in Nat
  <2>1. LogBase2[c.columns] \in Nat /\ LogBase2[c.BL] \in Nat
    BY <1>1, LogIsNat
  <2>2. LogBase2[c.BL] <= LogBase2[c.columns]
    BY <1>1, LogMonotone
  <2> QED BY <2>1, <2>2
<1>3. \A f \in Fields : LogBase2[Size(c)[f]] \in Nat
  BY Dimensions, LogIsNat
<1> QED BY <1>2, <1>3 DEF FieldWidths

(* and the numbers of that width are below the field's loop bound. *)
LEMMA WidthsFitSizes ==
  ASSUME NEW c \in Configs, ~ DividesByZero(c), c.BL <= c.columns, PowerOfTwo(c.BL)
  PROVE  \A f \in Fields : Pow2[FieldWidths(c)[f]] <= Size(c)[f]
<1>1. \A f \in Fields \ {"co"} : Pow2[FieldWidths(c)[f]] <= Size(c)[f]
  <2> TAKE f \in Fields \ {"co"}
  <2>1. LogIs(Size(c)[f], LogBase2[Size(c)[f]])
    BY Dimensions, LogFacts
  <2> QED BY <2>1 DEF FieldWidths, LogIs
<1>2. Pow2[LogBase2[c.columns] - LogBase2[c.BL]] <= c.columns \div c.BL
  <2> DEFINE n == c.columns
             b == c.BL
             x == LogBase2[n]
             y == LogBase2[b]
  <2>1. b \in Nat \ {0} /\ n \in Nat \ {0} /\ b <= n
    <3>1. b \in Nat \ {0} /\ n \in Nat /\ b <= n
      BY SizeTypes, ConfigTypes
    <3> QED BY <3>1
  <2>2. x \in Nat /\ y \in Nat /\ Pow2[x] <= n /\ b = Pow2[y]
    BY <2>1, LogFacts, LogIsNat DEF LogIs, PowerOfTwo
  <2>3. y <= x
    BY <2>1, LogMonotone
  <2> HIDE DEF n, b, x, y
  <2>4. x - y \in Nat /\ (x - y) + y = x
    BY <2>2, <2>3
  <2> DEFINE p == Pow2[x - y]
             q == n \div b
  <2>5. p \in Nat /\ Pow2[x] = p * b
    BY <2>2, <2>4, Pow2Sum, Pow2Facts
  <2>6. q \in Nat /\ n % b \in 0 .. b - 1 /\ n = b * q + (n % b)
    BY <2>1, Division
  <2> HIDE DEF p, q
  <2>7. ~ q < p
    <3> SUFFICES ASSUME q < p PROVE FALSE
      OBVIOUS
    <3>1. b \in Nat /\ 0 \in Nat
      BY <2>1
    <3>2. b * q + (n % b) < b * p + 0
      BY ONLY <2>5, <2>6, <3>1, q < p, LeadingDigit
    <3>3. b * p + 0 = p * b
      BY <2>1, <2>5
    <3>4. n < Pow2[x]
      BY <2>5, <2>6, <3>2, <3>3
    <3>5. Pow2[x] \in Nat
      BY <2>2, Pow2Facts
    <3> QED BY <2>1, <2>2, <3>4, <3>5
  <2>8. p <= q
    BY <2>5, <2>6, <2>7
  <2> QED BY <2>8 DEF p, q, x, y, n, b
<1>3. Pow2[FieldWidths(c)["co"]] <= Size(c)["co"]
  <2>1. Size(c)["co"] = c.columns \div c.BL
    BY SizeTypes, SizesArePlain DEF Size, PlainSizes
  <2>2. FieldWidths(c)["co"] = LogBase2[c.columns] - LogBase2[c.BL]
    BY DEF FieldWidths, Fields
  <2> QED BY <1>2, <2>1, <2>2
<1> QED BY <1>1, <1>3

(* With powers of two, they are exactly the numbers below it. *)
LEMMA WidthsArePowers ==
  ASSUME NEW c \in Configs, ~ DividesByZero(c), PowersOfTwo(c), ActualColumns(c) # 0
  PROVE  /\ \A f \in Fields : Size(c)[f] = Pow2[FieldWidths(c)[f]]
         /\ c.BL <= c.columns
<1>1. c.columns \in Nat /\ c.BL \in Nat \ {0}
  BY ConfigTypes, SizeTypes
<1>0. PlainSizes(c)
  BY SizeTypes, SizesArePlain
<1>2. LogBase2[ActualColumns(c)] = LogBase2[c.columns] - LogBase2[c.BL]
  BY <1>1, <1>0, LogOfQuotient DEF PowersOfTwo, PlainSizes
<1>3. \A f \in Fields : FieldWidths(c)[f] = LogBase2[Size(c)[f]]
  BY <1>2 DEF FieldWidths, Size, Fields
<1>4. c.BL <= c.columns
  <2>1. ~ c.columns < c.BL
    BY <1>1, <1>0, SmallQuotient DEF PlainSizes
  <2> QED BY <1>1, <2>1
<1> QED BY <1>3, <1>4 DEF PowersOfTwo, PowerOfTwo

(* A field's position is a number of bits. *)
LEMMA PositionTypes ==
  ASSUME NEW c \in Configs, ~ DividesByZero(c), c.BL <= c.columns, ValidMapping(c)
  PROVE  \A f \in Fields : FieldPos(c)[f] \in Nat
<1> DEFINE m == c.address_mapping
           w == FieldWidths(c)
           p5 == w[m[6]]
           p4 == p5 + w[m[5]]
           p3 == p4 + w[m[4]]
           p2 == p3 + w[m[3]]
           p1 == p2 + w[m[2]]
           at == <<p1, p2, p3, p4, p5, 0>>
<1>1. \A i \in 1 .. 6 : m[i] \in Fields
  BY DEF ValidMapping
<1>2. \A i \in 1 .. 6 : w[m[i]] \in Nat
  BY <1>1, WidthTypes
<1>3. p5 \in Nat /\ p4 \in Nat /\ p3 \in Nat /\ p2 \in Nat /\ p1 \in Nat
  <2> HIDE DEF w, m
  <2>1. /\ w[m[2]] \in Nat /\ w[m[3]] \in Nat /\ w[m[4]] \in Nat /\ w[m[5]] \in Nat
        /\ w[m[6]] \in Nat
    BY <1>2
  <2> QED BY <2>1
<1> HIDE DEF p1, p2, p3, p4, p5
<1>4. \A i \in 1 .. 6 : at[i] \in Nat
  BY <1>3
<1>5. ASSUME NEW f \in Fields PROVE FieldPos(c)[f] \in Nat
  <2>1. \E i \in 1 .. 6 : m[i] = f
    BY DEF ValidMapping
  <2>2. (CHOOSE i \in 1 .. 6 : m[i] = f) \in 1 .. 6
    BY <2>1
  <2>3. FieldPos(c)[f] = at[CHOOSE i \in 1 .. 6 : m[i] = f]
    BY Zenon DEF FieldPos, p1, p2, p3, p4, p5, at
  <2> HIDE DEF at, m
  <2> QED BY <1>4, <2>2, <2>3
<1> QED BY <1>5

-----------------------------------------------------------------------------
(* Packing and unpacking. *)

(* Two shifts are one, *)
LEMMA ShiftTwice ==
  ASSUME NEW a \in SUBSET Nat, NEW u \in Nat, NEW v \in Nat
  PROVE  ShiftRight(a, u + v) = ShiftRight(ShiftRight(a, u), v)
<1>1. \A x : x \in ShiftRight(a, u + v) <=> \E b \in a : b >= u + v /\ x = b - (u + v)
  BY DEF ShiftRight
<1>2. \A x : x \in ShiftRight(ShiftRight(a, u), v)
               <=> \E b \in a : b >= u /\ b - u >= v /\ x = (b - u) - v
  <2>1. \A y : y \in ShiftRight(a, u) <=> \E b \in a : b >= u /\ y = b - u
    BY DEF ShiftRight
  <2>2. \A x : x \in ShiftRight(ShiftRight(a, u), v)
                 <=> \E y \in ShiftRight(a, u) : y >= v /\ x = y - v
    BY DEF ShiftRight
  <2> QED BY <2>1, <2>2
<1>3. \A b \in a : /\ b >= u + v <=> b >= u /\ b - u >= v
                   /\ b - (u + v) = (b - u) - v
  OBVIOUS
<1> QED BY <1>1, <1>2, <1>3

(* and a field pushed below an address is its lowest bits, with the address  *)
(* above them.                                                               *)
LEMMA PushPop ==
  ASSUME NEW a \in SUBSET Nat, NEW w \in Nat, NEW s \in SUBSET (0 .. w - 1)
  PROVE  /\ ShiftLeft(a, w) \cup s \in SUBSET Nat
         /\ Mask(ShiftLeft(a, w) \cup s, w) = s
         /\ ShiftRight(ShiftLeft(a, w) \cup s, w) = a
<1> DEFINE r == ShiftLeft(a, w) \cup s
<1>1. \A x : x \in r <=> (\E b \in a : x = b + w) \/ x \in s
  BY DEF ShiftLeft
<1>2. \A b \in a : b + w \in Nat /\ b + w >= w /\ ~ b + w < w /\ (b + w) - w = b
  OBVIOUS
<1>3. \A x \in s : x \in Nat /\ x < w /\ ~ x >= w
  OBVIOUS
<1> HIDE DEF r
<1>4. r \in SUBSET Nat
  <2>1. ASSUME NEW x \in r PROVE x \in Nat
    <3>1. CASE \E b \in a : x = b + w
      BY <1>2, <3>1
    <3>2. CASE x \in s
      BY <1>3, <3>2
    <3> QED BY <1>1, <3>1, <3>2
  <2> QED BY <2>1
<1>5. Mask(r, w) = s
  <2>1. ASSUME NEW x \in r, x < w PROVE x \in s
    BY <1>1, <1>2, <2>1
  <2>2. ASSUME NEW x \in s PROVE x \in r /\ x < w
    BY <1>1, <1>3
  <2> QED BY <2>1, <2>2 DEF Mask
<1>6. ShiftRight(r, w) = a
  <2>1. \A x : x \in ShiftRight(r, w) <=> \E y \in r : y >= w /\ x = y - w
    BY DEF ShiftRight
  <2>2. ASSUME NEW x \in ShiftRight(r, w) PROVE x \in a
    <3>1. PICK y \in r : y >= w /\ x = y - w
      BY <2>1
    <3>2. PICK b \in a : y = b + w
      BY <1>1, <1>3, <3>1
    <3> QED BY <1>2, <3>1, <3>2
  <2>3. ASSUME NEW x \in a PROVE x \in ShiftRight(r, w)
    <3>1. x + w \in r /\ x + w >= w /\ x = (x + w) - w
      BY <1>1, <1>2
    <3> QED BY <2>1, <3>1
  <2> QED BY <2>2, <2>3
<1> QED BY <1>4, <1>5, <1>6 DEF r

(* A byte address is its burst's address with no bits below it. *)
LEMMA ShiftBack ==
  ASSUME NEW a \in SUBSET Nat, NEW n \in Nat
  PROVE  ShiftLeft(a, n) \in SUBSET Nat /\ ShiftRight(ShiftLeft(a, n), n) = a
<1>1. {} \in SUBSET (0 .. n - 1)
  OBVIOUS
<1>2. ShiftLeft(a, n) \cup {} = ShiftLeft(a, n)
  OBVIOUS
<1>3. /\ ShiftLeft(a, n) \cup {} \in SUBSET Nat
      /\ ShiftRight(ShiftLeft(a, n) \cup {}, n) = a
  BY ONLY <1>1, PushPop, a \in SUBSET Nat, n \in Nat
<1> QED BY <1>2, <1>3

(* Whatever the order of the fields, AddressMapping reads back what           *)
(* ReverseAddressMapping wrote, as long as each field fits its width.         *)
LEMMA MappingReadsBack ==
  ASSUME NEW c \in Configs, ~ DividesByZero(c), c.BL <= c.columns, ValidMapping(c),
         NEW s, \A f \in Fields : s[f] \in SUBSET (0 .. FieldWidths(c)[f] - 1)
  PROVE  /\ ReverseAddressMap(c, s) \in SUBSET Nat
         /\ \A f \in Fields : AddressMap(c, ReverseAddressMap(c, s))[f] = s[f]
<1> DEFINE m == c.address_mapping
           w == FieldWidths(c)
           Push(a, f) == ShiftLeft(a, w[f]) \cup s[f]
<1>1. \A i \in 1 .. 6 : m[i] \in Fields
  BY DEF ValidMapping
<1>2. \A f \in Fields : w[f] \in Nat
  BY WidthTypes
<1>3. ASSUME NEW a \in SUBSET Nat, NEW f \in Fields
      PROVE  Push(a, f) \in SUBSET Nat /\ Mask(Push(a, f), w[f]) = s[f]
             /\ ShiftRight(Push(a, f), w[f]) = a
  <2>1. w[f] \in Nat /\ s[f] \in SUBSET (0 .. w[f] - 1)
    BY <1>2
  <2> HIDE DEF w
  <2>2. PICK n, x : n = w[f] /\ x = s[f]
    OBVIOUS
  <2>3. Push(a, f) = ShiftLeft(a, n) \cup x /\ a \in SUBSET Nat
    BY ONLY <1>3, <2>2
  <2> HIDE DEF Push
  <2>4. n \in Nat /\ x \in SUBSET (0 .. n - 1)
    BY ONLY <2>1, <2>2
  <2>5. /\ ShiftLeft(a, n) \cup x \in SUBSET Nat
        /\ Mask(ShiftLeft(a, n) \cup x, n) = x
        /\ ShiftRight(ShiftLeft(a, n) \cup x, n) = a
    BY ONLY <2>3, <2>4, PushPop
  <2> QED BY ONLY <2>2, <2>3, <2>5
<1>4. PICK a0 : a0 = {}
  OBVIOUS
<1>5. PICK a1 : a1 = Push(a0, m[1])
  OBVIOUS
<1>6. PICK a2 : a2 = Push(a1, m[2])
  OBVIOUS
<1>7. PICK a3 : a3 = Push(a2, m[3])
  OBVIOUS
<1>8. PICK a4 : a4 = Push(a3, m[4])
  OBVIOUS
<1>9. PICK a5 : a5 = Push(a4, m[5])
  OBVIOUS
<1>10. PICK a6 : a6 = Push(a5, m[6])
  OBVIOUS
<1>11. ReverseAddressMap(c, s) = ShiftLeft(a6, ShiftBits(c))
  BY <1>4, <1>5, <1>6, <1>7, <1>8, <1>9, <1>10, Zenon DEF ReverseAddressMap, Push, m, w
<1> DEFINE p5 == w[m[6]]
           p4 == p5 + w[m[5]]
           p3 == p4 + w[m[4]]
           p2 == p3 + w[m[3]]
           p1 == p2 + w[m[2]]
           at == <<p1, p2, p3, p4, p5, 0>>
<1>12. ASSUME NEW f \in Fields
       PROVE  \E i \in 1 .. 6 : m[i] = f /\ FieldPos(c)[f] = at[i]
  <2>1. \E i \in 1 .. 6 : m[i] = f
    BY DEF ValidMapping
  <2>2. PICK i : i = CHOOSE j \in 1 .. 6 : m[j] = f
    OBVIOUS
  <2>3. i \in 1 .. 6 /\ m[i] = f
    BY <2>1, <2>2
  <2>4. FieldPos(c)[f] = at[i]
    BY <2>2, Zenon DEF FieldPos, p1, p2, p3, p4, p5, at, m, w
  <2> QED BY <2>3, <2>4
<1> HIDE DEF m, w, Push
<1>13. /\ m[1] \in Fields /\ m[2] \in Fields /\ m[3] \in Fields
       /\ m[4] \in Fields /\ m[5] \in Fields /\ m[6] \in Fields
  BY <1>1
\* Every prefix of the pushes is an address; popping undoes each.
<1>14. /\ a0 \in SUBSET Nat /\ a1 \in SUBSET Nat /\ a2 \in SUBSET Nat /\ a3 \in SUBSET Nat
       /\ a4 \in SUBSET Nat /\ a5 \in SUBSET Nat /\ a6 \in SUBSET Nat
  BY <1>3, <1>4, <1>5, <1>6, <1>7, <1>8, <1>9, <1>10, <1>13
<1>15. /\ ShiftRight(a6, w[m[6]]) = a5 /\ ShiftRight(a5, w[m[5]]) = a4
       /\ ShiftRight(a4, w[m[4]]) = a3 /\ ShiftRight(a3, w[m[3]]) = a2
       /\ ShiftRight(a2, w[m[2]]) = a1
  BY <1>3, <1>6, <1>7, <1>8, <1>9, <1>10, <1>13, <1>14
<1>16. /\ Mask(a6, w[m[6]]) = s[m[6]] /\ Mask(a5, w[m[5]]) = s[m[5]]
       /\ Mask(a4, w[m[4]]) = s[m[4]] /\ Mask(a3, w[m[3]]) = s[m[3]]
       /\ Mask(a2, w[m[2]]) = s[m[2]] /\ Mask(a1, w[m[1]]) = s[m[1]]
  BY <1>3, <1>5, <1>6, <1>7, <1>8, <1>9, <1>10, <1>13, <1>14
<1>17. /\ w[m[2]] \in Nat /\ w[m[3]] \in Nat /\ w[m[4]] \in Nat /\ w[m[5]] \in Nat
       /\ w[m[6]] \in Nat
  BY <1>2, <1>13
<1>18. p5 \in Nat /\ p4 \in Nat /\ p3 \in Nat /\ p2 \in Nat
  BY <1>17
<1>19. ShiftRight(a6, 0) = a6
  <2>1. \A b \in a6 : b \in Nat /\ b >= 0 /\ b - 0 = b
    BY <1>14
  <2> QED BY <2>1 DEF ShiftRight
<1>20. ShiftRight(a6, p5) = a5
  BY <1>15
<1>21. ShiftRight(a6, p4) = a4
  <2> HIDE DEF p5
  <2>1. ShiftRight(a6, p4) = ShiftRight(ShiftRight(a6, p5), w[m[5]])
    BY <1>14, <1>17, <1>18, ShiftTwice
  <2> QED BY <1>15, <1>20, <2>1
<1>22. ShiftRight(a6, p3) = a3
  <2> HIDE DEF p4
  <2>1. ShiftRight(a6, p3) = ShiftRight(ShiftRight(a6, p4), w[m[4]])
    BY <1>14, <1>17, <1>18, ShiftTwice
  <2> QED BY <1>15, <1>21, <2>1
<1>23. ShiftRight(a6, p2) = a2
  <2> HIDE DEF p3
  <2>1. ShiftRight(a6, p2) = ShiftRight(ShiftRight(a6, p3), w[m[3]])
    BY <1>14, <1>17, <1>18, ShiftTwice
  <2> QED BY <1>15, <1>22, <2>1
<1>24. ShiftRight(a6, p1) = a1
  <2> HIDE DEF p2
  <2>1. ShiftRight(a6, p1) = ShiftRight(ShiftRight(a6, p2), w[m[2]])
    BY <1>14, <1>17, <1>18, ShiftTwice
  <2> QED BY <1>15, <1>23, <2>1
<1> HIDE DEF p1, p2, p3, p4, p5
<1>25. \A i \in 1 .. 6 : Mask(ShiftRight(a6, at[i]), w[m[i]]) = s[m[i]]
  BY <1>16, <1>19, <1>20, <1>21, <1>22, <1>23, <1>24
<1> HIDE DEF at
<1>26. /\ ReverseAddressMap(c, s) \in SUBSET Nat
       /\ ShiftRight(ReverseAddressMap(c, s), ShiftBits(c)) = a6
  <2>1. PICK n : n = ShiftBits(c)
    OBVIOUS
  <2>2. n \in Nat
    BY <2>1, SizeTypes, LogIsNat DEF ShiftBits
  <2>3. ShiftLeft(a6, n) \in SUBSET Nat /\ ShiftRight(ShiftLeft(a6, n), n) = a6
    BY <1>14, <2>2, ShiftBack
  <2> QED BY <1>11, <2>1, <2>3
<1>27. ASSUME NEW f \in Fields
       PROVE  AddressMap(c, ReverseAddressMap(c, s))[f] = s[f]
  <2>1. PICK i \in 1 .. 6 : m[i] = f /\ FieldPos(c)[f] = at[i]
    BY <1>12
  <2>2. AddressMap(c, ReverseAddressMap(c, s))[f] = Mask(ShiftRight(a6, FieldPos(c)[f]), w[f])
    BY <1>26 DEF AddressMap, w
  <2> QED BY <1>25, <2>1, <2>2
<1> QED BY <1>26, <1>27

-----------------------------------------------------------------------------
(* The sweep. *)

(* A row holds a burst, if the sweep has a column to visit. *)
LEMMA RowHoldsBurst ==
  ASSUME NEW c \in Configs, ~ DividesByZero(c), ActualColumns(c) # 0
  PROVE  c.BL <= c.columns
<1>1. c.columns \in Nat /\ c.BL \in Nat \ {0}
  BY ConfigTypes, SizeTypes
<1>0. PlainSizes(c)
  BY SizeTypes, SizesArePlain
<1>2. ~ c.columns < c.BL
  BY <1>1, <1>0, SmallQuotient DEF PlainSizes
<1> QED BY <1>1, <1>2

(* The six nested loops stay below their bounds. *)
LEMMA SweepStaysInside ==
  ASSUME NEW c \in Configs, ~ DividesByZero(c), NEW n \in Nat, n < SweepSize(c)
  PROVE  /\ \A f \in Fields : SweepCoordinate(c, n)[f] \in 0 .. Size(c)[f] - 1
         /\ ActualColumns(c) # 0
<1>1. PICK ch, ra, bg, ba, ro, co :
        /\ ch = Size(c).ch /\ ra = Size(c).ra /\ bg = Size(c).bg
        /\ ba = Size(c).ba /\ ro = Size(c).ro /\ co = Size(c).co
  OBVIOUS
<1>2. /\ ch \in Nat \ {0} /\ ra \in Nat \ {0} /\ bg \in Nat \ {0}
      /\ ba \in Nat \ {0} /\ ro \in Nat \ {0} /\ co \in Nat
  <2>1. /\ "ch" \in Fields \ {"co"} /\ "ra" \in Fields \ {"co"} /\ "bg" \in Fields \ {"co"}
        /\ "ba" \in Fields \ {"co"} /\ "ro" \in Fields \ {"co"} /\ "co" \in Fields
    BY DEF Fields
  <2> QED BY <1>1, <2>1, Dimensions
<1>3. n < ch * ra * bg * ba * ro * co
  BY <1>1 DEF SweepSize
<1>4. PICK x2, x3, x4, x5 :
        /\ x2 = ch * ra /\ x3 = x2 * bg /\ x4 = x3 * ba /\ x5 = x4 * ro
  OBVIOUS
<1>5. x2 \in Nat
  BY <1>2, <1>4
<1>6. x3 \in Nat
  BY <1>2, <1>4, <1>5
<1>7. x4 \in Nat
  BY <1>2, <1>4, <1>6
<1>8. x5 \in Nat
  BY <1>2, <1>4, <1>7
<1>9. n < x5 * co
  BY <1>3, <1>4
<1>10. co # 0
  <2> SUFFICES ASSUME co = 0 PROVE FALSE
    OBVIOUS
  <2>1. x5 * 0 = 0
    BY <1>8
  <2> QED BY <1>9, <2>1
<1>11. PICK n5, n4, n3, n2 :
         n5 = n \div co /\ n4 = n5 \div ro /\ n3 = n4 \div ba /\ n2 = n3 \div bg
  OBVIOUS
<1>12. n5 \in 0 .. x5 - 1
  BY <1>2, <1>8, <1>9, <1>10, <1>11, QuotientBelow
<1>13. n4 \in 0 .. x4 - 1
  <2>1. n5 \in Nat /\ n5 < x4 * ro
    BY <1>4, <1>8, <1>12
  <2> QED BY <1>2, <1>7, <1>11, <2>1, QuotientBelow
<1>14. n3 \in 0 .. x3 - 1
  <2>1. n4 \in Nat /\ n4 < x3 * ba
    BY <1>4, <1>7, <1>13
  <2> QED BY <1>2, <1>6, <1>11, <2>1, QuotientBelow
<1>15. n2 \in 0 .. x2 - 1
  <2>1. n3 \in Nat /\ n3 < x2 * bg
    BY <1>4, <1>6, <1>14
  <2> QED BY <1>2, <1>5, <1>11, <2>1, QuotientBelow
<1>16. n2 \div ra \in 0 .. ch - 1
  <2>1. n2 \in Nat /\ n2 < ch * ra
    BY <1>4, <1>5, <1>15
  <2> QED BY <1>2, <2>1, QuotientBelow
<1>17. /\ n % co \in 0 .. co - 1 /\ n5 % ro \in 0 .. ro - 1 /\ n4 % ba \in 0 .. ba - 1
       /\ n3 % bg \in 0 .. bg - 1 /\ n2 % ra \in 0 .. ra - 1
  <2>1. n5 \in Nat /\ n4 \in Nat /\ n3 \in Nat /\ n2 \in Nat
    BY <1>5, <1>6, <1>7, <1>8, <1>12, <1>13, <1>14, <1>15
  <2> QED BY <1>2, <1>10, <2>1, Division
<1>18. SweepCoordinate(c, n) =
         [co |-> n % co, ro |-> n5 % ro, ba |-> n4 % ba, bg |-> n3 % bg,
          ra |-> n2 % ra, ch |-> n2 \div ra]
  BY <1>1, <1>11, Zenon DEF SweepCoordinate
<1>19. co = ActualColumns(c)
  BY <1>1 DEF Size
<1>20. ASSUME NEW f \in Fields PROVE SweepCoordinate(c, n)[f] \in 0 .. Size(c)[f] - 1
  <2>1. CASE f = "co"
    BY <1>1, <1>17, <1>18, <2>1
  <2>2. CASE f = "ro"
    BY <1>1, <1>17, <1>18, <2>2
  <2>3. CASE f = "ba"
    BY <1>1, <1>17, <1>18, <2>3
  <2>4. CASE f = "bg"
    BY <1>1, <1>17, <1>18, <2>4
  <2>5. CASE f = "ra"
    BY <1>1, <1>17, <1>18, <2>5
  <2>6. CASE f = "ch"
    BY <1>1, <1>16, <1>18, <2>6
  <2> QED BY <2>1, <2>2, <2>3, <2>4, <2>5, <2>6 DEF Fields
<1> QED BY <1>10, <1>19, <1>20

(* An address is made of bits, also when a loop index has more of them than   *)
(* its field.                                                                 *)
LEMMA AddressIsBits ==
  ASSUME NEW c \in Configs, ~ DividesByZero(c), c.BL <= c.columns, ValidMapping(c),
         NEW s, \A f \in Fields : s[f] \in SUBSET Nat
  PROVE  ReverseAddressMap(c, s) \in SUBSET Nat
<1> DEFINE m == c.address_mapping
           w == FieldWidths(c)
           Push(a, f) == ShiftLeft(a, w[f]) \cup s[f]
<1>1. \A i \in 1 .. 6 : m[i] \in Fields
  BY DEF ValidMapping
<1>2. \A f \in Fields : w[f] \in Nat
  BY WidthTypes
<1>3. \A a \in SUBSET Nat, n \in Nat : ShiftLeft(a, n) \in SUBSET Nat
  <2> TAKE a \in SUBSET Nat, n \in Nat
  <2>1. \A b \in a : b + n \in Nat
    OBVIOUS
  <2> QED BY <2>1 DEF ShiftLeft
<1>4. \A a \in SUBSET Nat, f \in Fields : Push(a, f) \in SUBSET Nat
  <2> HIDE DEF w
  <2> QED BY <1>2, <1>3
<1>5. PICK a0 : a0 = {}
  OBVIOUS
<1>6. PICK a1, a2, a3, a4, a5, a6 :
        /\ a1 = Push(a0, m[1]) /\ a2 = Push(a1, m[2]) /\ a3 = Push(a2, m[3])
        /\ a4 = Push(a3, m[4]) /\ a5 = Push(a4, m[5]) /\ a6 = Push(a5, m[6])
  OBVIOUS
<1>7. ReverseAddressMap(c, s) = ShiftLeft(a6, ShiftBits(c))
  BY <1>5, <1>6, Zenon DEF ReverseAddressMap, Push, m, w
<1>8. ShiftBits(c) \in Nat
  BY SizeTypes, LogIsNat DEF ShiftBits
<1> HIDE DEF m, w, Push
<1>9. /\ m[1] \in Fields /\ m[2] \in Fields /\ m[3] \in Fields
      /\ m[4] \in Fields /\ m[5] \in Fields /\ m[6] \in Fields
  BY <1>1
<1>10. a6 \in SUBSET Nat
  <2>1. a0 \in SUBSET Nat
    BY <1>5
  <2>2. a1 \in SUBSET Nat
    BY <1>4, <1>6, <1>9, <2>1
  <2>3. a2 \in SUBSET Nat
    BY <1>4, <1>6, <1>9, <2>2
  <2>4. a3 \in SUBSET Nat
    BY <1>4, <1>6, <1>9, <2>3
  <2>5. a4 \in SUBSET Nat
    BY <1>4, <1>6, <1>9, <2>4
  <2>6. a5 \in SUBSET Nat
    BY <1>4, <1>6, <1>9, <2>5
  <2> QED BY <1>4, <1>6, <1>9, <2>6
<1> QED BY <1>3, <1>7, <1>8, <1>10

(* The coordinate of a position of the sweep, as bits. *)
SweptBits(c, n) == [f \in Fields |-> BitsOf(SweepCoordinate(c, n)[f])]

LEMMA SweptBitsAreBits ==
  ASSUME NEW c \in Configs, ~ DividesByZero(c), NEW n \in Nat, n < SweepSize(c)
  PROVE  \A f \in Fields : SweptBits(c, n)[f] \in SUBSET Nat
<1> TAKE f \in Fields
<1>1. SweepCoordinate(c, n)[f] \in Nat
  <2>1. Size(c)[f] \in Nat
    BY Dimensions
  <2> QED BY <2>1, SweepStaysInside
<1>2. BitsOf(SweepCoordinate(c, n)[f]) \subseteq Nat
  BY <1>1, LogIsNat DEF BitsOf
<1> QED BY <1>2 DEF SweptBits

-----------------------------------------------------------------------------
(* The invariant: a request is made only with sizes that could be computed    *)
(* and a layout of six fields; its coordinate is what AddressMapping makes of *)
(* its address, and the address of a sequential request is made of a position *)
(* of the sweep.                                                              *)
ReadyInv ==
  /\ config \in Configs
  /\ position \in Nat
  /\ status = "ready" => ~ DividesByZero(config) /\ ValidMapping(config)
  /\ sent # <<>> \/ recv_addr # <<>> => status = "ready"
RequestInv ==
  sent # <<>> \/ recv_addr # <<>> =>
    gen_addr \in SUBSET Nat /\ recv_addr = AddressMap(config, gen_addr)
SweepInv ==
  sent # <<>> =>
    \E n \in Nat : /\ n < SweepSize(config)
                   /\ sent = SweptBits(config, n)
                   /\ gen_addr = ReverseAddressMap(config, sent)
AddressInv == ReadyInv /\ RequestInv /\ SweepInv

LEMMA AddressInvInit == Init => AddressInv
BY DEF Init, AddressInv, ReadyInv, RequestInv, SweepInv

LEMMA AddressInvConfigure ==
  ASSUME AddressInv, Configure
  PROVE  AddressInv'
<1>1. sent = <<>> /\ recv_addr = <<>>
  BY DEF AddressInv, ReadyInv, Configure
<1>2. sent' = <<>> /\ recv_addr' = <<>> /\ config' = config /\ position' = position
  BY <1>1 DEF Configure
<1>3. status' = "ready" => ~ DividesByZero(config) /\ ValidMapping(config)
  BY DEF Configure
<1>4. status' = "ready" => ~ DividesByZero(config') /\ ValidMapping(config')
  BY <1>2, <1>3
<1>5. config \in Configs /\ position \in Nat
  BY DEF AddressInv, ReadyInv
<1> QED BY <1>2, <1>4, <1>5 DEF AddressInv, ReadyInv, RequestInv, SweepInv

LEMMA AddressInvSequential ==
  ASSUME AddressInv, SequentialRequest
  PROVE  AddressInv'
<1>1. PICK c, n, s, g :
        c = config /\ n = position /\ s = SweptBits(config, position)
          /\ g = ReverseAddressMap(config, SweptBits(config, position))
  OBVIOUS
<1>2. c \in Configs /\ n \in Nat /\ ~ DividesByZero(c) /\ ValidMapping(c) /\ n < SweepSize(c)
  BY <1>1 DEF AddressInv, ReadyInv, SequentialRequest
<1>3. g \in SUBSET Nat
  <2>1. ActualColumns(c) # 0 /\ \A f \in Fields : s[f] \in SUBSET Nat
    BY <1>1, <1>2, SweepStaysInside, SweptBitsAreBits
  <2>2. c.BL <= c.columns
    BY <1>2, <2>1, RowHoldsBurst
  <2>3. g = ReverseAddressMap(c, s)
    BY <1>1
  <2> QED BY <1>2, <2>1, <2>2, <2>3, AddressIsBits
<1>4. /\ config' = c /\ status' = "ready" /\ position' = n + 1
      /\ sent' = s /\ gen_addr' = g /\ recv_addr' = AddressMap(c, g)
  BY <1>1, Zenon DEF SequentialRequest, SweptBits
<1>5. ReadyInv'
  BY <1>2, <1>4 DEF ReadyInv
<1>6. RequestInv'
  BY <1>3, <1>4 DEF RequestInv
<1>7. SweepInv'
  <2>1. s = SweptBits(c, n) /\ g = ReverseAddressMap(c, s)
    BY <1>1
  <2> QED BY <1>2, <1>4, <2>1 DEF SweepInv
<1> QED BY <1>5, <1>6, <1>7 DEF AddressInv

LEMMA AddressInvRandom ==
  ASSUME AddressInv, RandomRequest
  PROVE  AddressInv'
<1>1. PICK a \in EffectiveAddresses(config) :
        gen_addr' = a /\ recv_addr' = AddressMap(config, a)
  BY DEF RandomRequest
<1>2. a \in SUBSET Nat
  BY DEF EffectiveAddresses
<1>3. PICK c : c = config
  OBVIOUS
<1>4. /\ config' = c /\ status' = "ready" /\ position' = position /\ sent' = <<>>
      /\ gen_addr' = a /\ recv_addr' = AddressMap(c, a)
  BY <1>1, <1>3 DEF RandomRequest
<1>5. c \in Configs /\ position \in Nat /\ ~ DividesByZero(c) /\ ValidMapping(c)
  BY <1>3 DEF AddressInv, ReadyInv, RandomRequest
<1>6. ReadyInv'
  BY <1>4, <1>5 DEF ReadyInv
<1>7. RequestInv'
  BY <1>2, <1>4 DEF RequestInv
<1>8. SweepInv'
  BY <1>4 DEF SweepInv
<1> QED BY <1>6, <1>7, <1>8 DEF AddressInv

(* Every state satisfies it. *)
LEMMA AddressInvariant == Spec => []AddressInv
<1>1. ASSUME AddressInv, [Next]_vars PROVE AddressInv'
  <2>1. CASE Configure
    BY <1>1, <2>1, AddressInvConfigure
  <2>2. CASE SequentialRequest
    BY <1>1, <2>2, AddressInvSequential
  <2>3. CASE RandomRequest
    BY <1>1, <2>3, AddressInvRandom
  <2>4. CASE UNCHANGED vars
    BY <1>1, <2>4 DEF vars, AddressInv, ReadyInv, RequestInv, SweepInv
  <2> QED BY <1>1, <2>1, <2>2, <2>3, <2>4 DEF Next
<1> QED BY <1>1, AddressInvInit, PTL DEF Spec

-----------------------------------------------------------------------------
(* What follows from it. *)

(* No address leads outside the array. *)
LEMMA MaskedIsInside ==
  ASSUME NEW c \in Configs, ~ DividesByZero(c), ValidMapping(c),
         PowerOfTwo(c.BL), c.BL <= c.columns, NEW a \in SUBSET Nat, NEW f \in Fields
  PROVE  \E n \in 0 .. Size(c)[f] - 1 : AddressMap(c, a)[f] = BitsOf(n)
<1>1. PICK w, p, h : w = FieldWidths(c)[f] /\ p = FieldPos(c)[f] /\ h = ShiftBits(c)
  OBVIOUS
<1>2. w \in Nat /\ p \in Nat /\ h \in Nat
  <2>1. ShiftBits(c) \in Nat
    BY SizeTypes, LogIsNat DEF ShiftBits
  <2> QED BY <1>1, <2>1, WidthTypes, PositionTypes
<1>3. AddressMap(c, a)[f] = Mask(ShiftRight(ShiftRight(a, h), p), w)
  BY <1>1 DEF AddressMap
<1>4. \A x \in SUBSET Nat, n \in Nat : ShiftRight(x, n) \in SUBSET Nat
  BY DEF ShiftRight
<1>5. Mask(ShiftRight(ShiftRight(a, h), p), w) \in SUBSET (0 .. w - 1)
  <2>1. ShiftRight(ShiftRight(a, h), p) \in SUBSET Nat
    BY <1>2, <1>4
  <2> QED BY <1>2, <2>1 DEF Mask
<1>6. PICK n \in Nat : n < Pow2[w] /\ BitsOf(n) = AddressMap(c, a)[f]
  BY <1>2, <1>3, <1>5, BitsFrom
<1>7. Pow2[w] <= Size(c)[f] /\ Pow2[w] \in Nat /\ Size(c)[f] \in Nat
  BY <1>1, <1>2, WidthsFitSizes, Pow2Facts, Dimensions
<1>8. n \in 0 .. Size(c)[f] - 1
  BY <1>6, <1>7
<1> QED BY <1>6, <1>8

(* CoordinateInBounds, for every parameter file and every address: what      *)
(* AddressMapping returns indexes an existing cell.                          *)
THEOREM NoAddressLeavesTheArray == Spec => []CoordinateInBounds
<1>1. ASSUME AddressInv PROVE CoordinateInBounds
  <2> SUFFICES ASSUME recv_addr # <<>>, PowerOfTwo(config.BL), config.BL <= config.columns,
                      NEW f \in Fields
               PROVE  \E n \in 0 .. Size(config)[f] - 1 : recv_addr[f] = BitsOf(n)
    BY DEF CoordinateInBounds
  <2>1. /\ config \in Configs /\ ~ DividesByZero(config) /\ ValidMapping(config)
        /\ gen_addr \in SUBSET Nat /\ recv_addr = AddressMap(config, gen_addr)
    BY <1>1 DEF AddressInv, ReadyInv, RequestInv
  <2> QED BY <2>1, MaskedIsInside
<1> QED BY <1>1, AddressInvariant, PTL

(* SweepRoundTrip, for every layout of the fields: the memory system and the  *)
(* fault model look up the coordinate the sequential generator meant.         *)
THEOREM SweepComesBack == Spec => []SweepRoundTrip
<1>1. ASSUME AddressInv PROVE SweepRoundTrip
  <2> SUFFICES ASSUME sent # <<>>, PowersOfTwo(config) PROVE recv_addr = sent
    BY DEF SweepRoundTrip
  <2>1. PICK n \in Nat : /\ n < SweepSize(config)
                         /\ sent = SweptBits(config, n)
                         /\ gen_addr = ReverseAddressMap(config, sent)
    BY <1>1 DEF AddressInv, SweepInv
  <2>2. /\ config \in Configs /\ ~ DividesByZero(config) /\ ValidMapping(config)
        /\ recv_addr = AddressMap(config, gen_addr)
    BY <1>1 DEF AddressInv, ReadyInv, RequestInv
  <2>3. /\ ActualColumns(config) # 0
        /\ \A f \in Fields : SweepCoordinate(config, n)[f] \in 0 .. Size(config)[f] - 1
    BY <2>1, <2>2, SweepStaysInside
  <2>4. /\ \A f \in Fields : Size(config)[f] = Pow2[FieldWidths(config)[f]]
        /\ config.BL <= config.columns
    BY <2>2, <2>3, WidthsArePowers
  <2>5. \A f \in Fields : sent[f] \in SUBSET (0 .. FieldWidths(config)[f] - 1)
    <3> TAKE f \in Fields
    <3>1. PICK k, w : k = SweepCoordinate(config, n)[f] /\ w = FieldWidths(config)[f]
      OBVIOUS
    <3>2. w \in Nat /\ Pow2[w] \in Nat /\ Pow2[w] = Size(config)[f]
      BY <2>2, <2>4, <3>1, WidthTypes, Pow2Facts
    <3>3. k \in Nat /\ k < Pow2[w]
      BY <2>3, <3>1, <3>2
    <3>4. sent[f] = BitsOf(k)
      BY <2>1, <3>1 DEF SweptBits
    <3> QED BY <3>1, <3>2, <3>3, <3>4, BitsBelow
  <2>6. \A f \in Fields : AddressMap(config, ReverseAddressMap(config, sent))[f] = sent[f]
    BY <2>2, <2>4, <2>5, MappingReadsBack
  <2>7. \A f \in Fields : recv_addr[f] = sent[f]
    BY <2>1, <2>2, <2>6
  <2>8. recv_addr = [f \in Fields |-> recv_addr[f]]
    BY <2>2 DEF AddressMap
  <2>9. sent = [f \in Fields |-> sent[f]]
    BY <2>1 DEF SweptBits
  <2>10. [f \in Fields |-> recv_addr[f]] = [f \in Fields |-> sent[f]]
    BY <2>7
  <2> QED BY <2>8, <2>9, <2>10
<1> QED BY <1>1, AddressInvariant, PTL

(* FieldsFillAddress, for every parameter file: the layout of the fields and  *)
(* the size in megabytes agree on the width of an address.                    *)
THEOREM LayoutMatchesSize == Spec => []FieldsFillAddress
<1>1. ASSUME AddressInv PROVE FieldsFillAddress
  <2> SUFFICES ASSUME status = "ready", PowersOfTwo(config), config.channels = 1,
                      PowerOfTwo(config.device_width), config.bus_width >= 8
               PROVE  LET w == FieldWidths(config)
                      IN w["ra"] + w["bg"] + w["ba"] + w["ro"] + w["co"] + ShiftBits(config)
                           = AddressBits(config)
    BY DEF FieldsFillAddress
  <2>1. config \in Configs /\ ~ DividesByZero(config)
    BY <1>1 DEF AddressInv, ReadyInv
  <2> QED BY <2>1, AddressIsFilled
<1> QED BY <1>1, AddressInvariant, PTL
=============================================================================

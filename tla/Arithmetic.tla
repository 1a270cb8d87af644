----------------------------- MODULE Arithmetic -----------------------------
(***************************************************************************)
(* What the proofs need to know of natural numbers: the smallest element   *)
(* of a set, induction, and the quotients and remainders by which the code *)
(* takes a running number apart.                                           *)
(***************************************************************************)
EXTENDS Integers, WellFoundedInduction, TLAPS

-----------------------------------------------------------------------------
(* Sets of numbers. *)

(* Numbers, if there are any, have a smallest. *)
LEMMA Least ==
  ASSUME NEW S \in SUBSET Nat, S # {}
  PROVE  \E x \in S : \A y \in S : x <= y
<1> DEFINE R == OpToRel(<, Nat)
<1>1. \A x, y \in Nat : y < x => <<y, x>> \in R
  BY DEF OpToRel
<1>2. IsWellFoundedOn(R, Nat)
  BY NatLessThanWellFounded
<1> HIDE DEF R
<1>3. PICK x \in S : \A y \in S : ~(<<y, x>> \in R)
  BY <1>2, WFMin
<1>4. \A y \in S : ~(y < x)
  BY <1>1, <1>3
<1> QED
  BY <1>4

(* A set of numbers with 0 and every successor has all of them. *)
LEMMA Induction ==
  ASSUME NEW S, 0 \in S, \A n \in Nat : n \in S => n + 1 \in S
  PROVE  Nat \subseteq S
<1> DEFINE D == Nat \ S
<1> SUFFICES ASSUME D # {} PROVE FALSE
  OBVIOUS
<1>1. PICK x \in D : \A y \in D : x <= y
  BY Least
<1>2. x \in Nat /\ x \notin S /\ x # 0
  BY <1>1
<1>3. x - 1 \in Nat /\ x = (x - 1) + 1 /\ ~ x <= x - 1
  BY <1>2
<1>4. x - 1 \in S
  BY <1>1, <1>3
<1> QED BY <1>2, <1>3, <1>4

-----------------------------------------------------------------------------
(* Quotients and remainders. *)

(* A quotient and a remainder are what they should be. *)
LEMMA Division ==
  ASSUME NEW a \in Nat, NEW b \in Nat \ {0}
  PROVE  /\ a \div b \in Nat /\ a % b \in 0 .. b - 1
         /\ a = b * (a \div b) + (a % b)
OBVIOUS

(* Only one pair of numbers can be quotient and remainder. *)
LEMMA DivisionUnique ==
  ASSUME NEW b \in Nat \ {0}, NEW q \in Nat, NEW r \in 0 .. b - 1,
         NEW p \in Nat, NEW s \in 0 .. b - 1,
         b * q + r = b * p + s
  PROVE  q = p /\ r = s
<1>1. ~ q < p
  <2> SUFFICES ASSUME q < p PROVE FALSE
    OBVIOUS
  <2>1. PICK d \in Nat : p = q + d + 1
    <3>1. p - q - 1 \in Nat /\ p = q + (p - q - 1) + 1
      OBVIOUS
    <3> QED BY <3>1
  <2>2. b * p = b * q + b * d + b
    BY <2>1
  <2>3. b * d \in Nat /\ b * q \in Nat
    OBVIOUS
  <2> QED BY <2>2, <2>3
<1>2. ~ p < q
  <2> SUFFICES ASSUME p < q PROVE FALSE
    OBVIOUS
  <2>1. PICK d \in Nat : q = p + d + 1
    <3>1. q - p - 1 \in Nat /\ q = p + (q - p - 1) + 1
      OBVIOUS
    <3> QED BY <3>1
  <2>2. b * q = b * p + b * d + b
    BY <2>1
  <2>3. b * d \in Nat /\ b * p \in Nat
    OBVIOUS
  <2> QED BY <2>2, <2>3
<1>3. q = p
  BY <1>1, <1>2
<1> QED BY <1>3

(* Dividing by a product is dividing twice. *)
LEMMA NestedDivision ==
  ASSUME NEW n \in Nat, NEW p \in Nat \ {0}, NEW s \in Nat \ {0}
  PROVE  n \div (p * s) = (n \div s) \div p
<1> DEFINE q == (n \div s) \div p
           r == (n \div s) % p
           t == n % s
<1>1. /\ q \in Nat /\ r \in 0 .. p - 1 /\ t \in 0 .. s - 1
      /\ n \div s \in Nat
      /\ n \div s = p * q + r
      /\ n = s * (n \div s) + t
  BY Division
<1>2. p * s \in Nat \ {0}
  OBVIOUS
<1>3. s * r + t \in 0 .. p * s - 1
  <2> HIDE DEF q, r, t
  <2>1. PICK d \in Nat : p = r + 1 + d
    <3>1. p - r - 1 \in Nat /\ p = r + 1 + (p - r - 1)
      BY <1>1
    <3> QED BY <3>1
  <2>2. p * s = s * r + s + d * s
    BY <2>1, <1>1
  <2>3. s * r \in Nat /\ d * s \in Nat
    BY <1>1
  <2> QED BY <2>2, <2>3, <1>1
<1>4. n = (p * s) * q + (s * r + t)
  <2> HIDE DEF q, r, t
  <2>1. n = s * (p * q + r) + t
    BY <1>1
  <2>2. s * (p * q + r) = (p * s) * q + s * r
    BY <1>1
  <2> QED BY <2>1, <2>2, <1>1
<1>5. /\ n \div (p * s) \in Nat /\ n % (p * s) \in 0 .. p * s - 1
      /\ n = (p * s) * (n \div (p * s)) + (n % (p * s))
  BY <1>2, Division
<1> HIDE DEF q, r, t
<1>6. n \div (p * s) = q
  BY ONLY <1>1, <1>2, <1>3, <1>4, <1>5, DivisionUnique
<1> QED BY <1>6 DEF q

(* A burst position is the same in a plane and in its whole bursts. *)
LEMMA NestedRemainder ==
  ASSUME NEW n \in Nat, NEW k \in Nat \ {0}, NEW b \in Nat \ {0}
  PROVE  (n % (k * b)) % b = n % b
<1> DEFINE q == n \div (k * b)
           t == n % (k * b)
           u == t \div b
           v == t % b
<1>1. k * b \in Nat \ {0}
  OBVIOUS
<1>2. /\ q \in Nat /\ t \in Nat
      /\ n = (k * b) * q + t
  <2>1. /\ q \in Nat /\ t \in 0 .. (k * b) - 1
        /\ n = (k * b) * q + t
    BY <1>1, Division
  <2> HIDE DEF q, t
  <2> QED BY <1>1, <2>1
<1>3. /\ u \in Nat /\ v \in 0 .. b - 1
      /\ t = b * u + v
  BY <1>2, Division
<1>4. /\ n \div b \in Nat /\ n % b \in 0 .. b - 1
      /\ n = b * (n \div b) + (n % b)
  BY Division
<1> HIDE DEF q, t, u, v
<1>5. n = b * (k * q + u) + v /\ k * q + u \in Nat
  <2>1. n = (k * b) * q + (b * u + v)
    BY <1>2, <1>3
  <2>2. b * (k * q + u) = (k * b) * q + b * u /\ b * u \in Nat /\ (k * b) * q \in Nat
    BY <1>2, <1>3
  <2> QED BY <2>1, <2>2, <1>2, <1>3
<1>6. v = n % b
  <2> DEFINE c == k * q + u
             d == n \div b
             m == n % b
  <2>1. /\ c \in Nat /\ v \in 0 .. b - 1 /\ d \in Nat /\ m \in 0 .. b - 1
        /\ b \in Nat \ {0} /\ b * c + v = b * d + m
    BY ONLY <1>3, <1>4, <1>5, b \in Nat \ {0}
  <2> HIDE DEF c, d, m
  <2>2. v = m
    BY ONLY <2>1, DivisionUnique
  <2> QED BY <2>2 DEF m
<1> QED BY <1>6 DEF v, t

(* A larger leading digit makes a larger number. *)
LEMMA LeadingDigit ==
  ASSUME NEW k \in Nat, NEW a \in Nat, NEW b \in Nat, a < b,
         NEW r \in 0 .. k - 1, NEW s \in Nat
  PROVE  k * a + r < k * b + s
<1>1. PICK d \in Nat : b = a + 1 + d
  <2>1. b - a - 1 \in Nat /\ b = a + 1 + (b - a - 1)
    OBVIOUS
  <2> QED BY <2>1
<1>2. k * b = k * a + k + k * d /\ k * d \in Nat /\ k * a \in Nat
  BY <1>1
<1> QED BY <1>2

(* A number below x times b has a quotient by b below x. *)
LEMMA QuotientBelow ==
  ASSUME NEW k \in Nat, NEW x \in Nat, NEW b \in Nat \ {0}, k < x * b
  PROVE  k \div b \in 0 .. x - 1
<1> DEFINE q == k \div b
<1>1. q \in Nat /\ k % b \in 0 .. b - 1 /\ k = b * q + (k % b)
  BY Division
<1> HIDE DEF q
<1>2. ~ x <= q
  <2> SUFFICES ASSUME x <= q PROVE FALSE
    OBVIOUS
  <2>1. PICK d \in Nat : q = x + d
    <3>1. q - x \in Nat /\ q = x + (q - x)
      BY <1>1
    <3> QED BY <3>1
  <2>2. b * q = x * b + b * d /\ b * d \in Nat /\ x * b \in Nat
    BY <2>1
  <2>3. k % b \in Nat
    BY <1>1
  <2> QED BY <1>1, <2>2, <2>3
<1> QED BY <1>1, <1>2 DEF q
=============================================================================

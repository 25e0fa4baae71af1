----------------------------- MODULE Arithmetic -----------------------------
(***************************************************************************)
(* What the proofs need to know of counts: division with remainder, which  *)
(* is the index arithmetic of circular.h and the wrapping clock of         *)
(* timer.c, and induction over the naturals, stated of a set.              *)
(***************************************************************************)
EXTENDS Integers, FiniteSetTheorems, TLAPS

(* Division with remainder is unique, whatever the divisor.                *)
LEMMA ModUnique ==
  ASSUME NEW m \in Nat \ {0}, NEW q \in Int, NEW r \in 0 .. m - 1
  PROVE  (q * m + r) % m = r
BY Z3

(* Every index is a quotient and a slot.                                   *)
LEMMA ModDef ==
  ASSUME NEW m \in Nat \ {0}, NEW a \in Int
  PROVE  /\ a % m \in 0 .. m - 1
         /\ a \div m \in Int
         /\ a = (a \div m) * m + (a % m)
BY Z3

(* Advancing a count by one advances its slot by one, with wrap-around.    *)
LEMMA SuccMod ==
  ASSUME NEW m \in Nat \ {0}, NEW a \in Nat
  PROVE  ((a % m) + 1) % m = (a + 1) % m
<1> DEFINE q == a \div m
           r == a % m
<1>1. r \in 0 .. m - 1 /\ q \in Int /\ a = q * m + r
  BY ModDef
<1>2. CASE r + 1 < m
  <2>1. a + 1 = q * m + (r + 1) /\ r + 1 \in 0 .. m - 1
    BY <1>1, <1>2, Z3
  <2>2. (a + 1) % m = r + 1
    BY <2>1, <1>1, ModUnique
  <2>3. (0 * m + (r + 1)) % m = r + 1
    BY <2>1, ModUnique
  <2>4. 0 * m + (r + 1) = r + 1
    BY <1>1
  <2> QED BY <2>2, <2>3, <2>4
<1>3. CASE r + 1 = m
  <2>1. a + 1 = (q + 1) * m + 0 /\ q + 1 \in Int /\ 0 \in 0 .. m - 1
    BY <1>1, <1>3, Z3
  <2>2. (a + 1) % m = 0
    BY <2>1, ModUnique
  <2>3. r + 1 = 1 * m + 0
    BY <1>1, <1>3
  <2>4. (1 * m + 0) % m = 0
    BY <2>1, ModUnique
  <2> QED BY <2>2, <2>3, <2>4
<1> QED BY <1>1, <1>2, <1>3

(* Two counts less than m apart have different slots.                      *)
LEMMA ModInjective ==
  ASSUME NEW m \in Nat \ {0}, NEW a \in Nat, NEW b \in Nat,
         a <= b, b < a + m, a % m = b % m
  PROVE  a = b
<1> DEFINE qa == a \div m
           qb == b \div m
           r == a % m
<1>1. r \in 0 .. m - 1 /\ qa \in Int /\ a = qa * m + r
  BY ModDef
<1>2. qb \in Int /\ b = qb * m + r
  BY ModDef
<1> HIDE DEF qa, qb, r
<1>3. b - a = (qb - qa) * m
  BY <1>1, <1>2, Z3
<1>4. DEFINE d == qb - qa
<1>5. d \in Int /\ 0 <= d * m /\ d * m < m
  BY <1>1, <1>2, <1>3
<1>6. d = 0
  BY <1>5, Z3
<1> QED BY <1>3, <1>6, <1>1, <1>2

-----------------------------------------------------------------------------
(* A set of naturals has a least element: of the intervals that end in it, *)
(* one is smallest, since no interval has infinitely many subsets.         *)
LEMMA NatLeast ==
  ASSUME NEW T, T \subseteq Nat, T # {}
  PROVE  \E x \in T : \A y \in T : x <= y
<1> PICK n \in T : TRUE
  OBVIOUS
<1> DEFINE B == 0 .. n
           F == {0 .. k : k \in {t \in T : t <= n}}
<1>1. IsWellFoundedOn(StrictSubsetOrdering(B), FiniteSubsetsOf(B))
  BY FS_StrictSubsetOrderingWellFounded
<1>2. IsFiniteSet(B)
  BY FS_Interval
<1>3. FiniteSubsetsOf(B) = SUBSET B
  BY <1>2, FS_FiniteSubsetsOfFinite
<1>4. F \subseteq SUBSET B
  OBVIOUS
<1>4a. 0 .. n \in F
  OBVIOUS
<1>4b. F # {}
  BY <1>4a
<1>5. PICK m \in F : \A y \in F : ~ (<<y, m>> \in StrictSubsetOrdering(B))
  <2> HIDE DEF B, F
  <2> QED BY <1>1, <1>3, <1>4, <1>4b, WFMin
<1>6. PICK x \in T : x <= n /\ m = 0 .. x
  OBVIOUS
<1>7. ASSUME NEW y \in T, ~ (x <= y) PROVE FALSE
  <2>1. y \in Nat /\ x \in Nat /\ y < x
    BY <1>7
  <2>2. 0 .. y \in F
    BY <2>1, <1>6
  <2>3. 0 .. y \subseteq 0 .. x /\ 0 .. y # 0 .. x
    <3>1. x \in 0 .. x /\ x \notin 0 .. y
      BY <2>1
    <3>2. 0 .. y \subseteq 0 .. x
      BY <2>1
    <3> QED BY <3>1, <3>2
  <2>4. <<0 .. y, 0 .. x>> \in StrictSubsetOrdering(B)
    <3>1. 0 .. y \in SUBSET B /\ 0 .. x \in SUBSET B
      BY <2>2, <1>4, <1>6
    <3> QED BY <2>3, <3>1 DEF StrictSubsetOrdering
  <2> QED BY <2>2, <2>4, <1>5, <1>6
<1> QED BY <1>7

(* What holds of 0 and of the successor of whatever it holds of, holds of  *)
(* every natural.                                                          *)
LEMMA SetInduction ==
  ASSUME NEW S, 0 \in S, \A k \in Nat : k \in S => k + 1 \in S
  PROVE  Nat \subseteq S
<1> SUFFICES ASSUME Nat \ S # {} PROVE FALSE
  OBVIOUS
<1>1. PICK x \in Nat \ S : \A y \in Nat \ S : x <= y
  BY NatLeast
<1>2. x # 0 /\ x - 1 \in Nat /\ x - 1 \notin Nat \ S
  BY <1>1
<1> QED BY <1>1, <1>2
=============================================================================

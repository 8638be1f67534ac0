----------------------------- MODULE NatLemmas -----------------------------
(***************************************************************************)
(* Facts about numbers that the proofs share: the least element of a set   *)
(* of naturals, at which the searches of the tables stop, induction, which *)
(* follows from it, and division with remainder, which is how the model    *)
(* has unsigned integers of a fixed width.                                 *)
(***************************************************************************)
EXTENDS Integers, FiniteSetsExt, WellFoundedInduction, TLAPS

\* Min, a CHOOSE, returns the least element of a nonempty set of naturals.
LEMMA MinOfNaturals ==
    ASSUME NEW S, S \subseteq Nat, S # {}
    PROVE  Min(S) \in S /\ \A j \in S : Min(S) <= j
  <1>1. \E i \in S : \A j \in S : ~ (<<j, i>> \in OpToRel(<, Nat))
    BY NatLessThanWellFounded, WFMin
  <1>2. PICK i \in S : \A j \in S : ~ (<<j, i>> \in OpToRel(<, Nat))
    BY <1>1
  <1>3. \A j \in S : i <= j
    <2> TAKE j \in S
    <2>1. i \in Nat /\ j \in Nat
      OBVIOUS
    <2>2. ~ (j < i)
      BY <1>2, <2>1 DEF OpToRel
    <2> QED
      BY <2>1, <2>2
  <1> QED
    BY <1>3 DEF Min

\* Induction, for a set in place of a predicate: the least number outside of
\* the set would be neither zero nor a successor.
LEMMA InductionOnNat ==
    ASSUME NEW S, 0 \in S, \A n \in Nat : n \in S => n + 1 \in S
    PROVE  Nat \subseteq S
  <1> DEFINE Outside == Nat \ S
             m       == Min(Outside)
  <1> SUFFICES ASSUME Outside # {} PROVE FALSE
    OBVIOUS
  <1>1. m \in Outside /\ \A j \in Outside : m <= j
    BY MinOfNaturals
  <1> HIDE DEF m
  <1>2. m \in Nat /\ m # 0 /\ m \notin S
    BY <1>1
  <1>3. m - 1 \in Nat /\ ~ (m <= m - 1)
    BY <1>2
  <1>4. m - 1 \in S
    BY <1>1, <1>3
  <1>5. (m - 1) + 1 = m
    BY <1>2
  <1> QED
    BY <1>2, <1>3, <1>4, <1>5
----------------------------------------------------------------------------
LEMMA DivMod ==
    ASSUME NEW n \in Int, NEW m \in Nat \ {0}
    PROVE  n \div m \in Int /\ n % m \in 0 .. m - 1 /\ n = m * (n \div m) + (n % m)
  OBVIOUS

\* Quotient and remainder are unique.
LEMMA ModUnique ==
    ASSUME NEW m \in Nat \ {0}, NEW q \in Int, NEW r \in 0 .. m - 1
    PROVE  (m * q + r) % m = r
  OBVIOUS

LEMMA DivUnique ==
    ASSUME NEW m \in Nat \ {0}, NEW q \in Int, NEW r \in 0 .. m - 1
    PROVE  (m * q + r) \div m = q
  OBVIOUS

LEMMA ModSmall ==
    ASSUME NEW m \in Nat \ {0}, NEW n \in 0 .. m - 1
    PROVE  n % m = n
  OBVIOUS

LEMMA Distributive ==
    ASSUME NEW m \in Int, NEW q \in Int, NEW r \in Int
    PROVE  m * (q + r) = m * q + m * r
  OBVIOUS

LEMMA ProductOrder ==
    ASSUME NEW m \in Nat \ {0}, NEW p \in Int, NEW q \in Int
    PROVE  p <= q <=> m * p <= m * q
  OBVIOUS

\* A multiple of the width makes no difference.
LEMMA ModShift ==
    ASSUME NEW n \in Int, NEW m \in Nat \ {0}, NEW k \in Int
    PROVE  (n + m * k) % m = n % m
  <1> DEFINE q == n \div m
             r == n % m
  <1>1. q \in Int /\ r \in 0 .. m - 1 /\ n = m * q + r
    BY DivMod
  <1> HIDE DEF q, r
  <1>2. m * (q + k) = m * q + m * k /\ m * q \in Int /\ m * k \in Int /\ q + k \in Int
    BY <1>1, Distributive
  <1>3. n + m * k = m * (q + k) + r
    BY <1>1, <1>2
  <1>4. (m * (q + k) + r) % m = r
    BY <1>1, <1>2, ModUnique
  <1> QED
    BY <1>1, <1>3, <1>4 DEF r

\* An unsigned counter counts, and starts again at zero.
LEMMA ModPlusOne ==
    ASSUME NEW n \in Int, NEW m \in Nat \ {0}
    PROVE  (n + 1) % m = IF n % m = m - 1 THEN 0 ELSE (n % m) + 1
  <1> DEFINE q == n \div m
             r == n % m
  <1>1. q \in Int /\ r \in 0 .. m - 1 /\ n = m * q + r
    BY DivMod
  <1> HIDE DEF q, r
  <1>2. CASE r = m - 1
    <2>1. n + 1 = m * (q + 1) + 0
      BY <1>1, <1>2
    <2>2. (m * (q + 1) + 0) % m = 0
      <3>1. q + 1 \in Int /\ 0 \in 0 .. m - 1
        BY <1>1
      <3> QED
        BY <3>1, ModUnique
    <2> QED
      BY <1>2, <2>1, <2>2 DEF r
  <1>3. CASE r # m - 1
    <2>1. r + 1 \in 0 .. m - 1 /\ n + 1 = m * q + (r + 1)
      BY <1>1, <1>3
    <2>2. (m * q + (r + 1)) % m = r + 1
      BY <1>1, <2>1, ModUnique
    <2> QED
      BY <1>3, <2>1, <2>2 DEF r
  <1> QED
    BY <1>2, <1>3
=============================================================================

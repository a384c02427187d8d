------------------------------- MODULE Numbers --------------------------------
(***************************************************************************)
(* Facts about numbers that the other proofs use: the smallest and largest *)
(* of a set, quotients and remainders.  The provers know of no remainder   *)
(* of a sum, so these are derived from the uniqueness of the quotient.     *)
(***************************************************************************)
EXTENDS Integers, FiniteSetsExt, WellFoundedInduction, TLAPS

-----------------------------------------------------------------------------
(* Smallest and largest members.                                           *)

\* A non-empty set of naturals has a least member.
LEMMA NatLeast ==
    ASSUME NEW S \in SUBSET Nat, S # {}
    PROVE  \E m \in S : \A x \in S : m <= x
<1>1. IsWellFoundedOn(OpToRel(<, Nat), Nat)
  BY NatLessThanWellFounded
<1>2. \E m \in S : \A x \in S : <<x, m>> \notin OpToRel(<, Nat)
  BY <1>1, WFMin
<1>3. \A x, m \in Nat : <<x, m>> \notin OpToRel(<, Nat) => m <= x
  BY DEF OpToRel
<1> QED
  BY <1>2, <1>3

\* The Min of the community modules is that least member.
LEMMA MinLeast ==
    ASSUME NEW S \in SUBSET Nat, S # {}
    PROVE  Min(S) \in S /\ \A x \in S : Min(S) <= x
  BY NatLeast DEF Min

\* A non-empty bounded set of naturals has a greatest member, its Max.
LEMMA MaxGreatest ==
    ASSUME NEW b \in Nat, NEW S \in SUBSET (0 .. b), S # {}
    PROVE  Max(S) \in S /\ \A x \in S : Max(S) >= x
<1> DEFINE M == {n \in Nat : b - n \in S}
<1>1. \A x \in S : b - x \in M /\ b - (b - x) = x
  BY SMT
<1>2. PICK m \in M : \A n \in M : m <= n
  <2>1. M \in SUBSET Nat /\ M # {}
    BY <1>1
  <2> HIDE DEF M
  <2> QED
    BY <2>1, NatLeast
<1>3. \A y \in S : b - m >= y
  <2> TAKE y \in S
  <2>1. m <= b - y
    BY <1>1, <1>2
  <2> QED
    BY <2>1, <1>2
<1>4. b - m \in S
  BY <1>2
<1> QED
  BY <1>3, <1>4 DEF Max

-----------------------------------------------------------------------------
(* Quotients and remainders.                                               *)

\* A number is its quotient's multiple and its remainder.
LEMMA DivMod ==
    ASSUME NEW x \in Int, NEW k \in Nat \ {0}
    PROVE  /\ (x % k) \in 0 .. k - 1
           /\ (x \div k) \in Int
           /\ x = (k * (x \div k)) + (x % k)
OBVIOUS

\* The remainder is the only one that small.
LEMMA ModOfSum ==
    ASSUME NEW x \in Int, NEW q \in Int, NEW k \in Nat \ {0},
           NEW r \in 0 .. k - 1, x = (k * q) + r
    PROVE  (x % k) = r
OBVIOUS

\* Multiplication distributes over addition.
LEMMA Distribute ==
    ASSUME NEW k \in Int, NEW q \in Int, NEW n \in Int
    PROVE  /\ k * (q + n) = (k * q) + (k * n)
           /\ k * q \in Int /\ k * n \in Int
OBVIOUS

\* Adding a multiple leaves the remainder.
LEMMA ModPlusMultiple ==
    ASSUME NEW x \in Int, NEW q \in Int, NEW k \in Nat \ {0}
    PROVE  ((k * q) + x) % k = (x % k)
<1>1. PICK n \in Int, r \in 0 .. k - 1 : x = (k * n) + r /\ r = (x % k)
  BY DivMod
<1>2. k * (q + n) = (k * q) + (k * n) /\ k * q \in Int /\ k * n \in Int
  BY <1>1, Distribute
<1> DEFINE u == k * q
           v == k * n
           w == k * (q + n)
<1>3. w = u + v /\ u \in Int /\ v \in Int /\ x = v + r /\ r \in Int
  BY <1>1, <1>2
<1>4. u + x = w + r
  <2> HIDE DEF u, v, w
  <2> QED BY <1>3
<1>5. (k * q) + x = (k * (q + n)) + r
  BY <1>4
<1>6. (k * q) + x \in Int /\ q + n \in Int
  BY <1>1, <1>2
<1> QED
  BY <1>1, <1>5, <1>6, ModOfSum

\* Remainders add.
LEMMA SameMod ==
    ASSUME NEW a \in Int, NEW b \in Int, NEW t \in Int, NEW k \in Nat \ {0},
           (a % k) = (b % k)
    PROVE  ((t + a) % k) = ((t + b) % k)
<1> DEFINE r == (a % k)
           q == (a \div k)
           n == (b \div k)
<1>1. q \in Int /\ n \in Int /\ r \in 0 .. k - 1 /\ a = (k * q) + r /\ b = (k * n) + r
  BY DivMod
<1> HIDE DEF r, q, n
<1>2. t + r \in Int /\ k * q \in Int /\ k * n \in Int
  BY <1>1
<1>3. t + a = (k * q) + (t + r) /\ t + b = (k * n) + (t + r)
  <2> DEFINE u == k * q
             v == k * n
  <2>1. u \in Int /\ v \in Int /\ a = u + r /\ b = v + r /\ r \in Int
    BY <1>1, <1>2
  <2>2. t + a = u + (t + r) /\ t + b = v + (t + r)
    <3> HIDE DEF u, v
    <3> QED BY <2>1
  <2> QED BY <2>2
<1>4. (((k * q) + (t + r)) % k) = ((t + r) % k)
  BY <1>1, <1>2, ModPlusMultiple
<1>5. (((k * n) + (t + r)) % k) = ((t + r) % k)
  BY <1>1, <1>2, ModPlusMultiple
<1> QED
  BY <1>3, <1>4, <1>5, Zenon

\* A difference of multiples is one.
LEMMA ModOfDifference ==
    ASSUME NEW a \in Int, NEW b \in Int, NEW k \in Nat \ {0},
           (a % k) = 0, (b % k) = 0
    PROVE  ((a - b) % k) = 0
<1> DEFINE c == 0 - b
<1>1. c \in Int /\ c + b = 0 /\ c + a = a - b /\ (0 % k) = 0
  OBVIOUS
<1> HIDE DEF c
<1>2. (b % k) = (a % k)
  OBVIOUS
<1>3. ((c + b) % k) = ((c + a) % k)
  BY <1>1, <1>2, SameMod, Zenon
<1> QED
  BY <1>1, <1>3

\* A multiple of k beyond t is no less than the first one.
LEMMA NextMultiple ==
    ASSUME NEW t \in Int, NEW k \in Nat \ {0}
    PROVE  LET m == ((t + k) \div k) * k
           IN  /\ m \in Int /\ t < m /\ (m % k) = 0
               /\ \A u \in Int : t < u /\ (u % k) = 0 => m <= u
<1> DEFINE p == (t + k) \div k
           m == p * k
<1>1. p \in Int /\ m \in Int /\ t < m /\ m <= t + k /\ (m % k) = 0
  <2> DEFINE x == t + k
             r == (x % k)
  <2>1. x \in Int /\ p \in Int /\ r \in 0 .. k - 1 /\ x = (k * p) + r
    BY DivMod
  <2>2. k * p = m /\ m \in Int /\ x = t + k
    BY <2>1
  <2>3. t < m /\ m <= t + k
    <3> HIDE DEF p, r, x
    <3> QED BY <2>1, <2>2
  <2>4. (m % k) = 0
    <3>1. 0 \in 0 .. k - 1 /\ m = (k * p) + 0
      BY <2>2
    <3> HIDE DEF p, m
    <3> QED BY <2>1, <2>2, <3>1, ModOfSum
  <2> QED
    BY <2>1, <2>2, <2>3, <2>4
<1>2. ASSUME NEW u \in Int, t < u, (u % k) = 0
      PROVE  m <= u
  <2>1. PICK n \in Int : u = k * n
    <3>1. (u \div k) \in Int /\ u = (k * (u \div k)) + (u % k)
      BY DivMod
    <3>2. k * (u \div k) \in Int
      BY <3>1
    <3>3. u = k * (u \div k)
      BY <3>1, <3>2, <1>2
    <3> QED
      BY <3>1, <3>3
  <2>2. (k * p) - k < k * n
    BY <1>1, <1>2, <2>1
  <2>3. p <= n
    <3> HIDE DEF p
    <3>1. SUFFICES ASSUME n < p PROVE FALSE
      BY <1>1, <2>1
    <3>2. PICK d \in Nat : p = (n + 1) + d
      BY <3>1, <1>1, <2>1
    <3>3. k * p = (k * (n + 1)) + (k * d)
      BY <3>2, <2>1, Distribute
    <3>4. k * (n + 1) = (k * n) + (k * 1)
      BY <2>1, Distribute
    <3>5. k * 1 = k /\ k * d \in Nat /\ k * n \in Int
      BY <2>1, <3>2
    <3> QED
      BY <2>2, <3>3, <3>4, <3>5
  <2>4. k * p <= k * n
    <3> HIDE DEF p
    <3>1. PICK d \in Nat : n = p + d
      BY <2>3, <1>1, <2>1
    <3>2. k * n = (k * p) + (k * d)
      BY <3>1, <1>1, Distribute
    <3>3. k * d \in Nat /\ k * p \in Int
      BY <3>1, <1>1
    <3> QED
      BY <3>2, <3>3
  <2>5. k * p = m
    OBVIOUS
  <2> QED
    BY <2>1, <2>4, <2>5
<1> QED
  BY <1>1, <1>2

\* Nor is the quotient any other.
LEMMA DivOfSum ==
    ASSUME NEW x \in Int, NEW q \in Int, NEW k \in Nat \ {0},
           NEW r \in 0 .. k - 1, x = (k * q) + r
    PROVE  (x \div k) = q
OBVIOUS

\* A k later, the quotient is the next one and the remainder the same.
LEMMA NextQuotient ==
    ASSUME NEW x \in Int, NEW k \in Nat \ {0}
    PROVE  ((x + k) \div k) = (x \div k) + 1 /\ ((x + k) % k) = (x % k)
<1> DEFINE q == (x \div k)
           r == (x % k)
<1>1. q \in Int /\ r \in 0 .. k - 1 /\ x = (k * q) + r
  BY DivMod
<1> HIDE DEF q, r
<1>2. k * (q + 1) = (k * q) + (k * 1) /\ k * q \in Int /\ k * 1 = k
  BY <1>1, Distribute
<1>3. x + k = (k * (q + 1)) + r /\ q + 1 \in Int /\ x + k \in Int
  BY <1>1, <1>2
<1>4. ((x + k) \div k) = q + 1 /\ ((x + k) % k) = r
  BY <1>1, <1>3, DivOfSum, ModOfSum
<1> QED
  BY <1>4 DEF q, r

\* A little later, the quotient is the same.
LEMMA SameQuotient ==
    ASSUME NEW x \in Int, NEW d \in Nat, NEW k \in Nat \ {0}, (x % k) + d < k
    PROVE  ((x + d) \div k) = (x \div k)
<1> DEFINE q == (x \div k)
           r == (x % k)
           s == r + d
<1>1. q \in Int /\ r \in 0 .. k - 1 /\ x = (k * q) + r /\ s \in 0 .. k - 1
  BY DivMod
<1>2. k * q \in Int
  BY <1>1
<1>3. x + d = (k * q) + s /\ x + d \in Int
  <2>1. s = r + d
    OBVIOUS
  <2> HIDE DEF q, r, s
  <2> QED BY <1>1, <1>2, <2>1
<1> HIDE DEF q, r, s
<1>4. ((x + d) \div k) = q
  BY <1>1, <1>3, DivOfSum
<1> QED
  BY <1>4 DEF q

\* A later instant has no smaller quotient.
LEMMA QuotientGrows ==
    ASSUME NEW x \in Int, NEW y \in Int, x <= y, NEW k \in Nat \ {0}
    PROVE  (x \div k) <= (y \div k)
OBVIOUS
=============================================================================

---------------------------- MODULE ModTheorems ----------------------------
(***************************************************************************)
(* Facts about % that the ring buffers rest on: two free-running indices    *)
(* less than a ring's size apart never fall on the same slot, and an index  *)
(* that wraps at a multiple of the size keeps its slot.                     *)
(***************************************************************************)
EXTENDS Integers, TLAPS

\* Two multiples of n are never strictly between 0 and n apart.
LEMMA MultiplesApart ==
  ASSUME NEW n \in Nat \ {0}, NEW q \in Int, NEW r \in Int,
         n * q - n * r > 0, n * q - n * r < n
  PROVE  FALSE
<1>1. CASE q <= r
  <2>1. n * (r - q) >= 0
    BY <1>1
  <2> QED
    BY <2>1, <1>1
<1>2. CASE q >= r + 1
  <2>1. n * (q - r) = n + n * (q - r - 1)
    OBVIOUS
  <2>2. n * (q - r - 1) >= 0
    BY <1>2
  <2> QED
    BY <2>1, <2>2
<1> QED
  BY <1>1, <1>2

\* The slot of an index is in the ring.
LEMMA ModRange ==
  ASSUME NEW a \in Int, NEW n \in Nat \ {0}
  PROVE  a % n \in 0 .. n-1
  OBVIOUS

\* Quotient and remainder.
LEMMA ModDiv ==
  ASSUME NEW a \in Int, NEW n \in Nat \ {0}
  PROVE  a = n * (a \div n) + (a % n) /\ a \div n \in Int
  OBVIOUS

\* The remainder is the only one.
LEMMA ModUnique ==
  ASSUME NEW a \in Int, NEW n \in Nat \ {0}, NEW q \in Int, NEW m \in 0 .. n-1,
         a = n * q + m
  PROVE  a % n = m
<1> DEFINE d == a \div n
           e == a % n
<1>1. a = n * d + e /\ d \in Int /\ e \in 0 .. n-1
  BY ModDiv, ModRange
<1> HIDE DEF d, e
<1>2. n * q - n * d = e - m
  BY <1>1
<1>3. CASE e > m
  BY <1>1, <1>2, <1>3, MultiplesApart
<1>4. CASE e < m
  <2>1. n * d - n * q = m - e
    BY <1>2, <1>1
  <2>2. n * d - n * q > 0 /\ n * d - n * q < n
    BY <1>1, <2>1, <1>4
  <2>3. FALSE
    BY <1>1, <2>2, MultiplesApart
  <2> QED
    BY <2>3
<1> QED
  BY <1>1, <1>3, <1>4 DEF e

\* Indices less than n apart are on different slots.
LEMMA ModDiffer ==
  ASSUME NEW a \in Int, NEW b \in Int, NEW n \in Nat \ {0}, b - a > 0, b - a < n
  PROVE  a % n # b % n
<1>1. SUFFICES ASSUME a % n = b % n PROVE FALSE
  OBVIOUS
<1> DEFINE q == b \div n
           r == a \div n
<1>2. a = n * r + (a % n) /\ r \in Int
  BY ModDiv
<1>3. b = n * q + (b % n) /\ q \in Int
  BY ModDiv
<1>4. a % n \in Int
  BY ModRange
<1>5. n * q - n * r = b - a
  BY <1>1, <1>2, <1>3, <1>4
<1> HIDE DEF q, r
<1> QED
  BY <1>5, <1>2, <1>3, MultiplesApart

\* Wrapping at a multiple of n keeps the slot.
LEMMA ModWrap ==
  ASSUME NEW a \in Int, NEW w \in Int, NEW n \in Nat \ {0}, w % n = 0
  PROVE  (a - w) % n = a % n
<1> DEFINE k == w \div n
           q == a \div n
           m == a % n
<1>1. w = n * k /\ k \in Int
  BY ModDiv
<1>2. a = n * q + m /\ q \in Int /\ m \in 0 .. n-1
  BY ModDiv, ModRange
<1> HIDE DEF k, q, m
<1>3. a - w = n * (q - k) + m
  BY <1>1, <1>2
<1>4. (a - w) % n = m
  BY <1>2, <1>1, <1>3, ModUnique
<1> QED
  BY <1>4 DEF m

\* A multiple has no remainder.
LEMMA ModMultiple ==
  ASSUME NEW q \in Int, NEW n \in Nat \ {0}
  PROVE  (n * q) % n = 0
<1>1. n * q \in Int /\ n * q = n * q + 0 /\ 0 \in 0 .. n-1
  OBVIOUS
<1> DEFINE w == n * q
<1> HIDE DEF w
<1>2. w \in Int /\ w = n * q + 0
  BY <1>1 DEF w
<1>3. w % n = 0
  BY <1>1, <1>2, ModUnique
<1> QED
  BY <1>3 DEF w

\* An index below n, or at most once past it.
LEMMA ModNear ==
  ASSUME NEW n \in Nat \ {0}, NEW a \in 0 .. 2*n-1
  PROVE  a % n = IF a < n THEN a ELSE a - n
<1>1. CASE a < n
  <2>1. a = n * 0 + a /\ a \in 0 .. n-1 /\ a \in Int /\ 0 \in Int
    BY <1>1
  <2> QED
    BY <1>1, <2>1, ModUnique
<1>2. CASE a >= n
  <2>1. a = n * 1 + (a - n) /\ a - n \in 0 .. n-1 /\ a \in Int /\ 1 \in Int
    BY <1>2
  <2>2. a % n = a - n
    BY <2>1, ModUnique
  <2> QED
    BY <1>2, <2>2
<1> QED
  BY <1>1, <1>2

\* An index may be wrapped before it moves on.
LEMMA ModPlus ==
  ASSUME NEW a \in Int, NEW k \in Int, NEW n \in Nat \ {0}
  PROVE  ((a % n) + k) % n = (a + k) % n
<1> DEFINE q == a \div n
           w == n * q
<1>1. a = w + (a % n) /\ q \in Int /\ a % n \in Int
  BY ModDiv, ModRange
<1>2. w \in Int /\ w % n = 0
  BY <1>1, ModMultiple
<1> HIDE DEF w, q
<1>3. (a % n) + k = (a + k) - w /\ a + k \in Int
  BY <1>1, <1>2
<1> DEFINE b == a + k
<1>4. b \in Int /\ (a % n) + k = b - w
  BY <1>3
<1> HIDE DEF b
<1>5. (b - w) % n = b % n
  BY <1>2, <1>4, ModWrap
<1> QED
  BY <1>4, <1>5, Zenon DEF b

\* The distance of two indices less than n apart, from their wrapped values.
LEMMA ModDistance ==
  ASSUME NEW a \in Int, NEW b \in Int, NEW n \in Nat \ {0}, a - b \in 0 .. n-1
  PROVE  ((a % n) + n - (b % n)) % n = a - b
<1> DEFINE q == a \div n
           r == b \div n
           u == a % n
           v == b % n
<1>1. a = n * q + u /\ q \in Int /\ u \in Int
  BY ModDiv, ModRange
<1>2. b = n * r + v /\ r \in Int /\ v \in Int
  BY ModDiv, ModRange
<1> HIDE DEF q, r, u, v
<1>3. n * (1 + r - q) = n + n * r - n * q
  BY <1>1, <1>2
<1>4. u + n - v = n * (1 + r - q) + (a - b)
  BY <1>1, <1>2, <1>3
<1> DEFINE x == u + n - v
           y == 1 + r - q
           d == a - b
<1>6. x \in Int /\ y \in Int /\ d \in 0 .. n-1 /\ x = n * y + d
  BY <1>1, <1>2, <1>4
<1> HIDE DEF x, y, d
<1>7. x % n = d
  BY <1>6, ModUnique
<1>5. (u + n - v) % n = a - b
  BY <1>7 DEF x, d
<1> QED
  BY <1>5 DEF u, v

\* Wrapping at a multiple of k first does not change the slot.
LEMMA ModOfMod ==
  ASSUME NEW a \in Int, NEW n \in Nat \ {0}, NEW k \in Nat \ {0}, n % k = 0
  PROVE  (a % n) % k = a % k
<1> DEFINE q == a \div n
           c == n \div k
           w == n * q
<1>1. a = w + (a % n) /\ q \in Int /\ a % n \in Int
  BY ModDiv, ModRange
<1>2. n = k * c /\ c \in Int
  BY ModDiv
<1> HIDE DEF c, q
<1>3. w = k * (c * q) /\ w \in Int /\ c * q \in Int
  BY <1>1, <1>2
<1>4. w % k = 0
  BY <1>3, ModMultiple
<1> HIDE DEF w
<1>5. a % n = a - w
  BY <1>1, <1>3
<1>6. (a - w) % k = a % k
  BY <1>3, <1>4, ModWrap
<1> QED
  BY <1>5, <1>6, Zenon

\* The quotient is the only one.
LEMMA DivUnique ==
  ASSUME NEW a \in Int, NEW n \in Nat \ {0}, NEW q \in Int, NEW m \in 0 .. n-1,
         a = n * q + m
  PROVE  a \div n = q
<1> DEFINE d == a \div n
           e == a % n
<1>1. a = n * d + e /\ d \in Int
  BY ModDiv
<1>2. e = m
  BY ModUnique
<1> HIDE DEF d, e
<1>3. n * d = n * q
  BY <1>1, <1>2
<1>4. CASE d < q
  <2>1. n * q = n * d + n * (q - d)
    BY <1>1
  <2>2. n * (q - d) > 0
    BY <1>1, <1>4
  <2> QED
    BY <2>1, <2>2, <1>3, <1>1
<1>5. CASE d > q
  <2>1. n * d = n * q + n * (d - q)
    BY <1>1
  <2>2. n * (d - q) > 0
    BY <1>1, <1>5
  <2> QED
    BY <2>1, <2>2, <1>3, <1>1
<1> QED
  BY <1>1, <1>4, <1>5 DEF d

\* Quotient and remainder together.
LEMMA DivMod ==
  ASSUME NEW a \in Int, NEW n \in Nat \ {0}
  PROVE  a = n * (a \div n) + (a % n) /\ a \div n \in Int /\ a % n \in 0 .. n-1
  BY ModDiv, ModRange
=============================================================================

---------------------------- MODULE NumbersProofs ----------------------------
(***************************************************************************)
(* Proofs about arithmetic and numeric loops, for integers of any width and  *)
(* floats with a mantissa of any length below it: also for 64 and 53.        *)
(***************************************************************************)
EXTENDS NumbersProps, Loops, FiniteSetTheorems, WellFoundedInduction, TLAPS

USE NumbersAssumption

-----------------------------------------------------------------------------
(* Induction, for sets of numbers. *)

LEMMA LeastOf ==
    ASSUME NEW S \in SUBSET Nat, S # {}
    PROVE  \E x \in S : \A y \in S : x <= y
<1> DEFINE R == OpToRel(<, Nat)
<1>1. IsWellFoundedOn(R, Nat)
  BY NatLessThanWellFounded
<1>2. \A y, x \in Nat : <<y, x>> \in R <=> y < x
  BY DEF OpToRel
<1> HIDE DEF R
<1>3. PICK x \in S : \A y \in S : ~(<<y, x>> \in R)
  BY <1>1, WFMin
<1>4. ASSUME NEW y \in S PROVE x <= y
  <2>1. x \in Nat /\ y \in Nat
    OBVIOUS
  <2>2. ~(y < x)
    BY <1>2, <1>3, <2>1, Zenon
  <2> QED
    BY <2>1, <2>2
<1> QED
  BY <1>4

(* What holds of 0 and, below N, of n + 1 when it holds of n.                *)
LEMMA UpTo ==
    ASSUME NEW N \in Nat, NEW S, 0 \in S,
           \A n \in 0 .. N - 1 : n \in S => n + 1 \in S
    PROVE  0 .. N \subseteq S
<1> DEFINE Bad == {n \in 0 .. N : n \notin S}
<1> SUFFICES ASSUME Bad # {} PROVE FALSE
  OBVIOUS
<1>0. Bad \in SUBSET Nat
  OBVIOUS
<1>1. PICK m \in Bad : \A y \in Bad : m <= y
  <2> HIDE DEF Bad
  <2> QED
    BY <1>0, LeastOf
<1>2. m \in Nat /\ m \in 0 .. N /\ m \notin S /\ m # 0
  BY <1>1
<1>3. m - 1 \in 0 .. N - 1 /\ ~(m <= m - 1) /\ m - 1 + 1 = m /\ m - 1 \in 0 .. N
  BY <1>2
<1>4. m - 1 \in S
  BY <1>1, <1>3
<1> QED
  BY <1>2, <1>3, <1>4

(* A function defined by recursion from 0 to N exists. *)
Solution(N, X, x0, step, f) ==
    /\ f \in [0 .. N -> X]
    /\ f[0] = x0
    /\ \A n \in 1 .. N : f[n] = step[n][f[n - 1]]

LEMMA RecursionSolved ==
    ASSUME NEW N \in Nat, NEW X, NEW x0 \in X, NEW step \in [1 .. N -> [X -> X]]
    PROVE  \E f : Solution(N, X, x0, step, f)
<1> DEFINE Solves(n, f) == /\ f \in [0 .. n -> X] /\ f[0] = x0
                           /\ \A k \in 1 .. n : f[k] = step[k][f[k - 1]]
           S == {n \in 0 .. N : \E f : Solves(n, f)}
<1>1. 0 \in S
  <2> DEFINE f == [k \in 0 .. 0 |-> x0]
  <2>1. f \in [0 .. 0 -> X] /\ f[0] = x0
    OBVIOUS
  <2>2. \A k \in 1 .. 0 : f[k] = step[k][f[k - 1]]
    OBVIOUS
  <2>3. 0 \in 0 .. N /\ Solves(0, f)
    BY <2>1, <2>2
  <2> QED
    BY <2>3
<1>2. ASSUME NEW n \in 0 .. N - 1, n \in S PROVE n + 1 \in S
  <2>1. PICK f : Solves(n, f)
    BY <1>2
  <2> DEFINE g == [k \in 0 .. n + 1 |-> IF k = n + 1 THEN step[n + 1][f[n]] ELSE f[k]]
  <2>2. n \in Nat /\ n + 1 \in 1 .. N /\ n + 1 \in 0 .. N /\ n \in 0 .. n
    OBVIOUS
  <2>3. step[n + 1][f[n]] \in X
    BY <2>1, <2>2
  <2>4. g \in [0 .. n + 1 -> X] /\ g[0] = x0
    BY <2>1, <2>2, <2>3
  <2>5. ASSUME NEW k \in 1 .. n + 1 PROVE g[k] = step[k][g[k - 1]]
    <3>1. k - 1 \in 0 .. n /\ g[k - 1] = f[k - 1]
      BY <2>2
    <3>2. CASE k = n + 1
      BY <2>2, <3>1, <3>2
    <3>3. CASE k # n + 1
      <4>1. k \in 1 .. n
        BY <2>2, <3>3
      <4> QED
        BY <2>1, <3>1, <3>3, <4>1
    <3> QED
      BY <3>2, <3>3
  <2>6. Solves(n + 1, g)
    BY <2>4, <2>5
  <2> QED
    BY <2>2, <2>6
<1>3. 0 .. N \subseteq S
  BY <1>1, <1>2, UpTo
<1> HIDE DEF Solves
<1>4. N \in S
  BY <1>3
<1>5. PICK f : Solves(N, f)
  BY <1>4
<1> QED
  BY <1>5 DEF Solves, Solution

-----------------------------------------------------------------------------
(* Powers of two.  All the provers know of them is the size of a set of sets. *)

LEMMA IntervalSize ==
    ASSUME NEW n \in Nat
    PROVE  IsFiniteSet(1 .. n) /\ Cardinality(1 .. n) = n
<1>1. 1 \in Int /\ n \in Int
  OBVIOUS
<1>2. IsFiniteSet(1 .. n) /\ Cardinality(1 .. n) = IF 1 > n THEN 0 ELSE n - 1 + 1
  BY <1>1, FS_Interval
<1> DEFINE C == Cardinality(1 .. n)
<1>3. C = IF 1 > n THEN 0 ELSE n - 1 + 1
  BY <1>2
<1> HIDE DEF C
<1>4. C = n
  BY <1>3
<1> QED
  BY <1>2, <1>4 DEF C

LEMMA SubsetsOf ==
    ASSUME NEW n \in Nat
    PROVE  IsFiniteSet(SUBSET (1 .. n)) /\ Cardinality(SUBSET (1 .. n)) = 2^n
<1>1. IsFiniteSet(1 .. n) /\ Cardinality(1 .. n) = n
  BY IntervalSize
<1> QED
  BY <1>1, FS_SUBSET

LEMMA Doubled ==
    ASSUME NEW n \in Nat
    PROVE  2^n \in Nat /\ 2^(n + 1) = 2 * 2^n
<1> DEFINE P == SUBSET (1 .. n)
           With(A) == A \cup {n + 1}
           Q == {With(A) : A \in P}
           f == [A \in P |-> With(A)]
<1>1. IsFiniteSet(P) /\ Cardinality(P) = 2^n /\ Cardinality(P) \in Nat
  BY SubsetsOf, FS_CardinalityType
<1>2. f \in Bijection(P, Q)
  <2>1. n + 1 \notin 1 .. n
    OBVIOUS
  <2>2. ASSUME NEW A \in P, NEW B \in P, With(A) = With(B) PROVE A = B
    BY <2>1, <2>2
  <2>3. f \in [P -> Q] /\ \A A, B \in P : f[A] = f[B] => A = B
    <3> HIDE DEF P, With
    <3> QED
      BY <2>2
  <2>4. \A B \in Q : \E A \in P : f[A] = B
    OBVIOUS
  <2> HIDE DEF P, Q, f
  <2> QED
    BY <2>3, <2>4 DEF Bijection, Injection, Surjection, IsInjective
<1>3. IsFiniteSet(Q) /\ Cardinality(Q) = Cardinality(P)
  <2> HIDE DEF P, Q, f
  <2>1. ExistsBijection(P, Q)
    BY <1>2 DEF ExistsBijection
  <2> QED
    BY <1>1, <2>1, FS_Bijection, FS_SameCardinalityBij
<1>4. P \cap Q = {}
  OBVIOUS
<1>5. SUBSET (1 .. n + 1) = P \cup Q
  <2>1. ASSUME NEW S \in SUBSET (1 .. n + 1) PROVE S \in P \cup Q
    <3>1. CASE n + 1 \in S
      <4>1. S = With(S \ {n + 1}) /\ S \ {n + 1} \in P
        BY <3>1
      <4> QED
        BY <4>1
    <3>2. CASE n + 1 \notin S
      BY <3>2
    <3> QED
      BY <3>1, <3>2
  <2>2. \A S \in P \cup Q : S \in SUBSET (1 .. n + 1)
    OBVIOUS
  <2> QED
    BY <2>1, <2>2
<1> HIDE DEF P, Q, f
<1>6. Cardinality(P \cup Q) = Cardinality(P) + Cardinality(Q) - Cardinality({})
  BY <1>1, <1>3, <1>4, FS_Union
<1>7. Cardinality({}) = 0
  BY FS_EmptySet
<1>8. Cardinality(P \cup Q) = 2^(n + 1)
  <2>1. n + 1 \in Nat
    OBVIOUS
  <2> QED
    BY <1>5, <2>1, SubsetsOf
<1> DEFINE a == Cardinality(P)
           b == 2^(n + 1)
           c == 2^n
<1>9. a \in Nat /\ b = a + a - 0 /\ a = c
  BY <1>1, <1>3, <1>6, <1>7, <1>8
<1> HIDE DEF a, b, c
<1>10. c \in Nat /\ b = 2 * c
  BY <1>9
<1> QED
  BY <1>10 DEF b, c

LEMMA PowerPositive ==
    ASSUME NEW n \in Nat
    PROVE  2^n \in Nat /\ n < 2^n
<1> DEFINE S == {m \in 0 .. n : 2^m \in Nat /\ m < 2^m}
<1>1. 0 \in S
  BY Doubled
<1>2. ASSUME NEW m \in 0 .. n - 1, m \in S PROVE m + 1 \in S
  <2> DEFINE x == 2^m
             y == 2^(m + 1)
  <2>1. x \in Nat /\ y = 2 * x /\ m < x
    BY <1>2, Doubled
  <2> HIDE DEF x, y
  <2>2. y \in Nat /\ m + 1 < y
    BY <2>1
  <2> QED
    BY <2>2 DEF y
<1> HIDE DEF S
<1>3. 0 .. n \subseteq S
  BY <1>1, <1>2, UpTo
<1>4. n \in S
  BY <1>3
<1> QED
  BY <1>4 DEF S

LEMMA PowerSum ==
    ASSUME NEW m \in Nat, NEW n \in Nat
    PROVE  2^(m + n) = 2^m * 2^n
<1> DEFINE S == {k \in 0 .. n : 2^(m + k) = 2^m * 2^k}
<1>1. 0 \in S
  <2> DEFINE x == 2^m
  <2>1. x \in Nat /\ 2^0 = 1 /\ m + 0 = m
    BY Doubled
  <2> HIDE DEF x
  <2>2. x = x * 1
    BY <2>1
  <2> QED
    BY <2>1, <2>2 DEF x
<1>2. ASSUME NEW k \in 0 .. n - 1, k \in S PROVE k + 1 \in S
  <2> DEFINE x == 2^m
             y == 2^k
             z == 2^(m + k)
             y1 == 2^(k + 1)
             z1 == 2^((m + k) + 1)
  <2>1. x \in Nat /\ y \in Nat /\ y1 = 2 * y /\ z \in Nat /\ z1 = 2 * z /\ z = x * y
    <3>1. m + k \in Nat /\ k \in Nat
      OBVIOUS
    <3> QED
      BY <1>2, <3>1, Doubled
  <2>2. (m + k) + 1 = m + (k + 1) /\ k + 1 \in 0 .. n
    OBVIOUS
  <2>3. 2^(m + (k + 1)) = z1
    BY <2>2
  <2> HIDE DEF x, y, z, y1, z1
  <2>4. z1 = x * y1
    BY <2>1
  <2> QED
    BY <2>2, <2>3, <2>4 DEF x, y1
<1> HIDE DEF S
<1>3. 0 .. n \subseteq S
  BY <1>1, <1>2, UpTo
<1>4. n \in S
  BY <1>3
<1> QED
  BY <1>4 DEF S

LEMMA PowerGrows ==
    ASSUME NEW m \in Nat, NEW n \in Nat, m <= n
    PROVE  2^m <= 2^n /\ (m < n => 2 * 2^m <= 2^n)
<1> DEFINE x == 2^m
           y == 2^n
           d == 2^(n - m)
<1>1. n - m \in Nat /\ m + (n - m) = n
  OBVIOUS
<1>2. x \in Nat /\ y \in Nat /\ d \in Nat /\ n - m < d /\ y = x * d
  BY <1>1, PowerPositive, PowerSum
<1> HIDE DEF x, y, d
<1>3. d >= 1 /\ (m < n => d >= 2)
  BY <1>2
<1>4. x <= y /\ (m < n => 2 * x <= y)
  BY <1>2, <1>3
<1> QED
  BY <1>4 DEF x, y

-----------------------------------------------------------------------------
(* Division of integers, and the width of the integers. *)

LEMMA Divided ==
    ASSUME NEW a \in Int, NEW b \in Int, b > 0
    PROVE  /\ a \div b \in Int /\ a % b \in Int
           /\ a = (b * (a \div b)) + (a % b) /\ 0 <= a % b /\ a % b < b
OBVIOUS

LEMMA DividedOnce ==
    ASSUME NEW a \in Int, NEW b \in Int, NEW q \in Int, NEW r \in Int,
           b > 0, a = (b * q) + r, 0 <= r, r < b
    PROVE  a \div b = q /\ a % b = r
<1> DEFINE p == a \div b
           s == a % b
<1>1. p \in Int /\ s \in Int /\ a = (b * p) + s /\ 0 <= s /\ s < b
  BY Divided
<1> HIDE DEF p, s
<1>2. b * (q - p) = s - r /\ s - r < b /\ s - r > -b
  BY <1>1
<1>3. q - p = 0
  <2>1. CASE q - p >= 1
    <3>1. b * (q - p) >= b
      BY <2>1, <1>1
    <3> QED
      BY <1>1, <1>2, <3>1
  <2>2. CASE q - p <= -1
    <3>1. b * (q - p) <= -b
      BY <2>2, <1>1
    <3> QED
      BY <1>1, <1>2, <3>1
  <2> QED
    BY <1>1, <2>1, <2>2
<1>4. p = q /\ s = r
  BY <1>1, <1>3
<1> QED
  BY <1>4 DEF p, s

LEMMA MultiplesVanish ==
    ASSUME NEW a \in Int, NEW b \in Int, NEW k \in Int, b > 0
    PROVE  (a + (b * k)) % b = a % b
<1> DEFINE p == a \div b
           s == a % b
<1>1. p \in Int /\ s \in Int /\ a = (b * p) + s /\ 0 <= s /\ s < b
  BY Divided
<1> HIDE DEF p, s
<1>2. a + (b * k) = (b * (p + k)) + s /\ a + (b * k) \in Int /\ p + k \in Int
  BY <1>1
<1>3. (a + (b * k)) % b = s
  BY <1>1, <1>2, DividedOnce
<1> QED
  BY <1>3 DEF s

(* The number of integers that are not negative. *)
Half == 2^(Bits - 1)

LEMMA Widths ==
    /\ Half \in Nat /\ Half >= 4 /\ Bits <= Half /\ 2^Bits = 2 * Half
    /\ MaxInt = Half - 1 /\ MinInt = -Half /\ Ints = -Half .. Half - 1
    /\ MaxFloat = 8 * Half /\ PInf = 32 * Half /\ NInf = -(32 * Half)
<1>1. /\ Bits - 1 \in Nat /\ Bits \in Nat /\ Bits - 1 >= 2 /\ (Bits - 1) + 1 = Bits
      /\ Bits + 2 = (Bits - 1) + 3 /\ Bits + 4 = (Bits - 1) + 5
  OBVIOUS
<1> DEFINE h == 2^(Bits - 1)
           b == 2^Bits
<1>2. h \in Nat /\ Bits - 1 < h /\ b = 2 * h
  BY <1>1, Doubled, PowerPositive
<1>3. 2^2 = 4 /\ 2^3 = 8 /\ 2^5 = 32
  BY SMT
<1>4. h >= 4
  <2>1. 2^2 <= h
    BY <1>1, PowerGrows
  <2> HIDE DEF h
  <2> QED
    BY <1>2, <1>3, <2>1
<1>5. 2^(Bits + 2) = h * 8 /\ 2^(Bits + 4) = h * 32
  <2> DEFINE n == Bits - 1
  <2>1. n \in Nat /\ Bits + 2 = n + 3 /\ Bits + 4 = n + 5 /\ h = 2^n
    BY <1>1
  <2> HIDE DEF h, n
  <2>2. 2^(n + 3) = 2^n * 2^3 /\ 2^(n + 5) = 2^n * 2^5
    <3>1. 3 \in Nat /\ 5 \in Nat
      OBVIOUS
    <3> QED
      BY <2>1, <3>1, PowerSum
  <2> QED
    BY <1>3, <2>1, <2>2
<1> HIDE DEF h, b
<1>6. /\ h \in Nat /\ h >= 4 /\ Bits <= h /\ b = 2 * h
      /\ h * 8 = 8 * h /\ h * 32 = 32 * h
  BY <1>2, <1>4
<1> QED
  BY <1>5, <1>6 DEF h, b, Half, MaxInt, MinInt, Ints, MaxFloat, PInf, NInf

LEMMA WrapIs ==
    ASSUME NEW n \in Int
    PROVE  /\ Wrap(n) \in Ints /\ (n \in Ints => Wrap(n) = n)
           /\ Unsigned(Wrap(n)) = Unsigned(n)
<1> DEFINE w == 2 * Half
           m == n + Half
<1>0. w \in Int /\ w > 0 /\ m \in Int /\ Half \in Int
  BY Widths
<1>1. Wrap(n) = (m % w) - Half
  BY Widths DEF Wrap, m, w
<1>2. m % w \in Int /\ 0 <= m % w /\ m % w < w /\ m \div w \in Int
      /\ m = (w * (m \div w)) + (m % w)
  BY <1>0, Divided
<1> DEFINE r == m % w
           q == m \div w
<1>3. r \in Int /\ q \in Int /\ 0 <= r /\ r < w /\ m = (w * q) + r /\ Wrap(n) = r - Half
  BY <1>1, <1>2
<1>4. ASSUME n \in Ints PROVE Wrap(n) = n
  <2>1. m = (w * 0) + m /\ 0 <= m /\ m < w
    BY <1>0, <1>4, Widths
  <2>2. m % w = m
    <3> HIDE DEF m, w
    <3> QED
      BY <1>0, <2>1, DividedOnce
  <2> QED
    BY <1>0, <1>1, <2>2
<1>5. Wrap(n) \in Ints
  <2> HIDE DEF r
  <2> QED
    BY <1>3, Widths
<1>6. Unsigned(Wrap(n)) = Unsigned(n)
  <2> HIDE DEF r, q
  <2>1. n = (r - Half) + (w * q) /\ r - Half \in Int
    BY <1>0, <1>3
  <2> HIDE DEF w, m
  <2>2. ((r - Half) + (w * q)) % w = (r - Half) % w
    BY <1>0, <1>3, <2>1, MultiplesVanish
  <2> QED
    BY <1>3, <2>1, <2>2, Widths DEF Unsigned, w
<1> QED
  BY <1>4, <1>5, <1>6

-----------------------------------------------------------------------------
(* Integer division. *)

LEMMA AbsIs ==
    ASSUME NEW n \in Int
    PROVE  Abs(n) \in Nat /\ (n >= 0 => Abs(n) = n) /\ (n <= 0 => Abs(n) = -n)
BY DEF Abs

LEMMA Truncated ==
    ASSUME NEW a \in Int, NEW b \in Int, b # 0
    PROVE  \E d, m \in Nat :
              /\ Abs(a) = (Abs(b) * d) + m /\ m < Abs(b)
              /\ CDiv(a, b) = IF (a < 0) = (b < 0) THEN d ELSE -d
              /\ CMod(a, b) = IF a < 0 THEN -m ELSE m
<1> DEFINE x == Abs(a)
           y == Abs(b)
           d == x \div y
           m == x % y
<1>1. x \in Nat /\ y \in Nat /\ y > 0
  BY DEF Abs
<1>2. d \in Int /\ m \in Int /\ x = (y * d) + m /\ 0 <= m /\ m < y
  <2> HIDE DEF x, y
  <2> QED
    BY <1>1, Divided
<1>3. CDiv(a, b) = IF (a < 0) = (b < 0) THEN d ELSE -d
  BY DEF CDiv
<1>4. /\ x = IF a < 0 THEN -a ELSE a
      /\ y = IF b < 0 THEN -b ELSE b
  BY DEF Abs
<1> DEFINE c == CDiv(a, b)
<1>5. CMod(a, b) = a - c * b
  BY DEF CMod
<1> HIDE DEF x, y, d, m, c
<1>6. d >= 0
  <2>1. ASSUME d <= -1 PROVE FALSE
    <3>1. y * d <= -y
      BY <1>1, <1>2, <2>1
    <3> QED
      BY <1>1, <1>2, <3>1
  <2> QED
    BY <1>2, <2>1
<1>7. CMod(a, b) = IF a < 0 THEN -m ELSE m
  <2>1. CASE a < 0 /\ b < 0
    <3>1. c = d /\ a = -x /\ b = -y
      BY <1>1, <1>2, <1>3, <1>4, <2>1 DEF c
    <3>2. a - c * b = -m
      BY <1>1, <1>2, <3>1
    <3> QED
      BY <1>5, <2>1, <3>2
  <2>2. CASE a < 0 /\ ~(b < 0)
    <3>1. c = -d /\ a = -x /\ b = y
      BY <1>1, <1>2, <1>3, <1>4, <2>2 DEF c
    <3>2. a - c * b = -m
      BY <1>1, <1>2, <3>1
    <3> QED
      BY <1>5, <2>2, <3>2
  <2>3. CASE ~(a < 0) /\ b < 0
    <3>1. c = -d /\ a = x /\ b = -y
      BY <1>1, <1>2, <1>3, <1>4, <2>3 DEF c
    <3>2. a - c * b = m
      BY <1>1, <1>2, <3>1
    <3> QED
      BY <1>5, <2>3, <3>2
  <2>4. CASE ~(a < 0) /\ ~(b < 0)
    <3>1. c = d /\ a = x /\ b = y
      BY <1>1, <1>2, <1>3, <1>4, <2>4 DEF c
    <3>2. a - c * b = m
      BY <1>1, <1>2, <3>1
    <3> QED
      BY <1>5, <2>4, <3>2
  <2> QED
    BY <2>1, <2>2, <2>3, <2>4
<1>8. d \in Nat /\ m \in Nat
  BY <1>2, <1>6
<1> QED
  BY <1>2, <1>3, <1>7, <1>8 DEF x, y

(* A quotient rounded towards 0 that is not a multiple is at most half of    *)
(* what the integers allow, so that it can be lowered by one.               *)
LEMMA FloorDivision ==
    ASSUME NEW a \in Ints, NEW b \in Ints, b # 0, b # -1
    PROVE  /\ FloorDiv(a, b) \in Ints /\ FloorMod(a, b) \in Ints
           /\ (FloorDiv(a, b) * b) + FloorMod(a, b) = a
           /\ IF b > 0 THEN 0 <= FloorMod(a, b) /\ FloorMod(a, b) < b
              ELSE b < FloorMod(a, b) /\ FloorMod(a, b) <= 0
<1>0. /\ a \in Int /\ b \in Int /\ Half \in Nat /\ Half >= 4
      /\ -Half <= a /\ a < Half /\ -Half <= b /\ b < Half
  BY Widths
<1>1. PICK d \in Nat, m \in Nat :
              /\ Abs(a) = (Abs(b) * d) + m /\ m < Abs(b)
              /\ CDiv(a, b) = IF (a < 0) = (b < 0) THEN d ELSE -d
              /\ CMod(a, b) = IF a < 0 THEN -m ELSE m
  BY <1>0, Truncated
<1> DEFINE x == Abs(a)
           y == Abs(b)
           opposite == (a < 0) # (b < 0)
           q == FloorDiv(a, b)
           r == FloorMod(a, b)
<1>2. /\ x = (IF a < 0 THEN -a ELSE a) /\ y = (IF b < 0 THEN -b ELSE b)
      /\ x = (y * d) + m /\ m < y
  BY <1>1 DEF Abs
<1>3. q = IF opposite THEN IF m # 0 THEN -d - 1 ELSE -d ELSE d
  BY <1>1 DEF FloorDiv
<1>4. r = IF m = 0 THEN 0
          ELSE IF a < 0 THEN IF b < 0 THEN -m ELSE b - m
          ELSE IF b < 0 THEN m + b ELSE m
  BY <1>0, <1>1 DEF FloorMod
<1>5. d <= Half /\ (m # 0 => d + 1 <= Half) /\ (d = Half => a = -Half /\ b = 1)
  <2>1. CASE y = 1
    <3>1. m = 0 /\ x = d
      BY <1>0, <1>2, <2>1
    <3>2. b = 1
      BY <1>0, <1>2, <2>1
    <3> QED
      BY <1>0, <1>2, <3>1, <3>2
  <2>2. CASE y # 1
    <3>1. y >= 2 /\ y \in Nat
      BY <1>0, <1>2, <2>2
    <3> HIDE DEF y, x
    <3>2. y * d >= 2 * d
      BY <3>1
    <3>3. x <= Half /\ x \in Nat
      <4>1. x = IF a < 0 THEN -a ELSE a
        BY <1>2
      <4> QED
        BY <1>0, <4>1
    <3>4. 2 * d <= Half
      BY <1>0, <1>2, <3>1, <3>2, <3>3
    <3> QED
      BY <1>0, <3>4
  <2> QED
    BY <2>1, <2>2
<1> HIDE DEF x, y, q, r
<1>6. q \in Ints
  <2>1. q \in Int /\ -Half <= q /\ q <= Half
    BY <1>0, <1>3, <1>5
  <2>2. q # Half
    <3>1. CASE opposite
      BY <1>0, <1>3, <3>1
    <3>2. CASE ~opposite
      BY <1>0, <1>3, <1>5, <3>2
    <3> QED
      BY <3>1, <3>2
  <2> QED
    BY <1>0, <2>1, <2>2, Widths
<1>7. /\ r \in Int
      /\ IF b > 0 THEN 0 <= r /\ r < b ELSE b < r /\ r <= 0
  BY <1>0, <1>2, <1>4
<1>8. (q * b) + r = a
  <2>1. CASE a < 0 /\ b < 0
    <3>1. q = d /\ a = -x /\ b = -y /\ r = -m
      BY <1>0, <1>2, <1>3, <1>4, <2>1
    <3> QED
      BY <1>0, <1>2, <3>1
  <2>2. CASE a < 0 /\ ~(b < 0)
    <3>1. a = -x /\ b = y /\ IF m # 0 THEN q = -d - 1 /\ r = b - m ELSE q = -d /\ r = 0
      BY <1>0, <1>2, <1>3, <1>4, <2>2
    <3>2. CASE m # 0
      <4>1. (-d - 1) * b = -(b * d) - b
        BY <1>0
      <4> QED
        BY <1>0, <1>2, <3>1, <3>2, <4>1
    <3>3. CASE m = 0
      BY <1>0, <1>2, <3>1, <3>3
    <3> QED
      BY <3>2, <3>3
  <2>3. CASE ~(a < 0) /\ b < 0
    <3>1. a = x /\ b = -y /\ IF m # 0 THEN q = -d - 1 /\ r = m + b ELSE q = -d /\ r = 0
      BY <1>0, <1>2, <1>3, <1>4, <2>3
    <3>2. CASE m # 0
      <4>1. (-d - 1) * b = (y * d) - b
        BY <1>0, <1>2, <3>1
      <4> QED
        BY <1>0, <1>2, <3>1, <3>2, <4>1
    <3>3. CASE m = 0
      BY <1>0, <1>2, <3>1, <3>3
    <3> QED
      BY <3>2, <3>3
  <2>4. CASE ~(a < 0) /\ ~(b < 0)
    <3>1. q = d /\ a = x /\ b = y /\ r = m
      BY <1>0, <1>2, <1>3, <1>4, <2>4
    <3> QED
      BY <1>0, <1>2, <3>1
  <2> QED
    BY <2>1, <2>2, <2>3, <2>4
<1>9. r \in Ints
  BY <1>0, <1>7, Widths
<1> QED
  BY <1>6, <1>7, <1>8, <1>9 DEF q, r

LEMMA Remainder ==
    ASSUME NEW a \in Ints, NEW b \in Ints, b # 0, b # -1
    PROVE  /\ Fmod(a, b) \in Ints /\ Abs(Fmod(a, b)) < Abs(b)
           /\ Fmod(a, b) # 0 => (Fmod(a, b) < 0) = (a < 0)
           /\ (a - Fmod(a, b)) % Abs(b) = 0
<1>0. a \in Int /\ b \in Int /\ -Half <= a /\ a < Half /\ Half \in Nat
  BY Widths
<1>1. PICK d \in Nat, m \in Nat :
              /\ Abs(a) = (Abs(b) * d) + m /\ m < Abs(b)
              /\ CDiv(a, b) = IF (a < 0) = (b < 0) THEN d ELSE -d
              /\ CMod(a, b) = IF a < 0 THEN -m ELSE m
  BY <1>0, Truncated
<1> DEFINE x == Abs(a)
           y == Abs(b)
           t == Fmod(a, b)
<1>2. /\ x = (IF a < 0 THEN -a ELSE a) /\ x = (y * d) + m /\ m < y /\ y \in Nat /\ x \in Nat
  BY <1>0, <1>1 DEF Abs
<1>3. t = IF a < 0 THEN -m ELSE m
  BY <1>1 DEF Fmod
<1>4. Abs(t) = m /\ t \in Int
  BY <1>3 DEF Abs
<1> HIDE DEF x, y, t
<1>5. m <= x
  <2>1. y * d >= 0 /\ y * d \in Int
    BY <1>2
  <2> QED
    BY <1>2, <2>1
<1>6. t \in Ints
  BY <1>0, <1>2, <1>3, <1>5, Widths
<1>7. t # 0 => (t < 0) = (a < 0)
  BY <1>0, <1>3
<1>8. (a - t) % y = 0
  <2> DEFINE k == IF a < 0 THEN -d ELSE d
  <2>1. k \in Int /\ a - t = (y * k) + 0 /\ a - t \in Int
    <3>1. CASE a < 0
      BY <1>0, <1>2, <1>3, <3>1
    <3>2. CASE ~(a < 0)
      BY <1>0, <1>2, <1>3, <3>2
    <3> QED
      BY <3>1, <3>2
  <2> HIDE DEF k
  <2> DEFINE zero == 0
  <2>2. zero \in Int /\ y \in Int /\ y > 0 /\ 0 <= zero /\ zero < y /\ a - t = (y * k) + zero
    BY <1>2, <2>1
  <2>3. zero = 0
    OBVIOUS
  <2> HIDE DEF zero
  <2>4. (a - t) % y = zero
    BY <2>1, <2>2, DividedOnce
  <2> QED
    BY <2>3, <2>4
<1> QED
  BY <1>1, <1>4, <1>6, <1>7, <1>8 DEF t, y

LEMMA WrapHalf == Wrap(Half) = -Half
<1>0. Half \in Nat /\ Half >= 4
  BY Widths
<1> DEFINE zero == 0
<1>1. zero \in Int /\ 0 <= zero /\ zero < 2 * Half /\ Half + Half = ((2 * Half) * 1) + zero
  BY <1>0
<1>2. zero = 0
  OBVIOUS
<1> HIDE DEF zero
<1>3. (Half + Half) % (2 * Half) = zero
  <2>1. Half + Half \in Int /\ 2 * Half \in Int /\ 2 * Half > 0 /\ 1 \in Int
    BY <1>0
  <2> QED
    BY <1>1, <2>1, DividedOnce
<1> QED
  BY <1>0, <1>2, <1>3, Widths DEF Wrap

(* Division by -1 is done apart: its quotient is the one that can overflow.  *)
LEMMA ByMinusOne ==
    ASSUME NEW a \in Ints
    PROVE  /\ FloorDiv(a, -1) \in Ints /\ FloorMod(a, -1) = 0 /\ Fmod(a, -1) = 0
           /\ IF a = MinInt THEN FloorDiv(a, -1) = MinInt
              ELSE (FloorDiv(a, -1) * (-1)) + 0 = a
<1>0. a \in Int /\ -Half <= a /\ a < Half /\ Half \in Nat /\ Half >= 4 /\ -Half \in Ints
  BY Widths
<1>1. FloorMod(a, -1) = 0 /\ Fmod(a, -1) = 0
  BY DEF FloorMod, Fmod
<1> DEFINE q == FloorDiv(a, -1)
<1>2. CASE a = -Half
  <2>1. a = MinInt /\ q = MinInt /\ q \in Ints
    BY <1>0, <1>2, Widths DEF FloorDiv
  <2> QED
    BY <1>1, <2>1
<1>3. CASE a # -Half
  <2>1. q = -a /\ a # MinInt
    BY <1>3, Widths DEF FloorDiv
  <2>2. ((-a) * (-1)) + 0 = a /\ -a \in Ints
    BY <1>0, <1>3, Widths
  <2> HIDE DEF q
  <2>3. q \in Ints /\ (q * (-1)) + 0 = a
    BY <2>1, <2>2
  <2> QED
    BY <1>1, <2>1, <2>3 DEF q
<1> QED
  BY <1>2, <1>3

-----------------------------------------------------------------------------
(* What can be asked. *)

Questions == IntQuestions \cup NumberQuestions \cup LoopQuestions \cup DigitQuestions

LEMMA AskedHolds == NumbersSpec => [](asked = Nobody \/ asked \in Questions)
<1>1. Quiet => asked = Nobody \/ asked \in Questions
  BY DEF Quiet
<1>2. (asked = Nobody \/ asked \in Questions) /\ [NumbersNext]_asked
      => (asked = Nobody \/ asked \in Questions)'
  BY DEF NumbersNext, Ask, Questions
<1> QED
  BY <1>1, <1>2, PTL DEF NumbersSpec

LEMMA AskedKinds ==
    ASSUME asked = Nobody \/ asked \in Questions
    PROVE  /\ Of("ints") => asked \in IntQuestions
           /\ Of("numbers") => asked \in NumberQuestions
           /\ Of("loop") => asked \in LoopQuestions
           /\ Of("digits") => asked \in DigitQuestions
BY DEF Questions, IntQuestions, NumberQuestions, LoopQuestions, DigitQuestions, Of

(* Integer division and remainder of any two integers of any width, the least *)
(* divided by -1 included (int_floor_div, int_floor_mod, math.fmod).          *)
THEOREM DivisionIsExact == NumbersSpec => []DivisionExact
<1>1. ASSUME asked = Nobody \/ asked \in Questions PROVE DivisionExact
  <2> SUFFICES ASSUME Of("ints"), asked.b # 0 PROVE DivisionExact
    BY DEF DivisionExact
  <2> DEFINE a == asked.a
             b == asked.b
             q == FloorDiv(a, b)
             r == FloorMod(a, b)
             t == Fmod(a, b)
  <2>1. a \in Ints /\ b \in Ints /\ a \in Int /\ b \in Int /\ b # 0 /\ 0 \in Ints
    BY <1>1, AskedKinds, Widths DEF IntQuestions
  <2> HIDE DEF a, b
  <2> SUFFICES
        /\ {q, r, t} \subseteq Ints
        /\ IF a = MinInt /\ b = -1 THEN q = MinInt /\ r = 0 ELSE (q * b) + r = a
        /\ IF b > 0 THEN 0 <= r /\ r < b ELSE b < r /\ r <= 0
        /\ Abs(t) < Abs(b) /\ (t # 0 => (t < 0) = (a < 0)) /\ (a - t) % Abs(b) = 0
    BY DEF DivisionExact, a, b
  <2>2. CASE b = -1
    <3>1. /\ q \in Ints /\ r = 0 /\ t = 0
          /\ IF a = MinInt THEN q = MinInt ELSE (q * b) + r = a
      BY <2>1, <2>2, ByMinusOne
    <3> HIDE DEF q, r, t
    <3>2. Abs(t) = 0 /\ Abs(b) = 1
      <4>1. 0 \in Int /\ Abs(b) = -b
        BY <2>1, <2>2, AbsIs
      <4>2. Abs(0) = 0
        BY <4>1, AbsIs
      <4> QED
        BY <2>2, <3>1, <4>1, <4>2
    <3>3. (a - t) % Abs(b) = 0
      BY <2>1, <3>1, <3>2
    <3> QED
      BY <2>1, <2>2, <3>1, <3>2, <3>3
  <2>3. CASE b # -1
    <3>1. /\ q \in Ints /\ r \in Ints /\ (q * b) + r = a
          /\ IF b > 0 THEN 0 <= r /\ r < b ELSE b < r /\ r <= 0
      BY <2>1, <2>3, FloorDivision
    <3>2. /\ t \in Ints /\ Abs(t) < Abs(b) /\ (t # 0 => (t < 0) = (a < 0))
          /\ (a - t) % Abs(b) = 0
      BY <2>1, <2>3, Remainder
    <3> HIDE DEF q, r, t
    <3> QED
      BY <2>3, <3>1, <3>2
  <2> QED
    BY <2>2, <2>3
<1> QED
  BY <1>1, AskedHolds, PTL

-----------------------------------------------------------------------------
(* Shifts. *)

Shifted(x, n) == IF n >= 0 THEN (Unsigned(x) * 2^n) % 2^Bits
                 ELSE Unsigned(x) \div 2^(-n)

LEMMA UnsignedIs ==
    ASSUME NEW x \in Int
    PROVE  /\ Unsigned(x) \in Nat /\ Unsigned(x) < 2 * Half
           /\ 0 <= x /\ x < 2 * Half => Unsigned(x) = x
<1>1. 2 * Half \in Int /\ 2 * Half > 0 /\ Unsigned(x) = x % (2 * Half)
  BY Widths DEF Unsigned
<1>2. x % (2 * Half) \in Int /\ 0 <= x % (2 * Half) /\ x % (2 * Half) < 2 * Half
  BY <1>1, Divided
<1>3. ASSUME 0 <= x, x < 2 * Half PROVE x % (2 * Half) = x
  <2>1. 0 \in Int /\ x = ((2 * Half) * 0) + x
    BY <1>1
  <2> QED
    BY <1>1, <1>3, <2>1, DividedOnce
<1> DEFINE u == x % (2 * Half)
<1>4. Unsigned(x) = u /\ u \in Int /\ 0 <= u /\ u < 2 * Half
  BY <1>1, <1>2
<1> HIDE DEF u
<1>5. Unsigned(x) \in Nat /\ Unsigned(x) < 2 * Half
  BY <1>4
<1> QED
  BY <1>3, <1>4, <1>5 DEF u

LEMMA ShiftLeftIs ==
    ASSUME NEW x \in Ints, NEW y \in Int
    PROVE  /\ Unsigned(ShiftLeft(x, y)) = Shifted(x, y)
           /\ y >= Bits \/ y <= -Bits => ShiftLeft(x, y) = 0
<1> DEFINE u == Unsigned(x)
           w == 2 * Half
<1>0. w \in Nat /\ w > 0 /\ 2^Bits = w /\ u \in Nat /\ u < w /\ 0 \in Int /\ Bits \in Nat
  <2>1. x \in Int
    BY Widths
  <2> QED
    BY <2>1, Widths, UnsignedIs
<1>1. Unsigned(0) = 0
  BY <1>0, UnsignedIs
<1>u. u = Unsigned(x)
  OBVIOUS
<1> HIDE DEF u, w
<1>2. CASE y <= -Bits
  <2> DEFINE p == 2^(-y)
  <2>1. p \in Nat /\ w <= p
    <3>1. -y \in Nat /\ Bits <= -y
      BY <1>2
    <3> QED
      BY <1>0, <3>1, PowerPositive, PowerGrows
  <2> HIDE DEF p
  <2>2. p \in Int /\ p > 0 /\ u \in Int /\ 0 <= u /\ u < p /\ u = (p * 0) + u
    BY <1>0, <2>1
  <2>3. u \div p = 0
    BY <1>0, <2>2, DividedOnce
  <2>4. y < 0 /\ ~(y >= 0) /\ ShiftLeft(x, y) = 0
    BY <1>2, NumbersAssumption DEF ShiftLeft
  <2>5. Shifted(x, y) = u \div p
    BY <2>4, <1>u DEF Shifted, p
  <2> QED
    BY <1>1, <2>3, <2>4, <2>5
<1>3. CASE -Bits < y /\ y < 0
  <2> DEFINE p == 2^(-y)
             v == u \div p
  <2>1. p \in Nat /\ p > 0
    <3>1. -y \in Nat
      BY <1>3
    <3> QED
      BY <3>1, PowerPositive
  <2> HIDE DEF p
  <2>2. v \in Int /\ 0 <= v /\ v <= u
    <3>1. v \in Int /\ u % p \in Int /\ u = (p * v) + (u % p) /\ 0 <= u % p /\ u % p < p
      BY <1>0, <2>1, Divided
    <3> DEFINE r == u % p
    <3>2. v \in Int /\ r \in Int /\ u = (p * v) + r /\ 0 <= r /\ r < p
      BY <3>1
    <3> HIDE DEF v, r
    <3>3. v >= 0
      <4>1. ASSUME v <= -1 PROVE FALSE
        <5>1. p * v <= -p
          BY <2>1, <3>2, <4>1
        <5> QED
          BY <1>0, <2>1, <3>2, <5>1
      <4> QED
        BY <3>2, <4>1
    <3>4. p * v >= v
      BY <2>1, <3>2, <3>3
    <3> QED
      BY <1>0, <2>1, <3>2, <3>3, <3>4
  <2>3. ShiftLeft(x, y) = Wrap(v) /\ Shifted(x, y) = v
    BY <1>3, <1>u DEF ShiftLeft, Shifted, p
  <2> HIDE DEF v
  <2>4. Unsigned(Wrap(v)) = Unsigned(v) /\ Unsigned(v) = v
    BY <1>0, <2>2, WrapIs, UnsignedIs DEF w
  <2> QED
    BY <1>0, <1>3, <2>3, <2>4
<1>4. CASE 0 <= y /\ y < Bits
  <2> DEFINE p == 2^y
  <2>1. p \in Nat
    <3>1. y \in Nat
      BY <1>4
    <3> QED
      BY <3>1, PowerPositive
  <2>2. ShiftLeft(x, y) = Wrap(u * p) /\ Shifted(x, y) = (u * p) % 2^Bits
    BY <1>4, <1>u DEF ShiftLeft, Shifted
  <2> HIDE DEF p
  <2>3. u * p \in Int
    BY <1>0, <2>1
  <2>4. Unsigned(Wrap(u * p)) = Unsigned(u * p)
    BY <2>3, WrapIs
  <2> QED
    BY <1>0, <1>4, <2>2, <2>4 DEF Unsigned
<1>5. CASE y >= Bits
  <2> DEFINE p == 2^y
             d == 2^(y - Bits)
             zero == 0
  <2>1. p = w * d /\ d \in Nat
    <3> DEFINE k == y - Bits
    <3>1. k \in Nat /\ Bits \in Nat /\ Bits + k = y
      BY <1>5
    <3> HIDE DEF k
    <3>2. 2^(Bits + k) = 2^Bits * 2^k /\ 2^k \in Nat
      BY <3>1, PowerSum, PowerPositive
    <3> QED
      BY <1>0, <3>1, <3>2 DEF k
  <2>2. ShiftLeft(x, y) = 0 /\ Shifted(x, y) = (u * p) % w
    BY <1>0, <1>5, <1>u DEF ShiftLeft, Shifted
  <2>0. zero = 0
    OBVIOUS
  <2> HIDE DEF p, d, zero
  <2>3. u * p = (w * (u * d)) + zero /\ u * p \in Int /\ u * d \in Int
    BY <1>0, <2>0, <2>1
  <2>4. zero \in Int /\ 0 <= zero /\ zero < w /\ w \in Int /\ w > 0
    BY <1>0, <2>0
  <2>5. (u * p) % w = zero
    BY <2>3, <2>4, DividedOnce
  <2> QED
    BY <1>1, <2>0, <2>2, <2>5
<1> QED
  BY <1>0, <1>2, <1>3, <1>4, <1>5

(* Shifts by any count are multiplications and divisions of the unsigned      *)
(* value by a power of two, for any width (shiftl_int, shr_int).             *)
THEOREM ShiftsAreExact == NumbersSpec => []ShiftsExact
<1>1. ASSUME asked = Nobody \/ asked \in Questions PROVE ShiftsExact
  <2> SUFFICES ASSUME Of("ints") PROVE ShiftsExact
    BY DEF ShiftsExact
  <2> DEFINE x == asked.a
             y == asked.b
  <2>1. /\ x \in Ints /\ y \in Ints /\ y \in Int /\ -y \in Int
        /\ -Half <= y /\ y < Half /\ Half \in Nat /\ Bits <= Half /\ -Half \in Int
    BY <1>1, AskedKinds, Widths DEF IntQuestions
  <2> HIDE DEF x, y
  <2> SUFFICES /\ Unsigned(ShiftLeft(x, y)) = Shifted(x, y)
               /\ Unsigned(ShiftRight(x, y)) = Shifted(x, -y)
    BY DEF ShiftsExact, Shifted, x, y
  <2>2. Unsigned(ShiftLeft(x, y)) = Shifted(x, y)
    BY <2>1, ShiftLeftIs
  <2>3. CASE y # -Half
    <3>1. -y \in Ints
      BY <2>1, <2>3, Widths
    <3>2. Wrap(-y) = -y
      BY <2>1, <3>1, WrapIs
    <3>3. Unsigned(ShiftLeft(x, -y)) = Shifted(x, -y)
      BY <2>1, ShiftLeftIs
    <3> QED
      BY <2>2, <3>2, <3>3 DEF ShiftRight
  <2>4. CASE y = -Half
    <3>1. -y = Half /\ Half >= Bits /\ -Half <= -Bits /\ Half \in Int
      BY <2>1, <2>4
    <3>2. Wrap(Half) = -Half
      BY WrapHalf
    <3>3. ShiftLeft(x, -Half) = 0
      BY <2>1, <3>1, ShiftLeftIs
    <3>4. ShiftLeft(x, Half) = 0 /\ Unsigned(ShiftLeft(x, Half)) = Shifted(x, Half)
      BY <2>1, <3>1, ShiftLeftIs
    <3> QED
      BY <2>2, <3>1, <3>2, <3>3, <3>4 DEF ShiftRight
  <2> QED
    BY <2>3, <2>4
<1> QED
  BY <1>1, AskedHolds, PTL

-----------------------------------------------------------------------------
(* Rounding to the floats. *)

(* The integers up to this one are floats, counted in halves. *)
Whole == 2^Mant

Roundable(n) == n \in Int /\ Abs(n) <= 64 * Half

(* What rounding does to n: q is the distance of the floats around it.        *)
Rounding(n, e, q, k) ==
    /\ e \in Nat /\ q = 2^e /\ k \in Int /\ RoundToFloat(n) = q * k
    /\ Abs(n) < Whole * q /\ (e > 0 => 2 * Abs(n) >= Whole * q)
    /\ 2 * (q * k) - 2 * n <= q /\ 2 * n - 2 * (q * k) <= q
    /\ 2 * (q * k) - 2 * n = q \/ 2 * n - 2 * (q * k) = q => k % 2 = 0

LEMMA WholeIs == Whole \in Nat /\ Whole >= 4 /\ Whole = 2 * 2^(Mant - 1) /\ Whole <= Half
<1> DEFINE w == 2^Mant
           h == 2^(Bits - 1)
           g == 2^(Mant - 1)
<1>1. Mant - 1 \in Nat /\ Bits - 1 \in Nat /\ Mant \in Nat /\ Mant <= Bits - 1
      /\ (Mant - 1) + 1 = Mant /\ 2 <= Mant
  OBVIOUS
<1>2. w \in Nat /\ w <= h /\ w = 2 * g
  BY <1>1, PowerPositive, PowerGrows, Doubled
<1>3. 2^2 <= w /\ 2^2 = 4
  <2>1. 2^2 <= w
    BY <1>1, PowerGrows
  <2>2. 2^2 = 4
    BY SMT
  <2> QED
    BY <2>1, <2>2
<1> HIDE DEF w, h, g
<1>4. w >= 4
  BY <1>2, <1>3
<1> QED
  BY <1>2, <1>4 DEF w, h, g, Whole, Half

LEMMA QuantumIs ==
    ASSUME NEW n, Roundable(n)
    PROVE  \E e \in Nat : /\ Quantum(n) = 2^e /\ Abs(n) < Whole * 2^e
                          /\ e > 0 => 2 * Abs(n) >= Whole * 2^e
<1> DEFINE a == Abs(n)
           E == {e \in 0 .. Bits + 4 : a < 2^(Mant + e)}
           Fits(e) == a < 2^(Mant + e) /\ \A d \in 0 .. e - 1 : a >= 2^(Mant + d)
<1>0. a \in Nat /\ a <= 64 * Half /\ Half \in Nat /\ Half >= 4 /\ Bits + 4 \in Nat
  BY AbsIs, Widths DEF Roundable
<1>q. Quantum(n) = 2^(CHOOSE e \in 0 .. Bits + 4 : Fits(e))
  BY DEF Quantum
<1> HIDE DEF a
<1>1. Bits + 4 \in E
  <2> DEFINE p == 2^(Bits + 4)
  <2>1. 2^(Mant + (Bits + 4)) = Whole * p
    BY <1>0, PowerSum DEF Whole
  <2>2. p = 32 * Half /\ p \in Nat
    BY <1>0, Widths DEF PInf
  <2> HIDE DEF p
  <2>3. Whole * p >= 4 * p
    BY <2>2, WholeIs
  <2>4. a < Whole * p
    BY <1>0, <2>2, <2>3, WholeIs
  <2> QED
    BY <1>0, <2>1, <2>4 DEF p
<1>2. E \in SUBSET Nat /\ E # {}
  BY <1>1
<1> HIDE DEF E
<1>3. PICK m \in E : \A y \in E : m <= y
  BY <1>2, LeastOf
<1>4. m \in 0 .. Bits + 4 /\ Fits(m)
  <2>1. m \in 0 .. Bits + 4 /\ a < 2^(Mant + m)
    BY <1>3 DEF E
  <2>2. ASSUME NEW d \in 0 .. m - 1 PROVE a >= 2^(Mant + d)
    <3>1. d \in 0 .. Bits + 4 /\ d \in Nat /\ ~(m <= d) /\ Mant + d \in Nat
      BY <1>0, <2>1
    <3>2. ~(a < 2^(Mant + d))
      BY <1>3, <3>1 DEF E
    <3>3. 2^(Mant + d) \in Nat
      BY <3>1, PowerPositive
    <3> DEFINE x == 2^(Mant + d)
    <3>4. x \in Nat /\ ~(a < x)
      BY <3>2, <3>3
    <3> HIDE DEF x
    <3>5. a >= x
      BY <1>0, <3>4
    <3> QED
      BY <3>5 DEF x
  <2> QED
    BY <2>1, <2>2
<1> DEFINE e == CHOOSE e \in 0 .. Bits + 4 : Fits(e)
<1>5. e \in 0 .. Bits + 4 /\ Fits(e)
  <2> HIDE DEF Fits
  <2> QED
    BY <1>4
<1>6. Quantum(n) = 2^e
  BY <1>q
<1> HIDE DEF e
<1>7. e \in Nat /\ 2^(Mant + e) = Whole * 2^e
  BY <1>5, PowerSum DEF Whole
<1>8. ASSUME e > 0 PROVE 2 * a >= Whole * 2^e
  <2>1. e - 1 \in 0 .. e - 1 /\ e - 1 \in Nat /\ (e - 1) + 1 = e
    BY <1>7, <1>8
  <2>2. a >= 2^(Mant + (e - 1))
    BY <1>5, <2>1
  <2> DEFINE d == e - 1
             x == 2^d
             y == 2^e
  <2>3. 2^(Mant + d) = Whole * x /\ y = 2 * x /\ x \in Nat
    BY <2>1, PowerSum, Doubled DEF Whole
  <2>4. a >= Whole * x
    BY <2>2, <2>3
  <2> HIDE DEF d, x, y
  <2>5. 2 * a >= Whole * y
    <3>1. Whole * y = 2 * (Whole * x)
      BY <2>3, WholeIs
    <3> QED
      BY <1>0, <2>3, <2>4, <3>1, WholeIs
  <2> QED
    BY <2>5 DEF y
<1> QED
  BY <1>5, <1>6, <1>7, <1>8 DEF a

LEMMA RoundIs ==
    ASSUME NEW n, Roundable(n)
    PROVE  \E e, q, k : Rounding(n, e, q, k)
<1>1. PICK e \in Nat : /\ Quantum(n) = 2^e /\ Abs(n) < Whole * 2^e
                       /\ e > 0 => 2 * Abs(n) >= Whole * 2^e
  BY QuantumIs
<1> DEFINE q == 2^e
           b == n \div q
           r == n - b * q
           down == 2 * r < q \/ (2 * r = q /\ b % 2 = 0)
           k == IF down THEN b ELSE b + 1
<1>2. q \in Nat /\ q > 0 /\ n \in Int
  BY PowerPositive DEF Roundable
<1>3. b \in Int /\ r \in Int /\ 0 <= r /\ r < q /\ n = (q * b) + r
  <2> HIDE DEF q
  <2>1. b \in Int /\ n % q \in Int /\ n = (q * b) + (n % q) /\ 0 <= n % q /\ n % q < q
    BY <1>2, Divided
  <2> DEFINE m == n % q
  <2>2. b \in Int /\ m \in Int /\ n = (q * b) + m /\ 0 <= m /\ m < q
    BY <2>1
  <2> HIDE DEF m, b
  <2> QED
    BY <1>2, <2>2
<1>4. RoundToFloat(n) = IF down THEN b * q ELSE (b + 1) * q
  BY <1>1 DEF RoundToFloat
<1>5. Abs(n) < Whole * q /\ (e > 0 => 2 * Abs(n) >= Whole * q)
  BY <1>1
<1> HIDE DEF q, b, r
<1>6. k \in Int /\ RoundToFloat(n) = q * k
  BY <1>2, <1>3, <1>4
<1>7. /\ 2 * (q * k) - 2 * n <= q /\ 2 * n - 2 * (q * k) <= q
      /\ 2 * (q * k) - 2 * n = q \/ 2 * n - 2 * (q * k) = q => k % 2 = 0
  <2>1. CASE down
    <3>1. k = b /\ 2 * n - 2 * (q * k) = 2 * r /\ 2 * (q * k) - 2 * n = -(2 * r)
      BY <1>2, <1>3, <2>1
    <3>2. 2 * r <= q /\ -(2 * r) <= q /\ (2 * r = q => k % 2 = 0) /\ -(2 * r) # q
      BY <1>2, <1>3, <2>1, <3>1
    <3> HIDE DEF k
    <3> QED
      BY <3>1, <3>2
  <2>2. CASE ~down
    <3>1. k = b + 1 /\ 2 * r >= q /\ (2 * r = q => b % 2 # 0)
      BY <1>2, <1>3, <2>2
    <3>2. q * k = (q * b) + q
      BY <1>2, <1>3, <3>1
    <3>3. 2 * n - 2 * (q * k) = 2 * r - 2 * q /\ 2 * (q * k) - 2 * n = 2 * q - 2 * r
      BY <1>2, <1>3, <3>1, <3>2
    <3>4. b % 2 # 0 => k % 2 = 0
      BY <1>3, <3>1
    <3>5. /\ 2 * q - 2 * r <= q /\ 2 * r - 2 * q <= q
          /\ 2 * q - 2 * r = q \/ 2 * r - 2 * q = q => k % 2 = 0
      BY <1>2, <1>3, <3>1, <3>4
    <3> HIDE DEF k
    <3> QED
      BY <3>3, <3>5
  <2> QED
    BY <2>1, <2>2
<1> HIDE DEF k
<1>8. Rounding(n, e, q, k)
  BY <1>5, <1>6, <1>7 DEF Rounding, q
<1> QED
  BY <1>8

(* Rounding stops at every multiple of the distance of the floats. *)
LEMMA RoundStops ==
    ASSUME NEW n, Roundable(n), NEW e, NEW q, NEW k, Rounding(n, e, q, k), NEW j \in Int
    PROVE  /\ n <= q * j => RoundToFloat(n) <= q * j
           /\ n >= q * j => RoundToFloat(n) >= q * j
<1>1. /\ e \in Nat /\ q \in Nat /\ q > 0 /\ k \in Int /\ n \in Int /\ RoundToFloat(n) = q * k
      /\ 2 * (q * k) - 2 * n <= q /\ 2 * n - 2 * (q * k) <= q
  BY PowerPositive DEF Rounding, Roundable
<1>2. ASSUME n <= q * j, k >= j + 1 PROVE FALSE
  <2>1. q * k >= (q * j) + q
    BY <1>1, <1>2
  <2> QED
    BY <1>1, <1>2, <2>1
<1>3. ASSUME n >= q * j, k <= j - 1 PROVE FALSE
  <2>1. q * k <= (q * j) - q
    BY <1>1, <1>3
  <2> QED
    BY <1>1, <1>3, <2>1
<1>4. k <= j => q * k <= q * j
  BY <1>1
<1>5. k >= j => q * k >= q * j
  BY <1>1
<1> QED
  BY <1>1, <1>2, <1>3, <1>4, <1>5

LEMMA RoundInt ==
    ASSUME NEW n, Roundable(n)
    PROVE  /\ RoundToFloat(n) \in Int
           /\ n >= 0 => RoundToFloat(n) >= 0
           /\ n <= 0 => RoundToFloat(n) <= 0
<1>1. PICK e, q, k : Rounding(n, e, q, k)
  BY RoundIs
<1>2. e \in Nat /\ q \in Nat /\ k \in Int /\ RoundToFloat(n) = q * k /\ 0 \in Int
  BY <1>1, PowerPositive DEF Rounding
<1>3. q * 0 = 0
  BY <1>2
<1>4. /\ n <= q * 0 => RoundToFloat(n) <= q * 0
      /\ n >= q * 0 => RoundToFloat(n) >= q * 0
  BY <1>1, <1>2, RoundStops
<1>5. RoundToFloat(n) \in Int
  BY <1>2
<1> QED
  BY <1>3, <1>4, <1>5

(* Where the distance of floats is q, so is that of their rounded values.     *)
LEMMA RoundMagnitude ==
    ASSUME NEW n, Roundable(n), NEW e, NEW q, NEW k, Rounding(n, e, q, k)
    PROVE  /\ RoundToFloat(n) <= Whole * q /\ RoundToFloat(n) >= -(Whole * q)
           /\ e > 0 => /\ n >= 0 => 2 * RoundToFloat(n) >= Whole * q
                       /\ n < 0 => 2 * RoundToFloat(n) <= -(Whole * q)
<1> DEFINE g == 2^(Mant - 1)
           r == RoundToFloat(n)
           x == Whole * q
<1>1. g \in Nat /\ Whole = 2 * g /\ Whole \in Nat
  <2>1. Mant - 1 \in Nat
    OBVIOUS
  <2> QED
    BY <2>1, WholeIs, PowerPositive
<1>2. e \in Nat /\ q \in Nat /\ n \in Int /\ r \in Int
  BY PowerPositive, RoundInt DEF Rounding, Roundable
<1>3. Abs(n) < x /\ (e > 0 => 2 * Abs(n) >= x) /\ x \in Nat
  BY <1>1, <1>2 DEF Rounding
<1>4. -Whole \in Int /\ -g \in Int /\ g \in Int /\ Whole \in Int
  BY <1>1
<1>5. /\ n <= q * Whole => r <= q * Whole
      /\ n >= q * (-Whole) => r >= q * (-Whole)
      /\ n >= q * g => r >= q * g
      /\ n <= q * (-g) => r <= q * (-g)
  BY <1>4, RoundStops
<1>6. q * Whole = x /\ q * (-Whole) = -x /\ 2 * (q * g) = x /\ 2 * (q * (-g)) = -x
      /\ q * g \in Int /\ q * (-g) \in Int
  BY <1>1, <1>2
<1>7. (n >= 0 => Abs(n) = n) /\ (n <= 0 => Abs(n) = -n)
  BY <1>2, AbsIs
<1> HIDE DEF g, r, x
<1>8. -x <= n /\ n <= x
  BY <1>2, <1>3, <1>7
<1>9. r <= x /\ r >= -x
  BY <1>5, <1>6, <1>8
<1>10. ASSUME e > 0, n >= 0 PROVE 2 * r >= x
  <2>1. n >= q * g
    BY <1>2, <1>3, <1>6, <1>7, <1>10
  <2> QED
    BY <1>2, <1>5, <1>6, <2>1
<1>11. ASSUME e > 0, n < 0 PROVE 2 * r <= -x
  <2>1. n <= q * (-g)
    BY <1>2, <1>3, <1>6, <1>7, <1>11
  <2> QED
    BY <1>2, <1>3, <1>5, <1>6, <2>1
<1> QED
  BY <1>9, <1>10, <1>11 DEF r, x

(* A number does not overtake another when both are rounded. *)
LEMMA RoundMonotone ==
    ASSUME NEW m, NEW n, Roundable(m), Roundable(n), m <= n
    PROVE  RoundToFloat(m) <= RoundToFloat(n)
<1>1. PICK e, q, k : Rounding(m, e, q, k)
  BY RoundIs
<1>2. PICK f, p, j : Rounding(n, f, p, j)
  BY RoundIs
<1> DEFINE r == RoundToFloat(m)
           s == RoundToFloat(n)
           x == Whole * q
           y == Whole * p
<1>3. /\ e \in Nat /\ f \in Nat /\ q \in Nat /\ p \in Nat /\ q > 0 /\ p > 0
      /\ q = 2^e /\ p = 2^f /\ k \in Int /\ j \in Int
      /\ m \in Int /\ n \in Int /\ r = q * k /\ s = p * j
  BY <1>1, <1>2, PowerPositive DEF Rounding, Roundable
<1>4. /\ r \in Int /\ s \in Int
      /\ m >= 0 => r >= 0
      /\ m <= 0 => r <= 0
      /\ n >= 0 => s >= 0
      /\ n <= 0 => s <= 0
  BY RoundInt
<1>5. /\ r <= x /\ r >= -x /\ s <= y /\ s >= -y
      /\ e > 0 => (m >= 0 => 2 * r >= x) /\ (m < 0 => 2 * r <= -x)
      /\ f > 0 => (n >= 0 => 2 * s >= y) /\ (n < 0 => 2 * s <= -y)
  BY <1>1, <1>2, RoundMagnitude
<1>6. /\ Abs(m) < x /\ (e > 0 => 2 * Abs(m) >= x)
      /\ Abs(n) < y /\ (f > 0 => 2 * Abs(n) >= y)
  BY <1>1, <1>2 DEF Rounding
<1>7. x \in Nat /\ y \in Nat
  BY <1>3, WholeIs
<1>8. /\ (m >= 0 => Abs(m) = m) /\ (m <= 0 => Abs(m) = -m)
      /\ (n >= 0 => Abs(n) = n) /\ (n <= 0 => Abs(n) = -n)
  BY <1>3, AbsIs
<1>9. /\ e < f => 2 * x <= y
      /\ f < e => 2 * y <= x
  <2>1. /\ e < f => 2 * q <= p
        /\ f < e => 2 * p <= q
    BY <1>3, PowerGrows
  <2>2. 2 * q <= p => Whole * (2 * q) <= Whole * p
    BY <1>3, WholeIs
  <2>3. 2 * p <= q => Whole * (2 * p) <= Whole * q
    BY <1>3, WholeIs
  <2>4. Whole * (2 * q) = 2 * x /\ Whole * (2 * p) = 2 * y
    BY <1>3, WholeIs
  <2> QED
    BY <2>1, <2>2, <2>3, <2>4
<1> HIDE DEF r, s, x, y
<1>10. CASE e = f
  <2>1. p = q
    BY <1>3, <1>10
  <2>2. /\ 2 * (q * k) - 2 * m <= q
        /\ 2 * (q * k) - 2 * m = q => k % 2 = 0
        /\ 2 * n - 2 * (q * j) <= q
        /\ 2 * n - 2 * (q * j) = q => j % 2 = 0
    BY <1>1, <1>2, <2>1 DEF Rounding
  <2>3. k <= j
    <3>1. ASSUME k >= j + 2 PROVE FALSE
      <4>1. q * k >= (q * j) + (2 * q)
        BY <1>3, <3>1
      <4> QED
        BY <1>3, <2>2, <4>1
    <3>2. ASSUME k = j + 1 PROVE FALSE
      <4>1. q * k = (q * j) + q
        BY <1>3, <3>2
      <4>2. 2 * (q * k) - 2 * m = q /\ 2 * n - 2 * (q * j) = q
        BY <1>3, <2>2, <4>1
      <4>3. k % 2 = 0 /\ j % 2 = 0
        BY <2>2, <4>2
      <4> QED
        BY <1>3, <3>2, <4>3
    <3> QED
      BY <1>3, <3>1, <3>2
  <2>4. q * k <= q * j
    BY <1>3, <2>3
  <2> QED
    BY <1>3, <2>1, <2>4 DEF r, s
<1>11. CASE m < 0 /\ n >= 0
  BY <1>3, <1>4, <1>11 DEF r, s
<1>12. CASE e # f /\ m >= 0
  <2>1. n >= 0 /\ Abs(m) = m /\ Abs(n) = n
    BY <1>3, <1>8, <1>12
  <2>2. e < f
    BY <1>3, <1>6, <1>7, <1>9, <1>12, <2>1
  <2>3. r <= s
    BY <1>3, <1>4, <1>5, <1>7, <1>9, <2>1, <2>2
  <2> QED
    BY <2>3 DEF r, s
<1>13. CASE e # f /\ m < 0 /\ n < 0
  <2>1. Abs(m) = -m /\ Abs(n) = -n
    BY <1>3, <1>8, <1>13
  <2>2. f < e
    BY <1>3, <1>6, <1>7, <1>9, <1>13, <2>1
  <2>3. r <= s
    BY <1>3, <1>4, <1>5, <1>7, <1>9, <1>13, <2>2
  <2> QED
    BY <2>3 DEF r, s
<1> QED
  BY <1>3, <1>10, <1>11, <1>12, <1>13

-----------------------------------------------------------------------------
(* Comparison. *)

LEMMA FloatsAre == Floats \ {NaN} \subseteq Int
  BY Widths DEF Floats, Finite

LEMMA NumberIs ==
    ASSUME NEW x \in Number, ~IsNaN(x)
    PROVE  /\ AsDouble(x) \in Int /\ x.v \in Int
           /\ IsInt(x) => /\ AsDouble(x) = RoundToFloat(2 * x.v) /\ Roundable(2 * x.v)
                          /\ x.v \in Ints
           /\ ~IsInt(x) => AsDouble(x) = x.v
<1>1. CASE IsInt(x)
  <2>1. x.v \in Ints /\ x.v \in Int
    BY <1>1, Widths DEF Number, IsInt
  <2>2. Roundable(2 * x.v)
    <3> DEFINE n == 2 * x.v
    <3>1. n \in Int /\ -(2 * Half) <= n /\ n <= 2 * Half /\ Half \in Nat
      BY <2>1, Widths
    <3> HIDE DEF n
    <3>2. (n >= 0 => Abs(n) = n) /\ (n <= 0 => Abs(n) = -n)
      BY <3>1, AbsIs
    <3>3. Roundable(n)
      BY <3>1, <3>2 DEF Roundable
    <3> QED
      BY <3>3 DEF n
  <2>3. AsDouble(x) = RoundToFloat(2 * x.v)
    BY <1>1 DEF AsDouble
  <2>4. AsDouble(x) \in Int
    BY <2>2, <2>3, RoundInt
  <2> QED
    BY <1>1, <2>1, <2>2, <2>3, <2>4
<1>2. CASE ~IsInt(x)
  <2>1. x.v \in Floats /\ x.v # NaN
    BY <1>2 DEF Number, IsInt, IsNaN
  <2>2. x.v \in Int /\ AsDouble(x) = x.v
    BY <1>2, <2>1, FloatsAre DEF AsDouble
  <2> QED
    BY <1>2, <2>2
<1> QED
  BY <1>1, <1>2

LEMMA IntsAsDoubles ==
    ASSUME NEW x \in Number, NEW y \in Number, IsInt(x), IsInt(y), x.v <= y.v
    PROVE  AsDouble(x) <= AsDouble(y)
<1>1. ~IsNaN(x) /\ ~IsNaN(y)
  BY DEF IsNaN
<1> DEFINE m == 2 * x.v
           n == 2 * y.v
<1>2. /\ AsDouble(x) = RoundToFloat(m) /\ Roundable(m) /\ x.v \in Int
      /\ AsDouble(y) = RoundToFloat(n) /\ Roundable(n) /\ y.v \in Int
  BY <1>1, NumberIs
<1>3. m <= n
  BY <1>2
<1> HIDE DEF m, n
<1> QED
  BY <1>2, <1>3, RoundMonotone

(* A number less than a second is less than whatever that one is less than.   *)
LEMMA LtTransitive ==
    ASSUME NEW x \in Number, NEW y \in Number, NEW z \in Number, Lt(x, y), Lt(y, z)
    PROVE  Lt(x, z)
<1>1. ~IsNaN(x) /\ ~IsNaN(y) /\ ~IsNaN(z)
  BY DEF Lt, IsNaN
<1> DEFINE a == AsDouble(x)
           b == AsDouble(y)
           c == AsDouble(z)
           p == x.v
           q == y.v
           r == z.v
<1>2. a \in Int /\ b \in Int /\ c \in Int /\ p \in Int /\ q \in Int /\ r \in Int
  BY <1>1, NumberIs
<1>3. /\ IF IsInt(x) /\ IsInt(y) THEN p < q ELSE a < b
      /\ IF IsInt(y) /\ IsInt(z) THEN q < r ELSE b < c
  BY <1>1 DEF Lt
<1>4. /\ IsInt(x) /\ IsInt(y) /\ p <= q => a <= b
      /\ IsInt(y) /\ IsInt(z) /\ q <= r => b <= c
      /\ IsInt(x) /\ IsInt(z) /\ r <= p => c <= a
  BY IntsAsDoubles
<1> SUFFICES IF IsInt(x) /\ IsInt(z) THEN p < r ELSE a < c
  BY <1>1 DEF Lt
<1> HIDE DEF a, b, c, p, q, r
<1>5. CASE IsInt(x) /\ IsInt(z)
  <2>1. CASE IsInt(y)
    BY <1>2, <1>3, <1>5, <2>1
  <2>2. CASE ~IsInt(y)
    BY <1>2, <1>3, <1>4, <1>5, <2>2
  <2> QED
    BY <2>1, <2>2
<1>6. CASE ~(IsInt(x) /\ IsInt(z))
  <2>1. CASE IsInt(y)
    BY <1>2, <1>3, <1>4, <1>6, <2>1
  <2>2. CASE ~IsInt(y)
    BY <1>2, <1>3, <1>6, <2>2
  <2> QED
    BY <2>1, <2>2
<1> QED
  BY <1>5, <1>6

(* Any two numbers but NaN compare in exactly one way, and a third keeps the  *)
(* order, at any width and for integers that are rounded to meet a float (lt, *)
(* le, eq in clx_runtime.h).                                                *)
THEOREM OrderIsTotal == NumbersSpec => []OrderTotal
<1>1. ASSUME asked = Nobody \/ asked \in Questions PROVE OrderTotal
  <2> SUFFICES ASSUME Of("numbers") PROVE OrderTotal
    BY DEF OrderTotal
  <2> DEFINE x == asked.x
             y == asked.y
             Ways == {c \in {1, 2, 3} : \/ c = 1 /\ Lt(x, y)
                                        \/ c = 2 /\ Eq(x, y)
                                        \/ c = 3 /\ Lt(y, x)}
  <2>1. x \in Number /\ y \in Number
    BY <1>1, AskedKinds DEF NumberQuestions
  <2> HIDE DEF x, y
  <2> SUFFICES IF IsNaN(x) \/ IsNaN(y)
               THEN ~Lt(x, y) /\ ~Le(x, y) /\ ~Eq(x, y)
               ELSE /\ Cardinality(Ways) = 1
                    /\ Le(x, y) = (Lt(x, y) \/ Eq(x, y))
                    /\ \A z \in Number : Lt(x, y) /\ Lt(y, z) => Lt(x, z)
    BY DEF OrderTotal, x, y
  <2>2. CASE IsNaN(x) \/ IsNaN(y)
    <3>1. ~(IsInt(x) /\ IsInt(y))
      BY <2>2 DEF IsNaN
    <3> QED
      BY <2>2, <3>1 DEF Lt, Le, Eq
  <2>3. CASE ~(IsNaN(x) \/ IsNaN(y))
    <3> DEFINE a == AsDouble(x)
               b == AsDouble(y)
               p == x.v
               q == y.v
    <3>1. a \in Int /\ b \in Int /\ p \in Int /\ q \in Int
      BY <2>1, <2>3, NumberIs
    <3>2. /\ Lt(x, y) <=> IF IsInt(x) /\ IsInt(y) THEN p < q ELSE a < b
          /\ Lt(y, x) <=> IF IsInt(x) /\ IsInt(y) THEN q < p ELSE b < a
          /\ Eq(x, y) <=> IF IsInt(x) /\ IsInt(y) THEN p = q ELSE a = b
          /\ Le(x, y) <=> IF IsInt(x) /\ IsInt(y) THEN p <= q ELSE a <= b
      BY <2>3 DEF Lt, Le, Eq
    <3> HIDE DEF a, b, p, q
    <3>3. /\ Le(x, y) <=> Lt(x, y) \/ Eq(x, y)
          /\ Lt(x, y) \/ Eq(x, y) \/ Lt(y, x)
          /\ ~(Lt(x, y) /\ Eq(x, y)) /\ ~(Lt(x, y) /\ Lt(y, x)) /\ ~(Eq(x, y) /\ Lt(y, x))
      <4>1. CASE IsInt(x) /\ IsInt(y)
        BY <3>1, <3>2, <4>1
      <4>2. CASE ~(IsInt(x) /\ IsInt(y))
        BY <3>1, <3>2, <4>2
      <4> QED
        BY <4>1, <4>2
    <3>4. Ways = {1} \/ Ways = {2} \/ Ways = {3}
      <4>1. CASE Lt(x, y)
        BY <3>3, <4>1
      <4>2. CASE Eq(x, y)
        BY <3>3, <4>2
      <4>3. CASE Lt(y, x)
        BY <3>3, <4>3
      <4> QED
        BY <3>3, <4>1, <4>2, <4>3
    <3> HIDE DEF Ways
    <3>5. Cardinality(Ways) = 1
      BY <3>4, FS_Singleton
    <3>6. \A z \in Number : Lt(x, y) /\ Lt(y, z) => Lt(x, z)
      BY <2>1, LtTransitive
    <3>7. Le(x, y) = (Lt(x, y) \/ Eq(x, y))
      <4> USE DEF Le, Lt, Eq
      <4> QED
        BY <3>3
    <3> QED
      BY <2>3, <3>5, <3>6, <3>7
  <2> QED
    BY <2>2, <2>3
<1> QED
  BY <1>1, AskedHolds, PTL

-----------------------------------------------------------------------------
(* From floats to integers. *)

LEMMA FloorIs ==
    ASSUME NEW h \in Int, h # PInf, h # NInf
    PROVE  /\ FloorOf(h) \in Int /\ FloorOf(h) % 2 = 0 /\ FloorOf(h) <= h /\ h <= FloorOf(h) + 1
           /\ h % 2 = 0 => FloorOf(h) = h
<1>1. FloorOf(h) = (h \div 2) * 2
  BY DEF FloorOf
<1> DEFINE f == (h \div 2) * 2
<1>2. f \in Int /\ f % 2 = 0 /\ f <= h /\ h <= f + 1 /\ (h % 2 = 0 => f = h)
  OBVIOUS
<1> HIDE DEF f
<1> QED
  BY <1>1, <1>2 DEF f

LEMMA CeilIs ==
    ASSUME NEW h \in Int, h # PInf, h # NInf
    PROVE  /\ CeilOf(h) \in Int /\ CeilOf(h) % 2 = 0 /\ h <= CeilOf(h) /\ CeilOf(h) <= h + 1
           /\ h % 2 = 0 => CeilOf(h) = h
<1> DEFINE g == -h
           f == FloorOf(g)
<1>1. g \in Int /\ g # PInf /\ g # NInf
  BY Widths
<1>2. f \in Int /\ f % 2 = 0 /\ f <= g /\ g <= f + 1 /\ (g % 2 = 0 => f = g)
  <2> HIDE DEF g
  <2> QED
    BY <1>1, FloorIs
<1>3. CeilOf(h) = -f
  BY DEF CeilOf
<1> HIDE DEF f
<1>4. g = -h /\ (h % 2 = 0 => g % 2 = 0) /\ (-f) % 2 = 0
  BY <1>2
<1> HIDE DEF g
<1> QED
  BY <1>2, <1>3, <1>4

LEMMA MathRoundIs ==
    ASSUME NEW f \in Int, f % 2 = 0, f # PInf, f # NInf
    PROVE  LET r == MathRound(f, f)
           IN  /\ (IF IsInt(r) THEN 2 * r.v ELSE r.v) = f
               /\ IsInt(r) <=> \E i \in Ints : 2 * i = f
<1>1. f # NaN
  BY NumbersAssumption
<1>2. FloorOf(f) = f
  BY FloorIs
<1>3. FitsInteger(f) <=> f >= -(2 * Half) /\ f < 2 * Half
  BY <1>1, <1>2, Widths DEF FitsInteger, InIntRange
<1>4. FitsInteger(f) <=> \E i \in Ints : 2 * i = f
  <2>1. ASSUME FitsInteger(f) PROVE \E i \in Ints : 2 * i = f
    <3>1. f \div 2 \in Ints /\ 2 * (f \div 2) = f
      BY <1>3, <2>1, Widths
    <3> QED
      BY <3>1
  <2>2. ASSUME NEW i \in Ints, 2 * i = f PROVE FitsInteger(f)
    BY <1>3, <2>2, Widths
  <2> QED
    BY <2>1, <2>2
<1>5. CASE FitsInteger(f)
  <2>1. MathRound(f, f) = [type |-> "Int64", v |-> f \div 2]
    BY <1>5 DEF MathRound
  <2>2. IsInt(MathRound(f, f)) /\ MathRound(f, f).v = f \div 2 /\ 2 * (f \div 2) = f
    BY <2>1 DEF IsInt
  <2> QED
    BY <1>4, <1>5, <2>2
<1>6. CASE ~FitsInteger(f)
  <2>1. MathRound(f, f) = [type |-> "Double", v |-> f]
    BY <1>6 DEF MathRound
  <2>2. ~IsInt(MathRound(f, f)) /\ MathRound(f, f).v = f
    BY <2>1 DEF IsInt
  <2> QED
    BY <1>4, <1>6, <2>2
<1> QED
  BY <1>5, <1>6

(* math.floor and math.ceil of any finite float, at any width: the neighbour  *)
(* they name, as an integer exactly when it fits (lib_math.cpp).             *)
THEOREM RoundingIsExact == NumbersSpec => []RoundingExact
<1>1. ASSUME asked = Nobody \/ asked \in Questions PROVE RoundingExact
  <2> SUFFICES ASSUME Of("numbers"), ~IsInt(asked.x), asked.x.v \in Finite
               PROVE  RoundingExact
    BY DEF RoundingExact
  <2> DEFINE x == asked.x
             h == asked.x.v
             Right(r, lo, hi) ==
                LET w == IF IsInt(r) THEN 2 * r.v ELSE r.v
                IN  /\ lo <= w /\ w <= hi /\ w % 2 = 0
                    /\ IsInt(r) <=> \E i \in Ints : 2 * i = w
             f == FloorOf(h)
             c == CeilOf(h)
  <2>1. h \in Int /\ -(8 * Half) <= h /\ h <= 8 * Half /\ h # NaN
    BY Widths DEF Finite
  <2>2. h # PInf /\ h # NInf
    BY <2>1, Widths
  <2>3. ~IsNaN(x)
    BY <2>1 DEF IsNaN
  <2>4. MathFloor(x) = MathRound(f, f) /\ MathCeil(x) = MathRound(c, c)
    BY <2>3 DEF MathFloor, MathCeil
  <2>g. RoundingExact = (Right(MathFloor(x), h - 1, h) /\ Right(MathCeil(x), h, h + 1))
    BY DEF RoundingExact
  <2> HIDE DEF x, h
  <2>5. f \in Int /\ f % 2 = 0 /\ f <= h /\ h <= f + 1
    BY <2>1, <2>2, FloorIs
  <2>6. c \in Int /\ c % 2 = 0 /\ h <= c /\ c <= h + 1
    BY <2>1, <2>2, CeilIs
  <2>7. Right(MathRound(f, f), h - 1, h)
    <3> HIDE DEF f
    <3>1. f # PInf /\ f # NInf /\ h - 1 <= f
      BY <2>1, <2>5, Widths
    <3> QED
      BY <2>5, <3>1, MathRoundIs
  <2>8. Right(MathRound(c, c), h, h + 1)
    <3> HIDE DEF c
    <3>1. c # PInf /\ c # NInf
      BY <2>1, <2>6, Widths
    <3> QED
      BY <2>6, <3>1, MathRoundIs
  <2> HIDE DEF Right
  <2> QED
    BY <2>4, <2>7, <2>8, <2>g
<1> QED
  BY <1>1, AskedHolds, PTL

-----------------------------------------------------------------------------
(* The limit of a loop over integers. *)

(* The limit as it is written, in halves. *)
LimitHalves(lim) ==
    IF IsInt(lim) THEN 2 * lim.v ELSE IF IsNaN(lim) THEN NInf ELSE lim.v

Towards(s, n, limit) == IF s > 0 THEN n <= limit ELSE n >= limit

Positive(lim) == ~IsNaN(lim) /\ lim.v > 0

LEMMA RangeIs ==
    ASSUME NEW h \in Int
    PROVE  InIntRange(h) <=> -(2 * Half) <= h /\ h < 2 * Half
<1>1. MinInt = -Half /\ Half \in Nat
  BY Widths
<1> QED
  BY <1>1 DEF InIntRange

LEMMA LimitFits ==
    ASSUME NEW lim \in Number, NEW s \in Ints \ {0}
    PROVE  LET r == LimitToInteger(lim, s)
           IN  IF r.ok
               THEN /\ r.v \in Ints
                    /\ \A n \in Ints : Towards(s, n, r.v) <=> Towards(s, 2 * n, LimitHalves(lim))
               ELSE /\ ~IsInt(lim)
                    /\ \A n \in Ints : Towards(s, 2 * n, LimitHalves(lim))
                                          <=> (s > 0 <=> Positive(lim))
<1> DEFINE h == lim.v
           r == LimitToInteger(lim, s)
<1>0. Half \in Nat /\ Half >= 4 /\ Ints = -Half .. Half - 1 /\ s \in Int /\ s # 0
      /\ NInf = -(32 * Half) /\ PInf = 32 * Half
  BY Widths
<1>1. CASE IsInt(lim)
  <2>1. h \in Ints /\ h \in Int
    BY <1>0, <1>1 DEF Number, IsInt
  <2>2. r.ok /\ r.v = h /\ LimitHalves(lim) = 2 * h
    BY <1>1 DEF LimitToInteger, LimitHalves
  <2> HIDE DEF r, h
  <2>3. ASSUME NEW n \in Ints PROVE Towards(s, n, h) <=> Towards(s, 2 * n, 2 * h)
    <3>1. n \in Int
      BY <1>0
    <3> QED
      BY <1>0, <2>1, <3>1 DEF Towards
  <2> QED
    BY <1>1, <2>1, <2>2, <2>3 DEF r
<1>2. CASE ~IsInt(lim) /\ IsNaN(lim)
  <2>1. ~r.ok /\ LimitHalves(lim) = NInf
    BY <1>2 DEF LimitToInteger, LimitHalves
  <2> HIDE DEF r, h
  <2>2. ASSUME NEW n \in Ints PROVE Towards(s, 2 * n, NInf) <=> ~(s > 0)
    <3>1. n \in Int /\ 2 * n > -(32 * Half)
      BY <1>0
    <3> QED
      BY <1>0, <3>1 DEF Towards
  <2> QED
    BY <1>2, <2>1, <2>2 DEF r, Positive
<1>3. CASE ~IsInt(lim) /\ ~IsNaN(lim)
  <2> DEFINE f == IF s < 0 THEN CeilOf(h) ELSE FloorOf(h)
  <2>1. h \in Int /\ LimitHalves(lim) = h
    BY <1>3, NumberIs DEF LimitHalves
  <2>2. (r.ok <=> InIntRange(f)) /\ r.v = f \div 2
    BY <1>3 DEF LimitToInteger
  <2> HIDE DEF r, h
  <2>3. CASE h = PInf \/ h = NInf
    <3>1. FloorOf(h) = h
      BY <2>3 DEF FloorOf
    <3>2. CeilOf(h) = h
      <4>1. -h = PInf \/ -h = NInf
        BY <1>0, <2>1, <2>3
      <4>2. FloorOf(-h) = -h
        BY <4>1 DEF FloorOf
      <4> QED
        BY <2>1, <4>2 DEF CeilOf
    <3>3. f = h
      BY <3>1, <3>2
    <3>4. ~r.ok
      <4>1. ~InIntRange(h)
        BY <1>0, <2>1, <2>3, RangeIs
      <4> HIDE DEF f
      <4> QED
        BY <2>2, <3>3, <4>1
    <3>5. ASSUME NEW n \in Ints PROVE Towards(s, 2 * n, h) <=> (s > 0 <=> h > 0)
      <4>1. n \in Int /\ 2 * n > -(32 * Half) /\ 2 * n < 32 * Half
        BY <1>0
      <4> QED
        BY <1>0, <2>1, <2>3, <4>1 DEF Towards
    <3> QED
      BY <1>3, <2>1, <3>4, <3>5 DEF r, h, Positive
  <2>4. CASE h # PInf /\ h # NInf
    <3>1. /\ f \in Int /\ f % 2 = 0
          /\ s > 0 => f <= h /\ h <= f + 1
          /\ s < 0 => h <= f /\ f <= h + 1
      <4>1. CASE s < 0
        <5>1. f = CeilOf(h)
          BY <4>1
        <5> HIDE DEF f
        <5> QED
          BY <1>0, <2>1, <2>4, <4>1, <5>1, CeilIs
      <4>2. CASE s > 0
        <5>1. f = FloorOf(h)
          BY <1>0, <4>2
        <5> HIDE DEF f
        <5> QED
          BY <1>0, <2>1, <2>4, <4>2, <5>1, FloorIs
      <4> QED
        BY <1>0, <4>1, <4>2
    <3> HIDE DEF f
    <3>2. \A n \in Int : Towards(s, 2 * n, h) <=> Towards(s, 2 * n, f)
      BY <1>0, <2>1, <3>1 DEF Towards
    <3>3. CASE InIntRange(f)
      <4>1. f \div 2 \in Ints /\ 2 * (f \div 2) = f
        BY <1>0, <3>1, <3>3, RangeIs
      <4> DEFINE v == f \div 2
      <4>2. v \in Ints /\ v \in Int /\ f = 2 * v /\ r.v = v
        BY <1>0, <2>2, <4>1
      <4> HIDE DEF v
      <4>3. ASSUME NEW n \in Ints PROVE Towards(s, n, v) <=> Towards(s, 2 * n, f)
        <5>1. n \in Int
          BY <1>0
        <5> QED
          BY <1>0, <4>2, <5>1 DEF Towards
      <4>4. r.ok
        BY <2>2, <3>3
      <4>5. \A n \in Ints : n \in Int
        BY <1>0
      <4> QED
        BY <2>1, <3>2, <4>2, <4>3, <4>4, <4>5 DEF r, h
    <3>4. CASE ~InIntRange(f)
      <4>1. ~r.ok /\ (f >= 2 * Half \/ f < -(2 * Half))
        BY <1>0, <2>2, <3>1, <3>4, RangeIs
      <4>2. ASSUME NEW n \in Ints PROVE Towards(s, 2 * n, h) <=> (s > 0 <=> h > 0)
        <5>1. n \in Int /\ 2 * n >= -(2 * Half) /\ 2 * n < 2 * Half
          BY <1>0
        <5>2. CASE s > 0
          BY <1>0, <2>1, <3>1, <4>1, <5>1, <5>2 DEF Towards
        <5>3. CASE s < 0
          BY <1>0, <2>1, <3>1, <4>1, <5>1, <5>3 DEF Towards
        <5> QED
          BY <1>0, <5>2, <5>3
      <4> QED
        BY <1>3, <2>1, <4>1, <4>2 DEF r, h, Positive
    <3> QED
      BY <3>3, <3>4
  <2> QED
    BY <2>3, <2>4
<1> QED
  BY <1>1, <1>2, <1>3

LEMMA ForLimitIs ==
    ASSUME NEW init \in Ints, NEW lim \in Number, NEW s \in Ints \ {0}
    PROVE  LET r == ForLimit(init, lim, s)
           IN  /\ ~r.skip => r.p \in Ints
               /\ \A n \in Ints :
                     Towards(s, init, n)
                        => (~r.skip /\ Towards(s, n, r.p) <=> Towards(s, 2 * n, LimitHalves(lim)))
<1> DEFINE i == LimitToInteger(lim, s)
           r == ForLimit(init, lim, s)
           Skips(p) == IF s > 0 THEN init > p ELSE init < p
           Clip(p) == [skip |-> Skips(p), p |-> p]
           w == LimitHalves(lim)
           positive == ~IsNaN(lim) /\ lim.v > 0
           skipped == [skip |-> TRUE, p |-> 0]
<1>0. /\ Half \in Nat /\ Half >= 4 /\ Ints = -Half .. Half - 1 /\ s \in Int /\ s # 0 /\ init \in Int
      /\ MaxInt = Half - 1 /\ MinInt = -Half /\ -Half <= init /\ init < Half
  BY Widths
<1>1. r = IF i.ok THEN Clip(i.v)
          ELSE IF positive
               THEN IF s < 0 THEN skipped ELSE Clip(MaxInt)
               ELSE IF s > 0 THEN skipped ELSE Clip(MinInt)
  BY DEF ForLimit
<1>2. IF i.ok
      THEN /\ i.v \in Ints
           /\ \A n \in Ints : Towards(s, n, i.v) <=> Towards(s, 2 * n, w)
      ELSE \A n \in Ints : Towards(s, 2 * n, w) <=> (s > 0 <=> Positive(lim))
  BY LimitFits
<1>p. positive <=> Positive(lim)
  BY DEF Positive
<1> SUFFICES /\ ~r.skip => r.p \in Ints
             /\ \A n \in Ints : Towards(s, init, n)
                                  => (~r.skip /\ Towards(s, n, r.p) <=> Towards(s, 2 * n, w))
  OBVIOUS
<1> HIDE DEF i, r, w, positive
<1>3. ASSUME NEW p \in Ints, r = Clip(p), NEW n \in Ints, Towards(s, init, n)
      PROVE  ~r.skip /\ Towards(s, n, r.p) <=> Towards(s, n, p)
  <2>1. n \in Int /\ p \in Int
    BY <1>0
  <2>2. (r.skip <=> Skips(p)) /\ r.p = p
    BY <1>3
  <2>3. CASE s > 0
    <3>1. init <= n
      BY <1>3, <2>3 DEF Towards
    <3> QED
      BY <1>0, <2>1, <2>2, <2>3, <3>1 DEF Towards
  <2>4. CASE ~(s > 0)
    <3>1. init >= n
      BY <1>3, <2>4 DEF Towards
    <3> QED
      BY <1>0, <2>1, <2>2, <2>4, <3>1 DEF Towards
  <2> QED
    BY <2>3, <2>4
<1>4. CASE i.ok
  <2>1. r = Clip(i.v) /\ i.v \in Ints /\ \A n \in Ints : Towards(s, n, i.v) <=> Towards(s, 2 * n, w)
    BY <1>1, <1>2, <1>4
  <2>2. r.p = i.v
    BY <2>1
  <2> HIDE DEF Clip
  <2> QED
    BY <1>3, <2>1, <2>2
<1>5. CASE ~i.ok /\ (s > 0 <=> positive)
  <2> DEFINE e == IF s > 0 THEN MaxInt ELSE MinInt
  <2>1. r = Clip(e) /\ e \in Ints
    BY <1>0, <1>1, <1>5
  <2>2. \A n \in Ints : Towards(s, 2 * n, w)
    BY <1>2, <1>5, <1>p
  <2>3. ASSUME NEW n \in Ints PROVE Towards(s, n, e)
    <3>1. n \in Int /\ n <= MaxInt /\ n >= MinInt
      BY <1>0
    <3> QED
      BY <3>1 DEF Towards
  <2>4. r.p = e
    BY <2>1
  <2> HIDE DEF e, Clip
  <2> QED
    BY <1>3, <2>1, <2>2, <2>3, <2>4
<1>6. CASE ~i.ok /\ ~(s > 0 <=> positive)
  <2>1. r = skipped
    BY <1>0, <1>1, <1>6
  <2>2. r.skip
    BY <2>1
  <2>3. \A n \in Ints : ~Towards(s, 2 * n, w)
    BY <1>2, <1>6, <1>p
  <2> QED
    BY <2>2, <2>3
<1> QED
  BY <1>4, <1>5, <1>6

(* The loop that forlimit prepares visits the integers of the progression     *)
(* that respect the limit as written: at any width, and for limits that are   *)
(* fractions, beyond the integers or infinite (forlimit in loops.cpp).        *)
THEOREM ForLimitIsExact == NumbersSpec => []ForLimitExact
<1>1. ASSUME asked = Nobody \/ asked \in Questions PROVE ForLimitExact
  <2> SUFFICES ASSUME Of("loop") PROVE ForLimitExact
    BY DEF ForLimitExact
  <2> DEFINE init == asked.init
             lim == asked.lim
             s == asked.step
             r == ForLimit(init, lim, s)
             Ahead(n) == (n - init) % Abs(s) = 0
             Side(n) == IF s > 0 THEN n >= init ELSE n <= init
             Clipped(n) == ~r.skip /\ IF s > 0 THEN n <= r.p ELSE n >= r.p
             Written(n) ==
                LET w == IF IsInt(lim) THEN 2 * lim.v ELSE IF IsNaN(lim) THEN NInf ELSE lim.v
                IN  IF s > 0 THEN 2 * n <= w ELSE 2 * n >= w
  <2>1. init \in Ints /\ lim \in Number /\ s \in Ints \ {0} /\ init \in Int /\ s \in Int
    BY <1>1, AskedKinds, Widths DEF LoopQuestions
  <2>2. \A n \in Ints : Towards(s, init, n)
                => (~r.skip /\ Towards(s, n, r.p) <=> Towards(s, 2 * n, LimitHalves(lim)))
    <3> HIDE DEF init, lim, s
    <3> QED
      BY <2>1, ForLimitIs
  <2>3. ASSUME NEW n \in Ints, Side(n) PROVE Clipped(n) <=> Written(n)
    <3>1. n \in Int
      BY Widths
    <3>2. Towards(s, init, n)
      <4> HIDE DEF init, s
      <4> QED
        BY <2>1, <2>3, <3>1 DEF Towards
    <3>3. ~r.skip /\ Towards(s, n, r.p) <=> Towards(s, 2 * n, LimitHalves(lim))
      BY <2>2, <3>2
    <3> HIDE DEF init, lim, s, r
    <3> QED
      BY <3>3 DEF Towards, LimitHalves
  <2>4. {n \in Ints : Ahead(n) /\ Clipped(n) /\ Side(n)}
            = {n \in Ints : Ahead(n) /\ Written(n) /\ Side(n)}
    <3> HIDE DEF Ahead, Clipped, Side, Written
    <3> QED
      BY <2>3
  <2> HIDE DEF r
  <2> QED
    BY <2>4 DEF ForLimitExact, r
<1> QED
  BY <1>1, AskedHolds, PTL

-----------------------------------------------------------------------------
(* Strings of digits. *)

(* No power of two ends in a 0, so that the last digit of the greatest        *)
(* integer is not 9, and adding one for the least integer stays a digit.     *)
LEMMA HalfEndsInNoZero == Half % 10 # 0
<1> DEFINE E == {2, 4, 6, 8}
           N == Bits - 1
           S == {n \in 0 .. N : n = 0 \/ 2^n % 10 \in E}
<1>0. N \in Nat /\ N >= 1
  OBVIOUS
<1>1. 0 \in S
  BY <1>0
<1>2. ASSUME NEW n \in 0 .. N - 1, n \in S PROVE n + 1 \in S
  <2> DEFINE x == 2^n
             y == 2^(n + 1)
  <2>1. x \in Nat /\ y = 2 * x /\ n \in Nat /\ n + 1 \in 0 .. N /\ 2^0 = 1
    BY <1>0, Doubled
  <2>2. n = 0 \/ x % 10 \in E
    BY <1>2
  <2>3. n = 0 => x = 1
    BY <2>1
  <2> HIDE DEF x, y
  <2>4. y % 10 \in E
    BY <2>1, <2>2, <2>3
  <2> HIDE DEF E, N
  <2> QED
    BY <2>1, <2>4 DEF y
<1> HIDE DEF S
<1>3. 0 .. N \subseteq S
  <2> HIDE DEF N
  <2> QED
    BY <1>0, <1>1, <1>2, UpTo
<1>4. N \in S /\ N # 0
  BY <1>0, <1>3
<1> QED
  BY <1>4 DEF S, Half

ReadState == [ok : BOOLEAN, a : Nat]

(* The state of the loop after digits that denote v. *)
ReadSoFar(s, v, neg) ==
    LET most == IF neg THEN Half ELSE Half - 1
    IN  /\ s \in ReadState /\ v \in Nat
        /\ s.ok => s.a = v /\ v <= most
        /\ ~s.ok => v > most

LEMMA DigitRead ==
    ASSUME NEW s, NEW v, NEW neg \in BOOLEAN, NEW d \in 0 .. 9, ReadSoFar(s, v, neg)
    PROVE  ReadSoFar(ReadDigit(s, d, neg), 10 * v + d, neg)
<1> DEFINE most == IF neg THEN Half ELSE Half - 1
           one == IF neg THEN 1 ELSE 0
           a == s.a
           w == 10 * v + d
           t == ReadDigit(s, d, neg)
           M == MaxBy10
           L == MaxLastDigit
<1>1. /\ s.ok \in BOOLEAN /\ a \in Nat /\ v \in Nat /\ d \in Nat /\ d <= 9
      /\ s.ok => a = v /\ v <= most
      /\ ~s.ok => v > most
  BY DEF ReadSoFar, ReadState
<1>2. Half \in Nat /\ Half >= 4 /\ MaxInt = Half - 1
  BY Widths
<1>3. M \in Int /\ L \in Int /\ Half - 1 = (10 * M) + L /\ 0 <= L /\ L <= 8
  <2>1. M = MaxInt \div 10 /\ L = MaxInt % 10
    BY DEF MaxBy10, MaxLastDigit
  <2>2. Half % 10 # 0
    BY HalfEndsInNoZero
  <2> HIDE DEF M, L
  <2> QED
    BY <1>2, <2>1, <2>2
<1>4. t = IF ~s.ok \/ (a >= M /\ (a > M \/ d > L + one))
          THEN [ok |-> FALSE, a |-> a] ELSE [ok |-> TRUE, a |-> Unsigned(a * 10 + d)]
  BY DEF ReadDigit
<1>5. one \in {0, 1} /\ most = Half - 1 + one
  BY <1>2
<1>6. w \in Nat
  BY <1>1
<1> HIDE DEF M, L, a, t, one, most
<1>7. CASE ~s.ok \/ (a >= M /\ (a > M \/ d > L + one))
  <2>1. t = [ok |-> FALSE, a |-> a]
    BY <1>4, <1>7
  <2>2. t \in ReadState /\ ~t.ok
    BY <1>1, <2>1 DEF ReadState
  <2>3. w > most
    <3>1. CASE ~s.ok
      BY <1>1, <1>2, <1>5, <3>1
    <3>2. CASE s.ok /\ a > M
      BY <1>1, <1>2, <1>3, <1>5, <3>2
    <3>3. CASE s.ok /\ a = M /\ d > L + one
      BY <1>1, <1>2, <1>3, <1>5, <3>3
    <3> QED
      BY <1>1, <1>3, <1>7, <3>1, <3>2, <3>3
  <2> HIDE DEF w
  <2> QED
    BY <1>6, <2>2, <2>3 DEF ReadSoFar, t, w, most
<1>8. CASE s.ok /\ ~(a >= M /\ (a > M \/ d > L + one))
  <2>1. t = [ok |-> TRUE, a |-> Unsigned(a * 10 + d)]
    BY <1>4, <1>8
  <2>2. a * 10 + d = w /\ w <= most
    BY <1>1, <1>2, <1>3, <1>5, <1>8
  <2> HIDE DEF w
  <2>3. Unsigned(w) = w
    BY <1>2, <1>5, <1>6, <2>2, UnsignedIs
  <2>4. t \in ReadState /\ t.ok /\ t.a = w
    BY <1>6, <2>1, <2>2, <2>3 DEF ReadState
  <2> QED
    BY <1>6, <2>2, <2>4 DEF ReadSoFar, t, w, most
<1> QED
  BY <1>7, <1>8

(* The digits so far, as the reference and as the code read them. *)
Denotes(digits, value) ==
    /\ value \in [0 .. Len(digits) -> Nat] /\ value[0] = 0
    /\ \A n \in 1 .. Len(digits) : value[n] = 10 * value[n - 1] + digits[n]

Reads(digits, neg, read) ==
    /\ read[0] = [ok |-> TRUE, a |-> 0]
    /\ \A n \in 1 .. Len(digits) : read[n] = ReadDigit(read[n - 1], digits[n], neg)

LEMMA ReadingDenotes ==
    ASSUME NEW digits, NEW neg \in BOOLEAN, NEW value, NEW read, Len(digits) \in Nat,
           \A n \in 1 .. Len(digits) : digits[n] \in 0 .. 9,
           Denotes(digits, value), Reads(digits, neg, read)
    PROVE  ReadSoFar(read[Len(digits)], value[Len(digits)], neg)
<1> DEFINE N == Len(digits)
           S == {n \in 0 .. N : ReadSoFar(read[n], value[n], neg)}
<1>1. 0 \in S
  <2>1. value[0] = 0 /\ read[0] = [ok |-> TRUE, a |-> 0]
    BY DEF Denotes, Reads
  <2>2. read[0] \in ReadState /\ read[0].ok /\ read[0].a = 0
    BY <2>1 DEF ReadState
  <2>3. Half \in Nat /\ Half >= 4
    BY Widths
  <2> QED
    BY <2>1, <2>2, <2>3 DEF ReadSoFar
<1>2. ASSUME NEW n \in 0 .. N - 1, n \in S PROVE n + 1 \in S
  <2>1. n + 1 \in 1 .. N /\ n + 1 \in 0 .. N /\ (n + 1) - 1 = n
    OBVIOUS
  <2>2. /\ value[n + 1] = 10 * value[n] + digits[n + 1]
        /\ read[n + 1] = ReadDigit(read[n], digits[n + 1], neg)
    BY <2>1 DEF Denotes, Reads
  <2>3. ReadSoFar(read[n + 1], value[n + 1], neg)
    BY <1>2, <2>1, <2>2, DigitRead
  <2> QED
    BY <2>1, <2>3
<1> HIDE DEF S
<1>3. 0 .. N \subseteq S
  BY <1>1, <1>2, UpTo
<1>4. N \in S
  BY <1>3
<1> QED
  BY <1>4 DEF S

Digits == UNION {[1 .. n -> 0 .. 9] : n \in 0 .. MaxDigits}

LEMMA DigitsAre ==
    ASSUME NEW digits \in Digits
    PROVE  Len(digits) \in Nat /\ \A n \in 1 .. Len(digits) : digits[n] \in 0 .. 9
<1>1. PICK n \in 0 .. MaxDigits : digits \in [1 .. n -> 0 .. 9]
  BY DEF Digits
<1>2. n \in Nat
  BY DigitsAssumption
<1>3. digits \in Seq(0 .. 9)
  BY <1>1, <1>2
<1>4. Len(digits) = n
  BY <1>1, <1>2, <1>3
<1> QED
  BY <1>1, <1>2, <1>4

LEMMA ValueDenotes ==
    ASSUME NEW digits, Len(digits) \in Nat, \A n \in 1 .. Len(digits) : digits[n] \in 0 .. 9,
           NEW value,
           value = CHOOSE g : g = [n \in 0 .. Len(digits) |->
                                     IF n = 0 THEN 0 ELSE 10 * g[n - 1] + digits[n]]
    PROVE  Denotes(digits, value)
<1> DEFINE N == Len(digits)
           Body(g) == [n \in 0 .. N |-> IF n = 0 THEN 0 ELSE 10 * g[n - 1] + digits[n]]
           step == [n \in 1 .. N |-> [v \in Nat |-> 10 * v + digits[n]]]
<1>1. step \in [1 .. N -> [Nat -> Nat]]
  <2>1. \A n \in 1 .. N : \A v \in Nat : 10 * v + digits[n] \in Nat
    OBVIOUS
  <2> QED
    BY <2>1
<1>2. PICK f : /\ f \in [0 .. N -> Nat] /\ f[0] = 0
               /\ \A n \in 1 .. N : f[n] = step[n][f[n - 1]]
  <2> HIDE DEF step
  <2>1. PICK f : Solution(N, Nat, 0, step, f)
    BY <1>1, RecursionSolved
  <2> QED
    BY <2>1 DEF Solution
<1>3. \A n \in 1 .. N : f[n] = 10 * f[n - 1] + digits[n]
  <2> SUFFICES ASSUME NEW n \in 1 .. N PROVE f[n] = 10 * f[n - 1] + digits[n]
    OBVIOUS
  <2>1. n - 1 \in 0 .. N
    OBVIOUS
  <2>2. f[n - 1] \in Nat
    BY <1>2, <2>1
  <2> QED
    BY <1>2, <2>2
<1> HIDE DEF step
<1>4. f = Body(f)
  <2>1. \A n \in 0 .. N : f[n] = IF n = 0 THEN 0 ELSE 10 * f[n - 1] + digits[n]
    BY <1>2, <1>3
  <2>2. f = [n \in 0 .. N |-> f[n]]
    BY <1>2
  <2> QED
    BY <2>1, <2>2
<1>5. value = Body(value)
  <2>1. value = CHOOSE g : g = Body(g)
    OBVIOUS
  <2> HIDE DEF Body
  <2> QED
    BY <1>4, <2>1
<1>6. value[0] = 0 /\ \A n \in 1 .. N : value[n] = 10 * value[n - 1] + digits[n]
  <2>1. \A n \in 0 .. N : value[n] = Body(value)[n]
    BY <1>5
  <2> QED
    BY <2>1
<1> DEFINE S == {n \in 0 .. N : value[n] \in Nat}
<1>7. 0 \in S
  BY <1>6
<1>8. ASSUME NEW n \in 0 .. N - 1, n \in S PROVE n + 1 \in S
  <2>1. n + 1 \in 1 .. N /\ n + 1 \in 0 .. N /\ (n + 1) - 1 = n
    OBVIOUS
  <2>2. value[n + 1] = 10 * value[n] + digits[n + 1]
    BY <1>6, <2>1
  <2>3. value[n] \in Nat /\ digits[n + 1] \in Nat
    BY <1>8, <2>1
  <2> QED
    BY <2>1, <2>2, <2>3
<1> HIDE DEF S
<1>9. 0 .. N \subseteq S
  BY <1>7, <1>8, UpTo
<1>10. value \in [0 .. N -> Nat]
  <2>1. value = [n \in 0 .. N |-> value[n]]
    <3>1. DOMAIN value = 0 .. N
      BY <1>5
    <3> HIDE DEF Body
    <3> QED
      BY <1>5, <3>1 DEF Body
  <2>2. \A n \in 0 .. N : value[n] \in Nat
    BY <1>9 DEF S
  <2> QED
    BY <2>1, <2>2
<1> QED
  BY <1>6, <1>10 DEF Denotes

LEMMA ReadDigitType ==
    ASSUME NEW s \in ReadState, NEW d \in 0 .. 9, NEW neg \in BOOLEAN
    PROVE  ReadDigit(s, d, neg) \in ReadState
<1> DEFINE u == Unsigned(s.a * 10 + d)
<1>1. s.a \in Nat /\ s.a * 10 + d \in Int
  BY DEF ReadState
<1>2. u \in Nat
  BY <1>1, UnsignedIs
<1> HIDE DEF u
<1>3. [ok |-> FALSE, a |-> s.a] \in ReadState /\ [ok |-> TRUE, a |-> u] \in ReadState
  BY <1>1, <1>2 DEF ReadState
<1> QED
  BY <1>3 DEF ReadDigit, u

LEMMA ReadReads ==
    ASSUME NEW digits, Len(digits) \in Nat, \A n \in 1 .. Len(digits) : digits[n] \in 0 .. 9,
           NEW neg \in BOOLEAN, NEW read,
           read = CHOOSE g : g = [n \in 0 .. Len(digits) |->
                                    IF n = 0 THEN [ok |-> TRUE, a |-> 0]
                                    ELSE ReadDigit(g[n - 1], digits[n], neg)]
    PROVE  Reads(digits, neg, read)
<1> DEFINE N == Len(digits)
           zero == [ok |-> TRUE, a |-> 0]
           Body(g) == [n \in 0 .. N |-> IF n = 0 THEN zero
                                        ELSE ReadDigit(g[n - 1], digits[n], neg)]
           step == [n \in 1 .. N |-> [s \in ReadState |-> ReadDigit(s, digits[n], neg)]]
<1>0. zero \in ReadState
  BY DEF ReadState
<1>1. step \in [1 .. N -> [ReadState -> ReadState]]
  <2>1. \A n \in 1 .. N : \A s \in ReadState : ReadDigit(s, digits[n], neg) \in ReadState
    BY ReadDigitType
  <2> QED
    BY <2>1
<1>2. PICK f : /\ f \in [0 .. N -> ReadState] /\ f[0] = zero
               /\ \A n \in 1 .. N : f[n] = step[n][f[n - 1]]
  <2> HIDE DEF step, zero
  <2>1. PICK f : Solution(N, ReadState, zero, step, f)
    BY <1>0, <1>1, RecursionSolved
  <2> QED
    BY <2>1 DEF Solution
<1>3. \A n \in 1 .. N : f[n] = ReadDigit(f[n - 1], digits[n], neg)
  <2> SUFFICES ASSUME NEW n \in 1 .. N PROVE f[n] = ReadDigit(f[n - 1], digits[n], neg)
    OBVIOUS
  <2>1. n - 1 \in 0 .. N
    OBVIOUS
  <2>2. f[n - 1] \in ReadState
    BY <1>2, <2>1
  <2> HIDE DEF zero
  <2> QED
    BY <1>2, <2>2
<1> HIDE DEF step, zero
<1>4. f = Body(f)
  <2>1. \A n \in 0 .. N : f[n] = IF n = 0 THEN zero ELSE ReadDigit(f[n - 1], digits[n], neg)
    BY <1>2, <1>3
  <2>2. f = [n \in 0 .. N |-> f[n]]
    BY <1>2
  <2> QED
    BY <2>1, <2>2
<1>5. read = Body(read)
  <2>1. read = CHOOSE g : g = Body(g)
    BY DEF zero
  <2> HIDE DEF Body
  <2> QED
    BY <1>4, <2>1
<1>6. read[0] = zero /\ \A n \in 1 .. N : read[n] = ReadDigit(read[n - 1], digits[n], neg)
  <2>1. \A n \in 0 .. N : read[n] = Body(read)[n]
    BY <1>5
  <2> QED
    BY <2>1
<1> QED
  BY <1>6 DEF Reads, zero

(* A string of digits of any length is read as the integer it denotes when     *)
(* that one fits, the least integer included, and is refused otherwise: the   *)
(* guard never lets the accumulator wrap (to_integer_coerced).               *)
THEOREM DecimalsAreExact == NumbersSpec => []DecimalsExact
<1>1. ASSUME asked = Nobody \/ asked \in Questions PROVE DecimalsExact
  <2> SUFFICES ASSUME Of("digits") PROVE DecimalsExact
    BY DEF DecimalsExact
  <2> DEFINE digits == asked.digits
             neg == asked.neg
             value == CHOOSE g : g = [n \in 0 .. Len(digits) |->
                                        IF n = 0 THEN 0 ELSE 10 * g[n - 1] + digits[n]]
             read == CHOOSE g : g = [n \in 0 .. Len(digits) |->
                                       IF n = 0 THEN [ok |-> TRUE, a |-> 0]
                                       ELSE ReadDigit(g[n - 1], digits[n], neg)]
             N == Len(digits)
             v == value[N]
             s == read[N]
             most == IF neg THEN Half ELSE Half - 1
             denoted == IF neg THEN -v ELSE v
             r == ReadDecimal(digits, neg)
  <2>1. digits \in Digits /\ neg \in BOOLEAN
    BY <1>1, AskedKinds DEF DigitQuestions, Digits
  <2>2. DecimalsExact = (/\ r.ok <=> digits # <<>> /\ denoted \in Ints
                         /\ r.ok => r.v = denoted)
    BY DEF DecimalsExact
  <2>3. r = [ok |-> s.ok /\ digits # <<>>, v |-> Wrap(IF neg THEN -s.a ELSE s.a)]
    BY DEF ReadDecimal
  <2> HIDE DEF digits, neg
  <2>4. N \in Nat /\ \A n \in 1 .. N : digits[n] \in 0 .. 9
    BY <2>1, DigitsAre
  <2>5. Denotes(digits, value)
    <3>1. value = CHOOSE g : g = [n \in 0 .. Len(digits) |->
                                    IF n = 0 THEN 0 ELSE 10 * g[n - 1] + digits[n]]
      OBVIOUS
    <3> HIDE DEF value
    <3> QED
      BY <2>4, <3>1, ValueDenotes
  <2>6. Reads(digits, neg, read)
    <3>1. read = CHOOSE g : g = [n \in 0 .. Len(digits) |->
                                   IF n = 0 THEN [ok |-> TRUE, a |-> 0]
                                   ELSE ReadDigit(g[n - 1], digits[n], neg)]
      OBVIOUS
    <3> HIDE DEF read
    <3> QED
      BY <2>1, <2>4, <3>1, ReadReads
  <2> HIDE DEF value, read, r
  <2>7. ReadSoFar(s, v, neg)
    BY <2>1, <2>4, <2>5, <2>6, ReadingDenotes
  <2>8. /\ s.ok \in BOOLEAN /\ s.a \in Nat /\ v \in Nat
        /\ s.ok => s.a = v /\ v <= most
        /\ ~s.ok => v > most
    BY <2>7 DEF ReadSoFar, ReadState
  <2> HIDE DEF s, v
  <2>9. denoted \in Ints <=> v <= most
    BY <2>1, <2>8, Widths
  <2>10. s.ok <=> denoted \in Ints
    <3> HIDE DEF denoted
    <3>1. most \in Int
      BY Widths
    <3> HIDE DEF most
    <3> QED
      BY <2>8, <2>9, <3>1
  <2>11. s.ok => Wrap(IF neg THEN -s.a ELSE s.a) = denoted
    <3> SUFFICES ASSUME s.ok PROVE Wrap(denoted) = denoted
      BY <2>8
    <3>1. denoted \in Ints /\ denoted \in Int
      BY <2>8, <2>10
    <3> HIDE DEF denoted
    <3> QED
      BY <3>1, WrapIs
  <2>12. r.ok = (s.ok /\ digits # <<>>) /\ r.v = Wrap(IF neg THEN -s.a ELSE s.a)
    BY <2>3
  <2> HIDE DEF denoted
  <2> QED
    BY <2>2, <2>10, <2>11, <2>12
<1> QED
  BY <1>1, AskedHolds, PTL

-----------------------------------------------------------------------------
(* Floats that are exact. *)

Small == -Whole .. Whole

LEMMA SmallExact ==
    ASSUME NEW n \in Small
    PROVE  Roundable(n) /\ RoundToFloat(n) = n
<1>1. n \in Int /\ Whole \in Nat /\ Whole <= Half /\ Half \in Nat
  BY WholeIs, Widths DEF Small
<1>2. (n >= 0 => Abs(n) = n) /\ (n <= 0 => Abs(n) = -n) /\ Abs(n) \in Nat
  BY <1>1, AbsIs
<1>3. Abs(n) <= Whole
  BY <1>1, <1>2 DEF Small
<1>4. Roundable(n)
  BY <1>1, <1>2, <1>3 DEF Roundable
<1>5. PICK e, q, k : Rounding(n, e, q, k)
  BY <1>4, RoundIs
<1>6. \E j \in Int : n = q * j
  <2>1. /\ e \in Nat /\ q = 2^e /\ q \in Nat /\ 2^0 = 1
        /\ Abs(n) < Whole * q /\ (e > 0 => 2 * Abs(n) >= Whole * q)
    BY <1>5, PowerPositive DEF Rounding
  <2>2. CASE e = 0
    <3>1. q = 1
      BY <2>1, <2>2
    <3> QED
      BY <1>1, <3>1
  <2>3. CASE e > 0
    <3> DEFINE d == e - 1
               p == 2^d
               g == 2^(Mant - 1)
    <3>1. d \in Nat /\ d + 1 = e
      BY <2>1, <2>3
    <3>2. q = 2 * p /\ p \in Nat /\ p > 0
      <4>1. 2^(d + 1) = 2 * 2^d /\ p \in Nat /\ p > 0
        BY <3>1, Doubled, PowerPositive
      <4> HIDE DEF p, d
      <4> QED
        BY <2>1, <3>1, <4>1 DEF p
    <3>3. g \in Nat /\ Whole = 2 * g
      <4>1. Mant - 1 \in Nat
        OBVIOUS
      <4> QED
        BY <4>1, WholeIs, PowerPositive
    <3> HIDE DEF d, p, g
    <3>4. p < 2
      <4>1. ASSUME p >= 2 PROVE FALSE
        <5>1. Whole * q >= Whole * 4
          BY <1>1, <3>2, <4>1
        <5>2. Whole > 0
          BY WholeIs
        <5> QED
          BY <1>1, <1>2, <1>3, <2>1, <2>3, <5>1, <5>2
      <4> QED
        BY <3>2, <4>1
    <3>5. q = 2
      BY <3>2, <3>4
    <3>6. Abs(n) = Whole
      BY <1>1, <1>2, <1>3, <2>1, <2>3, <3>5
    <3>7. n = q * g \/ n = q * (-g)
      BY <1>1, <1>2, <3>3, <3>5, <3>6
    <3>8. g \in Int /\ -g \in Int
      BY <3>3
    <3> QED
      BY <3>7, <3>8
  <2> QED
    BY <2>1, <2>2, <2>3
<1>7. PICK j \in Int : n = q * j
  BY <1>6
<1>8. /\ n <= q * j => RoundToFloat(n) <= q * j
      /\ n >= q * j => RoundToFloat(n) >= q * j
  BY <1>4, <1>5, RoundStops
<1>9. RoundToFloat(n) \in Int
  BY <1>4, RoundInt
<1> QED
  BY <1>1, <1>4, <1>7, <1>8, <1>9

(* An even number that is rounded into the small ones was not rounded. *)
LEMMA RoundedToSmall ==
    ASSUME NEW n, Roundable(n), n % 2 = 0, RoundToFloat(n) \in Small
    PROVE  n \in Small /\ RoundToFloat(n) = n
<1>1. n \in Int /\ Whole \in Nat /\ Whole >= 4
  BY WholeIs DEF Roundable
<1>2. SUFFICES ASSUME n \notin Small PROVE FALSE
  BY SmallExact
<1>3. PICK e, q, k : Rounding(n, e, q, k)
  BY RoundIs
<1> DEFINE r == RoundToFloat(n)
<1>4. (n >= 0 => Abs(n) = n) /\ (n <= 0 => Abs(n) = -n) /\ Abs(n) \in Nat
  BY <1>1, AbsIs
<1>5. Abs(n) > Whole
  BY <1>1, <1>2, <1>4 DEF Small
<1>6. /\ e \in Nat /\ q = 2^e /\ q \in Nat /\ Abs(n) < Whole * q
  BY <1>3, PowerPositive DEF Rounding
<1>7. /\ r <= Whole * q /\ r >= -(Whole * q) /\ r \in Int
      /\ e > 0 => /\ n >= 0 => 2 * r >= Whole * q
                  /\ n < 0 => 2 * r <= -(Whole * q)
  BY <1>3, RoundMagnitude, RoundInt
<1>8. e # 0
  <2>1. ASSUME e = 0 PROVE FALSE
    <3>1. q = 1
      BY <1>6, <2>1
    <3> QED
      BY <1>1, <1>4, <1>5, <1>6, <3>1
  <2> QED
    BY <2>1
<1> HIDE DEF r
<1>9. -Whole <= r /\ r <= Whole
  BY <1>1, <1>7 DEF Small, r
<1>10. CASE e = 1
  <2> DEFINE j == n \div 2
  <2>1. q = 2
    BY <1>6, <1>10
  <2>2. j \in Int /\ n = q * j
    BY <1>1, <2>1
  <2> HIDE DEF j
  <2>3. /\ n <= q * j => RoundToFloat(n) <= q * j
        /\ n >= q * j => RoundToFloat(n) >= q * j
    BY <1>3, <2>2, RoundStops
  <2>4. r = n
    BY <1>1, <1>7, <2>2, <2>3 DEF r
  <2> QED
    BY <1>1, <1>2, <1>9, <2>4 DEF Small
<1>11. CASE e >= 2
  <2>1. q >= 4
    <3>1. 2^2 <= 2^e
      BY <1>6, <1>11, PowerGrows
    <3>2. 2^2 = 4
      BY SMT
    <3> QED
      BY <1>6, <3>1, <3>2
  <2>2. Whole * q >= 4 * Whole
    BY <1>1, <1>6, <2>1
  <2> QED
    BY <1>1, <1>6, <1>7, <1>9, <1>11, <2>2
<1> QED
  BY <1>6, <1>8, <1>10, <1>11

LEMMA OddFloats ==
    ASSUME NEW h \in Finite, h % 2 # 0
    PROVE  h < Whole /\ -Whole < h
<1>1. h \in Int /\ RoundToFloat(h) = h /\ -(8 * Half) <= h /\ h <= 8 * Half /\ Half \in Nat
      /\ Whole \in Nat
  BY Widths, WholeIs DEF Finite
<1>2. (h >= 0 => Abs(h) = h) /\ (h <= 0 => Abs(h) = -h) /\ Abs(h) \in Nat
  BY <1>1, AbsIs
<1>3. Roundable(h)
  BY <1>1, <1>2 DEF Roundable
<1>4. PICK e, q, k : Rounding(h, e, q, k)
  BY <1>3, RoundIs
<1>5. e \in Nat /\ q = 2^e /\ k \in Int /\ h = q * k /\ Abs(h) < Whole * q
  BY <1>1, <1>4 DEF Rounding
<1>6. e = 0
  <2>1. ASSUME e # 0 PROVE FALSE
    <3> DEFINE d == e - 1
               p == 2^d
    <3>1. d \in Nat /\ d + 1 = e
      BY <1>5, <2>1
    <3>2. 2^(d + 1) = 2 * p /\ p \in Nat
      BY <3>1, Doubled
    <3> HIDE DEF p
    <3>3. h = 2 * (p * k)
      <4>1. q = 2 * p
        BY <1>5, <3>1, <3>2
      <4> QED
        BY <1>5, <3>2, <4>1
    <3> DEFINE z == p * k
    <3>4. z \in Int /\ h = 2 * z
      BY <1>5, <3>2, <3>3
    <3> HIDE DEF z
    <3> QED
      BY <3>4
  <2> QED
    BY <2>1
<1>7. q = 1
  BY <1>5, <1>6
<1> QED
  BY <1>1, <1>2, <1>5, <1>7

-----------------------------------------------------------------------------
(* The numeric 'for': what its variables are worth while it runs. *)

LoopIs(l) ==
    l = [at |-> l.at, kind |-> l.kind, start |-> l.start, lim |-> l.lim, step |-> l.step,
         cast |-> l.cast, ints |-> l.ints, i |-> l.i, to |-> l.to, by |-> l.by,
         visits |-> l.visits]

(* Exact, but for the counter: this part of it does not change. *)
Steady(l) ==
    /\ NaN \notin {Halves(l.start), Halves(l.lim), Halves(l.step)}
    /\ IF l.ints
       THEN /\ l.to + l.by \in Ints
            /\ IsInt(l.start) /\ \A x \in l.cast : Held(x)
       ELSE {Halves(l.start), l.to, l.by, l.to + l.by} \subseteq Small

(* For a counter on the way, the limit of the loop is the limit as written. *)
SameLimit(start, by, to, lim) ==
    \A n \in Ints : Towards(by, start, n) => (Towards(by, n, to) <=> Towards(by, 2 * n, Halves(lim)))

CountingInts(l) ==
    /\ IsInt(l.start) /\ IsInt(l.step) /\ {l.start.v, l.i, l.to, l.by} \subseteq Ints
    /\ l.by = l.step.v /\ l.by # 0
    /\ Towards(l.by, l.start.v, l.i)
    /\ SameLimit(l.start.v, l.by, l.to, l.lim)
    /\ l.visits < MaxVisits => l.i = l.start.v + l.visits * l.by

CountingFloats(l) ==
    /\ {Halves(l.start), l.i, l.to, l.by} \subseteq Small
    /\ l.to = Halves(l.lim) /\ l.by = Halves(l.step) /\ l.by # 0
    /\ l.visits < MaxVisits => l.i = Halves(l.start) + l.visits * l.by

Counting(l) ==
    /\ IF l.ints THEN CountingInts(l) ELSE CountingFloats(l)
    /\ l.at = "body" => Towards(l.by, l.i, l.to)

LoopInv(l) ==
    \/ l = NoLoop
    \/ /\ LoopIs(l) /\ l.at \in {"test", "body", "over"}
       /\ l.visits \in 0 .. MaxVisits /\ l.ints \in BOOLEAN
       /\ Steady(l) /\ l.at # "over" => Counting(l)

LEMMA PreparedRight ==
    ASSUME NEW l, LoopIs(l), l.at = "test", l.visits = 0, l.ints \in BOOLEAN,
           Steady(l) => IF l.ints THEN CountingInts(l) ELSE CountingFloats(l)
    PROVE  LoopInv(l)
<1>1. 0 \in 0 .. MaxVisits
  BY LoopsAssumption
<1>2. Steady(l) => Counting(l)
  BY DEF Counting
<1> QED
  BY <1>1, <1>2 DEF LoopInv

LEMMA CounterLimit ==
    ASSUME NEW lim \in Number, NEW literal, literal => IsInt(lim),
           ~literal => ~IsNaN(lim) /\ Held(lim), NEW s \in Ints \ {0},
           NEW to \in CounterLimits(lim, s, literal), NEW start \in Ints
    PROVE  to \in Ints /\ SameLimit(start, s, to, lim)
<1> DEFINE r == LimitToInteger(lim, s)
           h == lim.v
           f == IF s < 0 THEN CeilOf(h) ELSE FloorOf(h)
<1>0. /\ Half \in Nat /\ Half >= 4 /\ s \in Int /\ s # 0 /\ Whole \in Nat /\ Whole <= Half
      /\ PInf = 32 * Half /\ NInf = -(32 * Half)
  BY Widths, WholeIs
<1>1. ~IsNaN(lim) /\ LimitHalves(lim) = Halves(lim)
  BY DEF LimitHalves, Halves, IsNaN
<1>2. r.ok /\ to = r.v
  <2>1. CASE IsInt(lim)
    <3>1. r.ok /\ r.v = lim.v
      BY <2>1 DEF LimitToInteger
    <3>2. CASE literal
      BY <3>1, <3>2 DEF CounterLimits
    <3>3. CASE ~literal
      <4> DEFINE n == lim.v
                 g == IF s < 0 THEN CeilOf(2 * n) ELSE FloorOf(2 * n)
      <4>1. n \in Int /\ AsDouble(lim) = 2 * n /\ InIntRange(2 * n)
        BY <2>1, <3>3, NumberIs DEF Held, Halves
      <4>2. to \in CastToInt(g)
        BY <1>1, <3>3, <4>1 DEF CounterLimits
      <4> HIDE DEF n
      <4>3. g = 2 * n
        BY <4>1 DEF CeilOf, FloorOf
      <4>4. 2 * n # NaN /\ (2 * n) \div 2 = n
        BY <4>1, NumbersAssumption
      <4>5. to = n
        BY <4>1, <4>2, <4>3, <4>4 DEF CastToInt
      <4> QED
        BY <3>1, <4>5 DEF n
    <3> QED
      BY <3>2, <3>3
  <2>2. CASE ~IsInt(lim)
    <3>0. ~literal
      BY <2>2
    <3>1. /\ h \in Int /\ h \in Floats /\ h # NaN /\ Halves(lim) = h /\ AsDouble(lim) = h
      BY <1>1, <2>2, NumberIs DEF Number, IsInt, IsNaN, Halves, AsDouble
    <3>i. InIntRange(h)
      BY <3>0, <3>1 DEF Held
    <3>2. r.ok = InIntRange(f) /\ r.v = f \div 2 /\ to \in CastToInt(f)
      BY <1>1, <2>2, <3>0, <3>1 DEF CounterLimits, LimitToInteger
    <3> HIDE DEF h, r
    <3>3. -(2 * Half) <= h /\ h < 2 * Half
      BY <3>1, <3>i, RangeIs
    <3>4. h # PInf /\ h # NInf /\ h \in Finite
      BY <1>0, <3>1, <3>3 DEF Floats
    <3>5. f \in Int /\ -(2 * Half) <= f /\ f < 2 * Half
      <4>1. CASE s < 0
        <5>1. f = CeilOf(h)
          BY <4>1
        <5> DEFINE c == CeilOf(h)
        <5>2. c \in Int /\ c % 2 = 0 /\ h <= c /\ c <= h + 1 /\ (h % 2 = 0 => c = h)
          BY <3>1, <3>4, CeilIs
        <5> HIDE DEF c
        <5>3. h % 2 # 0 => h < Half
          BY <1>0, <3>1, <3>4, OddFloats
        <5>4. -(2 * Half) <= c /\ c < 2 * Half
          BY <1>0, <3>1, <3>3, <5>2, <5>3
        <5> QED
          BY <5>1, <5>2, <5>4 DEF c
      <4>2. CASE ~(s < 0)
        <5>1. f = FloorOf(h)
          BY <4>2
        <5> DEFINE c == FloorOf(h)
        <5>2. c \in Int /\ c % 2 = 0 /\ c <= h /\ h <= c + 1
          BY <3>1, <3>4, FloorIs
        <5> HIDE DEF c
        <5>4. -(2 * Half) <= c /\ c < 2 * Half
          BY <1>0, <3>1, <3>3, <5>2
        <5> QED
          BY <5>1, <5>2, <5>4 DEF c
      <4> QED
        BY <4>1, <4>2
    <3> HIDE DEF f
    <3>6. InIntRange(f) /\ f # NaN
      BY <3>5, RangeIs
    <3> QED
      BY <3>2, <3>6 DEF CastToInt
  <2> QED
    BY <2>1, <2>2
<1> HIDE DEF r
<1>3. r.v \in Ints /\ \A n \in Ints : Towards(s, n, r.v) <=> Towards(s, 2 * n, LimitHalves(lim))
  BY <1>2, LimitFits DEF r
<1> QED
  BY <1>1, <1>2, <1>3 DEF SameLimit

LEMMA StartsInts ==
    ASSUME NEW kind, NEW start \in Number, NEW lim, NEW step \in Number, NEW to \in Ints, NEW cast,
           IsInt(start), IsInt(step), ~Zero(step), SameLimit(start.v, step.v, to, lim)
    PROVE  LET l == Ready(kind, start, lim, step, cast, TRUE, start.v, to, step.v)
           IN  Steady(l) => CountingInts(l)
<1> DEFINE l == Ready(kind, start, lim, step, cast, TRUE, start.v, to, step.v)
<1>1. /\ l.visits = 0 /\ l.start = start /\ l.lim = lim /\ l.step = step
      /\ l.i = start.v /\ l.to = to /\ l.by = step.v
  BY DEF Ready
<1> HIDE DEF l
<1>2. start.v \in Ints /\ step.v \in Ints /\ start.v \in Int /\ step.v \in Int /\ step.v # 0
  BY Widths DEF Number, IsInt, Zero
<1> DEFINE a == start.v
           s == step.v
<1> HIDE DEF a, s
<1>3. Towards(s, a, a) /\ a = a + 0 * s
  BY <1>2 DEF Towards, a, s
<1>4. CountingInts(l)
  BY <1>1, <1>2, <1>3 DEF CountingInts, a, s
<1> QED
  BY <1>4 DEF l

LEMMA StartsFloats ==
    ASSUME NEW kind, NEW start \in Number, NEW lim \in Number, NEW step \in Number, ~Zero(step)
    PROVE  LET l == Ready(kind, start, lim, step, {}, FALSE,
                          AsDouble(start), AsDouble(lim), AsDouble(step))
           IN  Steady(l) => CountingFloats(l)
<1> DEFINE l == Ready(kind, start, lim, step, {}, FALSE,
                      AsDouble(start), AsDouble(lim), AsDouble(step))
<1>1. /\ l.visits = 0 /\ l.start = start /\ l.lim = lim /\ l.step = step /\ l.ints = FALSE
      /\ l.i = AsDouble(start) /\ l.to = AsDouble(lim) /\ l.by = AsDouble(step)
  BY DEF Ready
<1> HIDE DEF l
<1> SUFFICES ASSUME Steady(l) PROVE CountingFloats(l)
  BY DEF l
<1>2. ASSUME NEW x \in Number, Halves(x) # NaN, AsDouble(x) \in Small \/ Halves(x) \in Small
      PROVE  Halves(x) \in Small /\ AsDouble(x) = Halves(x)
  <2>1. ~IsNaN(x)
    BY <1>2 DEF IsNaN, Halves
  <2>2. CASE IsInt(x)
    <3> DEFINE n == 2 * x.v
    <3>1. x.v \in Int /\ AsDouble(x) = RoundToFloat(n) /\ Roundable(n) /\ Halves(x) = n
      BY <2>1, <2>2, NumberIs DEF Halves
    <3>2. n % 2 = 0
      BY <3>1
    <3> HIDE DEF n
    <3> QED
      BY <1>2, <3>1, <3>2, SmallExact, RoundedToSmall
  <2>3. CASE ~IsInt(x)
    BY <1>2, <2>1, <2>3, NumberIs DEF Halves
  <2> QED
    BY <2>2, <2>3
<1>3. /\ NaN \notin {Halves(start), Halves(lim), Halves(step)}
      /\ {Halves(start), AsDouble(lim), AsDouble(step)} \subseteq Small
  BY <1>1 DEF Steady
<1>4. /\ Halves(start) \in Small /\ AsDouble(start) = Halves(start)
      /\ Halves(lim) \in Small /\ AsDouble(lim) = Halves(lim)
      /\ Halves(step) \in Small /\ AsDouble(step) = Halves(step)
  BY <1>2, <1>3
<1>5. Halves(step) # 0
  <2>1. ~IsNaN(step)
    BY <1>3 DEF IsNaN, Halves
  <2>2. step.v \in Int /\ step.v # 0
    BY <2>1, NumberIs DEF Zero
  <2> QED
    BY <2>2 DEF Halves
<1>6. Halves(start) \in Int /\ Halves(step) \in Int
  BY <1>4, WholeIs DEF Small
<1> DEFINE a == Halves(start)
           s == Halves(step)
<1> HIDE DEF a, s
<1>7. a = a + 0 * s
  BY <1>6 DEF a, s
<1> QED
  BY <1>1, <1>4, <1>5, <1>7 DEF CountingFloats, a, s

(* A loop that starts is at its first value. *)
LEMMA StartsRight ==
    ASSUME NEW start \in Number, NEW lim \in Number, NEW step \in Number, NEW literal \in BOOLEAN,
           \/ StartCounter(start, lim, literal, step)
           \/ StartNative(start, lim, step)
           \/ StartBoxed(start, lim, step)
    PROVE  LoopInv(loop')
<1>1. CASE StartCounter(start, lim, literal, step)
  <2> DEFINE cast == IF literal THEN {} ELSE {lim}
  <2>1. IsInt(start) /\ IsInt(step) /\ ~Zero(step) /\ (literal => IsInt(lim))
    BY <1>1 DEF StartCounter
  <2>2. PICK to \in CounterLimits(lim, step.v, literal) :
           loop' = Ready("counter", start, lim, step, cast, TRUE, start.v, to, step.v)
    BY <1>1 DEF StartCounter
  <2> DEFINE l == Ready("counter", start, lim, step, cast, TRUE, start.v, to, step.v)
  <2>s. l = Ready("counter", start, lim, step, cast, TRUE, start.v, to, step.v)
    OBVIOUS
  <2> HIDE DEF l
  <2>3. /\ LoopIs(l) /\ l.at = "test" /\ l.visits = 0 /\ l.ints \in BOOLEAN
        /\ l.cast = cast /\ l.ints = TRUE /\ l.start = start /\ l.lim = lim /\ l.step = step
    BY <2>s DEF Ready, LoopIs
  <2>4. ASSUME Steady(l) PROVE CountingInts(l)
    <3>1. ~literal => ~IsNaN(lim) /\ Held(lim)
      BY <2>3, <2>4 DEF Steady, IsNaN, Halves
    <3>2. start.v \in Ints /\ step.v \in Ints \ {0}
      BY <2>1 DEF Number, IsInt, Zero
    <3>3. to \in Ints /\ SameLimit(start.v, step.v, to, lim)
      BY <2>1, <3>1, <3>2, CounterLimit
    <3> HIDE DEF cast
    <3> QED
      BY <2>1, <2>4, <3>3, StartsInts DEF l
  <2>5. LoopInv(l)
    BY <2>3, <2>4, PreparedRight
  <2> QED
    BY <2>2, <2>5, <2>s
<1>2. ASSUME NEW kind, ~Zero(step),
             loop' = Ready(kind, start, lim, step, {}, FALSE,
                           AsDouble(start), AsDouble(lim), AsDouble(step))
      PROVE  LoopInv(loop')
  <2> DEFINE l == Ready(kind, start, lim, step, {}, FALSE,
                        AsDouble(start), AsDouble(lim), AsDouble(step))
  <2>1. Steady(l) => CountingFloats(l)
    BY <1>2, StartsFloats
  <2>s. l = Ready(kind, start, lim, step, {}, FALSE,
                  AsDouble(start), AsDouble(lim), AsDouble(step))
    OBVIOUS
  <2> HIDE DEF l
  <2>2. /\ LoopIs(l) /\ l.at = "test" /\ l.visits = 0 /\ l.ints \in BOOLEAN /\ l.ints = FALSE
    BY <2>s DEF Ready, LoopIs
  <2>3. LoopInv(l)
    BY <2>1, <2>2, PreparedRight
  <2> QED
    BY <1>2, <2>3, <2>s
<1>3. CASE StartNative(start, lim, step)
  BY <1>2, <1>3 DEF StartNative
<1>4. CASE StartBoxed(start, lim, step) /\ ~(IsInt(start) /\ IsInt(step))
  BY <1>2, <1>4 DEF StartBoxed
<1>5. CASE StartBoxed(start, lim, step) /\ IsInt(start) /\ IsInt(step)
  <2> DEFINE f == ForLimit(start.v, lim, step.v)
             l == Ready("boxed", start, lim, step, {}, TRUE, start.v, f.p, step.v)
             skipped == [l EXCEPT !.at = "over"]
  <2>1. ~Zero(step) /\ loop' = IF f.skip THEN skipped ELSE l
    BY <1>5 DEF StartBoxed
  <2>2. start.v \in Ints /\ step.v \in Ints \ {0}
    BY <1>5, <2>1 DEF Number, IsInt, Zero
  <2>3. /\ ~f.skip => f.p \in Ints
        /\ \A n \in Ints : Towards(step.v, start.v, n)
              => (~f.skip /\ Towards(step.v, n, f.p) <=> Towards(step.v, 2 * n, LimitHalves(lim)))
    BY <2>2, ForLimitIs
  <2> HIDE DEF f
  <2>4. CASE f.skip
    <3>1. loop' = [at |-> "over", kind |-> "boxed", start |-> start, lim |-> lim, step |-> step,
                   cast |-> {}, ints |-> TRUE, i |-> start.v, to |-> f.p, by |-> step.v, visits |-> 0]
      BY <2>1, <2>4 DEF Ready
    <3> DEFINE q == [at |-> "over", kind |-> "boxed", start |-> start, lim |-> lim, step |-> step,
                     cast |-> {}, ints |-> TRUE, i |-> start.v, to |-> f.p, by |-> step.v, visits |-> 0]
    <3>2. LoopIs(q) /\ q.at = "over" /\ q.visits = 0 /\ q.ints \in BOOLEAN
      BY DEF LoopIs
    <3>3. 0 \in 0 .. MaxVisits
      BY LoopsAssumption
    <3> HIDE DEF q
    <3>4. LoopInv(q)
      BY <3>2, <3>3 DEF LoopInv
    <3> QED
      BY <3>1, <3>4 DEF q
  <2>5. CASE ~f.skip
    <3>s. l = Ready("boxed", start, lim, step, {}, TRUE, start.v, f.p, step.v)
      OBVIOUS
    <3> HIDE DEF l
    <3>1. /\ LoopIs(l) /\ l.at = "test" /\ l.visits = 0 /\ l.ints \in BOOLEAN
          /\ l.ints = TRUE /\ l.lim = lim
      BY <3>s DEF Ready, LoopIs
    <3>2. ASSUME Steady(l) PROVE CountingInts(l)
      <4>1. ~IsNaN(lim)
        BY <3>1, <3>2 DEF Steady, IsNaN, Halves
      <4>2. LimitHalves(lim) = Halves(lim)
        BY <4>1 DEF LimitHalves, Halves
      <4>3. SameLimit(start.v, step.v, f.p, lim)
        BY <2>3, <2>5, <4>2 DEF SameLimit
      <4> QED
        BY <1>5, <2>1, <2>3, <2>5, <3>2, <4>3, StartsInts DEF l
    <3>3. LoopInv(l)
      BY <3>1, <3>2, PreparedRight
    <3> QED
      BY <2>1, <2>5, <3>3
  <2> QED
    BY <2>4, <2>5
<1> QED
  BY <1>1, <1>3, <1>4, <1>5

(* The sum of a literal and a float is a float, and so not steady; of the     *)
(* integers only those a double holds are.                                   *)
LEMMA StartsRightSum ==
    ASSUME NEW n \in Number, NEW x \in Number, NEW s \in Signs, NEW lim \in Number,
           NEW step \in Number, NEW literal \in BOOLEAN,
           StartCounterSum(n, x, s, lim, literal, step)
    PROVE  LoopInv(loop')
<1> DEFINE start == SumOf(n, x, s)
           cast == {x} \cup IF literal THEN {} ELSE {lim}
<1>1. PICK c \in Cuts(x), to \in CounterLimits(lim, step.v, literal) :
         loop' = Ready("counter", start, lim, step, cast, TRUE, Wrap(s[1] * n.v + s[2] * c),
                       to, step.v)
  BY DEF StartCounterSum
<1>2. IsInt(n) /\ IsInt(step) /\ ~Zero(step) /\ (literal => IsInt(lim))
  BY DEF StartCounterSum
<1>3. s[1] \in Int /\ s[2] \in Int
  BY DEF Signs
<1>4. IsInt(x) => start = [type |-> "Int64", v |-> Wrap(s[1] * n.v + s[2] * x.v)]
  BY DEF SumOf
<1>5. ~IsInt(x) => ~IsInt(start)
  BY DEF SumOf, IsInt
<1>6. IsInt(x) => start \in Number /\ IsInt(start)
  <2> SUFFICES ASSUME IsInt(x) PROVE start \in Number /\ IsInt(start)
    OBVIOUS
  <2> DEFINE a == s[1]
             b == s[2]
             k == a * n.v + b * x.v
  <2>1. n.v \in Int /\ x.v \in Int
    BY <1>2, NumberIs DEF IsNaN
  <2> HIDE DEF a, b
  <2>2. k \in Int
    BY <1>3, <2>1 DEF a, b
  <2>3. start = [type |-> "Int64", v |-> Wrap(k)]
    BY <1>4 DEF a, b
  <2> HIDE DEF k, start
  <2>4. Wrap(k) \in Ints
    BY <2>2, WrapIs
  <2> QED
    BY <2>3, <2>4 DEF Number, IsInt
<1>7. IsInt(x) /\ Held(x) => Wrap(s[1] * n.v + s[2] * c) = start.v
  <2> SUFFICES ASSUME IsInt(x), Held(x) PROVE Wrap(s[1] * n.v + s[2] * c) = start.v
    OBVIOUS
  <2> DEFINE k == x.v
  <2>1. k \in Int /\ AsDouble(x) = 2 * k /\ InIntRange(2 * k)
    BY NumberIs DEF Held, Halves, IsNaN
  <2>2. c \in {k} \cup CastToInt(2 * k)
    BY <1>1, <2>1 DEF Cuts
  <2> HIDE DEF k, start
  <2>3. 2 * k # NaN /\ (2 * k) \div 2 = k
    BY <2>1, NumbersAssumption
  <2>4. c = k
    BY <2>1, <2>2, <2>3 DEF CastToInt
  <2> QED
    BY <1>4, <2>4 DEF k
<1> DEFINE i == Wrap(s[1] * n.v + s[2] * c)
           l == Ready("counter", start, lim, step, cast, TRUE, i, to, step.v)
<1>s. l = Ready("counter", start, lim, step, cast, TRUE, i, to, step.v)
  OBVIOUS
<1>c. x \in cast /\ (~literal => lim \in cast)
  OBVIOUS
<1>8. loop' = l
  BY <1>1
<1> HIDE DEF l, i, start, cast
<1>9. /\ LoopIs(l) /\ l.at = "test" /\ l.visits = 0 /\ l.ints \in BOOLEAN
      /\ l.cast = cast /\ l.ints = TRUE /\ l.start = start /\ l.lim = lim /\ l.step = step
  BY <1>s DEF Ready, LoopIs
<1>10. ASSUME Steady(l) PROVE CountingInts(l)
  <2>1. IsInt(start) /\ Held(x) /\ (~literal => ~IsNaN(lim) /\ Held(lim))
    BY <1>c, <1>9, <1>10 DEF Steady, IsNaN, Halves
  <2>2. IsInt(x) /\ start \in Number /\ i = start.v
    BY <1>5, <1>6, <1>7, <2>1 DEF i
  <2>3. start.v \in Ints /\ step.v \in Ints \ {0}
    BY <1>2, <2>1, <2>2 DEF Number, IsInt, Zero
  <2>4. to \in Ints /\ SameLimit(start.v, step.v, to, lim)
    BY <1>2, <2>1, <2>3, CounterLimit
  <2>5. l = Ready("counter", start, lim, step, cast, TRUE, start.v, to, step.v)
    BY <1>s, <2>2
  <2> QED
    BY <1>2, <1>10, <2>1, <2>2, <2>4, <2>5, StartsInts
<1>11. LoopInv(l)
  BY <1>9, <1>10, PreparedRight
<1> QED
  BY <1>8, <1>11

(* The test of the loop, in either arithmetic. *)
LEMMA GoesOnIs ==
    ASSUME NEW l, NaN \notin {l.i, l.to, l.by}
    PROVE  GoesOn(l) <=> Towards(l.by, l.i, l.to)
  BY DEF GoesOn, Towards

LEMMA CountingNumbers ==
    ASSUME NEW l, IF l.ints THEN CountingInts(l) ELSE CountingFloats(l)
    PROVE  /\ l.i \in Int /\ l.to \in Int /\ l.by \in Int /\ l.by # 0
           /\ NaN \notin {l.i, l.to, l.by}
<1>1. Ints \subseteq Int /\ Small \subseteq Int
  BY Widths, WholeIs DEF Small
<1>2. l.i \in Int /\ l.to \in Int /\ l.by \in Int /\ l.by # 0
  BY <1>1 DEF CountingInts, CountingFloats
<1> QED
  BY <1>2

(* What never changes in a loop that runs. *)
Alike(l, m) ==
    /\ m.kind = l.kind /\ m.start = l.start /\ m.lim = l.lim /\ m.step = l.step
    /\ m.cast = l.cast /\ m.ints = l.ints /\ m.to = l.to /\ m.by = l.by

LEMMA AlikeSteady ==
    ASSUME NEW l, NEW m, Alike(l, m)
    PROVE  Steady(m) <=> Steady(l)
  BY DEF Alike, Steady

LEMMA AtMoved ==
    ASSUME NEW l, LoopIs(l), NEW a, NEW m, m = [l EXCEPT !.at = a]
    PROVE  LoopIs(m) /\ Alike(l, m) /\ m.at = a /\ m.i = l.i /\ m.visits = l.visits
<1> DEFINE q == [at |-> a, kind |-> l.kind, start |-> l.start, lim |-> l.lim, step |-> l.step,
                 cast |-> l.cast, ints |-> l.ints, i |-> l.i, to |-> l.to, by |-> l.by,
                 visits |-> l.visits]
<1>1. m = q
  BY DEF LoopIs
<1>2. LoopIs(q) /\ Alike(l, q) /\ q.at = a /\ q.i = l.i /\ q.visits = l.visits
  BY DEF LoopIs, Alike
<1> HIDE DEF q
<1> QED
  BY <1>1, <1>2

LEMMA TestRight ==
    ASSUME LoopInv(loop), Test
    PROVE  LoopInv(loop')
<1>1. /\ loop.at = "test"
      /\ loop' = [loop EXCEPT !.at = IF GoesOn(loop) THEN "body" ELSE "over"]
  BY DEF Test
<1>2. loop # NoLoop
  BY <1>1 DEF NoLoop
<1>3. /\ LoopIs(loop) /\ loop.visits \in 0 .. MaxVisits /\ loop.ints \in BOOLEAN
      /\ Steady(loop) => Counting(loop)
  BY <1>1, <1>2 DEF LoopInv
<1> DEFINE a == IF GoesOn(loop) THEN "body" ELSE "over"
<1>4. PICK m : m = loop'
  OBVIOUS
<1>5. m = [loop EXCEPT !.at = a]
  BY <1>1, <1>4
<1>6. a \in {"body", "over"} /\ (a = "body" => GoesOn(loop))
  OBVIOUS
<1> HIDE DEF a
<1>7. LoopIs(m) /\ Alike(loop, m) /\ m.at = a /\ m.i = loop.i /\ m.visits = loop.visits
  BY <1>3, <1>5, AtMoved
<1>8. ASSUME Steady(m), m.at # "over" PROVE Counting(m)
  <2>1. Counting(loop) /\ GoesOn(loop)
    BY <1>3, <1>6, <1>7, <1>8, AlikeSteady
  <2>2. IF loop.ints THEN CountingInts(loop) ELSE CountingFloats(loop)
    BY <2>1 DEF Counting
  <2>3. Towards(loop.by, loop.i, loop.to)
    BY <2>1, <2>2, CountingNumbers, GoesOnIs
  <2>4. IF m.ints THEN CountingInts(m) ELSE CountingFloats(m)
    BY <1>7, <2>2 DEF Alike, CountingInts, CountingFloats
  <2>5. Towards(m.by, m.i, m.to)
    BY <1>7, <2>3 DEF Alike
  <2> QED
    BY <2>4, <2>5 DEF Counting
<1>9. LoopInv(m)
  <2>1. m.ints \in BOOLEAN /\ m.visits \in 0 .. MaxVisits /\ m.at \in {"test", "body", "over"}
    BY <1>3, <1>6, <1>7 DEF Alike
  <2> QED
    BY <1>7, <1>8, <2>1 DEF LoopInv
<1> QED
  BY <1>4, <1>9

LEMMA BreakRight ==
    ASSUME LoopInv(loop), Break
    PROVE  LoopInv(loop')
<1>1. loop.at = "body" /\ loop' = [loop EXCEPT !.at = "over"]
  BY DEF Break
<1>2. loop # NoLoop
  BY <1>1 DEF NoLoop
<1>3. LoopIs(loop) /\ loop.visits \in 0 .. MaxVisits /\ loop.ints \in BOOLEAN
  BY <1>2 DEF LoopInv
<1>4. PICK m : m = loop'
  OBVIOUS
<1>5. m = [loop EXCEPT !.at = "over"]
  BY <1>1, <1>4
<1>6. LoopIs(m) /\ Alike(loop, m) /\ m.at = "over" /\ m.visits = loop.visits
  BY <1>3, <1>5, AtMoved
<1>7. LoopInv(m)
  BY <1>3, <1>6 DEF LoopInv, Alike
<1> QED
  BY <1>4, <1>7

(* A counter that is not beyond the limit does not overflow on its way past   *)
(* it, if the first integer past the limit does not.                         *)
LEMMA AdvanceInts ==
    ASSUME NEW l, CountingInts(l), l.to + l.by \in Ints, Towards(l.by, l.i, l.to)
    PROVE  /\ Wrap(l.i + l.by) = l.i + l.by /\ l.i + l.by \in Ints
           /\ Towards(l.by, l.start.v, l.i + l.by)
<1> DEFINE i == l.i
           to == l.to
           by == l.by
           a == l.start.v
<1>1. /\ i \in Int /\ to \in Int /\ by \in Int /\ a \in Int /\ by # 0
      /\ i \in Ints /\ to \in Ints /\ Towards(by, a, i)
  BY Widths DEF CountingInts
<1>2. to + by \in Ints /\ Towards(by, i, to)
  OBVIOUS
<1> HIDE DEF i, to, by, a
<1>3. i + by \in Ints
  BY <1>1, <1>2, Widths DEF Towards
<1>4. Towards(by, a, i + by)
  BY <1>1 DEF Towards
<1>5. Wrap(i + by) = i + by
  <2> DEFINE n == i + by
  <2>1. n \in Int /\ n \in Ints
    BY <1>1, <1>3
  <2> HIDE DEF n
  <2>2. Wrap(n) = n
    BY <2>1, WrapIs
  <2> QED
    BY <2>2 DEF n
<1> QED
  BY <1>3, <1>4, <1>5 DEF i, to, by, a

LEMMA AdvanceFloats ==
    ASSUME NEW l, CountingFloats(l), l.to + l.by \in Small, Towards(l.by, l.i, l.to)
    PROVE  Added(l.i, l.by) = l.i + l.by /\ l.i + l.by \in Small
<1> DEFINE i == l.i
           to == l.to
           by == l.by
<1>0. /\ Whole \in Nat /\ Whole <= Half /\ Half \in Nat /\ Half >= 4
      /\ PInf = 32 * Half /\ NInf = -(32 * Half) /\ MaxFloat = 8 * Half
  BY WholeIs, Widths
<1>1. /\ i \in Int /\ to \in Int /\ by \in Int /\ by # 0
      /\ i \in Small /\ to \in Small /\ by \in Small
  BY <1>0 DEF CountingFloats, Small
<1>2. to + by \in Small /\ Towards(by, i, to)
  OBVIOUS
<1> HIDE DEF i, to, by
<1>3. i + by \in Small
  BY <1>0, <1>1, <1>2 DEF Towards, Small
<1> DEFINE n == i + by
<1>4. n \in Int /\ n \in Small
  BY <1>1, <1>3
<1>5. Added(i, by) = LET sum == RoundToFloat(n)
                     IN  IF NaN \in {i, by} \/ {i, by} = {PInf, NInf} THEN NaN
                         ELSE IF PInf \in {i, by} \/ sum > MaxFloat THEN PInf
                         ELSE IF NInf \in {i, by} \/ sum < -MaxFloat THEN NInf
                         ELSE sum
  BY DEF Added
<1> HIDE DEF n
<1>6. RoundToFloat(n) = n
  BY <1>4, SmallExact
<1>7. i # PInf /\ i # NInf /\ by # PInf /\ by # NInf /\ ~(n > MaxFloat) /\ ~(n < -MaxFloat)
  BY <1>0, <1>1, <1>4 DEF Small
<1>8. NaN \notin {i, by} /\ {i, by} # {PInf, NInf} /\ PInf \notin {i, by} /\ NInf \notin {i, by}
  BY <1>1, <1>7
<1>9. Added(i, by) = n
  BY <1>5, <1>6, <1>7, <1>8
<1> QED
  BY <1>3, <1>9 DEF i, to, by, n

LEMMA AdvanceRight ==
    ASSUME LoopInv(loop), Advance
    PROVE  LoopInv(loop')
<1> DEFINE new == IF loop.ints THEN Wrap(loop.i + loop.by) ELSE Added(loop.i, loop.by)
           visits == IF loop.visits < MaxVisits THEN loop.visits + 1 ELSE loop.visits
<1>1. /\ loop.at = "body"
      /\ loop' = [loop EXCEPT !.at = "test", !.i = new, !.visits = visits]
  BY DEF Advance
<1>2. loop # NoLoop
  BY <1>1 DEF NoLoop
<1>3. /\ LoopIs(loop) /\ loop.visits \in 0 .. MaxVisits /\ loop.ints \in BOOLEAN
      /\ Steady(loop) => Counting(loop)
  BY <1>1, <1>2 DEF LoopInv
<1>4. PICK m : m = loop'
  OBVIOUS
<1>5. m = [loop EXCEPT !.at = "test", !.i = new, !.visits = visits]
  BY <1>1, <1>4
<1>6. /\ visits \in 0 .. MaxVisits /\ loop.visits \in Int
      /\ visits < MaxVisits => visits = loop.visits + 1 /\ loop.visits < MaxVisits
  BY <1>3, LoopsAssumption
<1>n. new = IF loop.ints THEN Wrap(loop.i + loop.by) ELSE Added(loop.i, loop.by)
  OBVIOUS
<1> HIDE DEF new, visits
<1>7. LoopIs(m) /\ Alike(loop, m) /\ m.at = "test" /\ m.i = new /\ m.visits = visits
  <2> DEFINE q == [at |-> "test", kind |-> loop.kind, start |-> loop.start, lim |-> loop.lim,
                   step |-> loop.step, cast |-> loop.cast, ints |-> loop.ints, i |-> new, to |-> loop.to,
                   by |-> loop.by, visits |-> visits]
  <2>1. m = q
    BY <1>3, <1>5 DEF LoopIs
  <2>2. LoopIs(q) /\ Alike(loop, q) /\ q.at = "test" /\ q.i = new /\ q.visits = visits
    BY DEF LoopIs, Alike
  <2> HIDE DEF q
  <2> QED
    BY <2>1, <2>2
<1>8. ASSUME NEW a \in Int, NEW v \in Int, NEW by \in Int
      PROVE  a + (v + 1) * by = (a + v * by) + by
  BY <1>8
<1>9. ASSUME Steady(m) PROVE Counting(m)
  <2>1. Steady(loop) /\ Counting(loop)
    BY <1>3, <1>7, <1>9, AlikeSteady
  <2>2. Towards(loop.by, loop.i, loop.to)
    BY <1>1, <2>1 DEF Counting
  <2>3. CASE loop.ints
    <3>1. CountingInts(loop) /\ loop.to + loop.by \in Ints
      BY <2>1, <2>3 DEF Counting, Steady
    <3>2. /\ new = loop.i + loop.by /\ new \in Ints
          /\ Towards(loop.by, loop.start.v, new)
      BY <1>n, <2>2, <2>3, <3>1, AdvanceInts
    <3>3. visits < MaxVisits => new = loop.start.v + visits * loop.by
      <4> SUFFICES ASSUME visits < MaxVisits
                   PROVE  new = loop.start.v + visits * loop.by
        OBVIOUS
      <4>1. loop.i = loop.start.v + loop.visits * loop.by /\ visits = loop.visits + 1
        BY <1>6, <3>1 DEF CountingInts
      <4>2. loop.start.v \in Int /\ loop.by \in Int
        BY <3>1, Widths DEF CountingInts
      <4>3. loop.start.v + (loop.visits + 1) * loop.by
              = (loop.start.v + loop.visits * loop.by) + loop.by
        BY <1>6, <1>8, <4>2
      <4> QED
        BY <3>2, <4>1, <4>3
    <3>4. CountingInts(m)
      BY <1>7, <3>1, <3>2, <3>3 DEF CountingInts, Alike
    <3> QED
      BY <1>7, <2>3, <3>4 DEF Counting, Alike
  <2>4. CASE ~loop.ints
    <3>1. CountingFloats(loop) /\ loop.to + loop.by \in Small
      BY <2>1, <2>4 DEF Counting, Steady
    <3>2. new = loop.i + loop.by /\ new \in Small
      BY <1>n, <2>2, <2>4, <3>1, AdvanceFloats
    <3>3. visits < MaxVisits => new = Halves(loop.start) + visits * loop.by
      <4> SUFFICES ASSUME visits < MaxVisits
                   PROVE  new = Halves(loop.start) + visits * loop.by
        OBVIOUS
      <4>1. loop.i = Halves(loop.start) + loop.visits * loop.by /\ visits = loop.visits + 1
        BY <1>6, <3>1 DEF CountingFloats
      <4>2. Halves(loop.start) \in Int /\ loop.by \in Int
        BY <3>1, WholeIs DEF CountingFloats, Small
      <4>3. Halves(loop.start) + (loop.visits + 1) * loop.by
              = (Halves(loop.start) + loop.visits * loop.by) + loop.by
        BY <1>6, <1>8, <4>2
      <4> QED
        BY <3>2, <4>1, <4>3
    <3>4. Halves(m.start) = Halves(loop.start) /\ Halves(m.lim) = Halves(loop.lim)
          /\ Halves(m.step) = Halves(loop.step)
      BY <1>7 DEF Alike
    <3>5. CountingFloats(m)
      BY <1>7, <3>1, <3>2, <3>3, <3>4 DEF CountingFloats, Alike
    <3> QED
      BY <1>7, <2>4, <3>5 DEF Counting, Alike
  <2> QED
    BY <2>3, <2>4
<1>10. LoopInv(m)
  <2>1. m.ints \in BOOLEAN
    BY <1>3, <1>7 DEF Alike
  <2> QED
    BY <1>6, <1>7, <1>9, <2>1 DEF LoopInv
<1> QED
  BY <1>4, <1>10

LEMMA LoopHolds == LoopSpec => []LoopInv(loop)
<1>1. LoopInit => LoopInv(loop)
  BY DEF LoopInit, LoopInv
<1>2. LoopInv(loop) /\ [LoopNext]_loop => LoopInv(loop)'
  <2> SUFFICES ASSUME LoopInv(loop), [LoopNext]_loop
               PROVE  LoopInv(loop')
    OBVIOUS
  <2>1. /\ Starts \subseteq Number /\ Limits \subseteq Number /\ Steps \subseteq Number
        /\ Addends \subseteq Number
    BY LoopsAssumption
  <2>2. ASSUME NEW start \in Starts, NEW lim \in Limits, NEW step \in Steps,
               NEW literal \in BOOLEAN,
               \/ StartCounter(start, lim, literal, step)
               \/ StartNative(start, lim, step)
               \/ StartBoxed(start, lim, step)
        PROVE  LoopInv(loop')
    BY <2>1, <2>2, StartsRight
  <2>3. ASSUME NEW start \in Starts, NEW lim \in Limits, NEW step \in Steps,
               NEW literal \in BOOLEAN, NEW x \in Addends, NEW s \in Signs,
               StartCounterSum(start, x, s, lim, literal, step)
        PROVE  LoopInv(loop')
    BY <2>1, <2>3, StartsRightSum
  <2>4. CASE Test
    BY <2>4, TestRight
  <2>5. CASE Advance
    BY <2>5, AdvanceRight
  <2>6. CASE Break
    BY <2>6, BreakRight
  <2>7. CASE LeaveLoop
    BY <2>7 DEF LeaveLoop, LoopInv
  <2>8. CASE UNCHANGED loop
    BY <2>8
  <2> QED
    BY <2>2, <2>3, <2>4, <2>5, <2>6, <2>7, <2>8 DEF LoopNext
<1> QED
  BY <1>1, <1>2, PTL DEF LoopSpec

(* Whatever the compiler makes of an exact loop (no cast changes a number it   *)
(* depends on, and its counter stays where its type is exact), the body runs  *)
(* for the progression up to the limit as written, at any width of integers   *)
(* and floats (the numeric 'for' of loops.cpp and forlimit).                 *)
THEOREM VisitsAreTheProgression == LoopSpec => []VisitsProgression
<1>1. ASSUME LoopInv(loop) PROVE VisitsProgression
  <2> SUFFICES ASSUME loop # NoLoop, loop.visits < MaxVisits, Exact
               PROVE  LET value == IF loop.ints THEN 2 * loop.i ELSE loop.i
                      IN  /\ loop.at \in {"test", "body"} => value = Nth(loop.visits)
                          /\ loop.at = "body" => Respects(value)
                          /\ loop.at = "test" /\ ~GoesOn(loop) => ~Respects(Nth(loop.visits))
    BY DEF VisitsProgression
  <2> DEFINE value == IF loop.ints THEN 2 * loop.i ELSE loop.i
             n == loop.visits
  <2>1. Steady(loop)
    BY DEF Exact, Steady, Small, Whole
  <2>2. /\ loop.at \in {"test", "body", "over"} /\ n \in Int
        /\ loop.at # "over" => Counting(loop)
    BY <1>1, <2>1 DEF LoopInv
  <2> SUFFICES ASSUME loop.at \in {"test", "body"}
               PROVE  /\ value = Nth(n)
                      /\ loop.at = "body" => Respects(value)
                      /\ loop.at = "test" /\ ~GoesOn(loop) => ~Respects(Nth(n))
    BY <2>2
  <2>3. /\ IF loop.ints THEN CountingInts(loop) ELSE CountingFloats(loop)
        /\ loop.at = "body" => Towards(loop.by, loop.i, loop.to)
    BY <2>2 DEF Counting
  <2>4. GoesOn(loop) <=> Towards(loop.by, loop.i, loop.to)
    BY <2>3, CountingNumbers, GoesOnIs
  <2>5. value = Nth(n) /\ (Respects(value) <=> Towards(loop.by, loop.i, loop.to))
    <3>1. CASE loop.ints
      <4> DEFINE a == loop.start.v
                 i == loop.i
                 by == loop.by
      <4>1. /\ a \in Int /\ i \in Int /\ by \in Int /\ i \in Ints
            /\ i = a + n * by /\ Towards(by, a, i)
            /\ Halves(loop.start) = 2 * a /\ Halves(loop.step) = 2 * by
            /\ SameLimit(a, by, loop.to, loop.lim)
        BY <2>3, <3>1, Widths DEF CountingInts, Halves
      <4>2. value = 2 * i
        BY <3>1
      <4>3. Towards(by, i, loop.to) <=> Towards(by, 2 * i, Halves(loop.lim))
        BY <4>1 DEF SameLimit
      <4> HIDE DEF a, i, by, value, n
      <4>4. 2 * i = 2 * a + n * (2 * by)
        BY <2>2, <4>1
      <4>5. Respects(2 * i) <=> Towards(by, 2 * i, Halves(loop.lim))
        BY <4>1 DEF Respects, Towards
      <4> QED
        BY <4>1, <4>2, <4>3, <4>4, <4>5 DEF Nth, i, by
    <3>2. CASE ~loop.ints
      <4>1. /\ loop.i = Halves(loop.start) + n * loop.by
            /\ loop.to = Halves(loop.lim) /\ loop.by = Halves(loop.step)
        BY <2>3, <3>2 DEF CountingFloats
      <4>2. value = loop.i
        BY <3>2
      <4> HIDE DEF value
      <4> QED
        BY <4>1, <4>2 DEF Nth, Respects, Towards
    <3> QED
      BY <3>1, <3>2
  <2> HIDE DEF value, n
  <2> QED
    BY <2>3, <2>4, <2>5
<1> QED
  BY <1>1, LoopHolds, PTL
=============================================================================

---------------------------- MODULE TableProofs ----------------------------
(***************************************************************************)
(* Proofs about the tables of Table, for any keys, hashes, payloads and      *)
(* sizes: the length hint, the counters that decide when the hash is         *)
(* rebuilt, and the traversal; then, of tables without tombstones, that      *)
(* reads and lengths are right and that they implement a dictionary.        *)
(***************************************************************************)
EXTENDS TableProps, FiniteSetTheorems, SequenceTheorems, WellFoundedInduction, TLAPS

Field == Value \cup {Nil}

Slot == [key : Key \cup Free, val : Field]

SlotMap(size) == [0 .. size - 1 -> Slot]

Record(t) ==
    [arr |-> t.arr, cap |-> t.cap, small |-> t.small, lim |-> t.lim, size |-> t.size,
     slots |-> t.slots, count |-> t.count, tombs |-> t.tombs, cache |-> t.cache]

(* The array part: the hint is below the first nil, and what is above the    *)
(* integers that are keys is nil.                                           *)
ArrayOK(t) ==
    /\ t.arr \in Seq(Field) /\ t.cap \in Nat /\ Len(t.arr) <= t.cap /\ t.small \in BOOLEAN
    /\ t.lim \in Nat /\ t.lim <= Len(t.arr)
    /\ \A i \in 1 .. t.lim : t.arr[i] # Nil
    /\ \A i \in 1 .. Len(t.arr) : t.arr[i] # Nil => i <= MaxIndex

CacheMap(size) ==
    [DOMAIN NoCache ->
        {Nil} \cup [payload : {Payload[k] : k \in Key}, at : 0 .. size - 1]]

(* The hash part, and where the cache points into it. *)
HashOK(t) ==
    /\ t.size \in Nat /\ (t.size > 3 \/ t.size = 0)
    /\ t.slots \in SlotMap(t.size)
    /\ t.cache \in CacheMap(t.size)

Live(slots) == {s \in DOMAIN slots : slots[s].key \notin Free /\ slots[s].val # Nil}

Filled(slots) == {s \in DOMAIN slots : slots[s].key # Empty}

(* count is exact; tombs is not less than the tombstones and the keys         *)
(* without a value, which it counts when they appear and does not forget     *)
(* when a tombstone is inserted over.                                       *)
CountersOK(t) ==
    /\ t.count \in Nat /\ t.tombs \in Nat
    /\ t.count = Cardinality(Live(t.slots))
    /\ Cardinality(Filled(t.slots)) <= t.count + t.tombs
    /\ t.size > 0 => 4 * (t.count + t.tombs) < 3 * t.size

(* The probe for a key reaches its slot before an empty one. *)
Reached(slots, size, k, s) ==
    \E i \in 0 .. size - 1 :
        Pos(size, k, i) = s /\ \A j \in 0 .. i - 1 : slots[Pos(size, k, j)].key # Empty

PathsIn(slots, size) ==
    \A s \in 0 .. size - 1 :
        slots[s].key \notin Free => Reached(slots, size, slots[s].key, s)

PathsOK(t) == PathsIn(t.slots, t.size)

TabOK(t) == t = Record(t) /\ ArrayOK(t) /\ HashOK(t) /\ CountersOK(t) /\ PathsOK(t)

(* The traversal stands at an index of the array part or at a slot. *)
StandsAt(t, k) ==
    /\ k \in Key
    /\ \/ Cut[k] \in 1 .. Len(t.arr)
       \/ \E s \in 0 .. t.size - 1 : t.slots[s].key = k

CursorOK == Walking /\ ~Updates => StandsAt(tab, cursor)

TabIInv == TabOK(tab) /\ CursorOK

-----------------------------------------------------------------------------
LEMMA MinIs ==
    ASSUME NEW S \in SUBSET Nat, S # {}
    PROVE  Min(S) \in S /\ \A y \in S : Min(S) <= y
<1> DEFINE R == OpToRel(<, Nat)
<1>1. IsWellFoundedOn(R, Nat)
  BY NatLessThanWellFounded
<1>2. \A y, x \in Nat : <<y, x>> \in R <=> y < x
  BY DEF OpToRel
<1> HIDE DEF R
<1>3. PICK x \in S : \A y \in S : ~(<<y, x>> \in R)
  BY <1>1, WFMin
<1>4. ASSUME NEW y \in S PROVE x <= y
  <2>1. x \in Nat /\ y \in Nat
    OBVIOUS
  <2>2. ~(y < x)
    BY <1>2, <1>3, <2>1, Zenon
  <2> QED
    BY <2>1, <2>2
<1> QED
  BY <1>4 DEF Min

LEMMA MaxOf ==
    ASSUME NEW N \in Nat, NEW S \in SUBSET (0 .. N), S # {}
    PROVE  Max(S) \in S /\ \A y \in S : Max(S) >= y
<1> DEFINE T == {N - x : x \in S}
<1>1. T \in SUBSET Nat /\ T # {}
  <2>1. \A x \in S : x \in 0 .. N
    OBVIOUS
  <2>2. \A x \in 0 .. N : N - x \in Nat
    OBVIOUS
  <2> QED
    BY <2>1, <2>2
<1>2. Min(T) \in T /\ \A y \in T : Min(T) <= y
  <2> HIDE DEF T
  <2> QED
    BY <1>1, MinIs
<1>3. PICK x \in S : Min(T) = N - x
  BY <1>2
<1>4. ASSUME NEW y \in S PROVE x >= y
  <2>1. N - x <= N - y
    BY <1>2, <1>3
  <2>2. x \in Nat /\ y \in Nat
    OBVIOUS
  <2> QED
    BY <2>1, <2>2
<1>5. \E z \in S : \A y \in S : z >= y
  BY <1>4
<1> QED
  BY <1>5 DEF Max

LEMMA MinTwo ==
    ASSUME NEW a \in Int, NEW b \in Int
    PROVE  Min({a, b}) = IF a <= b THEN a ELSE b
<1> DEFINE m == IF a <= b THEN a ELSE b
<1>1. m \in {a, b} /\ \A y \in {a, b} : m <= y
  OBVIOUS
<1>2. \A x \in {a, b} : (\A y \in {a, b} : x <= y) => x = m
  OBVIOUS
<1> HIDE DEF m
<1>3. Min({a, b}) = m
  BY <1>1, <1>2 DEF Min
<1> QED
  BY <1>3 DEF m

LEMMA MaxTwo ==
    ASSUME NEW a \in Int, NEW b \in Int
    PROVE  Max({a, b}) = IF a >= b THEN a ELSE b
<1> DEFINE m == IF a >= b THEN a ELSE b
<1>1. m \in {a, b} /\ \A y \in {a, b} : m >= y
  OBVIOUS
<1>2. \A x \in {a, b} : (\A y \in {a, b} : x >= y) => x = m
  OBVIOUS
<1> HIDE DEF m
<1>3. Max({a, b}) = m
  BY <1>1, <1>2 DEF Max
<1> QED
  BY <1>3 DEF m

(* What holds of 0 and, below N, of n + 1 when it holds of n.                *)
LEMMA UpTo ==
    ASSUME NEW N \in Nat, NEW S, 0 \in S,
           \A n \in 0 .. N - 1 : n \in S => n + 1 \in S
    PROVE  0 .. N \subseteq S
<1> DEFINE Bad == {n \in 0 .. N : n \notin S}
<1> SUFFICES ASSUME Bad # {} PROVE FALSE
  OBVIOUS
<1> DEFINE m == Min(Bad)
<1>0. Bad \in SUBSET Nat
  OBVIOUS
<1>1. m \in Bad /\ \A y \in Bad : m <= y
  <2> HIDE DEF Bad
  <2> QED
    BY <1>0, MinIs
<1>2. m \in Nat /\ m \in 0 .. N /\ m \notin S /\ m # 0
  BY <1>1
<1> HIDE DEF m
<1>3. m - 1 \in 0 .. N - 1 /\ ~(m <= m - 1) /\ m - 1 + 1 = m /\ m - 1 \in 0 .. N
  BY <1>2
<1>4. m - 1 \in S
  BY <1>1, <1>3
<1> QED
  BY <1>2, <1>3, <1>4

(* A function defined by recursion from 0 to N exists. *)
Solution(N, X, x0, step, f) ==
    /\ f \in [0 .. N -> X]
    /\ f[0] = x0
    /\ \A n \in 1 .. N : f[n] = step[n][f[n - 1]]

LEMMA RecursionSolved ==
    ASSUME NEW N \in Nat, NEW X, NEW x0 \in X, NEW step \in [1 .. N -> [X -> X]]
    PROVE  \E f : Solution(N, X, x0, step, f)
<1> DEFINE Solves(n, f) == /\ f \in [0 .. n -> X] /\ f[0] = x0
                           /\ \A k \in 1 .. n : f[k] = step[k][f[k - 1]]
           S == {n \in 0 .. N : \E f : Solves(n, f)}
<1>1. 0 \in S
  <2> DEFINE f == [k \in 0 .. 0 |-> x0]
  <2>1. f \in [0 .. 0 -> X] /\ f[0] = x0
    OBVIOUS
  <2>2. \A k \in 1 .. 0 : f[k] = step[k][f[k - 1]]
    OBVIOUS
  <2>3. 0 \in 0 .. N /\ Solves(0, f)
    BY <2>1, <2>2
  <2> QED
    BY <2>3
<1>2. ASSUME NEW n \in 0 .. N - 1, n \in S PROVE n + 1 \in S
  <2>1. PICK f : Solves(n, f)
    BY <1>2
  <2> DEFINE g == [k \in 0 .. n + 1 |-> IF k = n + 1 THEN step[n + 1][f[n]] ELSE f[k]]
  <2>2. n \in Nat /\ n + 1 \in 1 .. N /\ n + 1 \in 0 .. N /\ n \in 0 .. n
    OBVIOUS
  <2>3. step[n + 1][f[n]] \in X
    BY <2>1, <2>2
  <2>4. g \in [0 .. n + 1 -> X] /\ g[0] = x0
    BY <2>1, <2>2, <2>3
  <2>5. ASSUME NEW k \in 1 .. n + 1 PROVE g[k] = step[k][g[k - 1]]
    <3>1. k - 1 \in 0 .. n /\ g[k - 1] = f[k - 1]
      BY <2>2
    <3>2. CASE k = n + 1
      BY <2>2, <3>1, <3>2
    <3>3. CASE k # n + 1
      <4>1. k \in 1 .. n
        BY <2>2, <3>3
      <4> QED
        BY <2>1, <3>1, <3>3, <4>1
    <3> QED
      BY <3>2, <3>3
  <2>6. Solves(n + 1, g)
    BY <2>4, <2>5
  <2> QED
    BY <2>2, <2>6
<1>3. 0 .. N \subseteq S
  BY <1>1, <1>2, UpTo
<1> HIDE DEF Solves
<1>4. N \in S
  BY <1>3
<1>5. PICK f : Solves(N, f)
  BY <1>4
<1> QED
  BY <1>5 DEF Solves, Solution

LEMMA IntervalSize ==
    ASSUME NEW N \in Nat
    PROVE  IsFiniteSet(1 .. N) /\ Cardinality(1 .. N) = N
<1>1. 1 \in Int /\ N \in Int
  OBVIOUS
<1>2. IsFiniteSet(1 .. N) /\ Cardinality(1 .. N) = IF 1 > N THEN 0 ELSE N - 1 + 1
  BY <1>1, FS_Interval
<1> DEFINE C == Cardinality(1 .. N)
<1>3. C = IF 1 > N THEN 0 ELSE N - 1 + 1
  BY <1>2
<1> HIDE DEF C
<1>4. C = N
  BY <1>3
<1> QED
  BY <1>2, <1>4 DEF C

LEMMA OneMore ==
    ASSUME NEW S, IsFiniteSet(S), NEW x
    PROVE  /\ IsFiniteSet(S \cup {x})
           /\ Cardinality(S \cup {x}) <= Cardinality(S) + 1
<1>1. Cardinality(S) \in Nat
  BY FS_CardinalityType
<1>2. CASE x \in S
  <2>1. S \cup {x} = S
    BY <1>2
  <2> DEFINE N == Cardinality(S)
  <2> HIDE DEF N
  <2>2. N \in Nat
    BY <1>1 DEF N
  <2>3. N <= N + 1
    BY <2>2
  <2> QED
    BY <2>1, <2>3 DEF N
<1>3. CASE x \notin S
  <2>1. IsFiniteSet(S \cup {x}) /\ Cardinality(S \cup {x}) = Cardinality(S) + 1
    BY <1>3, FS_AddElement
  <2> QED
    BY <1>1, <2>1
<1> QED
  BY <1>2, <1>3

-----------------------------------------------------------------------------
(* The probe for a key visits every slot. *)
LEMMA SlotsOf ==
    ASSUME NEW size \in Nat, NEW slots \in SlotMap(size)
    PROVE  /\ DOMAIN slots = 0 .. size - 1 /\ Cardinality(DOMAIN slots) = size
           /\ IsFiniteSet(DOMAIN slots)
           /\ \A s \in 0 .. size - 1 : /\ slots[s].key \in Key \cup Free
                                        /\ slots[s].val \in Field
<1>1. DOMAIN slots = 0 .. size - 1
  BY DEF SlotMap
<1>2. 0 \in Int /\ size - 1 \in Int
  OBVIOUS
<1>3. /\ IsFiniteSet(0 .. size - 1)
      /\ Cardinality(0 .. size - 1) = IF 0 > size - 1 THEN 0 ELSE size - 1 - 0 + 1
  BY <1>2, FS_Interval
<1> DEFINE N == Cardinality(0 .. size - 1)
<1>4. N = IF 0 > size - 1 THEN 0 ELSE size - 1 - 0 + 1
  BY <1>3
<1> HIDE DEF N
<1>5. N = size
  BY <1>4
<1>6. \A s \in 0 .. size - 1 : slots[s] \in Slot
  BY DEF SlotMap
<1> QED
  BY <1>1, <1>3, <1>5, <1>6 DEF N, Slot

LEMMA PosVisits ==
    ASSUME NEW size \in Nat \ {0}, NEW k \in Key
    PROVE  /\ \A i \in 0 .. size - 1 : Pos(size, k, i) \in 0 .. size - 1
           /\ \A s \in 0 .. size - 1 : \E i \in 0 .. size - 1 : Pos(size, k, i) = s
<1> DEFINE h == Home[k] % size
<1>0. Home[k] \in Nat
  BY KeyAssumption DEF KeyAssumption
<1>1. h \in 0 .. size - 1
  BY <1>0
<1>2. \A i \in 0 .. size - 1 : Pos(size, k, i) = IF h + i < size THEN h + i ELSE h + i - size
  BY <1>0 DEF Pos
<1> HIDE DEF h
<1>3. \A i \in 0 .. size - 1 : Pos(size, k, i) \in 0 .. size - 1
  BY <1>1, <1>2
<1>4. ASSUME NEW s \in 0 .. size - 1
      PROVE  \E i \in 0 .. size - 1 : Pos(size, k, i) = s
  <2> DEFINE i == IF s >= h THEN s - h ELSE s - h + size
  <2>1. i \in 0 .. size - 1
    BY <1>1
  <2>2. Pos(size, k, i) = s
    BY <1>1, <1>2
  <2> QED
    BY <2>1, <2>2
<1> QED
  BY <1>3, <1>4

(* The first slot of a probe with a property that some slot has. *)
LEMMA FirstOf ==
    ASSUME NEW size \in Nat \ {0}, NEW k \in Key, NEW Hit \in SUBSET (0 .. size - 1), Hit # {}
    PROVE  LET stops == {i \in 0 .. size - 1 : Pos(size, k, i) \in Hit}
               i == Min(stops)
           IN  /\ stops # {} /\ i \in 0 .. size - 1 /\ Pos(size, k, i) \in Hit
               /\ \A j \in 0 .. i - 1 : /\ j \in 0 .. size - 1
                                       /\ Pos(size, k, j) \in (0 .. size - 1) \ Hit
<1> DEFINE stops == {i \in 0 .. size - 1 : Pos(size, k, i) \in Hit}
           i == Min(stops)
<1>1. stops \in SUBSET Nat /\ stops # {}
  <2>1. PICK s \in Hit : s \in 0 .. size - 1
    OBVIOUS
  <2>2. PICK u \in 0 .. size - 1 : Pos(size, k, u) = s
    BY <2>1, PosVisits
  <2>3. u \in stops
    BY <2>1, <2>2
  <2>4. 0 .. size - 1 \subseteq Nat
    OBVIOUS
  <2> QED
    BY <2>3, <2>4
<1>2. i \in stops /\ \A y \in stops : i <= y
  <2> HIDE DEF stops
  <2> QED
    BY <1>1, MinIs
<1>3. i \in 0 .. size - 1 /\ Pos(size, k, i) \in Hit
  BY <1>2
<1>4. \A y \in 0 .. size - 1 : Pos(size, k, y) \in Hit => i <= y
  BY <1>2
<1> HIDE DEF i
<1>5. ASSUME NEW j \in 0 .. i - 1
      PROVE  j \in 0 .. size - 1 /\ Pos(size, k, j) \in (0 .. size - 1) \ Hit
  <2>1. j \in 0 .. size - 1 /\ ~(i <= j)
    BY <1>3
  <2> QED
    BY <1>4, <2>1, PosVisits
<1> QED
  BY <1>1, <1>3, <1>5 DEF i

-----------------------------------------------------------------------------
(* The array part. *)
LEMMA SeqIs ==
    ASSUME NEW n \in Nat, NEW S, NEW f \in [1 .. n -> S]
    PROVE  f \in Seq(S) /\ Len(f) = n
<1>1. f \in Seq(S)
  BY SeqDef
<1>2. DOMAIN f = 1 .. n /\ DOMAIN f = 1 .. Len(f) /\ Len(f) \in Nat
  BY <1>1
<1> DEFINE m == Len(f)
<1>3. 1 .. m = 1 .. n /\ m \in Nat
  BY <1>2
<1> HIDE DEF m
<1>4. m = n
  <2>1. CASE m < n
    <3>1. n \in 1 .. n /\ n \notin 1 .. m
      BY <1>3, <2>1
    <3> QED
      BY <1>3, <3>1
  <2>2. CASE n < m
    <3>1. m \in 1 .. m /\ m \notin 1 .. n
      BY <1>3, <2>2
    <3> QED
      BY <1>3, <3>1
  <2> QED
    BY <1>3, <2>1, <2>2
<1> QED
  BY <1>1, <1>4 DEF m

(* A value is written at i, at most one above the array, which may be         *)
(* lengthened by fields that are no lower than i.                            *)
Written(t, i, v, n, arr) ==
    /\ i \in Nat \ {0} /\ n \in Nat /\ i <= n /\ Len(t.arr) <= n
    /\ arr \in [1 .. n -> Field] /\ arr[i] = v
    /\ \A j \in 1 .. Len(t.arr) : j # i => arr[j] = t.arr[j]

LEMMA HintKept ==
    ASSUME NEW t, ArrayOK(t), NEW i, NEW v, NEW n, NEW arr, Written(t, i, v, n, arr)
    PROVE  LET lim == Hint(t.lim, i, v)
           IN  lim \in Nat /\ lim <= n /\ \A j \in 1 .. lim : arr[j] # Nil
<1> DEFINE len == Len(t.arr)
           lim == Hint(t.lim, i, v)
<1>0. /\ i \in Nat \ {0} /\ n \in Nat /\ i <= n /\ len <= n /\ arr[i] = v
      /\ \A j \in 1 .. len : j # i => arr[j] = t.arr[j]
  BY DEF Written
<1>1. /\ t.lim \in Nat /\ t.lim <= len /\ len \in Nat
      /\ \A j \in 1 .. t.lim : t.arr[j] # Nil
  BY DEF ArrayOK
<1>2. v = Nil => lim = IF t.lim <= i - 1 THEN t.lim ELSE i - 1
  <2>1. t.lim \in Int /\ i - 1 \in Int
    BY <1>0, <1>1
  <2> QED
    BY <1>0, <2>1, MinTwo DEF Hint
<1>3. v # Nil => lim = IF i = t.lim + 1 THEN i ELSE t.lim
  BY DEF Hint
<1> HIDE DEF len, lim
<1>4. lim \in Nat /\ lim <= n
  BY <1>0, <1>1, <1>2, <1>3 DEF len
<1>5. ASSUME NEW j \in 1 .. lim PROVE arr[j] # Nil
  <2>1. CASE j = i
    <3>1. v # Nil
      BY <1>0, <1>1, <1>2, <2>1
    <3> QED
      BY <1>0, <2>1, <3>1
  <2>2. CASE j # i
    <3>1. j \in 1 .. t.lim
      BY <1>0, <1>1, <1>2, <1>3, <2>2
    <3>2. j \in 1 .. len
      BY <1>0, <1>1, <3>1
    <3> QED
      BY <1>0, <1>1, <2>2, <3>1, <3>2 DEF len
  <2> QED
    BY <2>1, <2>2
<1> QED
  BY <1>4, <1>5 DEF lim

(* The hash part does not depend on the array part. *)
LEMMA SameHash ==
    ASSUME NEW t, TabOK(t), NEW u, u = Record(u), ArrayOK(u),
           u.size = t.size, u.slots = t.slots, u.count = t.count, u.tombs = t.tombs,
           u.cache = t.cache
    PROVE  TabOK(u)
BY DEF TabOK, HashOK, CountersOK, PathsOK, PathsIn

LEMMA WriteArrayKeeps ==
    ASSUME NEW t, TabOK(t), NEW i \in 1 .. t.cap, i <= MaxIndex, NEW v \in Field
    PROVE  /\ TabOK(WriteArray(t, i, v))
           /\ WriteArray(t, i, v).slots = t.slots /\ WriteArray(t, i, v).size = t.size
           /\ Len(t.arr) <= Len(WriteArray(t, i, v).arr)
<1> DEFINE len == Len(t.arr)
           n == Max({i, len})
           arr == [j \in 1 .. n |-> IF j = i THEN v ELSE IF j <= len THEN t.arr[j] ELSE Nil]
           lim == Hint(t.lim, i, v)
           u == WriteArray(t, i, v)
<1>1. /\ t.arr \in Seq(Field) /\ t.cap \in Nat /\ len <= t.cap /\ t.lim \in Nat /\ len \in Nat
      /\ \A j \in 1 .. len : t.arr[j] # Nil => j <= MaxIndex
      /\ t = Record(t)
  BY DEF TabOK, ArrayOK
<1>2. u = [t EXCEPT !.arr = arr, !.lim = lim]
  BY DEF WriteArray
<1>3. n = IF i >= len THEN i ELSE len
  <2>1. i \in Int /\ len \in Int
    BY <1>1
  <2> HIDE DEF len
  <2> QED
    BY <2>1, MaxTwo
<1>4. n \in Nat /\ i <= n /\ len <= n /\ n <= t.cap /\ i \in Nat \ {0}
  <2> HIDE DEF n, len
  <2> QED
    BY <1>1, <1>3
<1> HIDE DEF lim, u
<1>5. /\ arr \in [1 .. n -> Field] /\ arr[i] = v
      /\ \A j \in 1 .. len : j # i => arr[j] = t.arr[j]
      /\ \A j \in 1 .. n : arr[j] # Nil => j = i \/ (j \in 1 .. len /\ t.arr[j] # Nil)
  <2>1. \A j \in 1 .. len : t.arr[j] \in Field
    BY <1>1
  <2>2. i \in 1 .. n
    BY <1>4
  <2>3. \A j \in 1 .. n : j <= len => j \in 1 .. len
    BY <1>1, <1>4
  <2>4. \A j \in 1 .. len : j \in 1 .. n /\ j <= len
    BY <1>1, <1>4
  <2>5. Nil \in Field
    BY DEF Field
  <2> HIDE DEF n, len
  <2> QED
    BY <2>1, <2>2, <2>3, <2>4, <2>5
<1> HIDE DEF arr, n
<1>6. arr \in Seq(Field) /\ Len(arr) = n
  BY <1>4, <1>5, SeqIs
<1>7. lim \in Nat /\ lim <= n /\ \A j \in 1 .. lim : arr[j] # Nil
  <2>1. Written(t, i, v, n, arr)
    BY <1>4, <1>5 DEF Written
  <2> QED
    BY <2>1, HintKept DEF lim, TabOK
<1>8. u = [arr |-> arr, cap |-> t.cap, small |-> t.small, lim |-> lim, size |-> t.size,
           slots |-> t.slots, count |-> t.count, tombs |-> t.tombs, cache |-> t.cache]
  BY <1>1, <1>2 DEF Record
<1>9. ArrayOK(u)
  <2>1. \A j \in 1 .. n : arr[j] # Nil => j <= MaxIndex
    BY <1>1, <1>5
  <2>2. u.arr = arr /\ u.cap = t.cap /\ u.lim = lim /\ u.small = t.small
    BY <1>8
  <2>3. t.small \in BOOLEAN
    BY DEF TabOK, ArrayOK
  <2> QED
    BY <1>1, <1>4, <1>6, <1>7, <2>1, <2>2, <2>3 DEF ArrayOK
<1>10. u = Record(u) /\ u.size = t.size /\ u.slots = t.slots /\ u.count = t.count
       /\ u.tombs = t.tombs /\ u.cache = t.cache /\ Len(u.arr) = n
  BY <1>6, <1>8 DEF Record
<1> QED
  BY <1>4, <1>9, <1>10, SameHash DEF u

(* What the traversal relies on: the array part is not shortened, and a key   *)
(* leaves its slot for the array part only.                                  *)
KeysStay(t, u) ==
    /\ Len(t.arr) <= Len(u.arr) /\ u.size = t.size
    /\ \A s \in 0 .. t.size - 1 :
          t.slots[s].key \in Key =>
              u.slots[s].key = t.slots[s].key \/ Index(t.slots[s].key) \in 1 .. Len(u.arr)

(* Keys that stay where they are are still reached if no slot is emptied. *)
LEMMA PathsKept ==
    ASSUME NEW t, PathsOK(t), t.size \in Nat, t.slots \in SlotMap(t.size),
           NEW u, u.size = t.size,
           \A s \in 0 .. t.size - 1 : u.slots[s].key \notin Free => u.slots[s].key = t.slots[s].key,
           \A s \in 0 .. t.size - 1 : t.slots[s].key # Empty => u.slots[s].key # Empty
    PROVE  PathsOK(u)
<1> SUFFICES ASSUME NEW s \in 0 .. t.size - 1, u.slots[s].key \notin Free
             PROVE  Reached(u.slots, t.size, u.slots[s].key, s)
  BY DEF PathsOK, PathsIn
<1> DEFINE k == t.slots[s].key
<1>1. u.slots[s].key = k /\ k \in Key /\ k \notin Free
  BY SlotsOf
<1> HIDE DEF k
<1>2. PICK i \in 0 .. t.size - 1 :
         Pos(t.size, k, i) = s /\ \A j \in 0 .. i - 1 : t.slots[Pos(t.size, k, j)].key # Empty
  BY <1>1 DEF PathsOK, PathsIn, Reached, k
<1>3. ASSUME NEW j \in 0 .. i - 1 PROVE u.slots[Pos(t.size, k, j)].key # Empty
  <2>1. j \in 0 .. t.size - 1 /\ t.size \in Nat \ {0}
    OBVIOUS
  <2>2. Pos(t.size, k, j) \in 0 .. t.size - 1
    BY <1>1, <2>1, PosVisits
  <2> QED
    BY <1>2, <2>2
<1> QED
  BY <1>1, <1>2, <1>3 DEF Reached

LEMMA MovedIs ==
    ASSUME NEW t, TabOK(t), NEW cap
    PROVE  /\ Moved(t, cap) \subseteq Live(t.slots) /\ Moved(t, cap) \subseteq 0 .. t.size - 1
           /\ IsFiniteSet(Moved(t, cap)) /\ Cardinality(Moved(t, cap)) \in Nat
           /\ IsFiniteSet(Live(t.slots)) /\ IsFiniteSet(Filled(t.slots))
           /\ \A s \in Moved(t, cap) : /\ Index(t.slots[s].key) \in 1 .. cap
                                       /\ t.slots[s].key \notin Free
                                       /\ t.slots[s].val \in Field
<1>1. /\ DOMAIN t.slots = 0 .. t.size - 1 /\ IsFiniteSet(DOMAIN t.slots)
      /\ \A s \in 0 .. t.size - 1 : t.slots[s].val \in Field
  BY SlotsOf DEF TabOK, HashOK
<1>2. Moved(t, cap) \subseteq Live(t.slots) /\ Moved(t, cap) \subseteq DOMAIN t.slots
  BY DEF Moved, Live
<1>3. Live(t.slots) \subseteq DOMAIN t.slots /\ Filled(t.slots) \subseteq DOMAIN t.slots
  BY DEF Live, Filled
<1>4. IsFiniteSet(Moved(t, cap)) /\ IsFiniteSet(Live(t.slots)) /\ IsFiniteSet(Filled(t.slots))
  BY <1>1, <1>2, <1>3, FS_Subset
<1> QED
  BY <1>1, <1>2, <1>4, FS_CardinalityType DEF Moved

LEMMA GrowKeeps ==
    ASSUME NEW t, TabOK(t), NEW i \in 1 .. MaxIndex, i = Len(t.arr) + 1, i \notin 1 .. t.cap,
           NEW v \in Field
    PROVE  TabOK(Grow(t, i, v)) /\ KeysStay(t, Grow(t, i, v)) /\ i <= Grow(t, i, v).cap
<1> DEFINE cap == IF t.cap = 0 THEN FirstCap ELSE 2 * t.cap
           moved == Moved(t, cap)
           at(j) == {s \in moved : Index(t.slots[s].key) = j}
           tops == {i} \cup {Index(t.slots[s].key) : s \in moved}
           top == Max(tops)
           arr == [j \in 1 .. top |->
                      IF j < i THEN t.arr[j] ELSE IF j = i THEN v
                      ELSE IF at(j) # {} THEN t.slots[Max(at(j))].val ELSE Nil]
           lim == Hint(t.lim, i, v)
           slots == [s \in DOMAIN t.slots |->
                        IF s \in moved THEN [key |-> Tomb, val |-> Nil] ELSE t.slots[s]]
           u == Grow(t, i, v)
           len == Len(t.arr)
<1>1. u = [t EXCEPT !.cap = cap, !.small = FALSE, !.arr = arr, !.lim = lim, !.slots = slots,
                    !.count = @ - Cardinality(moved), !.tombs = @ + Cardinality(moved)]
  BY DEF Grow
<1>2. /\ t.arr \in Seq(Field) /\ t.cap \in Nat /\ len <= t.cap /\ t.lim \in Nat /\ len \in Nat
      /\ \A j \in 1 .. len : t.arr[j] # Nil => j <= MaxIndex
      /\ t = Record(t) /\ t.size \in Nat /\ t.slots \in SlotMap(t.size)
      /\ t.count \in Nat /\ t.tombs \in Nat /\ MaxIndex \in Nat /\ ArrayOK(t)
  BY SizeAssumption DEF TabOK, ArrayOK, HashOK, CountersOK, SizeAssumption
<1>3. cap \in Nat /\ i \in 1 .. cap /\ i = len + 1 /\ i \in Nat \ {0}
  <2>1. FirstCap \in Nat \ {0}
    BY SizeAssumption DEF SizeAssumption
  <2>2. i = t.cap + 1 /\ i = len + 1
    <3> HIDE DEF len
    <3>1. i = len + 1
      BY DEF len
    <3> QED
      BY <1>2, <3>1
  <2> HIDE DEF len
  <2> QED
    BY <1>2, <2>1, <2>2
<1> HIDE DEF cap
<1>4. /\ moved \subseteq Live(t.slots) /\ moved \subseteq 0 .. t.size - 1
      /\ IsFiniteSet(moved) /\ Cardinality(moved) \in Nat
      /\ IsFiniteSet(Live(t.slots)) /\ IsFiniteSet(Filled(t.slots))
      /\ \A s \in moved : /\ Index(t.slots[s].key) \in 1 .. cap
                          /\ t.slots[s].key \notin Free /\ t.slots[s].val \in Field
  BY MovedIs
<1> HIDE DEF moved, u
<1>5. top \in tops /\ \A y \in tops : top >= y
  <2>1. tops \in SUBSET (0 .. cap) /\ tops # {}
    BY <1>3, <1>4
  <2> HIDE DEF tops
  <2> QED
    BY <1>3, <2>1, MaxOf
<1>6. /\ top \in 1 .. cap /\ top >= i /\ top \in Nat
      /\ \A s \in moved : Index(t.slots[s].key) \in 1 .. top
  <2>1. top \in 1 .. cap
    BY <1>3, <1>4, <1>5
  <2>2. top >= i /\ \A s \in moved : top >= Index(t.slots[s].key)
    BY <1>5
  <2> HIDE DEF top
  <2> QED
    BY <1>3, <1>4, <2>1, <2>2
<1> HIDE DEF top, tops
<1>7. ASSUME NEW j, at(j) # {} PROVE Max(at(j)) \in at(j)
  <2>1. at(j) \in SUBSET (0 .. t.size)
    <3>1. \A s \in 0 .. t.size - 1 : s \in 0 .. t.size
      BY <1>2
    <3>2. at(j) \subseteq moved
      OBVIOUS
    <3> QED
      BY <1>4, <3>1, <3>2
  <2> HIDE DEF at
  <2> QED
    BY <1>2, <1>7, <2>1, MaxOf
<1>8. /\ arr \in [1 .. top -> Field] /\ arr[i] = v
      /\ \A j \in 1 .. len : arr[j] = t.arr[j]
      /\ \A j \in 1 .. top : j > i /\ arr[j] # Nil => at(j) # {}
  <2>1. \A j \in 1 .. len : t.arr[j] \in Field
    BY <1>2
  <2>2. i \in 1 .. top
    BY <1>3, <1>6
  <2>3. \A j \in 1 .. top : j < i => j \in 1 .. len
    <3> HIDE DEF len
    <3> QED
      BY <1>2, <1>3, <1>6
  <2>4. \A j \in 1 .. len : j \in 1 .. top /\ j < i
    <3> HIDE DEF len
    <3> QED
      BY <1>2, <1>3, <1>6
  <2>5. Nil \in Field
    BY DEF Field
  <2>6. ASSUME NEW j, at(j) # {} PROVE t.slots[Max(at(j))].val \in Field
    BY <1>4, <1>7, <2>6
  <2> DEFINE val(j) == IF at(j) # {} THEN t.slots[Max(at(j))].val ELSE Nil
  <2>7. \A j : val(j) \in Field /\ (val(j) # Nil => at(j) # {})
    BY <2>5, <2>6
  <2>8. arr = [j \in 1 .. top |-> IF j < i THEN t.arr[j] ELSE IF j = i THEN v ELSE val(j)]
    OBVIOUS
  <2> HIDE DEF at, val, arr, len
  <2>9. ASSUME NEW j \in 1 .. top
        PROVE  (IF j < i THEN t.arr[j] ELSE IF j = i THEN v ELSE val(j)) \in Field
    BY <2>1, <2>3, <2>7
  <2>10. arr \in [1 .. top -> Field]
    BY <2>8, <2>9
  <2>11. arr[i] = v /\ \A j \in 1 .. len : arr[j] = t.arr[j]
    BY <1>3, <2>2, <2>4, <2>8
  <2>12. ASSUME NEW j \in 1 .. top, j > i, arr[j] # Nil PROVE at(j) # {}
    <3>1. arr[j] = val(j)
      BY <1>3, <2>8, <2>12
    <3> QED
      BY <2>7, <2>12, <3>1
  <2> QED
    BY <2>10, <2>11, <2>12
<1>9. \A j \in 1 .. top : arr[j] # Nil => j <= MaxIndex
  <2>1. ASSUME NEW j \in 1 .. top, arr[j] # Nil, j > i PROVE j <= MaxIndex
    <3>1. PICK s \in moved : Index(t.slots[s].key) = j
      BY <1>8, <2>1
    <3>2. j \in 1 .. MaxIndex \/ j = 0
      BY <3>1 DEF Index
    <3> QED
      BY <1>2, <1>6, <3>2
  <2> HIDE DEF arr
  <2>2. ASSUME NEW j \in 1 .. top, ~(j > i) PROVE j <= MaxIndex
    BY <1>2, <1>6, <2>2
  <2> QED
    BY <2>1, <2>2
<1> HIDE DEF arr, lim
<1>10. arr \in Seq(Field) /\ Len(arr) = top
  BY <1>6, <1>8, SeqIs
<1>11. lim \in Nat /\ lim <= top /\ \A j \in 1 .. lim : arr[j] # Nil
  <2>1. Len(t.arr) <= top /\ i <= top
    <3> HIDE DEF len
    <3>1. len <= top /\ i <= top
      BY <1>2, <1>3, <1>6
    <3> QED
      BY <3>1 DEF len
  <2>2. /\ arr \in [1 .. top -> Field] /\ arr[i] = v
        /\ \A j \in 1 .. Len(t.arr) : j # i => arr[j] = t.arr[j]
    BY <1>8
  <2>3. ArrayOK(t) /\ top \in Nat /\ i \in Nat \ {0}
    BY <1>2, <1>3, <1>6
  <2>4. Written(t, i, v, top, arr)
    BY <2>1, <2>2, <2>3 DEF Written
  <2> QED
    BY <2>3, <2>4, HintKept DEF lim
<1> DEFINE count == t.count - Cardinality(moved)
           tombs == t.tombs + Cardinality(moved)
<1> HIDE DEF slots
<1>12. u = [arr |-> arr, cap |-> cap, small |-> FALSE, lim |-> lim, size |-> t.size,
            slots |-> slots, count |-> count, tombs |-> tombs, cache |-> t.cache]
  <2> HIDE DEF count, tombs
  <2>1. u = [t EXCEPT !.cap = cap, !.small = FALSE, !.arr = arr, !.lim = lim, !.slots = slots,
                      !.count = count, !.tombs = tombs]
    BY <1>1 DEF count, tombs
  <2> QED
    BY <1>2, <2>1 DEF Record
<1>13. ArrayOK(u)
  BY <1>3, <1>6, <1>9, <1>10, <1>11, <1>12 DEF ArrayOK
<1>14. /\ DOMAIN slots = 0 .. t.size - 1 /\ DOMAIN t.slots = 0 .. t.size - 1
       /\ \A s \in 0 .. t.size - 1 : IF s \in moved THEN slots[s] = [key |-> Tomb, val |-> Nil]
                                      ELSE slots[s] = t.slots[s]
  BY <1>2, SlotsOf DEF slots
<1>15. HashOK(u)
  <2>1. [key |-> Tomb, val |-> Nil] \in Slot
    BY DEF Slot, Free, Field
  <2>2. \A s \in 0 .. t.size - 1 : t.slots[s] \in Slot
    BY <1>2 DEF SlotMap
  <2>3. slots = [s \in 0 .. t.size - 1 |-> slots[s]]
    BY <1>14 DEF slots
  <2>4. slots \in SlotMap(t.size)
    BY <1>14, <2>1, <2>2, <2>3 DEF SlotMap
  <2> QED
    BY <1>12, <2>4 DEF HashOK, TabOK
<1>16. CountersOK(u)
  <2>1. Live(slots) = Live(t.slots) \ moved
    BY <1>14 DEF Live, Free
  <2>2. Filled(slots) = Filled(t.slots)
    <3>1. Tomb # Empty
      BY KeyAssumption DEF KeyAssumption
    <3>2. \A s \in moved : t.slots[s].key # Empty
      BY <1>4 DEF Free
    <3>3. \A s \in 0 .. t.size - 1 : slots[s].key = Empty <=> t.slots[s].key = Empty
      BY <1>14, <3>1, <3>2
    <3> QED
      BY <1>14, <3>3 DEF Filled
  <2>3. /\ t.count = Cardinality(Live(t.slots))
        /\ Cardinality(Filled(t.slots)) <= t.count + t.tombs
        /\ t.size > 0 => 4 * (t.count + t.tombs) < 3 * t.size
    BY DEF TabOK, CountersOK
  <2>4. /\ Cardinality(Live(slots)) \in Nat /\ Cardinality(Live(slots)) = count
    <3>1. IsFiniteSet(Live(slots)) /\ Live(slots) \cup moved = Live(t.slots)
          /\ Live(slots) \cap moved = {}
      BY <1>4, <2>1, FS_Subset
    <3>2. Cardinality(Live(t.slots)) = Cardinality(Live(slots)) + Cardinality(moved)
                                      - Cardinality({})
      BY <1>4, <3>1, FS_Union
    <3>3. Cardinality({}) = 0 /\ Cardinality(Live(slots)) \in Nat
      BY <3>1, FS_EmptySet, FS_CardinalityType
    <3> DEFINE a == Cardinality(Live(slots))
               b == Cardinality(moved)
    <3>4. a \in Nat /\ b \in Nat /\ t.count = a + b - 0
      BY <1>4, <2>3, <3>2, <3>3
    <3> HIDE DEF a, b
    <3>5. a = t.count - b
      BY <1>2, <3>4
    <3> QED
      BY <3>3, <3>5 DEF a, b
  <2>5. count + tombs = t.count + t.tombs /\ tombs \in Nat /\ count \in Nat
    <3> DEFINE b == Cardinality(moved)
    <3>1. b \in Nat /\ count = t.count - b /\ tombs = t.tombs + b /\ count \in Nat
      BY <1>4, <2>4
    <3>2. t.count \in Nat /\ t.tombs \in Nat
      BY <1>2
    <3> HIDE DEF b, count, tombs
    <3>3. tombs \in Nat
      BY <3>1, <3>2
    <3>4. count + tombs = t.count + t.tombs
      BY <3>1, <3>2
    <3> QED
      BY <3>1, <3>3, <3>4
  <2> HIDE DEF count, tombs
  <2> QED
    BY <1>12, <2>2, <2>3, <2>4, <2>5 DEF CountersOK
<1>17. PathsOK(u)
  <2>1. \A s \in 0 .. t.size - 1 : slots[s].key \notin Free => slots[s].key = t.slots[s].key
    BY <1>14 DEF Free
  <2>2. \A s \in 0 .. t.size - 1 : t.slots[s].key # Empty => slots[s].key # Empty
    <3>1. Tomb # Empty
      BY KeyAssumption DEF KeyAssumption
    <3> QED
      BY <1>14, <3>1
  <2> QED
    BY <1>2, <1>12, <2>1, <2>2, PathsKept DEF TabOK
<1>18. KeysStay(t, u)
  <2>1. Len(t.arr) <= top
    <3> HIDE DEF len
    <3>1. len <= top
      BY <1>2, <1>3, <1>6
    <3> QED
      BY <3>1 DEF len
  <2>2. u.size = t.size /\ u.slots = slots /\ Len(u.arr) = top
    BY <1>10, <1>12
  <2> QED
    BY <1>6, <1>14, <2>1, <2>2 DEF KeysStay
<1>19. u = Record(u) /\ i <= u.cap
  BY <1>3, <1>12 DEF Record
<1> QED
  BY <1>13, <1>15, <1>16, <1>17, <1>18, <1>19 DEF TabOK, u

-----------------------------------------------------------------------------
(* The hash part. *)
LEMMA FoundIs ==
    ASSUME NEW t, HashOK(t), NEW k \in Key, Found(t, k)
    PROVE  At(t, k) \in 0 .. t.size - 1 /\ Matches(t.slots[At(t, k)].key, k)
<1> DEFINE Hit == {s \in 0 .. t.size - 1 :
                      t.slots[s].key = Empty \/ Matches(t.slots[s].key, k)}
           stops == {i \in 0 .. t.size - 1 : Pos(t.size, k, i) \in Hit}
<1>1. PICK i \in 0 .. t.size - 1 : i \in Stops(t, k)
  BY DEF Found, Stops
<1>2. t.size \in Nat \ {0}
  BY <1>1 DEF HashOK
<1>3. \A j \in 0 .. t.size - 1 : Pos(t.size, k, j) \in 0 .. t.size - 1
  BY <1>2, PosVisits
<1>4. Stops(t, k) = stops
  BY <1>3 DEF Stops
<1>5. Hit # {} /\ Hit \in SUBSET (0 .. t.size - 1)
  BY <1>1, <1>4
<1> HIDE DEF Hit
<1>6. Min(stops) \in 0 .. t.size - 1
  BY ZenonT(40), <1>2, <1>5, FirstOf
<1> HIDE DEF stops
<1>7. At(t, k) \in 0 .. t.size - 1
  BY <1>3, <1>4, <1>6 DEF At
<1> QED
  BY <1>7 DEF Found

(* What a store into a slot does to the sets that the counters count. *)
Stored(size, slots, s, e, new) ==
    /\ new \in SlotMap(size) /\ new[s] = e
    /\ \A r \in 0 .. size - 1 : r # s => new[r] = slots[r]
    /\ IsFiniteSet(Live(slots)) /\ IsFiniteSet(Filled(slots))
    /\ Live(slots) \subseteq Filled(slots)
    /\ Cardinality(Live(slots)) \in Nat /\ Cardinality(Filled(slots)) \in Nat
    /\ e.key \notin Free /\ e.val # Nil => Live(new) = Live(slots) \cup {s}
    /\ ~(e.key \notin Free /\ e.val # Nil) => Live(new) = Live(slots) \ {s}
    /\ e.key # Empty => Filled(new) = Filled(slots) \cup {s}

LEMMA SlotStored ==
    ASSUME NEW size \in Nat, NEW slots \in SlotMap(size), NEW s \in 0 .. size - 1,
           NEW e \in Slot
    PROVE  Stored(size, slots, s, e, [slots EXCEPT ![s] = e])
<1> DEFINE new == [slots EXCEPT ![s] = e]
<1>1. DOMAIN slots = 0 .. size - 1 /\ IsFiniteSet(DOMAIN slots)
  BY SlotsOf
<1>2. new \in SlotMap(size) /\ DOMAIN new = 0 .. size - 1
  BY DEF SlotMap
<1>3. new[s] = e /\ \A r \in 0 .. size - 1 : r # s => new[r] = slots[r]
  BY <1>1
<1> HIDE DEF new
<1>4. /\ IsFiniteSet(Live(slots)) /\ IsFiniteSet(Filled(slots))
      /\ Live(slots) \subseteq Filled(slots)
  <2>1. /\ Live(slots) \subseteq DOMAIN slots /\ Filled(slots) \subseteq DOMAIN slots
        /\ Live(slots) \subseteq Filled(slots)
    BY DEF Live, Filled, Free
  <2> QED
    BY <1>1, <2>1, FS_Subset
<1>5. Cardinality(Live(slots)) \in Nat /\ Cardinality(Filled(slots)) \in Nat
  BY <1>4, FS_CardinalityType
<1>6. /\ e.key \notin Free /\ e.val # Nil => Live(new) = Live(slots) \cup {s}
      /\ ~(e.key \notin Free /\ e.val # Nil) => Live(new) = Live(slots) \ {s}
  BY <1>1, <1>2, <1>3 DEF Live
<1>7. e.key # Empty => Filled(new) = Filled(slots) \cup {s}
  BY <1>1, <1>2, <1>3 DEF Filled
<1> QED
  BY <1>2, <1>3, <1>4, <1>5, <1>6, <1>7 DEF new, Stored

(* A store at the end of its path leaves the other paths. *)
LEMMA PathsStored ==
    ASSUME NEW size \in Nat, NEW slots \in SlotMap(size), PathsIn(slots, size),
           NEW s \in 0 .. size - 1, NEW e, e.key # Empty,
           e.key \notin Free => Reached(slots, size, e.key, s),
           NEW new, Stored(size, slots, s, e, new)
    PROVE  PathsIn(new, size)
<1>1. /\ new \in SlotMap(size) /\ new[s] = e
      /\ \A r \in 0 .. size - 1 : r # s => new[r] = slots[r]
  BY DEF Stored
<1> SUFFICES ASSUME NEW r \in 0 .. size - 1, new[r].key \notin Free
             PROVE  Reached(new, size, new[r].key, r)
  BY DEF PathsIn
<1>2. Reached(slots, size, new[r].key, r)
  <2>1. CASE r = s
    BY <1>1, <2>1
  <2>2. CASE r # s
    BY <1>1, <2>2 DEF PathsIn
  <2> QED
    BY <2>1, <2>2
<1> DEFINE k == new[r].key
<1>3. k \in Key
  BY <1>1, SlotsOf
<1>4. PICK i \in 0 .. size - 1 :
         Pos(size, k, i) = r /\ \A j \in 0 .. i - 1 : slots[Pos(size, k, j)].key # Empty
  BY <1>2 DEF Reached
<1> HIDE DEF k
<1>5. ASSUME NEW j \in 0 .. i - 1 PROVE new[Pos(size, k, j)].key # Empty
  <2>1. j \in 0 .. size - 1 /\ size \in Nat \ {0}
    OBVIOUS
  <2>2. Pos(size, k, j) \in 0 .. size - 1
    BY <1>3, <2>1, PosVisits
  <2> QED
    BY <1>1, <1>4, <2>2
<1> QED
  BY <1>4, <1>5 DEF Reached, k

(* An entry is stored at the end of its path, and the counters with it. *)
Fits(t, s, e, new, count, tombs) ==
    /\ s \in 0 .. t.size - 1 /\ e \in Slot /\ e.key # Empty
    /\ e.key \notin Free => Reached(t.slots, t.size, e.key, s)
    /\ Stored(t.size, t.slots, s, e, new)
    /\ count \in Nat /\ tombs \in Nat /\ count = Cardinality(Live(new))
    /\ Cardinality(Filled(new)) <= count + tombs /\ 4 * (count + tombs) < 3 * t.size

Storing(t, slots, count, tombs) ==
    [t EXCEPT !.slots = slots, !.count = count, !.tombs = tombs]

LEMMA StoreKeeps ==
    ASSUME NEW t, TabOK(t), NEW s, NEW e, NEW slots, NEW count, NEW tombs,
           Fits(t, s, e, slots, count, tombs)
    PROVE  LET u == Storing(t, slots, count, tombs)
           IN  TabOK(u) /\ u.slots = slots /\ u.size = t.size /\ u.arr = t.arr
<1> DEFINE u == Storing(t, slots, count, tombs)
<1>1. t = Record(t) /\ t.size \in Nat /\ t.slots \in SlotMap(t.size)
  BY DEF TabOK, HashOK
<1>2. /\ slots \in SlotMap(t.size) /\ slots[s] = e /\ s \in 0 .. t.size - 1 /\ e.key # Empty
      /\ \A r \in 0 .. t.size - 1 : r # s => slots[r] = t.slots[r]
      /\ e.key \notin Free => Reached(t.slots, t.size, e.key, s)
  BY DEF Fits, Stored
<1>0. u = [t EXCEPT !.slots = slots, !.count = count, !.tombs = tombs]
  BY DEF Storing
<1> HIDE DEF u
<1>3. u = [arr |-> t.arr, cap |-> t.cap, small |-> t.small, lim |-> t.lim, size |-> t.size,
           slots |-> slots, count |-> count, tombs |-> tombs, cache |-> t.cache]
  BY <1>0, <1>1 DEF Record
<1> HIDE DEF u
<1>4. u = Record(u) /\ ArrayOK(u)
  BY <1>3 DEF Record, TabOK, ArrayOK
<1>5. HashOK(u)
  <2>1. HashOK(t) /\ u.size = t.size /\ u.slots = slots /\ u.cache = t.cache
    BY <1>3 DEF TabOK
  <2> QED
    BY <1>2, <2>1 DEF HashOK
<1>6. CountersOK(u)
  BY <1>3 DEF CountersOK, Fits
<1>7. PathsOK(u)
  <2>1. PathsIn(t.slots, t.size) /\ Stored(t.size, t.slots, s, e, slots)
    BY DEF TabOK, PathsOK, Fits
  <2>2. PathsIn(slots, t.size)
    BY <1>1, <1>2, <2>1, PathsStored
  <2> QED
    BY <1>3, <2>2 DEF PathsOK
<1> QED
  BY <1>3, <1>4, <1>5, <1>6, <1>7 DEF TabOK, u

(* A deleted key keeps its slot. *)
LEMMA DeleteKeeps ==
    ASSUME NEW t, TabOK(t), NEW k \in Key
    PROVE  TabOK(Delete(t, k)) /\ KeysStay(t, Delete(t, k))
<1>1. CASE ~(Found(t, k) /\ t.slots[At(t, k)].val # Nil)
  <2>1. Delete(t, k) = t
    BY <1>1 DEF Delete
  <2>2. Len(t.arr) \in Nat
    BY DEF TabOK, ArrayOK
  <2>3. Len(t.arr) <= Len(t.arr)
    BY <2>2
  <2> QED
    BY <2>1, <2>3 DEF KeysStay
<1>2. CASE Found(t, k) /\ t.slots[At(t, k)].val # Nil
  <2> DEFINE s == At(t, k)
             e == [key |-> t.slots[s].key, val |-> Nil]
             new == [t.slots EXCEPT ![s] = e]
             u == Delete(t, k)
  <2>1. s \in 0 .. t.size - 1 /\ t.slots[s].key \notin Free /\ t.slots[s].val # Nil
    BY <1>2, FoundIs DEF TabOK, Matches
  <2>2. /\ t.size \in Nat /\ t.slots \in SlotMap(t.size) /\ t.count \in Nat /\ t.tombs \in Nat
        /\ t.count = Cardinality(Live(t.slots)) /\ t = Record(t)
        /\ Cardinality(Filled(t.slots)) <= t.count + t.tombs
        /\ 4 * (t.count + t.tombs) < 3 * t.size
    BY <2>1 DEF TabOK, HashOK, CountersOK
  <2> HIDE DEF s
  <2>3. t.slots[s] \in Slot /\ DOMAIN t.slots = 0 .. t.size - 1
    BY <2>1, <2>2 DEF SlotMap
  <2>4. e \in Slot /\ e.key # Empty /\ e.key = t.slots[s].key
    BY <2>1, <2>3 DEF Slot, Field, Free
  <2>5. [t.slots[s] EXCEPT !.val = Nil] = e
    BY <2>3 DEF Slot
  <2>6. u = [t EXCEPT !.slots = new, !.count = t.count - 1, !.tombs = t.tombs + 1]
    <3>1. u = [t EXCEPT !.slots[s].val = Nil, !.count = @ - 1, !.tombs = @ + 1]
      BY <1>2 DEF Delete, s
    <3>2. [t.slots EXCEPT ![s].val = Nil] = new
      BY <2>5
    <3> HIDE DEF u, new, e
    <3>3. u = [t EXCEPT !.slots = [t.slots EXCEPT ![s].val = Nil], !.count = t.count - 1,
                        !.tombs = t.tombs + 1]
      BY <2>2, <3>1 DEF Record
    <3> QED
      BY <3>2, <3>3
  <2>0. Stored(t.size, t.slots, s, e, new)
    BY <2>1, <2>2, <2>4, SlotStored
  <2>7. /\ new[s] = e /\ \A r \in 0 .. t.size - 1 : r # s => new[r] = t.slots[r]
        /\ IsFiniteSet(Live(t.slots)) /\ IsFiniteSet(Filled(t.slots))
        /\ Live(new) = Live(t.slots) \ {s} /\ Filled(new) = Filled(t.slots)
    <3>1. s \in Filled(t.slots)
      BY <2>1, <2>3 DEF Filled, Free
    <3>2. e.val = Nil
      OBVIOUS
    <3> HIDE DEF e, new
    <3> QED
      BY <2>0, <2>4, <3>1, <3>2 DEF Stored
  <2>8. Cardinality(Live(new)) = t.count - 1 /\ t.count - 1 \in Nat
    <3>1. s \in Live(t.slots)
      BY <2>1, <2>3 DEF Live
    <3> HIDE DEF new
    <3>2. /\ IsFiniteSet(Live(new))
          /\ Cardinality(Live(new)) = Cardinality(Live(t.slots)) - 1
      BY <2>7, <3>1, FS_RemoveElement
    <3>3. Cardinality(Live(new)) \in Nat
      BY <3>2, FS_CardinalityType
    <3> QED
      BY <2>2, <3>2, <3>3
  <2> HIDE DEF u, e
  <2>9. Cardinality(Filled(new)) <= (t.count - 1) + (t.tombs + 1)
    <3> HIDE DEF new
    <3>1. Cardinality(Filled(new)) = Cardinality(Filled(t.slots))
      BY <2>7
    <3>2. (t.count - 1) + (t.tombs + 1) = t.count + t.tombs
      BY <2>2
    <3> QED
      BY <2>2, <3>1, <3>2
  <2>10. 4 * ((t.count - 1) + (t.tombs + 1)) < 3 * t.size /\ t.tombs + 1 \in Nat
    BY <2>2
  <2>11. Reached(t.slots, t.size, e.key, s)
    BY <2>1, <2>4 DEF TabOK, PathsOK, PathsIn
  <2>12. TabOK(u) /\ u.slots = new /\ u.size = t.size /\ u.arr = t.arr
    <3> DEFINE count == t.count - 1
               tombs == t.tombs + 1
    <3>1. /\ count \in Nat /\ tombs \in Nat /\ count = Cardinality(Live(new))
          /\ Cardinality(Filled(new)) <= count + tombs /\ 4 * (count + tombs) < 3 * t.size
          /\ u = Storing(t, new, count, tombs)
      BY <2>6, <2>8, <2>9, <2>10 DEF Storing
    <3> HIDE DEF count, tombs
    <3> HIDE DEF new
    <3>2. Fits(t, s, e, new, count, tombs)
      BY <2>0, <2>1, <2>4, <2>11, <3>1 DEF Fits
    <3> QED
      BY <3>1, <3>2, StoreKeeps
  <2>13. \A r \in 0 .. t.size - 1 : new[r].key = t.slots[r].key
    BY <2>4, <2>7
  <2>14. Len(t.arr) <= Len(t.arr)
    <3>1. Len(t.arr) \in Nat
      BY DEF TabOK, ArrayOK
    <3> QED
      BY <3>1
  <2> HIDE DEF new
  <2>15. KeysStay(t, u)
    BY <2>12, <2>13, <2>14 DEF KeysStay
  <2> QED
    BY <2>12, <2>15 DEF u
<1> QED
  BY <1>1, <1>2

(* There is room for one more entry. *)
HasRoom(t) == 4 * (t.count + t.tombs + 1) < 3 * t.size

LEMMA EmptySlot ==
    ASSUME NEW t, TabOK(t), t.size > 0
    PROVE  \E s \in 0 .. t.size - 1 : t.slots[s].key = Empty
<1> SUFFICES ASSUME \A s \in 0 .. t.size - 1 : t.slots[s].key # Empty PROVE FALSE
  OBVIOUS
<1>1. t.size \in Nat /\ t.slots \in SlotMap(t.size)
  BY DEF TabOK, HashOK
<1>2. DOMAIN t.slots = 0 .. t.size - 1 /\ Cardinality(DOMAIN t.slots) = t.size
  BY <1>1, SlotsOf
<1>3. Filled(t.slots) = DOMAIN t.slots
  BY <1>2 DEF Filled
<1>4. /\ t.count \in Nat /\ t.tombs \in Nat /\ 4 * (t.count + t.tombs) < 3 * t.size
      /\ t.size <= t.count + t.tombs
  BY <1>2, <1>3 DEF TabOK, CountersOK
<1> QED
  BY <1>1, <1>4

(* Where an insertion stores. *)
LEMMA InsertStop ==
    ASSUME NEW t, TabOK(t), t.size > 0, NEW k \in Key
    PROVE  LET s == Pos(t.size, k, Min(InsertStops(t, k)))
           IN  /\ s \in 0 .. t.size - 1
               /\ t.slots[s].key \in Free \/ Matches(t.slots[s].key, k)
               /\ Reached(t.slots, t.size, k, s)
<1> DEFINE Hit == {s \in 0 .. t.size - 1 :
                      t.slots[s].key \in Free \/ Matches(t.slots[s].key, k)}
           stops == {i \in 0 .. t.size - 1 : Pos(t.size, k, i) \in Hit}
           i == Min(stops)
           s == Pos(t.size, k, i)
<1>1. t.size \in Nat \ {0}
  BY DEF TabOK, HashOK
<1>2. \A j \in 0 .. t.size - 1 : Pos(t.size, k, j) \in 0 .. t.size - 1
  BY <1>1, PosVisits
<1>3. InsertStops(t, k) = stops
  BY <1>2 DEF InsertStops
<1>4. Hit # {} /\ Hit \in SUBSET (0 .. t.size - 1)
  BY EmptySlot DEF Free
<1>5. /\ i \in 0 .. t.size - 1 /\ s \in Hit
      /\ \A j \in 0 .. i - 1 : Pos(t.size, k, j) \in (0 .. t.size - 1) \ Hit
  <2> HIDE DEF Hit
  <2> QED
    BY <1>1, <1>4, FirstOf
<1>6. \A r \in (0 .. t.size - 1) \ Hit : t.slots[r].key # Empty
  BY DEF Free
<1>7. Reached(t.slots, t.size, k, s)
  <2> HIDE DEF Hit, i
  <2> QED
    BY <1>5, <1>6 DEF Reached
<1>8. s \in 0 .. t.size - 1 /\ (t.slots[s].key \in Free \/ Matches(t.slots[s].key, k))
  BY <1>5
<1> HIDE DEF stops
<1> QED
  BY <1>3, <1>7, <1>8

(* The counters after a live entry was stored. *)
LEMMA LiveFits ==
    ASSUME NEW t, TabOK(t), HasRoom(t), NEW s \in 0 .. t.size - 1, NEW e \in Slot,
           e.key \notin Free, e.val # Nil, Reached(t.slots, t.size, e.key, s)
    PROVE  LET dead == t.slots[s].key \notin Free /\ t.slots[s].val = Nil
               fresh == t.slots[s].key \in Free
           IN  Fits(t, s, e, [t.slots EXCEPT ![s] = e],
                    IF fresh \/ dead THEN t.count + 1 ELSE t.count,
                    IF dead THEN t.tombs - 1 ELSE t.tombs)
<1> DEFINE dead == t.slots[s].key \notin Free /\ t.slots[s].val = Nil
           fresh == t.slots[s].key \in Free
           new == [t.slots EXCEPT ![s] = e]
           count == IF fresh \/ dead THEN t.count + 1 ELSE t.count
           tombs == IF dead THEN t.tombs - 1 ELSE t.tombs
           L == Cardinality(Live(t.slots))
           F == Cardinality(Filled(t.slots))
           L2 == Cardinality(Live(new))
           F2 == Cardinality(Filled(new))
<1>1. /\ t.size \in Nat /\ t.slots \in SlotMap(t.size) /\ t.count \in Nat /\ t.tombs \in Nat
      /\ t.count = L /\ F <= t.count + t.tombs
  BY DEF TabOK, HashOK, CountersOK
<1>2. Stored(t.size, t.slots, s, e, new) /\ e.key # Empty
  BY <1>1, SlotStored DEF Free
<1>3. DOMAIN t.slots = 0 .. t.size - 1
  BY <1>1, SlotsOf
<1> HIDE DEF new
<1>4. /\ IsFiniteSet(Live(t.slots)) /\ IsFiniteSet(Filled(t.slots))
      /\ L \in Nat /\ F \in Nat /\ Live(t.slots) \subseteq Filled(t.slots)
      /\ Live(new) = Live(t.slots) \cup {s} /\ Filled(new) = Filled(t.slots) \cup {s}
  BY <1>2 DEF Stored
<1>5. ~fresh /\ ~dead => L2 = L
  <2>1. ASSUME ~fresh, ~dead PROVE Live(t.slots) \cup {s} = Live(t.slots)
    BY <1>3, <2>1 DEF Live
  <2> QED
    BY <1>4, <2>1
<1>6. fresh \/ dead => L2 = L + 1
  <2>1. ASSUME fresh \/ dead PROVE s \notin Live(t.slots)
    BY <2>1 DEF Live
  <2> HIDE DEF fresh, dead
  <2> QED
    BY <1>4, <2>1, FS_AddElement
<1>7. F2 \in Nat /\ F2 <= F + 1
  <2>1. IsFiniteSet(Filled(new)) /\ F2 <= F + 1
    BY ZenonT(40), <1>4, OneMore
  <2> QED
    BY <2>1, FS_CardinalityType
<1>8. ~fresh => F2 = F
  <2>1. ASSUME ~fresh PROVE Filled(t.slots) \cup {s} = Filled(t.slots)
    BY <1>3, <2>1 DEF Filled, Free
  <2> QED
    BY <1>4, <2>1
<1>9. dead => L + 1 <= F
  <2> SUFFICES ASSUME dead PROVE L + 1 <= F
    OBVIOUS
  <2>1. s \in Filled(t.slots) /\ s \notin Live(t.slots)
    BY <1>3 DEF Live, Filled, Free
  <2>2. Live(t.slots) \cup {s} \subseteq Filled(t.slots)
    BY <1>4, <2>1
  <2>3. Cardinality(Live(t.slots) \cup {s}) = L + 1
    BY <1>4, <2>1, FS_AddElement
  <2>4. Cardinality(Live(t.slots) \cup {s}) <= F
    BY <1>4, <2>2, FS_Subset
  <2> QED
    BY <2>3, <2>4
<1>10. 4 * (t.count + t.tombs + 1) < 3 * t.size
  BY DEF HasRoom
<1>11. fresh => ~dead
  OBVIOUS
<1>12. count \in Nat /\ tombs \in Nat /\ count = L2 /\ F2 <= count + tombs
       /\ 4 * (count + tombs) < 3 * t.size
  <2> HIDE DEF L, F, L2, F2, fresh, dead
  <2>1. CASE fresh
    BY <1>1, <1>4, <1>6, <1>7, <1>10, <1>11, <2>1
  <2>2. CASE dead
    BY <1>1, <1>4, <1>6, <1>8, <1>9, <1>10, <1>11, <2>2
  <2>3. CASE ~fresh /\ ~dead
    BY <1>1, <1>4, <1>5, <1>8, <1>10, <2>3
  <2> QED
    BY <2>1, <2>2, <2>3
<1> HIDE DEF count, tombs
<1>13. Fits(t, s, e, new, count, tombs)
  BY <1>2, <1>12 DEF Fits
<1> QED
  BY <1>13 DEF count, tombs, new

LEMMA CachedIs ==
    ASSUME NEW t, HashOK(t), NEW k \in Key, Cached(t, k)
    PROVE  CachedAt(t, k) \in 0 .. t.size - 1 /\ t.slots[CachedAt(t, k)].key \notin Free
<1>1. CacheOf[k] \in DOMAIN NoCache
  BY DEF NoCache
<1>2. t.cache[CacheOf[k]] \in {Nil} \cup [payload : {Payload[l] : l \in Key}, at : 0 .. t.size - 1]
  BY <1>1 DEF HashOK, CacheMap
<1> QED
  BY <1>2 DEF Cached, CachedAt

LEMMA InsertKeeps ==
    ASSUME NEW t, TabOK(t), HasRoom(t), NEW k \in Key, NEW v \in Value
    PROVE  TabOK(Insert(t, k, v))
<1>1. /\ t.size \in Nat /\ t.size > 0 /\ t.slots \in SlotMap(t.size) /\ t = Record(t)
      /\ t.count \in Nat /\ t.tombs \in Nat
  BY DEF TabOK, HashOK, CountersOK, HasRoom
<1>2. v \in Field /\ v # Nil /\ k \notin Free
  BY KeyAssumption DEF KeyAssumption, Field, Free
<1>3. \A s \in 0 .. t.size - 1 : t.slots[s] \in Slot
  BY <1>1 DEF SlotMap
<1> DEFINE c == CachedAt(t, k)
           hit == Cached(t, k) /\ t.slots[c].val # Nil
           s == Pos(t.size, k, Min(InsertStops(t, k)))
           dead == t.slots[s].key \notin Free /\ t.slots[s].val = Nil
           fresh == t.slots[s].key \in Free
<1>4. CASE hit
  <2> DEFINE e == [key |-> t.slots[c].key, val |-> v]
             new == [t.slots EXCEPT ![c] = e]
             u == Insert(t, k, v)
  <2>1. c \in 0 .. t.size - 1 /\ t.slots[c].key \notin Free /\ t.slots[c].val # Nil
    BY <1>4, CachedIs DEF TabOK
  <2>2. u = [t EXCEPT !.slots[c].val = v]
    BY <1>4 DEF Insert
  <2> HIDE DEF c
  <2>3. e \in Slot /\ e.key = t.slots[c].key /\ e.val = v
    BY <1>2, <1>3, <2>1 DEF Slot
  <2>4. u = Storing(t, new, t.count, t.tombs)
    <3>1. t.slots[c] \in Slot
      BY <1>3, <2>1
    <3>2. [t.slots[c] EXCEPT !.val = v] = e
      BY <3>1 DEF Slot
    <3>3. [t.slots EXCEPT ![c].val = v] = new
      BY <3>2
    <3> HIDE DEF u, new
    <3>4. u = [t EXCEPT !.slots = [t.slots EXCEPT ![c].val = v]]
      BY <1>1, <2>2 DEF Record
    <3>5. u = [t EXCEPT !.slots = new]
      BY <3>3, <3>4
    <3> QED
      BY <1>1, <3>5 DEF Storing, Record
  <2> HIDE DEF e, u
  <2>5. Reached(t.slots, t.size, e.key, c)
    BY <2>1, <2>3 DEF TabOK, PathsOK, PathsIn
  <2>6. Fits(t, c, e, new, t.count, t.tombs)
    <3> DEFINE dead1 == t.slots[c].key \notin Free /\ t.slots[c].val = Nil
               fresh1 == t.slots[c].key \in Free
               count == IF fresh1 \/ dead1 THEN t.count + 1 ELSE t.count
               tombs == IF dead1 THEN t.tombs - 1 ELSE t.tombs
    <3>1. Fits(t, c, e, new, count, tombs)
      BY <1>2, <2>1, <2>3, <2>5, LiveFits
    <3>2. count = t.count /\ tombs = t.tombs
      BY <2>1
    <3> QED
      BY <3>1, <3>2
  <2> QED
    BY <2>4, <2>6, StoreKeeps DEF u
<1>5. CASE ~hit
  <2> DEFINE e == [key |-> IF fresh THEN k ELSE t.slots[s].key, val |-> v]
             new == [t.slots EXCEPT ![s] = e]
             count == IF fresh \/ dead THEN t.count + 1 ELSE t.count
             tombs == IF dead THEN t.tombs - 1 ELSE t.tombs
             u == Insert(t, k, v)
  <2>1. /\ s \in 0 .. t.size - 1 /\ (fresh \/ Matches(t.slots[s].key, k))
        /\ Reached(t.slots, t.size, k, s)
    BY <1>1, InsertStop
  <2>2. u = [t EXCEPT !.slots[s] = [key |-> IF fresh THEN k ELSE @.key, val |-> v],
                      !.count = IF fresh \/ dead THEN @ + 1 ELSE @,
                      !.tombs = IF dead THEN @ - 1 ELSE @]
    BY <1>5 DEF Insert
  <2> HIDE DEF s
  <2>3. e \in Slot /\ e.key \notin Free /\ e.val = v
    BY <1>2, <1>3, <2>1 DEF Slot
  <2>4. u = Storing(t, new, count, tombs)
    <3> HIDE DEF u, fresh, dead
    <3>1. u = [t EXCEPT !.slots = new, !.count = count, !.tombs = tombs]
      BY <1>1, <2>2 DEF Record
    <3> QED
      BY <3>1 DEF Storing
  <2>5. Reached(t.slots, t.size, e.key, s)
    <3>1. CASE fresh
      BY <2>1, <3>1
    <3>2. CASE ~fresh
      BY <2>1, <3>2 DEF TabOK, PathsOK, PathsIn
    <3> QED
      BY <3>1, <3>2
  <2> HIDE DEF e, u
  <2>6. Fits(t, s, e, new, count, tombs)
    BY <1>2, <2>1, <2>3, <2>5, LiveFits
  <2> HIDE DEF new, count, tombs
  <2> QED
    BY <2>4, <2>6, StoreKeeps DEF u
<1> QED
  BY <1>4, <1>5

-----------------------------------------------------------------------------
(* Rebuilding. *)

(* A hash under construction: no slot without a value, n fields, all reached. *)
Tidy(slots, size, n) ==
    /\ slots \in SlotMap(size) /\ PathsIn(slots, size)
    /\ \A s \in 0 .. size - 1 :
          slots[s].key # Empty => slots[s].key \notin Free /\ slots[s].val # Nil
    /\ Cardinality(Live(slots)) = n

LEMMA PlaceInMap ==
    ASSUME NEW size, NEW slots \in SlotMap(size), NEW e \in Slot
    PROVE  Place(slots, size, e) \in SlotMap(size)
<1> DEFINE s == Pos(size, e.key, Min({j \in 0 .. size - 1 : slots[Pos(size, e.key, j)].key = Empty}))
<1>1. Place(slots, size, e) = [slots EXCEPT ![s] = e]
  BY DEF Place
<1> HIDE DEF s
<1> QED
  BY <1>1 DEF SlotMap

LEMMA PlaceKeeps ==
    ASSUME NEW size \in Nat, NEW slots, NEW n \in Nat, n < size, Tidy(slots, size, n),
           NEW e \in Slot, e.key \notin Free, e.val # Nil
    PROVE  /\ Tidy(Place(slots, size, e), size, n + 1)
           /\ \E s \in 0 .. size - 1 :
                 slots[s].key = Empty /\ Place(slots, size, e) = [slots EXCEPT ![s] = e]
<1> DEFINE Hit == {r \in 0 .. size - 1 : slots[r].key = Empty}
           k == e.key
           stops == {j \in 0 .. size - 1 : Pos(size, k, j) \in Hit}
           i == Min(stops)
           s == Pos(size, k, i)
           new == [slots EXCEPT ![s] = e]
<1>1. /\ slots \in SlotMap(size) /\ PathsIn(slots, size) /\ Cardinality(Live(slots)) = n
      /\ \A r \in 0 .. size - 1 :
            slots[r].key # Empty => slots[r].key \notin Free /\ slots[r].val # Nil
      /\ k \in Key /\ size \in Nat \ {0} /\ e.key # Empty
  BY DEF Tidy, Slot, Free
<1>2. DOMAIN slots = 0 .. size - 1 /\ Cardinality(DOMAIN slots) = size
  BY <1>1, SlotsOf
<1>3. Hit # {} /\ Hit \in SUBSET (0 .. size - 1)
  <2>1. ASSUME Hit = {} PROVE FALSE
    <3>1. Live(slots) = DOMAIN slots
      BY <1>1, <1>2, <2>1 DEF Live
    <3> QED
      BY <1>1, <1>2, <3>1
  <2> QED
    BY <2>1
<1> HIDE DEF k
<1>4. \A j \in 0 .. size - 1 : Pos(size, k, j) \in 0 .. size - 1
  BY <1>1, PosVisits
<1>5. /\ i \in 0 .. size - 1 /\ s \in Hit
      /\ \A j \in 0 .. i - 1 : Pos(size, k, j) \in (0 .. size - 1) \ Hit
  <2> HIDE DEF Hit
  <2> QED
    BY <1>1, <1>3, FirstOf
<1>6. Place(slots, size, e) = new
  <2>1. stops = {j \in 0 .. size - 1 : slots[Pos(size, k, j)].key = Empty}
    BY <1>4
  <2>2. Place(slots, size, e)
          = [slots EXCEPT ![Pos(size, k, Min({j \in 0 .. size - 1 :
                                               slots[Pos(size, k, j)].key = Empty}))] = e]
    BY DEF Place, k
  <2> HIDE DEF stops
  <2> QED
    BY <2>1, <2>2
<1>7. s \in 0 .. size - 1 /\ slots[s].key = Empty /\ Reached(slots, size, k, s)
  <2>1. \A r \in (0 .. size - 1) \ Hit : slots[r].key # Empty
    OBVIOUS
  <2>2. s \in 0 .. size - 1 /\ slots[s].key = Empty
    BY <1>5
  <2>3. Reached(slots, size, k, s)
    <3> HIDE DEF Hit, i
    <3> QED
      BY <1>5, <2>1 DEF Reached
  <2> QED
    BY <2>2, <2>3
<1> HIDE DEF s
<1>p. Place(slots, size, e) = [slots EXCEPT ![s] = e]
  BY <1>6
<1>8. Stored(size, slots, s, e, new)
  BY <1>1, <1>7, SlotStored
<1> HIDE DEF new
<1>9. PathsIn(new, size)
  BY <1>1, <1>7, <1>8, PathsStored DEF k
<1>10. Cardinality(Live(new)) = n + 1
  <2>1. s \notin Live(slots)
    BY <1>7 DEF Live, Free
  <2>2. IsFiniteSet(Live(slots)) /\ Live(new) = Live(slots) \cup {s}
    BY <1>8 DEF Stored
  <2> QED
    BY <1>1, <2>1, <2>2, FS_AddElement
<1>11. /\ new \in SlotMap(size)
       /\ \A r \in 0 .. size - 1 : new[r].key # Empty => new[r].key \notin Free /\ new[r].val # Nil
  <2>1. /\ new \in SlotMap(size) /\ new[s] = e
        /\ \A r \in 0 .. size - 1 : r # s => new[r] = slots[r]
    BY <1>8 DEF Stored
  <2> QED
    BY <1>1, <2>1
<1>12. Tidy(Place(slots, size, e), size, n + 1)
  BY <1>6, <1>9, <1>10, <1>11 DEF Tidy
<1> QED
  BY <1>7, <1>12, <1>p

(* The keys of a hash are in one slot each. *)
OneSlot(slots, size) ==
    \A s, u \in 0 .. size - 1 :
        /\ slots[s].key \notin Free /\ slots[u].key \notin Free
        /\ Lua[slots[s].key] = Lua[slots[u].key]
        => s = u

(* A hash under construction has the fields of the first n old slots. *)
Copies(new, size, slots, n) ==
    /\ \A s \in 0 .. size - 1 :
          new[s].key \notin Free => \E u \in 0 .. n - 1 : new[s] = slots[u]
    /\ \A u \in 0 .. n - 1 :
          slots[u].key \notin Free /\ slots[u].val # Nil => \E s \in 0 .. size - 1 : new[s] = slots[u]

LEMMA PlaceCopies ==
    ASSUME NEW size \in Nat, NEW slots \in SlotMap(size), NEW old, NEW m \in Nat,
           NEW n \in 0 .. m - 1, Copies(slots, size, old, n),
           OneSlot(old, m) => OneSlot(slots, size), old[n].key \notin Free,
           NEW s \in 0 .. size - 1, slots[s].key = Empty,
           NEW new, new = [slots EXCEPT ![s] = old[n]]
    PROVE  /\ Copies(new, size, old, n + 1)
           /\ OneSlot(old, m) => OneSlot(new, size)
<1>1. /\ new[s] = old[n] /\ \A r \in 0 .. size - 1 : r # s => new[r] = slots[r]
  BY SlotsOf
<1>2. \A r \in 0 .. size - 1 :
         r # s /\ new[r].key \notin Free => \E u \in 0 .. n - 1 : new[r] = old[u]
  BY <1>1 DEF Copies
<1>5. ASSUME NEW r \in 0 .. size - 1, new[r].key \notin Free
      PROVE  \E u \in 0 .. (n + 1) - 1 : new[r] = old[u]
  <2>1. CASE r = s
    <3>1. n \in 0 .. (n + 1) - 1
      OBVIOUS
    <3> QED
      BY <1>1, <2>1, <3>1
  <2>2. CASE r # s
    <3>1. PICK u \in 0 .. n - 1 : new[r] = old[u]
      BY <1>2, <1>5, <2>2
    <3>2. u \in 0 .. (n + 1) - 1
      OBVIOUS
    <3> QED
      BY <3>1, <3>2
  <2> QED
    BY <2>1, <2>2
<1>6. ASSUME NEW u \in 0 .. (n + 1) - 1, old[u].key \notin Free, old[u].val # Nil
      PROVE  \E r \in 0 .. size - 1 : new[r] = old[u]
  <2>1. CASE u = n
    BY <1>1, <2>1
  <2>2. CASE u # n
    <3>1. u \in 0 .. n - 1
      BY <2>2
    <3>2. PICK r \in 0 .. size - 1 : slots[r] = old[u]
      BY <1>6, <3>1 DEF Copies
    <3>3. r # s
      BY <1>6, <3>2 DEF Free
    <3> QED
      BY <1>1, <3>2, <3>3
  <2> QED
    BY <2>1, <2>2
<1>3. Copies(new, size, old, n + 1)
  BY <1>5, <1>6 DEF Copies
<1>4. ASSUME OneSlot(old, m) PROVE OneSlot(new, size)
  <2>1. ASSUME NEW p \in 0 .. size - 1, NEW r \in 0 .. size - 1, p = s, r # s,
               new[p].key \notin Free, new[r].key \notin Free,
               Lua[new[p].key] = Lua[new[r].key]
        PROVE  FALSE
    <3>1. PICK u \in 0 .. n - 1 : new[r] = old[u]
      BY <1>2, <2>1
    <3>2. u \in 0 .. m - 1 /\ n \in 0 .. m - 1 /\ u # n
      OBVIOUS
    <3> QED
      BY <1>1, <1>4, <2>1, <3>1, <3>2 DEF OneSlot
  <2> SUFFICES ASSUME NEW p \in 0 .. size - 1, NEW r \in 0 .. size - 1,
                      new[p].key \notin Free, new[r].key \notin Free,
                      Lua[new[p].key] = Lua[new[r].key], p # r
               PROVE  FALSE
    BY DEF OneSlot
  <2>2. CASE p # s /\ r # s
    BY <1>1, <1>4, <2>2 DEF OneSlot
  <2>3. CASE p = s
    BY <2>1, <2>3
  <2>4. CASE r = s
    BY <2>1, <2>4
  <2> QED
    BY <2>2, <2>3, <2>4
<1> QED
  BY <1>3, <1>4

(* The rebuilt hash holds the live entries. *)
LEMMA RebuiltIs ==
    ASSUME NEW t, TabOK(t), NEW size \in Nat, t.count < size
    PROVE  /\ Tidy(Rebuilt(t, size), size, t.count)
           /\ Copies(Rebuilt(t, size), size, t.slots, t.size)
           /\ OneSlot(t.slots, t.size) => OneSlot(Rebuilt(t, size), size)
<1> DEFINE live(e) == e.key \notin Free /\ e.val # Nil
           zero == [s \in 0 .. size - 1 |-> Blank]
           Body(g) == [n \in 0 .. t.size |->
                          IF n = 0 THEN zero
                          ELSE IF live(t.slots[n - 1])
                               THEN Place(g[n - 1], size, t.slots[n - 1])
                          ELSE g[n - 1]]
           f == CHOOSE g : g = Body(g)
           X == SlotMap(size)
           step == [n \in 1 .. t.size |-> [x \in X |->
                       IF live(t.slots[n - 1]) THEN Place(x, size, t.slots[n - 1]) ELSE x]]
<1>1. Rebuilt(t, size) = f[t.size]
  BY DEF Rebuilt
<1>2. /\ t.size \in Nat /\ t.slots \in SlotMap(t.size) /\ t.count \in Nat
      /\ t.count = Cardinality(Live(t.slots))
  BY DEF TabOK, HashOK, CountersOK
<1>3. \A s \in 0 .. t.size - 1 : t.slots[s] \in Slot
  BY <1>2 DEF SlotMap
<1>4. zero \in X /\ \A s \in 0 .. size - 1 : zero[s] = Blank
  <2>1. Blank \in Slot
    BY DEF Blank, Slot, Field, Free
  <2> QED
    BY <2>1 DEF SlotMap
<1>5. step \in [1 .. t.size -> [X -> X]]
  <2>1. ASSUME NEW n \in 1 .. t.size, NEW x \in X
        PROVE  (IF live(t.slots[n - 1]) THEN Place(x, size, t.slots[n - 1]) ELSE x) \in X
    <3>1. n - 1 \in 0 .. t.size - 1
      BY <1>2
    <3>2. Place(x, size, t.slots[n - 1]) \in X
      BY <1>3, <3>1, PlaceInMap
    <3> HIDE DEF X, live
    <3> QED
      BY <3>2
  <2> HIDE DEF X, live
  <2> QED
    BY <2>1
<1>6. PICK g : /\ g \in [0 .. t.size -> X] /\ g[0] = zero
               /\ \A n \in 1 .. t.size : g[n] = step[n][g[n - 1]]
  <2> HIDE DEF X, step, zero
  <2>1. PICK g : Solution(t.size, X, zero, step, g)
    BY <1>2, <1>4, <1>5, RecursionSolved
  <2> QED
    BY <2>1 DEF Solution
<1>7. g = Body(g)
  <2>1. ASSUME NEW n \in 1 .. t.size
        PROVE  g[n] = IF live(t.slots[n - 1]) THEN Place(g[n - 1], size, t.slots[n - 1])
                      ELSE g[n - 1]
    <3>1. n - 1 \in 0 .. t.size
      BY <1>2
    <3>2. g[n - 1] \in X
      BY <1>6, <3>1
    <3> HIDE DEF X, live
    <3> QED
      BY <1>6, <3>2
  <2> HIDE DEF X, step, zero, live
  <2>2. \A n \in 0 .. t.size : n = 0 \/ n \in 1 .. t.size
    BY <1>2
  <2>3. \A n \in 0 .. t.size : g[n] = Body(g)[n]
    BY <1>6, <2>1, <2>2
  <2>4. g = [n \in 0 .. t.size |-> g[n]]
    BY <1>6
  <2> QED
    BY <2>3, <2>4
<1>8. f = Body(f)
  <2> HIDE DEF Body
  <2> QED
    BY <1>7
<1>9. f[0] = zero
  <2> HIDE DEF f, zero, live
  <2>1. f[0] = Body(f)[0] /\ 0 \in 0 .. t.size
    BY <1>2, <1>8
  <2> QED
    BY <2>1
<1>10. ASSUME NEW n \in 1 .. t.size
       PROVE  f[n] = IF live(t.slots[n - 1]) THEN Place(f[n - 1], size, t.slots[n - 1])
                     ELSE f[n - 1]
  <2> HIDE DEF f, zero, live
  <2>1. n \in 0 .. t.size /\ n # 0
    BY <1>2
  <2>2. f[n] = Body(f)[n]
    BY <1>8
  <2> QED
    BY <2>1, <2>2
<1> HIDE DEF f, Body, step, X
<1> DEFINE Below(n) == {s \in Live(t.slots) : s < n}
           Right(n) == /\ Tidy(f[n], size, Cardinality(Below(n)))
                       /\ Copies(f[n], size, t.slots, n)
                       /\ OneSlot(t.slots, t.size) => OneSlot(f[n], size)
           S == {n \in 0 .. t.size : Right(n)}
<1>11. IsFiniteSet(Live(t.slots)) /\ Live(t.slots) \subseteq 0 .. t.size - 1
  <2>1. Live(t.slots) \subseteq DOMAIN t.slots
    BY DEF Live
  <2> QED
    BY <1>2, <2>1, SlotsOf, FS_Subset
<1>12. 0 \in S
  <2>1. Below(0) = {} /\ Live(zero) = {}
    BY <1>2, <1>4, <1>11 DEF Live, Blank, Free
  <2>2. Tidy(zero, size, 0)
    <3>1. zero \in SlotMap(size) /\ \A s \in 0 .. size - 1 : zero[s].key = Empty
      BY <1>4 DEF Blank, X
    <3> HIDE DEF zero
    <3> QED
      BY <2>1, <3>1, FS_EmptySet DEF Tidy, PathsIn, Free
  <2>3. /\ Copies(zero, size, t.slots, 0)
        /\ OneSlot(t.slots, t.size) => OneSlot(zero, size)
    BY <1>4 DEF Copies, OneSlot, Blank, Free
  <2> HIDE DEF zero
  <2> QED
    BY <1>2, <1>9, <2>1, <2>2, <2>3, FS_EmptySet
<1>13. ASSUME NEW n \in 0 .. t.size - 1, n \in S PROVE n + 1 \in S
  <2> DEFINE c == Cardinality(Below(n))
  <2>1. /\ n + 1 \in 1 .. t.size /\ n + 1 \in 0 .. t.size /\ n + 1 - 1 = n
        /\ n \in Nat
    BY <1>2
  <2>2. /\ Tidy(f[n], size, c) /\ Copies(f[n], size, t.slots, n)
        /\ OneSlot(t.slots, t.size) => OneSlot(f[n], size)
    BY <1>13
  <2>3. f[n + 1] = IF live(t.slots[n]) THEN Place(f[n], size, t.slots[n]) ELSE f[n]
    BY <1>10, <2>1
  <2>4. IsFiniteSet(Below(n)) /\ c \in Nat
    <3>1. Below(n) \subseteq Live(t.slots)
      OBVIOUS
    <3> QED
      BY <1>11, <3>1, FS_Subset, FS_CardinalityType
  <2>5. n \in Live(t.slots) <=> live(t.slots[n])
    BY <1>2, SlotsOf DEF Live
  <2>6. CASE live(t.slots[n])
    <3>1. Below(n + 1) = Below(n) \cup {n} /\ n \notin Below(n)
      BY <1>2, <1>11, <2>5, <2>6
    <3>2. Cardinality(Below(n + 1)) = c + 1
      BY <2>4, <3>1, FS_AddElement
    <3>3. Below(n + 1) \subseteq Live(t.slots)
      OBVIOUS
    <3>4. Cardinality(Below(n + 1)) <= t.count
      BY <1>2, <1>11, <3>3, FS_Subset
    <3> HIDE DEF c, Below
    <3>5. c < size
      BY <1>2, <2>4, <3>2, <3>4
    <3>6. t.slots[n] \in Slot /\ t.slots[n].key \notin Free /\ t.slots[n].val # Nil
      BY <1>3, <2>6
    <3>7. /\ Tidy(Place(f[n], size, t.slots[n]), size, c + 1)
          /\ \E s \in 0 .. size - 1 :
                /\ f[n][s].key = Empty
                /\ Place(f[n], size, t.slots[n]) = [f[n] EXCEPT ![s] = t.slots[n]]
      BY <2>2, <2>4, <3>5, <3>6, PlaceKeeps
    <3>8. f[n + 1] = Place(f[n], size, t.slots[n])
      BY <2>3, <2>6
    <3>9. PICK s \in 0 .. size - 1 : /\ f[n][s].key = Empty
                                     /\ f[n + 1] = [f[n] EXCEPT ![s] = t.slots[n]]
      BY <3>7, <3>8
    <3>10. f[n] \in SlotMap(size)
      BY <2>2 DEF Tidy
    <3>11. /\ Copies(f[n + 1], size, t.slots, n + 1)
           /\ OneSlot(t.slots, t.size) => OneSlot(f[n + 1], size)
      <4> DEFINE old == t.slots
                 m == t.size
      <4>1. /\ m \in Nat /\ n \in 0 .. m - 1 /\ old[n].key \notin Free
            /\ Copies(f[n], size, old, n) /\ (OneSlot(old, m) => OneSlot(f[n], size))
            /\ f[n + 1] = [f[n] EXCEPT ![s] = old[n]] /\ f[n][s].key = Empty
        BY <1>2, <2>2, <3>6, <3>9
      <4> HIDE DEF old, m
      <4>2. PICK x, y : x = f[n] /\ y = f[n + 1]
        OBVIOUS
      <4>3. /\ Copies(y, size, old, n + 1)
            /\ OneSlot(old, m) => OneSlot(y, size)
        BY <3>10, <4>1, <4>2, PlaceCopies
      <4> QED
        BY <4>2, <4>3 DEF old, m
    <3> QED
      BY <2>1, <3>2, <3>7, <3>8, <3>11
  <2>7. CASE ~live(t.slots[n])
    <3>1. Below(n + 1) = Below(n)
      BY <1>2, <1>11, <2>5, <2>7
    <3> HIDE DEF live
    <3>2. f[n + 1] = f[n] /\ \A u \in 0 .. n - 1 : u \in 0 .. (n + 1) - 1
      BY <2>1, <2>3, <2>7
    <3>3. Copies(f[n + 1], size, t.slots, n + 1)
      <4> DEFINE old == t.slots
      <4>1. PICK x : x = f[n] /\ x = f[n + 1]
        BY <3>2
      <4>2. Copies(x, size, old, n) /\ ~(old[n].key \notin Free /\ old[n].val # Nil)
        BY <2>2, <2>7, <4>1 DEF live
      <4> HIDE DEF old
      <4>3. \A u \in 0 .. (n + 1) - 1 : u \in 0 .. n - 1 \/ u = n
        BY <2>1
      <4>4. Copies(x, size, old, n + 1)
        BY <3>2, <4>2, <4>3 DEF Copies
      <4> QED
        BY <4>1, <4>4 DEF old
    <3> QED
      BY <2>1, <2>2, <3>1, <3>2, <3>3
  <2> QED
    BY <2>6, <2>7
<1>14. 0 .. t.size \subseteq S
  <2> HIDE DEF S
  <2> QED
    BY <1>2, <1>12, <1>13, UpTo
<1>15. t.size \in S
  BY <1>2, <1>14
<1>16. Below(t.size) = Live(t.slots)
  BY <1>2, <1>11
<1> QED
  BY <1>1, <1>2, <1>15, <1>16

LEMMA RehashKeeps ==
    ASSUME NEW t, TabOK(t), NEW size \in Nat, size > 3, 4 * t.count < 3 * size
    PROVE  LET u == Rehash(t, size)
           IN  TabOK(u) /\ u.size = size /\ u.count = t.count /\ u.tombs = 0
<1> DEFINE u == Rehash(t, size)
           slots == Rebuilt(t, size)
<1>1. /\ t = Record(t) /\ t.count \in Nat /\ t.count < size
      /\ u = [t EXCEPT !.size = size, !.slots = slots, !.tombs = 0, !.cache = NoCache]
  BY DEF TabOK, CountersOK, Rehash
<1>2. Tidy(slots, size, t.count)
  BY <1>1, RebuiltIs
<1> HIDE DEF u, slots
<1>3. u = [arr |-> t.arr, cap |-> t.cap, small |-> t.small, lim |-> t.lim, size |-> size,
           slots |-> slots, count |-> t.count, tombs |-> 0, cache |-> NoCache]
  BY <1>1 DEF Record
<1>4. u = Record(u) /\ ArrayOK(u)
  BY <1>3 DEF Record, TabOK, ArrayOK
<1>5. HashOK(u)
  <2>1. NoCache \in CacheMap(size)
    BY DEF CacheMap, NoCache
  <2>2. slots \in SlotMap(size) /\ u.size = size /\ u.slots = slots /\ u.cache = NoCache
    BY <1>2, <1>3 DEF Tidy
  <2> QED
    BY <2>1, <2>2 DEF HashOK
<1>6. CountersOK(u)
  <2>1. Live(slots) = Filled(slots) /\ Cardinality(Live(slots)) = t.count
    <3>1. DOMAIN slots = 0 .. size - 1
      BY <1>2, SlotsOf DEF Tidy
    <3> QED
      BY <1>2, <3>1 DEF Tidy, Live, Filled, Free
  <2>2. t.count <= t.count + 0 /\ 4 * (t.count + 0) < 3 * size
    BY <1>1
  <2>3. u.count = t.count /\ u.tombs = 0 /\ u.slots = slots /\ u.size = size
    BY <1>3
  <2> QED
    BY <1>1, <2>1, <2>2, <2>3 DEF CountersOK
<1>7. PathsOK(u)
  BY <1>2, <1>3 DEF Tidy, PathsOK
<1> QED
  BY <1>3, <1>4, <1>5, <1>6, <1>7 DEF TabOK, u

(* After Roomy one more entry fits. *)
LEMMA RoomyKeeps ==
    ASSUME NEW t, TabOK(t)
    PROVE  TabOK(Roomy(t)) /\ HasRoom(Roomy(t))
<1>1. /\ t.size \in Nat /\ (t.size > 3 \/ t.size = 0) /\ t.count \in Nat /\ t.tombs \in Nat
      /\ t.slots \in SlotMap(t.size) /\ t.count = Cardinality(Live(t.slots))
      /\ t.size > 0 => 4 * (t.count + t.tombs) < 3 * t.size
  BY DEF TabOK, HashOK, CountersOK
<1>2. ASSUME NEW size \in Nat, size > 3, 4 * (t.count + 1) < 3 * size
      PROVE  TabOK(Rehash(t, size)) /\ HasRoom(Rehash(t, size))
  <2>1. 4 * t.count < 3 * size
    BY <1>1, <1>2
  <2>2. /\ TabOK(Rehash(t, size)) /\ Rehash(t, size).size = size
        /\ Rehash(t, size).count = t.count /\ Rehash(t, size).tombs = 0
    BY <1>2, <2>1, RehashKeeps
  <2>3. t.count + 0 + 1 = t.count + 1
    BY <1>1
  <2> QED
    BY <1>2, <2>2, <2>3 DEF HasRoom
<1>3. CASE t.size = 0
  <2>1. Roomy(t) = Rehash(t, MinHash)
    BY <1>3 DEF Roomy
  <2>2. MinHash \in Nat /\ MinHash > 3
    BY SizeAssumption DEF SizeAssumption
  <2>3. t.count = 0
    <3>1. DOMAIN t.slots = 0 .. t.size - 1
      BY <1>1, SlotsOf
    <3>2. Live(t.slots) = {}
      BY <1>3, <3>1 DEF Live
    <3> QED
      BY <1>1, <3>2, FS_EmptySet
  <2>4. 4 * (t.count + 1) < 3 * MinHash
    BY <2>2, <2>3
  <2> QED
    BY <1>2, <2>1, <2>2, <2>4
<1>4. CASE t.size # 0 /\ (t.count + t.tombs + 1) * 4 >= t.size * 3
  <2> DEFINE half == t.size \div 2
  <2>1. half \in Nat /\ 2 * half <= t.size
    BY <1>1
  <2>2. CASE t.count >= half
    <3>1. Roomy(t) = Rehash(t, 2 * t.size)
      BY <1>4, <2>2 DEF Roomy
    <3> HIDE DEF half
    <3>2. 2 * t.size \in Nat /\ 2 * t.size > 3
      BY <1>1, <1>4
    <3>3. 4 * (t.count + 1) < 3 * (2 * t.size)
      BY <1>1, <1>4
    <3> DEFINE size == 2 * t.size
    <3> HIDE DEF size
    <3>4. size \in Nat /\ size > 3 /\ 4 * (t.count + 1) < 3 * size /\ Roomy(t) = Rehash(t, size)
      BY <3>1, <3>2, <3>3 DEF size
    <3> QED
      BY <1>2, <3>4
  <2>3. CASE ~(t.count >= half)
    <3>1. Roomy(t) = Rehash(t, t.size)
      BY <1>4, <2>3 DEF Roomy
    <3> HIDE DEF half
    <3>2. 4 * (t.count + 1) < 3 * t.size /\ t.size > 3
      BY <1>1, <1>4, <2>1, <2>3
    <3> QED
      BY <1>1, <1>2, <3>1, <3>2
  <2> QED
    BY <2>2, <2>3
<1>5. CASE t.size # 0 /\ ~((t.count + t.tombs + 1) * 4 >= t.size * 3)
  <2>1. Roomy(t) = t
    BY <1>5 DEF Roomy
  <2>2. HasRoom(t)
    BY <1>1, <1>5 DEF HasRoom
  <2> QED
    BY <2>1, <2>2
<1> QED
  BY <1>3, <1>4, <1>5

LEMMA LookedKeeps ==
    ASSUME NEW t, TabOK(t), NEW k \in Key
    PROVE  LET u == Looked(t, k)
           IN  /\ TabOK(u) /\ u.arr = t.arr /\ u.size = t.size /\ u.slots = t.slots
               /\ u.cap = t.cap /\ u.small = t.small /\ u.lim = t.lim
               /\ u.count = t.count /\ u.tombs = t.tombs
<1>1. CASE InArray(t, k) \/ Cached(t, k) \/ ~Found(t, k)
  BY <1>1 DEF Looked
<1>2. CASE ~(InArray(t, k) \/ Cached(t, k) \/ ~Found(t, k))
  <2> DEFINE e == [payload |-> Payload[k], at |-> At(t, k)]
             cache == [t.cache EXCEPT ![CacheOf[k]] = e]
             u == Looked(t, k)
  <2>1. u = [t EXCEPT !.cache[CacheOf[k]] = e]
    BY <1>2 DEF Looked
  <2>2. t = Record(t) /\ HashOK(t)
    BY DEF TabOK
  <2>3. e \in [payload : {Payload[l] : l \in Key}, at : 0 .. t.size - 1]
    BY <1>2, <2>2, FoundIs
  <2>4. cache \in CacheMap(t.size)
    <3> HIDE DEF e
    <3>1. t.cache \in CacheMap(t.size)
      BY <2>2 DEF HashOK
    <3> QED
      BY <2>3, <3>1 DEF CacheMap
  <2>5. u = [arr |-> t.arr, cap |-> t.cap, small |-> t.small, lim |-> t.lim, size |-> t.size,
             slots |-> t.slots, count |-> t.count, tombs |-> t.tombs, cache |-> cache]
    <3> HIDE DEF u, e
    <3>1. u = [t EXCEPT !.cache = cache]
      BY <2>1, <2>2 DEF Record
    <3> HIDE DEF cache
    <3> QED
      BY <2>2, <3>1 DEF Record
  <2> HIDE DEF u, cache
  <2>6. u = Record(u) /\ ArrayOK(u) /\ CountersOK(u) /\ PathsOK(u)
    BY <2>5 DEF Record, TabOK, ArrayOK, CountersOK, PathsOK
  <2>7. HashOK(u)
    <3>1. u.size = t.size /\ u.slots = t.slots /\ u.cache = cache
      BY <2>5
    <3> QED
      BY <2>2, <2>4, <3>1 DEF HashOK
  <2>8. /\ u.arr = t.arr /\ u.size = t.size /\ u.slots = t.slots /\ u.cap = t.cap
        /\ u.small = t.small /\ u.lim = t.lim /\ u.count = t.count /\ u.tombs = t.tombs
    BY <2>5
  <2> QED
    BY <2>6, <2>7, <2>8 DEF TabOK, u
<1> QED
  BY <1>1, <1>2

-----------------------------------------------------------------------------
(* The operations. *)
LEMMA SettableKeeps ==
    ASSUME NEW t, TabOK(t), NEW k \in Key, NEW v \in Field
    PROVE  /\ TabOK(Settable(t, k, v))
           /\ v = Nil => KeysStay(t, Settable(t, k, v))
<1> DEFINE i == Index(k)
<1>1. i \in 1 .. MaxIndex \/ i = 0
  BY DEF Index
<1>2. Len(t.arr) \in Nat /\ t.cap \in Nat /\ MaxIndex \in Nat
  BY SizeAssumption DEF TabOK, ArrayOK, SizeAssumption
<1> HIDE DEF i
<1>3. CASE i \in 1 .. t.cap
  <2>1. Settable(t, k, v) = WriteArray(t, i, v)
    BY <1>3 DEF Settable, i
  <2>2. i <= MaxIndex
    BY <1>1, <1>2, <1>3
  <2>3. /\ TabOK(WriteArray(t, i, v))
        /\ WriteArray(t, i, v).slots = t.slots /\ WriteArray(t, i, v).size = t.size
        /\ Len(t.arr) <= Len(WriteArray(t, i, v).arr)
    BY <1>3, <2>2, WriteArrayKeeps
  <2> QED
    BY <2>1, <2>3 DEF KeysStay
<1>4. CASE i \notin 1 .. t.cap /\ i = Len(t.arr) + 1
  <2>1. Settable(t, k, v) = Grow(t, i, v)
    BY <1>4 DEF Settable, i
  <2>2. i \in 1 .. MaxIndex
    BY <1>1, <1>2, <1>4
  <2> QED
    BY <1>4, <2>1, <2>2, GrowKeeps
<1>5. CASE i \notin 1 .. t.cap /\ i # Len(t.arr) + 1 /\ v = Nil
  <2>1. Settable(t, k, v) = Delete(t, k)
    BY <1>5 DEF Settable, i
  <2> QED
    BY <2>1, DeleteKeeps
<1>6. CASE i \notin 1 .. t.cap /\ i # Len(t.arr) + 1 /\ v # Nil
  <2>1. Settable(t, k, v) = Insert(Roomy(t), k, v)
    BY <1>6 DEF Settable, i
  <2>2. TabOK(Roomy(t)) /\ HasRoom(Roomy(t)) /\ v \in Value
    BY <1>6, RoomyKeeps DEF Field
  <2> HIDE DEF HasRoom
  <2>3. TabOK(Insert(Roomy(t), k, v))
    BY <2>2, InsertKeeps
  <2> QED
    BY <1>6, <2>1, <2>3
<1> QED
  BY <1>3, <1>4, <1>5, <1>6

(* The hint moves on over fields. *)
LEMMA PrefixKeeps ==
    ASSUME NEW t, TabOK(t)
    PROVE  /\ TabOK([t EXCEPT !.lim = PrefixLen(t)]) /\ PrefixLen(t) \in Nat
           /\ [t EXCEPT !.lim = PrefixLen(t)].arr = t.arr
           /\ [t EXCEPT !.lim = PrefixLen(t)].size = t.size
           /\ [t EXCEPT !.lim = PrefixLen(t)].slots = t.slots
<1> DEFINE n == Len(t.arr)
           nils == {j \in t.lim .. n - 1 : t.arr[j + 1] = Nil} \cup {n}
           m == PrefixLen(t)
           u == [t EXCEPT !.lim = m]
<1>1. /\ t = Record(t) /\ t.lim \in Nat /\ n \in Nat /\ t.lim <= n
      /\ \A i \in 1 .. t.lim : t.arr[i] # Nil
  BY DEF TabOK, ArrayOK
<1>2. m = IF t.lim < n THEN Min(nils) ELSE t.lim
  BY DEF PrefixLen
<1> HIDE DEF m, n
<1>3. Min(nils) \in nils /\ \A y \in nils : Min(nils) <= y
  <2>1. nils \in SUBSET Nat /\ nils # {}
    BY <1>1
  <2> HIDE DEF nils
  <2> QED
    BY <2>1, MinIs
<1>4. m \in Nat /\ m <= n
  BY <1>1, <1>2, <1>3
<1>5. ASSUME NEW i \in 1 .. m PROVE t.arr[i] # Nil
  <2>1. CASE i <= t.lim
    BY <1>1, <2>1
  <2>2. CASE ~(i <= t.lim)
    <3>1. m = Min(nils) /\ ~(m <= i - 1)
      BY <1>1, <1>2, <1>4, <2>2
    <3>2. i - 1 \notin nils
      BY <1>3, <3>1
    <3>3. i - 1 \in t.lim .. n - 1 /\ i - 1 + 1 = i
      BY <1>1, <1>4, <2>2
    <3> QED
      BY <3>2, <3>3
  <2> QED
    BY <2>1, <2>2
<1> HIDE DEF u
<1>6. u = [arr |-> t.arr, cap |-> t.cap, small |-> t.small, lim |-> m, size |-> t.size,
           slots |-> t.slots, count |-> t.count, tombs |-> t.tombs, cache |-> t.cache]
  BY <1>1 DEF u, Record
<1>7. ArrayOK(u)
  BY <1>4, <1>5, <1>6 DEF TabOK, ArrayOK, n
<1>8. /\ u = Record(u) /\ u.size = t.size /\ u.slots = t.slots /\ u.count = t.count
      /\ u.tombs = t.tombs /\ u.cache = t.cache /\ u.arr = t.arr
  BY <1>6 DEF Record
<1>9. TabOK(u)
  BY <1>7, <1>8, SameHash
<1> QED
  BY <1>4, <1>8, <1>9 DEF u, m

LEMMA RawLenIs ==
    ASSUME NEW t, TabOK(t)
    PROVE  RawLen(t) \in Nat
<1> DEFINE n == Len(t.arr)
           there(j) == j \in 1 .. MaxIndex /\ Lookup(t, j) # Nil
           gaps == {j \in n .. n + MaxIndex : ~there(j + 1)}
<1>1. n \in Nat /\ MaxIndex \in Nat
  BY SizeAssumption DEF TabOK, ArrayOK, SizeAssumption
<1>2. RawLen(t) = IF PrefixLen(t) < n THEN PrefixLen(t) ELSE Min(gaps)
  BY DEF RawLen
<1> HIDE DEF n
<1>3. n + MaxIndex \in gaps /\ gaps \in SUBSET Nat
  <2>1. ~there(n + MaxIndex + 1)
    BY <1>1
  <2> HIDE DEF there
  <2> QED
    BY <1>1, <2>1
<1> HIDE DEF gaps
<1>4. Min(gaps) \in Nat
  BY <1>3, MinIs
<1> QED
  BY <1>2, <1>4, PrefixKeeps

(* Tables with the invariant are a set, which a recursion can range over. *)
Tables ==
    {u \in [arr : Seq(Field), cap : Nat, small : BOOLEAN, lim : Nat, size : Nat,
            slots : UNION {SlotMap(n) : n \in Nat}, count : Nat, tombs : Nat,
            cache : UNION {CacheMap(n) : n \in Nat}] : TabOK(u)}

LEMMA InTables ==
    ASSUME NEW t
    PROVE  t \in Tables <=> TabOK(t)
<1> SUFFICES ASSUME TabOK(t) PROVE t \in Tables
  BY DEF Tables
<1>1. /\ t = Record(t) /\ t.arr \in Seq(Field) /\ t.cap \in Nat /\ t.small \in BOOLEAN
      /\ t.lim \in Nat /\ t.size \in Nat /\ t.count \in Nat /\ t.tombs \in Nat
      /\ t.slots \in SlotMap(t.size) /\ t.cache \in CacheMap(t.size)
  BY DEF TabOK, ArrayOK, HashOK, CountersOK
<1> DEFINE S == UNION {SlotMap(n) : n \in Nat}
           C == UNION {CacheMap(n) : n \in Nat}
<1>2. t.slots \in S /\ t.cache \in C
  BY <1>1
<1> HIDE DEF S, C
<1>3. t \in [arr : Seq(Field), cap : Nat, small : BOOLEAN, lim : Nat, size : Nat,
             slots : S, count : Nat, tombs : Nat, cache : C]
  BY <1>1, <1>2 DEF Record
<1> QED
  BY <1>3 DEF Tables, S, C

Same(t, u) == u.arr = t.arr /\ u.size = t.size /\ u.slots = t.slots

(* Lookups fill the cache and change nothing else. *)
LEMMA AskedKeeps ==
    ASSUME NEW t, TabOK(t), NEW N \in Nat, \A i \in 1 .. N : Len(t.arr) + i \in Key
    PROVE  TabOK(Asked(t, N)) /\ Same(t, Asked(t, N))
<1> DEFINE n == Len(t.arr)
           Body(g) == [i \in 0 .. N |-> IF i = 0 THEN t ELSE Looked(g[i - 1], n + i)]
           f == CHOOSE g : g = Body(g)
           X == {u \in Tables : Same(t, u)}
           step == [i \in 1 .. N |-> [u \in X |-> Looked(u, n + i)]]
<1>1. Asked(t, N) = f[N]
  BY DEF Asked
<1>2. \A i \in 1 .. N : n + i \in Key
  OBVIOUS
<1> HIDE DEF n
<1>3. t \in X
  BY InTables DEF Same
<1>4. ASSUME NEW u \in X, NEW k \in Key PROVE Looked(u, k) \in X
  <2> DEFINE w == Looked(u, k)
  <2>1. TabOK(u) /\ Same(t, u)
    BY InTables
  <2>2. TabOK(w) /\ w.arr = u.arr /\ w.size = u.size /\ w.slots = u.slots
    BY <2>1, LookedKeeps
  <2> HIDE DEF w
  <2>3. w \in X
    BY <2>1, <2>2, InTables DEF Same
  <2> QED
    BY <2>3 DEF w
<1> HIDE DEF X
<1>5. step \in [1 .. N -> [X -> X]]
  <2>1. \A i \in 1 .. N : \A u \in X : Looked(u, n + i) \in X
    BY <1>2, <1>4
  <2> QED
    BY <2>1
<1>6. PICK g : /\ g \in [0 .. N -> X] /\ g[0] = t
               /\ \A i \in 1 .. N : g[i] = step[i][g[i - 1]]
  <2> HIDE DEF step
  <2>1. PICK g : Solution(N, X, t, step, g)
    BY <1>3, <1>5, RecursionSolved
  <2> QED
    BY <2>1 DEF Solution
<1>7. g = Body(g)
  <2>1. ASSUME NEW i \in 1 .. N PROVE g[i] = Looked(g[i - 1], n + i)
    <3>1. i - 1 \in 0 .. N
      OBVIOUS
    <3>2. g[i - 1] \in X
      BY <1>6, <3>1
    <3> QED
      BY <1>6, <3>2
  <2> HIDE DEF step
  <2>2. \A i \in 0 .. N : i = 0 \/ i \in 1 .. N
    OBVIOUS
  <2>3. \A i \in 0 .. N : g[i] = Body(g)[i]
    BY <1>6, <2>1, <2>2
  <2>4. g = [i \in 0 .. N |-> g[i]]
    BY <1>6
  <2> QED
    BY <2>3, <2>4
<1>8. f = Body(f)
  <2> HIDE DEF Body
  <2> QED
    BY <1>7
<1> HIDE DEF f, step
<1> DEFINE S == {i \in 0 .. N : f[i] \in X}
<1>9. 0 \in S
  <2>1. f[0] = Body(f)[0] /\ 0 \in 0 .. N
    BY <1>8
  <2> QED
    BY <1>3, <2>1
<1>10. ASSUME NEW i \in 0 .. N - 1, i \in S PROVE i + 1 \in S
  <2>1. i + 1 \in 0 .. N /\ i + 1 # 0 /\ i + 1 - 1 = i /\ i + 1 \in 1 .. N
    OBVIOUS
  <2>2. f[i + 1] = Body(f)[i + 1]
    BY <1>8
  <2>3. f[i + 1] = Looked(f[i], n + (i + 1))
    BY <2>1, <2>2
  <2>4. f[i + 1] \in X
    BY <1>2, <1>4, <1>10, <2>1, <2>3
  <2> QED
    BY <2>1, <2>4
<1>11. N \in S
  <2> HIDE DEF S
  <2>1. 0 .. N \subseteq S
    BY <1>9, <1>10, UpTo
  <2> QED
    BY <2>1
<1>12. f[N] \in X
  BY <1>11
<1> QED
  BY <1>1, <1>12, InTables DEF X

LEMMA LengthKeeps ==
    ASSUME TabOK(tab), Length
    PROVE  \E u : tab' = u /\ TabOK(u) /\ Same(tab, u)
<1> DEFINE h == Healed(tab)
           n == Len(tab.arr)
           top == Min({RawLen(tab) + 1, MaxIndex})
           N == Max({0, top - n})
<1>1. tab' = Asked(h, N)
  BY DEF Length
<1>2. TabOK(h) /\ Same(tab, h) /\ Len(h.arr) = n
  BY PrefixKeeps DEF Same, Healed
<1>3. n \in Nat /\ MaxIndex \in Nat /\ RawLen(tab) \in Nat
  BY SizeAssumption, RawLenIs DEF TabOK, ArrayOK, SizeAssumption
<1> HIDE DEF h, n
<1>4. top \in Int /\ top <= MaxIndex
  <2>1. RawLen(tab) + 1 \in Int /\ MaxIndex \in Int
    BY <1>3
  <2>2. top = IF RawLen(tab) + 1 <= MaxIndex THEN RawLen(tab) + 1 ELSE MaxIndex
    BY <2>1, MinTwo
  <2> HIDE DEF top
  <2> QED
    BY <1>3, <2>1, <2>2
<1> HIDE DEF top
<1>5. N \in Nat /\ \A i \in 1 .. N : n + i \in 1 .. MaxIndex
  <2>1. 0 \in Int /\ top - n \in Int
    BY <1>3, <1>4
  <2>2. N = IF 0 >= top - n THEN 0 ELSE top - n
    BY <2>1, MaxTwo
  <2> HIDE DEF N
  <2> QED
    BY <1>3, <1>4, <2>1, <2>2
<1> HIDE DEF N
<1>6. \A i \in 1 .. N : Len(h.arr) + i \in Key
  BY <1>2, <1>5, KeyAssumption DEF KeyAssumption
<1>7. TabOK(Asked(h, N)) /\ Same(h, Asked(h, N))
  BY <1>2, <1>5, <1>6, AskedKeeps
<1> QED
  BY <1>1, <1>2, <1>7 DEF Same

LEMMA RecycleKeeps ==
    ASSUME TabOK(tab), NEW n \in Nat, Recycle(n)
    PROVE  \E u : tab' = u /\ TabOK(u)
<1> DEFINE arr == [j \in 1 .. n |-> Nil]
           cap == IF n = 0 /\ tab.small THEN tab.cap ELSE n
           small == IF n = 0 THEN tab.small ELSE n <= 2
           slots == [s \in DOMAIN tab.slots |-> [tab.slots[s] EXCEPT !.key = Empty]]
           u == [arr |-> arr, cap |-> cap, small |-> small, lim |-> 0, size |-> tab.size,
                 slots |-> slots, count |-> 0, tombs |-> 0, cache |-> NoCache]
<1>1. /\ tab = Record(tab) /\ tab.size \in Nat /\ tab.slots \in SlotMap(tab.size)
      /\ tab.cap \in Nat /\ (tab.size > 3 \/ tab.size = 0)
  BY DEF TabOK, ArrayOK, HashOK
<1>2. tab' = u
  <2>1. tab' = [tab EXCEPT !.arr = arr, !.cap = cap, !.small = small, !.lim = 0,
                           !.slots = slots, !.count = 0, !.tombs = 0, !.cache = NoCache]
    BY DEF Recycle
  <2> HIDE DEF arr, cap, small, slots
  <2> QED
    BY <1>1, <2>1 DEF Record
<1>3. cap \in Nat /\ n <= cap
  BY <1>1
<1>4. arr \in Seq(Field) /\ Len(arr) = n /\ \A j \in 1 .. n : arr[j] = Nil
  <2>1. arr \in [1 .. n -> Field] /\ \A j \in 1 .. n : arr[j] = Nil
    BY DEF Field
  <2> HIDE DEF arr
  <2> QED
    BY <2>1, SeqIs
<1>5. slots \in SlotMap(tab.size) /\ \A s \in 0 .. tab.size - 1 : slots[s].key = Empty
  <2>1. \A s \in 0 .. tab.size - 1 : tab.slots[s] \in Slot
    BY <1>1 DEF SlotMap
  <2>2. DOMAIN tab.slots = 0 .. tab.size - 1
    BY <1>1, SlotsOf
  <2>3. \A e \in Slot : [e EXCEPT !.key = Empty] \in Slot /\ [e EXCEPT !.key = Empty].key = Empty
    BY DEF Slot, Free
  <2> QED
    BY <2>1, <2>2, <2>3 DEF SlotMap
<1>9. small \in BOOLEAN
  <2>1. tab.small \in BOOLEAN
    BY DEF TabOK, ArrayOK
  <2>2. (n <= 2) \in BOOLEAN
    OBVIOUS
  <2>3. CASE n = 0
    <3>1. small = tab.small
      BY <2>3
    <3> QED
      BY <2>1, <3>1, Zenon
  <2>4. CASE n # 0
    <3>1. small = (n <= 2)
      BY <2>4
    <3> QED
      BY <2>2, <3>1, Zenon
  <2> QED
    BY <2>3, <2>4
<1> HIDE DEF arr, cap, small, slots
<1>6. ArrayOK(u)
  <2>1. u.arr = arr /\ u.cap = cap /\ u.lim = 0 /\ u.small = small
    OBVIOUS
  <2> HIDE DEF u
  <2> QED
    BY <1>3, <1>4, <1>9, <2>1 DEF ArrayOK
<1>7. HashOK(u) /\ CountersOK(u) /\ PathsOK(u)
  <2>1. /\ u.size = tab.size /\ u.slots = slots /\ u.count = 0 /\ u.tombs = 0
        /\ u.cache = NoCache
    OBVIOUS
  <2> HIDE DEF u
  <2>2. NoCache \in CacheMap(tab.size)
    BY DEF CacheMap, NoCache
  <2>3. DOMAIN slots = 0 .. tab.size - 1
    BY <1>1, <1>5, SlotsOf
  <2>4. Live(slots) = {} /\ Filled(slots) = {}
    BY <1>5, <2>3 DEF Live, Filled, Free
  <2>5. Cardinality({}) = 0
    BY FS_EmptySet
  <2>6. 4 * (0 + 0) = 0 /\ 0 <= 0 + 0 /\ (tab.size > 0 => 0 < 3 * tab.size)
    BY <1>1
  <2>7. HashOK(u)
    BY <1>1, <1>5, <2>1, <2>2 DEF HashOK
  <2>8. CountersOK(u)
    BY <2>1, <2>4, <2>5, <2>6 DEF CountersOK
  <2>9. PathsOK(u)
    BY <1>5, <2>1 DEF PathsOK, PathsIn, Free
  <2> QED
    BY <2>7, <2>8, <2>9
<1>8. u = Record(u)
  BY DEF Record
<1> QED
  BY <1>2, <1>6, <1>7, <1>8 DEF TabOK

-----------------------------------------------------------------------------
(* The traversal. *)
LEMMA StandsKept ==
    ASSUME NEW t, TabOK(t), NEW u, TabOK(u), KeysStay(t, u), NEW k, StandsAt(t, k)
    PROVE  StandsAt(u, k)
<1>1. Len(t.arr) \in Nat /\ Len(u.arr) \in Nat /\ Len(t.arr) <= Len(u.arr) /\ u.size = t.size
  BY DEF TabOK, ArrayOK, KeysStay
<1>2. CASE Cut[k] \in 1 .. Len(t.arr)
  <2>1. Cut[k] \in 1 .. Len(u.arr)
    BY <1>1, <1>2
  <2> QED
    BY <2>1 DEF StandsAt
<1>3. CASE Cut[k] \notin 1 .. Len(t.arr)
  <2>1. PICK s \in 0 .. t.size - 1 : t.slots[s].key = k
    BY <1>3 DEF StandsAt
  <2>2. k \in Key
    BY DEF StandsAt
  <2>3. u.slots[s].key = k \/ Index(k) \in 1 .. Len(u.arr)
    BY <2>1, <2>2 DEF KeysStay
  <2>4. Index(k) \in 1 .. Len(u.arr) => Cut[k] = Index(k)
    <3>1. Index(k) \in 1 .. Len(u.arr) => Index(k) # 0
      BY <1>1
    <3>2. Index(k) # 0 => Lua[k] \in 1 .. MaxIndex /\ Index(k) = Lua[k]
      BY DEF Index
    <3> QED
      BY <2>2, <3>1, <3>2, KeyAssumption DEF KeyAssumption
  <2> QED
    BY <1>1, <2>1, <2>2, <2>3, <2>4 DEF StandsAt
<1> QED
  BY <1>2, <1>3

(* A store during a traversal clears a field. *)
LEMMA AssignsKeeps ==
    ASSUME TabIInv, NEW k \in Key, NEW v \in Field, Assigns(k, v),
           NEW u, tab' = u, TabOK(u), v = Nil => KeysStay(tab, u)
    PROVE  TabIInv'
<1>1. TabOK(tab)'
  BY DEF TabOK, Record, ArrayOK, HashOK, CountersOK, PathsOK
<1>2. CursorOK'
  <2> SUFFICES ASSUME Walking', ~Updates PROVE StandsAt(tab, cursor)'
    BY DEF CursorOK
  <2>1. Walking /\ cursor' = cursor /\ v = Nil
    BY DEF Assigns, Walking
  <2>2. StandsAt(tab, cursor) /\ TabOK(tab)
    BY <2>1 DEF TabIInv, CursorOK
  <2>3. StandsAt(u, cursor)
    BY <2>1, <2>2, StandsKept
  <2> QED
    BY <2>1, <2>3 DEF StandsAt
<1> QED
  BY <1>1, <1>2 DEF TabIInv

LEMMA SetKeeps ==
    ASSUME TabIInv, NEW k \in Key, NEW v \in Field, Set(k, v)
    PROVE  TabIInv'
<1>1. TabOK(tab)
  BY DEF TabIInv
<1> DEFINE i == Index(k)
           t == Looked(tab, k)
<1>2. CASE i \in 1 .. tab.cap
  <2> DEFINE u == WriteArray(tab, i, v)
  <2>1. tab' = u
    BY <1>2 DEF Set
  <2>2. i <= MaxIndex
    <3>1. MaxIndex \in Nat /\ (i \in 1 .. MaxIndex \/ i = 0)
      BY SizeAssumption DEF Index, SizeAssumption
    <3> HIDE DEF i
    <3> QED
      BY <3>1
  <2>3. /\ TabOK(u) /\ u.slots = tab.slots /\ u.size = tab.size /\ Len(tab.arr) <= Len(u.arr)
    BY <1>1, <1>2, <2>2, WriteArrayKeeps
  <2> HIDE DEF u
  <2>4. KeysStay(tab, u)
    BY <2>3 DEF KeysStay
  <2> QED
    BY <2>1, <2>3, <2>4, AssignsKeeps DEF Set
<1>3. CASE i \notin 1 .. tab.cap
  <2> DEFINE u == Settable(t, k, v)
  <2>1. tab' = u
    BY <1>3 DEF Set
  <2>2. TabOK(t) /\ t.arr = tab.arr /\ t.size = tab.size /\ t.slots = tab.slots
    BY <1>1, LookedKeeps
  <2> HIDE DEF t
  <2>3. TabOK(u) /\ (v = Nil => KeysStay(t, u))
    BY <2>2, SettableKeeps
  <2> HIDE DEF u
  <2>4. v = Nil => KeysStay(tab, u)
    BY <2>2, <2>3 DEF KeysStay
  <2> QED
    BY <2>1, <2>3, <2>4, AssignsKeeps DEF Set
<1> QED
  BY <1>2, <1>3

LEMMA RawSetKeeps ==
    ASSUME TabIInv, NEW k \in Key, NEW v \in Field, RawSet(k, v)
    PROVE  TabIInv'
<1> DEFINE u == Settable(tab, k, v)
<1>1. tab' = u /\ Assigns(k, v)
  BY DEF RawSet
<1>2. TabOK(u) /\ (v = Nil => KeysStay(tab, u))
  BY SettableKeeps DEF TabIInv
<1> HIDE DEF u
<1> QED
  BY <1>1, <1>2, AssignsKeeps

(* The slots, the array part and the cursor stay. *)
LEMMA SameKeeps ==
    ASSUME TabIInv, NEW u, tab' = u, TabOK(u), Same(tab, u), cursor' = cursor
    PROVE  TabIInv'
<1>1. TabOK(tab)'
  BY DEF TabOK, Record, ArrayOK, HashOK, CountersOK, PathsOK
<1>2. CursorOK'
  BY DEF TabIInv, CursorOK, Walking, StandsAt, Same
<1> QED
  BY <1>1, <1>2 DEF TabIInv

LEMMA GetKeeps ==
    ASSUME TabIInv, NEW k \in Key, Get(k)
    PROVE  TabIInv'
<1> DEFINE u == IF Cached(tab, k) THEN tab ELSE Looked(tab, k)
<1>1. tab' = u /\ cursor' = cursor
  BY DEF Get
<1>2. TabOK(u) /\ Same(tab, u)
  <2>1. TabOK(tab)
    BY DEF TabIInv
  <2>2. TabOK(Looked(tab, k)) /\ Same(tab, Looked(tab, k))
    BY <2>1, LookedKeeps DEF Same
  <2> QED
    BY <2>1, <2>2 DEF Same
<1> HIDE DEF u
<1> QED
  BY <1>1, <1>2, SameKeeps

(* What next returns stands in the table. *)
LEMMA NextKeyKeeps ==
    ASSUME TabIInv, NextKey
    PROVE  TabIInv'
<1> DEFINE n == Len(tab.arr)
<1>1. /\ n \in Nat /\ tab.size \in Nat /\ tab.slots \in SlotMap(tab.size)
      /\ \A i \in 1 .. n : tab.arr[i] # Nil => i <= MaxIndex
      /\ tab' = tab /\ TabOK(tab) /\ MaxIndex \in Nat
  BY SizeAssumption DEF TabIInv, TabOK, ArrayOK, HashOK, NextKey, SizeAssumption
<1>2. DOMAIN tab.slots = 0 .. tab.size - 1
  BY <1>1, SlotsOf
<1>3. ASSUME NEW s, FromHash(s) PROVE cursor' = Nil \/ StandsAt(tab, cursor')
  <2>1. CASE HashFrom(s) = {}
    BY <1>3, <2>1 DEF FromHash, Ends
  <2>2. CASE HashFrom(s) # {}
    <3> DEFINE r == Min(HashFrom(s))
    <3>1. HashFrom(s) \in SUBSET Nat
      BY <1>2 DEF HashFrom
    <3>2. r \in HashFrom(s)
      BY <2>2, <3>1, MinIs
    <3>3. cursor' = tab.slots[r].key
      BY <1>3, <2>2 DEF FromHash, Returns
    <3> HIDE DEF r
    <3>4. r \in 0 .. tab.size - 1 /\ tab.slots[r].key \notin Free
      BY <1>2, <3>2 DEF HashFrom
    <3>5. tab.slots[r].key \in Key
      BY <1>1, <3>4, SlotsOf
    <3> QED
      BY <3>3, <3>4, <3>5 DEF StandsAt
  <2> QED
    BY <2>1, <2>2
<1>4. ASSUME NEW i \in Nat, FromArray(i) PROVE cursor' = Nil \/ StandsAt(tab, cursor')
  <2>1. CASE ArrayAfter(i) = {}
    BY <1>3, <1>4, <2>1 DEF FromArray
  <2>2. CASE ArrayAfter(i) # {}
    <3> DEFINE j == Min(ArrayAfter(i))
    <3>1. ArrayAfter(i) \in SUBSET Nat
      BY <1>1 DEF ArrayAfter
    <3>2. j \in ArrayAfter(i)
      BY <2>2, <3>1, MinIs
    <3>3. cursor' = j
      BY <1>4, <2>2 DEF FromArray, Returns
    <3> HIDE DEF j
    <3>4. j \in 1 .. n /\ tab.arr[j] # Nil
      BY <1>1, <3>2 DEF ArrayAfter
    <3>5. j \in 1 .. MaxIndex
      BY <1>1, <3>4
    <3>6. j \in Key /\ Cut[j] = j
      BY <3>5, KeyAssumption DEF KeyAssumption
    <3>7. StandsAt(tab, j)
      BY <3>4, <3>6 DEF StandsAt
    <3> QED
      BY <3>3, <3>7
  <2> QED
    BY <2>1, <2>2
<1>5. cursor' = Nil \/ StandsAt(tab, cursor')
  <2>1. CASE ~Walking
    BY <1>4, <2>1 DEF NextKey
  <2>2. CASE Walking /\ Cut[cursor] \in 1 .. Len(tab.arr)
    <3>1. Cut[cursor] \in Nat
      BY <1>1, <2>2
    <3>2. FromArray(Cut[cursor])
      BY <2>2 DEF NextKey
    <3> QED
      BY <1>4, <3>1, <3>2
  <2>3. CASE Walking /\ ~(Cut[cursor] \in 1 .. Len(tab.arr)) /\ Found(tab, cursor)
    <3>1. FromHash(At(tab, cursor) + 1)
      BY <2>3 DEF NextKey
    <3> QED
      BY <1>3, <3>1
  <2>4. CASE Walking /\ ~(Cut[cursor] \in 1 .. Len(tab.arr)) /\ ~Found(tab, cursor)
    BY <2>4 DEF NextKey, Ends
  <2> QED
    BY <2>1, <2>2, <2>3, <2>4
<1>6. TabOK(tab)'
  BY <1>1 DEF TabOK, Record, ArrayOK, HashOK, CountersOK, PathsOK
<1>7. CursorOK'
  BY <1>1, <1>5 DEF CursorOK, Walking, StandsAt
<1> QED
  BY <1>6, <1>7 DEF TabIInv

-----------------------------------------------------------------------------
(* The table library. *)
LEMMA LookupIs ==
    ASSUME NEW t, TabOK(t), NEW k \in Key
    PROVE  Lookup(t, k) \in Field
<1>1. /\ t.arr \in Seq(Field) /\ HashOK(t) /\ t.size \in Nat /\ t.slots \in SlotMap(t.size)
  BY DEF TabOK, ArrayOK, HashOK
<1>2. \A s \in 0 .. t.size - 1 : t.slots[s].val \in Field
  BY <1>1, SlotsOf
<1>3. InArray(t, k) => t.arr[Index(k)] \in Field
  BY <1>1 DEF InArray
<1>4. Cached(t, k) => t.slots[CachedAt(t, k)].val \in Field
  BY <1>1, <1>2, CachedIs
<1>5. Found(t, k) => t.slots[At(t, k)].val \in Field
  BY <1>1, <1>2, FoundIs
<1> QED
  BY <1>3, <1>4, <1>5 DEF Lookup, Field

LEMMA MoveElemKeeps ==
    ASSUME NEW t, TabOK(t), NEW from \in Key, NEW to \in Key
    PROVE  TabOK(MoveElem(t, from, to))
<1> DEFINE u == Looked(t, from)
           v == Lookup(t, from)
<1>1. TabOK(u) /\ v \in Field
  BY LookedKeeps, LookupIs
<1>2. MoveElem(t, from, to) = Settable(u, to, v)
  BY DEF MoveElem
<1> HIDE DEF u, v
<1> QED
  BY <1>1, <1>2, SettableKeeps

LEMMA MoveEachKeeps ==
    ASSUME NEW t, TabOK(t), NEW from, NEW step, NEW N \in Nat, NEW by,
           \A i \in 1 .. N : /\ from + step * (i - 1) \in Key
                             /\ from + step * (i - 1) + by \in Key
    PROVE  TabOK(MoveEach(t, from, step, N, by))
<1> DEFINE Mv(u, i) == LET k == from + step * (i - 1) IN MoveElem(u, k, k + by)
           Body(g) == [i \in 0 .. N |-> IF i = 0 THEN t ELSE Mv(g[i - 1], i)]
           f == CHOOSE g : g = Body(g)
           ss == [i \in 1 .. N |-> [u \in Tables |-> Mv(u, i)]]
<1>1. MoveEach(t, from, step, N, by) = f[N]
  BY DEF MoveEach
<1>2. t \in Tables
  BY InTables
<1>3. ASSUME NEW u \in Tables, NEW i \in 1 .. N PROVE Mv(u, i) \in Tables
  <2> DEFINE k == from + step * (i - 1)
  <2>1. k \in Key /\ k + by \in Key
    OBVIOUS
  <2> HIDE DEF k
  <2>2. TabOK(MoveElem(u, k, k + by))
    BY <2>1, InTables, MoveElemKeeps
  <2>3. Mv(u, i) = MoveElem(u, k, k + by)
    BY DEF k
  <2> HIDE DEF Mv
  <2> QED
    BY <2>2, <2>3, InTables
<1> HIDE DEF Mv
<1>4. ss \in [1 .. N -> [Tables -> Tables]]
  BY <1>3
<1>5. PICK g : /\ g \in [0 .. N -> Tables] /\ g[0] = t
               /\ \A i \in 1 .. N : g[i] = ss[i][g[i - 1]]
  <2> HIDE DEF ss
  <2>1. PICK g : Solution(N, Tables, t, ss, g)
    BY <1>2, <1>4, RecursionSolved
  <2> QED
    BY <2>1 DEF Solution
<1>6. g = Body(g)
  <2>1. ASSUME NEW i \in 1 .. N PROVE g[i] = Mv(g[i - 1], i)
    <3>1. i - 1 \in 0 .. N
      OBVIOUS
    <3>2. g[i - 1] \in Tables
      BY <1>5, <3>1
    <3> QED
      BY <1>5, <3>2
  <2> HIDE DEF ss
  <2>2. \A i \in 0 .. N : i = 0 \/ i \in 1 .. N
    OBVIOUS
  <2>3. \A i \in 0 .. N : g[i] = Body(g)[i]
    BY <1>5, <2>1, <2>2
  <2>4. g = [i \in 0 .. N |-> g[i]]
    BY <1>5
  <2> QED
    BY <2>3, <2>4
<1>7. f = Body(f)
  <2> HIDE DEF Body
  <2> QED
    BY <1>6
<1> HIDE DEF f, ss
<1> DEFINE S == {i \in 0 .. N : f[i] \in Tables}
<1>8. 0 \in S
  <2>1. f[0] = Body(f)[0] /\ 0 \in 0 .. N
    BY <1>7
  <2> QED
    BY <1>2, <2>1
<1>9. ASSUME NEW i \in 0 .. N - 1, i \in S PROVE i + 1 \in S
  <2>1. i + 1 \in 0 .. N /\ i + 1 # 0 /\ i + 1 - 1 = i /\ i + 1 \in 1 .. N
    OBVIOUS
  <2>2. f[i + 1] = Body(f)[i + 1]
    BY <1>7
  <2>3. f[i + 1] = Mv(f[i], i + 1)
    BY <2>1, <2>2
  <2>4. f[i + 1] \in Tables
    BY <1>3, <1>9, <2>1, <2>3
  <2> QED
    BY <2>1, <2>4
<1>10. N \in S
  <2> HIDE DEF S
  <2>1. 0 .. N \subseteq S
    BY <1>8, <1>9, UpTo
  <2> QED
    BY <2>1
<1>11. f[N] \in Tables
  BY <1>10
<1> QED
  BY <1>1, <1>11, InTables

(* An array part of n elements that fits the capacity and the hint. *)
ArrayFits(t, arr, n, lim) ==
    /\ n \in Nat /\ n <= t.cap /\ arr \in [1 .. n -> Field]
    /\ lim \in Nat /\ lim <= n /\ \A j \in 1 .. lim : arr[j] # Nil
    /\ \A j \in 1 .. n : arr[j] # Nil => j <= MaxIndex

WithArray(t, arr, lim) == [t EXCEPT !.arr = arr, !.lim = lim]

LEMMA ArrayKeeps ==
    ASSUME NEW t, TabOK(t), NEW arr, NEW n, NEW lim, ArrayFits(t, arr, n, lim)
    PROVE  TabOK(WithArray(t, arr, lim))
<1> DEFINE u == WithArray(t, arr, lim)
<1>1. t = Record(t) /\ t.small \in BOOLEAN /\ t.cap \in Nat
  BY DEF TabOK, ArrayOK
<1>2. arr \in Seq(Field) /\ Len(arr) = n
  BY SeqIs DEF ArrayFits
<1>0. u = [t EXCEPT !.arr = arr, !.lim = lim]
  BY DEF WithArray
<1> HIDE DEF u
<1>3. u = [arr |-> arr, cap |-> t.cap, small |-> t.small, lim |-> lim, size |-> t.size,
           slots |-> t.slots, count |-> t.count, tombs |-> t.tombs, cache |-> t.cache]
  BY <1>0, <1>1 DEF Record
<1>4. /\ u = Record(u) /\ u.size = t.size /\ u.slots = t.slots /\ u.count = t.count
      /\ u.tombs = t.tombs /\ u.cache = t.cache
      /\ u.arr = arr /\ u.cap = t.cap /\ u.lim = lim /\ u.small = t.small
  BY <1>3 DEF Record
<1>5. ArrayOK(u)
  BY <1>1, <1>2, <1>4 DEF ArrayOK, ArrayFits
<1>6. TabOK(u)
  BY <1>4, <1>5, SameHash
<1> QED
  BY <1>6 DEF u

LEMMA OpenGapKeeps ==
    ASSUME NEW t, TabOK(t), NEW pos \in 1 .. MaxIndex, NEW len \in Nat, NEW v \in Value,
           pos <= len, len <= Len(t.arr), len + 1 <= t.cap, len + 1 <= MaxIndex
    PROVE  TabOK(OpenGap(t, pos, len, v))
<1> DEFINE m == Len(t.arr)
           n == Max({len + 1, m})
           arr == [j \in 1 .. n |-> IF j = pos THEN v
                                    ELSE IF j > pos /\ j <= len + 1 THEN t.arr[j - 1]
                                    ELSE t.arr[j]]
           lim == Hint(t.lim, pos, v)
<1>1. /\ t.arr \in Seq(Field) /\ t.cap \in Nat /\ m \in Nat /\ m <= t.cap
      /\ t.lim \in Nat /\ t.lim <= m /\ (\A i \in 1 .. t.lim : t.arr[i] # Nil)
      /\ (\A i \in 1 .. m : t.arr[i] # Nil => i <= MaxIndex) /\ t = Record(t)
  BY DEF TabOK, ArrayOK
<1>2. OpenGap(t, pos, len, v) = WithArray(t, arr, lim)
  BY DEF OpenGap, WithArray
<1>3. lim = IF pos = t.lim + 1 THEN pos ELSE t.lim
  BY KeyAssumption DEF Hint, KeyAssumption
<1>4. \A i \in 1 .. m : t.arr[i] \in Field
  BY <1>1
<1>5. len <= m
  OBVIOUS
<1> HIDE DEF m
<1>6. n = IF len + 1 >= m THEN len + 1 ELSE m
  <2>1. len + 1 \in Int /\ m \in Int
    BY <1>1
  <2> QED
    BY <2>1, MaxTwo
<1> HIDE DEF n, lim
<1>7. n \in Nat /\ n <= t.cap /\ lim \in Nat /\ lim <= n /\ pos \in Nat /\ MaxIndex \in Nat
  BY <1>1, <1>3, <1>5, <1>6, SizeAssumption DEF SizeAssumption
<1>8. v \in Field /\ v # Nil
  BY KeyAssumption DEF KeyAssumption, Field
<1>9. ASSUME NEW j \in 1 .. n
      PROVE  /\ arr[j] \in Field /\ (arr[j] # Nil => j <= MaxIndex)
             /\ (j <= lim => arr[j] # Nil)
  <2>1. CASE j = pos
    BY <1>8, <2>1
  <2>2. CASE j # pos /\ j > pos /\ j <= len + 1
    <3>1. arr[j] = t.arr[j - 1]
      BY <2>2
    <3>2. j - 1 \in 1 .. m /\ j <= MaxIndex /\ (j <= lim => j - 1 \in 1 .. t.lim)
      BY <1>1, <1>3, <1>5, <1>7, <2>2
    <3> HIDE DEF arr
    <3> QED
      BY <1>1, <1>4, <3>1, <3>2
  <2>3. CASE j # pos /\ ~(j > pos /\ j <= len + 1)
    <3>1. arr[j] = t.arr[j]
      BY <2>3
    <3>2. j \in 1 .. m /\ (j <= lim => j \in 1 .. t.lim)
      BY <1>1, <1>3, <1>5, <1>6, <1>7, <2>3
    <3> HIDE DEF arr
    <3> QED
      BY <1>1, <1>4, <3>1, <3>2
  <2> QED
    BY <2>1, <2>2, <2>3
<1>10. \A j \in 1 .. lim : j \in 1 .. n /\ j <= lim
  BY <1>7
<1>11. arr = [j \in 1 .. n |-> arr[j]]
  OBVIOUS
<1> HIDE DEF arr
<1>12. arr \in [1 .. n -> Field]
  BY <1>9, <1>11
<1>13. ArrayFits(t, arr, n, lim)
  BY <1>7, <1>9, <1>10, <1>12 DEF ArrayFits
<1> QED
  BY <1>2, <1>13, ArrayKeeps

LEMMA CloseGapKeeps ==
    ASSUME NEW t, TabOK(t), NEW pos \in 1 .. MaxIndex, NEW len \in Nat,
           pos <= len, len <= Len(t.arr)
    PROVE  TabOK(CloseGap(t, pos, len))
<1> DEFINE n == Len(t.arr)
           arr == [j \in 1 .. n |-> IF j < pos \/ j > len THEN t.arr[j]
                                    ELSE IF j < len THEN t.arr[j + 1] ELSE Nil]
           lim == Min({t.lim, pos - 1})
<1>1. /\ t.arr \in Seq(Field) /\ t.cap \in Nat /\ n \in Nat /\ n <= t.cap
      /\ t.lim \in Nat /\ t.lim <= n /\ (\A i \in 1 .. t.lim : t.arr[i] # Nil)
      /\ (\A i \in 1 .. n : t.arr[i] # Nil => i <= MaxIndex) /\ t = Record(t)
      /\ DOMAIN t.arr = 1 .. n
  BY DEF TabOK, ArrayOK
<1>2. CloseGap(t, pos, len) = WithArray(t, arr, lim)
  BY <1>1 DEF CloseGap, WithArray
<1>3. lim = IF t.lim <= pos - 1 THEN t.lim ELSE pos - 1
  <2>1. t.lim \in Int /\ pos - 1 \in Int
    BY <1>1
  <2> QED
    BY <2>1, MinTwo
<1>4. \A i \in 1 .. n : t.arr[i] \in Field
  BY <1>1
<1>5. len <= n /\ Nil \in Field
  BY DEF Field
<1> HIDE DEF n, lim
<1>6. lim \in Nat /\ lim <= n /\ pos \in Nat /\ MaxIndex \in Nat
  BY <1>1, <1>3, SizeAssumption DEF SizeAssumption
<1>7. ASSUME NEW j \in 1 .. n
      PROVE  /\ arr[j] \in Field /\ (arr[j] # Nil => j <= MaxIndex)
             /\ (j <= lim => arr[j] # Nil)
  <2>1. CASE j < pos \/ j > len
    <3>1. arr[j] = t.arr[j]
      BY <2>1
    <3>2. j <= lim => j \in 1 .. t.lim
      BY <1>1, <1>3, <1>6
    <3> HIDE DEF arr
    <3> QED
      BY <1>1, <1>4, <3>1, <3>2
  <2>2. CASE ~(j < pos \/ j > len) /\ j < len
    <3>1. arr[j] = t.arr[j + 1]
      BY <2>2
    <3>2. j + 1 \in 1 .. n /\ ~(j <= lim) /\ (j + 1 <= MaxIndex => j <= MaxIndex)
      BY <1>1, <1>3, <1>5, <1>6, <2>2
    <3> HIDE DEF arr
    <3> QED
      BY <1>1, <1>4, <3>1, <3>2
  <2>3. CASE ~(j < pos \/ j > len) /\ ~(j < len)
    <3>1. arr[j] = Nil
      BY <2>3
    <3>2. ~(j <= lim)
      BY <1>1, <1>3, <1>6, <2>3
    <3> HIDE DEF arr
    <3> QED
      BY <1>5, <3>1, <3>2
  <2> QED
    BY <2>1, <2>2, <2>3
<1>8. \A j \in 1 .. lim : j \in 1 .. n /\ j <= lim
  BY <1>1, <1>6
<1>9. arr = [j \in 1 .. n |-> arr[j]]
  OBVIOUS
<1> HIDE DEF arr
<1>10. arr \in [1 .. n -> Field]
  BY <1>7, <1>9
<1>11. ArrayFits(t, arr, n, lim)
  BY <1>1, <1>6, <1>7, <1>8, <1>10 DEF ArrayFits
<1> QED
  BY <1>2, <1>11, ArrayKeeps

LEMMA KeyOf ==
    ASSUME NEW i \in 1 .. MaxIndex
    PROVE  i \in Key /\ Index(i) = i
BY KeyAssumption DEF KeyAssumption, Index

LEMMA InsertedKeeps ==
    ASSUME NEW t, TabOK(t), NEW pos \in 1 .. MaxIndex, NEW len \in 0 .. MaxIndex - 1,
           NEW v \in Value, pos <= len + 1
    PROVE  TabOK(Inserted(t, pos, len, v))
<1> DEFINE m == Len(t.arr)
<1>1. /\ m \in Nat /\ t.cap \in Nat /\ m <= t.cap /\ MaxIndex \in Nat
      /\ v \in Field /\ Nil \in Field /\ pos \in Key
  BY KeyOf, SizeAssumption DEF TabOK, ArrayOK, SizeAssumption, Field
<1>2. CASE pos > len
  BY <1>1, <1>2, SettableKeeps DEF Inserted
<1>3. CASE ~(pos > len) /\ InArrayPart(t, pos, len)
  <2> DEFINE u == IF t.cap <= len THEN Settable(t, len + 1, Nil) ELSE t
  <2>1. Inserted(t, pos, len, v) = OpenGap(u, pos, len, v)
    BY <1>3 DEF Inserted
  <2>2. len <= m /\ len \in Nat /\ len + 1 \in 1 .. MaxIndex
    BY <1>1, <1>3 DEF InArrayPart
  <2>3. TabOK(u) /\ len <= Len(u.arr) /\ len + 1 <= u.cap
    <3>1. CASE t.cap <= len
      <4> DEFINE i == len + 1
                 w == Grow(t, i, Nil)
      <4>1. i \in 1 .. MaxIndex /\ i \in Key /\ Index(i) = i
        BY <2>2, KeyOf
      <4>2. i = m + 1 /\ i \notin 1 .. t.cap
        <5> HIDE DEF m
        <5> QED
          BY <1>1, <2>2, <3>1
      <4> HIDE DEF i
      <4>3. Settable(t, i, Nil) = w
        BY <4>1, <4>2 DEF Settable
      <4>4. TabOK(w) /\ KeysStay(t, w) /\ i <= w.cap
        BY <1>1, <4>1, <4>2, GrowKeeps
      <4>5. u = w
        BY <3>1, <4>3 DEF i
      <4> HIDE DEF u, w
      <4>6. len <= Len(u.arr)
        <5>1. m <= Len(u.arr) /\ Len(u.arr) \in Nat
          BY <4>4, <4>5 DEF KeysStay, TabOK, ArrayOK
        <5> HIDE DEF m
        <5> QED
          BY <1>1, <2>2, <5>1
      <4> QED
        BY <4>4, <4>5, <4>6 DEF i
    <3>2. CASE ~(t.cap <= len)
      <4>1. len + 1 <= t.cap
        BY <1>1, <2>2, <3>2
      <4> QED
        BY <2>2, <3>2, <4>1
    <3> QED
      BY <3>1, <3>2
  <2> HIDE DEF u
  <2>4. pos <= len /\ len + 1 <= MaxIndex
    BY <1>3, <2>2
  <2> QED
    BY <2>1, <2>2, <2>3, <2>4, OpenGapKeeps
<1>4. CASE ~(pos > len) /\ ~InArrayPart(t, pos, len)
  <2> DEFINE n == len - pos + 1
             u == MoveEach(t, len, -1, n, 1)
  <2>1. Inserted(t, pos, len, v) = Settable(u, pos, v)
    BY <1>4 DEF Inserted
  <2>2. n \in Nat
    BY <1>4
  <2>3. \A i \in 1 .. n : /\ len + (-1) * (i - 1) \in 1 .. MaxIndex
                          /\ len + (-1) * (i - 1) + 1 \in 1 .. MaxIndex
    BY <1>1, <1>4
  <2> HIDE DEF n
  <2>4. TabOK(u)
    <3>1. \A i \in 1 .. n : /\ len + (-1) * (i - 1) \in Key
                            /\ len + (-1) * (i - 1) + 1 \in Key
      BY <2>3, KeyOf
    <3> QED
      BY <2>2, <3>1, MoveEachKeeps
  <2> HIDE DEF u
  <2> QED
    BY <1>1, <2>1, <2>4, SettableKeeps
<1> QED
  BY <1>2, <1>3, <1>4

LEMMA RemovedKeeps ==
    ASSUME NEW t, TabOK(t), NEW pos \in 1 .. MaxIndex, NEW len \in 0 .. MaxIndex, pos <= len
    PROVE  TabOK(Removed(t, pos, len))
<1>1. /\ MaxIndex \in Nat /\ Nil \in Field /\ pos \in Key /\ len \in Key /\ len \in Nat
  <2>1. len \in 1 .. MaxIndex
    BY SizeAssumption DEF SizeAssumption
  <2> QED
    BY <2>1, KeyOf, SizeAssumption DEF SizeAssumption, Field
<1>2. CASE InArrayPart(t, pos, len)
  <2>1. Removed(t, pos, len) = CloseGap(t, pos, len)
    BY <1>2 DEF Removed
  <2>2. len <= Len(t.arr)
    BY <1>2 DEF InArrayPart
  <2> QED
    BY <1>1, <2>1, <2>2, CloseGapKeeps
<1>3. CASE ~InArrayPart(t, pos, len)
  <2> DEFINE n == len - pos
             w == Looked(t, pos)
             u == MoveEach(w, pos + 1, 1, n, -1)
  <2>1. Removed(t, pos, len) = Settable(u, len, Nil)
    BY <1>3 DEF Removed
  <2>2. n \in Nat
    BY <1>1
  <2>3. \A i \in 1 .. n : /\ (pos + 1) + 1 * (i - 1) \in 1 .. MaxIndex
                          /\ (pos + 1) + 1 * (i - 1) + (-1) \in 1 .. MaxIndex
    BY <1>1
  <2>4. TabOK(w)
    BY <1>1, LookedKeeps
  <2> HIDE DEF n, w
  <2>5. TabOK(u)
    <3>1. \A i \in 1 .. n : /\ (pos + 1) + 1 * (i - 1) \in Key
                            /\ (pos + 1) + 1 * (i - 1) + (-1) \in Key
      BY <2>3, KeyOf
    <3> QED
      BY <2>2, <2>4, <3>1, MoveEachKeeps
  <2> HIDE DEF u
  <2> QED
    BY <1>1, <2>1, <2>5, SettableKeeps
<1> QED
  BY <1>2, <1>3

LEMMA MoveRangeKeeps ==
    ASSUME NEW t, TabOK(t), NEW f \in 1 .. MaxIndex, NEW e \in 1 .. MaxIndex,
           NEW to \in 1 .. MaxIndex, to + (e - f) <= MaxIndex
    PROVE  TabOK(MoveRange(t, f, e, to))
<1> DEFINE n == Len(t.arr)
<1>1. /\ t.arr \in Seq(Field) /\ t.cap \in Nat /\ n \in Nat /\ n <= t.cap
      /\ t.lim \in Nat /\ t.lim <= n /\ (\A i \in 1 .. t.lim : t.arr[i] # Nil)
      /\ (\A i \in 1 .. n : t.arr[i] # Nil => i <= MaxIndex) /\ t = Record(t)
      /\ DOMAIN t.arr = 1 .. n /\ MaxIndex \in Nat
      /\ f \in Nat /\ e \in Nat /\ to \in Nat
  BY SizeAssumption DEF TabOK, ArrayOK, SizeAssumption
<1>2. CASE e < f
  BY <1>2 DEF MoveRange
<1>3. CASE ~(e < f) /\ e <= n /\ to + (e - f) <= n
  <2> DEFINE arr == [j \in 1 .. n |->
                        IF j \in to .. to + (e - f) THEN t.arr[j - to + f] ELSE t.arr[j]]
             lims == {t.lim, f - 1, to - 1}
             lim == Min(lims)
  <2>1. MoveRange(t, f, e, to) = WithArray(t, arr, lim)
    BY <1>1, <1>3 DEF MoveRange, WithArray
  <2>2. lim \in lims /\ \A y \in lims : lim <= y
    <3>1. lims \in SUBSET Nat /\ lims # {}
      BY <1>1
    <3> HIDE DEF lims
    <3> QED
      BY <3>1, MinIs
  <2>3. lim \in Nat /\ lim <= t.lim /\ lim <= to - 1 /\ lim <= n
    <3>1. lim \in Nat /\ lim <= t.lim /\ lim <= to - 1
      BY <1>1, <2>2
    <3> HIDE DEF lim, n
    <3> QED
      BY <1>1, <3>1
  <2> HIDE DEF lim
  <2>4. \A i \in 1 .. n : t.arr[i] \in Field
    BY <1>1
  <2> HIDE DEF n
  <2>5. ASSUME NEW j \in 1 .. n
        PROVE  /\ arr[j] \in Field /\ (arr[j] # Nil => j <= MaxIndex)
               /\ (j <= lim => arr[j] # Nil)
    <3>1. CASE j \in to .. to + (e - f)
      <4>1. arr[j] = t.arr[j - to + f]
        BY <3>1
      <4>2. j - to + f \in 1 .. n /\ ~(j <= lim) /\ j <= MaxIndex
        BY SMTT(30), <1>1, <1>3, <2>3, <3>1
      <4> HIDE DEF arr
      <4> QED
        BY <2>4, <4>1, <4>2
    <3>2. CASE j \notin to .. to + (e - f)
      <4>1. arr[j] = t.arr[j]
        BY <3>2
      <4>2. j <= lim => j \in 1 .. t.lim
        BY <1>1, <2>3
      <4> HIDE DEF arr
      <4> QED
        BY <1>1, <2>4, <4>1, <4>2
    <3> QED
      BY <3>1, <3>2
  <2>6. \A j \in 1 .. lim : j \in 1 .. n /\ j <= lim
    BY <1>1, <2>3
  <2>7. arr = [j \in 1 .. n |-> arr[j]]
    OBVIOUS
  <2> HIDE DEF arr
  <2>8. arr \in [1 .. n -> Field]
    BY <2>5, <2>7
  <2>9. ArrayFits(t, arr, n, lim)
    BY <1>1, <2>3, <2>5, <2>6, <2>8 DEF ArrayFits
  <2> QED
    BY <2>1, <2>9, ArrayKeeps
<1>4. CASE ~(e < f) /\ ~(e <= n /\ to + (e - f) <= n) /\ to >= f
  <2> DEFINE m == e - f + 1
             by == to - f
  <2>1. MoveRange(t, f, e, to) = MoveEach(t, e, -1, m, by)
    BY <1>4 DEF MoveRange
  <2>2. m \in Nat
    BY <1>1, <1>4
  <2>3. \A i \in 1 .. m : /\ e + (-1) * (i - 1) \in 1 .. MaxIndex
                          /\ e + (-1) * (i - 1) + by \in 1 .. MaxIndex
    BY <1>1, <1>4
  <2>4. \A i \in 1 .. m : /\ e + (-1) * (i - 1) \in Key
                          /\ e + (-1) * (i - 1) + by \in Key
    BY <2>3, KeyOf
  <2> HIDE DEF m, by
  <2> QED
    BY <2>1, <2>2, <2>4, MoveEachKeeps
<1>5. CASE ~(e < f) /\ ~(e <= n /\ to + (e - f) <= n) /\ ~(to >= f)
  <2> DEFINE m == e - f + 1
             by == to - f
  <2>1. MoveRange(t, f, e, to) = MoveEach(t, f, 1, m, by)
    BY <1>5 DEF MoveRange
  <2>2. m \in Nat
    BY <1>1, <1>5
  <2>3. \A i \in 1 .. m : /\ f + 1 * (i - 1) \in 1 .. MaxIndex
                          /\ f + 1 * (i - 1) + by \in 1 .. MaxIndex
    BY <1>1, <1>5
  <2>4. \A i \in 1 .. m : /\ f + 1 * (i - 1) \in Key
                          /\ f + 1 * (i - 1) + by \in Key
    BY <2>3, KeyOf
  <2> HIDE DEF m, by
  <2> QED
    BY <2>1, <2>2, <2>4, MoveEachKeeps
<1> QED
  BY <1>2, <1>3, <1>4, <1>5

LEMMA MeasuredKeeps ==
    ASSUME NEW t, TabOK(t)
    PROVE  TabOK(Measured(t))
<1> DEFINE h == Healed(t)
           n == Len(t.arr)
           N == Max({0, MaxIndex - n})
<1>1. TabOK(h) /\ Len(h.arr) = n
  BY PrefixKeeps DEF Healed
<1>2. n \in Nat /\ MaxIndex \in Nat
  BY SizeAssumption DEF TabOK, ArrayOK, SizeAssumption
<1>3. Measured(t) = IF PrefixLen(t) < n THEN h ELSE Asked(h, N)
  BY DEF Measured
<1> HIDE DEF h, n
<1>4. N \in Nat /\ \A i \in 1 .. N : n + i \in 1 .. MaxIndex
  <2>1. 0 \in Int /\ MaxIndex - n \in Int
    BY <1>2
  <2>2. N = IF 0 >= MaxIndex - n THEN 0 ELSE MaxIndex - n
    BY <2>1, MaxTwo
  <2> HIDE DEF N
  <2> QED
    BY <1>2, <2>2
<1> HIDE DEF N
<1>5. \A i \in 1 .. N : Len(h.arr) + i \in Key
  BY <1>1, <1>4, KeyOf
<1>6. TabOK(Asked(h, N))
  BY <1>1, <1>4, <1>5, AskedKeeps
<1> QED
  BY <1>1, <1>3, <1>6

(* An operation that gives the traversal up. *)
LEMMA EndKeeps ==
    ASSUME NEW u, tab' = u, TabOK(u), Ends
    PROVE  TabIInv'
<1>1. TabOK(tab)'
  BY DEF TabOK, Record, ArrayOK, HashOK, CountersOK, PathsOK
<1>2. CursorOK'
  BY DEF Ends, CursorOK, Walking
<1> QED
  BY <1>1, <1>2 DEF TabIInv

LEMMA LibKeeps ==
    ASSUME TabIInv, NEW pos \in 1 .. MaxIndex
    PROVE  /\ TableRemove(pos) => TabIInv'
           /\ \A v \in Value : TableInsert(pos, v) => TabIInv'
           /\ \A e, to \in 1 .. MaxIndex : TableMove(pos, e, to) => TabIInv'
<1> DEFINE len == ListLen(tab)
           t == Measured(tab)
<1>1. TabOK(tab) /\ TabOK(t)
  BY MeasuredKeeps DEF TabIInv
<1>2. ASSUME TableRemove(pos) PROVE TabIInv'
  <2> DEFINE u == IF pos <= len THEN Removed(t, pos, len) ELSE t
  <2>1. len \in 0 .. MaxIndex /\ tab' = u /\ Ends
    BY <1>2 DEF TableRemove
  <2> HIDE DEF t, len
  <2>2. TabOK(u)
    BY <1>1, <2>1, RemovedKeeps
  <2> HIDE DEF u
  <2> QED
    BY <2>1, <2>2, EndKeeps
<1>3. ASSUME NEW v \in Value, TableInsert(pos, v) PROVE TabIInv'
  <2> DEFINE u == IF pos <= len + 1 THEN Inserted(t, pos, len, v) ELSE t
  <2>1. len \in 0 .. MaxIndex - 1 /\ tab' = u /\ Ends
    BY <1>3 DEF TableInsert
  <2> HIDE DEF t, len
  <2>2. TabOK(u)
    BY <1>1, <2>1, InsertedKeeps
  <2> HIDE DEF u
  <2> QED
    BY <2>1, <2>2, EndKeeps
<1>4. ASSUME NEW e \in 1 .. MaxIndex, NEW to \in 1 .. MaxIndex, TableMove(pos, e, to)
      PROVE  TabIInv'
  <2> DEFINE u == MoveRange(tab, pos, e, to)
  <2>1. to + (e - pos) <= MaxIndex /\ tab' = u /\ Ends
    BY <1>4 DEF TableMove
  <2>2. TabOK(u)
    BY <1>1, <2>1, MoveRangeKeeps
  <2> HIDE DEF u
  <2> QED
    BY <2>1, <2>2, EndKeeps
<1> QED
  BY <1>2, <1>3, <1>4

-----------------------------------------------------------------------------
LEMMA TabInit == Init => TabIInv
<1> SUFFICES ASSUME Init PROVE TabIInv
  OBVIOUS
<1> DEFINE none == [s \in {} |-> Blank]
<1>1. tab = [arr |-> <<>>, cap |-> 0, small |-> FALSE, lim |-> 0, size |-> 0,
             slots |-> none, count |-> 0, tombs |-> 0, cache |-> NoCache]
  BY DEF Init
<1>2. none \in SlotMap(0) /\ DOMAIN none = {}
  <2>1. 0 .. 0 - 1 = {}
    OBVIOUS
  <2> QED
    BY <2>1 DEF SlotMap
<1>3. NoCache \in CacheMap(0)
  BY DEF CacheMap, NoCache
<1> HIDE DEF none
<1>4. ArrayOK(tab)
  <2>1. tab.arr = <<>> /\ tab.cap = 0 /\ tab.lim = 0 /\ tab.small = FALSE
    BY <1>1
  <2>2. <<>> \in Seq(Field) /\ Len(<<>>) = 0
    OBVIOUS
  <2>3. tab.small \in BOOLEAN
    BY <2>1, Zenon
  <2> QED
    BY <2>1, <2>2, <2>3 DEF ArrayOK
<1>5. HashOK(tab) /\ PathsOK(tab)
  <2>1. tab.size = 0 /\ tab.slots = none /\ tab.cache = NoCache
    BY <1>1
  <2> QED
    BY <1>2, <1>3, <2>1 DEF HashOK, PathsOK, PathsIn
<1>6. CountersOK(tab)
  <2>1. tab.size = 0 /\ tab.slots = none /\ tab.count = 0 /\ tab.tombs = 0
    BY <1>1
  <2>2. Live(none) = {} /\ Filled(none) = {}
    BY <1>2 DEF Live, Filled
  <2> QED
    BY <2>1, <2>2, FS_EmptySet DEF CountersOK
<1>7. tab = Record(tab) /\ CursorOK
  BY <1>1 DEF Record, Init, CursorOK, Walking
<1> QED
  BY <1>4, <1>5, <1>6, <1>7 DEF TabIInv, TabOK

LEMMA TabStep == TabIInv /\ [Next]_vars => TabIInv'
<1> SUFFICES ASSUME TabIInv, [Next]_vars PROVE TabIInv'
  OBVIOUS
<1>1. ASSUME NEW k \in Key, Get(k) PROVE TabIInv'
  BY <1>1, GetKeeps
<1>2. ASSUME NEW k \in Key, NEW v \in Value \cup {Nil}, Set(k, v) PROVE TabIInv'
  BY <1>2, SetKeeps DEF Field
<1>3. ASSUME NEW k \in Key, NEW v \in Value \cup {Nil}, RawSet(k, v) PROVE TabIInv'
  BY <1>3, RawSetKeeps DEF Field
<1>4. CASE Length
  <2>1. PICK u : tab' = u /\ TabOK(u) /\ Same(tab, u)
    BY <1>4, LengthKeeps DEF TabIInv
  <2>2. cursor' = cursor
    BY <1>4 DEF Length
  <2> QED
    BY <2>1, <2>2, SameKeeps
<1>5. CASE NextKey
  BY <1>5, NextKeyKeeps
<1>6. ASSUME NEW n \in Sizes, Recycle(n) PROVE TabIInv'
  <2>1. n \in Nat
    BY SizeAssumption DEF SizeAssumption
  <2>2. PICK u : tab' = u /\ TabOK(u)
    BY <1>6, <2>1, RecycleKeeps DEF TabIInv
  <2>3. Ends
    BY <1>6 DEF Recycle
  <2> QED
    BY <2>2, <2>3, EndKeeps
<1>7. CASE UNCHANGED vars
  <2>1. tab' = tab /\ cursor' = cursor
    BY <1>7 DEF vars
  <2>2. TabOK(tab) /\ Same(tab, tab)
    BY DEF TabIInv, Same
  <2> QED
    BY <2>1, <2>2, SameKeeps
<1> QED
  BY <1>1, <1>2, <1>3, <1>4, <1>5, <1>6, <1>7 DEF Next

LEMMA LibStep == TabIInv /\ [LibNext]_vars => TabIInv'
<1> SUFFICES ASSUME TabIInv, [LibNext]_vars PROVE TabIInv'
  OBVIOUS
<1>1. CASE [Next]_vars
  BY <1>1, TabStep
<1>2. ASSUME NEW pos \in 1 .. MaxIndex, TableRemove(pos) PROVE TabIInv'
  BY <1>2, LibKeeps
<1>3. ASSUME NEW pos \in 1 .. MaxIndex, NEW v \in Value, TableInsert(pos, v) PROVE TabIInv'
  BY <1>3, LibKeeps
<1>4. ASSUME NEW f \in 1 .. MaxIndex, NEW e \in 1 .. MaxIndex, NEW to \in 1 .. MaxIndex,
             TableMove(f, e, to)
      PROVE  TabIInv'
  BY <1>4, LibKeeps
<1> QED
  BY <1>1, <1>2, <1>3, <1>4 DEF LibNext

(* The inductive invariant of a table, with the table library: the hint is    *)
(* below the first nil, the counters agree with the slots, every key is      *)
(* reached by its probe before an empty slot, the cache points into the      *)
(* hash, and a traversal stands somewhere in the table.                      *)
THEOREM TabIInvHolds == LibSpec => []TabIInv
  BY TabInit, LibStep, PTL DEF LibSpec

(* Programs that do not use the table library have fewer behaviours.          *)
LEMMA SpecInLib == Spec => LibSpec
<1>1. [Next]_vars => [LibNext]_vars
  BY DEF LibNext
<1> QED
  BY <1>1, PTL DEF Spec, LibSpec

(* The length hint is never above the first nil of the array part, whatever   *)
(* stores, growth, lookups, lengths, the moves of insert, remove and move,   *)
(* and recycling do ("writers keep it from ever going stale-high").          *)
THEOREM HintNeverHigh == LibSpec => []HintSound
<1>1. TabIInv => HintSound
  BY DEF TabIInv, TabOK, ArrayOK, HintSound
<1> QED
  BY <1>1, TabIInvHolds, PTL

(* count is the number of fields of the hash part and fewer than three        *)
(* quarters of its slots are used, for keys of any hashes: every probe ends. *)
THEOREM CountersAgree == LibSpec => []HashAccounted
<1>1. TabIInv => HashAccounted
  <2> SUFFICES ASSUME TabIInv, tab.size > 0 PROVE HashAccounted
    BY DEF HashAccounted
  <2>1. /\ tab.size \in Nat /\ tab.slots \in SlotMap(tab.size) /\ tab.count \in Nat
        /\ tab.tombs \in Nat /\ tab.count = Cardinality(Live(tab.slots))
        /\ Cardinality(Filled(tab.slots)) <= tab.count + tab.tombs
        /\ 4 * (tab.count + tab.tombs) < 3 * tab.size
    BY DEF TabIInv, TabOK, HashOK, CountersOK
  <2>2. DOMAIN tab.slots = 0 .. tab.size - 1
    BY <2>1, SlotsOf
  <2>3. HashFrom(0) = Live(tab.slots)
    BY <2>1, <2>2 DEF HashFrom, Live
  <2>4. Cardinality(Filled(tab.slots)) \in Nat
    <3>1. Filled(tab.slots) \subseteq DOMAIN tab.slots
      BY DEF Filled
    <3> QED
      BY <2>1, <3>1, SlotsOf, FS_Subset, FS_CardinalityType
  <2>5. 4 * Cardinality(Filled(tab.slots)) < 3 * tab.size
    BY <2>1, <2>4
  <2> QED
    BY <2>1, <2>3, <2>5 DEF HashAccounted, Filled
<1> QED
  BY <1>1, TabIInvHolds, PTL

(* A key in a slot is found: the first stop of its probe is not an empty slot. *)
LEMMA StandsFound ==
    ASSUME NEW t, TabOK(t), NEW k, StandsAt(t, k)
    PROVE  Cut[k] \in 1 .. Len(t.arr) \/ Found(t, k)
<1> SUFFICES ASSUME Cut[k] \notin 1 .. Len(t.arr) PROVE Found(t, k)
  OBVIOUS
<1>1. k \in Key /\ k \notin Free
  BY KeyAssumption DEF StandsAt, KeyAssumption, Free
<1>2. PICK s \in 0 .. t.size - 1 : t.slots[s].key = k
  BY DEF StandsAt
<1>3. t.size \in Nat \ {0}
  BY DEF TabOK, HashOK
<1>4. PICK i \in 0 .. t.size - 1 :
         Pos(t.size, k, i) = s /\ \A j \in 0 .. i - 1 : t.slots[Pos(t.size, k, j)].key # Empty
  BY <1>1, <1>2 DEF TabOK, PathsOK, PathsIn, Reached
<1> DEFINE m == Min(Stops(t, k))
<1>5. i \in Stops(t, k) /\ Stops(t, k) \in SUBSET Nat
  BY <1>1, <1>2, <1>4 DEF Stops, Matches
<1>6. m \in Stops(t, k) /\ m <= i
  BY <1>5, MinIs
<1> HIDE DEF m
<1>7. /\ m \in 0 .. t.size - 1
      /\ t.slots[Pos(t.size, k, m)].key = Empty \/ Matches(t.slots[Pos(t.size, k, m)].key, k)
  BY <1>6 DEF Stops
<1>8. Matches(t.slots[Pos(t.size, k, m)].key, k)
  <2>1. CASE m = i
    BY <1>1, <1>2, <1>4, <2>1 DEF Matches
  <2>2. CASE m # i
    <3>1. m \in 0 .. i - 1
      BY <1>6, <1>7, <2>2
    <3> QED
      BY <1>4, <1>7, <3>1
  <2> QED
    BY <2>1, <2>2
<1> QED
  BY <1>6, <1>8 DEF Found, At, m

(* A traversal during which programs clear fields, and store nothing else,    *)
(* never fails with "invalid key to 'next'": the key it returned last keeps   *)
(* its slot or moves to the array part, and is found there.                  *)
THEOREM TraversalGoesOn == ~Updates /\ LibSpec => []WalkGoesOn
<1>1. ~Updates /\ TabIInv => WalkGoesOn
  BY StandsFound DEF TabIInv, CursorOK, WalkGoesOn
<1>2. CASE Updates
  BY <1>2
<1>3. CASE ~Updates
  <2>1. TabIInv => WalkGoesOn
    BY <1>1, <1>3
  <2> QED
    BY <2>1, TabIInvHolds, PTL
<1> QED
  BY <1>2, <1>3

-----------------------------------------------------------------------------
(* Each field in one place. *)


(* What the keys of a program must be for its reads to agree: equal keys have *)
(* one hash (100 and 100.0 do not), keys that differ differ in their payloads *)
(* (true and 1 do not), and integers above 0 are indices of the model.       *)
KeysTell ==
    /\ \A k, l \in Key : Lua[k] = Lua[l] => Home[k] = Home[l]
    /\ \A k, l \in Key : Payload[k] = Payload[l] => Lua[k] = Lua[l]
    /\ \A k \in Key : Lua[k] \in Nat \ {0} => Lua[k] <= MaxIndex

(* No field has moved from the hash to the array part since the last rebuild. *)
NoTombstones == \A s \in DOMAIN tab.slots : tab.slots[s].key # Tomb

NoTombs(slots, size) == \A s \in 0 .. size - 1 : slots[s].key # Tomb

(* What the array part covers is not in the hash. *)
Outside(slots, cap) == \A s \in Live(slots) : Index(slots[s].key) \notin 1 .. cap

(* A cached slot holds the key it was cached for, or one equal to it. *)
CacheTrue(t) ==
    \A k \in Key :
        LET c == t.cache[CacheOf[k]]
        IN  c # Nil /\ c.payload = Payload[k]
            => c.at \in 0 .. t.size - 1 /\ Matches(t.slots[c.at].key, k)

KeyedOK(t) ==
    /\ NoTombs(t.slots, t.size) /\ OneSlot(t.slots, t.size)
    /\ Outside(t.slots, t.cap) /\ CacheTrue(t)

(* An entry is found by any key that equals its own. *)
LEMMA FoundWhere ==
    ASSUME KeysTell, NEW t, TabOK(t), OneSlot(t.slots, t.size), NEW k \in Key,
           NEW s \in 0 .. t.size - 1, Matches(t.slots[s].key, k)
    PROVE  Found(t, k) /\ At(t, k) = s
<1> DEFINE e == t.slots[s].key
<1>1. /\ t.size \in Nat \ {0} /\ t.slots \in SlotMap(t.size)
      /\ e \notin Free /\ Lua[e] = Lua[k]
  BY DEF TabOK, HashOK, Matches
<1>2. e \in Key
  BY <1>1, SlotsOf
<1>3. Home[e] = Home[k]
  BY <1>1, <1>2 DEF KeysTell
<1>4. \A j : Pos(t.size, e, j) = Pos(t.size, k, j)
  BY <1>3 DEF Pos
<1>5. PICK i \in 0 .. t.size - 1 :
         Pos(t.size, k, i) = s /\ \A j \in 0 .. i - 1 : t.slots[Pos(t.size, k, j)].key # Empty
  <2>1. Reached(t.slots, t.size, e, s)
    BY <1>1 DEF TabOK, PathsOK, PathsIn
  <2> HIDE DEF e
  <2> QED
    BY <1>4, <2>1 DEF Reached
<1> DEFINE m == Min(Stops(t, k))
<1>6. i \in Stops(t, k) /\ Stops(t, k) \in SUBSET Nat
  BY <1>1, <1>5 DEF Stops, Matches
<1>7. m \in Stops(t, k) /\ m <= i
  BY <1>6, MinIs
<1> HIDE DEF m
<1>8. /\ m \in 0 .. t.size - 1
      /\ t.slots[Pos(t.size, k, m)].key = Empty \/ Matches(t.slots[Pos(t.size, k, m)].key, k)
  BY <1>7 DEF Stops
<1>9. Matches(t.slots[Pos(t.size, k, m)].key, k)
  <2>1. CASE m = i
    BY <1>5, <2>1
  <2>2. CASE m # i
    <3>1. m \in 0 .. i - 1
      BY <1>7, <1>8, <2>2
    <3> QED
      BY <1>5, <1>8, <3>1
  <2> QED
    BY <2>1, <2>2
<1>10. Pos(t.size, k, m) = s
  <2>1. Pos(t.size, k, m) \in 0 .. t.size - 1
    BY <1>1, <1>8, PosVisits
  <2> QED
    BY <1>1, <1>9, <2>1 DEF OneSlot, Matches
<1> QED
  BY <1>7, <1>9, <1>10 DEF Found, At, m

LEMMA NotFound ==
    ASSUME NEW t, TabOK(t), NEW k \in Key, ~Found(t, k), KeysTell, OneSlot(t.slots, t.size)
    PROVE  \A s \in 0 .. t.size - 1 : ~Matches(t.slots[s].key, k)
  BY FoundWhere

LEMMA CachedTrue ==
    ASSUME NEW t, CacheTrue(t), NEW k \in Key, Cached(t, k)
    PROVE  CachedAt(t, k) \in 0 .. t.size - 1 /\ Matches(t.slots[CachedAt(t, k)].key, k)
  BY DEF CacheTrue, Cached, CachedAt

(* What is stored under a key, in terms of the slots. *)
LEMMA ContentIs ==
    ASSUME KeysTell, NEW t, TabOK(t), KeyedOK(t), NEW k \in Key
    PROVE  LET l == Lua[k]
           IN  /\ InArray(t, k) => Content(t, l) = t.arr[Index(k)]
               /\ \A s \in 0 .. t.size - 1 :
                     Matches(t.slots[s].key, k) /\ ~InArray(t, k) => Content(t, l) = t.slots[s].val
               /\ (\A s \in 0 .. t.size - 1 : ~Matches(t.slots[s].key, k)) /\ ~InArray(t, k)
                     => Content(t, l) = Nil
<1> DEFINE l == Lua[k]
           at == {s \in DOMAIN t.slots : t.slots[s].val # Nil /\ t.slots[s].key \notin Free
                                         /\ Lua[t.slots[s].key] = l}
<1>1. /\ t.slots \in SlotMap(t.size) /\ t.size \in Nat /\ Len(t.arr) \in Nat
      /\ OneSlot(t.slots, t.size)
  BY DEF TabOK, HashOK, ArrayOK, KeyedOK
<1>2. DOMAIN t.slots = 0 .. t.size - 1
  BY <1>1, SlotsOf
<1>3. InArray(t, k) <=> l \in 1 .. Len(t.arr)
  <2>1. l \in 1 .. Len(t.arr) => l \in 1 .. MaxIndex
    <3>1. MaxIndex \in Nat
      BY SizeAssumption DEF SizeAssumption
    <3> QED
      BY <1>1, <3>1 DEF KeysTell
  <2> QED
    BY <1>1, <2>1 DEF InArray, Index
<1>4. InArray(t, k) => Index(k) = l
  BY <1>1 DEF InArray, Index
<1>5. Content(t, l) = IF l \in 1 .. Len(t.arr) THEN t.arr[l]
                      ELSE IF at = {} THEN Nil ELSE t.slots[CHOOSE s \in at : TRUE].val
  BY DEF Content
<1> HIDE DEF l
<1>6. ASSUME NEW s \in 0 .. t.size - 1, Matches(t.slots[s].key, k), ~InArray(t, k)
      PROVE  Content(t, l) = t.slots[s].val
  <2>1. t.slots[s].key \notin Free /\ Lua[t.slots[s].key] = l
    BY <1>6 DEF Matches, l
  <2>2. \A u \in at : u = s
    BY <1>1, <1>2, <2>1 DEF OneSlot
  <2>3. CASE t.slots[s].val = Nil
    <3>1. at = {}
      BY <2>2, <2>3
    <3> QED
      BY <1>3, <1>5, <1>6, <2>3, <3>1
  <2>4. CASE t.slots[s].val # Nil
    <3>1. s \in at
      BY <1>2, <2>1, <2>4
    <3> HIDE DEF at
    <3>2. (CHOOSE u \in at : TRUE) = s /\ at # {}
      BY <2>2, <3>1
    <3> QED
      BY <1>3, <1>5, <1>6, <3>2
  <2> QED
    BY <2>3, <2>4
<1>7. ASSUME \A s \in 0 .. t.size - 1 : ~Matches(t.slots[s].key, k), ~InArray(t, k)
      PROVE  Content(t, l) = Nil
  <2>1. at = {}
    BY <1>2, <1>7 DEF Matches, l
  <2> QED
    BY <1>3, <1>5, <1>7, <2>1
<1> QED
  BY <1>3, <1>4, <1>5, <1>6, <1>7 DEF l

(* A lookup finds what is stored. *)
LEMMA LookupTrue ==
    ASSUME KeysTell, NEW t, TabOK(t), KeyedOK(t), NEW k \in Key
    PROVE  Lookup(t, k) = Content(t, Lua[k])
<1>1. CacheTrue(t) /\ OneSlot(t.slots, t.size) /\ HashOK(t)
  BY DEF KeyedOK, TabOK
<1>2. CASE InArray(t, k)
  BY <1>2, ContentIs DEF Lookup
<1>3. CASE ~InArray(t, k) /\ Cached(t, k)
  BY <1>1, <1>3, ContentIs, CachedTrue DEF Lookup
<1>4. CASE ~InArray(t, k) /\ ~Cached(t, k) /\ Found(t, k)
  BY <1>1, <1>4, ContentIs, FoundIs DEF Lookup
<1>5. CASE ~InArray(t, k) /\ ~Cached(t, k) /\ ~Found(t, k)
  BY <1>1, <1>5, ContentIs, NotFound DEF Lookup
<1> QED
  BY <1>2, <1>3, <1>4, <1>5

LEMMA AnswerTrue ==
    ASSUME KeysTell, NEW t, TabOK(t), KeyedOK(t), NEW k \in Key
    PROVE  Answer(t, k) = Content(t, Lua[k])
<1>1. CASE (InArray(t, k) /\ t.arr[Index(k)] # Nil) \/ ~Cached(t, k)
  BY <1>1, LookupTrue DEF Answer
<1>2. CASE ~(InArray(t, k) /\ t.arr[Index(k)] # Nil) /\ Cached(t, k)
  <2> DEFINE c == CachedAt(t, k)
  <2>1. c \in 0 .. t.size - 1 /\ Matches(t.slots[c].key, k)
    BY <1>2, CachedTrue DEF KeyedOK
  <2>2. Answer(t, k) = t.slots[c].val
    BY <1>2 DEF Answer
  <2> HIDE DEF c
  <2>3. CASE ~InArray(t, k)
    BY <2>1, <2>2, <2>3, ContentIs
  <2>4. CASE InArray(t, k)
    <3>1. Index(t.slots[c].key) = Index(k)
      BY <2>1 DEF Matches, Index
    <3>2. Index(k) \in 1 .. t.cap
      BY <2>4 DEF InArray, TabOK, ArrayOK
    <3>3. c \notin Live(t.slots)
      BY <3>1, <3>2 DEF KeyedOK, Outside
    <3>4. t.slots \in SlotMap(t.size) /\ t.size \in Nat
      BY DEF TabOK, HashOK
    <3>5. DOMAIN t.slots = 0 .. t.size - 1
      BY <3>4, SlotsOf
    <3>6. t.slots[c].val = Nil
      BY <2>1, <3>3, <3>5 DEF Live, Matches
    <3> QED
      BY <1>2, <2>2, <2>4, <3>6, ContentIs
  <2> QED
    BY <2>3, <2>4
<1> QED
  BY <1>1, <1>2

LEMMA LookedKeyed ==
    ASSUME KeysTell, NEW t, TabOK(t), KeyedOK(t), NEW k \in Key
    PROVE  KeyedOK(Looked(t, k))
<1>1. CASE InArray(t, k) \/ Cached(t, k) \/ ~Found(t, k)
  BY <1>1 DEF Looked
<1>2. CASE ~(InArray(t, k) \/ Cached(t, k) \/ ~Found(t, k))
  <2> DEFINE e == [payload |-> Payload[k], at |-> At(t, k)]
             cache == [t.cache EXCEPT ![CacheOf[k]] = e]
             u == Looked(t, k)
  <2>1. u = [t EXCEPT !.cache[CacheOf[k]] = e]
    BY <1>2 DEF Looked
  <2>2. t = Record(t) /\ HashOK(t) /\ t.cache \in CacheMap(t.size)
    BY DEF TabOK, HashOK
  <2>3. e.payload = Payload[k] /\ e.at \in 0 .. t.size - 1 /\ Matches(t.slots[e.at].key, k)
    BY <1>2, <2>2, FoundIs
  <2> HIDE DEF e
  <2>4. u.slots = t.slots /\ u.size = t.size /\ u.cap = t.cap /\ u.cache = cache
    <3> HIDE DEF u
    <3>1. u = [t EXCEPT !.cache = cache]
      BY <2>1, <2>2 DEF Record
    <3> HIDE DEF cache
    <3> QED
      BY <2>2, <3>1 DEF Record
  <2>5. DOMAIN t.cache = DOMAIN NoCache /\ \A l \in Key : CacheOf[l] \in DOMAIN t.cache
    BY <2>2 DEF CacheMap, NoCache
  <2>6. ASSUME NEW l \in Key, cache[CacheOf[l]] # Nil, cache[CacheOf[l]].payload = Payload[l]
        PROVE  /\ cache[CacheOf[l]].at \in 0 .. t.size - 1
               /\ Matches(t.slots[cache[CacheOf[l]].at].key, l)
    <3>1. CASE CacheOf[l] = CacheOf[k]
      <4>1. cache[CacheOf[l]] = e
        BY <2>5, <3>1
      <4> HIDE DEF cache
      <4>2. Lua[l] = Lua[k]
        BY <2>3, <2>6, <4>1 DEF KeysTell
      <4> QED
        BY <2>3, <4>1, <4>2 DEF Matches
    <3>2. CASE CacheOf[l] # CacheOf[k]
      <4>1. cache[CacheOf[l]] = t.cache[CacheOf[l]]
        BY <2>5, <3>2
      <4> HIDE DEF cache
      <4> QED
        BY <2>6, <4>1 DEF KeyedOK, CacheTrue
    <3> QED
      BY <3>1, <3>2
  <2> HIDE DEF u, cache
  <2>7. CacheTrue(u)
    BY <2>4, <2>6 DEF CacheTrue
  <2> QED
    BY <2>4, <2>7 DEF KeyedOK, u
<1> QED
  BY <1>1, <1>2

(* Values change and no key does: nothing moves. *)
LEMMA ValueKeyed ==
    ASSUME NEW t, KeyedOK(t), HashOK(t), NEW u, u.size = t.size, u.cap = t.cap, u.cache = t.cache,
           u.slots \in SlotMap(t.size),
           NEW s \in 0 .. t.size - 1, Index(t.slots[s].key) \notin 1 .. t.cap,
           NEW e, u.slots = [t.slots EXCEPT ![s] = e], e.key = t.slots[s].key
    PROVE  KeyedOK(u)
<1>1. /\ t.slots \in SlotMap(t.size) /\ t.size \in Nat
      /\ NoTombs(t.slots, t.size) /\ OneSlot(t.slots, t.size)
      /\ Outside(t.slots, t.cap) /\ CacheTrue(t)
  BY DEF HashOK, KeyedOK
<1>2. DOMAIN t.slots = 0 .. t.size - 1 /\ DOMAIN u.slots = 0 .. t.size - 1
  BY <1>1, SlotsOf
<1>3. \A r \in 0 .. t.size - 1 :
         /\ u.slots[r].key = t.slots[r].key
         /\ r # s => u.slots[r] = t.slots[r]
  BY <1>2
<1>4. NoTombs(u.slots, t.size) /\ OneSlot(u.slots, t.size)
  BY <1>1, <1>3 DEF NoTombs, OneSlot
<1>5. Outside(u.slots, t.cap)
  <2> SUFFICES ASSUME NEW r \in Live(u.slots) PROVE Index(u.slots[r].key) \notin 1 .. t.cap
    BY DEF Outside
  <2>1. r \in 0 .. t.size - 1
    BY <1>2 DEF Live
  <2>2. r # s => r \in Live(t.slots)
    BY <1>2, <1>3, <2>1 DEF Live
  <2> QED
    BY <1>1, <1>3, <2>1, <2>2 DEF Outside
<1>6. CacheTrue(u)
  BY <1>1, <1>3 DEF CacheTrue
<1> QED
  BY <1>4, <1>5, <1>6 DEF KeyedOK

LEMMA DeleteKeyed ==
    ASSUME NEW t, TabOK(t), KeyedOK(t), NEW k \in Key, Index(k) \notin 1 .. t.cap
    PROVE  KeyedOK(Delete(t, k))
<1>1. CASE ~(Found(t, k) /\ t.slots[At(t, k)].val # Nil)
  BY <1>1 DEF Delete
<1>2. CASE Found(t, k) /\ t.slots[At(t, k)].val # Nil
  <2> DEFINE s == At(t, k)
             e == [t.slots[s] EXCEPT !.val = Nil]
             u == Delete(t, k)
             new == [t.slots EXCEPT ![s] = e]
  <2>1. s \in 0 .. t.size - 1 /\ Matches(t.slots[s].key, k)
    BY <1>2, FoundIs DEF TabOK
  <2>2. u = [t EXCEPT !.slots[s].val = Nil, !.count = @ - 1, !.tombs = @ + 1]
    BY <1>2 DEF Delete
  <2> HIDE DEF s
  <2>3. /\ t = Record(t) /\ HashOK(t) /\ t.slots \in SlotMap(t.size)
        /\ t.slots[s] \in Slot
    BY <2>1 DEF TabOK, HashOK, SlotMap
  <2>4. e \in Slot /\ e.key = t.slots[s].key
    BY <2>3 DEF Slot, Field
  <2>5. u.size = t.size /\ u.cap = t.cap /\ u.cache = t.cache /\ u.slots = new
    <3> HIDE DEF u
    <3>1. u = [t EXCEPT !.slots = new, !.count = t.count - 1, !.tombs = t.tombs + 1]
      BY <2>2, <2>3 DEF Record
    <3> HIDE DEF new, e
    <3> QED
      BY <2>3, <3>1 DEF Record
  <2>6. new \in SlotMap(t.size)
    <3> HIDE DEF e
    <3> QED
      BY <2>3, <2>4 DEF SlotMap
  <2>7. Index(t.slots[s].key) \notin 1 .. t.cap
    BY <2>1 DEF Matches, Index
  <2> HIDE DEF u, e
  <2> QED
    BY <2>1, <2>3, <2>4, <2>5, <2>6, <2>7, ValueKeyed DEF u
<1> QED
  BY <1>1, <1>2

(* A new key goes to an empty slot, which no entry of the cache points at. *)
LEMMA NewKeyed ==
    ASSUME NEW t, KeyedOK(t), HashOK(t), NEW u, u.size = t.size, u.cap = t.cap, u.cache = t.cache,
           u.slots \in SlotMap(t.size),
           NEW s \in 0 .. t.size - 1, t.slots[s].key \in Free,
           NEW e, u.slots = [t.slots EXCEPT ![s] = e], e.key \in Key,
           Index(e.key) \notin 1 .. t.cap,
           \A r \in 0 .. t.size - 1 : ~Matches(t.slots[r].key, e.key)
    PROVE  KeyedOK(u)
<1>1. /\ t.slots \in SlotMap(t.size) /\ t.size \in Nat
      /\ NoTombs(t.slots, t.size) /\ OneSlot(t.slots, t.size)
      /\ Outside(t.slots, t.cap) /\ CacheTrue(t)
  BY DEF HashOK, KeyedOK
<1>2. DOMAIN t.slots = 0 .. t.size - 1 /\ DOMAIN u.slots = 0 .. t.size - 1
  BY <1>1, SlotsOf
<1>3. u.slots[s] = e /\ \A r \in 0 .. t.size - 1 : r # s => u.slots[r] = t.slots[r]
  BY <1>2
<1>4. e.key \notin Free
  BY KeyAssumption DEF KeyAssumption, Free
<1>5. NoTombs(u.slots, t.size)
  BY <1>1, <1>3, <1>4 DEF NoTombs, Free
<1>6. OneSlot(u.slots, t.size)
  <2> SUFFICES ASSUME NEW p \in 0 .. t.size - 1, NEW r \in 0 .. t.size - 1,
                      u.slots[p].key \notin Free, u.slots[r].key \notin Free,
                      Lua[u.slots[p].key] = Lua[u.slots[r].key], p # r
               PROVE  FALSE
    BY DEF OneSlot
  <2>1. CASE p # s /\ r # s
    BY <1>1, <1>3, <2>1 DEF OneSlot
  <2>2. CASE p = s
    BY <1>3, <2>2 DEF Matches
  <2>3. CASE r = s
    BY <1>3, <2>3 DEF Matches
  <2> QED
    BY <2>1, <2>2, <2>3
<1>7. Outside(u.slots, t.cap)
  <2> SUFFICES ASSUME NEW r \in Live(u.slots) PROVE Index(u.slots[r].key) \notin 1 .. t.cap
    BY DEF Outside
  <2>1. r \in 0 .. t.size - 1
    BY <1>2 DEF Live
  <2>2. r # s => r \in Live(t.slots)
    BY <1>2, <1>3, <2>1 DEF Live
  <2> QED
    BY <1>1, <1>3, <2>1, <2>2 DEF Outside
<1>8. CacheTrue(u)
  <2> SUFFICES ASSUME NEW k \in Key, t.cache[CacheOf[k]] # Nil,
                      t.cache[CacheOf[k]].payload = Payload[k]
               PROVE  /\ t.cache[CacheOf[k]].at \in 0 .. t.size - 1
                      /\ Matches(u.slots[t.cache[CacheOf[k]].at].key, k)
    BY DEF CacheTrue
  <2> DEFINE c == t.cache[CacheOf[k]].at
  <2>1. c \in 0 .. t.size - 1 /\ Matches(t.slots[c].key, k)
    BY <1>1 DEF CacheTrue
  <2> HIDE DEF c
  <2>2. c # s
    BY <2>1 DEF Matches
  <2>3. Matches(u.slots[c].key, k)
    BY <1>3, <2>1, <2>2
  <2> QED
    BY <2>1, <2>3 DEF c
<1> QED
  BY <1>5, <1>6, <1>7, <1>8 DEF KeyedOK

LEMMA InsertKeyed ==
    ASSUME KeysTell, NEW t, TabOK(t), HasRoom(t), KeyedOK(t), NEW k \in Key, NEW v \in Value,
           Index(k) \notin 1 .. t.cap
    PROVE  KeyedOK(Insert(t, k, v))
<1>1. /\ t.size \in Nat /\ t.size > 0 /\ t.slots \in SlotMap(t.size) /\ t = Record(t)
      /\ HashOK(t) /\ CacheTrue(t) /\ OneSlot(t.slots, t.size) /\ NoTombs(t.slots, t.size)
  BY DEF TabOK, HashOK, CountersOK, HasRoom, KeyedOK
<1>2. v \in Field /\ v # Nil /\ k \notin Free
  BY KeyAssumption DEF KeyAssumption, Field, Free
<1>3. \A s \in 0 .. t.size - 1 : t.slots[s] \in Slot
  BY <1>1 DEF SlotMap
<1> DEFINE c == CachedAt(t, k)
           hit == Cached(t, k) /\ t.slots[c].val # Nil
           s == Pos(t.size, k, Min(InsertStops(t, k)))
           dead == t.slots[s].key \notin Free /\ t.slots[s].val = Nil
           fresh == t.slots[s].key \in Free
           u == Insert(t, k, v)
<1>4. CASE hit
  <2> DEFINE e == [t.slots[c] EXCEPT !.val = v]
             new == [t.slots EXCEPT ![c] = e]
  <2>1. c \in 0 .. t.size - 1 /\ Matches(t.slots[c].key, k)
    BY <1>1, <1>4, CachedTrue
  <2>2. u = [t EXCEPT !.slots[c].val = v]
    BY <1>4 DEF Insert
  <2> HIDE DEF c, u
  <2>3. e \in Slot /\ e.key = t.slots[c].key
    BY <1>2, <1>3, <2>1 DEF Slot
  <2>4. u.size = t.size /\ u.cap = t.cap /\ u.cache = t.cache /\ u.slots = new
    <3>1. u = [t EXCEPT !.slots = new]
      BY <1>1, <2>2 DEF Record
    <3> HIDE DEF new, e
    <3> QED
      BY <1>1, <3>1 DEF Record
  <2>5. new \in SlotMap(t.size)
    <3> HIDE DEF e
    <3> QED
      BY <1>1, <2>3 DEF SlotMap
  <2>6. Index(t.slots[c].key) \notin 1 .. t.cap
    BY <2>1 DEF Matches, Index
  <2> HIDE DEF e
  <2> QED
    BY <1>1, <2>1, <2>3, <2>4, <2>5, <2>6, ValueKeyed DEF u
<1>5. CASE ~hit
  <2> DEFINE e == [key |-> IF fresh THEN k ELSE t.slots[s].key, val |-> v]
             new == [t.slots EXCEPT ![s] = e]
  <2>1. s \in 0 .. t.size - 1 /\ (fresh \/ Matches(t.slots[s].key, k))
    BY <1>1, InsertStop
  <2>2. u = [t EXCEPT !.slots[s] = [key |-> IF fresh THEN k ELSE @.key, val |-> v],
                      !.count = IF fresh \/ dead THEN @ + 1 ELSE @,
                      !.tombs = IF dead THEN @ - 1 ELSE @]
    BY <1>5 DEF Insert
  <2>n. fresh => \A r \in 0 .. t.size - 1 : ~Matches(t.slots[r].key, k)
    <3> SUFFICES ASSUME fresh, NEW r \in 0 .. t.size - 1, Matches(t.slots[r].key, k)
                 PROVE  FALSE
      OBVIOUS
    <3>1. InsertStops(t, k) = Stops(t, k)
      <4>1. \A i \in 0 .. t.size - 1 : Pos(t.size, k, i) \in 0 .. t.size - 1
        BY <1>1, PosVisits
      <4> QED
        BY <1>1, <4>1 DEF InsertStops, Stops, NoTombs, Free
    <3>2. Found(t, k)
      BY <1>1, FoundWhere
    <3>3. s = At(t, k)
      BY <3>1 DEF At
    <3> HIDE DEF s
    <3> QED
      BY <3>2, <3>3 DEF Found, Matches
  <2> HIDE DEF s, u
  <2>3. e \in Slot
    BY <1>2, <1>3, <2>1 DEF Slot
  <2>4. u.size = t.size /\ u.cap = t.cap /\ u.cache = t.cache /\ u.slots = new
    <3> DEFINE count == IF fresh \/ dead THEN t.count + 1 ELSE t.count
               tombs == IF dead THEN t.tombs - 1 ELSE t.tombs
    <3> HIDE DEF fresh, dead
    <3>1. u = [t EXCEPT !.slots = new, !.count = count, !.tombs = tombs]
      BY <1>1, <2>2 DEF Record
    <3> HIDE DEF new, e, count, tombs
    <3> QED
      BY <1>1, <3>1 DEF Record
  <2>5. new \in SlotMap(t.size)
    <3> HIDE DEF e
    <3> QED
      BY <1>1, <2>3 DEF SlotMap
  <2>6. CASE fresh
    <3>1. e.key = k
      BY <2>6
    <3> HIDE DEF e
    <3> QED
      BY <1>1, <2>1, <2>4, <2>5, <2>6, <2>n, <3>1, NewKeyed DEF u
  <2>7. CASE ~fresh
    <3>1. e.key = t.slots[s].key /\ Index(t.slots[s].key) \notin 1 .. t.cap
      BY <2>1, <2>7 DEF Matches, Index
    <3> HIDE DEF e
    <3> QED
      BY <1>1, <2>1, <2>4, <2>5, <3>1, ValueKeyed DEF u
  <2> QED
    BY <2>6, <2>7
<1> QED
  BY <1>4, <1>5

(* Rebuilding leaves nothing but fields behind, each from one old slot, and *)
(* forgets what was cached.                                                 *)
LEMMA RehashKeyed ==
    ASSUME NEW t, TabOK(t), KeyedOK(t), NEW size \in Nat, size > 3, 4 * t.count < 3 * size
    PROVE  LET u == Rehash(t, size) IN KeyedOK(u) /\ u.cap = t.cap
<1> DEFINE u == Rehash(t, size)
           slots == Rebuilt(t, size)
<1>1. /\ t = Record(t) /\ t.count \in Nat /\ t.count < size /\ t.size \in Nat
      /\ t.slots \in SlotMap(t.size)
      /\ u = [t EXCEPT !.size = size, !.slots = slots, !.tombs = 0, !.cache = NoCache]
      /\ OneSlot(t.slots, t.size) /\ Outside(t.slots, t.cap)
  BY DEF TabOK, HashOK, CountersOK, Rehash, KeyedOK
<1>2. /\ Tidy(slots, size, t.count) /\ Copies(slots, size, t.slots, t.size)
      /\ OneSlot(slots, size)
  BY <1>1, RebuiltIs
<1> HIDE DEF u, slots
<1>3. u.size = size /\ u.slots = slots /\ u.cap = t.cap /\ u.cache = NoCache
  BY <1>1 DEF Record
<1>4. DOMAIN slots = 0 .. size - 1 /\ DOMAIN t.slots = 0 .. t.size - 1
  BY <1>1, <1>2, SlotsOf DEF Tidy
<1>5. NoTombs(slots, size)
  BY <1>2, KeyAssumption DEF Tidy, NoTombs, Free, KeyAssumption
<1>6. Outside(slots, t.cap)
  <2> SUFFICES ASSUME NEW s \in Live(slots) PROVE Index(slots[s].key) \notin 1 .. t.cap
    BY DEF Outside
  <2>1. s \in 0 .. size - 1 /\ slots[s].key \notin Free /\ slots[s].val # Nil
    BY <1>4 DEF Live
  <2>2. PICK r \in 0 .. t.size - 1 : slots[s] = t.slots[r]
    BY <1>2, <2>1 DEF Copies
  <2>3. r \in Live(t.slots)
    BY <1>4, <2>1, <2>2 DEF Live
  <2> QED
    BY <1>1, <2>2, <2>3 DEF Outside
<1>7. CacheTrue(u)
  BY <1>3 DEF CacheTrue, NoCache
<1> QED
  BY <1>2, <1>3, <1>5, <1>6, <1>7 DEF KeyedOK, u

LEMMA RoomyKeyed ==
    ASSUME NEW t, TabOK(t), KeyedOK(t)
    PROVE  KeyedOK(Roomy(t)) /\ Roomy(t).cap = t.cap
<1>1. /\ t.size \in Nat /\ (t.size > 3 \/ t.size = 0) /\ t.count \in Nat /\ t.tombs \in Nat
      /\ t.slots \in SlotMap(t.size) /\ t.count = Cardinality(Live(t.slots))
      /\ t.size > 0 => 4 * (t.count + t.tombs) < 3 * t.size
  BY DEF TabOK, HashOK, CountersOK
<1>2. CASE t.size = 0
  <2>1. Roomy(t) = Rehash(t, MinHash)
    BY <1>2 DEF Roomy
  <2>2. MinHash \in Nat /\ MinHash > 3
    BY SizeAssumption DEF SizeAssumption
  <2>3. t.count = 0
    <3>1. DOMAIN t.slots = 0 .. t.size - 1
      BY <1>1, SlotsOf
    <3>2. Live(t.slots) = {}
      BY <1>2, <3>1 DEF Live
    <3> QED
      BY <1>1, <3>2, FS_EmptySet
  <2>4. 4 * t.count < 3 * MinHash
    BY <2>2, <2>3
  <2> QED
    BY <2>1, <2>2, <2>4, RehashKeyed
<1>3. CASE t.size # 0 /\ (t.count + t.tombs + 1) * 4 >= t.size * 3
  <2> DEFINE size == IF t.count >= t.size \div 2 THEN 2 * t.size ELSE t.size
  <2>1. Roomy(t) = Rehash(t, size)
    BY <1>3 DEF Roomy
  <2>2. size \in Nat /\ size > 3 /\ 4 * t.count < 3 * size
    BY <1>1, <1>3
  <2> HIDE DEF size
  <2> QED
    BY <2>1, <2>2, RehashKeyed
<1>4. CASE t.size # 0 /\ ~((t.count + t.tombs + 1) * 4 >= t.size * 3)
  <2>1. Roomy(t) = t
    BY <1>4 DEF Roomy
  <2> QED
    BY <2>1
<1> QED
  BY <1>2, <1>3, <1>4

LEMMA WriteArrayKeyed ==
    ASSUME NEW t, TabOK(t), KeyedOK(t), NEW i, NEW v
    PROVE  KeyedOK(WriteArray(t, i, v))
<1> DEFINE u == WriteArray(t, i, v)
           arr == [j \in 1 .. Max({i, Len(t.arr)}) |->
                      IF j = i THEN v ELSE IF j <= Len(t.arr) THEN t.arr[j] ELSE Nil]
           lim == Hint(t.lim, i, v)
<1>1. t = Record(t) /\ u = [t EXCEPT !.arr = arr, !.lim = lim]
  BY DEF TabOK, WriteArray
<1> HIDE DEF u, arr, lim
<1>2. u.slots = t.slots /\ u.size = t.size /\ u.cap = t.cap /\ u.cache = t.cache
  BY <1>1 DEF Record
<1> QED
  BY <1>2 DEF KeyedOK, CacheTrue, u

(* Growth that leaves no tombstone has moved no entry. *)
LEMMA GrowKeyed ==
    ASSUME NEW t, TabOK(t), KeyedOK(t), NEW i, NEW v,
           NoTombs(Grow(t, i, v).slots, t.size)
    PROVE  KeyedOK(Grow(t, i, v))
<1> DEFINE cap == IF t.cap = 0 THEN FirstCap ELSE 2 * t.cap
           moved == Moved(t, cap)
           at(j) == {s \in moved : Index(t.slots[s].key) = j}
           top == Max({i} \cup {Index(t.slots[s].key) : s \in moved})
           arr == [j \in 1 .. top |->
                      IF j < i THEN t.arr[j] ELSE IF j = i THEN v
                      ELSE IF at(j) # {} THEN t.slots[Max(at(j))].val ELSE Nil]
           lim == Hint(t.lim, i, v)
           slots == [s \in DOMAIN t.slots |->
                        IF s \in moved THEN [key |-> Tomb, val |-> Nil] ELSE t.slots[s]]
           count == t.count - Cardinality(moved)
           tombs == t.tombs + Cardinality(moved)
           u == Grow(t, i, v)
<1>1. /\ u = [t EXCEPT !.cap = cap, !.small = FALSE, !.arr = arr, !.lim = lim, !.slots = slots,
                       !.count = count, !.tombs = tombs]
      /\ t = Record(t) /\ t.size \in Nat /\ t.slots \in SlotMap(t.size)
  BY DEF Grow, TabOK, HashOK
<1>2. DOMAIN t.slots = 0 .. t.size - 1
  BY <1>1, SlotsOf
<1> HIDE DEF u
<1>3. u.slots = slots /\ u.size = t.size /\ u.cap = cap /\ u.cache = t.cache
  <2> HIDE DEF arr, lim, slots, count, tombs, cap, moved
  <2> QED
    BY <1>1 DEF Record
<1>4. moved = {}
  <2> SUFFICES ASSUME NEW s \in moved PROVE FALSE
    OBVIOUS
  <2>1. s \in DOMAIN t.slots
    BY DEF Moved
  <2> HIDE DEF moved
  <2>2. slots[s].key = Tomb
    BY <2>1
  <2> HIDE DEF slots
  <2> QED
    BY <1>2, <1>3, <2>1, <2>2 DEF NoTombs, u
<1>5. slots = t.slots
  <2> HIDE DEF moved
  <2>1. slots = [s \in DOMAIN t.slots |-> t.slots[s]]
    BY <1>4
  <2> HIDE DEF slots
  <2> QED
    BY <1>1, <2>1 DEF SlotMap
<1>6. Outside(t.slots, cap)
  BY <1>4 DEF Outside, Live, Moved
<1> HIDE DEF slots, cap
<1> QED
  BY <1>3, <1>5, <1>6 DEF KeyedOK, CacheTrue, u

LEMMA SettableKeyed ==
    ASSUME KeysTell, NEW t, TabOK(t), KeyedOK(t), NEW k \in Key, NEW v \in Field,
           LET u == Settable(t, k, v) IN NoTombs(u.slots, u.size)
    PROVE  KeyedOK(Settable(t, k, v))
<1> DEFINE i == Index(k)
<1>1. i \in 1 .. MaxIndex \/ i = 0
  BY DEF Index
<1>2. Len(t.arr) \in Nat /\ t.cap \in Nat /\ MaxIndex \in Nat
  BY SizeAssumption DEF TabOK, ArrayOK, SizeAssumption
<1> HIDE DEF i
<1>3. CASE i \in 1 .. t.cap
  BY <1>3, WriteArrayKeyed DEF Settable, i
<1>4. CASE i \notin 1 .. t.cap /\ i = Len(t.arr) + 1
  <2>1. Settable(t, k, v) = Grow(t, i, v)
    BY <1>4 DEF Settable, i
  <2>2. i \in 1 .. MaxIndex
    BY <1>1, <1>2, <1>4
  <2>3. Grow(t, i, v).size = t.size
    BY <1>4, <2>2, GrowKeeps DEF KeysStay
  <2> QED
    BY <2>1, <2>3, GrowKeyed
<1>5. CASE i \notin 1 .. t.cap /\ i # Len(t.arr) + 1 /\ v = Nil
  <2>1. Settable(t, k, v) = Delete(t, k)
    BY <1>5 DEF Settable, i
  <2> QED
    BY <1>5, <2>1, DeleteKeyed DEF i
<1>6. CASE i \notin 1 .. t.cap /\ i # Len(t.arr) + 1 /\ v # Nil
  <2> DEFINE w == Roomy(t)
  <2>1. Settable(t, k, v) = Insert(w, k, v)
    BY <1>6 DEF Settable, i
  <2>2. TabOK(w) /\ HasRoom(w) /\ KeyedOK(w) /\ w.cap = t.cap /\ v \in Value
    BY <1>6, RoomyKeeps, RoomyKeyed DEF Field
  <2> HIDE DEF w
  <2>3. KeyedOK(Insert(w, k, v))
    BY <1>6, <2>2, InsertKeyed DEF i
  <2> QED
    BY <2>1, <2>3
<1> QED
  BY <1>3, <1>4, <1>5, <1>6

(* The length asks for one key after the other, and each answer is cached. *)
LEMMA AskedKeyed ==
    ASSUME KeysTell, NEW t, TabOK(t), KeyedOK(t), NEW N \in Nat,
           \A i \in 1 .. N : Len(t.arr) + i \in Key
    PROVE  KeyedOK(Asked(t, N))
<1> DEFINE n == Len(t.arr)
           Body(g) == [i \in 0 .. N |-> IF i = 0 THEN t ELSE Looked(g[i - 1], n + i)]
           f == CHOOSE g : g = Body(g)
           X == {u \in Tables : KeyedOK(u)}
           step == [i \in 1 .. N |-> [u \in X |-> Looked(u, n + i)]]
<1>1. Asked(t, N) = f[N]
  BY DEF Asked
<1>2. \A i \in 1 .. N : n + i \in Key
  OBVIOUS
<1> HIDE DEF n
<1>3. t \in X
  BY InTables
<1>4. ASSUME NEW u \in X, NEW k \in Key PROVE Looked(u, k) \in X
  <2>1. TabOK(u) /\ KeyedOK(u)
    BY InTables
  <2>2. TabOK(Looked(u, k)) /\ KeyedOK(Looked(u, k))
    BY <2>1, LookedKeeps, LookedKeyed
  <2> QED
    BY <2>2, InTables
<1> HIDE DEF X
<1>5. step \in [1 .. N -> [X -> X]]
  <2>1. \A i \in 1 .. N : \A u \in X : Looked(u, n + i) \in X
    BY <1>2, <1>4
  <2> QED
    BY <2>1
<1>6. PICK g : /\ g \in [0 .. N -> X] /\ g[0] = t
               /\ \A i \in 1 .. N : g[i] = step[i][g[i - 1]]
  <2> HIDE DEF step
  <2>1. PICK g : Solution(N, X, t, step, g)
    BY <1>3, <1>5, RecursionSolved
  <2> QED
    BY <2>1 DEF Solution
<1>7. g = Body(g)
  <2>1. ASSUME NEW i \in 1 .. N PROVE g[i] = Looked(g[i - 1], n + i)
    <3>1. i - 1 \in 0 .. N
      OBVIOUS
    <3>2. g[i - 1] \in X
      BY <1>6, <3>1
    <3> QED
      BY <1>6, <3>2
  <2> HIDE DEF step
  <2>2. \A i \in 0 .. N : i = 0 \/ i \in 1 .. N
    OBVIOUS
  <2>3. \A i \in 0 .. N : g[i] = Body(g)[i]
    BY <1>6, <2>1, <2>2
  <2>4. g = [i \in 0 .. N |-> g[i]]
    BY <1>6
  <2> QED
    BY <2>3, <2>4
<1>8. f = Body(f)
  <2> HIDE DEF Body
  <2> QED
    BY <1>7
<1> HIDE DEF f, step
<1> DEFINE S == {i \in 0 .. N : f[i] \in X}
<1>9. 0 \in S
  <2>1. f[0] = Body(f)[0] /\ 0 \in 0 .. N
    BY <1>8
  <2> QED
    BY <1>3, <2>1
<1>10. ASSUME NEW i \in 0 .. N - 1, i \in S PROVE i + 1 \in S
  <2>1. i + 1 \in 0 .. N /\ i + 1 # 0 /\ i + 1 - 1 = i /\ i + 1 \in 1 .. N
    OBVIOUS
  <2>2. f[i + 1] = Body(f)[i + 1]
    BY <1>8
  <2>3. f[i + 1] = Looked(f[i], n + (i + 1))
    BY <2>1, <2>2
  <2>4. f[i + 1] \in X
    BY <1>2, <1>4, <1>10, <2>1, <2>3
  <2> QED
    BY <2>1, <2>4
<1>11. N \in S
  <2> HIDE DEF S
  <2>1. 0 .. N \subseteq S
    BY <1>9, <1>10, UpTo
  <2> QED
    BY <2>1
<1>12. f[N] \in X
  BY <1>11
<1> QED
  BY <1>1, <1>12 DEF X

LEMMA LengthKeyed ==
    ASSUME KeysTell, TabOK(tab), KeyedOK(tab), Length
    PROVE  \E u : tab' = u /\ KeyedOK(u)
<1> DEFINE h == Healed(tab)
           n == Len(tab.arr)
           top == Min({RawLen(tab) + 1, MaxIndex})
           N == Max({0, top - n})
<1>1. tab' = Asked(h, N)
  BY DEF Length
<1>2. TabOK(h) /\ Len(h.arr) = n
  BY PrefixKeeps DEF Healed
<1>3. n \in Nat /\ MaxIndex \in Nat /\ RawLen(tab) \in Nat
  BY SizeAssumption, RawLenIs DEF TabOK, ArrayOK, SizeAssumption
<1>h. KeyedOK(h)
  <2> DEFINE m == PrefixLen(tab)
  <2> HIDE DEF m, h
  <2>1. tab = Record(tab) /\ h = [tab EXCEPT !.lim = m]
    BY DEF TabOK, Healed, h, m
  <2>2. h.slots = tab.slots /\ h.size = tab.size /\ h.cap = tab.cap /\ h.cache = tab.cache
    BY <2>1 DEF Record
  <2> QED
    BY <2>2 DEF KeyedOK, CacheTrue
<1> HIDE DEF h, n
<1>4. top \in Int /\ top <= MaxIndex
  <2>1. RawLen(tab) + 1 \in Int /\ MaxIndex \in Int
    BY <1>3
  <2>2. top = IF RawLen(tab) + 1 <= MaxIndex THEN RawLen(tab) + 1 ELSE MaxIndex
    BY <2>1, MinTwo
  <2> HIDE DEF top
  <2> QED
    BY <1>3, <2>1, <2>2
<1> HIDE DEF top
<1>5. N \in Nat /\ \A i \in 1 .. N : n + i \in 1 .. MaxIndex
  <2>1. 0 \in Int /\ top - n \in Int
    BY <1>3, <1>4
  <2>2. N = IF 0 >= top - n THEN 0 ELSE top - n
    BY <2>1, MaxTwo
  <2> HIDE DEF N
  <2> QED
    BY <1>3, <1>4, <2>1, <2>2
<1> HIDE DEF N
<1>6. \A i \in 1 .. N : Len(h.arr) + i \in Key
  BY <1>2, <1>5, KeyAssumption DEF KeyAssumption
<1>7. KeyedOK(Asked(h, N))
  BY <1>2, <1>5, <1>6, <1>h, AskedKeyed
<1> QED
  BY <1>1, <1>7

LEMMA RecycleKeyed ==
    ASSUME TabOK(tab), NEW n \in Nat, Recycle(n)
    PROVE  \E u : tab' = u /\ KeyedOK(u)
<1> DEFINE arr == [j \in 1 .. n |-> Nil]
           cap == IF n = 0 /\ tab.small THEN tab.cap ELSE n
           small == IF n = 0 THEN tab.small ELSE n <= 2
           slots == [s \in DOMAIN tab.slots |-> [tab.slots[s] EXCEPT !.key = Empty]]
           u == [arr |-> arr, cap |-> cap, small |-> small, lim |-> 0, size |-> tab.size,
                 slots |-> slots, count |-> 0, tombs |-> 0, cache |-> NoCache]
<1>1. tab = Record(tab) /\ tab.size \in Nat /\ tab.slots \in SlotMap(tab.size)
  BY DEF TabOK, HashOK
<1>2. tab' = u
  <2>1. tab' = [tab EXCEPT !.arr = arr, !.cap = cap, !.small = small, !.lim = 0,
                           !.slots = slots, !.count = 0, !.tombs = 0, !.cache = NoCache]
    BY DEF Recycle
  <2> HIDE DEF arr, cap, small, slots
  <2> QED
    BY <1>1, <2>1 DEF Record
<1>3. DOMAIN slots = 0 .. tab.size - 1 /\ \A s \in 0 .. tab.size - 1 : slots[s].key = Empty
  <2>1. \A s \in 0 .. tab.size - 1 : tab.slots[s] \in Slot
    BY <1>1 DEF SlotMap
  <2>2. DOMAIN tab.slots = 0 .. tab.size - 1
    BY <1>1, SlotsOf
  <2>3. \A e \in Slot : [e EXCEPT !.key = Empty].key = Empty
    BY DEF Slot
  <2> QED
    BY <2>1, <2>2, <2>3
<1> HIDE DEF arr, cap, small, slots
<1>4. u.size = tab.size /\ u.slots = slots /\ u.cap = cap /\ u.cache = NoCache
  OBVIOUS
<1> HIDE DEF u
<1>5. NoTombs(slots, tab.size) /\ OneSlot(slots, tab.size) /\ Outside(slots, cap)
  BY <1>3, KeyAssumption DEF NoTombs, OneSlot, Outside, Live, Free, KeyAssumption
<1>6. CacheTrue(u)
  BY <1>4 DEF CacheTrue, NoCache
<1> QED
  BY <1>2, <1>4, <1>5, <1>6 DEF KeyedOK

LEMMA KeyedInit == Init => KeyedOK(tab)
<1> SUFFICES ASSUME Init PROVE KeyedOK(tab)
  OBVIOUS
<1> DEFINE none == [s \in {} |-> Blank]
<1>1. tab.size = 0 /\ tab.slots = none /\ tab.cap = 0 /\ tab.cache = NoCache
  BY DEF Init
<1>2. DOMAIN none = {}
  OBVIOUS
<1> HIDE DEF none
<1> QED
  BY <1>1, <1>2 DEF KeyedOK, NoTombs, OneSlot, Outside, Live, CacheTrue, NoCache

LEMMA KeyedStep ==
    ASSUME KeysTell, TabIInv, KeyedOK(tab), [Next]_vars, NoTombstones'
    PROVE  KeyedOK(tab)'
<1>1. TabOK(tab) /\ TabOK(tab')
  BY TabStep DEF TabIInv
<1> DEFINE t == tab'
<1>2. NoTombs(t.slots, t.size)
  <2>1. DOMAIN t.slots = 0 .. t.size - 1
    BY <1>1, SlotsOf DEF TabOK, HashOK
  <2> QED
    BY <2>1 DEF NoTombstones, NoTombs
<1> HIDE DEF t
<1>3. ASSUME NEW k \in Key PROVE KeyedOK(Looked(tab, k)) /\ TabOK(Looked(tab, k))
  BY <1>1, LookedKeyed, LookedKeeps
<1>4. ASSUME NEW k \in Key, Get(k) PROVE KeyedOK(t)
  BY <1>3, <1>4 DEF Get, t
<1>5. ASSUME NEW k \in Key, NEW v \in Value \cup {Nil}, Set(k, v) PROVE KeyedOK(t)
  <2>1. CASE Index(k) \in 1 .. tab.cap
    BY <1>1, <1>5, <2>1, WriteArrayKeyed DEF Set, t
  <2>2. CASE Index(k) \notin 1 .. tab.cap
    <3> DEFINE u == Looked(tab, k)
    <3>1. t = Settable(u, k, v)
      BY <1>5, <2>2 DEF Set, t
    <3>2. KeyedOK(u) /\ TabOK(u)
      BY <1>3
    <3> HIDE DEF u
    <3> QED
      BY <1>2, <3>1, <3>2, SettableKeyed DEF Field
  <2> QED
    BY <2>1, <2>2
<1>6. ASSUME NEW k \in Key, NEW v \in Value \cup {Nil}, RawSet(k, v) PROVE KeyedOK(t)
  <2>1. t = Settable(tab, k, v)
    BY <1>6 DEF RawSet, t
  <2> QED
    BY <1>1, <1>2, <2>1, SettableKeyed DEF Field
<1>7. ASSUME Length PROVE KeyedOK(t)
  BY <1>1, <1>7, LengthKeyed DEF t
<1>8. ASSUME NextKey PROVE KeyedOK(t)
  BY <1>8 DEF NextKey, t
<1>9. ASSUME NEW n \in Sizes, Recycle(n) PROVE KeyedOK(t)
  <2>1. n \in Nat
    BY SizeAssumption DEF SizeAssumption
  <2> QED
    BY <1>1, <1>9, <2>1, RecycleKeyed DEF t
<1>10. ASSUME UNCHANGED vars PROVE KeyedOK(t)
  BY <1>10 DEF vars, t
<1>11. KeyedOK(t)
  BY <1>4, <1>5, <1>6, <1>7, <1>8, <1>9, <1>10 DEF Next
<1> QED
  BY <1>11 DEF t, KeyedOK, NoTombs, OneSlot, Outside, Live, CacheTrue, Matches

(* The inductive invariant behind reads: no key is twice in the hash, what    *)
(* the array part covers is not a field of the hash, and a cached slot holds *)
(* a key equal to the one it was cached for.                                *)
LEMMA KeyedHolds == KeysTell /\ Spec /\ []NoTombstones => []KeyedOK(tab)
<1>1. CASE KeysTell
  <2>1. TabIInv /\ KeyedOK(tab) /\ [Next]_vars /\ NoTombstones' => KeyedOK(tab)'
    BY <1>1, KeyedStep
  <2>2. Spec => []TabIInv
    BY TabIInvHolds, SpecInLib, PTL
  <2> QED
    BY KeyedInit, <2>1, <2>2, PTL DEF Spec
<1> QED
  BY <1>1

(* A read gives what was stored last under the key, through array part, cache *)
(* and hash, in a program whose keys tell (see KeysTell), as long as growth   *)
(* of the array part moves no field out of the hash.                         *)
THEOREM ReadsAreTrue == KeysTell /\ Spec /\ []NoTombstones => []ReadsAgree
<1>1. CASE KeysTell
  <2>1. TabIInv /\ KeyedOK(tab) => ReadsAgree
    BY <1>1, AnswerTrue DEF TabIInv, ReadsAgree
  <2>2. Spec => []TabIInv
    BY TabIInvHolds, SpecInLib, PTL
  <2> QED
    BY <1>1, <2>1, <2>2, KeyedHolds, PTL
<1> QED
  BY <1>1

(* In such a program a field is in one place, the array part or one slot of   *)
(* the hash, however stores, growth and rebuilding move it.                  *)
THEOREM FieldsAreOnce == KeysTell /\ Spec /\ []NoTombstones => []OnePlace
<1>1. TabIInv /\ KeyedOK(tab) => OnePlace
  <2> SUFFICES ASSUME TabIInv, KeyedOK(tab) PROVE OnePlace
    OBVIOUS
  <2>1. tab.slots \in SlotMap(tab.size) /\ tab.size \in Nat
    BY DEF TabIInv, TabOK, HashOK
  <2>2. DOMAIN tab.slots = 0 .. tab.size - 1
    BY <2>1, SlotsOf
  <2>3. HashFrom(0) = Live(tab.slots)
    BY <2>1, <2>2 DEF HashFrom, Live
  <2>4. \A s \in Live(tab.slots) : s \in 0 .. tab.size - 1 /\ tab.slots[s].key \notin Free
    BY <2>2 DEF Live
  <2> QED
    BY <2>3, <2>4 DEF OnePlace, KeyedOK, Outside, OneSlot
<1>2. Spec => []TabIInv
  BY TabIInvHolds, SpecInLib, PTL
<1>3. CASE KeysTell
  BY <1>1, <1>2, <1>3, KeyedHolds, PTL
<1> QED
  BY <1>3

-----------------------------------------------------------------------------
(* Lengths. *)

(* The values of F[g] depend on values of g at lower ranks. *)
LowerOnly(D, X, N, rank, F) ==
    /\ X # {} /\ N \in Nat /\ rank \in [D -> 0 .. N] /\ F \in [[D -> X] -> [D -> X]]
    /\ \A g, h \in [D -> X], d \in D :
          (\A e \in D : rank[e] < rank[d] => g[e] = h[e]) => F[g][d] = F[h][d]

(* Then there is a function that F does not change. *)
LEMMA RankedRecursion ==
    ASSUME NEW D, NEW X, NEW N, NEW rank, NEW F, LowerOnly(D, X, N, rank, F)
    PROVE  \E g \in [D -> X] : F[g] = g
<1>r. /\ N \in Nat /\ rank \in [D -> 0 .. N] /\ F \in [[D -> X] -> [D -> X]]
      /\ \A g, h \in [D -> X], d \in D :
            (\A e \in D : rank[e] < rank[d] => g[e] = h[e]) => F[g][d] = F[h][d]
  BY DEF LowerOnly
<1>0. PICK x0 \in X : TRUE
  BY DEF LowerOnly
<1> DEFINE Y == [D -> X]
           g0 == [d \in D |-> x0]
           M == N + 1
           step == [n \in 1 .. M |-> F]
<1>1. g0 \in Y /\ M \in Nat /\ step \in [1 .. M -> [Y -> Y]]
  BY <1>r
<1>2. PICK G : G \in [0 .. M -> Y] /\ \A n \in 1 .. M : G[n] = F[G[n - 1]]
  <2>1. \A n \in 1 .. M : step[n] = F
    OBVIOUS
  <2> HIDE DEF Y, step, M, g0
  <2>2. PICK G : Solution(M, Y, g0, step, G)
    BY <1>1, RecursionSolved
  <2>3. G \in [0 .. M -> Y] /\ \A n \in 1 .. M : G[n] = step[n][G[n - 1]]
    BY <2>2 DEF Solution
  <2>4. \A n \in 1 .. M : G[n] = F[G[n - 1]]
    BY <2>1, <2>3
  <2> QED
    BY <2>3, <2>4
<1> HIDE DEF step
<1> DEFINE S == {n \in 0 .. M : \A d \in D : rank[d] < n => F[G[n]][d] = G[n][d]}
<1>3. 0 \in S
  <2>1. \A d \in D : ~(rank[d] < 0)
    BY <1>r
  <2> QED
    BY <1>r, <2>1
<1>4. ASSUME NEW n \in 0 .. M - 1, n \in S PROVE n + 1 \in S
  <2>1. n + 1 \in 1 .. M /\ n + 1 \in 0 .. M /\ n \in 0 .. M /\ (n + 1) - 1 = n
    BY <1>1
  <2>2. PICK x \in Y, y \in Y : x = G[n] /\ y = G[n + 1]
    <3> HIDE DEF Y
    <3> QED
      BY <1>2, <2>1
  <2>3. y = F[x] /\ \A d \in D : rank[d] < n => F[x][d] = x[d]
    BY <1>2, <1>4, <2>1, <2>2
  <2>4. ASSUME NEW d \in D, rank[d] < n + 1 PROVE F[y][d] = y[d]
    <3>1. ASSUME NEW e \in D, rank[e] < rank[d] PROVE y[e] = x[e]
      <4>1. rank[e] \in Nat /\ rank[d] \in Nat /\ n \in Nat
        BY <1>r
      <4>2. rank[e] < n
        BY <2>4, <3>1, <4>1
      <4> QED
        BY <2>3, <4>2
    <3> QED
      BY <1>r, <2>3, <3>1
  <2> QED
    BY <2>1, <2>2, <2>4
<1>5. M \in S
  <2> HIDE DEF S
  <2>1. 0 .. M \subseteq S
    BY <1>1, <1>3, <1>4, UpTo
  <2> QED
    BY <1>1, <2>1
<1>6. PICK g \in Y : g = G[M]
  BY <1>1, <1>2
<1>7. \A d \in D : F[g][d] = g[d]
  <2>1. \A d \in D : rank[d] < M
    BY <1>r
  <2> QED
    BY <1>5, <1>6, <2>1
<1>8. F[g] \in [D -> X]
  BY <1>r
<1> QED
  BY <1>7, <1>8

(* What holds at d if it holds at all higher ranks holds everywhere: induction *)
(* downwards from N.                                                        *)
LEMMA Downwards ==
    ASSUME NEW N \in Nat, NEW S,
           \A n \in 1 .. N : (\A m \in 1 .. N : m > n => m \in S) => n \in S
    PROVE  1 .. N \subseteq S
<1> DEFINE Bad == {n \in 1 .. N : n \notin S}
<1> SUFFICES ASSUME Bad # {} PROVE FALSE
  OBVIOUS
<1>1. Bad \in SUBSET (0 .. N)
  OBVIOUS
<1> DEFINE b == Max(Bad)
<1>2. b \in Bad /\ \A y \in Bad : b >= y
  <2> HIDE DEF Bad
  <2> QED
    BY <1>1, MaxOf
<1> HIDE DEF b
<1>3. ASSUME NEW m \in 1 .. N, m > b PROVE m \in S
  BY <1>2, <1>3
<1> QED
  BY <1>2, <1>3

(* The indices that get_array_len tries. *)
Twice(h) == IF h < FirstCap THEN FirstCap ELSE 2 * h

LEMMA TwiceIs ==
    ASSUME NEW h \in 1 .. Ceiling
    PROVE  /\ Ceiling \in Nat /\ Twice(h) \in Nat /\ Twice(h) > h
           /\ h <= MaxIndex => Twice(h) \in 1 .. Ceiling
<1>1. FirstCap \in Nat /\ MaxIndex \in Nat /\ FirstCap > 0
  BY SizeAssumption DEF SizeAssumption
<1> QED
  BY <1>1 DEF Ceiling, Twice

(* The bracket is the first index tried that is not there. *)
Bracketed(t, from) ==
    /\ \A hi \in 1 .. Ceiling : from[hi] = IF ~There(t, hi) THEN hi ELSE from[Twice(hi)]
    /\ Bracket(t) = from[Len(t.arr) + 1]

LEMMA BracketIs ==
    ASSUME NEW t
    PROVE  \E from : Bracketed(t, from)
<1> DEFINE D == 1 .. Ceiling
           Body(g) == [hi \in D |-> IF ~There(t, hi) THEN hi ELSE g[Twice(hi)]]
           f == CHOOSE g : g = Body(g)
           F == [g \in [D -> Nat] |-> Body(g)]
           rank == [hi \in D |-> Ceiling - hi]
<1>1. Bracket(t) = f[Len(t.arr) + 1]
  BY DEF Bracket, Twice
<1>2. \A hi \in D : There(t, hi) => Twice(hi) \in D /\ Twice(hi) > hi
  BY TwiceIs DEF There
<1>3. Ceiling \in Nat
  BY SizeAssumption DEF SizeAssumption, Ceiling
<1>4. \A g \in [D -> Nat] : Body(g) \in [D -> Nat]
  BY <1>2
<1>5. ASSUME NEW g \in [D -> Nat], NEW h \in [D -> Nat], NEW d \in D,
             \A e \in D : rank[e] < rank[d] => g[e] = h[e]
      PROVE  F[g][d] = F[h][d]
  <2>1. F[g][d] = Body(g)[d] /\ F[h][d] = Body(h)[d]
    OBVIOUS
  <2>2. ASSUME There(t, d) PROVE g[Twice(d)] = h[Twice(d)]
    <3>1. Twice(d) \in D /\ rank[Twice(d)] < rank[d]
      BY <1>2, <1>3, <2>2
    <3> QED
      BY <1>5, <3>1
  <2> HIDE DEF F
  <2> QED
    BY <2>1, <2>2
<1> HIDE DEF Body
<1>6. F \in [[D -> Nat] -> [D -> Nat]] /\ \A g \in [D -> Nat] : F[g] = Body(g)
  BY <1>4
<1>7. rank \in [D -> 0 .. Ceiling]
  BY <1>3
<1> HIDE DEF F, rank, D
<1>8. PICK g \in [D -> Nat] : F[g] = g
  <2>1. Nat # {}
    OBVIOUS
  <2>2. LowerOnly(D, Nat, Ceiling, rank, F)
    BY <1>3, <1>5, <1>6, <1>7, <2>1 DEF LowerOnly
  <2> QED
    BY <2>2, RankedRecursion
<1>9. g = Body(g)
  BY <1>6, <1>8
<1>10. f = Body(f)
  BY <1>9
<1> HIDE DEF f
<1>11. \A hi \in D : f[hi] = IF ~There(t, hi) THEN hi ELSE f[Twice(hi)]
  BY <1>10 DEF Body, D
<1> QED
  BY <1>1, <1>11 DEF D, Bracketed

(* LastThere ends below the index it is given. *)
LastReached(t, hi, reached) ==
    /\ \A h \in 1 .. Ceiling :
          reached[h] = IF h = hi THEN Len(t.arr)
                       ELSE IF Twice(h) >= hi THEN h ELSE reached[Twice(h)]
    /\ LastThere(t, hi) = reached[Len(t.arr) + 1]

LEMMA LastThereIs ==
    ASSUME NEW t, NEW hi \in 1 .. Ceiling
    PROVE  \E reached : LastReached(t, hi, reached)
<1> DEFINE D == 1 .. Ceiling
           n == Len(t.arr)
           X == {n} \cup D
           Body(g) == [h \in D |-> IF h = hi THEN n
                                   ELSE IF Twice(h) >= hi THEN h ELSE g[Twice(h)]]
           f == CHOOSE g : g = Body(g)
           F == [g \in [D -> X] |-> Body(g)]
           rank == [h \in D |-> Ceiling - h]
<1>1. LastThere(t, hi) = f[n + 1]
  BY DEF LastThere, Twice
<1>2. \A h \in D : ~(Twice(h) >= hi) => Twice(h) \in D /\ Twice(h) > h
  BY TwiceIs
<1>3. Ceiling \in Nat
  BY SizeAssumption DEF SizeAssumption, Ceiling
<1> HIDE DEF n
<1>4. \A g \in [D -> X] : Body(g) \in [D -> X]
  BY <1>2
<1>5. ASSUME NEW g \in [D -> X], NEW h \in [D -> X], NEW d \in D,
             \A e \in D : rank[e] < rank[d] => g[e] = h[e]
      PROVE  F[g][d] = F[h][d]
  <2>1. F[g][d] = Body(g)[d] /\ F[h][d] = Body(h)[d]
    OBVIOUS
  <2>2. ASSUME ~(Twice(d) >= hi) PROVE g[Twice(d)] = h[Twice(d)]
    <3>1. Twice(d) \in D /\ rank[Twice(d)] < rank[d]
      BY <1>2, <1>3, <2>2
    <3> QED
      BY <1>5, <3>1
  <2> HIDE DEF F
  <2> QED
    BY <2>1, <2>2
<1> HIDE DEF Body
<1>6. F \in [[D -> X] -> [D -> X]] /\ \A g \in [D -> X] : F[g] = Body(g)
  BY <1>4
<1>7. rank \in [D -> 0 .. Ceiling]
  BY <1>3
<1>n. X # {}
  OBVIOUS
<1> HIDE DEF F, rank, D, X
<1>8. PICK g \in [D -> X] : F[g] = g
  <2>1. LowerOnly(D, X, Ceiling, rank, F)
    BY <1>3, <1>5, <1>6, <1>7, <1>n DEF LowerOnly
  <2> QED
    BY <2>1, RankedRecursion
<1>9. g = Body(g)
  BY <1>6, <1>8
<1>10. f = Body(f)
  BY <1>9
<1> HIDE DEF f
<1>11. \A h \in D : f[h] = IF h = hi THEN n ELSE IF Twice(h) >= hi THEN h ELSE f[Twice(h)]
  BY <1>10 DEF Body, D
<1> QED
  BY <1>1, <1>11 DEF D, n, LastReached

(* The search between l and h. *)
Half(l, h) == l + ((h - l) \div 2)

LEMMA HalfIs ==
    ASSUME NEW l \in 0 .. Ceiling, NEW h \in 0 .. Ceiling, ~(h - l <= 1)
    PROVE  /\ Half(l, h) \in 0 .. Ceiling /\ l < Half(l, h) /\ Half(l, h) < h
<1>1. Ceiling \in Nat
  BY SizeAssumption DEF SizeAssumption, Ceiling
<1> QED
  BY <1>1 DEF Half

Bisected(t, at) ==
    /\ \A l, h \in 0 .. Ceiling :
          at[<<l, h>>] = IF h - l <= 1 THEN l
                         ELSE IF There(t, Half(l, h)) THEN at[<<Half(l, h), h>>]
                         ELSE at[<<l, Half(l, h)>>]
    /\ \A l, h : Bisect(t, l, h) = at[<<l, h>>]

LEMMA BisectIs ==
    ASSUME NEW t
    PROVE  \E at : Bisected(t, at)
<1> DEFINE C == 0 .. Ceiling
           D == C \X C
           Body(g) == [p \in D |->
                          IF p[2] - p[1] <= 1 THEN p[1]
                          ELSE IF There(t, Half(p[1], p[2])) THEN g[<<Half(p[1], p[2]), p[2]>>]
                          ELSE g[<<p[1], Half(p[1], p[2])>>]]
           f == CHOOSE g : g = Body(g)
           F == [g \in [D -> Nat] |-> Body(g)]
           rank == [p \in D |-> IF p[2] > p[1] THEN p[2] - p[1] ELSE 0]
<1>1. \A l, h : Bisect(t, l, h) = f[<<l, h>>]
  BY DEF Bisect, Half
<1>2. ASSUME NEW p \in D, ~(p[2] - p[1] <= 1)
      PROVE  /\ <<Half(p[1], p[2]), p[2]>> \in D /\ <<p[1], Half(p[1], p[2])>> \in D
             /\ p[1] < Half(p[1], p[2]) /\ Half(p[1], p[2]) < p[2]
  BY <1>2, HalfIs
<1>3. Ceiling \in Nat
  BY SizeAssumption DEF SizeAssumption, Ceiling
<1>4. \A g \in [D -> Nat] : Body(g) \in [D -> Nat]
  BY <1>2
<1>7. rank \in [D -> 0 .. Ceiling]
  BY <1>3
<1>5. ASSUME NEW g \in [D -> Nat], NEW h \in [D -> Nat], NEW d \in D,
             \A e \in D : rank[e] < rank[d] => g[e] = h[e]
      PROVE  F[g][d] = F[h][d]
  <2> DEFINE m == Half(d[1], d[2])
             p == <<m, d[2]>>
             q == <<d[1], m>>
  <2>1. F[g][d] = Body(g)[d] /\ F[h][d] = Body(h)[d]
    OBVIOUS
  <2>2. ASSUME ~(d[2] - d[1] <= 1) PROVE g[p] = h[p] /\ g[q] = h[q]
    <3>1. p \in D /\ q \in D /\ d[1] < m /\ m < d[2] /\ d[1] \in Nat /\ d[2] \in Nat /\ m \in Nat
      BY <1>2, <2>2, HalfIs
    <3> HIDE DEF m
    <3>2. rank[p] < rank[d] /\ rank[q] < rank[d]
      BY <3>1
    <3> QED
      BY <1>5, <3>1, <3>2
  <2> HIDE DEF F
  <2> QED
    BY <2>1, <2>2
<1> HIDE DEF Body
<1>6. F \in [[D -> Nat] -> [D -> Nat]] /\ \A g \in [D -> Nat] : F[g] = Body(g)
  BY <1>4
<1>n. Nat # {}
  OBVIOUS
<1> HIDE DEF F, rank, D
<1>8. PICK g \in [D -> Nat] : F[g] = g
  <2>1. LowerOnly(D, Nat, Ceiling, rank, F)
    BY <1>3, <1>5, <1>6, <1>7, <1>n DEF LowerOnly
  <2> QED
    BY <2>1, RankedRecursion
<1>9. g = Body(g)
  BY <1>6, <1>8
<1>10. f = Body(f)
  BY <1>9
<1> HIDE DEF f
<1>11. ASSUME NEW l \in C, NEW h \in C
       PROVE  f[<<l, h>>] = IF h - l <= 1 THEN l
                            ELSE IF There(t, Half(l, h)) THEN f[<<Half(l, h), h>>]
                            ELSE f[<<l, Half(l, h)>>]
  <2> DEFINE p == <<l, h>>
  <2>1. p \in D /\ p[1] = l /\ p[2] = h
    BY DEF D
  <2> HIDE DEF p
  <2>2. f[p] = Body(f)[p]
    BY <1>10
  <2>3. f[p] = IF p[2] - p[1] <= 1 THEN p[1]
               ELSE IF There(t, Half(p[1], p[2])) THEN f[<<Half(p[1], p[2]), p[2]>>]
               ELSE f[<<p[1], Half(p[1], p[2])>>]
    BY <2>1, <2>2 DEF Body
  <2> QED
    BY <2>1, <2>3 DEF p
<1> QED
  BY <1>1, <1>11 DEF Bisected

(* An index of the model holds a field. *)
Has(t, i) == i \in 1 .. MaxIndex /\ Content(t, i) # Nil

Border(t, n) == (n = 0 \/ Has(t, n)) /\ ~Has(t, n + 1)

LEMMA ThereIs ==
    ASSUME KeysTell, NEW t, TabOK(t), KeyedOK(t)
    PROVE  \A j : There(t, j) <=> Has(t, j)
  BY LookupTrue, KeyAssumption DEF There, Has, KeyAssumption

(* The prefix is full, and ends at a nil or at the end of the array part. *)
LEMMA PrefixIs ==
    ASSUME NEW t, TabOK(t)
    PROVE  LET m == PrefixLen(t)
               n == Len(t.arr)
           IN  /\ n \in Nat /\ m \in 0 .. n
               /\ m = 0 \/ Has(t, m)
               /\ m < n => ~Has(t, m + 1)
               /\ m = n => n <= MaxIndex
<1> DEFINE n == Len(t.arr)
           m == PrefixLen(t)
           nils == {j \in t.lim .. n - 1 : t.arr[j + 1] = Nil} \cup {n}
           u == [t EXCEPT !.lim = m]
<1>1. /\ t = Record(t) /\ t.lim \in Nat /\ n \in Nat /\ t.lim <= n /\ MaxIndex \in Nat
      /\ \A i \in 1 .. n : t.arr[i] # Nil => i <= MaxIndex
  BY SizeAssumption DEF TabOK, ArrayOK, SizeAssumption
<1>2. m \in Nat /\ m <= n /\ \A i \in 1 .. m : t.arr[i] # Nil
  <2>1. TabOK(u) /\ m \in Nat /\ u.arr = t.arr
    BY PrefixKeeps
  <2>2. u.lim = m
    <3> HIDE DEF m
    <3> QED
      BY <1>1 DEF Record
  <2> HIDE DEF u, m
  <2> QED
    BY <2>1, <2>2 DEF TabOK, ArrayOK
<1>3. m < n => t.arr[m + 1] = Nil
  <2>1. m = IF t.lim < n THEN Min(nils) ELSE t.lim
    BY DEF PrefixLen
  <2>2. nils \in SUBSET Nat /\ nils # {}
    BY <1>1
  <2>3. Min(nils) \in nils
    <3> HIDE DEF nils
    <3> QED
      BY <2>2, MinIs
  <2> HIDE DEF m
  <2> QED
    BY <1>1, <2>1, <2>3
<1> HIDE DEF m
<1>4. \A i \in 1 .. n : Content(t, i) = t.arr[i]
  BY DEF Content
<1> HIDE DEF n
<1>5. m = 0 \/ Has(t, m)
  <2> SUFFICES ASSUME m # 0 PROVE Has(t, m)
    OBVIOUS
  <2>1. m \in 1 .. n /\ m \in 1 .. m
    BY <1>1, <1>2
  <2> QED
    BY <1>1, <1>2, <1>4, <2>1 DEF Has
<1>6. m < n => ~Has(t, m + 1)
  <2> SUFFICES ASSUME m < n PROVE ~Has(t, m + 1)
    OBVIOUS
  <2>1. m + 1 \in 1 .. n
    BY <1>1, <1>2
  <2> QED
    BY <1>3, <1>4, <2>1 DEF Has
<1>7. m = n => n <= MaxIndex
  BY <1>1, <1>5 DEF Has
<1> QED
  BY <1>1, <1>2, <1>5, <1>6, <1>7 DEF m, n

LEMMA RawLenBorder ==
    ASSUME KeysTell, NEW t, TabOK(t), KeyedOK(t)
    PROVE  Border(t, RawLen(t))
<1> DEFINE n == Len(t.arr)
           m == PrefixLen(t)
           gaps == {j \in n .. n + MaxIndex : ~There(t, j + 1)}
<1>1. /\ n \in Nat /\ m \in 0 .. n /\ MaxIndex \in Nat
      /\ m = 0 \/ Has(t, m)
      /\ m < n => ~Has(t, m + 1)
  BY PrefixIs, SizeAssumption DEF SizeAssumption
<1>2. RawLen(t) = IF m < n THEN m ELSE Min(gaps)
  BY DEF RawLen, There
<1> HIDE DEF m, n
<1>3. CASE m < n
  BY <1>1, <1>2, <1>3 DEF Border
<1>4. CASE ~(m < n)
  <2> DEFINE r == Min(gaps)
  <2>1. ~There(t, (n + MaxIndex) + 1)
    BY <1>1 DEF There
  <2>2. gaps \in SUBSET Nat /\ gaps # {}
    BY <1>1, <2>1
  <2>3. r \in gaps /\ \A y \in gaps : r <= y
    <3> HIDE DEF gaps
    <3> QED
      BY <2>2, MinIs
  <2> HIDE DEF r
  <2>4. r \in n .. n + MaxIndex /\ ~Has(t, r + 1)
    BY <2>3, ThereIs
  <2>5. CASE r = n
    BY <1>1, <1>2, <1>4, <2>4, <2>5 DEF Border, r
  <2>6. CASE r # n
    <3>1. r - 1 \in n .. n + MaxIndex /\ ~(r <= r - 1) /\ (r - 1) + 1 = r
      BY <1>1, <2>4, <2>6
    <3>2. There(t, r)
      BY <2>3, <3>1
    <3> QED
      BY <1>2, <1>4, <2>4, <3>2, ThereIs DEF Border, r
  <2> QED
    BY <2>5, <2>6
<1> QED
  BY <1>3, <1>4

(* Between an index that is there and one that is not, the search stops at   *)
(* one that is there before one that is not.                                *)
LEMMA BisectBorder ==
    ASSUME NEW t, NEW lo \in 0 .. Ceiling, NEW hi \in 0 .. Ceiling, lo < hi,
           lo = 0 \/ There(t, lo), ~There(t, hi)
    PROVE  LET r == Bisect(t, lo, hi) IN (r = 0 \/ There(t, r)) /\ ~There(t, r + 1)
<1>0. PICK at : Bisected(t, at)
  BY BisectIs
<1>1. /\ \A l, h \in 0 .. Ceiling :
            at[<<l, h>>] = IF h - l <= 1 THEN l
                           ELSE IF There(t, Half(l, h)) THEN at[<<Half(l, h), h>>]
                           ELSE at[<<l, Half(l, h)>>]
      /\ \A l, h : Bisect(t, l, h) = at[<<l, h>>]
  BY <1>0 DEF Bisected
<1>2. Ceiling \in Nat
  BY SizeAssumption DEF SizeAssumption, Ceiling
<1> DEFINE Edge(r) == (r = 0 \/ There(t, r)) /\ ~There(t, r + 1)
           Starts(l, h) == l < h /\ (l = 0 \/ There(t, l)) /\ ~There(t, h)
           S == {k \in 0 .. Ceiling :
                    \A l, h \in 0 .. Ceiling : Starts(l, h) /\ h - l <= k => Edge(at[<<l, h>>])}
<1>3. 0 \in S
  BY <1>2
<1>4. ASSUME NEW k \in 0 .. Ceiling - 1, k \in S PROVE k + 1 \in S
  <2> SUFFICES ASSUME NEW l \in 0 .. Ceiling, NEW h \in 0 .. Ceiling, Starts(l, h),
                      h - l <= k + 1
               PROVE  Edge(at[<<l, h>>])
    BY <1>2
  <2>1. CASE h - l <= 1
    <3>1. l < h /\ l \in Nat /\ h \in Nat
      BY <1>2
    <3>2. h = l + 1
      BY <2>1, <3>1
    <3>3. at[<<l, h>>] = l
      BY <1>1, <2>1
    <3> QED
      BY <3>2, <3>3
  <2>2. CASE ~(h - l <= 1)
    <3> DEFINE mid == Half(l, h)
    <3>1. mid \in 0 .. Ceiling /\ l < mid /\ mid < h
      BY <2>2, HalfIs
    <3>2. at[<<l, h>>] = IF There(t, mid) THEN at[<<mid, h>>] ELSE at[<<l, mid>>]
      BY <1>1, <2>2
    <3> HIDE DEF mid, Edge
    <3>3. h - mid <= k /\ mid - l <= k
      BY <1>2, <3>1
    <3>4. CASE There(t, mid)
      BY <1>4, <3>1, <3>2, <3>3, <3>4
    <3>5. CASE ~There(t, mid)
      BY <1>4, <3>1, <3>2, <3>3, <3>5
    <3> QED
      BY <3>4, <3>5
  <2> QED
    BY <2>1, <2>2
<1>5. Ceiling \in S
  <2> HIDE DEF S
  <2>1. 0 .. Ceiling \subseteq S
    BY <1>2, <1>3, <1>4, UpTo
  <2> QED
    BY <1>2, <2>1
<1>6. hi - lo <= Ceiling /\ Starts(lo, hi)
  BY <1>2
<1> HIDE DEF Starts, Edge
<1>7. Edge(at[<<lo, hi>>])
  BY <1>5, <1>6
<1>8. Bisect(t, lo, hi) = at[<<lo, hi>>]
  BY <1>1
<1> QED
  BY <1>7, <1>8 DEF Edge

(* The indices tried end at one that is not there, and the one before it is. *)
LEMMA BracketBorder ==
    ASSUME NEW t, NEW n \in Nat, n = Len(t.arr), n + 1 \in 1 .. Ceiling, n = 0 \/ There(t, n)
    PROVE  LET hi == Bracket(t)
               lo == LastThere(t, hi)
           IN  /\ hi \in 0 .. Ceiling /\ lo \in 0 .. Ceiling /\ lo < hi
               /\ lo = 0 \/ There(t, lo)
               /\ ~There(t, hi)
<1> DEFINE C == Ceiling
<1>0. PICK from : Bracketed(t, from)
  BY BracketIs
<1>1. /\ \A h \in 1 .. C : from[h] = IF ~There(t, h) THEN h ELSE from[Twice(h)]
      /\ Bracket(t) = from[n + 1]
  BY <1>0 DEF Bracketed
<1>2. C \in Nat /\ \A h \in 1 .. C : There(t, h) => Twice(h) \in 1 .. C /\ Twice(h) > h
  BY TwiceIs DEF There
<1> HIDE DEF C
<1> DEFINE S == {h \in 1 .. C : from[h] \in 1 .. C /\ from[h] >= h /\ ~There(t, from[h])}
<1>3. \A h \in 1 .. C : h \in S
  <2>1. ASSUME NEW h \in 1 .. C, \A m \in 1 .. C : m > h => m \in S PROVE h \in S
    <3>1. CASE ~There(t, h)
      BY <1>1, <3>1
    <3>2. CASE There(t, h)
      <4>1. Twice(h) \in S /\ Twice(h) > h /\ from[h] = from[Twice(h)]
        BY <1>1, <1>2, <2>1, <3>2
      <4> QED
        BY <4>1
    <3> QED
      BY <3>1, <3>2
  <2> HIDE DEF S
  <2>2. 1 .. C \subseteq S
    BY <1>2, <2>1, Downwards
  <2> QED
    BY <2>2
<1> DEFINE hi == from[n + 1]
<1>4. hi \in 1 .. C /\ ~There(t, hi)
  BY <1>3 DEF C
<1> HIDE DEF hi
<1>r. PICK reached : LastReached(t, hi, reached)
  BY <1>4, LastThereIs DEF C
<1>5. /\ \A h \in 1 .. C : reached[h] = IF h = hi THEN n
                                     ELSE IF Twice(h) >= hi THEN h ELSE reached[Twice(h)]
      /\ LastThere(t, hi) = reached[n + 1]
  BY <1>r DEF LastReached, C
<1> DEFINE Below(h) == reached[h] \in 1 .. C /\ There(t, reached[h]) /\ reached[h] < hi
           R == {h \in 1 .. C : from[h] = hi /\ There(t, h) => Below(h)}
<1>6. \A h \in 1 .. C : h \in R
  <2>1. ASSUME NEW h \in 1 .. C, \A m \in 1 .. C : m > h => m \in R PROVE h \in R
    <3> SUFFICES ASSUME from[h] = hi, There(t, h) PROVE Below(h)
      OBVIOUS
    <3> DEFINE k == Twice(h)
    <3>1. k \in 1 .. C /\ k > h /\ from[k] = hi /\ k <= hi /\ h < hi
      <4>1. k \in 1 .. C /\ k > h /\ from[h] = from[k]
        BY <1>1, <1>2
      <4> HIDE DEF k
      <4> QED
        BY <1>3, <4>1
    <3>2. reached[h] = IF k >= hi THEN h ELSE reached[k]
      BY <1>5, <3>1
    <3> HIDE DEF k
    <3>3. CASE There(t, k)
      <4>1. ~(k >= hi)
        BY <1>4, <3>1, <3>3
      <4>2. k \in R
        BY <2>1, <3>1
      <4> QED
        BY <3>1, <3>2, <3>3, <4>1, <4>2
    <3>4. CASE ~There(t, k)
      <4>1. k = hi
        BY <1>1, <3>1, <3>4
      <4> QED
        BY <3>1, <3>2, <4>1
    <3> QED
      BY <3>3, <3>4
  <2> HIDE DEF R
  <2>2. 1 .. C \subseteq R
    BY <1>2, <2>1, Downwards
  <2> QED
    BY <2>2
<1> DEFINE lo == reached[n + 1]
<1>7. lo \in 0 .. C /\ lo < hi /\ (lo = 0 \/ There(t, lo))
  <2>0. n + 1 \in 1 .. C
    BY DEF C
  <2>1. CASE There(t, n + 1)
    <3>1. Below(n + 1)
      BY <1>6, <2>0, <2>1 DEF hi
    <3> QED
      BY <3>1
  <2>2. CASE ~There(t, n + 1)
    <3>1. hi = n + 1
      BY <1>1, <2>0, <2>2 DEF hi
    <3>2. lo = n
      BY <1>5, <2>0, <3>1
    <3> QED
      BY <1>2, <2>0, <3>1, <3>2
  <2> QED
    BY <2>1, <2>2
<1> QED
  BY <1>1, <1>4, <1>5, <1>7 DEF hi, C

LEMMA ListLenBorder ==
    ASSUME KeysTell, NEW t, TabOK(t), KeyedOK(t)
    PROVE  Border(t, ListLen(t))
<1> DEFINE n == Len(t.arr)
           m == PrefixLen(t)
           hi == Bracket(t)
           lo == LastThere(t, hi)
<1>1. /\ n \in Nat /\ m \in 0 .. n /\ MaxIndex \in Nat /\ FirstCap \in Nat \ {0}
      /\ m = 0 \/ Has(t, m)
      /\ m < n => ~Has(t, m + 1)
      /\ m = n => n <= MaxIndex
  BY PrefixIs, SizeAssumption DEF SizeAssumption
<1>2. ListLen(t) = IF m < n THEN m ELSE Bisect(t, lo, hi)
  BY DEF ListLen
<1> HIDE DEF m
<1>3. CASE m < n
  BY <1>1, <1>2, <1>3 DEF Border
<1>4. CASE ~(m < n)
  <2>1. n = m /\ (n = 0 \/ There(t, n))
    <3> HIDE DEF n
    <3> QED
      BY <1>1, <1>4, ThereIs
  <2>2. n + 1 \in 1 .. Ceiling
    <3> HIDE DEF n
    <3> QED
      BY <1>1, <2>1 DEF Ceiling
  <2>3. /\ hi \in 0 .. Ceiling /\ lo \in 0 .. Ceiling /\ lo < hi
        /\ lo = 0 \/ There(t, lo)
        /\ ~There(t, hi)
    BY <1>1, <2>1, <2>2, BracketBorder
  <2> HIDE DEF hi, lo, n
  <2> DEFINE r == Bisect(t, lo, hi)
  <2>4. (r = 0 \/ There(t, r)) /\ ~There(t, r + 1)
    BY <2>3, BisectBorder
  <2>5. ListLen(t) = r
    BY <1>2, <1>4
  <2> HIDE DEF r
  <2> QED
    BY <2>4, <2>5, ThereIs DEF Border
<1> QED
  BY <1>3, <1>4

(* In a program whose keys tell, as long as growth moves no field out of the  *)
(* hash, both #t and the length of the table library are borders, although   *)
(* one relies on the hint and the other skips indices.                       *)
THEOREM LengthsAreBorders == KeysTell /\ Spec /\ []NoTombstones => []LengthIsBorder
<1>1. CASE KeysTell
  <2>1. TabIInv /\ KeyedOK(tab) => LengthIsBorder
    <3> SUFFICES ASSUME TabIInv, KeyedOK(tab) PROVE LengthIsBorder
      OBVIOUS
    <3>1. Border(tab, RawLen(tab)) /\ Border(tab, ListLen(tab))
      BY <1>1, RawLenBorder, ListLenBorder DEF TabIInv
    <3> QED
      BY <3>1 DEF LengthIsBorder, Border, Has
  <2>2. Spec => []TabIInv
    BY TabIInvHolds, SpecInLib, PTL
  <2> QED
    BY <1>1, <2>1, <2>2, KeyedHolds, PTL
<1> QED
  BY <1>1
-----------------------------------------------------------------------------
(* The table as a dictionary. *)
(* Where the value of a key is kept. *)
ArrayHolds(t) == \A l \in 1 .. Len(t.arr) : Content(t, l) = t.arr[l]

HashHolds(t) == \A s \in Live(t.slots) : Content(t, Lua[t.slots[s].key]) = t.slots[s].val

Absent(t, l) == l \notin 1 .. Len(t.arr) /\ \A s \in Live(t.slots) : Lua[t.slots[s].key] # l

LEMMA LiveOutside ==
    ASSUME KeysTell, NEW t, TabOK(t), KeyedOK(t), NEW s \in Live(t.slots)
    PROVE  /\ s \in 0 .. t.size - 1 /\ t.slots[s].key \in Key /\ t.slots[s].key \notin Free
           /\ t.slots[s].val # Nil /\ Lua[t.slots[s].key] \in LuaKey
           /\ Lua[t.slots[s].key] \notin 1 .. t.cap /\ Lua[t.slots[s].key] \notin 1 .. Len(t.arr)
<1> DEFINE e == t.slots[s].key
<1>1. /\ t.slots \in SlotMap(t.size) /\ t.size \in Nat
      /\ t.cap \in Nat /\ Len(t.arr) \in Nat /\ Len(t.arr) <= t.cap
  BY DEF TabOK, HashOK, ArrayOK
<1>2. s \in 0 .. t.size - 1 /\ e \notin Free /\ t.slots[s].val # Nil
  BY <1>1, SlotsOf DEF Live
<1>3. e \in Key
  BY <1>1, <1>2, SlotsOf
<1>4. Index(e) \notin 1 .. t.cap
  BY DEF KeyedOK, Outside
<1> HIDE DEF e
<1>5. Lua[e] \in LuaKey
  BY <1>3, KeyAssumption DEF KeyAssumption
<1>6. Lua[e] \notin 1 .. t.cap
  <2> SUFFICES ASSUME Lua[e] \in 1 .. t.cap PROVE FALSE
    OBVIOUS
  <2>1. Lua[e] \in Nat \ {0}
    BY <1>1
  <2>2. Lua[e] <= MaxIndex /\ MaxIndex \in Nat
    BY <1>3, <2>1, SizeAssumption DEF KeysTell, SizeAssumption
  <2>3. Index(e) = Lua[e]
    BY <2>1, <2>2 DEF Index
  <2> QED
    BY <1>4, <2>3
<1>7. Lua[e] \notin 1 .. Len(t.arr)
  BY <1>1, <1>6
<1> QED
  BY <1>2, <1>3, <1>5, <1>6, <1>7 DEF e

LEMMA Holds ==
    ASSUME KeysTell, NEW t, TabOK(t), KeyedOK(t)
    PROVE  /\ ArrayHolds(t) /\ HashHolds(t)
           /\ \A l : Absent(t, l) => Content(t, l) = Nil
<1> DEFINE At2(l) == {s \in DOMAIN t.slots : t.slots[s].val # Nil /\ t.slots[s].key \notin Free
                                              /\ Lua[t.slots[s].key] = l}
<1>1. \A l : Content(t, l) = IF l \in 1 .. Len(t.arr) THEN t.arr[l]
                             ELSE IF At2(l) = {} THEN Nil
                             ELSE t.slots[CHOOSE s \in At2(l) : TRUE].val
  BY DEF Content
<1>2. ArrayHolds(t)
  BY <1>1 DEF ArrayHolds
<1>3. ASSUME NEW s \in Live(t.slots)
      PROVE  Content(t, Lua[t.slots[s].key]) = t.slots[s].val
  <2> DEFINE l == Lua[t.slots[s].key]
  <2>1. s \in 0 .. t.size - 1 /\ l \notin 1 .. Len(t.arr)
    BY LiveOutside
  <2>2. s \in At2(l)
    BY DEF Live
  <2>3. \A u \in At2(l) : u = s
    <3>1. t.slots \in SlotMap(t.size) /\ t.size \in Nat
      BY DEF TabOK, HashOK
    <3>2. DOMAIN t.slots = 0 .. t.size - 1
      BY <3>1, SlotsOf
    <3> QED
      BY <2>1, <2>2, <3>2 DEF KeyedOK, OneSlot
  <2> HIDE DEF l, At2
  <2>4. (CHOOSE u \in At2(l) : TRUE) = s /\ At2(l) # {}
    BY <2>2, <2>3
  <2>5. Content(t, l) = t.slots[s].val
    BY <1>1, <2>1, <2>4
  <2> QED
    BY <2>5 DEF l
<1>4. ASSUME NEW l, Absent(t, l) PROVE Content(t, l) = Nil
  <2>1. At2(l) = {}
    BY <1>4 DEF Absent, Live
  <2> HIDE DEF At2
  <2> QED
    BY <1>1, <1>4, <2>1 DEF Absent
<1> QED
  BY <1>2, <1>3, <1>4 DEF HashHolds

LEMMA FieldWhere ==
    ASSUME KeysTell, NEW t, TabOK(t), KeyedOK(t), NEW l, Content(t, l) # Nil
    PROVE  \/ l \in 1 .. Len(t.arr) /\ t.arr[l] # Nil
           \/ \E s \in Live(t.slots) : Lua[t.slots[s].key] = l
<1>1. ~Absent(t, l)
  BY Holds
<1> QED
  BY <1>1, Holds DEF Absent, ArrayHolds

(* u is t but that k holds v. *)
Updated(t, u, k, v) ==
    \A l : Content(u, l) = IF l = Lua[k] THEN v ELSE Content(t, l)

(* An entry for k in the slot it had, or in an empty one if it had none. *)
LEMMA SlotUpdated ==
    ASSUME KeysTell, NEW t, TabOK(t), KeyedOK(t), NEW u, TabOK(u), KeyedOK(u),
           u.arr = t.arr, u.size = t.size,
           NEW s \in 0 .. t.size - 1, NEW e, u.slots = [t.slots EXCEPT ![s] = e],
           NEW k \in Key, Index(k) \notin 1 .. t.cap, e.key \notin Free, Lua[e.key] = Lua[k],
           \/ Matches(t.slots[s].key, k)
           \/ t.slots[s].key \in Free /\ \A r \in 0 .. t.size - 1 : ~Matches(t.slots[r].key, k)
    PROVE  Updated(t, u, k, e.val)
<1>1. /\ t.slots \in SlotMap(t.size) /\ t.size \in Nat /\ u.slots \in SlotMap(t.size)
      /\ t.cap \in Nat /\ Len(t.arr) \in Nat /\ Len(t.arr) <= t.cap
  BY DEF TabOK, HashOK, ArrayOK
<1>2. DOMAIN t.slots = 0 .. t.size - 1 /\ DOMAIN u.slots = 0 .. t.size - 1
  BY <1>1, SlotsOf
<1>3. u.slots[s] = e /\ \A r \in 0 .. t.size - 1 : r # s => u.slots[r] = t.slots[r]
  BY <1>2
<1>4. Lua[k] \notin 1 .. Len(t.arr)
  <2> SUFFICES ASSUME Lua[k] \in 1 .. Len(t.arr) PROVE FALSE
    OBVIOUS
  <2>1. Lua[k] \in Nat \ {0} /\ Lua[k] \in 1 .. t.cap
    BY <1>1
  <2>2. Lua[k] <= MaxIndex /\ MaxIndex \in Nat
    BY <2>1, SizeAssumption DEF KeysTell, SizeAssumption
  <2>3. Index(k) = Lua[k]
    BY <2>1, <2>2 DEF Index
  <2> QED
    BY <2>1, <2>3
<1>5. \A r \in 0 .. t.size - 1 :
         r # s /\ t.slots[r].key \notin Free => Lua[t.slots[r].key] # Lua[k]
  BY DEF Matches, KeyedOK, OneSlot
<1>6. Content(u, Lua[k]) = e.val
  <2>1. CASE e.val # Nil
    <3>1. s \in Live(u.slots)
      BY <1>2, <1>3, <2>1 DEF Live
    <3>2. Content(u, Lua[u.slots[s].key]) = u.slots[s].val
      BY <3>1, Holds DEF HashHolds
    <3> QED
      BY <1>3, <3>2
  <2>2. CASE e.val = Nil
    <3>1. ASSUME NEW r \in Live(u.slots) PROVE Lua[u.slots[r].key] # Lua[k]
      <4>1. r \in 0 .. t.size - 1 /\ u.slots[r].val # Nil /\ u.slots[r].key \notin Free
        BY <1>2 DEF Live
      <4>2. r # s
        BY <1>3, <2>2, <4>1
      <4> QED
        BY <1>3, <1>5, <4>1, <4>2
    <3>2. Absent(u, Lua[k])
      BY <1>4, <3>1 DEF Absent
    <3> QED
      BY <2>2, <3>2, Holds
  <2> QED
    BY <2>1, <2>2
<1>7. ASSUME NEW l, l # Lua[k] PROVE Content(u, l) = Content(t, l)
  <2>1. CASE l \in 1 .. Len(t.arr)
    BY <2>1, Holds DEF ArrayHolds
  <2>2. CASE \E r \in Live(t.slots) : Lua[t.slots[r].key] = l
    <3>1. PICK r \in Live(t.slots) : Lua[t.slots[r].key] = l
      BY <2>2
    <3>2. r \in 0 .. t.size - 1 /\ t.slots[r].key \notin Free /\ t.slots[r].val # Nil
      BY <1>2 DEF Live
    <3>3. r # s
      BY <1>7, <3>1, <3>2 DEF Matches
    <3>4. u.slots[r] = t.slots[r]
      BY <1>3, <3>2, <3>3
    <3>5. r \in Live(u.slots)
      BY <1>2, <3>2, <3>4 DEF Live
    <3>6. Content(t, Lua[t.slots[r].key]) = t.slots[r].val
      BY Holds DEF HashHolds
    <3>7. Content(u, Lua[u.slots[r].key]) = u.slots[r].val
      BY <3>5, Holds DEF HashHolds
    <3> QED
      BY <3>1, <3>4, <3>6, <3>7
  <2>3. CASE Absent(t, l)
    <3>1. ASSUME NEW r \in Live(u.slots) PROVE Lua[u.slots[r].key] # l
      <4>1. r \in 0 .. t.size - 1 /\ u.slots[r].val # Nil /\ u.slots[r].key \notin Free
        BY <1>2 DEF Live
      <4>2. CASE r = s
        BY <1>3, <1>7, <4>2
      <4>3. CASE r # s
        <5>1. u.slots[r] = t.slots[r]
          BY <1>3, <4>1, <4>3
        <5>2. r \in Live(t.slots)
          BY <1>2, <4>1, <5>1 DEF Live
        <5> QED
          BY <2>3, <5>1, <5>2 DEF Absent
      <4> QED
        BY <4>2, <4>3
    <3>2. Absent(u, l)
      BY <2>3, <3>1 DEF Absent
    <3> QED
      BY <2>3, <3>2, Holds
  <2> QED
    BY <2>1, <2>2, <2>3 DEF Absent
<1> QED
  BY <1>6, <1>7 DEF Updated

(* A table with the same array part and the same live entries. *)
SameFields(t, u) ==
    /\ u.arr = t.arr
    /\ \A s \in Live(t.slots) : \E r \in Live(u.slots) : u.slots[r] = t.slots[s]
    /\ \A r \in Live(u.slots) : \E s \in Live(t.slots) : u.slots[r] = t.slots[s]

LEMMA SameContent ==
    ASSUME KeysTell, NEW t, TabOK(t), KeyedOK(t), NEW u, TabOK(u), KeyedOK(u), SameFields(t, u)
    PROVE  \A l : Content(u, l) = Content(t, l)
<1> SUFFICES ASSUME NEW l PROVE Content(u, l) = Content(t, l)
  OBVIOUS
<1>1. CASE l \in 1 .. Len(t.arr)
  BY <1>1, Holds DEF ArrayHolds, SameFields
<1>2. CASE \E s \in Live(t.slots) : Lua[t.slots[s].key] = l
  <2>1. PICK s \in Live(t.slots) : Lua[t.slots[s].key] = l
    BY <1>2
  <2>2. PICK r \in Live(u.slots) : u.slots[r] = t.slots[s]
    BY DEF SameFields
  <2>3. Content(t, Lua[t.slots[s].key]) = t.slots[s].val
    BY Holds DEF HashHolds
  <2>4. Content(u, Lua[u.slots[r].key]) = u.slots[r].val
    BY Holds DEF HashHolds
  <2> QED
    BY <2>1, <2>2, <2>3, <2>4
<1>3. CASE Absent(t, l)
  <2>1. ASSUME NEW r \in Live(u.slots) PROVE Lua[u.slots[r].key] # l
    <3>1. PICK s \in Live(t.slots) : u.slots[r] = t.slots[s]
      BY DEF SameFields
    <3> QED
      BY <1>3, <3>1 DEF Absent
  <2>2. Absent(u, l)
    BY <1>3, <2>1 DEF Absent, SameFields
  <2> QED
    BY <1>3, <2>2, Holds
<1> QED
  BY <1>1, <1>2, <1>3 DEF Absent

LEMMA DeleteUpdates ==
    ASSUME KeysTell, NEW t, TabOK(t), KeyedOK(t), NEW k \in Key, Index(k) \notin 1 .. t.cap,
           NEW u, u = Delete(t, k)
    PROVE  Updated(t, u, k, Nil)
<1>0. HashOK(t) /\ t = Record(t) /\ TabOK(u) /\ KeyedOK(u) /\ t.slots \in SlotMap(t.size)
      /\ t.size \in Nat /\ OneSlot(t.slots, t.size)
  BY DeleteKeeps, DeleteKeyed DEF TabOK, HashOK, KeyedOK
<1>d. DOMAIN t.slots = 0 .. t.size - 1
  BY <1>0, SlotsOf
<1>1. CASE ~(Found(t, k) /\ t.slots[At(t, k)].val # Nil)
  <2>1. u = t
    BY <1>1 DEF Delete
  <2>2. ASSUME NEW s \in Live(t.slots) PROVE Lua[t.slots[s].key] # Lua[k]
    <3> SUFFICES ASSUME Lua[t.slots[s].key] = Lua[k] PROVE FALSE
      OBVIOUS
    <3>1. s \in 0 .. t.size - 1 /\ t.slots[s].val # Nil /\ Matches(t.slots[s].key, k)
      BY <1>d DEF Live, Matches
    <3>2. Found(t, k) /\ At(t, k) = s
      BY <1>0, <3>1, FoundWhere
    <3> QED
      BY <1>1, <3>1, <3>2
  <2>3. Content(t, Lua[k]) = Nil
    <3>1. CASE InArray(t, k)
      BY <3>1 DEF InArray, TabOK, ArrayOK
    <3>2. CASE ~InArray(t, k)
      <4>1. \A s \in 0 .. t.size - 1 : Matches(t.slots[s].key, k) => t.slots[s].val = Nil
        BY <1>d, <2>2 DEF Live, Matches
      <4>2. CASE \E s \in 0 .. t.size - 1 : Matches(t.slots[s].key, k)
        BY <3>2, <4>1, <4>2, ContentIs
      <4>3. CASE ~\E s \in 0 .. t.size - 1 : Matches(t.slots[s].key, k)
        BY <3>2, <4>3, ContentIs
      <4> QED
        BY <4>2, <4>3
    <3> QED
      BY <3>1, <3>2
  <2> QED
    BY <2>1, <2>3 DEF Updated
<1>2. CASE Found(t, k) /\ t.slots[At(t, k)].val # Nil
  <2> DEFINE s == At(t, k)
             e == [t.slots[s] EXCEPT !.val = Nil]
             new == [t.slots EXCEPT ![s] = e]
  <2>1. s \in 0 .. t.size - 1 /\ Matches(t.slots[s].key, k)
    BY <1>0, <1>2, FoundIs
  <2>2. u = [t EXCEPT !.slots[s].val = Nil, !.count = @ - 1, !.tombs = @ + 1]
    BY <1>2 DEF Delete
  <2> HIDE DEF s
  <2>3. t.slots[s] \in Slot
    BY <1>0, <2>1 DEF SlotMap
  <2>4. e.key = t.slots[s].key /\ e.val = Nil
    BY <2>3 DEF Slot
  <2>5. u.size = t.size /\ u.arr = t.arr /\ u.slots = new
    <3>1. u = [t EXCEPT !.slots = new, !.count = t.count - 1, !.tombs = t.tombs + 1]
      BY <1>0, <2>2 DEF Record
    <3> HIDE DEF new, e
    <3> QED
      BY <1>0, <3>1 DEF Record
  <2> HIDE DEF e
  <2>6. e.key \notin Free /\ Lua[e.key] = Lua[k]
    BY <2>1, <2>4 DEF Matches
  <2>7. Updated(t, u, k, e.val)
    BY <1>0, <2>1, <2>5, <2>6, SlotUpdated
  <2> QED
    BY <2>4, <2>7
<1> QED
  BY <1>1, <1>2

LEMMA InsertUpdates ==
    ASSUME KeysTell, NEW t, TabOK(t), HasRoom(t), KeyedOK(t), NEW k \in Key, NEW v \in Value,
           Index(k) \notin 1 .. t.cap, NEW u, u = Insert(t, k, v)
    PROVE  Updated(t, u, k, v)
<1>1. /\ t.size \in Nat /\ t.size > 0 /\ t.slots \in SlotMap(t.size) /\ t = Record(t)
      /\ HashOK(t) /\ CacheTrue(t) /\ OneSlot(t.slots, t.size) /\ NoTombs(t.slots, t.size)
      /\ TabOK(u) /\ KeyedOK(u)
  BY InsertKeeps, InsertKeyed DEF TabOK, HashOK, CountersOK, HasRoom, KeyedOK
<1>2. v \in Field /\ v # Nil /\ k \notin Free
  BY KeyAssumption DEF KeyAssumption, Field, Free
<1>3. \A s \in 0 .. t.size - 1 : t.slots[s] \in Slot
  BY <1>1 DEF SlotMap
<1> DEFINE c == CachedAt(t, k)
           hit == Cached(t, k) /\ t.slots[c].val # Nil
           s == Pos(t.size, k, Min(InsertStops(t, k)))
           dead == t.slots[s].key \notin Free /\ t.slots[s].val = Nil
           fresh == t.slots[s].key \in Free
<1>4. CASE hit
  <2> DEFINE e == [t.slots[c] EXCEPT !.val = v]
             new == [t.slots EXCEPT ![c] = e]
  <2>1. c \in 0 .. t.size - 1 /\ Matches(t.slots[c].key, k)
    BY <1>1, <1>4, CachedTrue
  <2>2. u = [t EXCEPT !.slots[c].val = v]
    BY <1>4 DEF Insert
  <2> HIDE DEF c
  <2>3. e.key = t.slots[c].key /\ e.val = v
    BY <1>2, <1>3, <2>1 DEF Slot
  <2>4. u.size = t.size /\ u.arr = t.arr /\ u.slots = new
    <3>1. u = [t EXCEPT !.slots = new]
      BY <1>1, <2>2 DEF Record
    <3> HIDE DEF new, e
    <3> QED
      BY <1>1, <3>1 DEF Record
  <2> HIDE DEF e
  <2>5. e.key \notin Free /\ Lua[e.key] = Lua[k]
    BY <2>1, <2>3 DEF Matches
  <2>6. Updated(t, u, k, e.val)
    BY <1>1, <2>1, <2>4, <2>5, SlotUpdated
  <2> QED
    BY <2>3, <2>6
<1>5. CASE ~hit
  <2> DEFINE e == [key |-> IF fresh THEN k ELSE t.slots[s].key, val |-> v]
             new == [t.slots EXCEPT ![s] = e]
  <2>1. s \in 0 .. t.size - 1 /\ (fresh \/ Matches(t.slots[s].key, k))
    BY <1>1, InsertStop
  <2>2. u = [t EXCEPT !.slots[s] = [key |-> IF fresh THEN k ELSE @.key, val |-> v],
                      !.count = IF fresh \/ dead THEN @ + 1 ELSE @,
                      !.tombs = IF dead THEN @ - 1 ELSE @]
    BY <1>5 DEF Insert
  <2>n. fresh => \A r \in 0 .. t.size - 1 : ~Matches(t.slots[r].key, k)
    <3> SUFFICES ASSUME fresh, NEW r \in 0 .. t.size - 1, Matches(t.slots[r].key, k)
                 PROVE  FALSE
      OBVIOUS
    <3>1. InsertStops(t, k) = Stops(t, k)
      <4>1. \A i \in 0 .. t.size - 1 : Pos(t.size, k, i) \in 0 .. t.size - 1
        BY <1>1, PosVisits
      <4> QED
        BY <1>1, <4>1 DEF InsertStops, Stops, NoTombs, Free
    <3>2. Found(t, k)
      BY <1>1, FoundWhere
    <3>3. s = At(t, k)
      BY <3>1 DEF At
    <3> HIDE DEF s
    <3> QED
      BY <3>2, <3>3 DEF Found, Matches
  <2> HIDE DEF s
  <2>4. u.size = t.size /\ u.arr = t.arr /\ u.slots = new
    <3> DEFINE count == IF fresh \/ dead THEN t.count + 1 ELSE t.count
               tombs == IF dead THEN t.tombs - 1 ELSE t.tombs
    <3> HIDE DEF fresh, dead
    <3>1. u = [t EXCEPT !.slots = new, !.count = count, !.tombs = tombs]
      BY <1>1, <2>2 DEF Record
    <3> HIDE DEF new, e, count, tombs
    <3> QED
      BY <1>1, <3>1 DEF Record
  <2>5. e.key \notin Free /\ Lua[e.key] = Lua[k] /\ e.val = v
    BY <1>2, <2>1 DEF Matches
  <2> HIDE DEF e
  <2>6. Updated(t, u, k, e.val)
    BY <1>1, <2>1, <2>4, <2>5, <2>n, SlotUpdated
  <2> QED
    BY <2>5, <2>6
<1> QED
  BY <1>4, <1>5

(* Rebuilding the hash changes no field. *)
LEMMA RehashFields ==
    ASSUME NEW t, TabOK(t), KeyedOK(t), NEW size \in Nat, size > 3, 4 * t.count < 3 * size
    PROVE  SameFields(t, Rehash(t, size))
<1> DEFINE u == Rehash(t, size)
           slots == Rebuilt(t, size)
<1>1. /\ t = Record(t) /\ t.count \in Nat /\ t.count < size /\ t.size \in Nat
      /\ t.slots \in SlotMap(t.size)
      /\ u = [t EXCEPT !.size = size, !.slots = slots, !.tombs = 0, !.cache = NoCache]
  BY DEF TabOK, HashOK, CountersOK, Rehash
<1>2. Tidy(slots, size, t.count) /\ Copies(slots, size, t.slots, t.size)
  BY <1>1, RebuiltIs
<1> HIDE DEF u, slots
<1>3. u.slots = slots /\ u.arr = t.arr
  BY <1>1 DEF Record
<1>4. DOMAIN slots = 0 .. size - 1 /\ DOMAIN t.slots = 0 .. t.size - 1
  BY <1>1, <1>2, SlotsOf DEF Tidy
<1>5. ASSUME NEW s \in Live(t.slots) PROVE \E r \in Live(slots) : slots[r] = t.slots[s]
  <2>1. s \in 0 .. t.size - 1 /\ t.slots[s].key \notin Free /\ t.slots[s].val # Nil
    BY <1>4 DEF Live
  <2>2. PICK r \in 0 .. size - 1 : slots[r] = t.slots[s]
    BY <1>2, <2>1 DEF Copies
  <2>3. r \in Live(slots)
    BY <1>4, <2>1, <2>2 DEF Live
  <2> QED
    BY <2>2, <2>3
<1>6. ASSUME NEW r \in Live(slots) PROVE \E s \in Live(t.slots) : slots[r] = t.slots[s]
  <2>1. r \in 0 .. size - 1 /\ slots[r].key \notin Free /\ slots[r].val # Nil
    BY <1>4 DEF Live
  <2>2. PICK s \in 0 .. t.size - 1 : slots[r] = t.slots[s]
    BY <1>2, <2>1 DEF Copies
  <2>3. s \in Live(t.slots)
    BY <1>4, <2>1, <2>2 DEF Live
  <2> QED
    BY <2>2, <2>3
<1> QED
  BY <1>3, <1>5, <1>6 DEF SameFields, u

LEMMA RoomyFields ==
    ASSUME NEW t, TabOK(t), KeyedOK(t)
    PROVE  SameFields(t, Roomy(t))
<1>1. /\ t.size \in Nat /\ (t.size > 3 \/ t.size = 0) /\ t.count \in Nat /\ t.tombs \in Nat
      /\ t.slots \in SlotMap(t.size) /\ t.count = Cardinality(Live(t.slots))
      /\ t.size > 0 => 4 * (t.count + t.tombs) < 3 * t.size
  BY DEF TabOK, HashOK, CountersOK
<1>2. CASE t.size = 0
  <2>1. Roomy(t) = Rehash(t, MinHash)
    BY <1>2 DEF Roomy
  <2>2. MinHash \in Nat /\ MinHash > 3
    BY SizeAssumption DEF SizeAssumption
  <2>3. t.count = 0
    <3>1. DOMAIN t.slots = 0 .. t.size - 1
      BY <1>1, SlotsOf
    <3>2. Live(t.slots) = {}
      BY <1>2, <3>1 DEF Live
    <3> QED
      BY <1>1, <3>2, FS_EmptySet
  <2>4. 4 * t.count < 3 * MinHash
    BY <2>2, <2>3
  <2> QED
    BY <2>1, <2>2, <2>4, RehashFields
<1>3. CASE t.size # 0 /\ (t.count + t.tombs + 1) * 4 >= t.size * 3
  <2> DEFINE size == IF t.count >= t.size \div 2 THEN 2 * t.size ELSE t.size
  <2>1. Roomy(t) = Rehash(t, size)
    BY <1>3 DEF Roomy
  <2>2. size \in Nat /\ size > 3 /\ 4 * t.count < 3 * size
    BY <1>1, <1>3
  <2> HIDE DEF size
  <2> QED
    BY <2>1, <2>2, RehashFields
<1>4. CASE t.size # 0 /\ ~((t.count + t.tombs + 1) * 4 >= t.size * 3)
  <2>1. Roomy(t) = t
    BY <1>4 DEF Roomy
  <2> QED
    BY <2>1 DEF SameFields
<1> QED
  BY <1>2, <1>3, <1>4

(* A write into the array part. *)
LEMMA WriteArrayUpdates ==
    ASSUME KeysTell, NEW t, TabOK(t), KeyedOK(t), NEW k \in Key, NEW v \in Field,
           Index(k) \in 1 .. t.cap, NEW u, u = WriteArray(t, Index(k), v), TabOK(u), KeyedOK(u)
    PROVE  Updated(t, u, k, v)
<1> DEFINE i == Index(k)
           n == Len(t.arr)
           arr == [j \in 1 .. Max({i, n}) |->
                      IF j = i THEN v ELSE IF j <= n THEN t.arr[j] ELSE Nil]
           lim == Hint(t.lim, i, v)
<1>1. t = Record(t) /\ u = [t EXCEPT !.arr = arr, !.lim = lim]
  BY DEF TabOK, WriteArray
<1>2. n \in Nat /\ t.cap \in Nat /\ n <= t.cap /\ i \in 1 .. t.cap /\ i = Lua[k]
  BY DEF TabOK, ArrayOK, Index
<1>3. u.arr = arr /\ u.slots = t.slots
  <2> HIDE DEF arr, lim
  <2> QED
    BY <1>1 DEF Record
<1> HIDE DEF i, lim
<1> DEFINE m == Max({i, n})
<1>4. m = IF i >= n THEN i ELSE n
  BY <1>2, MaxTwo
<1> HIDE DEF m
<1>5. Len(u.arr) = m /\ \A j \in 1 .. m :
         u.arr[j] = IF j = i THEN v ELSE IF j <= n THEN t.arr[j] ELSE Nil
  <2>1. m \in Nat
    BY <1>2, <1>4
  <2>2. arr = [j \in 1 .. m |-> IF j = i THEN v ELSE IF j <= n THEN t.arr[j] ELSE Nil]
    BY DEF m
  <2> HIDE DEF arr
  <2>3. DOMAIN u.arr = 1 .. m
    BY <1>3, <2>2
  <2>4. u.arr \in Seq(Field)
    BY DEF TabOK, ArrayOK
  <2>5. Len(u.arr) = m
    BY <2>1, <2>3, <2>4, LenProperties
  <2> QED
    BY <1>3, <2>2, <2>5
<1> HIDE DEF arr, n
<1>6. ASSUME NEW l PROVE Content(u, l) = IF l = Lua[k] THEN v ELSE Content(t, l)
  <2>1. CASE l \in 1 .. m
    <3>1. Content(u, l) = u.arr[l]
      BY <1>5, <2>1, Holds DEF ArrayHolds
    <3>2. CASE l = i
      BY <1>2, <1>5, <2>1, <3>1, <3>2
    <3>3. CASE l # i /\ l \in 1 .. n
      <4>1. Content(t, l) = t.arr[l]
        BY <3>3, Holds DEF ArrayHolds, n
      <4>2. u.arr[l] = t.arr[l]
        BY <1>2, <1>5, <2>1, <3>3
      <4> QED
        BY <1>2, <3>1, <3>3, <4>1, <4>2
    <3>4. CASE l # i /\ l \notin 1 .. n
      <4>1. u.arr[l] = Nil /\ l \in 1 .. t.cap
        BY <1>2, <1>4, <1>5, <2>1, <3>4
      <4>2. Absent(t, l)
        BY <3>4, <4>1, LiveOutside DEF Absent, n
      <4> QED
        BY <1>2, <3>1, <3>4, <4>1, <4>2, Holds
    <3> QED
      BY <3>2, <3>3, <3>4
  <2>2. CASE l \notin 1 .. m
    <3>1. l # i /\ l \notin 1 .. n /\ l \notin 1 .. Len(u.arr)
      BY <1>2, <1>4, <1>5, <2>2
    <3>2. CASE \E s \in Live(t.slots) : Lua[t.slots[s].key] = l
      <4>1. PICK s \in Live(t.slots) : Lua[t.slots[s].key] = l
        BY <3>2
      <4>2. Content(t, Lua[t.slots[s].key]) = t.slots[s].val
        BY Holds DEF HashHolds
      <4>3. Content(u, Lua[u.slots[s].key]) = u.slots[s].val
        BY <1>3, Holds DEF HashHolds
      <4> QED
        BY <1>2, <1>3, <3>1, <4>1, <4>2, <4>3
    <3>3. CASE ~\E s \in Live(t.slots) : Lua[t.slots[s].key] = l
      <4>1. Absent(t, l) /\ Absent(u, l)
        BY <1>3, <3>1, <3>3 DEF Absent, n
      <4> QED
        BY <1>2, <3>1, <4>1, Holds
    <3> QED
      BY <3>2, <3>3
  <2> QED
    BY <2>1, <2>2
<1> QED
  BY <1>6 DEF Updated

(* Growth that leaves no tombstone adds its element to the array part, and    *)
(* does nothing else to what is stored.                                     *)
LEMMA GrowIs ==
    ASSUME NEW t, TabOK(t), NEW i \in 1 .. MaxIndex, i = Len(t.arr) + 1, i \notin 1 .. t.cap,
           NEW v \in Field, NEW u, u = Grow(t, i, v), NoTombs(u.slots, t.size)
    PROVE  /\ u.slots = t.slots /\ u.size = t.size /\ Len(u.arr) = i /\ u.arr[i] = v
           /\ \A j \in 1 .. Len(t.arr) : u.arr[j] = t.arr[j]
<1> DEFINE cap == IF t.cap = 0 THEN FirstCap ELSE 2 * t.cap
           moved == Moved(t, cap)
           at(j) == {s \in moved : Index(t.slots[s].key) = j}
           top == Max({i} \cup {Index(t.slots[s].key) : s \in moved})
           arr == [j \in 1 .. top |->
                      IF j < i THEN t.arr[j] ELSE IF j = i THEN v
                      ELSE IF at(j) # {} THEN t.slots[Max(at(j))].val ELSE Nil]
           lim == Hint(t.lim, i, v)
           slots == [s \in DOMAIN t.slots |->
                        IF s \in moved THEN [key |-> Tomb, val |-> Nil] ELSE t.slots[s]]
           count == t.count - Cardinality(moved)
           tombs == t.tombs + Cardinality(moved)
<1>1. /\ u = [t EXCEPT !.cap = cap, !.small = FALSE, !.arr = arr, !.lim = lim, !.slots = slots,
                       !.count = count, !.tombs = tombs]
      /\ t = Record(t) /\ t.size \in Nat /\ t.slots \in SlotMap(t.size)
      /\ Len(t.arr) \in Nat
  BY DEF Grow, TabOK, HashOK, ArrayOK
<1>2. DOMAIN t.slots = 0 .. t.size - 1
  BY <1>1, SlotsOf
<1>3. u.slots = slots /\ u.size = t.size /\ u.arr = arr
  <2> HIDE DEF arr, lim, slots, count, tombs, cap, moved
  <2> QED
    BY <1>1 DEF Record
<1>4. moved = {}
  <2> SUFFICES ASSUME NEW s \in moved PROVE FALSE
    OBVIOUS
  <2>1. s \in DOMAIN t.slots
    BY DEF Moved
  <2> HIDE DEF moved
  <2>2. slots[s].key = Tomb
    BY <2>1
  <2> HIDE DEF slots
  <2> QED
    BY <1>2, <1>3, <2>1, <2>2 DEF NoTombs
<1>5. slots = t.slots
  <2> HIDE DEF moved
  <2>1. slots = [s \in DOMAIN t.slots |-> t.slots[s]]
    BY <1>4
  <2> HIDE DEF slots
  <2> QED
    BY <1>1, <2>1 DEF SlotMap
<1> HIDE DEF slots, lim, count, tombs, cap
<1>6. top = i
  <2> HIDE DEF moved
  <2>1. {i} \cup {Index(t.slots[s].key) : s \in moved} = {i, i}
    BY <1>4
  <2>2. Max({i, i}) = i
    BY MaxTwo
  <2> QED
    BY <2>1, <2>2
<1> HIDE DEF moved, top
<1>7. arr = [j \in 1 .. i |-> IF j < i THEN t.arr[j] ELSE v]
  <2> SUFFICES ASSUME NEW j \in 1 .. i
               PROVE  (IF j < i THEN t.arr[j] ELSE IF j = i THEN v
                       ELSE IF at(j) # {} THEN t.slots[Max(at(j))].val ELSE Nil)
                      = IF j < i THEN t.arr[j] ELSE v
    BY <1>6
  <2> QED
    OBVIOUS
<1> HIDE DEF arr
<1>8. Len(u.arr) = i
  <2>1. DOMAIN u.arr = 1 .. i
    BY <1>3, <1>7
  <2>2. TabOK(u)
    BY GrowKeeps
  <2>3. u.arr \in Seq(Field)
    BY <2>2 DEF TabOK, ArrayOK
  <2> QED
    BY <2>1, <2>3, LenProperties
<1> QED
  BY <1>1, <1>3, <1>5, <1>7, <1>8

LEMMA GrowUpdates ==
    ASSUME KeysTell, NEW t, TabOK(t), KeyedOK(t), NEW k \in Key, NEW v \in Field,
           Index(k) = Len(t.arr) + 1, Index(k) \in 1 .. MaxIndex, Index(k) \notin 1 .. t.cap,
           NEW u, u = Grow(t, Index(k), v), NoTombs(u.slots, t.size)
    PROVE  Updated(t, u, k, v)
<1> DEFINE i == Index(k)
           n == Len(t.arr)
<1>1. n \in Nat /\ i = n + 1 /\ i = Lua[k] /\ i \in 1 .. MaxIndex
  BY DEF TabOK, ArrayOK, Index
<1>2. TabOK(u) /\ KeyedOK(u)
  BY GrowKeeps, GrowKeyed
<1>3. /\ u.slots = t.slots /\ Len(u.arr) = i /\ u.arr[i] = v
      /\ \A j \in 1 .. n : u.arr[j] = t.arr[j]
  BY GrowIs
<1> HIDE DEF i
<1>4. ASSUME NEW l PROVE Content(u, l) = IF l = Lua[k] THEN v ELSE Content(t, l)
  <2>1. CASE l = i
    <3>1. l \in 1 .. Len(u.arr)
      BY <1>1, <1>3, <2>1
    <3> QED
      BY <1>1, <1>2, <1>3, <2>1, <3>1, Holds DEF ArrayHolds
  <2>2. CASE l # i /\ l \in 1 .. n
    <3>1. l \in 1 .. Len(u.arr)
      BY <1>1, <1>3, <2>2
    <3>2. Content(u, l) = u.arr[l] /\ Content(t, l) = t.arr[l]
      BY <1>2, <2>2, <3>1, Holds DEF ArrayHolds
    <3> QED
      BY <1>1, <1>3, <2>2, <3>2
  <2>3. CASE l # i /\ l \notin 1 .. n
    <3>1. l \notin 1 .. Len(u.arr)
      BY <1>1, <1>3, <2>3
    <3>2. CASE \E s \in Live(t.slots) : Lua[t.slots[s].key] = l
      <4>1. PICK s \in Live(t.slots) : Lua[t.slots[s].key] = l
        BY <3>2
      <4>2. Content(t, Lua[t.slots[s].key]) = t.slots[s].val
        BY Holds DEF HashHolds
      <4>3. Content(u, Lua[u.slots[s].key]) = u.slots[s].val
        BY <1>2, <1>3, Holds DEF HashHolds
      <4> QED
        BY <1>1, <1>3, <2>3, <4>1, <4>2, <4>3
    <3>3. CASE ~\E s \in Live(t.slots) : Lua[t.slots[s].key] = l
      <4>1. Absent(t, l) /\ Absent(u, l)
        BY <1>3, <2>3, <3>1, <3>3 DEF Absent
      <4> QED
        BY <1>1, <1>2, <2>3, <4>1, Holds
    <3> QED
      BY <3>2, <3>3
  <2> QED
    BY <2>1, <2>2, <2>3
<1> QED
  BY <1>4 DEF Updated

(* A store changes the field it names and no other. *)
LEMMA SettableUpdates ==
    ASSUME KeysTell, NEW t, TabOK(t), KeyedOK(t), NEW k \in Key, NEW v \in Field,
           NEW u, u = Settable(t, k, v), NoTombs(u.slots, u.size)
    PROVE  Updated(t, u, k, v)
<1> DEFINE i == Index(k)
<1>1. i \in 1 .. MaxIndex \/ i = 0
  BY DEF Index
<1>2. Len(t.arr) \in Nat /\ t.cap \in Nat /\ MaxIndex \in Nat
  BY SizeAssumption DEF TabOK, ArrayOK, SizeAssumption
<1>u. TabOK(u) /\ KeyedOK(u)
  BY SettableKeeps, SettableKeyed
<1> HIDE DEF i
<1>3. CASE i \in 1 .. t.cap
  <2>1. u = WriteArray(t, i, v)
    BY <1>3 DEF Settable, i
  <2> QED
    BY <1>3, <1>u, <2>1, WriteArrayUpdates DEF i
<1>4. CASE i \notin 1 .. t.cap /\ i = Len(t.arr) + 1
  <2>1. u = Grow(t, i, v)
    BY <1>4 DEF Settable, i
  <2>2. i \in 1 .. MaxIndex
    BY <1>1, <1>2, <1>4
  <2>3. u.size = t.size
    BY <1>4, <2>1, <2>2, GrowKeeps DEF KeysStay
  <2>4. NoTombs(u.slots, t.size)
    BY <2>3
  <2> QED
    BY <1>4, <2>1, <2>2, <2>4, GrowUpdates DEF i
<1>5. CASE i \notin 1 .. t.cap /\ i # Len(t.arr) + 1 /\ v = Nil
  <2>1. u = Delete(t, k)
    BY <1>5 DEF Settable, i
  <2> QED
    BY <1>5, <2>1, DeleteUpdates DEF i
<1>6. CASE i \notin 1 .. t.cap /\ i # Len(t.arr) + 1 /\ v # Nil
  <2> DEFINE w == Roomy(t)
  <2>1. u = Insert(w, k, v)
    BY <1>6 DEF Settable, i
  <2>2. TabOK(w) /\ HasRoom(w) /\ KeyedOK(w) /\ w.cap = t.cap /\ v \in Value
    BY <1>6, RoomyKeeps, RoomyKeyed DEF Field
  <2>3. SameFields(t, w)
    BY RoomyFields
  <2> HIDE DEF w
  <2>4. Updated(w, u, k, v)
    BY <1>6, <2>1, <2>2, InsertUpdates DEF i
  <2>5. \A l : Content(w, l) = Content(t, l)
    BY <2>2, <2>3, SameContent
  <2> QED
    BY <2>4, <2>5 DEF Updated
<1> QED
  BY <1>3, <1>4, <1>5, <1>6

(* No key leaves its place, and fields are at most cleared. *)
KeysStand(t, u) ==
    /\ Len(u.arr) = Len(t.arr) /\ u.size = t.size
    /\ \A l \in 1 .. Len(t.arr) : u.arr[l] # Nil => t.arr[l] # Nil
    /\ \A s \in 0 .. t.size - 1 : /\ u.slots[s].key = t.slots[s].key
                                  /\ u.slots[s].val # Nil => t.slots[s].val # Nil

LEMMA EraseStands ==
    ASSUME KeysTell, NEW t, TabOK(t), KeyedOK(t), NEW k \in Key, Content(t, Lua[k]) # Nil,
           NEW u, u = Settable(t, k, Nil), NoTombs(u.slots, u.size)
    PROVE  KeysStand(t, u)
<1> DEFINE i == Index(k)
           n == Len(t.arr)
<1>1. (i \in 1 .. MaxIndex /\ i = Lua[k]) \/ i = 0
  BY DEF Index
<1>2. /\ n \in Nat /\ t.cap \in Nat /\ n <= t.cap /\ MaxIndex \in Nat /\ t = Record(t)
      /\ t.size \in Nat /\ t.slots \in SlotMap(t.size)
  BY SizeAssumption DEF TabOK, ArrayOK, HashOK, SizeAssumption
<1>u. TabOK(u) /\ KeyedOK(u) /\ Nil \in Field
  BY SettableKeeps, SettableKeyed DEF Field
<1>w. \/ Lua[k] \in 1 .. n /\ t.arr[Lua[k]] # Nil
      \/ \E s \in Live(t.slots) : Lua[t.slots[s].key] = Lua[k]
  BY FieldWhere
<1> HIDE DEF i
<1>3. CASE i \in 1 .. t.cap
  <2>1. i \in 1 .. n
    BY <1>1, <1>2, <1>3, <1>w, LiveOutside
  <2>2. u = WriteArray(t, i, Nil)
    BY <1>3 DEF Settable, i
  <2> DEFINE m == Max({i, n})
             arr == [j \in 1 .. m |-> IF j = i THEN Nil ELSE IF j <= n THEN t.arr[j] ELSE Nil]
             lim == Hint(t.lim, i, Nil)
  <2>3. u = [t EXCEPT !.arr = arr, !.lim = lim]
    BY <1>2, <2>2 DEF WriteArray
  <2>4. u.arr = arr /\ u.slots = t.slots /\ u.size = t.size
    <3> HIDE DEF arr, lim
    <3> QED
      BY <1>2, <2>3 DEF Record
  <2>5. m = n
    BY <1>2, <2>1, MaxTwo
  <2> HIDE DEF m, n
  <2>6. /\ DOMAIN arr = 1 .. n
        /\ \A j \in 1 .. n : arr[j] = IF j = i THEN Nil ELSE IF j <= n THEN t.arr[j] ELSE Nil
    BY <2>5
  <2> HIDE DEF arr
  <2>7. Len(u.arr) = n
    <3>1. u.arr \in Seq(Field)
      BY <1>u DEF TabOK, ArrayOK
    <3> QED
      BY <1>2, <2>4, <2>6, <3>1, LenProperties
  <2>8. \A l \in 1 .. n : u.arr[l] # Nil => t.arr[l] # Nil
    BY <2>4, <2>6
  <2> QED
    BY <2>4, <2>7, <2>8 DEF KeysStand, n
<1>4. CASE i \notin 1 .. t.cap /\ i = n + 1
  <2>1. u = Grow(t, i, Nil)
    BY <1>4 DEF Settable, i
  <2>2. i \in 1 .. MaxIndex /\ i = Lua[k]
    BY <1>1, <1>2, <1>4
  <2>3. u.size = t.size
    BY <1>4, <1>u, <2>1, <2>2, GrowKeeps DEF KeysStay
  <2>4. NoTombs(u.slots, t.size)
    BY <2>3
  <2>5. u.slots = t.slots /\ Len(u.arr) = i
    BY <1>4, <1>u, <2>1, <2>2, <2>4, GrowIs
  <2>6. Lua[k] \notin 1 .. n
    BY <1>2, <1>4, <2>2
  <2>7. PICK s \in Live(u.slots) : Lua[u.slots[s].key] = Lua[k]
    BY <1>w, <2>5, <2>6
  <2>8. Lua[k] \notin 1 .. Len(u.arr)
    BY <1>u, <2>7, LiveOutside
  <2> QED
    BY <1>2, <2>2, <2>5, <2>8
<1>5. CASE i \notin 1 .. t.cap /\ i # n + 1
  <2>1. u = Delete(t, k)
    BY <1>5 DEF Settable, i
  <2>2. CASE ~(Found(t, k) /\ t.slots[At(t, k)].val # Nil)
    BY <2>1, <2>2 DEF Delete, KeysStand
  <2>3. CASE Found(t, k) /\ t.slots[At(t, k)].val # Nil
    <3> DEFINE s == At(t, k)
               e == [t.slots[s] EXCEPT !.val = Nil]
               new == [t.slots EXCEPT ![s] = e]
    <3>1. s \in 0 .. t.size - 1
      BY <2>3, FoundIs DEF TabOK
    <3>2. u = [t EXCEPT !.slots[s].val = Nil, !.count = @ - 1, !.tombs = @ + 1]
      BY <2>1, <2>3 DEF Delete
    <3> HIDE DEF s
    <3>3. t.slots[s] \in Slot
      BY <1>2, <3>1 DEF SlotMap
    <3>4. e.key = t.slots[s].key /\ e.val = Nil
      BY <3>3 DEF Slot
    <3>5. u.size = t.size /\ u.arr = t.arr /\ u.slots = new
      <4>1. u = [t EXCEPT !.slots = new, !.count = t.count - 1, !.tombs = t.tombs + 1]
        BY <1>2, <3>2 DEF Record
      <4> HIDE DEF new, e
      <4> QED
        BY <1>2, <4>1 DEF Record
    <3> HIDE DEF e
    <3>6. DOMAIN t.slots = 0 .. t.size - 1
      BY <1>2, SlotsOf
    <3>7. \A r \in 0 .. t.size - 1 : u.slots[r] = IF r = s THEN e ELSE t.slots[r]
      BY <3>1, <3>5, <3>6
    <3>8. \A r \in 0 .. t.size - 1 : /\ u.slots[r].key = t.slots[r].key
                                     /\ u.slots[r].val # Nil => t.slots[r].val # Nil
      BY <3>4, <3>7
    <3> QED
      BY <3>5, <3>8 DEF KeysStand
  <2> QED
    BY <2>2, <2>3
<1> QED
  BY <1>3, <1>4, <1>5

(* A traversal that stands at k has returned the keys of S: those before k   *)
(* in the order of the array part and then of the slots, and k.              *)
VisitedUpTo(t, k, S) ==
    /\ k \in Key
    /\ \/ /\ Cut[k] \in 1 .. Len(t.arr)
          /\ \A l \in 1 .. Len(t.arr) : t.arr[l] # Nil => (l \in S <=> l <= Cut[k])
          /\ \A s \in Live(t.slots) : Lua[t.slots[s].key] \notin S
       \/ /\ Cut[k] \notin 1 .. Len(t.arr)
          /\ \A l \in 1 .. Len(t.arr) : t.arr[l] # Nil => l \in S
          /\ \E c \in 0 .. t.size - 1 :
                /\ t.slots[c].key = k
                /\ \A s \in Live(t.slots) : Lua[t.slots[s].key] \in S <=> s <= c

LEMMA VisitedKept ==
    ASSUME NEW t, TabOK(t), NEW u, TabOK(u), KeysStand(t, u), NEW k, NEW S, VisitedUpTo(t, k, S)
    PROVE  VisitedUpTo(u, k, S)
<1>1. /\ t.slots \in SlotMap(t.size) /\ t.size \in Nat /\ u.slots \in SlotMap(t.size)
      /\ Len(u.arr) = Len(t.arr) /\ u.size = t.size
  BY DEF TabOK, HashOK, KeysStand
<1>2. DOMAIN t.slots = 0 .. t.size - 1 /\ DOMAIN u.slots = 0 .. t.size - 1
  BY <1>1, SlotsOf
<1>3. \A s \in Live(u.slots) : s \in Live(t.slots) /\ u.slots[s].key = t.slots[s].key
  BY <1>2 DEF Live, KeysStand
<1>4. \A l \in 1 .. Len(t.arr) : u.arr[l] # Nil => t.arr[l] # Nil
  BY DEF KeysStand
<1>5. CASE Cut[k] \in 1 .. Len(t.arr)
  BY <1>1, <1>3, <1>4, <1>5 DEF VisitedUpTo
<1>6. CASE Cut[k] \notin 1 .. Len(t.arr)
  <2>1. PICK c \in 0 .. t.size - 1 :
           t.slots[c].key = k /\ \A s \in Live(t.slots) : Lua[t.slots[s].key] \in S <=> s <= c
    BY <1>6 DEF VisitedUpTo
  <2>2. u.slots[c].key = k
    BY <2>1 DEF KeysStand
  <2>3. \A s \in Live(u.slots) : Lua[u.slots[s].key] \in S <=> s <= c
    BY <1>3, <2>1
  <2>4. \A l \in 1 .. Len(t.arr) : t.arr[l] # Nil => l \in S
    BY <1>6 DEF VisitedUpTo
  <2> QED
    BY <1>1, <1>4, <1>6, <2>2, <2>3, <2>4 DEF VisitedUpTo
<1> QED
  BY <1>5, <1>6

(* A number that next takes for an index is that index (1.5 is not 1). *)
CutTells == \A k \in Key : Cut[k] \in Nat \ {0} => Lua[k] = Cut[k]

SeenAt(t, c, s) ==
    /\ s \in Seq(LuaKey)
    /\ c = Nil => s = <<>>
    /\ c # Nil => VisitedUpTo(t, c, Range(s))

(* The traversal goes on to a field it has not seen, or has seen them all. *)
Moves ==
    \/ \E l \in LuaKey : /\ Content(tab, l) # Nil /\ l \notin Range(seen)
                         /\ cursor' # Nil /\ seen' = Append(seen, l)
                         /\ VisitedUpTo(tab, cursor', Range(seen) \cup {l})
    \/ /\ \A l : Content(tab, l) # Nil => l \in Range(seen)
       /\ cursor' = Nil /\ seen' = <<>>

LEMMA HashMoves ==
    ASSUME KeysTell, CutTells, TabOK(tab), KeyedOK(tab), NEW s \in Nat, FromHash(s),
           \A l \in 1 .. Len(tab.arr) : tab.arr[l] # Nil => l \in Range(seen),
           \A r \in Live(tab.slots) : Lua[tab.slots[r].key] \in Range(seen) <=> r < s
    PROVE  Moves
<1> DEFINE S == Range(seen)
           n == Len(tab.arr)
<1>1. /\ tab.slots \in SlotMap(tab.size) /\ tab.size \in Nat /\ n \in Nat /\ n <= tab.cap
      /\ tab.cap \in Nat /\ OneSlot(tab.slots, tab.size)
  BY DEF TabOK, HashOK, ArrayOK, KeyedOK
<1>2. DOMAIN tab.slots = 0 .. tab.size - 1
  BY <1>1, SlotsOf
<1>3. HashFrom(s) = {j \in Live(tab.slots) : j >= s}
  BY DEF HashFrom, Live
<1>4. Live(tab.slots) \in SUBSET (0 .. tab.size - 1)
  BY <1>2 DEF Live
<1> HIDE DEF S, n
<1>5. CASE HashFrom(s) = {}
  <2>1. ASSUME NEW l, Content(tab, l) # Nil PROVE l \in S
    <3>1. CASE l \in 1 .. n /\ tab.arr[l] # Nil
      BY <3>1 DEF S, n
    <3>2. CASE \E r \in Live(tab.slots) : Lua[tab.slots[r].key] = l
      <4>1. PICK r \in Live(tab.slots) : Lua[tab.slots[r].key] = l
        BY <3>2
      <4>2. r < s
        BY <1>3, <1>4, <1>5
      <4> QED
        BY <4>1, <4>2 DEF S
    <3> QED
      BY <2>1, <3>1, <3>2, FieldWhere DEF n
  <2>2. cursor' = Nil /\ seen' = <<>>
    BY <1>5 DEF FromHash, Ends
  <2> QED
    BY <2>1, <2>2 DEF Moves, S
<1>6. CASE HashFrom(s) # {}
  <2> DEFINE r == Min(HashFrom(s))
             k == tab.slots[r].key
  <2>1. HashFrom(s) \in SUBSET Nat
    BY <1>3, <1>4
  <2>2. r \in HashFrom(s) /\ \A q \in HashFrom(s) : r <= q
    BY <1>6, <2>1, MinIs
  <2>3. cursor' = k /\ seen' = Append(seen, Lua[k])
    BY <1>6 DEF FromHash, Returns
  <2> HIDE DEF r
  <2>4. r \in Live(tab.slots) /\ r >= s /\ r \in 0 .. tab.size - 1
    BY <1>3, <1>4, <2>2
  <2>5. k \in Key /\ k \notin Free /\ Lua[k] \in LuaKey /\ Lua[k] \notin 1 .. n /\ k # Nil
    BY <2>4, LiveOutside, KeyAssumption DEF n, KeyAssumption
  <2>6. Content(tab, Lua[k]) # Nil
    <3>1. Content(tab, Lua[tab.slots[r].key]) = tab.slots[r].val
      BY <2>4, Holds DEF HashHolds
    <3> QED
      BY <2>4, <3>1 DEF Live
  <2>7. Lua[k] \notin S
    BY <2>4 DEF S
  <2>8. Cut[k] \notin 1 .. n
    <3> SUFFICES ASSUME Cut[k] \in 1 .. n PROVE FALSE
      OBVIOUS
    <3>1. Cut[k] \in Nat \ {0}
      BY <1>1
    <3> HIDE DEF k
    <3>2. Lua[k] = Cut[k]
      BY <2>5, <3>1 DEF CutTells
    <3> QED
      BY <2>5, <3>2
  <2>9. ASSUME NEW q \in Live(tab.slots)
        PROVE  Lua[tab.slots[q].key] \in S \cup {Lua[k]} <=> q <= r
    <3>1. q \in 0 .. tab.size - 1 /\ tab.slots[q].key \notin Free
      BY <1>4 DEF Live
    <3>2. CASE q < s
      BY <2>4, <3>1, <3>2 DEF S
    <3>3. CASE q >= s
      <4>1. r <= q
        BY <1>3, <2>2, <3>3
      <4>2. Lua[tab.slots[q].key] \notin S
        BY <3>1, <3>3 DEF S
      <4>3. Lua[tab.slots[q].key] = Lua[k] => q = r
        BY <1>1, <2>4, <2>5, <3>1 DEF OneSlot
      <4> HIDE DEF k
      <4>4. q = r => Lua[tab.slots[q].key] = Lua[k]
        BY DEF k
      <4> QED
        BY <2>4, <3>1, <4>1, <4>2, <4>3, <4>4
    <3> QED
      BY <2>4, <3>1, <3>2, <3>3
  <2> HIDE DEF k
  <2>10. VisitedUpTo(tab, k, S \cup {Lua[k]})
    <3>1. \A l \in 1 .. n : tab.arr[l] # Nil => l \in S \cup {Lua[k]}
      BY DEF S, n
    <3>2. tab.slots[r].key = k
      BY DEF k
    <3> QED
      BY <2>4, <2>5, <2>8, <2>9, <3>1, <3>2 DEF VisitedUpTo, n
  <2> QED
    BY <2>3, <2>5, <2>6, <2>7, <2>10 DEF Moves, S
<1> QED
  BY <1>5, <1>6

LEMMA ArrayMoves ==
    ASSUME KeysTell, CutTells, TabOK(tab), KeyedOK(tab), NEW i \in Nat, FromArray(i),
           \A l \in 1 .. Len(tab.arr) : tab.arr[l] # Nil => (l \in Range(seen) <=> l <= i),
           \A r \in Live(tab.slots) : Lua[tab.slots[r].key] \notin Range(seen)
    PROVE  Moves
<1> DEFINE S == Range(seen)
           n == Len(tab.arr)
<1>1. /\ n \in Nat /\ n <= tab.cap /\ tab.cap \in Nat /\ MaxIndex \in Nat
      /\ \A l \in 1 .. n : tab.arr[l] # Nil => l <= MaxIndex
      /\ tab.slots \in SlotMap(tab.size) /\ tab.size \in Nat
  BY SizeAssumption DEF TabOK, HashOK, ArrayOK, SizeAssumption
<1>2. ArrayAfter(i) = {j \in 1 .. n : j > i /\ tab.arr[j] # Nil}
  BY <1>1 DEF ArrayAfter
<1>3. CASE ArrayAfter(i) = {}
  <2>1. FromHash(0)
    BY <1>3 DEF FromArray
  <2>2. \A l \in 1 .. n : tab.arr[l] # Nil => l \in S
    BY <1>1, <1>2, <1>3
  <2>3. ASSUME NEW r \in Live(tab.slots)
        PROVE  Lua[tab.slots[r].key] \in S <=> r < 0
    <3>1. r \in 0 .. tab.size - 1
      BY <1>1, SlotsOf DEF Live
    <3> QED
      BY <1>1, <3>1
  <2> QED
    BY <2>1, <2>2, <2>3, HashMoves
<1>4. CASE ArrayAfter(i) # {}
  <2> DEFINE j == Min(ArrayAfter(i))
  <2>1. ArrayAfter(i) \in SUBSET Nat
    BY <1>1, <1>2
  <2>2. j \in ArrayAfter(i) /\ \A q \in ArrayAfter(i) : j <= q
    BY <1>4, <2>1, MinIs
  <2>3. cursor' = j /\ seen' = Append(seen, Lua[j])
    BY <1>4 DEF FromArray, Returns
  <2> HIDE DEF j
  <2>4. j \in 1 .. n /\ j > i /\ tab.arr[j] # Nil
    BY <1>2, <2>2
  <2>5. j \in 1 .. MaxIndex
    BY <1>1, <2>4
  <2>6. j \in Key /\ Lua[j] = j /\ Cut[j] = j /\ j # Nil /\ j \in LuaKey
    BY <2>5, KeyAssumption DEF KeyAssumption
  <2> HIDE DEF n, S
  <2>7. Content(tab, j) # Nil /\ j \notin S
    <3>1. Content(tab, j) = tab.arr[j]
      BY <2>4, Holds DEF ArrayHolds, n
    <3>2. j \in S <=> j <= i
      BY <2>4 DEF S, n
    <3> QED
      BY <1>1, <2>4, <3>1, <3>2
  <2>8. ASSUME NEW l \in 1 .. n, tab.arr[l] # Nil PROVE l \in S \cup {j} <=> l <= j
    <3>1. l \in S <=> l <= i
      BY <2>8 DEF S, n
    <3>2. l > i => j <= l
      BY <1>2, <2>2, <2>8
    <3> QED
      BY <1>1, <2>4, <3>1, <3>2
  <2>9. \A r \in Live(tab.slots) : Lua[tab.slots[r].key] \notin S \cup {j}
    BY <2>4, LiveOutside DEF S, n
  <2>10. VisitedUpTo(tab, j, S \cup {j})
    BY <2>4, <2>6, <2>8, <2>9 DEF VisitedUpTo, n
  <2> QED
    BY <2>3, <2>6, <2>7, <2>10 DEF Moves, S
<1> QED
  BY <1>3, <1>4

LEMMA NextKeyMoves ==
    ASSUME KeysTell, CutTells, TabOK(tab), KeyedOK(tab), SeenAt(tab, cursor, seen), NextKey
    PROVE  Moves
<1>1. CASE ~Walking
  <2>1. FromArray(0)
    BY <1>1 DEF NextKey
  <2>2. Range(seen) = {}
    BY <1>1 DEF SeenAt, Walking, Range
  <2>3. \A l \in 1 .. Len(tab.arr) : ~(l <= 0)
    BY DEF TabOK, ArrayOK
  <2> QED
    BY <2>1, <2>2, <2>3, ArrayMoves
<1>2. CASE Walking /\ Cut[cursor] \in 1 .. Len(tab.arr)
  <2>1. FromArray(Cut[cursor]) /\ Cut[cursor] \in Nat
    BY <1>2 DEF NextKey, TabOK, ArrayOK
  <2>2. VisitedUpTo(tab, cursor, Range(seen))
    BY <1>2 DEF SeenAt, Walking
  <2> QED
    BY <1>2, <2>1, <2>2, ArrayMoves DEF VisitedUpTo
<1>3. CASE Walking /\ Cut[cursor] \notin 1 .. Len(tab.arr)
  <2>1. VisitedUpTo(tab, cursor, Range(seen))
    BY <1>3 DEF SeenAt, Walking
  <2>2. PICK c \in 0 .. tab.size - 1 :
           /\ tab.slots[c].key = cursor
           /\ \A s \in Live(tab.slots) : Lua[tab.slots[s].key] \in Range(seen) <=> s <= c
    BY <1>3, <2>1 DEF VisitedUpTo
  <2>3. cursor \in Key /\ cursor \notin Free
    BY <2>1, KeyAssumption DEF VisitedUpTo, KeyAssumption, Free
  <2>4. Found(tab, cursor) /\ At(tab, cursor) = c
    <3>1. Matches(tab.slots[c].key, cursor)
      BY <2>2, <2>3 DEF Matches
    <3>2. OneSlot(tab.slots, tab.size)
      BY DEF KeyedOK
    <3> QED
      BY <2>3, <3>1, <3>2, FoundWhere
  <2>5. FromHash(c + 1)
    BY <1>3, <2>4 DEF NextKey
  <2>6. tab.size \in Nat /\ tab.slots \in SlotMap(tab.size)
    BY DEF TabOK, HashOK
  <2>7. ASSUME NEW s \in Live(tab.slots)
        PROVE  Lua[tab.slots[s].key] \in Range(seen) <=> s < c + 1
    <3>1. s \in 0 .. tab.size - 1
      BY <2>6, SlotsOf DEF Live
    <3> QED
      BY <2>2, <2>6, <3>1
  <2>8. c + 1 \in Nat
    BY <2>6
  <2>9. \A l \in 1 .. Len(tab.arr) : tab.arr[l] # Nil => l \in Range(seen)
    BY <1>3, <2>1 DEF VisitedUpTo
  <2> QED
    BY <2>5, <2>7, <2>8, <2>9, HashMoves
<1> QED
  BY <1>1, <1>2, <1>3

Fields(t) == [l \in LuaKey |-> Content(t, l)]

LEMMA RangeAppend ==
    ASSUME NEW S, NEW s \in Seq(S), NEW x \in S
    PROVE  Range(Append(s, x)) = Range(s) \cup {x} /\ Append(s, x) \in Seq(S)
<1>1. /\ Append(s, x) \in Seq(S) /\ Len(s) \in Nat
      /\ DOMAIN s = 1 .. Len(s) /\ DOMAIN Append(s, x) = 1 .. Len(s) + 1
      /\ Append(s, x)[Len(s) + 1] = x
      /\ \A i \in 1 .. Len(s) : Append(s, x)[i] = s[i]
  BY AppendProperties, LenProperties
<1>2. ASSUME NEW y \in Range(Append(s, x)) PROVE y \in Range(s) \cup {x}
  <2>1. PICK i \in 1 .. Len(s) + 1 : y = Append(s, x)[i]
    BY <1>1, <1>2 DEF Range
  <2>2. CASE i = Len(s) + 1
    BY <1>1, <2>1, <2>2
  <2>3. CASE i # Len(s) + 1
    <3>1. i \in 1 .. Len(s)
      BY <1>1, <2>3
    <3> QED
      BY <1>1, <2>1, <3>1 DEF Range
  <2> QED
    BY <2>2, <2>3
<1>3. ASSUME NEW y \in Range(s) \cup {x} PROVE y \in Range(Append(s, x))
  <2>1. CASE y = x
    <3>1. Len(s) + 1 \in 1 .. Len(s) + 1
      BY <1>1
    <3> QED
      BY <1>1, <2>1, <3>1 DEF Range
  <2>2. CASE y \in Range(s)
    <3>1. PICK i \in 1 .. Len(s) : y = s[i]
      BY <1>1, <2>2 DEF Range
    <3>2. i \in 1 .. Len(s) + 1 /\ y = Append(s, x)[i]
      BY <1>1, <3>1
    <3> QED
      BY <1>1, <3>2 DEF Range
  <2> QED
    BY <1>3, <2>1, <2>2
<1> QED
  BY <1>1, <1>2, <1>3

LEMMA SameIsFields ==
    ASSUME KeysTell, NEW t, TabOK(t), KeyedOK(t), NEW u, TabOK(u), KeyedOK(u), Same(t, u)
    PROVE  (\A l : Content(u, l) = Content(t, l)) /\ KeysStand(t, u)
<1>1. SameFields(t, u)
  BY DEF Same, SameFields
<1> QED
  BY <1>1, SameContent DEF Same, KeysStand

LEMMA StoreRefines ==
    ASSUME KeysTell, ~Updates, TabOK(tab), KeyedOK(tab), SeenAt(tab, cursor, seen),
           NEW k \in Key, NEW v \in Field, Assigns(k, v),
           NEW w, TabOK(w), KeyedOK(w), Same(tab, w),
           NEW u, u = Settable(w, k, v), NoTombs(u.slots, u.size)
    PROVE  /\ SeenAt(u, cursor', seen')
           /\ Fields(u) = [Fields(tab) EXCEPT ![Lua[k]] = v]
           /\ cursor' # Nil <=> (cursor # Nil /\ Fields(tab)[Lua[k]] # Nil)
           /\ seen' = IF cursor' # Nil THEN seen ELSE <<>>
<1>1. (\A l : Content(w, l) = Content(tab, l)) /\ KeysStand(tab, w)
  BY SameIsFields
<1>2. TabOK(u)
  BY SettableKeeps
<1>3. \A l : Content(u, l) = IF l = Lua[k] THEN v ELSE Content(tab, l)
  BY <1>1, SettableUpdates DEF Updated
<1>4. Lua[k] \in LuaKey
  BY KeyAssumption DEF KeyAssumption
<1>5. Fields(u) = [Fields(tab) EXCEPT ![Lua[k]] = v]
  BY <1>3, <1>4 DEF Fields
<1>6. Fields(tab)[Lua[k]] = Content(tab, Lua[k])
  BY <1>4 DEF Fields
<1>7. CASE cursor # Nil /\ Content(tab, Lua[k]) # Nil
  <2>1. cursor' = cursor /\ seen' = seen /\ v = Nil
    BY <1>7 DEF Assigns, Walking
  <2>2. KeysStand(w, u)
    BY <1>1, <1>7, <2>1, EraseStands
  <2>3. VisitedUpTo(tab, cursor, Range(seen)) /\ seen \in Seq(LuaKey)
    BY <1>7 DEF SeenAt
  <2>4. VisitedUpTo(u, cursor, Range(seen))
    BY <1>1, <1>2, <2>2, <2>3, VisitedKept
  <2> QED
    BY <1>5, <1>6, <1>7, <2>1, <2>3, <2>4 DEF SeenAt
<1>8. CASE ~(cursor # Nil /\ Content(tab, Lua[k]) # Nil)
  <2>1. cursor' = Nil /\ seen' = <<>>
    BY <1>8 DEF Assigns, Walking
  <2>2. SeenAt(u, Nil, <<>>)
    BY DEF SeenAt
  <2> QED
    BY <1>5, <1>6, <1>8, <2>1, <2>2
<1> QED
  BY <1>7, <1>8

(* The state of the dictionary after a step to a table u. *)
LEMMA FieldsNext ==
    ASSUME NEW u, tab' = u
    PROVE  [l \in LuaKey |-> Content(tab, l)]' = Fields(u)
  BY DEF Fields, Content

LEMMA SetRefines ==
    ASSUME KeysTell, ~Updates, TabOK(tab), KeyedOK(tab), SeenAt(tab, cursor, seen),
           NEW k \in Key, NEW v \in Field, Set(k, v) \/ RawSet(k, v),
           NEW u, tab' = u, NoTombs(u.slots, u.size)
    PROVE  SeenAt(u, cursor', seen') /\ Map!Set(Lua[k], v)
<1>1. PICK w : TabOK(w) /\ KeyedOK(w) /\ Same(tab, w) /\ u = Settable(w, k, v)
  <2>1. CASE RawSet(k, v) \/ Index(k) \in 1 .. tab.cap
    <3>1. u = Settable(tab, k, v)
      BY <2>1 DEF Set, RawSet, Settable
    <3> QED
      BY <3>1 DEF Same
  <2>2. CASE Set(k, v) /\ Index(k) \notin 1 .. tab.cap
    <3>1. u = Settable(Looked(tab, k), k, v)
      BY <2>2 DEF Set
    <3>2. /\ TabOK(Looked(tab, k)) /\ KeyedOK(Looked(tab, k)) /\ Same(tab, Looked(tab, k))
      BY LookedKeeps, LookedKeyed DEF Same
    <3> QED
      BY <3>1, <3>2
  <2> QED
    BY <2>1, <2>2
<1>2. Assigns(k, v)
  BY DEF Set, RawSet
<1>3. /\ SeenAt(u, cursor', seen')
      /\ Fields(u) = [Fields(tab) EXCEPT ![Lua[k]] = v]
      /\ cursor' # Nil <=> (cursor # Nil /\ Fields(tab)[Lua[k]] # Nil)
      /\ seen' = IF cursor' # Nil THEN seen ELSE <<>>
  BY <1>1, <1>2, StoreRefines
<1>4. Map!Set(Lua[k], v)
  <2>1. [l \in LuaKey |-> Content(tab, l)]' = Fields(u)
    BY FieldsNext
  <2>2. [l \in LuaKey |-> Content(tab, l)] = Fields(tab)
    BY DEF Fields
  <2>3. [l \in LuaKey |-> Content(tab, l)]' =
           [[l \in LuaKey |-> Content(tab, l)] EXCEPT ![Lua[k]] = v]
    BY <1>3, <2>1, <2>2
  <2>4. Walking' <=> (Walking /\ [l \in LuaKey |-> Content(tab, l)][Lua[k]] # Nil)
    BY <1>3, <2>2 DEF Walking
  <2>5. seen' = IF Walking' THEN seen ELSE <<>>
    BY <1>3 DEF Walking
  <2>6. wrote' = <<"store", Lua[k], v>>
    BY <1>2 DEF Assigns
  <2> QED
    BY <2>3, <2>4, <2>5, <2>6 DEF Map!Set, Walking
<1> QED
  BY <1>3, <1>4

LEMMA NextKeyRefines ==
    ASSUME KeysTell, CutTells, TabOK(tab), KeyedOK(tab), SeenAt(tab, cursor, seen), NextKey
    PROVE  SeenAt(tab, cursor', seen') /\ (Map!EndOfWalk \/ \E l \in LuaKey : Map!Visit(l))
<1>1. tab' = tab /\ wrote' = <<>>
  BY DEF NextKey
<1>2. Moves
  BY NextKeyMoves
<1>3. UNCHANGED [l \in LuaKey |-> Content(tab, l)]
  BY <1>1 DEF Content
<1>4. seen \in Seq(LuaKey)
  BY DEF SeenAt
<1>5. CASE /\ \A l : Content(tab, l) # Nil => l \in Range(seen)
           /\ cursor' = Nil /\ seen' = <<>>
  <2>1. Map!EndOfWalk
    BY <1>1, <1>3, <1>5 DEF Map!EndOfWalk, Map!Present, Map!Range, Range, Walking
  <2> QED
    BY <1>5, <2>1 DEF SeenAt
<1>6. ASSUME NEW l \in LuaKey, Content(tab, l) # Nil, l \notin Range(seen),
             cursor' # Nil, seen' = Append(seen, l),
             VisitedUpTo(tab, cursor', Range(seen) \cup {l})
      PROVE  SeenAt(tab, cursor', seen') /\ Map!Visit(l)
  <2>1. Range(seen') = Range(seen) \cup {l} /\ seen' \in Seq(LuaKey)
    BY <1>4, <1>6, RangeAppend
  <2>2. SeenAt(tab, cursor', seen')
    BY <1>6, <2>1 DEF SeenAt
  <2>3. Map!Visit(l)
    BY <1>1, <1>3, <1>6 DEF Map!Visit, Map!Present, Map!Range, Range, Walking
  <2> QED
    BY <2>2, <2>3
<1> QED
  BY <1>2, <1>5, <1>6 DEF Moves

LEMMA RecycleRefines ==
    ASSUME KeysTell, TabOK(tab), NEW n \in Nat, Recycle(n), NEW u, tab' = u, TabOK(u), KeyedOK(u)
    PROVE  SeenAt(u, cursor', seen') /\ Map!Renew
<1> DEFINE arr == [j \in 1 .. n |-> Nil]
           cap == IF n = 0 /\ tab.small THEN tab.cap ELSE n
           small == IF n = 0 THEN tab.small ELSE n <= 2
           slots == [s \in DOMAIN tab.slots |-> [tab.slots[s] EXCEPT !.key = Empty]]
<1>1. tab = Record(tab) /\ tab.size \in Nat /\ tab.slots \in SlotMap(tab.size)
  BY DEF TabOK, HashOK
<1>2. u.arr = arr /\ u.slots = slots
  <2>1. u = [tab EXCEPT !.arr = arr, !.cap = cap, !.small = small, !.lim = 0,
                        !.slots = slots, !.count = 0, !.tombs = 0, !.cache = NoCache]
    BY DEF Recycle
  <2> HIDE DEF arr, cap, small, slots
  <2> QED
    BY <1>1, <2>1 DEF Record
<1>3. DOMAIN slots = 0 .. tab.size - 1 /\ \A s \in 0 .. tab.size - 1 : slots[s].key = Empty
  <2>1. \A s \in 0 .. tab.size - 1 : tab.slots[s] \in Slot
    BY <1>1 DEF SlotMap
  <2>2. DOMAIN tab.slots = 0 .. tab.size - 1
    BY <1>1, SlotsOf
  <2>3. \A e \in Slot : [e EXCEPT !.key = Empty].key = Empty
    BY DEF Slot
  <2> QED
    BY <2>1, <2>2, <2>3
<1>4. Len(arr) = n /\ \A j \in 1 .. n : arr[j] = Nil
  <2>1. Nil \in Field
    BY DEF Field
  <2>2. arr \in [1 .. n -> Field]
    BY <2>1
  <2>3. \A j \in 1 .. n : arr[j] = Nil
    OBVIOUS
  <2> HIDE DEF arr
  <2> QED
    BY <2>2, <2>3, SeqIs
<1> HIDE DEF arr, cap, small, slots
<1>5. ASSUME NEW l PROVE Content(u, l) = Nil
  <2>1. CASE l \in 1 .. Len(u.arr)
    BY <1>2, <1>4, <2>1, Holds DEF ArrayHolds
  <2>2. CASE l \notin 1 .. Len(u.arr)
    <3>1. Live(u.slots) = {}
      BY <1>2, <1>3 DEF Live, Free
    <3>2. Absent(u, l)
      BY <2>2, <3>1 DEF Absent
    <3> QED
      BY <3>2, Holds
  <2> QED
    BY <2>1, <2>2
<1>6. cursor' = Nil /\ seen' = <<>> /\ wrote' = <<>>
  BY DEF Recycle, Ends
<1>7. Map!Renew
  <2>1. [l \in LuaKey |-> Content(tab, l)]' = [l \in LuaKey |-> Nil]
    BY <1>5, FieldsNext DEF Fields
  <2> QED
    BY <1>6, <2>1 DEF Map!Renew, Walking
<1> QED
  BY <1>6, <1>7 DEF SeenAt

(* A lookup shows in no field, and not in the traversal. *)
LEMMA SameShows ==
    ASSUME KeysTell, TabOK(tab), KeyedOK(tab), SeenAt(tab, cursor, seen),
           NEW u, tab' = u, TabOK(u), KeyedOK(u), Same(tab, u), UNCHANGED <<cursor, seen>>
    PROVE  /\ SeenAt(u, cursor', seen')
           /\ UNCHANGED <<[l \in LuaKey |-> Content(tab, l)], Walking, seen>>
<1>1. (\A l : Content(u, l) = Content(tab, l)) /\ KeysStand(tab, u)
  BY SameIsFields
<1>2. UNCHANGED [l \in LuaKey |-> Content(tab, l)]
  <2>1. [l \in LuaKey |-> Content(tab, l)]' = Fields(u)
    BY FieldsNext
  <2> QED
    BY <1>1, <2>1 DEF Fields
<1>3. SeenAt(u, cursor, seen)
  <2>1. CASE cursor = Nil
    BY <2>1 DEF SeenAt
  <2>2. CASE cursor # Nil
    <3>1. VisitedUpTo(u, cursor, Range(seen))
      BY <1>1, <2>2, VisitedKept DEF SeenAt
    <3> QED
      BY <2>2, <3>1 DEF SeenAt
  <2> QED
    BY <2>1, <2>2
<1> QED
  BY <1>2, <1>3 DEF Walking

(* Every step of the table is one of the dictionary, or none. *)
LEMMA MapStep ==
    ASSUME KeysTell, CutTells, ~Updates, TabIInv, KeyedOK(tab), SeenAt(tab, cursor, seen),
           [Next]_vars, TabIInv', KeyedOK(tab)'
    PROVE  SeenAt(tab, cursor, seen)' /\ [Map!Next]_(Map!vars)
<1> DEFINE u == tab'
           Kept == SeenAt(u, cursor', seen')
<1>1. TabOK(tab) /\ TabOK(u) /\ KeyedOK(u) /\ NoTombs(u.slots, u.size)
  BY DEF TabIInv, TabOK, Record, ArrayOK, HashOK, CountersOK, PathsOK, KeyedOK, NoTombs,
         OneSlot, Outside, Live, CacheTrue, Matches
<1>2. tab' = u
  OBVIOUS
<1> HIDE DEF u
<1>3. ASSUME NEW k \in Key, Get(k) PROVE Kept /\ Map!Read
  <2>1. Same(tab, u) /\ UNCHANGED <<cursor, seen>> /\ wrote' = <<>>
    BY <1>1, <1>2, <1>3, LookedKeeps DEF Get, Same
  <2> QED
    BY <1>1, <1>2, <2>1, SameShows DEF Map!Read
<1>4. ASSUME NEW k \in Key, NEW v \in Value \cup {Nil}, Set(k, v) \/ RawSet(k, v)
      PROVE  Kept /\ \E l \in LuaKey : Map!Set(l, v)
  <2>1. Kept /\ Map!Set(Lua[k], v)
    BY <1>1, <1>2, <1>4, SetRefines DEF Field
  <2>2. Lua[k] \in LuaKey
    BY KeyAssumption DEF KeyAssumption
  <2> QED
    BY <2>1, <2>2
<1>5. ASSUME Length PROVE Kept /\ Map!Read
  <2>1. Same(tab, u)
    BY <1>1, <1>2, <1>5, LengthKeeps
  <2>2. UNCHANGED <<cursor, seen>> /\ wrote' = <<>>
    BY <1>5 DEF Length
  <2> QED
    BY <1>1, <1>2, <2>1, <2>2, SameShows DEF Map!Read
<1>6. ASSUME NextKey PROVE Kept /\ (Map!EndOfWalk \/ \E l \in LuaKey : Map!Visit(l))
  <2>1. u = tab
    BY <1>2, <1>6 DEF NextKey
  <2> QED
    BY <1>1, <1>6, <2>1, NextKeyRefines
<1>7. ASSUME NEW n \in Sizes, Recycle(n) PROVE Kept /\ Map!Renew
  <2>1. n \in Nat
    BY SizeAssumption DEF SizeAssumption
  <2> QED
    BY <1>1, <1>2, <1>7, <2>1, RecycleRefines
<1>8. ASSUME UNCHANGED vars PROVE Kept /\ UNCHANGED Map!vars
  <2>1. u = tab /\ UNCHANGED <<cursor, seen, wrote>>
    BY <1>2, <1>8 DEF vars
  <2> QED
    BY <1>1, <1>2, <2>1, SameShows DEF Same, Map!vars
<1>9. Kept /\ [Map!Next]_(Map!vars)
  BY <1>3, <1>4, <1>5, <1>6, <1>7, <1>8 DEF Next, Map!Next
<1> QED
  BY <1>9 DEF u, SeenAt, VisitedUpTo, Live

LEMMA MapInit ==
    ASSUME KeysTell, Init PROVE SeenAt(tab, cursor, seen) /\ Map!Init
<1>1. TabOK(tab) /\ KeyedOK(tab)
  BY TabInit, KeyedInit DEF TabIInv
<1>2. /\ cursor = Nil /\ seen = <<>> /\ wrote = <<>>
      /\ tab.arr = <<>> /\ tab.slots = [s \in {} |-> Blank]
  BY DEF Init
<1>3. ASSUME NEW l PROVE Content(tab, l) = Nil
  <2>1. Live(tab.slots) = {} /\ Len(tab.arr) = 0
    BY <1>2 DEF Live
  <2>2. Absent(tab, l)
    BY <2>1 DEF Absent
  <2> QED
    BY <1>1, <2>2, Holds
<1> QED
  BY <1>2, <1>3 DEF SeenAt, Map!Init, Walking

(* In such a program, if it only clears fields while it traverses, the table *)
(* is a dictionary that is asked for the same writes: a store gives the      *)
(* field it names the value it names and changes no other, through growth    *)
(* and rebuilding, reads and lengths change nothing, and a traversal visits  *)
(* each field once, those that are cleared before it comes to them excepted. *)
THEOREM ImplementsDictionary ==
    KeysTell /\ CutTells /\ ~Updates /\ Spec /\ []NoTombstones => MapSpec
<1>1. CASE KeysTell /\ CutTells /\ ~Updates
  <2>1. Init => SeenAt(tab, cursor, seen) /\ Map!Init
    BY <1>1, MapInit
  <2>2. /\ TabIInv /\ KeyedOK(tab) /\ SeenAt(tab, cursor, seen) /\ [Next]_vars
        /\ TabIInv' /\ KeyedOK(tab)'
        => SeenAt(tab, cursor, seen)' /\ [Map!Next]_(Map!vars)
    BY <1>1, MapStep
  <2>3. Spec => []TabIInv
    BY TabIInvHolds, SpecInLib, PTL
  <2> QED
    BY <1>1, <2>1, <2>2, <2>3, KeyedHolds, PTL DEF Spec, MapSpec, Map!Spec
<1> QED
  BY <1>1
=============================================================================

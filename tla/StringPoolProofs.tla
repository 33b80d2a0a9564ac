-------------------------- MODULE StringPoolProofs --------------------------
(***************************************************************************)
(* Proofs about the pool of interned strings, for any texts, hashes and      *)
(* capacities, and for any modules.                                         *)
(***************************************************************************)
EXTENDS StringPool, FiniteSetTheorems, WellFoundedInduction, TLAPS

USE PoolAssumption

Copy == [text : Text, nr : Nat]

SlotMap(cap) == [0 .. cap - 1 -> Copy \cup {NoCopy}]

Taken(slots) == {s \in DOMAIN slots : slots[s] # NoCopy}

-----------------------------------------------------------------------------
LEMMA MinIs ==
    ASSUME NEW S \in SUBSET Nat, S # {}
    PROVE  Min(S) \in S /\ \A y \in S : Min(S) <= y
<1> DEFINE R == OpToRel(<, Nat)
<1>1. IsWellFoundedOn(R, Nat)
  BY NatLessThanWellFounded
<1>2. \A y, x \in Nat : <<y, x>> \in R <=> y < x
  BY DEF OpToRel
<1> HIDE DEF R
<1>3. PICK x \in S : \A y \in S : ~(<<y, x>> \in R)
  BY <1>1, WFMin
<1>4. ASSUME NEW y \in S PROVE x <= y
  <2>1. x \in Nat /\ y \in Nat
    OBVIOUS
  <2>2. ~(y < x)
    BY <1>2, <1>3, <2>1, Zenon
  <2> QED
    BY <2>1, <2>2
<1> QED
  BY <1>4 DEF Min

(* What holds of 0 and, below N, of n + 1 when it holds of n.                *)
LEMMA UpTo ==
    ASSUME NEW N \in Nat, NEW S, 0 \in S,
           \A n \in 0 .. N - 1 : n \in S => n + 1 \in S
    PROVE  0 .. N \subseteq S
<1> DEFINE Bad == {n \in 0 .. N : n \notin S}
<1> SUFFICES ASSUME Bad # {} PROVE FALSE
  OBVIOUS
<1> DEFINE m == Min(Bad)
<1>0. Bad \in SUBSET Nat
  OBVIOUS
<1>1. m \in Bad /\ \A y \in Bad : m <= y
  <2> HIDE DEF Bad
  <2> QED
    BY <1>0, MinIs
<1>2. m \in Nat /\ m \in 0 .. N /\ m \notin S /\ m # 0
  BY <1>1
<1> HIDE DEF m
<1>3. m - 1 \in 0 .. N - 1 /\ ~(m <= m - 1) /\ m - 1 + 1 = m /\ m - 1 \in 0 .. N
  BY <1>2
<1>4. m - 1 \in S
  BY <1>1, <1>3
<1> QED
  BY <1>2, <1>3, <1>4

(* A function defined by recursion from 0 to N exists. *)
Solution(N, X, x0, step, f) ==
    /\ f \in [0 .. N -> X]
    /\ f[0] = x0
    /\ \A n \in 1 .. N : f[n] = step[n][f[n - 1]]

LEMMA RecursionSolved ==
    ASSUME NEW N \in Nat, NEW X, NEW x0 \in X, NEW step \in [1 .. N -> [X -> X]]
    PROVE  \E f : Solution(N, X, x0, step, f)
<1> DEFINE Solves(n, f) == /\ f \in [0 .. n -> X] /\ f[0] = x0
                           /\ \A k \in 1 .. n : f[k] = step[k][f[k - 1]]
           S == {n \in 0 .. N : \E f : Solves(n, f)}
<1>1. 0 \in S
  <2> DEFINE f == [k \in 0 .. 0 |-> x0]
  <2>1. f \in [0 .. 0 -> X] /\ f[0] = x0
    OBVIOUS
  <2>2. \A k \in 1 .. 0 : f[k] = step[k][f[k - 1]]
    OBVIOUS
  <2>3. 0 \in 0 .. N /\ Solves(0, f)
    BY <2>1, <2>2
  <2> QED
    BY <2>3
<1>2. ASSUME NEW n \in 0 .. N - 1, n \in S PROVE n + 1 \in S
  <2>1. PICK f : Solves(n, f)
    BY <1>2
  <2> DEFINE g == [k \in 0 .. n + 1 |-> IF k = n + 1 THEN step[n + 1][f[n]] ELSE f[k]]
  <2>2. n \in Nat /\ n + 1 \in 1 .. N /\ n + 1 \in 0 .. N /\ n \in 0 .. n
    OBVIOUS
  <2>3. step[n + 1][f[n]] \in X
    BY <2>1, <2>2
  <2>4. g \in [0 .. n + 1 -> X] /\ g[0] = x0
    BY <2>1, <2>2, <2>3
  <2>5. ASSUME NEW k \in 1 .. n + 1 PROVE g[k] = step[k][g[k - 1]]
    <3>1. k - 1 \in 0 .. n /\ g[k - 1] = f[k - 1]
      BY <2>2
    <3>2. CASE k = n + 1
      BY <2>2, <3>1, <3>2
    <3>3. CASE k # n + 1
      <4>1. k \in 1 .. n
        BY <2>2, <3>3
      <4> QED
        BY <2>1, <3>1, <3>3, <4>1
    <3> QED
      BY <3>2, <3>3
  <2>6. Solves(n + 1, g)
    BY <2>4, <2>5
  <2> QED
    BY <2>2, <2>6
<1>3. 0 .. N \subseteq S
  BY <1>1, <1>2, UpTo
<1> HIDE DEF Solves
<1>4. N \in S
  BY <1>3
<1>5. PICK f : Solves(N, f)
  BY <1>4
<1> QED
  BY <1>5 DEF Solves, Solution

-----------------------------------------------------------------------------
(* The probe for a text visits every slot of the pool once. *)
LEMMA CapacityIs ==
    ASSUME NEW cap \in Nat \ {0}, NEW slots \in SlotMap(cap)
    PROVE  /\ DOMAIN slots = 0 .. cap - 1 /\ Cardinality(DOMAIN slots) = cap
           /\ IsFiniteSet(DOMAIN slots)
<1>1. DOMAIN slots = 0 .. cap - 1
  BY DEF SlotMap
<1>2. 0 \in Int /\ cap - 1 \in Int /\ ~(0 > cap - 1) /\ cap - 1 - 0 + 1 = cap
  OBVIOUS
<1>3. /\ IsFiniteSet(0 .. cap - 1)
      /\ Cardinality(0 .. cap - 1) = IF 0 > cap - 1 THEN 0 ELSE cap - 1 - 0 + 1
  BY <1>2, FS_Interval
<1> QED
  BY <1>1, <1>2, <1>3

LEMMA ProbeVisits ==
    ASSUME NEW cap \in Nat \ {0}, NEW t \in Text
    PROVE  /\ \A i \in 0 .. cap - 1 : SlotAt(t, i, cap) \in 0 .. cap - 1
           /\ \A s \in 0 .. cap - 1 : \E i \in 0 .. cap - 1 : SlotAt(t, i, cap) = s
           /\ \A i, j \in 0 .. cap - 1 : SlotAt(t, i, cap) = SlotAt(t, j, cap) => i = j
<1> DEFINE h == HashOf[t] % cap
<1>1. h \in 0 .. cap - 1
  <2>1. HashOf[t] \in Nat
    BY DEF PoolAssumption
  <2> QED
    BY <2>1
<1>2. \A i \in 0 .. cap - 1 : SlotAt(t, i, cap) = IF h + i < cap THEN h + i ELSE h + i - cap
  <2>1. HashOf[t] \in Nat
    BY DEF PoolAssumption
  <2> QED
    BY <2>1 DEF SlotAt
<1> HIDE DEF h
<1>3. \A i \in 0 .. cap - 1 : SlotAt(t, i, cap) \in 0 .. cap - 1
  BY <1>1, <1>2
<1>4. \A i, j \in 0 .. cap - 1 : SlotAt(t, i, cap) = SlotAt(t, j, cap) => i = j
  BY <1>1, <1>2
<1>5. ASSUME NEW s \in 0 .. cap - 1
      PROVE  \E i \in 0 .. cap - 1 : SlotAt(t, i, cap) = s
  <2> DEFINE i == IF s >= h THEN s - h ELSE s - h + cap
  <2>1. i \in 0 .. cap - 1
    BY <1>1
  <2>2. SlotAt(t, i, cap) = s
    BY <1>1, <1>2
  <2> QED
    BY <2>1, <2>2
<1> QED
  BY <1>3, <1>4, <1>5

(* The probe for t stops at slot s, the i-th it visits. *)
Stops(slots, cap, t, texts, i, s) ==
    /\ i \in 0 .. cap - 1 /\ s = SlotAt(t, i, cap)
    /\ slots[s].text \in texts
    /\ \A j \in 0 .. i - 1 : slots[SlotAt(t, j, cap)].text \notin texts

LEMMA ProbeStops ==
    ASSUME NEW cap \in Nat \ {0}, NEW slots \in SlotMap(cap), NEW t \in Text, NEW texts
    PROVE  /\ \A i, s : Stops(slots, cap, t, texts, i, s) => Probe(slots, t, texts) = s
           /\ (\E s \in 0 .. cap - 1 : slots[s].text \in texts) =>
                 \E i : Stops(slots, cap, t, texts, i, Probe(slots, t, texts))
<1> DEFINE Hits == {i \in 0 .. cap - 1 : slots[SlotAt(t, i, cap)].text \in texts}
<1>1. Probe(slots, t, texts) = SlotAt(t, Min(Hits), cap)
  BY CapacityIs DEF Probe
<1>2. Hits \in SUBSET Nat
  OBVIOUS
<1>3. ASSUME NEW i, NEW s, Stops(slots, cap, t, texts, i, s)
      PROVE  Probe(slots, t, texts) = s
  <2>1. i \in Hits
    BY <1>3 DEF Stops
  <2>2. Min(Hits) \in Hits /\ Min(Hits) <= i
    BY <1>2, <2>1, MinIs
  <2> DEFINE m == Min(Hits)
  <2>3. m \in Nat /\ i \in Nat /\ m <= i /\ slots[SlotAt(t, m, cap)].text \in texts
    BY <2>1, <2>2
  <2> HIDE DEF m, Hits
  <2>4. m = i
    BY <1>3, <2>3 DEF Stops
  <2> QED
    BY <1>1, <1>3, <2>4 DEF m, Stops
<1>4. ASSUME NEW s \in 0 .. cap - 1, slots[s].text \in texts
      PROVE  \E i : Stops(slots, cap, t, texts, i, Probe(slots, t, texts))
  <2>1. Hits # {}
    BY <1>4, ProbeVisits
  <2>2. Min(Hits) \in Hits /\ \A y \in Hits : Min(Hits) <= y
    BY <1>2, <2>1, MinIs
  <2> DEFINE m == Min(Hits)
  <2>3. m \in 0 .. cap - 1 /\ slots[SlotAt(t, m, cap)].text \in texts /\ m \in Nat
    BY <2>2
  <2>4. ASSUME NEW j \in 0 .. m - 1 PROVE slots[SlotAt(t, j, cap)].text \notin texts
    <3>1. m \in Nat /\ m \in 0 .. cap - 1 /\ \A y \in Hits : m <= y
      BY <2>2, <2>3
    <3> HIDE DEF m
    <3>2. j \in 0 .. cap - 1 /\ ~(m <= j)
      BY <3>1
    <3> QED
      BY <3>1, <3>2
  <2>5. Probe(slots, t, texts) = SlotAt(t, m, cap)
    BY <1>1
  <2> HIDE DEF m
  <2> QED
    BY <2>3, <2>4, <2>5 DEF Stops
<1> QED
  BY <1>3, <1>4

-----------------------------------------------------------------------------
LEMMA OneMore ==
    ASSUME NEW S, IsFiniteSet(S), NEW x
    PROVE  /\ IsFiniteSet(S \cup {x})
           /\ Cardinality(S \cup {x}) <= Cardinality(S) + 1
<1>1. Cardinality(S) \in Nat
  BY FS_CardinalityType
<1>2. CASE x \in S
  <2>1. S \cup {x} = S
    BY <1>2
  <2> DEFINE N == Cardinality(S)
  <2> HIDE DEF N
  <2>2. N \in Nat
    BY <1>1 DEF N
  <2>3. N <= N + 1
    BY <2>2
  <2> QED
    BY <2>1, <2>3 DEF N
<1>3. CASE x \notin S
  <2>1. IsFiniteSet(S \cup {x}) /\ Cardinality(S \cup {x}) = Cardinality(S) + 1
    BY <1>3, FS_AddElement
  <2> QED
    BY <1>1, <2>1
<1> QED
  BY <1>2, <1>3

(* A copy put into the pool takes at most one slot more. *)
Empty(cap) == [s \in 0 .. cap - 1 |-> NoCopy]

LEMMA PutKeepsShape ==
    ASSUME NEW cap \in Nat \ {0}, NEW slots \in SlotMap(cap), NEW c \in Copy
    PROVE  /\ Put(slots, c) \in SlotMap(cap)
           /\ IsFiniteSet(Taken(slots))
           /\ Cardinality(Taken(Put(slots, c))) <= Cardinality(Taken(slots)) + 1
<1> DEFINE s == Probe(slots, c.text, {"none"})
           g == Put(slots, c)
<1>1. /\ DOMAIN slots = 0 .. cap - 1 /\ DOMAIN g = 0 .. cap - 1
      /\ \A u \in 0 .. cap - 1 : g[u] = IF u = s THEN c ELSE slots[u]
  BY CapacityIs DEF Put
<1>2. g \in SlotMap(cap)
  <2> HIDE DEF s
  <2>1. g = [u \in 0 .. cap - 1 |-> IF u = s THEN c ELSE slots[u]]
    BY CapacityIs DEF Put, s
  <2> HIDE DEF g
  <2>2. \A u \in 0 .. cap - 1 : slots[u] \in Copy \cup {NoCopy}
    BY DEF SlotMap
  <2> QED
    BY <2>1, <2>2 DEF SlotMap
<1> HIDE DEF s
<1>3. IsFiniteSet(Taken(slots)) /\ Cardinality(Taken(slots)) \in Nat
  <2>1. Taken(slots) \subseteq DOMAIN slots
    BY DEF Taken
  <2> QED
    BY <2>1, CapacityIs, FS_Subset, FS_CardinalityType
<1>4. Taken(g) \subseteq Taken(slots) \cup {s}
  BY <1>1 DEF Taken
<1>5. /\ IsFiniteSet(Taken(slots) \cup {s})
      /\ Cardinality(Taken(slots) \cup {s}) <= Cardinality(Taken(slots)) + 1
  BY <1>3, OneMore
<1>6. Cardinality(Taken(g)) <= Cardinality(Taken(slots) \cup {s})
  BY <1>4, <1>5, FS_Subset
<1>7. Cardinality(Taken(g)) \in Nat /\ Cardinality(Taken(slots) \cup {s}) \in Nat
  BY <1>4, <1>5, FS_Subset, FS_CardinalityType
<1> QED
  BY <1>2, <1>3, <1>5, <1>6, <1>7

(* The table after the first n slots have been moved. *)
Moves(slots, old, cap, f) ==
    /\ f[0] = Empty(cap)
    /\ \A n \in 1 .. old : f[n] = IF slots[n - 1] = NoCopy THEN f[n - 1]
                                  ELSE Put(f[n - 1], slots[n - 1])

LEMMA RehashMoves ==
    ASSUME NEW old \in Nat \ {0}, NEW cap \in Nat \ {0}, NEW p, p.slots \in SlotMap(old)
    PROVE  \E f : /\ PoolRehash(p, cap) = [p EXCEPT !.slots = f[old]]
                  /\ Moves(p.slots, old, cap, f)
<1> DEFINE X == SlotMap(cap)
           step == [n \in 1 .. old |->
                      [x \in X |-> IF p.slots[n - 1] = NoCopy THEN x
                                   ELSE Put(x, p.slots[n - 1])]]
           Body(g) == [n \in 0 .. old |->
                         IF n = 0 THEN Empty(cap)
                         ELSE IF p.slots[n - 1] = NoCopy THEN g[n - 1]
                         ELSE Put(g[n - 1], p.slots[n - 1])]
           f == CHOOSE g : g = Body(g)
<1>1. CapacityOf(p) = old
  BY CapacityIs DEF CapacityOf
<1>2. PoolRehash(p, cap) = [p EXCEPT !.slots = f[old]]
  BY <1>1 DEF PoolRehash, Empty
<1>3. step \in [1 .. old -> [X -> X]]
  <2>1. ASSUME NEW n \in 1 .. old, NEW x \in X
        PROVE  (IF p.slots[n - 1] = NoCopy THEN x ELSE Put(x, p.slots[n - 1])) \in X
    <3>1. n - 1 \in 0 .. old - 1
      OBVIOUS
    <3>2. p.slots[n - 1] \in Copy \cup {NoCopy}
      BY <3>1 DEF SlotMap
    <3> QED
      BY <3>2, PutKeepsShape
  <2> HIDE DEF X
  <2> QED
    BY <2>1
<1>4. Empty(cap) \in X
  BY DEF Empty, SlotMap
<1>5. PICK g : /\ g \in [0 .. old -> X] /\ g[0] = Empty(cap)
               /\ \A n \in 1 .. old : g[n] = step[n][g[n - 1]]
  <2> HIDE DEF X, step
  <2>1. old \in Nat
    OBVIOUS
  <2>2. PICK g : Solution(old, X, Empty(cap), step, g)
    BY <1>3, <1>4, <2>1, RecursionSolved
  <2> QED
    BY <2>2 DEF Solution
<1>6. g = Body(g)
  <2>1. ASSUME NEW n \in 1 .. old
        PROVE  g[n] = IF p.slots[n - 1] = NoCopy THEN g[n - 1]
                      ELSE Put(g[n - 1], p.slots[n - 1])
    <3>1. n - 1 \in 0 .. old
      OBVIOUS
    <3>2. g[n - 1] \in X
      BY <1>5, <3>1
    <3> HIDE DEF X
    <3> QED
      BY <1>5, <3>2
  <2> HIDE DEF X, step
  <2>2. \A n \in 0 .. old : n = 0 \/ n \in 1 .. old
    OBVIOUS
  <2>3. \A n \in 0 .. old : g[n] = Body(g)[n]
    BY <1>5, <2>1, <2>2
  <2>4. g = [n \in 0 .. old |-> g[n]]
    BY <1>5
  <2> QED
    BY <2>3, <2>4
<1>7. f = Body(f)
  <2> HIDE DEF Body
  <2> QED
    BY <1>6
<1>8. f[0] = Empty(cap)
  <2> HIDE DEF f
  <2>1. f[0] = Body(f)[0]
    BY <1>7
  <2> QED
    BY <2>1
<1>9. ASSUME NEW n \in 1 .. old
      PROVE  f[n] = IF p.slots[n - 1] = NoCopy THEN f[n - 1]
                    ELSE Put(f[n - 1], p.slots[n - 1])
  <2> HIDE DEF f
  <2>1. n \in 0 .. old /\ n # 0
    OBVIOUS
  <2>2. f[n] = Body(f)[n]
    BY <1>7
  <2> QED
    BY <2>1, <2>2
<1> QED
  BY <1>2, <1>8, <1>9 DEF Moves

Below(slots, n) == {s \in 0 .. n - 1 : slots[s] # NoCopy}

LEMMA BelowGrows ==
    ASSUME NEW old \in Nat \ {0}, NEW slots \in SlotMap(old), NEW n \in 0 .. old - 1
    PROVE  /\ IsFiniteSet(Below(slots, n)) /\ Cardinality(Below(slots, n)) <= n
           /\ Cardinality(Below(slots, n)) \in Nat
           /\ slots[n] = NoCopy => Below(slots, n + 1) = Below(slots, n)
           /\ slots[n] # NoCopy =>
                 Cardinality(Below(slots, n + 1)) = Cardinality(Below(slots, n)) + 1
<1>1. n \in Nat /\ 0 \in Int /\ n - 1 \in Int
  OBVIOUS
<1>2. IsFiniteSet(0 .. n - 1) /\ Cardinality(0 .. n - 1) = n
  <2>1. /\ IsFiniteSet(0 .. n - 1)
        /\ Cardinality(0 .. n - 1) = IF 0 > n - 1 THEN 0 ELSE n - 1 - 0 + 1
    BY <1>1, FS_Interval
  <2> DEFINE N == Cardinality(0 .. n - 1)
  <2>2. N = IF 0 > n - 1 THEN 0 ELSE n - 1 - 0 + 1
    BY <2>1
  <2> HIDE DEF N
  <2>3. N = n
    BY <1>1, <2>2
  <2> QED
    BY <2>1, <2>3 DEF N
<1>3. /\ IsFiniteSet(Below(slots, n))
      /\ Cardinality(Below(slots, n)) <= Cardinality(0 .. n - 1)
      /\ Cardinality(Below(slots, n)) \in Nat
  <2>1. Below(slots, n) \subseteq 0 .. n - 1
    BY DEF Below
  <2> QED
    BY <1>2, <2>1, FS_Subset, FS_CardinalityType
<1>4. ASSUME slots[n] = NoCopy PROVE Below(slots, n + 1) = Below(slots, n)
  <2>1. \A s \in 0 .. n + 1 - 1 : s = n \/ s \in 0 .. n - 1
    BY <1>1
  <2>2. 0 .. n - 1 \subseteq 0 .. n + 1 - 1
    BY <1>1
  <2> QED
    BY <1>4, <2>1, <2>2 DEF Below
<1>5. ASSUME slots[n] # NoCopy
      PROVE  Cardinality(Below(slots, n + 1)) = Cardinality(Below(slots, n)) + 1
  <2>1. 0 .. n + 1 - 1 = (0 .. n - 1) \cup {n} /\ n \notin 0 .. n - 1
    BY <1>1
  <2>2. Below(slots, n + 1) = Below(slots, n) \cup {n} /\ n \notin Below(slots, n)
    BY <1>5, <2>1 DEF Below
  <2> QED
    BY <1>3, <2>2, FS_AddElement
<1> QED
  BY <1>2, <1>3, <1>4, <1>5

(* A rehash leaves no more slots taken than there were. *)
LEMMA MovesKeepShape ==
    ASSUME NEW old \in Nat \ {0}, NEW cap \in Nat \ {0}, NEW slots \in SlotMap(old),
           NEW f, Moves(slots, old, cap, f)
    PROVE  \A n \in 0 .. old : /\ f[n] \in SlotMap(cap)
                               /\ Cardinality(Taken(f[n])) <= Cardinality(Below(slots, n))
<1> DEFINE S == {n \in 0 .. old : /\ f[n] \in SlotMap(cap)
                                  /\ Cardinality(Taken(f[n])) <= Cardinality(Below(slots, n))}
<1>1. 0 \in S
  <2>1. f[0] = Empty(cap) /\ Empty(cap) \in SlotMap(cap)
    BY DEF Moves, Empty, SlotMap
  <2>2. Taken(Empty(cap)) = {} /\ Below(slots, 0) = {}
    BY DEF Taken, Empty, Below
  <2>3. Cardinality(Taken(f[0])) = 0 /\ Cardinality(Below(slots, 0)) = 0
    BY <2>1, <2>2, FS_EmptySet
  <2> QED
    BY <2>1, <2>3
<1>2. ASSUME NEW n \in 0 .. old - 1, n \in S PROVE n + 1 \in S
  <2>1. n + 1 \in 1 .. old /\ n + 1 \in 0 .. old /\ n + 1 - 1 = n
    OBVIOUS
  <2>2. f[n + 1] = IF slots[n] = NoCopy THEN f[n] ELSE Put(f[n], slots[n])
    BY <2>1 DEF Moves
  <2>3. CASE slots[n] = NoCopy
    BY <1>2, <2>1, <2>2, <2>3, BelowGrows
  <2>4. CASE slots[n] # NoCopy
    <3>1. slots[n] \in Copy
      BY <2>4 DEF SlotMap
    <3>2. /\ f[n + 1] = Put(f[n], slots[n]) /\ f[n] \in SlotMap(cap)
          /\ f[n + 1] \in SlotMap(cap)
          /\ IsFiniteSet(Taken(f[n]))
          /\ Cardinality(Taken(f[n + 1])) <= Cardinality(Taken(f[n])) + 1
      BY <1>2, <2>2, <2>4, <3>1, PutKeepsShape
    <3>3. Cardinality(Taken(f[n])) <= Cardinality(Below(slots, n))
      BY <1>2
    <3>4. /\ Cardinality(Below(slots, n + 1)) = Cardinality(Below(slots, n)) + 1
          /\ Cardinality(Below(slots, n)) \in Nat
      BY <2>4, BelowGrows
    <3>5. Cardinality(Taken(f[n])) \in Nat /\ Cardinality(Taken(f[n + 1])) \in Nat
      <4>1. Taken(f[n + 1]) \subseteq DOMAIN f[n + 1]
        BY DEF Taken
      <4> QED
        BY <3>2, <4>1, CapacityIs, FS_Subset, FS_CardinalityType
    <3> DEFINE a == Cardinality(Taken(f[n]))
               b == Cardinality(Taken(f[n + 1]))
               c == Cardinality(Below(slots, n))
               d == Cardinality(Below(slots, n + 1))
    <3>6. a \in Nat /\ b \in Nat /\ c \in Nat /\ b <= a + 1 /\ a <= c /\ d = c + 1
      BY <3>2, <3>3, <3>4, <3>5
    <3> HIDE DEF a, b, c, d
    <3>7. b <= d
      BY <3>6
    <3> QED
      BY <2>1, <3>2, <3>7 DEF b, d
  <2> QED
    BY <2>3, <2>4
<1> HIDE DEF S
<1>3. 0 .. old \subseteq S
  BY <1>1, <1>2, UpTo
<1> QED
  BY <1>3 DEF S

-----------------------------------------------------------------------------
(* A probe for the text of a copy comes to the copy before an empty slot. *)
ReachedAt(slots, cap, c, i) ==
    /\ i \in 0 .. cap - 1 /\ slots[SlotAt(c.text, i, cap)] = c
    /\ \A j \in 0 .. i - 1 : slots[SlotAt(c.text, j, cap)] # NoCopy

Reached(slots, cap, c) == \E i : ReachedAt(slots, cap, c, i)

LEMMA CopiesOf ==
    ASSUME NEW cap \in Nat \ {0}, NEW slots \in SlotMap(cap), NEW s \in 0 .. cap - 1
    PROVE  /\ slots[s] = NoCopy => slots[s].text = "none"
           /\ slots[s] # NoCopy => slots[s] \in Copy /\ slots[s].text \in Text
           /\ slots[s] # NoCopy => slots[s].text # "none"
           /\ s \in Taken(slots) <=> slots[s] # NoCopy
<1>1. slots[s] \in Copy \cup {NoCopy}
  BY DEF SlotMap
<1>2. \A c \in Copy : c.text \in Text /\ c.text # "none"
  BY DEF Copy, PoolAssumption
<1>3. NoCopy.text = "none"
  BY DEF NoCopy
<1> QED
  BY <1>1, <1>2, <1>3, CapacityIs DEF Taken

LEMMA ReachedHeld ==
    ASSUME NEW cap \in Nat \ {0}, NEW slots, NEW c, c.text \in Text, Reached(slots, cap, c)
    PROVE  \E u \in 0 .. cap - 1 : slots[u] = c
BY ProbeVisits DEF Reached, ReachedAt

(* A copy that takes an empty slot hides no other. *)
LEMMA ReachedStays ==
    ASSUME NEW cap \in Nat \ {0}, NEW slots, NEW g, NEW s \in 0 .. cap - 1, NEW new, new # NoCopy,
           slots[s] = NoCopy, \A u \in 0 .. cap - 1 : g[u] = IF u = s THEN new ELSE slots[u],
           NEW c \in Copy, Reached(slots, cap, c)
    PROVE  Reached(g, cap, c)
<1>1. PICK i : ReachedAt(slots, cap, c, i)
  BY DEF Reached
<1>2. c.text \in Text /\ c # NoCopy
  BY DEF Copy, NoCopy, PoolAssumption
<1> DEFINE t == c.text
<1>3. i \in 0 .. cap - 1 /\ slots[SlotAt(t, i, cap)] = c
  BY <1>1 DEF ReachedAt
<1>4. SlotAt(t, i, cap) \in 0 .. cap - 1 /\ SlotAt(t, i, cap) # s
  BY <1>2, <1>3, ProbeVisits
<1>5. ASSUME NEW j \in 0 .. i - 1 PROVE g[SlotAt(t, j, cap)] # NoCopy
  <2> DEFINE v == SlotAt(t, j, cap)
  <2>1. j \in 0 .. cap - 1
    BY <1>3
  <2>2. v \in 0 .. cap - 1 /\ slots[v] # NoCopy
    BY <1>1, <1>2, <2>1, ProbeVisits DEF ReachedAt
  <2> HIDE DEF v
  <2> QED
    BY <2>2 DEF v
<1> QED
  BY <1>3, <1>4, <1>5 DEF Reached, ReachedAt

(* A copy goes to the first empty slot of its probe. *)
LEMMA PutReached ==
    ASSUME NEW cap \in Nat \ {0}, NEW slots \in SlotMap(cap), NEW c \in Copy,
           \E s \in 0 .. cap - 1 : slots[s] = NoCopy
    PROVE  /\ Reached(Put(slots, c), cap, c)
           /\ \E s \in 0 .. cap - 1 :
                 /\ slots[s] = NoCopy
                 /\ \A u \in 0 .. cap - 1 : Put(slots, c)[u] = IF u = s THEN c ELSE slots[u]
<1> DEFINE t == c.text
           s == Probe(slots, t, {"none"})
           g == Put(slots, c)
<1>1. t \in Text /\ t # "none" /\ c # NoCopy
  BY DEF Copy, PoolAssumption, NoCopy
<1>2. PICK i : Stops(slots, cap, t, {"none"}, i, s)
  <2>1. \E u \in 0 .. cap - 1 : slots[u].text \in {"none"}
    BY CopiesOf
  <2> HIDE DEF s
  <2> QED
    BY <1>1, <2>1, ProbeStops DEF s
<1>3. s \in 0 .. cap - 1 /\ slots[s] = NoCopy /\ s = SlotAt(t, i, cap) /\ i \in 0 .. cap - 1
  <2> HIDE DEF s
  <2>1. i \in 0 .. cap - 1 /\ s = SlotAt(t, i, cap) /\ slots[s].text = "none"
    BY <1>2 DEF Stops
  <2>2. s \in 0 .. cap - 1
    BY <1>1, <2>1, ProbeVisits
  <2> QED
    BY <2>1, <2>2, CopiesOf
<1>4. g = [slots EXCEPT ![s] = c] /\ g \in SlotMap(cap)
  BY PutKeepsShape DEF Put
<1>5. \A u \in 0 .. cap - 1 : g[u] = IF u = s THEN c ELSE slots[u]
  <2> HIDE DEF s, g
  <2> QED
    BY <1>4, CapacityIs
<1> HIDE DEF s, g
<1>6. ASSUME NEW j \in 0 .. i - 1 PROVE g[SlotAt(t, j, cap)] # NoCopy
  <2> DEFINE v == SlotAt(t, j, cap)
  <2>1. j \in 0 .. cap - 1
    BY <1>3
  <2>2. v \in 0 .. cap - 1 /\ slots[v].text # "none"
    BY <1>1, <1>2, <2>1, ProbeVisits DEF Stops
  <2> HIDE DEF v
  <2>3. slots[v] # NoCopy
    BY <2>2 DEF NoCopy
  <2> QED
    BY <1>1, <1>5, <2>2, <2>3 DEF v
<1>7. Reached(g, cap, c)
  BY <1>3, <1>5, <1>6 DEF Reached, ReachedAt
<1> QED
  BY <1>3, <1>5, <1>7 DEF g

LEMMA NotFull ==
    ASSUME NEW cap \in Nat \ {0}, NEW slots \in SlotMap(cap),
           Cardinality(Taken(slots)) < cap
    PROVE  \E s \in 0 .. cap - 1 : slots[s] = NoCopy
<1> SUFFICES ASSUME \A s \in 0 .. cap - 1 : slots[s] # NoCopy PROVE FALSE
  OBVIOUS
<1>1. Taken(slots) = DOMAIN slots /\ Cardinality(Taken(slots)) = cap
  BY CapacityIs DEF Taken
<1> DEFINE N == Cardinality(Taken(slots))
<1>2. N = cap /\ N < cap
  BY <1>1
<1> HIDE DEF N
<1> QED
  BY <1>2

(* After n slots the new table holds the copies of those slots, all reached. *)
HoldsFirst(slots, n, moved, cap) ==
    /\ \A u \in 0 .. cap - 1 : \/ moved[u] = NoCopy
                              \/ \E j \in Below(slots, n) : slots[j] = moved[u]
    /\ \A j \in Below(slots, n) : Reached(moved, cap, slots[j])

LEMMA MovesKeepCopies ==
    ASSUME NEW old \in Nat \ {0}, NEW cap \in Nat \ {0}, old < cap,
           NEW slots \in SlotMap(old), NEW f, Moves(slots, old, cap, f)
    PROVE  HoldsFirst(slots, old, f[old], cap)
<1> DEFINE S == {n \in 0 .. old : HoldsFirst(slots, n, f[n], cap)}
<1>1. 0 \in S
  <2>1. f[0] = Empty(cap) /\ \A u \in 0 .. cap - 1 : Empty(cap)[u] = NoCopy
    BY DEF Moves, Empty
  <2>2. Below(slots, 0) = {}
    BY DEF Below
  <2> QED
    BY <2>1, <2>2 DEF HoldsFirst
<1>2. ASSUME NEW n \in 0 .. old - 1, n \in S PROVE n + 1 \in S
  <2> DEFINE a == f[n]
             b == f[n + 1]
  <2>1. n + 1 \in 1 .. old /\ n + 1 \in 0 .. old /\ n + 1 - 1 = n /\ n \in 0 .. old
    OBVIOUS
  <2>2. b = IF slots[n] = NoCopy THEN a ELSE Put(a, slots[n])
    BY <2>1 DEF Moves
  <2>3. a \in SlotMap(cap) /\ HoldsFirst(slots, n, a, cap)
    BY <1>2, <2>1, MovesKeepShape
  <2> HIDE DEF a, b
  <2>4. CASE slots[n] = NoCopy
    <3>1. HoldsFirst(slots, n + 1, b, cap)
      BY <2>2, <2>3, <2>4, BelowGrows DEF HoldsFirst
    <3> QED
      BY <2>1, <3>1 DEF b
  <2>5. CASE slots[n] # NoCopy
    <3> DEFINE c == slots[n]
    <3>1. c \in Copy /\ c # NoCopy /\ b = Put(a, c)
      BY <2>2, <2>5, CopiesOf
    <3>3. \E s \in 0 .. cap - 1 : a[s] = NoCopy
      <4>1. /\ Cardinality(Taken(a)) <= Cardinality(Below(slots, n))
            /\ Cardinality(Below(slots, n)) <= n /\ Cardinality(Below(slots, n)) \in Nat
        BY <2>1, MovesKeepShape, BelowGrows DEF a
      <4>2. Cardinality(Taken(a)) \in Nat
        <5>1. Taken(a) \subseteq DOMAIN a
          BY DEF Taken
        <5> QED
          BY <2>3, <5>1, CapacityIs, FS_Subset, FS_CardinalityType
      <4> DEFINE x == Cardinality(Taken(a))
                 y == Cardinality(Below(slots, n))
      <4>3. x \in Nat /\ y \in Nat /\ x <= y /\ y <= n
        BY <4>1, <4>2
      <4> HIDE DEF x, y
      <4>4. x < cap
        BY <4>3
      <4> QED
        BY <2>3, <4>4, NotFull DEF x
    <3> HIDE DEF c
    <3>4. /\ Reached(b, cap, c)
          /\ \E s \in 0 .. cap - 1 :
                /\ a[s] = NoCopy
                /\ \A u \in 0 .. cap - 1 : b[u] = IF u = s THEN c ELSE a[u]
      BY <2>3, <3>1, <3>3, PutReached
    <3>5. PICK s \in 0 .. cap - 1 :
             a[s] = NoCopy /\ \A u \in 0 .. cap - 1 : b[u] = IF u = s THEN c ELSE a[u]
      BY <3>4
    <3>6. \A j \in Below(slots, n + 1) : j = n \/ j \in Below(slots, n)
      <4>1. \A j \in 0 .. n + 1 - 1 : j = n \/ j \in 0 .. n - 1
        OBVIOUS
      <4> QED
        BY <4>1 DEF Below
    <3>7. n \in Below(slots, n + 1) /\ Below(slots, n) \subseteq Below(slots, n + 1)
      <4>1. n \in 0 .. n + 1 - 1 /\ 0 .. n - 1 \subseteq 0 .. n + 1 - 1
        OBVIOUS
      <4> QED
        BY <2>5, <4>1 DEF Below
    <3>8. ASSUME NEW u \in 0 .. cap - 1, b[u] # NoCopy
          PROVE  \E j \in Below(slots, n + 1) : slots[j] = b[u]
      <4>1. CASE u = s
        <5>1. b[u] = slots[n]
          BY <3>5, <4>1 DEF c
        <5> QED
          BY <3>7, <5>1
      <4>2. CASE u # s
        <5>1. b[u] = a[u] /\ a[u] # NoCopy
          BY <3>5, <3>8, <4>2
        <5>2. PICK j \in Below(slots, n) : slots[j] = a[u]
          BY <2>3, <5>1 DEF HoldsFirst
        <5> QED
          BY <3>7, <5>1, <5>2
      <4> QED
        BY <4>1, <4>2
    <3>9. ASSUME NEW j \in Below(slots, n + 1) PROVE Reached(b, cap, slots[j])
      <4>1. CASE j = n
        BY <3>4, <4>1 DEF c
      <4>2. CASE j \in Below(slots, n)
        <5> DEFINE d == slots[j]
        <5>1. d \in Copy /\ Reached(a, cap, d)
          <6>1. j \in 0 .. old - 1 /\ slots[j] # NoCopy
            BY <4>2 DEF Below
          <6> QED
            BY <2>3, <4>2, <6>1, CopiesOf DEF HoldsFirst
        <5> HIDE DEF d
        <5>2. Reached(b, cap, d)
          BY <3>1, <3>5, <5>1, ReachedStays
        <5> QED
          BY <5>2 DEF d
      <4> QED
        BY <3>6, <4>1, <4>2
    <3>10. HoldsFirst(slots, n + 1, b, cap)
      BY <3>8, <3>9 DEF HoldsFirst
    <3> QED
      BY <2>1, <3>10 DEF b
  <2> QED
    BY <2>4, <2>5
<1> HIDE DEF S
<1>3. 0 .. old \subseteq S
  BY <1>1, <1>2, UpTo
<1>4. old \in S
  BY <1>3
<1> QED
  BY <1>4 DEF S

-----------------------------------------------------------------------------
(* The pool: its slots are copies and its count is never behind the slots    *)
(* taken (it runs ahead of them when a module puts strings over others).     *)
PoolShape(p) ==
    /\ CapacityOf(p) \in Nat \ {0}
    /\ p.slots \in SlotMap(CapacityOf(p))
    /\ p.count \in Nat
    /\ p.made \in Nat /\ p.base \in 0 .. p.made
    /\ p.given \in [Text -> SUBSET Copy]
    /\ p = [slots |-> p.slots, count |-> p.count, made |-> p.made, base |-> p.base,
            given |-> p.given]
    /\ Cardinality(Occupied(p)) <= p.count

(* The copies that intern made since a module was loaded: a text has one,     *)
(* every probe for it comes to it, and all of them were returned.            *)
RecentReached(slots, cap, base, given) ==
    /\ \A t \in Text : \A c \in given[t] :
          c.nr > base => c.text = t /\ Reached(slots, cap, c)
    /\ \A s \in 0 .. cap - 1 :
          slots[s] # NoCopy /\ slots[s].nr > base => slots[s] \in given[slots[s].text]
    /\ \A t \in Text : \A c, d \in given[t] : c.nr > base /\ d.nr > base => c = d

(* All copies were numbered when they were made. *)
Numbered(slots, cap, made, given) ==
    /\ \A t \in Text : \A c \in given[t] : c.nr <= made
    /\ \A s \in 0 .. cap - 1 : slots[s].nr <= made

PoolFinds(p) ==
    /\ RecentReached(p.slots, CapacityOf(p), p.base, p.given)
    /\ Numbered(p.slots, CapacityOf(p), p.made, p.given)

PoolIInv == PoolShape(pool) /\ PoolFinds(pool)

LEMMA OccupiedIs ==
    ASSUME NEW p, NEW cap \in Nat \ {0}, p.slots \in SlotMap(cap)
    PROVE  /\ CapacityOf(p) = cap /\ Occupied(p) = Taken(p.slots)
           /\ IsFiniteSet(Occupied(p)) /\ Cardinality(Occupied(p)) \in Nat
           /\ Cardinality(Occupied(p)) <= cap
<1>1. CapacityOf(p) = cap /\ Occupied(p) = Taken(p.slots)
  BY CapacityIs DEF CapacityOf, Occupied, Taken
<1>2. /\ DOMAIN p.slots = 0 .. cap - 1 /\ Cardinality(DOMAIN p.slots) = cap
      /\ IsFiniteSet(DOMAIN p.slots)
  BY CapacityIs
<1>3. /\ IsFiniteSet(Occupied(p)) /\ Cardinality(Occupied(p)) \in Nat
      /\ Cardinality(Occupied(p)) <= Cardinality(DOMAIN p.slots)
  <2>1. Occupied(p) \subseteq DOMAIN p.slots
    BY DEF Occupied
  <2> QED
    BY <1>2, <2>1, FS_Subset, FS_CardinalityType
<1> QED
  BY <1>1, <1>2, <1>3

(* A rehash to a larger table. *)
LEMMA RehashKeeps ==
    ASSUME NEW p, PoolShape(p), NEW cap \in Nat, cap > CapacityOf(p)
    PROVE  /\ PoolShape(PoolRehash(p, cap)) /\ CapacityOf(PoolRehash(p, cap)) = cap
           /\ Cardinality(Occupied(PoolRehash(p, cap))) <= Cardinality(Occupied(p))
           /\ PoolRehash(p, cap).base = p.base /\ PoolRehash(p, cap).made = p.made
           /\ PoolRehash(p, cap).given = p.given
           /\ PoolFinds(p) => PoolFinds(PoolRehash(p, cap))
<1> DEFINE old == CapacityOf(p)
           q == PoolRehash(p, cap)
<1>1. old \in Nat \ {0} /\ cap \in Nat \ {0} /\ p.slots \in SlotMap(old) /\ old < cap
  BY DEF PoolShape
<1> HIDE DEF old, q
<1>2. PICK f : q = [p EXCEPT !.slots = f[old]] /\ Moves(p.slots, old, cap, f)
  BY <1>1, RehashMoves DEF q
<1> DEFINE x == f[old]
<1>3. q = [slots |-> x, count |-> p.count, made |-> p.made, base |-> p.base,
           given |-> p.given]
  BY <1>2 DEF PoolShape
<1>4. old \in 0 .. old
  BY <1>1
<1>5. x \in SlotMap(cap) /\ Cardinality(Taken(x)) <= Cardinality(Below(p.slots, old))
  BY <1>1, <1>2, <1>4, MovesKeepShape
<1> HIDE DEF x
<1>6. Below(p.slots, old) = Occupied(p)
  <2>1. DOMAIN p.slots = 0 .. old - 1
    BY <1>1, CapacityIs
  <2> QED
    BY <2>1 DEF Below, Occupied
<1>7. q.slots = x /\ CapacityOf(q) = cap /\ Occupied(q) = Taken(x)
  BY <1>1, <1>3, <1>5, OccupiedIs
<1>8. Cardinality(Occupied(q)) <= Cardinality(Occupied(p))
  BY <1>5, <1>6, <1>7
<1>9. PoolShape(q)
  <2>1. Cardinality(Occupied(q)) <= p.count
    <3> DEFINE a == Cardinality(Occupied(q))
               b == Cardinality(Occupied(p))
    <3>1. a \in Nat /\ b \in Nat /\ a <= b /\ b <= p.count /\ p.count \in Nat
      BY <1>1, <1>5, <1>7, <1>8, OccupiedIs DEF PoolShape
    <3> HIDE DEF a, b
    <3>2. a <= p.count
      BY <3>1
    <3> QED
      BY <3>2 DEF a
  <2> QED
    BY <1>1, <1>3, <1>5, <1>7, <2>1 DEF PoolShape
<1>10. ASSUME PoolFinds(p) PROVE PoolFinds(q)
  <2>1. HoldsFirst(p.slots, old, x, cap)
    BY <1>1, <1>2, MovesKeepCopies DEF x
  <2>2. /\ RecentReached(p.slots, old, p.base, p.given)
        /\ Numbered(p.slots, old, p.made, p.given)
    BY <1>10 DEF PoolFinds, old
  <2>3. \A j \in Below(p.slots, old) : j \in 0 .. old - 1 /\ p.slots[j] # NoCopy
    BY DEF Below
  <2>4. ASSUME NEW t \in Text, NEW c \in p.given[t], c.nr > p.base
        PROVE  c.text = t /\ Reached(x, cap, c)
    <3>1. c.text = t /\ Reached(p.slots, old, c) /\ c \in Copy /\ c # NoCopy
      BY <2>2, <2>4 DEF RecentReached, PoolShape, Copy, NoCopy, PoolAssumption
    <3>2. PICK s \in 0 .. old - 1 : p.slots[s] = c
      BY <1>1, <3>1, ReachedHeld
    <3>3. s \in Below(p.slots, old)
      BY <3>1, <3>2 DEF Below
    <3> QED
      BY <2>1, <3>1, <3>2, <3>3 DEF HoldsFirst
  <2>5. ASSUME NEW s \in 0 .. cap - 1
        PROVE  x[s] = NoCopy \/ \E j \in 0 .. old - 1 : p.slots[j] # NoCopy /\ p.slots[j] = x[s]
    BY <2>1, <2>3 DEF HoldsFirst
  <2>6. RecentReached(x, cap, p.base, p.given)
    BY <2>2, <2>4, <2>5 DEF RecentReached
  <2>7. Numbered(x, cap, p.made, p.given)
    <3>1. NoCopy.nr = 0 /\ p.made \in Nat
      BY DEF NoCopy, PoolShape
    <3> QED
      BY <2>2, <2>5, <3>1 DEF Numbered
  <2> QED
    BY <1>3, <1>7, <2>6, <2>7 DEF PoolFinds
<1> QED
  BY <1>3, <1>7, <1>8, <1>9, <1>10 DEF q

(* The growth before an intern leaves an empty slot. *)
LEMMA GrownKeeps ==
    ASSUME NEW p, PoolShape(p)
    PROVE  /\ PoolShape(Grown(p))
           /\ Cardinality(Occupied(Grown(p))) < CapacityOf(Grown(p))
           /\ Grown(p).base = p.base /\ Grown(p).made = p.made
           /\ Grown(p).given = p.given
           /\ PoolFinds(p) => PoolFinds(Grown(p))
<1> DEFINE old == CapacityOf(p)
           occ == Cardinality(Occupied(p))
<1>1. /\ old \in Nat \ {0} /\ occ \in Nat /\ occ <= old /\ occ <= p.count
      /\ p.count \in Nat
  BY OccupiedIs DEF PoolShape
<1> HIDE DEF old, occ
<1>2. CASE 2 * p.count >= old
  <2>1. Grown(p) = PoolRehash(p, 2 * old)
    BY <1>2 DEF Grown, old
  <2>2. 2 * old \in Nat /\ 2 * old > old
    BY <1>1
  <2>3. Cardinality(Occupied(PoolRehash(p, 2 * old))) < 2 * old
    <3> DEFINE a == Cardinality(Occupied(PoolRehash(p, 2 * old)))
    <3>1. a <= occ /\ a \in Nat
      <4>1. /\ PoolShape(PoolRehash(p, 2 * old)) /\ a <= occ
        BY <2>2, RehashKeeps DEF old, occ
      <4>2. a \in Nat
        BY <4>1, OccupiedIs DEF PoolShape
      <4> QED
        BY <4>1, <4>2
    <3> HIDE DEF a
    <3>2. a < 2 * old
      BY <1>1, <3>1
    <3> QED
      BY <3>2 DEF a
  <2>4. CapacityOf(PoolRehash(p, 2 * old)) = 2 * old
    BY <2>2, RehashKeeps DEF old
  <2> QED
    BY <2>1, <2>2, <2>3, <2>4, RehashKeeps DEF old
<1>3. CASE ~(2 * p.count >= old)
  <2>1. Grown(p) = p
    BY <1>3 DEF Grown, old
  <2>2. occ < old
    BY <1>1, <1>3
  <2> QED
    BY <2>1, <2>2 DEF old, occ
<1> QED
  BY <1>2, <1>3

(* Intern keeps the invariant: it finds the copy of the text or the slot the *)
(* next probe for the text ends at.                                          *)
LEMMA InternKeeps ==
    ASSUME PoolIInv, NEW t \in Text, Intern(t)
    PROVE  PoolIInv'
<1> DEFINE p == Grown(pool)
           cap == CapacityOf(p)
           s == Probe(p.slots, t, {"none", t})
           new == CopyOf(t, p.made + 1)
<1>1. /\ PoolShape(p) /\ PoolFinds(p) /\ Cardinality(Occupied(p)) < cap
  BY GrownKeeps DEF PoolIInv
<1>2. pool' = IF p.slots[s] # NoCopy
              THEN [p EXCEPT !.given[t] = @ \cup {p.slots[s]}]
              ELSE [p EXCEPT !.slots[s] = new, !.count = @ + 1, !.made = @ + 1,
                             !.given[t] = @ \cup {new}]
  BY DEF Intern
<1> HIDE DEF p
<1>3. /\ cap \in Nat \ {0} /\ p.slots \in SlotMap(cap) /\ Occupied(p) = Taken(p.slots)
      /\ p.count \in Nat /\ p.made \in Nat /\ p.base \in 0 .. p.made
      /\ p.given \in [Text -> SUBSET Copy]
      /\ p = [slots |-> p.slots, count |-> p.count, made |-> p.made,
              base |-> p.base, given |-> p.given]
      /\ Cardinality(Occupied(p)) <= p.count
  BY <1>1, OccupiedIs DEF PoolShape
<1>4. new \in Copy /\ new # NoCopy /\ new.text = t /\ new.nr = p.made + 1
  BY <1>3 DEF CopyOf, Copy, NoCopy, PoolAssumption
<1>f. /\ RecentReached(p.slots, cap, p.base, p.given)
      /\ Numbered(p.slots, cap, p.made, p.given)
  BY <1>1 DEF PoolFinds
<1> HIDE DEF cap, new
<1>5. \E u \in 0 .. cap - 1 : p.slots[u] = NoCopy
  BY <1>1, <1>3, NotFull
<1>6. s \in 0 .. cap - 1 /\ p.slots[s].text \in {"none", t}
  <2>1. PICK u \in 0 .. cap - 1 : p.slots[u].text \in {"none", t}
    BY <1>3, <1>5, CopiesOf
  <2> DEFINE texts == {"none", t}
  <2>2. p.slots[u].text \in texts
    BY <2>1
  <2> HIDE DEF texts, s
  <2>3. PICK i : Stops(p.slots, cap, t, texts, i, Probe(p.slots, t, texts))
    BY <1>3, <2>2, ProbeStops
  <2>4. Probe(p.slots, t, texts) = s
    BY DEF s, texts
  <2>5. i \in 0 .. cap - 1 /\ s = SlotAt(t, i, cap) /\ p.slots[s].text \in texts
    BY <2>3, <2>4 DEF Stops
  <2>6. s \in 0 .. cap - 1
    BY <1>3, <2>5, ProbeVisits
  <2> QED
    BY <2>5, <2>6 DEF texts
<1>7. CASE p.slots[s] # NoCopy
  <2> DEFINE c == p.slots[s]
             given == [p.given EXCEPT ![t] = @ \cup {c}]
  <2>1. c \in Copy /\ c.text = t /\ s \in DOMAIN p.slots
    BY <1>3, <1>6, <1>7, CopiesOf, CapacityIs
  <2>2. /\ c.nr <= p.made
        /\ c.nr > p.base => c \in p.given[t]
    BY <1>6, <1>7, <1>f, <2>1 DEF RecentReached, Numbered
  <2> HIDE DEF s, c
  <2>3. pool' = [p EXCEPT !.given = given]
    BY <1>2, <1>7 DEF s, c
  <2>4. /\ given \in [Text -> SUBSET Copy] /\ given[t] = p.given[t] \cup {c}
        /\ \A v \in Text \ {t} : given[v] = p.given[v]
    BY <1>3, <2>1
  <2> HIDE DEF given
  <2>5. pool' = [slots |-> p.slots, count |-> p.count, made |-> p.made,
                 base |-> p.base, given |-> given]
    BY <1>3, <2>3
  <2>c. CapacityOf(pool') = cap /\ Occupied(pool') = Occupied(p)
    BY <2>5 DEF CapacityOf, Occupied, cap
  <2>6. PoolShape(pool')
    BY <1>3, <2>4, <2>5, <2>c DEF PoolShape
  <2>7. ASSUME NEW u \in Text, NEW d \in given[u], d.nr > p.base PROVE d \in p.given[u]
    BY <2>2, <2>4, <2>7
  <2>8. \A u \in Text : p.given[u] \subseteq given[u]
    BY <2>4
  <2>9. RecentReached(p.slots, cap, p.base, given)
    <3>1. ASSUME NEW v \in 0 .. cap - 1, p.slots[v] # NoCopy, p.slots[v].nr > p.base
          PROVE  p.slots[v] \in given[p.slots[v].text]
      <4>1. p.slots[v].text \in Text /\ p.slots[v] \in p.given[p.slots[v].text]
        BY <1>3, <1>f, <3>1, CopiesOf DEF RecentReached
      <4> QED
        BY <2>8, <4>1
    <3> QED
      BY <1>f, <2>7, <3>1 DEF RecentReached
  <2>10. Numbered(p.slots, cap, p.made, given)
    BY <1>f, <2>2, <2>4 DEF Numbered
  <2>11. PoolFinds(pool')
    BY <2>5, <2>9, <2>10, <2>c DEF PoolFinds
  <2> QED
    BY <2>6, <2>11 DEF PoolIInv
<1>8. CASE p.slots[s] = NoCopy
  <2> DEFINE slots == [p.slots EXCEPT ![s] = new]
             given == [p.given EXCEPT ![t] = @ \cup {new}]
  <2> HIDE DEF s
  <2>1. pool' = [p EXCEPT !.slots = slots, !.count = @ + 1, !.made = @ + 1, !.given = given]
    BY <1>2, <1>8 DEF s
  <2>2. /\ given \in [Text -> SUBSET Copy] /\ given[t] = p.given[t] \cup {new}
        /\ \A u \in Text \ {t} : given[u] = p.given[u]
    BY <1>3, <1>4
  <2>3. DOMAIN p.slots = 0 .. cap - 1
    BY <1>3, CapacityIs
  <2>4. /\ slots \in SlotMap(cap) /\ DOMAIN slots = 0 .. cap - 1
        /\ slots[s] = new /\ \A u \in 0 .. cap - 1 : u # s => slots[u] = p.slots[u]
    BY <1>3, <1>4, <1>6, <2>3 DEF SlotMap
  <2> HIDE DEF slots, given
  <2>5. pool' = [slots |-> slots, count |-> p.count + 1, made |-> p.made + 1,
                 base |-> p.base, given |-> given]
    BY <1>3, <2>1
  <2>c. CapacityOf(pool') = cap /\ Occupied(pool') = Taken(slots)
    <3>1. pool'.slots = slots /\ Cardinality(DOMAIN slots) = cap
      BY <1>3, <2>4, <2>5, CapacityIs
    <3> QED
      BY <3>1 DEF CapacityOf, Occupied, Taken
  <2>6. PoolShape(pool')
    <3>1. p.base \in 0 .. p.made + 1
      BY <1>3
    <3>2. Taken(slots) \subseteq Taken(p.slots) \cup {s}
      BY <2>3, <2>4 DEF Taken
    <3>3. Cardinality(Taken(slots)) <= p.count + 1
      <4>1. IsFiniteSet(Taken(p.slots)) /\ Cardinality(Taken(p.slots)) \in Nat
        BY <1>3, OccupiedIs
      <4>2. /\ IsFiniteSet(Taken(p.slots) \cup {s})
            /\ Cardinality(Taken(p.slots) \cup {s}) <= Cardinality(Taken(p.slots)) + 1
        BY <4>1, OneMore
      <4>3. /\ Cardinality(Taken(slots)) <= Cardinality(Taken(p.slots) \cup {s})
            /\ Cardinality(Taken(slots)) \in Nat
            /\ Cardinality(Taken(p.slots) \cup {s}) \in Nat
        BY <3>2, <4>2, FS_Subset, FS_CardinalityType
      <4> DEFINE a == Cardinality(Taken(slots))
                 b == Cardinality(Taken(p.slots) \cup {s})
                 d == Cardinality(Taken(p.slots))
      <4>4. /\ a \in Nat /\ b \in Nat /\ d \in Nat /\ p.count \in Nat
            /\ a <= b /\ b <= d + 1 /\ d <= p.count
        BY <1>3, <4>1, <4>2, <4>3
      <4> HIDE DEF a, b, d
      <4>5. a <= p.count + 1
        BY <4>4
      <4> QED
        BY <4>5 DEF a
    <3> QED
      BY <1>3, <2>2, <2>4, <2>5, <2>c, <3>1, <3>3 DEF PoolShape
  <2>7. PoolFinds(pool')
    <3>1. PICK k : /\ k \in 0 .. cap - 1 /\ s = SlotAt(t, k, cap)
                   /\ \A j \in 0 .. k - 1 :
                         p.slots[SlotAt(t, j, cap)].text \notin {"none", t}
      <4> DEFINE texts == {"none", t}
      <4>1. p.slots[s].text \in texts
        BY <1>6
      <4> HIDE DEF texts
      <4>2. s = Probe(p.slots, t, texts)
        BY DEF s, texts
      <4>3. PICK i : Stops(p.slots, cap, t, texts, i, s)
        BY <1>3, <1>6, <4>1, <4>2, ProbeStops
      <4> QED
        BY <4>3 DEF Stops, texts
    <3>2. ASSUME NEW c \in p.given[t], c.nr > p.base PROVE FALSE
      <4>1. c.text = t /\ Reached(p.slots, cap, c) /\ c # NoCopy
        BY <1>3, <1>f, <3>2 DEF RecentReached, Copy, NoCopy, PoolAssumption
      <4>2. PICK i : ReachedAt(p.slots, cap, c, i)
        BY <4>1 DEF Reached
      <4>3. /\ i \in 0 .. cap - 1 /\ p.slots[SlotAt(t, i, cap)] = c
            /\ \A j \in 0 .. i - 1 : p.slots[SlotAt(t, j, cap)] # NoCopy
        BY <4>1, <4>2 DEF ReachedAt
      <4>4. i # k
        BY <1>8, <3>1, <4>1, <4>3
      <4>5. ~(i \in 0 .. k - 1)
        BY <3>1, <4>1, <4>3
      <4>6. ~(k \in 0 .. i - 1)
        BY <1>8, <3>1, <4>3
      <4> QED
        BY <1>3, <3>1, <4>3, <4>4, <4>5, <4>6
    <3>3. Reached(slots, cap, new)
      <4>1. ASSUME NEW j \in 0 .. k - 1 PROVE slots[SlotAt(t, j, cap)] # NoCopy
        <5> DEFINE v == SlotAt(t, j, cap)
        <5>1. j \in 0 .. cap - 1
          BY <1>3, <3>1
        <5>2. v \in 0 .. cap - 1 /\ p.slots[v].text # "none"
          BY <1>3, <3>1, <5>1, ProbeVisits
        <5> HIDE DEF v
        <5>3. p.slots[v] # NoCopy
          BY <5>2 DEF NoCopy
        <5> QED
          BY <1>4, <2>4, <5>2, <5>3 DEF v
      <4> QED
        BY <1>4, <2>4, <3>1, <4>1 DEF Reached, ReachedAt
    <3>4. \A u \in 0 .. cap - 1 : slots[u] = IF u = s THEN new ELSE p.slots[u]
      BY <2>4
    <3>5. ASSUME NEW u \in Text, NEW c \in given[u], c.nr > p.base
          PROVE  c.text = u /\ Reached(slots, cap, c)
      <4>1. CASE c = new /\ u = t
        BY <1>4, <3>3, <4>1
      <4>2. CASE c \in p.given[u]
        <5>1. c \in Copy /\ c.text = u /\ Reached(p.slots, cap, c)
          BY <1>3, <1>f, <3>5, <4>2 DEF RecentReached
        <5> QED
          BY <1>3, <1>4, <1>6, <1>8, <3>4, <5>1, ReachedStays
      <4> QED
        BY <2>2, <3>5, <4>1, <4>2
    <3>6. ASSUME NEW v \in 0 .. cap - 1, slots[v] # NoCopy, slots[v].nr > p.base
          PROVE  slots[v] \in given[slots[v].text]
      <4>1. CASE v = s
        BY <1>4, <2>2, <2>4, <4>1
      <4>2. CASE v # s
        <5>1. slots[v] = p.slots[v]
          BY <2>4, <4>2
        <5>2. p.slots[v].text \in Text /\ p.slots[v] \in p.given[p.slots[v].text]
          BY <1>3, <1>f, <3>6, <5>1, CopiesOf DEF RecentReached
        <5> QED
          BY <2>2, <5>1, <5>2
      <4> QED
        BY <4>1, <4>2
    <3>7. ASSUME NEW u \in Text, NEW c \in given[u], NEW d \in given[u],
                 c.nr > p.base, d.nr > p.base
          PROVE  c = d
      <4>1. CASE u = t
        BY <2>2, <3>2, <3>7, <4>1
      <4>2. CASE u # t
        BY <1>f, <2>2, <3>7, <4>2 DEF RecentReached
      <4> QED
        BY <4>1, <4>2
    <3>8. RecentReached(slots, cap, p.base, given)
      BY <3>5, <3>6, <3>7 DEF RecentReached
    <3>9. Numbered(slots, cap, p.made + 1, given)
      <4>1. ASSUME NEW u \in Text, NEW c \in given[u] PROVE c.nr <= p.made + 1
        <5>1. c = new \/ c \in p.given[u]
          BY <2>2
        <5>2. c \in p.given[u] => c.nr \in Nat /\ c.nr <= p.made
          BY <1>3, <1>f DEF Numbered, Copy
        <5> QED
          BY <1>3, <1>4, <5>1, <5>2
      <4>2. ASSUME NEW v \in 0 .. cap - 1 PROVE slots[v].nr <= p.made + 1
        <5>1. p.slots[v].nr <= p.made
          BY <1>f DEF Numbered
        <5>2. p.slots[v].nr \in Nat
          BY <1>3, CopiesOf DEF Copy, NoCopy
        <5> QED
          BY <1>3, <1>4, <3>4, <5>1, <5>2
      <4> QED
        BY <4>1, <4>2 DEF Numbered
    <3> QED
      BY <2>5, <2>c, <3>8, <3>9 DEF PoolFinds
  <2> QED
    BY <2>6, <2>7 DEF PoolIInv
<1> QED
  BY <1>7, <1>8

-----------------------------------------------------------------------------
(* The compiled modules: their strings are counted, also those that are put   *)
(* over others.                                                             *)
LEMMA ModuleCapIs ==
    ASSUME NEW m \in Seq(Text)
    PROVE  ModuleCap(m) \in Nat
<1> DEFINE N == Len(m)
           Next1(x) == IF x < 2 * N THEN 2 * x ELSE x
           step == [n \in 1 .. N |-> [x \in Nat |-> Next1(x)]]
           Body(g) == [n \in 0 .. N |-> IF n = 0 THEN PoolCap
                                        ELSE IF g[n - 1] < 2 * N THEN 2 * g[n - 1]
                                        ELSE g[n - 1]]
           f == CHOOSE g : g = Body(g)
<1>1. ModuleCap(m) = f[N]
  BY DEF ModuleCap
<1>2. N \in Nat /\ PoolCap \in Nat
  BY DEF PoolAssumption
<1> HIDE DEF N
<1>3. step \in [1 .. N -> [Nat -> Nat]]
  <2>1. \A x \in Nat : Next1(x) \in Nat
    BY <1>2
  <2> HIDE DEF Next1
  <2> QED
    BY <2>1
<1>4. PICK g : /\ g \in [0 .. N -> Nat] /\ g[0] = PoolCap
               /\ \A n \in 1 .. N : g[n] = step[n][g[n - 1]]
  <2> HIDE DEF step
  <2>1. PICK g : Solution(N, Nat, PoolCap, step, g)
    BY <1>2, <1>3, RecursionSolved
  <2> QED
    BY <2>1 DEF Solution
<1>5. g = Body(g)
  <2>1. ASSUME NEW n \in 1 .. N
        PROVE  g[n] = IF g[n - 1] < 2 * N THEN 2 * g[n - 1] ELSE g[n - 1]
    <3>1. n - 1 \in 0 .. N
      BY <1>2
    <3>2. g[n - 1] \in Nat
      BY <1>4, <3>1
    <3>3. step[n][g[n - 1]] = Next1(g[n - 1])
      <4> HIDE DEF Next1
      <4> QED
        BY <3>2
    <3> QED
      BY <1>4, <3>3
  <2> HIDE DEF step
  <2>2. \A n \in 0 .. N : n = 0 \/ n \in 1 .. N
    BY <1>2
  <2>3. \A n \in 0 .. N : g[n] = Body(g)[n]
    BY <1>4, <2>1, <2>2
  <2>4. g = [n \in 0 .. N |-> g[n]]
    BY <1>4
  <2> QED
    BY <2>3, <2>4
<1>6. f = Body(f)
  <2> HIDE DEF Body
  <2> QED
    BY <1>5
<1> HIDE DEF f
<1> DEFINE S == {n \in 0 .. N : f[n] \in Nat}
<1>7. 0 \in S
  <2>1. 0 \in 0 .. N
    BY <1>2
  <2>2. f[0] = Body(f)[0]
    BY <1>6
  <2> QED
    BY <1>2, <2>1, <2>2
<1>8. ASSUME NEW n \in 0 .. N - 1, n \in S PROVE n + 1 \in S
  <2>1. n + 1 \in 0 .. N /\ n + 1 # 0 /\ n + 1 - 1 = n
    BY <1>2
  <2>2. f[n + 1] = Body(f)[n + 1]
    BY <1>6
  <2>3. f[n + 1] = IF f[n] < 2 * N THEN 2 * f[n] ELSE f[n]
    BY <2>1, <2>2
  <2> QED
    BY <1>2, <1>8, <2>1, <2>3
<1> HIDE DEF S
<1>9. 0 .. N \subseteq S
  BY <1>2, <1>7, <1>8, UpTo
<1>10. N \in S
  BY <1>2, <1>9
<1> QED
  BY <1>1, <1>10 DEF S

LEMMA IntervalSize ==
    ASSUME NEW N \in Nat
    PROVE  IsFiniteSet(1 .. N) /\ Cardinality(1 .. N) = N
<1>1. 1 \in Int /\ N \in Int
  OBVIOUS
<1>2. IsFiniteSet(1 .. N) /\ Cardinality(1 .. N) = IF 1 > N THEN 0 ELSE N - 1 + 1
  BY <1>1, FS_Interval
<1> DEFINE C == Cardinality(1 .. N)
<1>3. C = IF 1 > N THEN 0 ELSE N - 1 + 1
  BY <1>2
<1> HIDE DEF C
<1>4. C = N
  BY <1>3
<1> QED
  BY <1>2, <1>4 DEF C

LEMMA ImageSize ==
    ASSUME NEW S, IsFiniteSet(S), NEW f
    PROVE  /\ IsFiniteSet({f[i] : i \in S})
           /\ Cardinality({f[i] : i \in S}) <= Cardinality(S)
<1> DEFINE T == {f[i] : i \in S}
           g == [i \in S |-> f[i]]
<1>1. g \in Surjection(S, T)
  BY DEF Surjection
<1> HIDE DEF g, T
<1>2. IsFiniteSet(T) /\ Cardinality(T) <= Cardinality(S)
  BY <1>1, FS_Surjection
<1> QED
  BY <1>2 DEF T

LEMMA MaxOf ==
    ASSUME NEW N \in Nat, NEW S \in SUBSET (1 .. N), S # {}
    PROVE  Max(S) \in S
<1> DEFINE T == {N - x : x \in S}
<1>1. T \in SUBSET Nat /\ T # {}
  <2>1. \A x \in S : x \in 1 .. N
    OBVIOUS
  <2>2. \A x \in 1 .. N : N - x \in Nat
    OBVIOUS
  <2> QED
    BY <2>1, <2>2
<1>2. Min(T) \in T /\ \A y \in T : Min(T) <= y
  <2> HIDE DEF T
  <2> QED
    BY <1>1, MinIs
<1>3. PICK x \in S : Min(T) = N - x
  BY <1>2
<1>4. ASSUME NEW y \in S PROVE x >= y
  <2>1. N - x <= N - y
    BY ZenonT(40), <1>2, <1>3
  <2>2. x \in Nat /\ y \in Nat
    OBVIOUS
  <2> QED
    BY <2>1, <2>2
<1> QED
  BY <1>4 DEF Max

LEMMA FilledKeeps ==
    ASSUME NEW p, PoolShape(p), NEW m \in Seq(Text)
    PROVE  PoolShape(Filled(p, m)) /\ (PoolFinds(p) => PoolFinds(Filled(p, m)))
<1> DEFINE cap == CapacityOf(p)
           N == Len(m)
           at == ModuleSlots(m)
           here(s) == {i \in DOMAIN m : at[i] = s}
           slots == [s \in DOMAIN p.slots |-> IF here(s) = {} THEN p.slots[s]
                                              ELSE CopyOf(m[Max(here(s))], p.made + Max(here(s)))]
           q == Filled(p, m)
<1>1. q = [p EXCEPT !.slots = slots, !.count = @ + N, !.made = @ + N, !.base = p.made + N]
  BY DEF Filled
<1>2. N \in Nat /\ DOMAIN m = 1 .. N /\ \A i \in 1 .. N : m[i] \in Text
  OBVIOUS
<1>3. /\ cap \in Nat \ {0} /\ p.slots \in SlotMap(cap) /\ Occupied(p) = Taken(p.slots)
      /\ p.count \in Nat /\ p.made \in Nat /\ p.base \in 0 .. p.made
      /\ p.given \in [Text -> SUBSET Copy]
      /\ p = [slots |-> p.slots, count |-> p.count, made |-> p.made,
              base |-> p.base, given |-> p.given]
      /\ Cardinality(Occupied(p)) <= p.count
  BY OccupiedIs DEF PoolShape
<1> HIDE DEF cap, at, N
<1>4. DOMAIN p.slots = 0 .. cap - 1
  BY <1>3, CapacityIs
<1>p. ASSUME NEW s \in 0 .. cap - 1, here(s) # {}
      PROVE  /\ slots[s] = CopyOf(m[Max(here(s))], p.made + Max(here(s)))
             /\ slots[s] \in Copy /\ slots[s].nr <= p.made + N
  <2> DEFINE k == Max(here(s))
  <2>0. slots[s] = CopyOf(m[k], p.made + k)
    BY <1>4, <1>p
  <2>1. k \in 1 .. N
    <3>1. here(s) \in SUBSET (1 .. N)
      BY <1>2
    <3> HIDE DEF here
    <3> QED
      BY <1>2, <1>p, <3>1, MaxOf
  <2>2. slots[s] = CopyOf(m[Max(here(s))], p.made + Max(here(s)))
    BY <2>0
  <2> HIDE DEF k, slots
  <2>3. p.made + k \in Nat /\ p.made + k <= p.made + N /\ m[k] \in Text
    BY <1>2, <1>3, <2>1
  <2>4. slots[s] \in Copy /\ slots[s].nr <= p.made + N
    BY <2>0, <2>3 DEF CopyOf, Copy
  <2> QED
    BY <2>2, <2>4
<1>k. ASSUME NEW s \in 0 .. cap - 1, here(s) = {} PROVE slots[s] = p.slots[s]
  BY <1>4, <1>k
<1>5. \A s \in 0 .. cap - 1 : slots[s] \in Copy \cup {NoCopy}
  <2> HIDE DEF here, slots
  <2>1. \A s \in 0 .. cap - 1 : p.slots[s] \in Copy \cup {NoCopy}
    BY <1>3 DEF SlotMap
  <2> QED
    BY <1>p, <1>k, <2>1
<1>6. slots = [s \in 0 .. cap - 1 |-> slots[s]]
  BY <1>4
<1>7. Taken(slots) \subseteq Taken(p.slots) \cup {at[i] : i \in 1 .. N}
  <2>1. ASSUME NEW s \in 0 .. cap - 1, here(s) = {} PROVE slots[s] = p.slots[s]
    BY <1>k, <2>1
  <2>2. ASSUME NEW s, here(s) # {} PROVE s \in {at[i] : i \in 1 .. N}
    BY <1>2, <2>2
  <2>3. DOMAIN slots = 0 .. cap - 1
    BY <1>4
  <2> HIDE DEF here, slots
  <2> QED
    BY <1>4, <2>1, <2>2, <2>3 DEF Taken
<1> HIDE DEF slots, q
<1>8. slots \in SlotMap(cap)
  BY <1>5, <1>6 DEF SlotMap
<1>9. q = [slots |-> slots, count |-> p.count + N, made |-> p.made + N,
           base |-> p.made + N, given |-> p.given]
  BY <1>1, <1>3
<1>10. CapacityOf(q) = cap /\ Occupied(q) = Taken(slots) /\ Cardinality(Occupied(q)) \in Nat
  <2>1. q.slots = slots /\ q.slots \in SlotMap(cap)
    BY <1>8, <1>9
  <2> HIDE DEF cap, q
  <2>2. CapacityOf(q) = cap /\ Occupied(q) = Taken(q.slots) /\ Cardinality(Occupied(q)) \in Nat
    BY <1>3, <2>1, OccupiedIs
  <2> QED
    BY <2>1, <2>2
<1>11. Cardinality(Taken(slots)) <= p.count + N
  <2> DEFINE I == {at[i] : i \in 1 .. N}
             U == Taken(p.slots) \cup I
  <2>1. IsFiniteSet(1 .. N) /\ Cardinality(1 .. N) = N
    BY <1>2, IntervalSize
  <2>2. IsFiniteSet(I) /\ Cardinality(I) <= N /\ Cardinality(I) \in Nat
    <3>1. IsFiniteSet(I) /\ Cardinality(I) <= Cardinality(1 .. N)
      BY <2>1, ImageSize
    <3> QED
      BY <2>1, <3>1, FS_CardinalityType
  <2>3. IsFiniteSet(Taken(p.slots)) /\ Cardinality(Taken(p.slots)) \in Nat
    BY <1>3, OccupiedIs
  <2> HIDE DEF I
  <2>4. /\ IsFiniteSet(U) /\ IsFiniteSet(Taken(p.slots) \cap I)
        /\ Cardinality(U) = Cardinality(Taken(p.slots)) + Cardinality(I)
                            - Cardinality(Taken(p.slots) \cap I)
    BY <2>2, <2>3, FS_Union, FS_Intersection
  <2>5. /\ Cardinality(Taken(slots)) <= Cardinality(U) /\ Cardinality(Taken(slots)) \in Nat
        /\ Cardinality(U) \in Nat /\ Cardinality(Taken(p.slots) \cap I) \in Nat
    BY <1>7, <2>4, FS_Subset, FS_CardinalityType DEF I
  <2> DEFINE a == Cardinality(Taken(slots))
             b == Cardinality(U)
             c == Cardinality(Taken(p.slots))
             d == Cardinality(I)
             e == Cardinality(Taken(p.slots) \cap I)
  <2>6. /\ a \in Nat /\ b \in Nat /\ c \in Nat /\ d \in Nat /\ e \in Nat
        /\ a <= b /\ b = c + d - e /\ d <= N /\ c <= p.count
    BY <1>3, <2>2, <2>3, <2>4, <2>5
  <2> HIDE DEF a, b, c, d, e
  <2>7. a <= p.count + N
    BY <1>2, <1>3, <2>6
  <2> QED
    BY <2>7 DEF a
<1>12. PoolShape(q)
  <2>1. p.made + N \in Nat /\ p.made + N \in 0 .. p.made + N
    BY <1>2, <1>3
  <2> QED
    BY <1>2, <1>3, <1>8, <1>9, <1>10, <1>11, <2>1 DEF PoolShape
<1>13. ASSUME PoolFinds(p) PROVE PoolFinds(q)
  <2> HIDE DEF here
  <2>1. Numbered(p.slots, cap, p.made, p.given)
    BY <1>13 DEF PoolFinds, cap
  <2>2. ASSUME NEW s \in 0 .. cap - 1 PROVE slots[s].nr \in Nat /\ slots[s].nr <= p.made + N
    <3>1. slots[s].nr \in Nat
      <4>1. slots[s] \in Copy \/ slots[s] = NoCopy
        BY <1>5
      <4>2. (\A c \in Copy : c.nr \in Nat) /\ NoCopy.nr \in Nat
        BY DEF Copy, NoCopy
      <4> QED
        BY <4>1, <4>2
    <3>2. CASE here(s) = {}
      <4>1. slots[s] = p.slots[s] /\ p.slots[s].nr <= p.made
        BY <1>k, <2>1, <3>2 DEF Numbered
      <4> QED
        BY <1>2, <1>3, <3>1, <4>1
    <3>3. CASE here(s) # {}
      BY <1>p, <3>1, <3>3
    <3> QED
      BY <3>2, <3>3
  <2>3. ASSUME NEW t \in Text, NEW c \in p.given[t] PROVE c.nr \in Nat /\ c.nr <= p.made + N
    <3>1. c.nr \in Nat /\ c.nr <= p.made
      BY <1>3, <2>1 DEF Numbered, Copy
    <3> QED
      BY <1>2, <1>3, <3>1
  <2>4. Numbered(slots, cap, p.made + N, p.given)
    BY <2>2, <2>3 DEF Numbered
  <2>5. RecentReached(slots, cap, p.made + N, p.given)
    <3>1. ASSUME NEW x \in Nat, x <= p.made + N, x > p.made + N PROVE FALSE
      BY <1>2, <1>3, <3>1
    <3> QED
      BY <2>2, <2>3, <3>1 DEF RecentReached
  <2> QED
    BY <1>9, <1>10, <2>4, <2>5 DEF PoolFinds
<1> QED
  BY <1>12, <1>13 DEF q

LEMMA LoadKeeps ==
    ASSUME PoolIInv, NEW m \in Modules, LoadModule(m)
    PROVE  PoolIInv'
<1> DEFINE p == Reserved(pool, ModuleCap(m))
<1>1. m \in Seq(Text) /\ ModuleCap(m) \in Nat
  BY ModuleCapIs DEF PoolAssumption
<1>2. PoolShape(p) /\ PoolFinds(p)
  <2>1. CASE ModuleCap(m) > CapacityOf(pool)
    BY <1>1, <2>1, RehashKeeps DEF PoolIInv, Reserved
  <2>2. CASE ~(ModuleCap(m) > CapacityOf(pool))
    BY <2>2 DEF PoolIInv, Reserved
  <2> QED
    BY <2>1, <2>2
<1>3. pool' = Filled(p, m)
  BY DEF LoadModule
<1> HIDE DEF p
<1>4. PoolShape(pool') /\ PoolFinds(pool')
  BY <1>1, <1>2, <1>3, FilledKeeps
<1> QED
  BY <1>4 DEF PoolIInv

LEMMA PoolInitHolds == PoolInit => PoolIInv
<1> SUFFICES ASSUME PoolInit PROVE PoolIInv
  OBVIOUS
<1> DEFINE given == [t \in Text |-> {}]
<1>1. pool = [slots |-> Empty(PoolCap), count |-> 0, made |-> 0, base |-> 0,
             given |-> given]
  BY DEF PoolInit, Empty
<1>2. PoolCap \in Nat \ {0} /\ Empty(PoolCap) \in SlotMap(PoolCap)
  BY DEF PoolAssumption, Empty, SlotMap
<1>3. Taken(Empty(PoolCap)) = {} /\ Cardinality({}) = 0
  BY FS_EmptySet DEF Taken, Empty
<1>4. CapacityOf(pool) = PoolCap /\ Occupied(pool) = {}
  BY <1>1, <1>2, <1>3, OccupiedIs
<1>5. PoolShape(pool)
  <2>1. given \in [Text -> SUBSET Copy]
    OBVIOUS
  <2>2. Cardinality(Occupied(pool)) <= pool.count
    <3>1. Cardinality(Occupied(pool)) = 0 /\ pool.count = 0
      BY <1>1, <1>3, <1>4
    <3> QED
      BY <3>1
  <2> QED
    <3>1. /\ pool.slots = Empty(PoolCap) /\ pool.count = 0 /\ pool.made = 0 /\ pool.base = 0
          /\ pool.given = given
          /\ pool = [slots |-> pool.slots, count |-> pool.count, made |-> pool.made,
                     base |-> pool.base, given |-> pool.given]
      BY <1>1
    <3>2. CapacityOf(pool) \in Nat \ {0} /\ pool.slots \in SlotMap(CapacityOf(pool))
      BY <1>2, <1>4, <3>1
    <3> QED
      BY <2>1, <2>2, <3>1, <3>2 DEF PoolShape
<1>6. PoolFinds(pool)
  <2>1. \A s \in 0 .. PoolCap - 1 : pool.slots[s] = NoCopy /\ NoCopy.nr <= 0
    BY <1>1 DEF Empty, NoCopy
  <2>2. \A t \in Text : pool.given[t] = {}
    BY <1>1
  <2>3. pool.made = 0
    BY <1>1
  <2> QED
    BY <1>4, <2>1, <2>2, <2>3 DEF PoolFinds, RecentReached, Numbered
<1> QED
  BY <1>5, <1>6 DEF PoolIInv

THEOREM PoolIInvHolds == PoolSpec => []PoolIInv
<1>1. PoolIInv /\ [PoolNext]_pool => PoolIInv'
  <2> SUFFICES ASSUME PoolIInv, [PoolNext]_pool PROVE PoolIInv'
    OBVIOUS
  <2>1. ASSUME NEW t \in Text, Intern(t) PROVE PoolIInv'
    BY <2>1, InternKeeps
  <2>2. ASSUME NEW m \in Modules, LoadModule(m) PROVE PoolIInv'
    BY <2>2, LoadKeeps
  <2>3. CASE UNCHANGED pool
    BY <2>3 DEF PoolIInv
  <2> QED
    BY <2>1, <2>2, <2>3 DEF PoolNext
<1> QED
  BY <1>1, PoolInitHolds, PTL DEF PoolSpec

(* Every probe of an intern ends at an empty slot at the latest: whatever the *)
(* hashes are and however often compiled modules put their strings over       *)
(* others, the growth that the count calls for comes in time.                *)
THEOREM ProbesEnd == PoolSpec => []PoolProbeEnds
<1>1. PoolIInv => PoolProbeEnds
  BY GrownKeeps DEF PoolIInv, PoolProbeEnds
<1> QED
  BY <1>1, PoolIInvHolds, PTL

(* Between two loads of modules all interns of a text that the pool does not  *)
(* hold yet make one copy, over any number of collisions and growths, and     *)
(* whatever strings the modules before left in the slots.                    *)
THEOREM OneCopyMadeEach == PoolSpec => []OneCopyMade
<1>1. PoolIInv => OneCopyMade
  <2> SUFFICES ASSUME PoolIInv, NEW t \in Text
               PROVE  Cardinality({c \in pool.given[t] : c.nr > pool.base}) <= 1
    BY DEF OneCopyMade
  <2> DEFINE Recent == {c \in pool.given[t] : c.nr > pool.base}
  <2>1. \A c, d \in Recent : c = d
    BY DEF PoolIInv, PoolFinds, RecentReached
  <2> HIDE DEF Recent
  <2>2. Cardinality(Recent) <= 1
    <3>1. CASE Recent = {}
      BY <3>1, FS_EmptySet
    <3>2. CASE Recent # {}
      <4>1. PICK c \in Recent : TRUE
        BY <3>2
      <4>2. Recent = {c}
        BY <2>1, <4>1
      <4>3. Cardinality({c}) = 1
        BY FS_Singleton
      <4> QED
        BY <4>2, <4>3
    <3> QED
      BY <3>1, <3>2
  <2> QED
    BY <2>2 DEF Recent
<1> QED
  BY <1>1, PoolIInvHolds, PTL
=============================================================================

--------------------------- MODULE PatternsProofs ---------------------------
(***************************************************************************)
(* Proofs about pattern matching, for texts and patterns of any length, any *)
(* characters and any number of captures: what match finds against the ways *)
(* to match, and what find, gmatch, gsub and string.sub make of it.         *)
(***************************************************************************)
EXTENDS PatternsProps, FiniteSetTheorems, SequenceTheorems, WellFoundedInduction, TLAPS

-----------------------------------------------------------------------------
(* Induction and recursion, over sets of numbers.                            *)

LEMMA LeastOf ==
    ASSUME NEW S \in SUBSET Nat, S # {}
    PROVE  \E x \in S : \A y \in S : x <= y
<1> DEFINE R == OpToRel(<, Nat)
<1>1. IsWellFoundedOn(R, Nat)
  BY NatLessThanWellFounded
<1>2. \A y, x \in Nat : <<y, x>> \in R <=> y < x
  BY DEF OpToRel
<1> HIDE DEF R
<1>3. PICK x \in S : \A y \in S : ~(<<y, x>> \in R)
  BY <1>1, WFMin
<1>4. ASSUME NEW y \in S PROVE x <= y
  <2>1. x \in Nat /\ y \in Nat
    OBVIOUS
  <2>2. ~(y < x)
    BY <1>2, <1>3, <2>1, Zenon
  <2> QED
    BY <2>1, <2>2
<1> QED
  BY <1>4

(* What holds of 0 and, below N, of n + 1 when it holds of n.                *)
LEMMA UpTo ==
    ASSUME NEW N \in Nat, NEW S, 0 \in S,
           \A n \in 0 .. N - 1 : n \in S => n + 1 \in S
    PROVE  0 .. N \subseteq S
<1> DEFINE Bad == {n \in 0 .. N : n \notin S}
<1> SUFFICES ASSUME Bad # {} PROVE FALSE
  OBVIOUS
<1>0. Bad \in SUBSET Nat
  OBVIOUS
<1>1. PICK m \in Bad : \A y \in Bad : m <= y
  <2> HIDE DEF Bad
  <2> QED
    BY <1>0, LeastOf
<1>2. m \in Nat /\ m \in 0 .. N /\ m \notin S /\ m # 0
  BY <1>1
<1>3. m - 1 \in 0 .. N - 1 /\ ~(m <= m - 1) /\ m - 1 + 1 = m /\ m - 1 \in 0 .. N
  BY <1>2
<1>4. m - 1 \in S
  BY <1>1, <1>3
<1> QED
  BY <1>2, <1>3, <1>4

(* A function defined by recursion from 0 to N exists. *)
Solution(N, X, x0, step, f) ==
    /\ f \in [0 .. N -> X]
    /\ f[0] = x0
    /\ \A n \in 1 .. N : f[n] = step[n][f[n - 1]]

LEMMA RecursionSolved ==
    ASSUME NEW N \in Nat, NEW X, NEW x0 \in X, NEW step \in [1 .. N -> [X -> X]]
    PROVE  \E f : Solution(N, X, x0, step, f)
<1> DEFINE Solves(n, f) == /\ f \in [0 .. n -> X] /\ f[0] = x0
                           /\ \A k \in 1 .. n : f[k] = step[k][f[k - 1]]
           S == {n \in 0 .. N : \E f : Solves(n, f)}
<1>1. 0 \in S
  <2> DEFINE f == [k \in 0 .. 0 |-> x0]
  <2>1. f \in [0 .. 0 -> X] /\ f[0] = x0
    OBVIOUS
  <2>2. \A k \in 1 .. 0 : f[k] = step[k][f[k - 1]]
    OBVIOUS
  <2>3. 0 \in 0 .. N /\ Solves(0, f)
    BY <2>1, <2>2
  <2> QED
    BY <2>3
<1>2. ASSUME NEW n \in 0 .. N - 1, n \in S PROVE n + 1 \in S
  <2>1. PICK f : Solves(n, f)
    BY <1>2
  <2> DEFINE g == [k \in 0 .. n + 1 |-> IF k = n + 1 THEN step[n + 1][f[n]] ELSE f[k]]
  <2>2. n \in Nat /\ n + 1 \in 1 .. N /\ n + 1 \in 0 .. N /\ n \in 0 .. n
    OBVIOUS
  <2>3. step[n + 1][f[n]] \in X
    BY <2>1, <2>2
  <2>4. g \in [0 .. n + 1 -> X] /\ g[0] = x0
    BY <2>1, <2>2, <2>3
  <2>5. ASSUME NEW k \in 1 .. n + 1 PROVE g[k] = step[k][g[k - 1]]
    <3>1. k - 1 \in 0 .. n /\ g[k - 1] = f[k - 1]
      BY <2>2
    <3>2. CASE k = n + 1
      BY <2>2, <3>1, <3>2
    <3>3. CASE k # n + 1
      <4>1. k \in 1 .. n
        BY <2>2, <3>3
      <4> QED
        BY <2>1, <3>1, <3>3, <4>1
    <3> QED
      BY <3>2, <3>3
  <2>6. Solves(n + 1, g)
    BY <2>4, <2>5
  <2> QED
    BY <2>2, <2>6
<1>3. 0 .. N \subseteq S
  BY <1>1, <1>2, UpTo
<1> HIDE DEF Solves
<1>4. N \in S
  BY <1>3
<1>5. PICK f : Solves(N, f)
  BY <1>4
<1> QED
  BY <1>5 DEF Solves, Solution

-----------------------------------------------------------------------------
(* The recursive functions of Patterns are what their definitions say.       *)

LEMMA WayIs ==
    ASSUME NEW src, NEW pat, Len(pat) \in Nat, NEW s, NEW v, NEW w,
           w = Way(src, pat, s, v)
    PROVE  /\ w[0] = At(s, <<>>)
           /\ \A p \in 1 .. Len(pat) :
                  w[p] = IF w[p - 1].s = 0 THEN Null(<<>>) ELSE WayItem(src, pat[p], v[p], w[p - 1])
<1> DEFINE N == Len(pat)
           Step(p, m) == IF m.s = 0 THEN Null(<<>>) ELSE WayItem(src, pat[p], v[p], m)
           Solves(n, f) == f = [p \in 0 .. n |-> IF p = 0 THEN At(s, <<>>) ELSE Step(p, f[p - 1])]
           S == {n \in 0 .. N : \E g : Solves(n, g)}
<1> HIDE DEF Step
<1>1. 0 \in S
  <2> DEFINE f == [p \in 0 .. 0 |-> At(s, <<>>)]
  <2>1. Solves(0, f)
    OBVIOUS
  <2> HIDE DEF Solves, f
  <2> QED
    BY <2>1
<1>2. ASSUME NEW n \in 0 .. N - 1, n \in S PROVE n + 1 \in S
  <2>1. PICK f : Solves(n, f)
    BY <1>2
  <2> DEFINE g == [p \in 0 .. n + 1 |-> IF p = n + 1 THEN Step(n + 1, f[n]) ELSE f[p]]
  <2>2. ASSUME NEW p \in 0 .. n + 1
        PROVE  g[p] = IF p = 0 THEN At(s, <<>>) ELSE Step(p, g[p - 1])
    <3>1. CASE p = n + 1
      <4>1. p # 0 /\ p - 1 = n /\ n \in 0 .. n + 1 /\ n # n + 1
        BY <3>1
      <4> QED
        BY <3>1, <4>1
    <3>2. CASE p # n + 1
      <4>1. p \in 0 .. n /\ g[p] = f[p]
        BY <3>2
      <4>2. p # 0 => p - 1 \in 0 .. n + 1 /\ p - 1 # n + 1
        BY <4>1
      <4>3. f[p] = IF p = 0 THEN At(s, <<>>) ELSE Step(p, f[p - 1])
        BY <2>1, <4>1
      <4> QED
        BY <4>1, <4>2, <4>3
    <3> QED
      BY <3>1, <3>2
  <2>3. Solves(n + 1, g)
    BY <2>2
  <2> HIDE DEF Solves, g
  <2> QED
    BY <2>3
<1>3. PICK f : Solves(N, f)
  <2> HIDE DEF S
  <2>1. 0 .. N \subseteq S
    BY <1>1, <1>2, UpTo
  <2>2. N \in S
    BY <2>1
  <2> QED
    BY <2>2 DEF S
<1>4. w = CHOOSE g : Solves(N, g)
  BY DEF Way, Step
<1>5. Solves(N, w)
  BY <1>3, <1>4
<1> QED
  BY <1>5 DEF Step

LEMMA MatchIs ==
    ASSUME NEW src, NEW pat, Len(pat) \in Nat, NEW M, M = Match(src, pat)
    PROVE  \A p \in 1 .. Len(pat) + 1 :
               M[p] = [m \in States(src) |-> IF p > Len(pat) THEN m
                                            ELSE MatchItem(src, pat[p], M[p + 1], m)]
<1> DEFINE N == Len(pat)
           Step(p, r) == [m \in States(src) |-> IF p > N THEN m ELSE MatchItem(src, pat[p], r, m)]
           Solves(n, f) == f = [p \in N + 1 - n .. N + 1 |-> Step(p, f[p + 1])]
           S == {n \in 0 .. N : \E g : Solves(n, g)}
<1>0. ASSUME NEW r, NEW t PROVE Step(N + 1, r) = Step(N + 1, t)
  <2>1. N + 1 > N
    OBVIOUS
  <2> QED
    BY <2>1
<1> HIDE DEF Step
<1>1. 0 \in S
  <2> DEFINE f == [p \in N + 1 .. N + 1 |-> Step(p, 0)]
  <2>1. \A p \in N + 1 .. N + 1 : f[p] = Step(p, f[p + 1])
    BY <1>0
  <2>2. Solves(0, f)
    BY <2>1
  <2> HIDE DEF Solves, f
  <2> QED
    BY <2>2
<1>2. ASSUME NEW n \in 0 .. N - 1, n \in S PROVE n + 1 \in S
  <2>1. PICK f : Solves(n, f)
    BY <1>2
  <2> DEFINE g == [p \in N - n .. N + 1 |-> IF p = N - n THEN Step(p, f[p + 1]) ELSE f[p]]
  <2>2. ASSUME NEW p \in N - n .. N + 1 PROVE g[p] = Step(p, g[p + 1])
    <3>1. p + 1 \in N - n .. N + 1 /\ p + 1 # N - n => g[p + 1] = f[p + 1]
      OBVIOUS
    <3>2. CASE p = N - n
      <4>1. p + 1 \in N - n .. N + 1 /\ p + 1 # N - n
        BY <3>2
      <4> QED
        BY <3>1, <3>2, <4>1
    <3>3. CASE p # N - n
      <4>1. p \in N + 1 - n .. N + 1 /\ g[p] = f[p]
        BY <3>3
      <4>2. f[p] = Step(p, f[p + 1])
        BY <2>1, <4>1
      <4>3. CASE p = N + 1
        BY <1>0, <4>1, <4>2, <4>3
      <4>4. CASE p # N + 1
        <5>1. p + 1 \in N - n .. N + 1 /\ p + 1 # N - n
          BY <4>1, <4>4
        <5> QED
          BY <3>1, <4>1, <4>2, <5>1
      <4> QED
        BY <4>3, <4>4
    <3> QED
      BY <3>2, <3>3
  <2>3. Solves(n + 1, g)
    <3>1. N + 1 - (n + 1) = N - n
      OBVIOUS
    <3> QED
      BY <2>2, <3>1
  <2> HIDE DEF Solves, g
  <2> QED
    BY <2>3
<1>3. PICK f : Solves(N, f)
  <2> HIDE DEF S
  <2>1. 0 .. N \subseteq S
    BY <1>1, <1>2, UpTo
  <2>2. N \in S
    BY <2>1
  <2> QED
    BY <2>2 DEF S
<1>4. M = CHOOSE g : Solves(N, g)
  <2>1. N + 1 - N = 1
    OBVIOUS
  <2> QED
    BY <2>1 DEF Match, Step
<1>5. Solves(N, M)
  BY <1>3, <1>4
<1>6. N + 1 - N = 1
  OBVIOUS
<1> QED
  BY <1>5, <1>6 DEF Step

(* The loops of max_expand and min_expand: when attempts that fail put the    *)
(* captures back, the first of them that succeeds decides.                    *)
LEMMA FirstMatchIs ==
    ASSUME NEW rest, NEW tried, Len(tried) \in Nat, NEW cap,
           \A k \in 1 .. Len(tried) :
               rest[At(tried[k], cap)].s = 0 => rest[At(tried[k], cap)] = Null(cap)
    PROVE  \/ /\ \A k \in 1 .. Len(tried) : rest[At(tried[k], cap)].s = 0
              /\ FirstMatch(rest, tried, cap) = Null(cap)
           \/ \E k \in 1 .. Len(tried) :
                  /\ rest[At(tried[k], cap)].s # 0
                  /\ \A j \in 1 .. k - 1 : rest[At(tried[j], cap)].s = 0
                  /\ FirstMatch(rest, tried, cap) = rest[At(tried[k], cap)]
<1> DEFINE N == Len(tried)
           R(k) == rest[At(tried[k], cap)]
           Step(k, r) == IF r.s # 0 THEN r ELSE rest[At(tried[k], r.cap)]
           Solves(n, f) == f = [k \in 0 .. n |-> IF k = 0 THEN Null(cap) ELSE Step(k, f[k - 1])]
           S == {n \in 0 .. N : \E g : Solves(n, g)}
<1>a. \A k \in 1 .. N : R(k).s = 0 => R(k) = Null(cap)
  OBVIOUS
<1>b. \A k, r : r.s = 0 /\ r.cap = cap => Step(k, r) = R(k)
  OBVIOUS
<1>c. \A k, r : r.s # 0 => Step(k, r) = r
  OBVIOUS
<1>d. Null(cap).s = 0 /\ Null(cap).cap = cap
  BY DEF Null
<1>e. FirstMatch(rest, tried, cap) = (CHOOSE g : Solves(N, g))[N]
  BY DEF FirstMatch
<1> HIDE DEF Step, R
<1>1. 0 \in S
  <2> DEFINE f == [k \in 0 .. 0 |-> Null(cap)]
  <2>1. Solves(0, f)
    OBVIOUS
  <2> HIDE DEF Solves, f
  <2> QED
    BY <2>1
<1>2. ASSUME NEW n \in 0 .. N - 1, n \in S PROVE n + 1 \in S
  <2>1. PICK f : Solves(n, f)
    BY <1>2
  <2> DEFINE g == [p \in 0 .. n + 1 |-> IF p = n + 1 THEN Step(n + 1, f[n]) ELSE f[p]]
  <2>2. ASSUME NEW p \in 0 .. n + 1
        PROVE  g[p] = IF p = 0 THEN Null(cap) ELSE Step(p, g[p - 1])
    <3>1. CASE p = n + 1
      <4>1. p # 0 /\ p - 1 = n /\ n \in 0 .. n + 1 /\ n # n + 1
        BY <3>1
      <4> QED
        BY <3>1, <4>1
    <3>2. CASE p # n + 1
      <4>1. p \in 0 .. n /\ g[p] = f[p]
        BY <3>2
      <4>2. p # 0 => p - 1 \in 0 .. n + 1 /\ p - 1 # n + 1
        BY <4>1
      <4>3. f[p] = IF p = 0 THEN Null(cap) ELSE Step(p, f[p - 1])
        BY <2>1, <4>1
      <4> QED
        BY <4>1, <4>2, <4>3
    <3> QED
      BY <3>1, <3>2
  <2>3. Solves(n + 1, g)
    BY <2>2
  <2> HIDE DEF Solves, g
  <2> QED
    BY <2>3
<1>3. PICK f : Solves(N, f) /\ FirstMatch(rest, tried, cap) = f[N]
  <2> HIDE DEF S
  <2>1. 0 .. N \subseteq S
    BY <1>1, <1>2, UpTo
  <2>2. N \in S
    BY <2>1
  <2>3. \E g : Solves(N, g)
    BY <2>2 DEF S
  <2>4. Solves(N, CHOOSE g : Solves(N, g))
    BY <2>3
  <2> QED
    BY <1>e, <2>4
<1>4. /\ f[0] = Null(cap)
      /\ \A k \in 1 .. N : f[k] = Step(k, f[k - 1])
  BY <1>3
<1> DEFINE Failed(n) == (\A k \in 1 .. n : R(k).s = 0) /\ f[n] = Null(cap)
           Hit(n) == \E k \in 1 .. n : /\ R(k).s # 0 /\ f[n] = R(k)
                                       /\ \A j \in 1 .. k - 1 : R(j).s = 0
           T == {n \in 0 .. N : Failed(n) \/ Hit(n)}
<1>5. 0 \in T
  BY <1>4
<1>6. ASSUME NEW n \in 0 .. N - 1, n \in T PROVE n + 1 \in T
  <2>1. n + 1 \in 1 .. N /\ f[n + 1] = Step(n + 1, f[n])
    BY <1>4
  <2>2. CASE Failed(n)
    <3>1. f[n + 1] = R(n + 1)
      BY <1>b, <1>d, <2>1, <2>2
    <3>2. CASE R(n + 1).s = 0
      <4>1. \A k \in 1 .. n + 1 : R(k).s = 0
        BY <2>2, <3>2
      <4> QED
        BY <1>a, <2>1, <3>1, <3>2, <4>1
    <3>3. CASE R(n + 1).s # 0
      <4>1. n + 1 \in 1 .. n + 1 /\ \A j \in 1 .. (n + 1) - 1 : R(j).s = 0
        BY <2>2
      <4>2. Hit(n + 1)
        BY <3>1, <3>3, <4>1
      <4> QED
        BY <2>1, <4>2
    <3> QED
      BY <3>2, <3>3
  <2>3. CASE Hit(n)
    <3>1. PICK k \in 1 .. n : /\ R(k).s # 0 /\ f[n] = R(k)
                              /\ \A j \in 1 .. k - 1 : R(j).s = 0
      BY <2>3
    <3>2. f[n + 1] = R(k)
      BY <1>c, <2>1, <3>1
    <3>3. Hit(n + 1)
      BY <3>1, <3>2
    <3> QED
      BY <2>1, <3>3
  <2> QED
    BY <1>6, <2>2, <2>3
<1>7. N \in T
  <2> HIDE DEF T
  <2>1. 0 .. N \subseteq T
    BY <1>5, <1>6, UpTo
  <2> QED
    BY <2>1
<1> QED
  BY <1>3, <1>7 DEF R

-----------------------------------------------------------------------------
(* The positions the default branch of match tries are the characters an item *)
(* can take, each once and the preferred ones first.                         *)

Run(src, s, set, n) ==
    n \in Nat /\ s + n <= Len(src) + 1 /\ \A k \in 0 .. n - 1 : src[s + k] \in set

LEMMA MostIs ==
    ASSUME NEW C, NEW src \in Seq(C), NEW s \in Positions(src), NEW item,
           NEW most, most = Most(src, s, item)
    PROVE  most \in Nat /\ \A n : Run(src, s, item.set, n) <=> n \in 0 .. most
<1> DEFINE L == Len(src)
           takes == {i \in 0 .. L + 1 - s : \A k \in 0 .. i - 1 : SingleMatch(src, s + k, item)}
           Left == {L + 1 - s - i : i \in takes}
<1>1. L \in Nat /\ s \in 1 .. L + 1 /\ DOMAIN src = 1 .. L
  BY DEF Positions
<1>2. 0 \in takes
  BY <1>1
<1>3. Left \in SUBSET Nat /\ Left # {}
  <2>1. \A i \in takes : L + 1 - s - i \in Nat
    BY <1>1
  <2> QED
    BY <1>2, <2>1
<1>4. PICK i \in takes : \A k \in takes : k <= i
  <2>1. PICK x \in Left : \A y \in Left : x <= y
    <3> HIDE DEF Left
    <3> QED
      BY <1>3, LeastOf
  <2>2. PICK i \in takes : x = L + 1 - s - i
    OBVIOUS
  <2>3. ASSUME NEW k \in takes PROVE k <= i
    <3>1. L + 1 - s - k \in Left
      OBVIOUS
    <3>2. x <= L + 1 - s - k
      BY <2>1, <3>1
    <3>3. k \in Int /\ i \in Int
      OBVIOUS
    <3> HIDE DEF takes, Left
    <3> QED
      BY <1>1, <2>2, <3>2, <3>3
  <2> QED
    BY <2>3
<1>5. most \in takes /\ \A k \in takes : k <= most
  BY <1>4 DEF Most
<1>6. ASSUME NEW n PROVE Run(src, s, item.set, n) <=> n \in takes
  <2>1. CASE n \in 0 .. L + 1 - s
    <3>1. \A k \in 0 .. n - 1 : s + k \in 1 .. L
      BY <1>1, <2>1
    <3>2. \A k \in 0 .. n - 1 : SingleMatch(src, s + k, item) <=> src[s + k] \in item.set
      BY <1>1, <3>1 DEF SingleMatch
    <3>3. n \in Nat /\ s + n <= L + 1
      BY <1>1, <2>1
    <3> QED
      BY <2>1, <3>2, <3>3 DEF Run
  <2>2. CASE n \notin 0 .. L + 1 - s
    <3>1. ~(n \in Nat /\ s + n <= L + 1)
      BY <1>1, <2>2
    <3> QED
      BY <2>2, <3>1 DEF Run
  <2> QED
    BY <2>1, <2>2
<1>7. ASSUME NEW n \in 0 .. most PROVE n \in takes
  <2>1. /\ most \in 0 .. L + 1 - s
        /\ \A k \in 0 .. most - 1 : SingleMatch(src, s + k, item)
    BY <1>5
  <2>2. n \in 0 .. L + 1 - s /\ \A k \in 0 .. n - 1 : k \in 0 .. most - 1
    BY <1>1, <2>1
  <2> HIDE DEF L
  <2> QED
    BY <2>1, <2>2
<1>8. most \in Nat /\ \A n \in takes : n \in 0 .. most
  BY <1>5
<1> HIDE DEF takes
<1> QED
  BY <1>6, <1>7, <1>8

Reps == {"", "?", "*", "+", "-"}

Option(src, s, item, n) == Run(src, s, item.set, n) /\ Takes(item.rep, n)

TriesAll(src, s, item, tried) ==
    /\ Len(tried) \in Nat
    /\ \A k \in 1 .. Len(tried) : tried[k] \in Int /\ Option(src, s, item, tried[k] - s)
    /\ \A n : Option(src, s, item, n) => \E k \in 1 .. Len(tried) : tried[k] = s + n
    /\ \A j, k \in 1 .. Len(tried) :
           j < k => IF item.rep = "-" THEN tried[j] < tried[k] ELSE tried[j] > tried[k]

LEMMA LambdaLength ==
    ASSUME NEW n \in Nat, NEW f, f = [k \in 1 .. n |-> f[k]], \A k \in 1 .. n : f[k] \in Int
    PROVE  Len(f) = n
<1>1. f \in [1 .. n -> Int]
  OBVIOUS
<1>2. f \in Seq(Int)
  BY <1>1, SeqDef
<1>3. DOMAIN f = 1 .. Len(f) /\ DOMAIN f = 1 .. n /\ Len(f) \in Nat
  BY <1>1, <1>2, LenProperties
<1> QED
  BY <1>3

LEMMA MaxExpandIs ==
    ASSUME NEW s \in Int, NEW src, NEW item, NEW most \in Nat, most = Most(src, s, item)
    PROVE  /\ Len(MaxExpand(src, s, item)) = most + 1
           /\ \A k \in 1 .. most + 1 : MaxExpand(src, s, item)[k] = s + most + 1 - k
<1> DEFINE f == [k \in 1 .. most + 1 |-> s + most + 1 - k]
<1>1. MaxExpand(src, s, item) = f
  BY DEF MaxExpand
<1>2. most + 1 \in Nat /\ f = [k \in 1 .. most + 1 |-> f[k]] /\ \A k \in 1 .. most + 1 : f[k] \in Int
  OBVIOUS
<1>3. Len(f) = most + 1
  <2> HIDE DEF f
  <2> QED
    BY <1>2, LambdaLength
<1> QED
  BY <1>1, <1>3

LEMMA MinExpandIs ==
    ASSUME NEW s \in Int, NEW src, NEW item, NEW most \in Nat, most = Most(src, s, item)
    PROVE  /\ Len(MinExpand(src, s, item)) = most + 1
           /\ \A k \in 1 .. most + 1 : MinExpand(src, s, item)[k] = s + k - 1
<1> DEFINE f == [k \in 1 .. most + 1 |-> s + k - 1]
<1>1. MinExpand(src, s, item) = f
  BY DEF MinExpand
<1>2. most + 1 \in Nat /\ f = [k \in 1 .. most + 1 |-> f[k]] /\ \A k \in 1 .. most + 1 : f[k] \in Int
  OBVIOUS
<1>3. Len(f) = most + 1
  <2> HIDE DEF f
  <2> QED
    BY <1>2, LambdaLength
<1> QED
  BY <1>1, <1>3

LEMMA TriedIs ==
    ASSUME NEW C, NEW src \in Seq(C), NEW s \in Positions(src), NEW item, item.rep \in Reps
    PROVE  TriesAll(src, s, item, Tried(src, s, item))
<1> DEFINE L == Len(src)
           set == item.set
           tried == Tried(src, s, item)
<1>1. L \in Nat /\ s \in Int /\ s \in 1 .. L + 1 /\ DOMAIN src = 1 .. L
  BY DEF Positions
<1>2. PICK most \in Nat : /\ most = Most(src, s, item)
                          /\ \A n : Run(src, s, set, n) <=> n \in 0 .. most
  BY MostIs
<1>3. SingleMatch(src, s, item) <=> most >= 1
  <2>1. Run(src, s, set, 1) <=> s + 1 <= L + 1 /\ src[s] \in set
    BY <1>1 DEF Run
  <2>2. Run(src, s, set, 1) <=> 1 \in 0 .. most
    BY <1>2
  <2> HIDE DEF set
  <2>3. SingleMatch(src, s, item) <=> s + 1 <= L + 1 /\ src[s] \in set
    BY <1>1 DEF SingleMatch, set
  <2> QED
    BY <2>1, <2>2, <2>3
<1>4. \A n : Option(src, s, item, n) <=> n \in 0 .. most /\ Takes(item.rep, n)
  BY <1>2 DEF Option
<1>5. most >= 1 => /\ s + 1 \in Int
                   /\ \E m \in Nat : m = Most(src, s + 1, item) /\ m = most - 1
  <2> SUFFICES ASSUME most >= 1 PROVE \E m \in Nat : m = Most(src, s + 1, item) /\ m = most - 1
    BY <1>1
  <2>1. s + 1 \in Positions(src)
    <3>1. Run(src, s, set, 1)
      BY <1>2
    <3> QED
      BY <1>1, <3>1 DEF Run, Positions
  <2>2. PICK m \in Nat : /\ m = Most(src, s + 1, item)
                         /\ \A n : Run(src, s + 1, set, n) <=> n \in 0 .. m
    BY <2>1, MostIs
  <2>3. ASSUME NEW n \in Nat PROVE Run(src, s, set, n + 1) <=> Run(src, s + 1, set, n)
    <3>1. s + (n + 1) <= L + 1 <=> (s + 1) + n <= L + 1
      BY <1>1
    <3>2. ASSUME \A k \in 0 .. n : src[s + k] \in set, NEW k \in 0 .. n - 1
          PROVE  src[(s + 1) + k] \in set
      <4>1. k + 1 \in 0 .. n /\ s + (k + 1) = (s + 1) + k
        BY <1>1
      <4>2. src[s + (k + 1)] \in set
        BY <3>2, <4>1
      <4> QED
        BY <4>1, <4>2
    <3>3. ASSUME \A k \in 0 .. n - 1 : src[(s + 1) + k] \in set, NEW k \in 0 .. n
          PROVE  src[s + k] \in set
      <4>1. CASE k = 0
        <5>1. src[s + 0] \in set
          <6>1. Run(src, s, set, 1)
            BY <1>2
          <6> QED
            BY <6>1 DEF Run
        <5> QED
          BY <4>1, <5>1
      <4>2. CASE k # 0
        <5>1. k - 1 \in 0 .. n - 1 /\ (s + 1) + (k - 1) = s + k
          BY <1>1, <4>2
        <5>2. src[(s + 1) + (k - 1)] \in set
          BY <3>3, <5>1
        <5> QED
          BY <5>1, <5>2
      <4> QED
        BY <4>1, <4>2
    <3>4. (n + 1) - 1 = n /\ n + 1 \in Nat
      OBVIOUS
    <3> QED
      BY <3>1, <3>2, <3>3, <3>4 DEF Run
  <2>4. \A n \in Nat : n + 1 <= most <=> n <= m
    <3>1. ASSUME NEW n \in Nat PROVE n + 1 <= most <=> n <= m
      <4>1. Run(src, s, set, n + 1) <=> n + 1 \in 0 .. most
        BY <1>2
      <4>2. Run(src, s + 1, set, n) <=> n \in 0 .. m
        BY <2>2
      <4>3. n + 1 \in 0 .. most <=> n \in 0 .. m
        BY <2>3, <4>1, <4>2
      <4> QED
        BY <4>3
    <3> QED
      BY <3>1
  <2>5. m = most - 1
    <3>1. m + 1 <= most
      BY <2>4
    <3>2. most - 1 \in Nat /\ (most - 1) + 1 <= most
      OBVIOUS
    <3>3. most - 1 <= m
      BY <2>4, <3>2
    <3> QED
      BY <3>1, <3>3
  <2> QED
    BY <2>2, <2>5
<1> HIDE DEF set, L
<1>6. CASE ~SingleMatch(src, s, item)
  <2>1. most = 0
    BY <1>3, <1>6
  <2>2. CASE item.rep \in {"*", "?", "-"}
    <3>1. tried = <<s>>
      BY <1>6, <2>2 DEF Tried
    <3>2. Len(tried) = 1 /\ tried[1] = s
      BY <3>1
    <3>3. Option(src, s, item, 0)
      <4>0. Takes("*", 0) /\ Takes("?", 0) /\ Takes("-", 0)
        BY DEF Takes
      <4>1. Takes(item.rep, 0)
        BY <2>2, <4>0
      <4> QED
        BY <1>4, <4>1
    <3>4. \A n : Option(src, s, item, n) => n = 0
      BY <1>4, <2>1
    <3> HIDE DEF tried
    <3>5. tried[1] - s = 0 /\ s + 0 = s
      BY <1>1, <3>2
    <3> QED
      BY <1>1, <3>2, <3>3, <3>4, <3>5 DEF TriesAll, tried
  <2>3. CASE item.rep \notin {"*", "?", "-"}
    <3>1. tried = <<>>
      BY <1>6, <2>3 DEF Tried
    <3>2. ~Takes(item.rep, 0)
      <4>1. item.rep = "" \/ item.rep = "+"
        BY <2>3 DEF Reps
      <4>2. ~Takes("", 0) /\ ~Takes("+", 0)
        BY DEF Takes
      <4> QED
        BY <4>1, <4>2
    <3>3. \A n : ~Option(src, s, item, n)
      BY <1>4, <2>1, <3>2
    <3>4. Len(tried) = 0
      BY <3>1
    <3> HIDE DEF tried
    <3> QED
      BY <3>3, <3>4 DEF TriesAll, tried
  <2> QED
    BY <2>2, <2>3
<1>7. CASE SingleMatch(src, s, item)
  <2>1. most >= 1
    BY <1>3, <1>7
  <2>2. CASE item.rep = "?"
    <3>1. tried = <<s + 1, s>>
      BY <1>7, <2>2 DEF Tried
    <3>2. Len(tried) = 2 /\ tried[1] = s + 1 /\ tried[2] = s
      BY <3>1
    <3>3. \A n : Option(src, s, item, n) <=> n = 0 \/ n = 1
      BY <1>4, <2>1, <2>2 DEF Takes
    <3> HIDE DEF tried
    <3>4. tried[1] - s = 1 /\ tried[2] - s = 0 /\ s + 0 = s /\ 1 .. 2 = {1, 2}
      BY <1>1, <3>2
    <3>5. /\ \A k \in 1 .. 2 : tried[k] \in Int /\ Option(src, s, item, tried[k] - s)
          /\ \A j, k \in 1 .. 2 : j < k => tried[j] > tried[k]
      BY <1>1, <3>2, <3>3, <3>4
    <3>6. \A n : Option(src, s, item, n) => \E k \in 1 .. 2 : tried[k] = s + n
      BY <1>1, <3>2, <3>3, <3>4
    <3> QED
      BY <2>2, <3>2, <3>5, <3>6 DEF TriesAll, tried
  <2>3. CASE item.rep = "+"
    <3>0. PICK m \in Nat : m = Most(src, s + 1, item) /\ m = most - 1
      BY <1>5, <2>1
    <3>1. tried = MaxExpand(src, s + 1, item)
      BY <1>7, <2>3 DEF Tried
    <3>2. Len(tried) = most /\ \A k \in 1 .. most : tried[k] = s + most + 1 - k
      <4>1. /\ Len(tried) = m + 1
            /\ \A k \in 1 .. m + 1 : tried[k] = (s + 1) + m + 1 - k
        <5>1. PICK t \in Int : t = s + 1
          BY <1>1
        <5> HIDE DEF tried
        <5>2. m = Most(src, t, item) /\ tried = MaxExpand(src, t, item)
          BY <3>0, <3>1, <5>1
        <5>3. Len(tried) = m + 1 /\ \A k \in 1 .. m + 1 : tried[k] = t + m + 1 - k
          BY <5>2, MaxExpandIs
        <5> QED
          BY <5>1, <5>3
      <4> HIDE DEF tried
      <4>2. m + 1 = most /\ \A k \in Int : (s + 1) + m + 1 - k = s + most + 1 - k
        BY <1>1, <3>0
      <4> QED
        BY <4>1, <4>2
    <3>3. \A n : Option(src, s, item, n) <=> n \in 1 .. most
      <4>1. \A n \in 0 .. most : Takes(item.rep, n) <=> n >= 1
        BY <2>3 DEF Takes
      <4> QED
        BY <1>4, <4>1
    <3> HIDE DEF tried
    <3>4. ASSUME NEW k \in 1 .. most
          PROVE  tried[k] \in Int /\ Option(src, s, item, tried[k] - s)
      <4>1. tried[k] \in Int /\ tried[k] - s \in 1 .. most
        BY <1>1, <3>2
      <4> QED
        BY <3>3, <4>1
    <3>5. ASSUME NEW n, Option(src, s, item, n) PROVE \E k \in 1 .. most : tried[k] = s + n
      <4>1. n \in 1 .. most
        BY <3>3, <3>5
      <4>2. most + 1 - n \in 1 .. most /\ s + most + 1 - (most + 1 - n) = s + n
        BY <1>1, <4>1
      <4> QED
        BY <3>2, <4>2
    <3>6. \A j, k \in 1 .. most : j < k => tried[j] > tried[k]
      BY <1>1, <3>2
    <3> QED
      BY <2>3, <3>2, <3>4, <3>5, <3>6 DEF TriesAll, tried
  <2>4. CASE item.rep = "*"
    <3>1. tried = MaxExpand(src, s, item)
      BY <1>7, <2>4 DEF Tried
    <3>2. Len(tried) = most + 1 /\ \A k \in 1 .. most + 1 : tried[k] = s + most + 1 - k
      BY <1>1, <1>2, <3>1, MaxExpandIs
    <3>3. \A n : Option(src, s, item, n) <=> n \in 0 .. most
      <4>1. \A n \in 0 .. most : Takes(item.rep, n)
        BY <2>4 DEF Takes
      <4> QED
        BY <1>4, <4>1
    <3> HIDE DEF tried
    <3>4. ASSUME NEW k \in 1 .. most + 1
          PROVE  tried[k] \in Int /\ Option(src, s, item, tried[k] - s)
      <4>1. tried[k] \in Int /\ tried[k] - s \in 0 .. most
        BY <1>1, <3>2
      <4> QED
        BY <3>3, <4>1
    <3>5. ASSUME NEW n, Option(src, s, item, n) PROVE \E k \in 1 .. most + 1 : tried[k] = s + n
      <4>1. n \in 0 .. most
        BY <3>3, <3>5
      <4>2. most + 1 - n \in 1 .. most + 1 /\ s + most + 1 - (most + 1 - n) = s + n
        BY <1>1, <4>1
      <4> QED
        BY <3>2, <4>2
    <3>6. \A j, k \in 1 .. most + 1 : j < k => tried[j] > tried[k]
      BY <1>1, <3>2
    <3> QED
      BY <2>4, <3>2, <3>4, <3>5, <3>6 DEF TriesAll, tried
  <2>5. CASE item.rep = "-"
    <3>1. tried = MinExpand(src, s, item)
      BY <1>7, <2>5 DEF Tried
    <3>2. Len(tried) = most + 1 /\ \A k \in 1 .. most + 1 : tried[k] = s + k - 1
      BY <1>1, <1>2, <3>1, MinExpandIs
    <3>3. \A n : Option(src, s, item, n) <=> n \in 0 .. most
      <4>1. \A n \in 0 .. most : Takes(item.rep, n)
        BY <2>5 DEF Takes
      <4> QED
        BY <1>4, <4>1
    <3> HIDE DEF tried
    <3>4. ASSUME NEW k \in 1 .. most + 1
          PROVE  tried[k] \in Int /\ Option(src, s, item, tried[k] - s)
      <4>1. tried[k] \in Int /\ tried[k] - s \in 0 .. most
        BY <1>1, <3>2
      <4> QED
        BY <3>3, <4>1
    <3>5. ASSUME NEW n, Option(src, s, item, n) PROVE \E k \in 1 .. most + 1 : tried[k] = s + n
      <4>1. n \in 0 .. most
        BY <3>3, <3>5
      <4>2. n + 1 \in 1 .. most + 1 /\ s + (n + 1) - 1 = s + n
        BY <1>1, <4>1
      <4> QED
        BY <3>2, <4>2
    <3>6. \A j, k \in 1 .. most + 1 : j < k => tried[j] < tried[k]
      BY <1>1, <3>2
    <3> QED
      BY <2>5, <3>2, <3>4, <3>5, <3>6 DEF TriesAll, tried
  <2>6. CASE item.rep = ""
    <3>1. tried = <<s + 1>>
      BY <1>7, <2>6 DEF Tried
    <3>2. Len(tried) = 1 /\ tried[1] = s + 1
      BY <3>1
    <3>3. \A n : Option(src, s, item, n) <=> n = 1
      <4>1. \A n : Takes(item.rep, n) <=> n = 1
        BY <2>6 DEF Takes
      <4> QED
        BY <1>4, <2>1, <4>1
    <3> HIDE DEF tried
    <3>4. tried[1] - s = 1 /\ 1 .. 1 = {1}
      BY <1>1, <3>2
    <3>5. /\ \A k \in 1 .. 1 : tried[k] \in Int /\ Option(src, s, item, tried[k] - s)
          /\ \A j, k \in 1 .. 1 : ~(j < k)
      BY <1>1, <3>2, <3>3, <3>4
    <3>6. \A n : Option(src, s, item, n) => \E k \in 1 .. 1 : tried[k] = s + n
      BY <1>1, <3>2, <3>3, <3>4
    <3> QED
      BY <3>2, <3>5, <3>6 DEF TriesAll, tried
  <2> QED
    BY <2>2, <2>3, <2>4, <2>5, <2>6 DEF Reps
<1> QED
  BY <1>6, <1>7

-----------------------------------------------------------------------------
(* What an item of the pattern does to the position and the captures.        *)

OpenCaps(cap) == {l \in DOMAIN cap : cap[l].len = Unfinished}

WayInv(src, pat, p, m) ==
    /\ m \in States(src)
    /\ Cardinality(OpenCaps(m.cap)) = Cardinality(Opens(pat, p)) - Cardinality(Closes(pat, p))
    /\ \A l \in DOMAIN m.cap : m.cap[l].init <= m.s /\ m.cap[l].init + m.cap[l].len <= m.s
    /\ p >= 1 /\ pat[1].op = "(" => Len(m.cap) >= 1
    /\ (\A q \in 1 .. p : pat[q].op # "()") => \A l \in DOMAIN m.cap : m.cap[l].len # Position

Asked(src, pat) == src \in Seq(Chars) /\ pat \in Seq(AllItems) /\ WellFormed(pat)

LEMMA Counts ==
    ASSUME NEW pat, NEW p \in Nat, p >= 1
    PROVE  /\ IsFiniteSet(Opens(pat, p)) /\ IsFiniteSet(Closes(pat, p))
           /\ Cardinality(Opens(pat, p)) \in Nat /\ Cardinality(Closes(pat, p)) \in Nat
           /\ Cardinality(Opens(pat, p - 1)) \in Nat /\ Cardinality(Closes(pat, p - 1)) \in Nat
           /\ Cardinality(Opens(pat, p)) = Cardinality(Opens(pat, p - 1))
                                             + (IF pat[p].op = "(" THEN 1 ELSE 0)
           /\ Cardinality(Closes(pat, p)) = Cardinality(Closes(pat, p - 1))
                                             + (IF pat[p].op = ")" THEN 1 ELSE 0)
<1> DEFINE o == Opens(pat, p - 1)
           c == Closes(pat, p - 1)
<1>1. IsFiniteSet(1 .. p) /\ IsFiniteSet(1 .. p - 1)
  BY FS_Interval
<1>2. o \subseteq 1 .. p - 1 /\ c \subseteq 1 .. p - 1 /\ p \notin o /\ p \notin c
  BY DEF Opens, Closes
<1>3. IsFiniteSet(o) /\ IsFiniteSet(c)
  BY <1>1, <1>2, FS_Subset
<1>4. Cardinality(o) \in Nat /\ Cardinality(c) \in Nat
  BY <1>3, FS_CardinalityType
<1>5. /\ Opens(pat, p) = IF pat[p].op = "(" THEN o \cup {p} ELSE o
      /\ Closes(pat, p) = IF pat[p].op = ")" THEN c \cup {p} ELSE c
  BY DEF Opens, Closes
<1>6. /\ IsFiniteSet(o \cup {p}) /\ Cardinality(o \cup {p}) = Cardinality(o) + 1
      /\ IsFiniteSet(c \cup {p}) /\ Cardinality(c \cup {p}) = Cardinality(c) + 1
  BY <1>2, <1>3, FS_AddElement
<1> HIDE DEF o, c
<1>7. /\ IsFiniteSet(Opens(pat, p))
      /\ Cardinality(Opens(pat, p)) = Cardinality(o) + (IF pat[p].op = "(" THEN 1 ELSE 0)
  <2>1. CASE pat[p].op = "("
    BY <1>3, <1>4, <1>5, <1>6, <2>1
  <2>2. CASE pat[p].op # "("
    BY <1>3, <1>4, <1>5, <1>6, <2>2
  <2> QED
    BY <2>1, <2>2
<1>8. /\ IsFiniteSet(Closes(pat, p))
      /\ Cardinality(Closes(pat, p)) = Cardinality(c) + (IF pat[p].op = ")" THEN 1 ELSE 0)
  <2>1. CASE pat[p].op = ")"
    BY <1>3, <1>4, <1>5, <1>6, <2>1
  <2>2. CASE pat[p].op # ")"
    BY <1>3, <1>4, <1>5, <1>6, <2>2
  <2> QED
    BY <2>1, <2>2
<1>9. Cardinality(Opens(pat, p)) \in Nat /\ Cardinality(Closes(pat, p)) \in Nat
  BY <1>7, <1>8, FS_CardinalityType
<1> QED
  BY <1>4, <1>7, <1>8, <1>9 DEF o, c

LEMMA CapsFinite ==
    ASSUME NEW X, NEW cap \in Seq(X)
    PROVE  /\ DOMAIN cap = 1 .. Len(cap) /\ Len(cap) \in Nat
           /\ IsFiniteSet(OpenCaps(cap)) /\ Cardinality(OpenCaps(cap)) \in Nat
<1>1. DOMAIN cap = 1 .. Len(cap) /\ Len(cap) \in Nat
  OBVIOUS
<1>2. IsFiniteSet(1 .. Len(cap))
  BY <1>1, FS_Interval
<1>3. OpenCaps(cap) \subseteq 1 .. Len(cap)
  BY <1>1 DEF OpenCaps
<1>4. IsFiniteSet(OpenCaps(cap))
  BY <1>2, <1>3, FS_Subset
<1> QED
  BY <1>1, <1>4, FS_CardinalityType

LEMMA ToCloseIs ==
    ASSUME NEW X, NEW cap \in Seq(X), Cardinality(OpenCaps(cap)) > 0
    PROVE  ToClose(cap) \in OpenCaps(cap)
<1> DEFINE N == Len(cap)
           Left == {N - l : l \in OpenCaps(cap)}
<1>1. DOMAIN cap = 1 .. N /\ N \in Nat
  BY CapsFinite
<1>2. OpenCaps(cap) # {}
  <2>1. Cardinality({}) = 0
    BY FS_EmptySet
  <2>2. ASSUME OpenCaps(cap) = {} PROVE FALSE
    <3>1. Cardinality(OpenCaps(cap)) = 0
      BY <2>1, <2>2
    <3> QED
      BY <3>1
  <2> QED
    BY <2>2
<1>3. OpenCaps(cap) \subseteq 1 .. N
  BY <1>1 DEF OpenCaps
<1>4. Left \in SUBSET Nat /\ Left # {}
  <2>1. \A l \in OpenCaps(cap) : N - l \in Nat
    BY <1>1, <1>3
  <2> QED
    BY <1>2, <2>1
<1>5. PICK l \in OpenCaps(cap) : \A k \in OpenCaps(cap) : k <= l
  <2>1. PICK x \in Left : \A y \in Left : x <= y
    <3> HIDE DEF Left
    <3> QED
      BY <1>4, LeastOf
  <2>2. PICK l \in OpenCaps(cap) : x = N - l
    OBVIOUS
  <2>3. ASSUME NEW k \in OpenCaps(cap) PROVE k <= l
    <3>1. N - k \in Left
      OBVIOUS
    <3>2. x <= N - k
      BY <2>1, <3>1
    <3>3. k \in Int /\ l \in Int
      BY <1>3
    <3> HIDE DEF Left, N
    <3> QED
      BY <1>1, <2>2, <3>2, <3>3
  <2> QED
    BY <2>3
<1>6. l \in DOMAIN cap /\ cap[l].len = Unfinished
      /\ \A k \in DOMAIN cap : k > l => cap[k].len # Unfinished
  <2>1. ASSUME NEW k \in DOMAIN cap, k > l PROVE cap[k].len # Unfinished
    <3>1. k \in Int /\ l \in Int
      BY <1>1, <1>3, <2>1
    <3>2. k \notin OpenCaps(cap)
      BY <1>5, <2>1, <3>1
    <3> QED
      BY <2>1, <3>2 DEF OpenCaps
  <2> QED
    BY <1>5, <2>1 DEF OpenCaps
<1>7. ToClose(cap) \in DOMAIN cap /\ cap[ToClose(cap)].len = Unfinished
  BY <1>6 DEF ToClose
<1> QED
  BY <1>7 DEF OpenCaps

LEMMA BalanceIs ==
    ASSUME NEW C, NEW src \in Seq(C), NEW s \in Positions(src), NEW item
    PROVE  LET b == MatchBalance(src, s, item) IN b # 0 => b \in Positions(src) /\ b >= s
<1> DEFINE b == MatchBalance(src, s, item)
<1>0. Len(src) \in Nat /\ s \in 1 .. Len(src) + 1
  BY DEF Positions
<1>1. \E S \in SUBSET (s + 1 .. Len(src)) :
          b # 0 => S # {} /\ b = (CHOOSE n \in S : \A k \in S : n <= k) + 1
  BY DEF MatchBalance
<1> HIDE DEF b
<1>2. SUFFICES ASSUME b # 0 PROVE b \in Positions(src) /\ b >= s
  BY DEF b
<1>3. PICK S \in SUBSET (s + 1 .. Len(src)) :
          S # {} /\ b = (CHOOSE n \in S : \A k \in S : n <= k) + 1
  BY <1>1, <1>2
<1>4. S \in SUBSET Nat
  BY <1>0
<1>5. \E n \in S : \A k \in S : n <= k
  BY <1>3, <1>4, LeastOf
<1>6. PICK n \in S : b = n + 1
  BY <1>3, <1>5
<1> QED
  BY <1>0, <1>6 DEF Positions

LEMMA SameText ==
    ASSUME NEW C, NEW src \in Seq(C), NEW i \in Nat, NEW j \in Nat, NEW n \in Nat,
           i >= 1, j >= 1, i + n <= Len(src) + 1, j + n <= Len(src) + 1
    PROVE  SubSeq(src, i, i + n - 1) = SubSeq(src, j, j + n - 1)
               <=> \A k \in 0 .. n - 1 : src[i + k] = src[j + k]
<1> DEFINE a == SubSeq(src, i, i + n - 1)
           b == SubSeq(src, j, j + n - 1)
<1>1. /\ \A k \in i .. i + n - 1 : src[k] \in C
      /\ \A k \in j .. j + n - 1 : src[k] \in C
  OBVIOUS
<1>2. /\ a \in Seq(C) /\ Len(a) = (IF i <= i + n - 1 THEN (i + n - 1) - i + 1 ELSE 0)
      /\ \A k \in 1 .. (i + n - 1) - i + 1 : a[k] = src[i + k - 1]
  BY <1>1, SubSeqProperties
<1>3. /\ b \in Seq(C) /\ Len(b) = (IF j <= j + n - 1 THEN (j + n - 1) - j + 1 ELSE 0)
      /\ \A k \in 1 .. (j + n - 1) - j + 1 : b[k] = src[j + k - 1]
  BY <1>1, SubSeqProperties
<1> HIDE DEF a, b
<1>4. /\ Len(a) = n /\ \A k \in 1 .. n : a[k] = src[i + k - 1]
      /\ Len(b) = n /\ \A k \in 1 .. n : b[k] = src[j + k - 1]
  BY <1>2, <1>3
<1>5. ASSUME a = b, NEW k \in 0 .. n - 1 PROVE src[i + k] = src[j + k]
  <2>1. k + 1 \in 1 .. n /\ i + (k + 1) - 1 = i + k /\ j + (k + 1) - 1 = j + k
    OBVIOUS
  <2>2. a[k + 1] = src[i + (k + 1) - 1] /\ b[k + 1] = src[j + (k + 1) - 1]
    BY <1>4, <2>1
  <2> QED
    BY <1>5, <2>1, <2>2
<1>6. ASSUME \A k \in 0 .. n - 1 : src[i + k] = src[j + k] PROVE a = b
  <2>1. ASSUME NEW k \in 1 .. n PROVE a[k] = b[k]
    <3>1. k - 1 \in 0 .. n - 1 /\ i + k - 1 = i + (k - 1) /\ j + k - 1 = j + (k - 1)
      OBVIOUS
    <3>2. src[i + (k - 1)] = src[j + (k - 1)]
      BY <1>6, <3>1
    <3> QED
      BY <1>4, <3>1, <3>2
  <2> QED
    BY <1>2, <1>3, <1>4, <2>1, SeqEqual
<1> QED
  BY <1>5, <1>6 DEF a, b

LEMMA ItemKinds ==
    ASSUME NEW i \in AllItems
    PROVE  /\ i.op \in {"single", "(", "()", ")", "$", "back", "balance", "frontier"}
           /\ i.op = "single" => i.rep \in Reps
           /\ i.op = "back" => i.n = 1
BY DEF AllItems, Reps

(* What opening a capture leaves, and closing one.                            *)
OpenedTo(src, m, what, d) ==
    /\ At(m.s, d) \in States(src) /\ Len(d) = Len(m.cap) + 1
    /\ Len(m.cap) \in Nat /\ SubSeq(d, 1, Len(d) - 1) = m.cap
    /\ \A l \in DOMAIN d : IF l = Len(d) THEN d[l] = [init |-> m.s, len |-> what]
                           ELSE l \in DOMAIN m.cap /\ d[l] = m.cap[l]
    /\ Cardinality(OpenCaps(d)) = Cardinality(OpenCaps(m.cap))
                                    + (IF what = Unfinished THEN 1 ELSE 0)

ClosedTo(src, m, l, d) ==
    /\ At(m.s, d) \in States(src) /\ Len(d) = Len(m.cap) /\ DOMAIN d = DOMAIN m.cap
    /\ [d EXCEPT ![l].len = Unfinished] = m.cap
    /\ l \in DOMAIN d
    /\ d[l].init = m.cap[l].init /\ d[l].len = m.s - m.cap[l].init /\ d[l].len \in Nat
    /\ \A k \in DOMAIN d : k # l => d[k] = m.cap[k]
    /\ Cardinality(OpenCaps(d)) = Cardinality(OpenCaps(m.cap)) - 1

LEMMA Opened ==
    ASSUME NEW src, Len(src) \in Nat, NEW m \in States(src), NEW what \in {Unfinished, Position},
           NEW d, d = Append(m.cap, [init |-> m.s, len |-> what])
    PROVE  OpenedTo(src, m, what, d)
<1> DEFINE c == [init |-> m.s, len |-> what]
           X == Captures(src)
           cap == m.cap
<1>1. m.s \in Positions(src) /\ cap \in Seq(X) /\ c \in X
  BY DEF States, Captures
<1> HIDE DEF X, c, cap
<1>2. d = Append(cap, c)
  BY DEF cap, c
<1>3. /\ d \in Seq(X) /\ Len(d) = Len(cap) + 1 /\ Len(cap) \in Nat
      /\ DOMAIN d = 1 .. Len(cap) + 1 /\ DOMAIN cap = 1 .. Len(cap)
      /\ d[Len(cap) + 1] = c /\ \A l \in 1 .. Len(cap) : d[l] = cap[l]
  <2>1. Len(cap) \in Nat /\ DOMAIN cap = 1 .. Len(cap)
    BY <1>1, LenProperties
  <2>2. Append(cap, c) \in Seq(X) /\ Len(Append(cap, c)) = Len(cap) + 1
    BY <1>1
  <2>3. DOMAIN Append(cap, c) = 1 .. Len(cap) + 1
    BY <2>2, LenProperties
  <2>4. /\ Append(cap, c)[Len(cap) + 1] = c
        /\ \A l \in 1 .. Len(cap) : Append(cap, c)[l] = cap[l]
    BY <1>1
  <2> QED
    BY <1>2, <2>1, <2>2, <2>3, <2>4
<1>4. At(m.s, d) \in States(src)
  BY <1>1, <1>3 DEF At, States, X
<1>5. SubSeq(d, 1, Len(d) - 1) = cap
  <2> DEFINE e == SubSeq(d, 1, Len(d) - 1)
             n == Len(cap)
  <2>1. \A l \in 1 .. n : d[l] \in X
    BY <1>3
  <2>2. Len(d) - 1 = n
    BY <1>3
  <2>3. /\ SubSeq(d, 1, n) \in Seq(X)
        /\ Len(SubSeq(d, 1, n)) = IF 1 <= n THEN n - 1 + 1 ELSE 0
        /\ \A l \in 1 .. n - 1 + 1 : SubSeq(d, 1, n)[l] = d[1 + l - 1]
    BY <1>3, <2>1, SubSeqProperties
  <2> HIDE DEF n
  <2>4. e \in Seq(X) /\ Len(e) = n /\ \A l \in 1 .. n : e[l] = cap[l]
    BY <1>3, <2>2, <2>3 DEF n
  <2> HIDE DEF e
  <2> QED
    BY <1>1, <2>4, SeqEqual DEF n, e
<1>6. \A l \in DOMAIN d : IF l = Len(d) THEN d[l] = c ELSE l \in DOMAIN cap /\ d[l] = cap[l]
  BY <1>3
<1>7. Cardinality(OpenCaps(d)) = Cardinality(OpenCaps(cap))
                                   + (IF what = Unfinished THEN 1 ELSE 0)
  <2>1. IsFiniteSet(OpenCaps(cap)) /\ Cardinality(OpenCaps(cap)) \in Nat
    BY <1>1, CapsFinite
  <2>2. c.len = what
    BY DEF c
  <2>3. Len(cap) + 1 \notin OpenCaps(cap)
    BY <1>3 DEF OpenCaps
  <2>4. CASE what = Unfinished
    <3>1. OpenCaps(d) = OpenCaps(cap) \cup {Len(cap) + 1}
      <4>1. ASSUME NEW l PROVE l \in OpenCaps(d) <=> l \in OpenCaps(cap) \cup {Len(cap) + 1}
        BY <1>3, <2>2, <2>4 DEF OpenCaps
      <4> QED
        BY <4>1
    <3> QED
      BY <2>1, <2>3, <2>4, <3>1, FS_AddElement
  <2>5. CASE what # Unfinished
    <3>1. OpenCaps(d) = OpenCaps(cap)
      <4>1. ASSUME NEW l PROVE l \in OpenCaps(d) <=> l \in OpenCaps(cap)
        BY <1>3, <2>2, <2>5 DEF OpenCaps
      <4> QED
        BY <4>1
    <3> QED
      BY <2>1, <2>5, <3>1
  <2> QED
    BY <2>4, <2>5
<1> QED
  BY <1>3, <1>4, <1>5, <1>6, <1>7 DEF cap, c, OpenedTo

LEMMA Closed ==
    ASSUME NEW src, Len(src) \in Nat, NEW m \in States(src), Cardinality(OpenCaps(m.cap)) > 0,
           \A k \in DOMAIN m.cap : m.cap[k].init <= m.s,
           NEW l, l = ToClose(m.cap),
           NEW d, d = [m.cap EXCEPT ![l].len = m.s - m.cap[l].init]
    PROVE  ClosedTo(src, m, l, d)
<1> DEFINE X == Captures(src)
           cap == m.cap
           n == m.s - cap[l].init
<1>1. m.s \in Positions(src) /\ cap \in Seq(X)
  BY DEF States
<1>2. l \in OpenCaps(cap)
  BY <1>1, ToCloseIs
<1>3. DOMAIN cap = 1 .. Len(cap) /\ Len(cap) \in Nat
  BY <1>1
<1>4. l \in DOMAIN cap /\ cap[l].len = Unfinished /\ cap[l] \in X
  BY <1>1, <1>2, <1>3 DEF OpenCaps
<1>5. /\ cap[l] = [init |-> cap[l].init, len |-> cap[l].len]
      /\ cap[l].init \in Positions(src)
  BY <1>4 DEF Captures
<1>6. n \in 0 .. Len(src)
  BY <1>1, <1>4, <1>5 DEF Positions
<1> DEFINE c == [init |-> cap[l].init, len |-> n]
<1>7. c \in X
  BY <1>5, <1>6 DEF Captures
<1>8. d = [cap EXCEPT ![l] = c]
  <2>1. [cap[l] EXCEPT !.len = n] = c
    BY <1>5
  <2> HIDE DEF c
  <2> QED
    BY <2>1
<1>c. c.len = n /\ c.init = cap[l].init
  OBVIOUS
<1> HIDE DEF X, c, cap, n
<1>9. /\ d \in Seq(X) /\ Len(d) = Len(cap) /\ DOMAIN d = DOMAIN cap
      /\ d[l] = c /\ \A k \in DOMAIN cap : k # l => d[k] = cap[k]
  <2>1. l \in 1 .. Len(cap)
    BY <1>3, <1>4
  <2> DEFINE e == [cap EXCEPT ![l] = c]
  <2>2. /\ e \in Seq(X) /\ Len(e) = Len(cap)
        /\ \A k \in 1 .. Len(cap) : e[k] = IF k = l THEN c ELSE cap[k]
    BY <1>1, <1>7, <2>1, ExceptSeq
  <2> HIDE DEF e
  <2>3. d = e
    BY <1>8 DEF e
  <2>4. DOMAIN d = 1 .. Len(d)
    BY <2>2, <2>3, LenProperties
  <2> QED
    BY <1>3, <2>1, <2>2, <2>3, <2>4
<1>10. At(m.s, d) \in States(src)
  BY <1>1, <1>9 DEF At, States, X
<1>11. [d EXCEPT ![l].len = Unfinished] = cap
  <2>1. [d[l] EXCEPT !.len = Unfinished] = cap[l]
    BY <1>4, <1>5, <1>9 DEF c
  <2>2. [d EXCEPT ![l].len = Unfinished] = [d EXCEPT ![l] = cap[l]]
    BY <2>1
  <2>3. [d EXCEPT ![l] = cap[l]] = [k \in DOMAIN cap |-> cap[k]]
    BY <1>9
  <2>4. cap = [k \in DOMAIN cap |-> cap[k]]
    BY <1>1
  <2> QED
    BY <2>2, <2>3, <2>4
<1>12. Cardinality(OpenCaps(d)) = Cardinality(OpenCaps(cap)) - 1
  <2>1. IsFiniteSet(OpenCaps(cap)) /\ Cardinality(OpenCaps(cap)) \in Nat
    BY <1>1, CapsFinite
  <2>2. c.len # Unfinished
    BY <1>c, <1>6 DEF Unfinished
  <2>3. OpenCaps(d) = OpenCaps(cap) \ {l}
    <3>1. ASSUME NEW k PROVE k \in OpenCaps(d) <=> k \in OpenCaps(cap) \ {l}
      BY <1>9, <2>2 DEF OpenCaps
    <3> QED
      BY <3>1
  <2> QED
    BY <1>2, <2>1, <2>3, FS_RemoveElement
<1>13. n \in Nat
  BY <1>6
<1> QED
  BY <1>c, <1>4, <1>9, <1>10, <1>11, <1>12, <1>13 DEF cap, n, ClosedTo

LEMMA BackIs ==
    ASSUME NEW src, NEW pat, Asked(src, pat), NEW p \in 1 .. Len(pat), pat[p].op = "back",
           NEW m, WayInv(src, pat, p - 1, m)
    PROVE  /\ 1 \in DOMAIN m.cap
           /\ m.cap[1].len \in Nat /\ m.cap[1].init \in Nat /\ m.cap[1].init >= 1
           /\ m.cap[1].init + m.cap[1].len <= m.s
<1> DEFINE o == Cardinality(Opens(pat, p))
           c == Cardinality(Closes(pat, p))
           cap == m.cap
<1>1. /\ Len(pat) \in Nat /\ p \in Nat /\ p >= 1 /\ DOMAIN pat = 1 .. Len(pat)
      /\ p \in DOMAIN pat
  BY DEF Asked
<1>2. /\ pat[1].op = "(" /\ Closes(pat, p) # {}
      /\ \A q \in 1 .. p : pat[q].op # "()"
      /\ \A q \in 2 .. p : pat[q].op # "("
      /\ c <= o
  BY <1>1 DEF Asked, WellFormed
<1>3. p # 1
  BY <1>2
<1>4. Opens(pat, p) = {1}
  <2>1. ASSUME NEW q PROVE q \in Opens(pat, p) <=> q = 1
    BY <1>1, <1>2 DEF Opens
  <2> QED
    BY <2>1
<1>5. o = 1
  BY <1>4, FS_Singleton
<1>6. c \in Nat /\ c # 0
  <2>1. IsFiniteSet(Closes(pat, p)) /\ c \in Nat
    BY <1>1, Counts
  <2> QED
    BY <1>2, <2>1, FS_EmptySet
<1>7. c = 1
  <2> HIDE DEF o, c
  <2> QED
    BY <1>2, <1>5, <1>6
<1>8. Cardinality(OpenCaps(cap)) = 0
  <2>1. o = Cardinality(Opens(pat, p - 1)) /\ c = Cardinality(Closes(pat, p - 1))
    BY <1>1, Counts
  <2> QED
    BY <1>5, <1>7, <2>1 DEF WayInv
<1>9. cap \in Seq(Captures(src)) /\ Len(cap) >= 1
      /\ \A l \in DOMAIN cap : cap[l].len # Position /\ cap[l].init + cap[l].len <= m.s
  <2>1. p - 1 >= 1 /\ \A q \in 1 .. p - 1 : q \in 1 .. p
    BY <1>1, <1>3
  <2> QED
    BY <1>2, <2>1 DEF WayInv, States
<1>10. 1 \in DOMAIN cap
  BY <1>9, LenProperties
<1>11. 1 \notin OpenCaps(cap)
  <2>1. IsFiniteSet(OpenCaps(cap))
    BY <1>9, CapsFinite
  <2>2. OpenCaps(cap) = {}
    BY <1>8, <2>1, FS_EmptySet
  <2> QED
    BY <2>2
<1>12. cap[1].len # Unfinished
  BY <1>10, <1>11 DEF OpenCaps
<1>13. cap[1] \in Captures(src)
  BY <1>9, <1>10, LenProperties
<1>14. cap[1].init \in Nat /\ cap[1].init >= 1 /\ cap[1].len \in Nat
  BY <1>9, <1>10, <1>12, <1>13 DEF Captures, Positions
<1> QED
  BY <1>9, <1>10, <1>14

LEMMA Moved ==
    ASSUME NEW src, NEW pat, Asked(src, pat), NEW p \in 1 .. Len(pat),
           NEW m, WayInv(src, pat, p - 1, m), pat[p].op \notin {"(", ")"},
           NEW e \in Positions(src), e >= m.s
    PROVE  WayInv(src, pat, p, At(e, m.cap))
<1>1. p \in Nat /\ p >= 1 /\ Len(src) \in Nat /\ e \in Nat
  BY DEF Asked, Positions
<1>2. /\ Cardinality(Opens(pat, p)) = Cardinality(Opens(pat, p - 1))
      /\ Cardinality(Closes(pat, p)) = Cardinality(Closes(pat, p - 1))
  BY <1>1, Counts
<1>3. /\ m.cap \in Seq(Captures(src)) /\ m.s \in Nat
      /\ Cardinality(OpenCaps(m.cap)) = Cardinality(Opens(pat, p)) - Cardinality(Closes(pat, p))
      /\ \A l \in DOMAIN m.cap : m.cap[l].init <= m.s /\ m.cap[l].init + m.cap[l].len <= m.s
      /\ p - 1 >= 1 /\ pat[1].op = "(" => Len(m.cap) >= 1
      /\ (\A q \in 1 .. p - 1 : pat[q].op # "()") => \A l \in DOMAIN m.cap : m.cap[l].len # Position
  BY <1>2 DEF WayInv, States, Positions
<1>4. At(e, m.cap).s = e /\ At(e, m.cap).cap = m.cap /\ At(e, m.cap) \in States(src)
  BY <1>3 DEF At, States
<1>5. ASSUME NEW l \in DOMAIN m.cap
      PROVE  m.cap[l].init <= e /\ m.cap[l].init + m.cap[l].len <= e
  <2>1. m.cap[l] \in Captures(src)
    BY <1>3, LenProperties
  <2>2. m.cap[l].init \in Int /\ m.cap[l].len \in Int
    BY <2>1 DEF Captures, Positions, Unfinished, Position
  <2> QED
    BY <1>1, <1>3, <2>2
<1>6. pat[1].op = "(" => Len(m.cap) >= 1
  <2>1. CASE p = 1
    BY <2>1
  <2>2. CASE p # 1
    BY <1>1, <1>3, <2>2
  <2> QED
    BY <2>1, <2>2
<1>7. (\A q \in 1 .. p : pat[q].op # "()") => \A l \in DOMAIN m.cap : m.cap[l].len # Position
  <2>1. \A q \in 1 .. p - 1 : q \in 1 .. p
    BY <1>1
  <2> QED
    BY <1>3, <2>1
<1> QED
  BY <1>3, <1>4, <1>5, <1>6, <1>7 DEF WayInv

LEMMA SomeOpen ==
    ASSUME NEW src, NEW pat, Asked(src, pat), NEW p \in 1 .. Len(pat), pat[p].op = ")",
           NEW m, WayInv(src, pat, p - 1, m)
    PROVE  Cardinality(OpenCaps(m.cap)) > 0
<1>1. p \in Nat /\ p >= 1 /\ p \in DOMAIN pat
  BY DEF Asked
<1>2. Cardinality(Closes(pat, p)) <= Cardinality(Opens(pat, p))
  BY <1>1 DEF Asked, WellFormed
<1>3. /\ Cardinality(Opens(pat, p)) = Cardinality(Opens(pat, p - 1))
      /\ Cardinality(Closes(pat, p)) = Cardinality(Closes(pat, p - 1)) + 1
      /\ Cardinality(Opens(pat, p - 1)) \in Nat /\ Cardinality(Closes(pat, p - 1)) \in Nat
  <2>1. /\ Cardinality(Opens(pat, p)) = Cardinality(Opens(pat, p - 1))
                                         + (IF pat[p].op = "(" THEN 1 ELSE 0)
        /\ Cardinality(Closes(pat, p)) = Cardinality(Closes(pat, p - 1))
                                         + (IF pat[p].op = ")" THEN 1 ELSE 0)
        /\ Cardinality(Opens(pat, p - 1)) \in Nat /\ Cardinality(Closes(pat, p - 1)) \in Nat
    BY <1>1, Counts
  <2> QED
    BY <2>1
<1> QED
  BY <1>2, <1>3 DEF WayInv

Paren(src, pat, p, m, n, t) ==
    /\ p \in 1 .. Len(pat) /\ WayInv(src, pat, p - 1, m)
    /\ t = WayItem(src, pat[p], n, m) /\ pat[p].op \in {"(", "()", ")"}

LEMMA ItemKeepsParen ==
    ASSUME NEW src, NEW pat, Asked(src, pat), NEW p, NEW m, NEW n, NEW t,
           Paren(src, pat, p, m, n, t)
    PROVE  WayInv(src, pat, p, t) /\ t.s = m.s
<1>0. /\ p \in 1 .. Len(pat) /\ WayInv(src, pat, p - 1, m)
      /\ t = WayItem(src, pat[p], n, m) /\ pat[p].op \in {"(", "()", ")"}
  BY DEF Paren
<1>1. p \in Nat /\ p >= 1 /\ Len(src) \in Nat
  BY <1>0 DEF Asked
<1>2. /\ m \in States(src) /\ m.s \in Nat /\ m.cap \in Seq(Captures(src))
      /\ \A l \in DOMAIN m.cap : m.cap[l].init <= m.s /\ m.cap[l].init + m.cap[l].len <= m.s
  BY <1>0 DEF WayInv, States, Positions
<1>3. \A l \in DOMAIN m.cap : m.cap[l].init \in Int /\ m.cap[l].len \in Int
  <2>1. \A l \in DOMAIN m.cap : m.cap[l] \in Captures(src)
    BY <1>2, LenProperties
  <2> QED
    BY <2>1 DEF Captures, Positions, Unfinished, Position
<1>4. /\ Cardinality(Opens(pat, p)) = Cardinality(Opens(pat, p - 1))
                                       + (IF pat[p].op = "(" THEN 1 ELSE 0)
      /\ Cardinality(Closes(pat, p)) = Cardinality(Closes(pat, p - 1))
                                       + (IF pat[p].op = ")" THEN 1 ELSE 0)
      /\ Cardinality(Opens(pat, p - 1)) \in Nat /\ Cardinality(Closes(pat, p - 1)) \in Nat
      /\ Cardinality(OpenCaps(m.cap))
             = Cardinality(Opens(pat, p - 1)) - Cardinality(Closes(pat, p - 1))
  BY <1>0, <1>1, Counts DEF WayInv
<1>5. \A q \in 1 .. p - 1 : q \in 1 .. p
  BY <1>1
<1>6. CASE pat[p].op \in {"(", "()"}
  <2> DEFINE what == IF pat[p].op = "(" THEN Unfinished ELSE Position
             d == Append(m.cap, [init |-> m.s, len |-> what])
  <2>1. t = At(m.s, d)
    BY <1>0, <1>6 DEF WayItem
  <2>2. what \in {Unfinished, Position} /\ what \in Int /\ what <= 0
        /\ (what = Unfinished <=> pat[p].op = "(")
    BY <1>6 DEF Unfinished, Position
  <2>3. /\ At(m.s, d) \in States(src) /\ Len(d) = Len(m.cap) + 1 /\ Len(m.cap) \in Nat
        /\ \A l \in DOMAIN d : IF l = Len(d) THEN d[l] = [init |-> m.s, len |-> what]
                               ELSE l \in DOMAIN m.cap /\ d[l] = m.cap[l]
        /\ Cardinality(OpenCaps(d)) = Cardinality(OpenCaps(m.cap))
                                           + (IF what = Unfinished THEN 1 ELSE 0)
    <3>1. d = Append(m.cap, [init |-> m.s, len |-> what])
      OBVIOUS
    <3>2. m \in States(src) /\ what \in {Unfinished, Position} /\ Len(src) \in Nat
      BY <1>1, <1>2, <2>2
    <3> HIDE DEF what, d
    <3>3. OpenedTo(src, m, what, d)
      BY <3>1, <3>2, Opened
    <3> QED
      BY <3>3 DEF OpenedTo
  <2>w. pat[p].op = "()" \/ what = Unfinished
    BY <1>6
  <2> HIDE DEF what, d
  <2>4. At(m.s, d).s = m.s /\ At(m.s, d).cap = d
    BY DEF At
  <2>5. Cardinality(OpenCaps(d)) = Cardinality(Opens(pat, p)) - Cardinality(Closes(pat, p))
    BY <1>4, <1>6, <2>2, <2>3
  <2>6. \A l \in DOMAIN d : d[l].init <= m.s /\ d[l].init + d[l].len <= m.s
    BY <1>2, <1>3, <2>2, <2>3
  <2>7. (\A q \in 1 .. p : pat[q].op # "()") => \A l \in DOMAIN d : d[l].len # Position
    <3> SUFFICES ASSUME \A q \in 1 .. p : pat[q].op # "()", NEW l \in DOMAIN d
                 PROVE  d[l].len # Position
      OBVIOUS
    <3>1. what = Unfinished /\ Unfinished # Position
      BY <1>1, <2>w DEF Unfinished, Position
    <3>2. \A k \in DOMAIN m.cap : m.cap[k].len # Position
      BY <1>0, <1>5 DEF WayInv
    <3> QED
      BY <2>3, <3>1, <3>2
  <2> QED
    BY <2>1, <2>3, <2>4, <2>5, <2>6, <2>7 DEF WayInv
<1>7. CASE pat[p].op = ")"
  <2> DEFINE l == ToClose(m.cap)
             d == [m.cap EXCEPT ![l].len = m.s - m.cap[l].init]
  <2>1. t = At(m.s, d)
    BY <1>0, <1>7 DEF WayItem
  <2>2. Cardinality(OpenCaps(m.cap)) > 0
    BY <1>0, <1>7, SomeOpen
  <2>3. /\ At(m.s, d) \in States(src) /\ Len(d) = Len(m.cap) /\ DOMAIN d = DOMAIN m.cap
        /\ l \in DOMAIN d
        /\ d[l].init = m.cap[l].init /\ d[l].len = m.s - m.cap[l].init /\ d[l].len \in Nat
        /\ \A k \in DOMAIN d : k # l => d[k] = m.cap[k]
        /\ Cardinality(OpenCaps(d)) = Cardinality(OpenCaps(m.cap)) - 1
    <3> HIDE DEF l
    <3>1. l = ToClose(m.cap) /\ d = [m.cap EXCEPT ![l].len = m.s - m.cap[l].init]
      BY DEF l
    <3>2. /\ m \in States(src) /\ Len(src) \in Nat
          /\ \A k \in DOMAIN m.cap : m.cap[k].init <= m.s
      BY <1>1, <1>2
    <3> HIDE DEF d
    <3>3. ClosedTo(src, m, l, d)
      BY <2>2, <3>1, <3>2, Closed
    <3> QED
      BY <3>3 DEF ClosedTo
  <2> HIDE DEF l, d
  <2>4. At(m.s, d).s = m.s /\ At(m.s, d).cap = d
    BY DEF At
  <2>5. Cardinality(OpenCaps(d)) = Cardinality(Opens(pat, p)) - Cardinality(Closes(pat, p))
    BY <1>4, <1>7, <2>3
  <2>6. \A k \in DOMAIN d : d[k].init <= m.s /\ d[k].init + d[k].len <= m.s
    <3>1. ASSUME NEW k \in DOMAIN d PROVE d[k].init <= m.s /\ d[k].init + d[k].len <= m.s
      <4>1. CASE k = l
        BY <1>2, <1>3, <2>3, <4>1
      <4>2. CASE k # l
        BY <1>2, <2>3, <4>2
      <4> QED
        BY <4>1, <4>2
    <3> QED
      BY <3>1
  <2>7. (\A q \in 1 .. p : pat[q].op # "()") => \A k \in DOMAIN d : d[k].len # Position
    <3> SUFFICES ASSUME \A q \in 1 .. p : pat[q].op # "()", NEW k \in DOMAIN d
                 PROVE  d[k].len # Position
      OBVIOUS
    <3>1. \A j \in DOMAIN m.cap : m.cap[j].len # Position
      BY <1>0, <1>5 DEF WayInv
    <3>2. d[l].len # Position
      BY <2>3 DEF Position
    <3> QED
      BY <2>3, <3>1, <3>2
  <2>8. pat[1].op = "(" => Len(d) >= 1
    <3>1. p # 1 => p - 1 >= 1
      BY <1>1
    <3>2. p = 1 => pat[1].op # "("
      BY <1>7
    <3> QED
      BY <1>0, <2>3, <3>1, <3>2 DEF WayInv
  <2> QED
    BY <1>0, <2>1, <2>3, <2>4, <2>5, <2>6, <2>7, <2>8 DEF WayInv
<1> QED
  BY <1>0, <1>6, <1>7

(* One item, for the reference and for match.                                *)
AgreesOn(rest, m, t, r) ==
    /\ t.s = 0 => r = Null(m.cap)
    /\ t.s # 0 /\ rest[t].s # 0 => r = rest[t]
    /\ t.s # 0 /\ rest[t] = Null(t.cap) => r = Null(m.cap)

MovesTo(src, m, t) == \E e \in Positions(src) : e >= m.s /\ t = At(e, m.cap)

LEMMA ItemMoves ==
    ASSUME NEW src, NEW pat, Asked(src, pat), NEW p \in 1 .. Len(pat),
           NEW m, WayInv(src, pat, p - 1, m), NEW n, NEW t, t = WayItem(src, pat[p], n, m),
           pat[p].op \notin {"(", "()", ")"}, pat[p].op = "single" => n \in Nat
    PROVE  t = Null(<<>>) \/ MovesTo(src, m, t)
<1> DEFINE i == pat[p]
<1>1. /\ Len(src) \in Nat /\ m.s \in Nat /\ m.s \in Positions(src) /\ m.s >= 1 /\ i \in AllItems
      /\ m.s <= Len(src) + 1
  BY DEF Asked, WayInv, States, Positions
<1>2. i.op \in {"single", "$", "back", "balance", "frontier"}
  BY <1>1, ItemKinds
<1>3. CASE i.op = "single"
  <2>1. t = Null(<<>>) \/ (m.s + n <= Len(src) + 1 /\ t = At(m.s + n, m.cap))
    BY <1>3 DEF WayItem
  <2>2. m.s + n <= Len(src) + 1 => m.s + n \in Positions(src) /\ m.s + n >= m.s
    BY <1>1, <1>3 DEF Positions
  <2> QED
    BY <2>1, <2>2 DEF MovesTo
<1>4. CASE i.op = "$"
  <2>1. t = Null(<<>>) \/ t = At(m.s, m.cap)
    BY <1>4 DEF WayItem
  <2> QED
    BY <1>1, <2>1 DEF MovesTo
<1>5. CASE i.op = "back"
  <2> DEFINE k == m.cap[1].len
  <2>1. i.n = 1
    BY <1>1, <1>5, ItemKinds
  <2>2. t = Null(<<>>) \/ (m.s + k <= Len(src) + 1 /\ t = At(m.s + k, m.cap))
    BY <1>5, <2>1 DEF WayItem
  <2>3. k \in Nat
    BY <1>5, BackIs
  <2> HIDE DEF k
  <2>4. m.s + k <= Len(src) + 1 => m.s + k \in Positions(src) /\ m.s + k >= m.s
    BY <1>1, <2>3 DEF Positions
  <2> QED
    BY <2>2, <2>4 DEF MovesTo
<1>6. CASE i.op = "balance"
  <2> DEFINE b == MatchBalance(src, m.s, i)
  <2>1. t = Null(<<>>) \/ (b # 0 /\ t = At(b, m.cap))
    BY <1>6 DEF WayItem
  <2>2. b # 0 => b \in Positions(src) /\ b >= m.s
    BY <1>1, BalanceIs DEF Asked
  <2> HIDE DEF b
  <2> QED
    BY <2>1, <2>2 DEF MovesTo
<1>7. CASE i.op = "frontier"
  <2>1. t = Null(<<>>) \/ t = At(m.s, m.cap)
    BY <1>7 DEF WayItem
  <2> QED
    BY <1>1, <2>1 DEF MovesTo
<1> QED
  BY <1>2, <1>3, <1>4, <1>5, <1>6, <1>7

LEMMA ItemKeeps ==
    ASSUME NEW src, NEW pat, Asked(src, pat), NEW p \in 1 .. Len(pat),
           NEW m, WayInv(src, pat, p - 1, m), NEW n, NEW t, t = WayItem(src, pat[p], n, m),
           pat[p].op = "single" => n \in Nat, t.s # 0
    PROVE  WayInv(src, pat, p, t) /\ t.s >= m.s
<1>1. m.s \in Nat
  BY DEF WayInv, States, Positions
<1>2. CASE pat[p].op \in {"(", "()", ")"}
  <2>1. WayInv(src, pat, p, t) /\ t.s = m.s
    <3>1. Paren(src, pat, p, m, n, t)
      BY <1>2 DEF Paren
    <3> QED
      BY <3>1, ItemKeepsParen
  <2> QED
    BY <1>1, <2>1
<1>3. CASE pat[p].op \notin {"(", "()", ")"}
  <2>1. t # Null(<<>>)
    BY DEF Null
  <2>2. MovesTo(src, m, t)
    BY <1>3, <2>1, ItemMoves
  <2>3. PICK e \in Positions(src) : e >= m.s /\ t = At(e, m.cap)
    BY <2>2 DEF MovesTo
  <2>4. WayInv(src, pat, p, At(e, m.cap))
    BY <1>3, <2>3, Moved
  <2> QED
    BY <2>3, <2>4 DEF At
<1> QED
  BY <1>2, <1>3

LEMMA GotoAgrees ==
    ASSUME NEW rest, NEW m, NEW e, NEW t, NEW r, e = 0 => t.s = 0, e # 0 => t = At(e, m.cap),
           r = IF e = 0 THEN Null(m.cap) ELSE rest[At(e, m.cap)]
    PROVE  AgreesOn(rest, m, t, r)
<1>1. CASE e = 0
  BY <1>1 DEF AgreesOn
<1>2. CASE e # 0
  <2>1. t = At(e, m.cap) /\ t.s = e /\ t.cap = m.cap /\ r = rest[t]
    BY <1>2 DEF At
  <2> QED
    BY <1>2, <2>1 DEF AgreesOn
<1> QED
  BY <1>1, <1>2

LEMMA ItemAgrees ==
    ASSUME NEW src, NEW pat, Asked(src, pat), NEW p \in 1 .. Len(pat),
           NEW m, WayInv(src, pat, p - 1, m), NEW n, NEW t, t = WayItem(src, pat[p], n, m),
           pat[p].op # "single", NEW rest,
           p = Len(pat) => \A x \in States(src) : rest[x] = x
    PROVE  AgreesOn(rest, m, t, MatchItem(src, pat[p], rest, m))
<1> DEFINE i == pat[p]
           r == MatchItem(src, i, rest, m)
<1>1. /\ Len(src) \in Nat /\ m.s \in Nat /\ m.s >= 1 /\ i \in AllItems
      /\ m.s <= Len(src) + 1 /\ m \in States(src) /\ m = At(m.s, m.cap)
  BY DEF Asked, WayInv, States, Positions, At
<1>2. i.op \in {"(", "()", ")", "$", "back", "balance", "frontier"}
  BY <1>1, ItemKinds
<1>n. Null(<<>>).s = 0
  BY DEF Null
<1>3. CASE i.op \in {"(", "()"}
  <2> DEFINE what == IF i.op = "(" THEN Unfinished ELSE Position
             d == Append(m.cap, [init |-> m.s, len |-> what])
  <2>1. t = At(m.s, d) /\ r = StartCapture(rest, m, what)
    BY <1>3 DEF WayItem, MatchItem
  <2>2. OpenedTo(src, m, what, d)
    <3>1. d = Append(m.cap, [init |-> m.s, len |-> what])
      OBVIOUS
    <3>2. what \in {Unfinished, Position}
      OBVIOUS
    <3> HIDE DEF what, d
    <3> QED
      BY <1>1, <3>1, <3>2, Opened
  <2>3. r = IF rest[t].s = 0 THEN Null(SubSeq(rest[t].cap, 1, Len(rest[t].cap) - 1)) ELSE rest[t]
    BY <2>1 DEF StartCapture
  <2> HIDE DEF d, what, r
  <2>4. t.s = m.s /\ t.cap = d /\ SubSeq(d, 1, Len(d) - 1) = m.cap
    BY <2>1, <2>2 DEF At, OpenedTo
  <2>5. rest[t] = Null(t.cap) => rest[t].s = 0 /\ rest[t].cap = d
    BY <2>4 DEF Null
  <2>6. rest[t] = Null(t.cap) => r = Null(m.cap)
    <3> SUFFICES ASSUME rest[t] = Null(t.cap) PROVE r = Null(m.cap)
      OBVIOUS
    <3>1. r = Null(SubSeq(rest[t].cap, 1, Len(rest[t].cap) - 1))
      BY <2>3, <2>5
    <3>2. rest[t].cap = d
      BY <2>5
    <3> QED
      BY <2>4, <3>1, <3>2
  <2>7. t.s # 0 /\ (rest[t].s # 0 => r = rest[t])
    BY <1>1, <2>3, <2>4
  <2> QED
    BY <2>6, <2>7 DEF AgreesOn, r
<1>4. CASE i.op = ")"
  <2> DEFINE l == ToClose(m.cap)
             d == [m.cap EXCEPT ![l].len = m.s - m.cap[l].init]
  <2>1. t = At(m.s, d)
    BY <1>4 DEF WayItem
  <2>2. r = IF rest[t].s = 0 THEN Null([rest[t].cap EXCEPT ![l].len = Unfinished]) ELSE rest[t]
    <3>1. r = EndCapture(rest, m)
      BY <1>4 DEF MatchItem
    <3> QED
      BY <2>1, <3>1 DEF EndCapture
  <2>3. ClosedTo(src, m, l, d)
    <3>1. l = ToClose(m.cap)
      OBVIOUS
    <3> HIDE DEF l
    <3>2. d = [m.cap EXCEPT ![l].len = m.s - m.cap[l].init]
      OBVIOUS
    <3>3. Cardinality(OpenCaps(m.cap)) > 0
      BY <1>4, SomeOpen
    <3>4. \A k \in DOMAIN m.cap : m.cap[k].init <= m.s
      BY DEF WayInv
    <3> HIDE DEF d
    <3> QED
      BY <1>1, <3>1, <3>2, <3>3, <3>4, Closed
  <2> HIDE DEF l, d, r
  <2>4. t.s = m.s /\ t.cap = d /\ [d EXCEPT ![l].len = Unfinished] = m.cap
    BY <2>1, <2>3 DEF At, ClosedTo
  <2>5. rest[t] = Null(t.cap) => rest[t].s = 0 /\ rest[t].cap = d
    BY <2>4 DEF Null
  <2> QED
    BY <1>1, <2>2, <2>4, <2>5 DEF AgreesOn, r
<1>5. CASE i.op = "$"
  <2>1. p = Len(pat)
    BY <1>5 DEF Asked, WellFormed
  <2>2. r = IF m.s = Len(src) + 1 THEN m ELSE Null(m.cap)
    BY <1>5 DEF MatchItem
  <2>3. t = IF m.s = Len(src) + 1 THEN At(m.s, m.cap) ELSE Null(<<>>)
    BY <1>5 DEF WayItem
  <2>4. rest[m] = m
    BY <1>1, <2>1
  <2> HIDE DEF r
  <2>5. CASE m.s = Len(src) + 1
    <3>1. t = m /\ r = m
      BY <1>1, <2>2, <2>3, <2>5
    <3>2. m # Null(m.cap)
      BY <1>1 DEF Null
    <3> QED
      BY <1>1, <2>4, <3>1, <3>2 DEF AgreesOn, r
  <2>6. CASE m.s # Len(src) + 1
    BY <1>n, <2>2, <2>3, <2>6 DEF AgreesOn, r
  <2> QED
    BY <2>5, <2>6
<1>6. CASE i.op = "back"
  <2> DEFINE c == m.cap[1]
             e == MatchBack(src, m.s, c)
  <2>1. i.n = 1
    BY <1>1, <1>6, ItemKinds
  <2>2. r = IF e = 0 THEN Null(m.cap) ELSE rest[At(e, m.cap)]
    BY <1>6, <2>1 DEF MatchItem
  <2>3. t = IF /\ m.s + c.len <= Len(src) + 1
               /\ \A k \in 0 .. c.len - 1 : src[m.s + k] = src[c.init + k]
            THEN At(m.s + c.len, m.cap) ELSE Null(<<>>)
    BY <1>6, <2>1 DEF WayItem
  <2>4. c.len \in Nat /\ c.init \in Nat /\ c.init >= 1 /\ c.init + c.len <= m.s
    BY <1>6, BackIs
  <2>5. e = IF Len(src) + 1 - m.s >= c.len /\ SubSeq(src, c.init, c.init + c.len - 1)
                                                = SubSeq(src, m.s, m.s + c.len - 1)
            THEN m.s + c.len ELSE 0
    BY DEF MatchBack
  <2> DEFINE init == c.init
             len == c.len
             s == m.s
  <2>6. s \in Nat /\ len \in Nat /\ init \in Nat /\ init >= 1 /\ init + len <= s /\ s >= 1
        /\ s <= Len(src) + 1
    BY <1>1, <2>4
  <2> HIDE DEF e, init, len, s
  <2>7. s + len <= Len(src) + 1 =>
            (SubSeq(src, init, init + len - 1) = SubSeq(src, s, s + len - 1)
                 <=> \A k \in 0 .. len - 1 : src[s + k] = src[init + k])
    <3> SUFFICES ASSUME s + len <= Len(src) + 1
                 PROVE  SubSeq(src, init, init + len - 1) = SubSeq(src, s, s + len - 1)
                            <=> \A k \in 0 .. len - 1 : src[s + k] = src[init + k]
      OBVIOUS
    <3>1. src \in Seq(Chars) /\ init + len <= Len(src) + 1
      BY <1>1, <2>6 DEF Asked
    <3>2. SubSeq(src, init, init + len - 1) = SubSeq(src, s, s + len - 1)
               <=> \A k \in 0 .. len - 1 : src[init + k] = src[s + k]
      BY <2>6, <3>1, SameText
    <3> QED
      BY <3>2
  <2>8. (Len(src) + 1 - s >= len <=> s + len <= Len(src) + 1) /\ s + len # 0
    BY <1>1, <2>6
  <2>9. /\ e = IF Len(src) + 1 - s >= len /\ SubSeq(src, init, init + len - 1)
                                               = SubSeq(src, s, s + len - 1)
               THEN s + len ELSE 0
        /\ t = IF /\ s + len <= Len(src) + 1
                  /\ \A k \in 0 .. len - 1 : src[s + k] = src[init + k]
               THEN At(s + len, m.cap) ELSE Null(<<>>)
    BY <2>3, <2>5 DEF s, len, init
  <2>10. (e = 0 => t.s = 0) /\ (e # 0 => t = At(e, m.cap))
    BY <1>n, <2>7, <2>8, <2>9
  <2> HIDE DEF r
  <2> QED
    BY <2>2, <2>10, GotoAgrees DEF r
<1>7. CASE i.op = "balance"
  <2> DEFINE e == MatchBalance(src, m.s, i)
  <2>1. r = IF e = 0 THEN Null(m.cap) ELSE rest[At(e, m.cap)]
    BY <1>7 DEF MatchItem
  <2>2. t = IF e # 0 THEN At(e, m.cap) ELSE Null(<<>>)
    BY <1>7 DEF WayItem
  <2> HIDE DEF e, r
  <2> QED
    BY <1>n, <2>1, <2>2, GotoAgrees DEF r
<1>8. CASE i.op = "frontier"
  <2> DEFINE e == IF CharAt(src, m.s - 1) \notin i.set /\ CharAt(src, m.s) \in i.set
                  THEN m.s ELSE 0
  <2>1. r = IF e = 0 THEN Null(m.cap) ELSE rest[At(e, m.cap)]
    BY <1>8 DEF MatchItem
  <2>2. t = IF e # 0 THEN At(e, m.cap) ELSE Null(<<>>)
    <3>1. e # 0 <=> CharAt(src, m.s - 1) \notin i.set /\ CharAt(src, m.s) \in i.set
      BY <1>1
    <3> QED
      BY <1>8, <3>1 DEF WayItem
  <2> HIDE DEF e, r
  <2> QED
    BY <1>n, <2>1, <2>2, GotoAgrees DEF r
<1> QED
  BY <1>2, <1>3, <1>4, <1>5, <1>6, <1>7, <1>8

-----------------------------------------------------------------------------
(* The ways to match, and how they share what their first items do.          *)

Lengths(src, pat, s) == [DOMAIN pat -> 0 .. Len(src) + 1 - s]

Plain(pat, v) == \A p \in DOMAIN pat : pat[p].op # "single" => v[p] = 0

Ways(src, pat, s, p, u) ==
    {v \in Lengths(src, pat, s) :
        /\ Plain(pat, v) /\ \A q \in 1 .. p - 1 : v[q] = u[q]
        /\ End(src, pat, s, v).s # 0}

LEMMA WayHolds ==
    ASSUME NEW src, NEW pat, Asked(src, pat), NEW s \in Positions(src),
           NEW v \in Lengths(src, pat, s), NEW w, w = Way(src, pat, s, v)
    PROVE  \A p \in 0 .. Len(pat) : w[p].s # 0 => WayInv(src, pat, p, w[p]) /\ w[p].s >= s
<1> DEFINE N == Len(pat)
           S == {p \in 0 .. N : w[p].s # 0 => WayInv(src, pat, p, w[p]) /\ w[p].s >= s}
<1>1. N \in Nat /\ DOMAIN pat = 1 .. N /\ s \in Nat /\ s >= 1 /\ Len(src) \in Nat
  BY DEF Asked, Positions
<1>2. /\ w[0] = At(s, <<>>)
      /\ \A p \in 1 .. N :
             w[p] = IF w[p - 1].s = 0 THEN Null(<<>>) ELSE WayItem(src, pat[p], v[p], w[p - 1])
  BY <1>1, WayIs
<1>3. 0 \in S
  <2>1. w[0].s = s /\ w[0].cap = <<>>
    BY <1>2 DEF At
  <2>2. w[0] \in States(src)
    BY <1>2 DEF At, States
  <2>3. OpenCaps(<<>>) = {} /\ Opens(pat, 0) = {} /\ Closes(pat, 0) = {}
    BY DEF OpenCaps, Opens, Closes
  <2>4. Cardinality({}) = 0
    BY FS_EmptySet
  <2>5. WayInv(src, pat, 0, w[0])
    <3>1. Cardinality(OpenCaps(w[0].cap))
              = Cardinality(Opens(pat, 0)) - Cardinality(Closes(pat, 0))
      <4>1. /\ Cardinality(OpenCaps(w[0].cap)) = 0
            /\ Cardinality(Opens(pat, 0)) = 0 /\ Cardinality(Closes(pat, 0)) = 0
        BY <2>1, <2>3, <2>4, Zenon
      <4> QED
        BY <4>1
    <3>2. DOMAIN w[0].cap = {}
      BY <2>1
    <3> QED
      BY <2>2, <3>1, <3>2 DEF WayInv
  <2> QED
    BY <1>1, <2>1, <2>5
<1>4. ASSUME NEW p \in 0 .. N - 1, p \in S PROVE p + 1 \in S
  <2> DEFINE k == p + 1
  <2>1. k \in 1 .. N /\ k - 1 = p /\ k \in DOMAIN pat /\ k \in 0 .. N
    BY <1>1
  <2> HIDE DEF k
  <2> SUFFICES ASSUME w[k].s # 0 PROVE WayInv(src, pat, k, w[k]) /\ w[k].s >= s
    BY <2>1 DEF k
  <2>2. w[k] = IF w[p].s = 0 THEN Null(<<>>) ELSE WayItem(src, pat[k], v[k], w[p])
    BY <1>2, <2>1
  <2>3. w[p].s # 0
    BY <2>2 DEF Null
  <2>4. WayInv(src, pat, k - 1, w[p]) /\ w[p].s >= s
    BY <1>4, <2>1, <2>3
  <2>5. v[k] \in Nat
    BY <1>1, <2>1 DEF Lengths
  <2>6. w[k] = WayItem(src, pat[k], v[k], w[p])
    BY <2>2, <2>3
  <2>7. WayInv(src, pat, k, w[k]) /\ w[k].s >= w[p].s
    BY <2>1, <2>4, <2>5, <2>6, ItemKeeps
  <2>8. w[p].s \in Nat /\ w[k].s \in Nat
    BY <2>4, <2>7 DEF WayInv, States, Positions
  <2> QED
    BY <1>1, <2>4, <2>7, <2>8
<1>5. 0 .. N \subseteq S
  <2> HIDE DEF S
  <2> QED
    BY <1>1, <1>3, <1>4, UpTo
<1> QED
  BY <1>5

(* What was dead stays dead. *)
LEMMA WayEnds ==
    ASSUME NEW src, NEW pat, Asked(src, pat), NEW s, NEW v,
           NEW w, w = Way(src, pat, s, v), NEW p \in 0 .. Len(pat), w[Len(pat)].s # 0
    PROVE  w[p].s # 0
<1> DEFINE N == Len(pat)
           S == {n \in 0 .. N : w[N - n].s # 0}
<1>1. N \in Nat
  BY DEF Asked
<1>2. \A q \in 1 .. N :
          w[q] = IF w[q - 1].s = 0 THEN Null(<<>>) ELSE WayItem(src, pat[q], v[q], w[q - 1])
  BY <1>1, WayIs
<1>3. 0 \in S
  BY <1>1
<1>4. ASSUME NEW n \in 0 .. N - 1, n \in S PROVE n + 1 \in S
  <2>1. N - n \in 1 .. N /\ (N - n) - 1 = N - (n + 1) /\ n + 1 \in 0 .. N
    BY <1>1
  <2>2. w[N - n] = IF w[(N - n) - 1].s = 0 THEN Null(<<>>)
                   ELSE WayItem(src, pat[N - n], v[N - n], w[(N - n) - 1])
    BY <1>2, <2>1
  <2>3. w[N - n].s # 0
    BY <1>4
  <2>4. w[(N - n) - 1].s # 0
    BY <2>2, <2>3 DEF Null
  <2> QED
    BY <2>1, <2>4
<1>5. 0 .. N \subseteq S
  <2> HIDE DEF S
  <2> QED
    BY <1>1, <1>3, <1>4, UpTo
<1>6. N - p \in 0 .. N /\ N - (N - p) = p
  BY <1>1
<1> QED
  BY <1>5, <1>6

LEMMA WaySame ==
    ASSUME NEW src, NEW pat, Asked(src, pat), NEW s, NEW u, NEW v, NEW n \in 0 .. Len(pat),
           \A q \in 1 .. n : u[q] = v[q]
    PROVE  Way(src, pat, s, u)[n] = Way(src, pat, s, v)[n]
<1> DEFINE N == Len(pat)
           x == Way(src, pat, s, u)
           y == Way(src, pat, s, v)
           S == {p \in 0 .. n : x[p] = y[p]}
<1>1. N \in Nat /\ n \in Nat
  BY DEF Asked
<1>2. /\ x[0] = At(s, <<>>)
      /\ \A p \in 1 .. N :
             x[p] = IF x[p - 1].s = 0 THEN Null(<<>>) ELSE WayItem(src, pat[p], u[p], x[p - 1])
  BY <1>1, WayIs
<1>3. /\ y[0] = At(s, <<>>)
      /\ \A p \in 1 .. N :
             y[p] = IF y[p - 1].s = 0 THEN Null(<<>>) ELSE WayItem(src, pat[p], v[p], y[p - 1])
  BY <1>1, WayIs
<1> HIDE DEF x, y
<1>4. 0 \in S
  BY <1>1, <1>2, <1>3
<1>5. ASSUME NEW p \in 0 .. n - 1, p \in S PROVE p + 1 \in S
  <2>1. p + 1 \in 1 .. N /\ (p + 1) - 1 = p /\ p + 1 \in 1 .. n /\ p + 1 \in 0 .. n
    BY <1>1
  <2>2. x[p] = y[p] /\ u[p + 1] = v[p + 1]
    BY <1>5, <2>1
  <2>3. /\ x[p + 1] = IF x[p].s = 0 THEN Null(<<>>) ELSE WayItem(src, pat[p + 1], u[p + 1], x[p])
        /\ y[p + 1] = IF y[p].s = 0 THEN Null(<<>>) ELSE WayItem(src, pat[p + 1], v[p + 1], y[p])
    BY <1>2, <1>3, <2>1
  <2>4. x[p + 1] = y[p + 1]
    BY <2>2, <2>3
  <2> QED
    BY <2>1, <2>4
<1>6. 0 .. n \subseteq S
  <2> HIDE DEF S
  <2> QED
    BY <1>1, <1>4, <1>5, UpTo
<1> QED
  BY <1>1, <1>6 DEF x, y

(* The preference among ways. *)
First(pat, v, w, p) ==
    /\ p \in DOMAIN pat /\ \A q \in 1 .. p - 1 : v[q] = w[q]
    /\ IF pat[p].op = "single" /\ pat[p].rep = "-" THEN v[p] < w[p] ELSE v[p] > w[p]

LEMMA PrefersOne ==
    ASSUME NEW src, NEW pat, Asked(src, pat), NEW s \in Positions(src),
           NEW v \in Lengths(src, pat, s), NEW w \in Lengths(src, pat, s),
           Prefers(pat, v, w), Prefers(pat, w, v)
    PROVE  v = w
<1>1. DOMAIN pat = 1 .. Len(pat) /\ Len(pat) \in Nat
  BY DEF Asked
<1>2. \A p \in DOMAIN pat : v[p] \in Int /\ w[p] \in Int
  BY DEF Lengths, Positions
<1>3. SUFFICES ASSUME v # w PROVE FALSE
  OBVIOUS
<1>4. PICK p : First(pat, v, w, p)
  BY <1>3 DEF Prefers, First
<1>5. PICK q : First(pat, w, v, q)
  BY <1>3 DEF Prefers, First
<1>6. p \in Int /\ q \in Int /\ p >= 1 /\ q >= 1 /\ v[p] # w[p] /\ v[q] # w[q]
  BY <1>1, <1>2, <1>4, <1>5 DEF First
<1>7. CASE p < q
  <2>1. p \in 1 .. q - 1
    BY <1>6, <1>7
  <2> QED
    BY <1>5, <1>6, <2>1 DEF First
<1>8. CASE q < p
  <2>1. q \in 1 .. p - 1
    BY <1>6, <1>8
  <2> QED
    BY <1>4, <1>6, <2>1 DEF First
<1>9. CASE p = q
  <2>1. p \in DOMAIN pat /\ v[p] \in Int /\ w[p] \in Int
    BY <1>2, <1>4 DEF First
  <2>2. IF pat[p].op = "single" /\ pat[p].rep = "-" THEN v[p] < w[p] ELSE v[p] > w[p]
    BY <1>4 DEF First
  <2>3. IF pat[p].op = "single" /\ pat[p].rep = "-" THEN w[p] < v[p] ELSE w[p] > v[p]
    BY <1>5, <1>9 DEF First
  <2> QED
    BY <2>1, <2>2, <2>3
<1> QED
  BY <1>6, <1>7, <1>8, <1>9

-----------------------------------------------------------------------------
(* match finds the preferred of the ways that begin as u does.               *)

Preferred(pat, b, W) == b \in W /\ \A w \in W : Prefers(pat, b, w)

Answers(src, pat, s, p, u, cap, r) ==
    \/ Ways(src, pat, s, p, u) = {} /\ r = Null(cap)
    \/ \E b : /\ Preferred(pat, b, Ways(src, pat, s, p, u))
              /\ r = End(src, pat, s, b) /\ r.s # 0

Finds(src, pat, s, p) ==
    \A u \in Lengths(src, pat, s) :
        LET m == Way(src, pat, s, u)[p - 1]
        IN  Plain(pat, u) /\ m.s # 0 =>
                Answers(src, pat, s, p, u, m.cap, Match(src, pat)[p][m])

LEMMA FindsAtEnd ==
    ASSUME NEW src, NEW pat, Asked(src, pat), NEW s \in Positions(src)
    PROVE  Finds(src, pat, s, Len(pat) + 1)
<1> DEFINE N == Len(pat)
           M == Match(src, pat)
<1>1. N \in Nat /\ DOMAIN pat = 1 .. N /\ N + 1 \in 1 .. N + 1 /\ N + 1 > N /\ (N + 1) - 1 = N
      /\ N \in 0 .. N
  BY DEF Asked
<1> SUFFICES ASSUME NEW u \in Lengths(src, pat, s), Plain(pat, u),
                    Way(src, pat, s, u)[N].s # 0
             PROVE  Answers(src, pat, s, N + 1, u, Way(src, pat, s, u)[N].cap,
                            M[N + 1][Way(src, pat, s, u)[N]])
  BY <1>1 DEF Finds
<1> DEFINE m == Way(src, pat, s, u)[N]
           W == Ways(src, pat, s, N + 1, u)
<1>2. m \in States(src) /\ m.s # 0
  BY <1>1, WayHolds DEF WayInv
<1>3. M[N + 1][m] = m
  <2>1. M[N + 1] = [x \in States(src) |-> IF N + 1 > N THEN x
                                          ELSE MatchItem(src, pat[N + 1], M[(N + 1) + 1], x)]
    BY <1>1, MatchIs
  <2> HIDE DEF m, M
  <2> QED
    BY <1>1, <1>2, <2>1
<1>4. u \in W
  BY <1>1, <1>2 DEF Ways, End
<1>5. ASSUME NEW v \in W PROVE v = u
  <2>1. v \in Lengths(src, pat, s) /\ \A q \in 1 .. N : v[q] = u[q]
    BY <1>1 DEF Ways
  <2> QED
    BY <1>1, <2>1 DEF Lengths
<1>6. Preferred(pat, u, W)
  BY <1>4, <1>5 DEF Preferred, Prefers
<1>7. m = End(src, pat, s, u)
  BY DEF End
<1> HIDE DEF m, M, W
<1>8. Answers(src, pat, s, N + 1, u, m.cap, M[N + 1][m])
  BY <1>2, <1>3, <1>6, <1>7 DEF Answers, W
<1> QED
  BY <1>8 DEF m, M

(* Behind an item, the ways that take the same for it.                       *)
LEMMA WaysBehind ==
    ASSUME NEW src, NEW pat, Asked(src, pat), NEW s \in Positions(src), NEW p \in 1 .. Len(pat),
           NEW u \in Lengths(src, pat, s), NEW v \in Ways(src, pat, s, p, u),
           NEW x \in Lengths(src, pat, s), \A q \in 1 .. p - 1 : x[q] = u[q], x[p] = v[p]
    PROVE  /\ v \in Ways(src, pat, s, p + 1, x)
           /\ Way(src, pat, s, x)[p] = WayItem(src, pat[p], x[p], Way(src, pat, s, u)[p - 1])
           /\ Way(src, pat, s, x)[p].s # 0
<1> DEFINE N == Len(pat)
<1>1. N \in Nat /\ p \in Nat /\ p - 1 \in 0 .. N /\ p \in 0 .. N /\ p + 1 - 1 = p
  BY DEF Asked
<1>2. /\ v \in Lengths(src, pat, s) /\ Plain(pat, v) /\ End(src, pat, s, v).s # 0
      /\ \A q \in 1 .. p - 1 : v[q] = u[q]
  BY DEF Ways
<1>3. \A q \in 1 .. p : v[q] = x[q]
  <2>1. \A q \in 1 .. p : q = p \/ q \in 1 .. p - 1
    BY <1>1
  <2> QED
    BY <1>2, <2>1
<1>4. v \in Ways(src, pat, s, p + 1, x)
  BY <1>1, <1>2, <1>3 DEF Ways
<1>5. Way(src, pat, s, v)[p].s # 0
  BY <1>1, <1>2, WayEnds DEF End
<1>6. Way(src, pat, s, x)[p] = Way(src, pat, s, v)[p]
  BY <1>1, <1>3, WaySame
<1>7. Way(src, pat, s, x)[p - 1] = Way(src, pat, s, u)[p - 1]
  BY <1>1, WaySame
<1>8. Way(src, pat, s, x)[p] = IF Way(src, pat, s, x)[p - 1].s = 0 THEN Null(<<>>)
                               ELSE WayItem(src, pat[p], x[p], Way(src, pat, s, x)[p - 1])
  BY <1>1, WayIs
<1>9. Way(src, pat, s, x)[p].s # 0
  BY <1>5, <1>6
<1>10. Null(<<>>).s = 0
  BY DEF Null
<1>11. Way(src, pat, s, x)[p - 1].s # 0
  BY <1>8, <1>9, <1>10
<1> QED
  BY <1>4, <1>7, <1>8, <1>9, <1>11

LEMMA MatchAtItem ==
    ASSUME NEW src, NEW pat, Asked(src, pat), NEW p \in 1 .. Len(pat),
           NEW m, WayInv(src, pat, p - 1, m)
    PROVE  /\ Match(src, pat)[p][m] = MatchItem(src, pat[p], Match(src, pat)[p + 1], m)
           /\ p = Len(pat) => \A x \in States(src) : Match(src, pat)[p + 1][x] = x
<1> DEFINE N == Len(pat)
           M == Match(src, pat)
<1>1. N \in Nat /\ p \in 1 .. N + 1 /\ p + 1 \in 1 .. N + 1 /\ ~(p > N) /\ m \in States(src)
      /\ (p = N => p + 1 > N)
  BY DEF Asked, WayInv
<1>2. M[p] = [x \in States(src) |-> IF p > N THEN x ELSE MatchItem(src, pat[p], M[p + 1], x)]
  BY <1>1, MatchIs
<1>3. M[p + 1] = [x \in States(src) |-> IF p + 1 > N THEN x
                                       ELSE MatchItem(src, pat[p + 1], M[(p + 1) + 1], x)]
  BY <1>1, MatchIs
<1> HIDE DEF M
<1>4. M[p][m] = MatchItem(src, pat[p], M[p + 1], m)
  BY <1>1, <1>2
<1>5. p = N => \A x \in States(src) : M[p + 1][x] = x
  BY <1>1, <1>3
<1> QED
  BY <1>4, <1>5 DEF M

LEMMA FindsPlain ==
    ASSUME NEW src, NEW pat, Asked(src, pat), NEW s \in Positions(src), NEW p \in 1 .. Len(pat),
           pat[p].op # "single", Finds(src, pat, s, p + 1)
    PROVE  Finds(src, pat, s, p)
<1> DEFINE N == Len(pat)
           M == Match(src, pat)
<1>1. N \in Nat /\ DOMAIN pat = 1 .. N /\ p \in Nat /\ p - 1 \in 0 .. N /\ p \in 0 .. N
      /\ p + 1 - 1 = p /\ p \in DOMAIN pat
  BY DEF Asked
<1> SUFFICES ASSUME NEW u \in Lengths(src, pat, s), Plain(pat, u),
                    Way(src, pat, s, u)[p - 1].s # 0
             PROVE  Answers(src, pat, s, p, u, Way(src, pat, s, u)[p - 1].cap,
                            M[p][Way(src, pat, s, u)[p - 1]])
  BY DEF Finds
<1> DEFINE w == Way(src, pat, s, u)
           m == w[p - 1]
           t == w[p]
           W == Ways(src, pat, s, p, u)
           X == Ways(src, pat, s, p + 1, u)
           r == M[p][m]
<1>2. WayInv(src, pat, p - 1, m)
  BY <1>1, WayHolds
<1>3. t = WayItem(src, pat[p], u[p], m)
  BY <1>1, WayIs
<1>4. AgreesOn(M[p + 1], m, t, r)
  <2>1. /\ r = MatchItem(src, pat[p], M[p + 1], m)
        /\ p = N => \A x \in States(src) : M[p + 1][x] = x
    BY <1>2, MatchAtItem
  <2> HIDE DEF w, m, t, r, M
  <2> QED
    BY <1>2, <1>3, <2>1, ItemAgrees
<1>5. \A v \in W : v \in X /\ t.s # 0
  <2>1. ASSUME NEW v \in W PROVE v \in X /\ t.s # 0
    <3>1. v[p] = 0 /\ u[p] = 0
      BY <1>1 DEF Ways, Plain
    <3> QED
      BY <3>1, WaysBehind
  <2> QED
    BY <2>1
<1>6. X \subseteq W
  <2>1. \A q \in 1 .. p - 1 : q \in 1 .. (p + 1) - 1
    BY <1>1
  <2> QED
    BY <2>1 DEF Ways
<1>7. t.s # 0 => Answers(src, pat, s, p + 1, u, t.cap, M[p + 1][t])
  BY <1>1 DEF Finds
<1> HIDE DEF w, m, t, r, M, W, X
<1>8. CASE t.s = 0
  <2>1. W = {} /\ r = Null(m.cap)
    BY <1>4, <1>5, <1>8 DEF AgreesOn
  <2>2. Answers(src, pat, s, p, u, m.cap, r)
    BY <2>1 DEF Answers, W
  <2> QED
    BY <2>2 DEF m, r, w, M
<1>9. CASE t.s # 0
  <2>1. W = X
    BY <1>5, <1>6
  <2>2. \/ X = {} /\ M[p + 1][t] = Null(t.cap)
        \/ \E b : Preferred(pat, b, X) /\ M[p + 1][t] = End(src, pat, s, b) /\ M[p + 1][t].s # 0
    BY <1>7, <1>9 DEF Answers, X
  <2>3. \/ W = {} /\ r = Null(m.cap)
        \/ \E b : Preferred(pat, b, W) /\ r = End(src, pat, s, b) /\ r.s # 0
    <3>1. CASE X = {} /\ M[p + 1][t] = Null(t.cap)
      BY <1>4, <1>9, <2>1, <3>1 DEF AgreesOn
    <3>2. CASE \E b : Preferred(pat, b, X) /\ M[p + 1][t] = End(src, pat, s, b)
                      /\ M[p + 1][t].s # 0
      <4>1. r = M[p + 1][t]
        BY <1>4, <1>9, <3>2 DEF AgreesOn
      <4> QED
        BY <2>1, <3>2, <4>1
    <3> QED
      BY <2>2, <3>1, <3>2
  <2>4. Answers(src, pat, s, p, u, m.cap, r)
    BY <2>3 DEF Answers, W
  <2> QED
    BY <2>4 DEF m, r, w, M
<1> QED
  BY <1>8, <1>9

LEMMA FindsSingle ==
    ASSUME NEW src, NEW pat, Asked(src, pat), NEW s \in Positions(src), NEW p \in 1 .. Len(pat),
           pat[p].op = "single", Finds(src, pat, s, p + 1)
    PROVE  Finds(src, pat, s, p)
<1> DEFINE N == Len(pat)
           M == Match(src, pat)
           i == pat[p]
           L == Len(src)
<1>1. N \in Nat /\ DOMAIN pat = 1 .. N /\ p \in Nat /\ p - 1 \in 0 .. N /\ p \in 0 .. N
      /\ p + 1 - 1 = p /\ p \in DOMAIN pat /\ s \in Nat /\ L \in Nat /\ s <= L + 1
      /\ src \in Seq(Chars) /\ i \in AllItems
  BY DEF Asked, Positions
<1> SUFFICES ASSUME NEW u \in Lengths(src, pat, s), Plain(pat, u),
                    Way(src, pat, s, u)[p - 1].s # 0
             PROVE  Answers(src, pat, s, p, u, Way(src, pat, s, u)[p - 1].cap,
                            M[p][Way(src, pat, s, u)[p - 1]])
  BY DEF Finds
<1> DEFINE m == Way(src, pat, s, u)[p - 1]
           W == Ways(src, pat, s, p, u)
           r == M[p][m]
           rest == M[p + 1]
           tried == Tried(src, m.s, i)
           x(n) == [u EXCEPT ![p] = n]
           X(n) == Ways(src, pat, s, p + 1, x(n))
<1>2. WayInv(src, pat, p - 1, m) /\ m.s >= s
  BY <1>1, WayHolds
<1>3. m.s \in Positions(src) /\ m.s \in Nat /\ m.s <= L + 1
  BY <1>1, <1>2 DEF WayInv, States, Positions
<1>4. r = FirstMatch(rest, tried, m.cap)
  <2>1. r = MatchItem(src, i, rest, m)
    BY <1>2, MatchAtItem
  <2>2. MatchItem(src, i, rest, m) = FirstMatch(rest, tried, m.cap)
    BY DEF MatchItem
  <2> QED
    BY <2>1, <2>2
<1>5. TriesAll(src, m.s, i, tried)
  <2>1. i.rep \in Reps
    BY <1>1, ItemKinds
  <2> HIDE DEF m, i, tried
  <2> QED
    BY <1>1, <1>3, <2>1, TriedIs DEF tried
(* Taking n characters. *)
<1>6. ASSUME NEW n, Option(src, m.s, i, n)
      PROVE  /\ n \in Nat
             /\ x(n) \in Lengths(src, pat, s) /\ Plain(pat, x(n)) /\ x(n)[p] = n
             /\ \A q \in 1 .. p - 1 : x(n)[q] = u[q]
             /\ Way(src, pat, s, x(n))[p] = At(m.s + n, m.cap)
             /\ Answers(src, pat, s, p + 1, x(n), m.cap, rest[At(m.s + n, m.cap)])
  <2>1. /\ n \in Nat /\ m.s + n <= L + 1 /\ \A k \in 0 .. n - 1 : src[m.s + k] \in i.set
        /\ Takes(i.rep, n)
    BY <1>6 DEF Option, Run
  <2>2. n \in 0 .. L + 1 - s
    <3> HIDE DEF L, m
    <3> QED
      BY <1>1, <1>2, <1>3, <2>1
  <2>3. /\ x(n) \in Lengths(src, pat, s) /\ x(n)[p] = n
        /\ \A q \in DOMAIN pat : q # p => x(n)[q] = u[q]
    BY <1>1, <2>2 DEF Lengths
  <2>4. \A q \in 1 .. p - 1 : x(n)[q] = u[q]
    BY <1>1, <2>3
  <2>5. Plain(pat, x(n))
    BY <2>3 DEF Plain
  <2> HIDE DEF x
  <2>6. Way(src, pat, s, x(n))[p - 1] = m
    BY <1>1, <2>4, WaySame
  <2>7. Way(src, pat, s, x(n))[p] = At(m.s + n, m.cap)
    <3>1. Way(src, pat, s, x(n))[p] = IF Way(src, pat, s, x(n))[p - 1].s = 0 THEN Null(<<>>)
                  ELSE WayItem(src, i, x(n)[p], Way(src, pat, s, x(n))[p - 1])
      BY <1>1, WayIs
    <3>2. Way(src, pat, s, x(n))[p] = WayItem(src, i, n, m)
      BY <2>3, <2>6, <3>1
    <3>3. WayItem(src, i, n, m) = At(m.s + n, m.cap)
      BY <2>1 DEF WayItem
    <3> QED
      BY <3>2, <3>3
  <2>8. At(m.s + n, m.cap).s # 0 /\ At(m.s + n, m.cap).cap = m.cap
    <3>1. m.s # 0 /\ m.s + n # 0
      BY <1>3, <2>1
    <3> QED
      BY <3>1 DEF At
  <2>9. Answers(src, pat, s, p + 1, x(n), m.cap, rest[At(m.s + n, m.cap)])
    <3>1. Way(src, pat, s, x(n))[(p + 1) - 1] = At(m.s + n, m.cap)
      BY <1>1, <2>7
    <3> HIDE DEF m, rest, M
    <3>2. Answers(src, pat, s, p + 1, x(n), At(m.s + n, m.cap).cap, M[p + 1][At(m.s + n, m.cap)])
      BY <2>3, <2>5, <2>8, <3>1 DEF Finds, M
    <3> QED
      BY <2>8, <3>2 DEF rest
  <2> QED
    BY <2>1, <2>3, <2>4, <2>5, <2>7, <2>9
<1> HIDE DEF rest, m, tried, r, i, L, M
<1>7. ASSUME NEW v \in W
      PROVE  Option(src, m.s, i, v[p]) /\ v \in X(v[p])
  <2>1. x(v[p]) \in Lengths(src, pat, s) /\ x(v[p])[p] = v[p]
        /\ \A q \in 1 .. p - 1 : x(v[p])[q] = u[q]
    BY <1>1 DEF Ways, Lengths
  <2>2. v[p] \in Nat
    BY <1>1 DEF Ways, Lengths, L
  <2> HIDE DEF W, x
  <2>3. /\ v \in X(v[p])
        /\ Way(src, pat, s, x(v[p]))[p] = WayItem(src, i, v[p], m)
        /\ Way(src, pat, s, x(v[p]))[p].s # 0
    BY <2>1, WaysBehind DEF W, m, i
  <2>4. WayItem(src, i, v[p], m).s # 0
    BY <2>3
  <2>5. Option(src, m.s, i, v[p])
    <3> DEFINE n == v[p]
               c == /\ Takes(i.rep, n) /\ m.s + n <= L + 1
                    /\ \A k \in 0 .. n - 1 : src[m.s + k] \in i.set
    <3> HIDE DEF n
    <3>1. WayItem(src, i, n, m) = IF c THEN At(m.s + n, m.cap) ELSE Null(<<>>)
      BY DEF WayItem, i, L
    <3>2. Null(<<>>).s = 0
      BY DEF Null
    <3>3. c
      <4> HIDE DEF c
      <4> QED
        BY <2>4, <3>1, <3>2 DEF n
    <3> QED
      BY <2>2, <3>3 DEF Option, Run, n, L
  <2> QED
    BY <2>3, <2>5
<1>8. ASSUME NEW n, Option(src, m.s, i, n) PROVE X(n) \subseteq W
  <2>1. \A q \in 1 .. p - 1 : q \in 1 .. (p + 1) - 1 /\ x(n)[q] = u[q]
    BY <1>1, <1>6, <1>8
  <2> HIDE DEF x
  <2> QED
    BY <2>1 DEF Ways
<1>t. /\ Len(tried) \in Nat
      /\ \A k \in 1 .. Len(tried) : tried[k] \in Int /\ Option(src, m.s, i, tried[k] - m.s)
      /\ \A n : Option(src, m.s, i, n) => \E k \in 1 .. Len(tried) : tried[k] = m.s + n
      /\ \A j, k \in 1 .. Len(tried) :
             j < k => IF i.rep = "-" THEN tried[j] < tried[k] ELSE tried[j] > tried[k]
  BY <1>5 DEF TriesAll
<1>9. ASSUME NEW k \in 1 .. Len(tried)
      PROVE  /\ m.s + (tried[k] - m.s) = tried[k]
             /\ Answers(src, pat, s, p + 1, x(tried[k] - m.s), m.cap, rest[At(tried[k], m.cap)])
  <2>1. tried[k] \in Int /\ Option(src, m.s, i, tried[k] - m.s)
    BY <1>t
  <2>2. m.s + (tried[k] - m.s) = tried[k]
    BY <1>3, <2>1
  <2> HIDE DEF x
  <2> QED
    BY <1>6, <2>1, <2>2
<1>10. ASSUME NEW k \in 1 .. Len(tried), rest[At(tried[k], m.cap)].s = 0
       PROVE  rest[At(tried[k], m.cap)] = Null(m.cap) /\ X(tried[k] - m.s) = {}
  <2> HIDE DEF x
  <2> QED
    BY <1>9, <1>10 DEF Answers
<1> HIDE DEF x, X, W
<1>11. \/ /\ \A k \in 1 .. Len(tried) : rest[At(tried[k], m.cap)].s = 0
          /\ r = Null(m.cap)
       \/ \E k \in 1 .. Len(tried) :
              /\ rest[At(tried[k], m.cap)].s # 0
              /\ \A j \in 1 .. k - 1 : rest[At(tried[j], m.cap)].s = 0
              /\ r = rest[At(tried[k], m.cap)]
  <2>1. \A k \in 1 .. Len(tried) :
            rest[At(tried[k], m.cap)].s = 0 => rest[At(tried[k], m.cap)] = Null(m.cap)
    BY <1>10
  <2> DEFINE cap == m.cap
             f == FirstMatch(rest, tried, cap)
  <2> HIDE DEF cap
  <2>2. \A k \in 1 .. Len(tried) :
            rest[At(tried[k], cap)].s = 0 => rest[At(tried[k], cap)] = Null(cap)
    BY <2>1 DEF cap
  <2>3. \/ /\ \A k \in 1 .. Len(tried) : rest[At(tried[k], cap)].s = 0
           /\ f = Null(cap)
        \/ \E k \in 1 .. Len(tried) :
               /\ rest[At(tried[k], cap)].s # 0
               /\ \A j \in 1 .. k - 1 : rest[At(tried[j], cap)].s = 0
               /\ f = rest[At(tried[k], cap)]
    BY <1>t, <2>2, FirstMatchIs
  <2> QED
    BY <1>4, <2>3 DEF cap
<1>12. CASE /\ \A k \in 1 .. Len(tried) : rest[At(tried[k], m.cap)].s = 0
            /\ r = Null(m.cap)
  <2>1. ASSUME NEW v \in W PROVE FALSE
    <3>1. Option(src, m.s, i, v[p]) /\ v \in X(v[p])
      BY <1>7
    <3>2. PICK k \in 1 .. Len(tried) : tried[k] = m.s + v[p]
      BY <1>t, <3>1
    <3>3. X(tried[k] - m.s) = {}
      BY <1>10, <1>12
    <3>4. tried[k] - m.s = v[p]
      BY <1>3, <1>6, <3>1, <3>2
    <3> QED
      BY <3>1, <3>3, <3>4
  <2>2. Answers(src, pat, s, p, u, m.cap, r)
    BY <1>12, <2>1 DEF Answers, W
  <2> QED
    BY <2>2 DEF m, r, M
<1>13. ASSUME NEW k \in 1 .. Len(tried), rest[At(tried[k], m.cap)].s # 0,
              \A j \in 1 .. k - 1 : rest[At(tried[j], m.cap)].s = 0,
              r = rest[At(tried[k], m.cap)]
       PROVE  Answers(src, pat, s, p, u, m.cap, r)
  <2> DEFINE n == tried[k] - m.s
  <2>1. tried[k] \in Int /\ Option(src, m.s, i, n) /\ n \in Nat /\ m.s + n = tried[k]
    <3>1. tried[k] \in Int /\ Option(src, m.s, i, n)
      BY <1>t
    <3> HIDE DEF n
    <3>2. n \in Nat
      BY <1>6, <3>1
    <3> QED
      BY <1>9, <3>1, <3>2 DEF n
  <2>2. Answers(src, pat, s, p + 1, x(n), m.cap, r)
    BY <1>9, <1>13
  <2> HIDE DEF n
  <2>3. r # Null(m.cap)
    BY <1>13 DEF Null
  <2>4. PICK b : Preferred(pat, b, X(n)) /\ r = End(src, pat, s, b) /\ r.s # 0
    BY <2>2, <2>3 DEF Answers, X
  <2>5. b \in X(n) /\ b \in W
    BY <1>8, <2>1, <2>4 DEF Preferred
  <2>6. b[p] = n /\ \A q \in 1 .. p - 1 : b[q] = u[q]
    <3>1. b[p] = x(n)[p]
      <4>1. p \in 1 .. (p + 1) - 1
        BY <1>1
      <4> QED
        BY <2>5, <4>1 DEF X, Ways
    <3> QED
      BY <1>6, <2>1, <2>5, <3>1 DEF W, Ways
  <2>7. ASSUME NEW w \in W PROVE Prefers(pat, b, w)
    <3>1. Option(src, m.s, i, w[p]) /\ w \in X(w[p]) /\ w[p] \in Nat
      BY <1>6, <1>7
    <3>2. PICK j \in 1 .. Len(tried) : tried[j] = m.s + w[p]
      BY <1>t, <3>1
    <3>3. tried[j] \in Int /\ tried[j] - m.s = w[p] /\ j \in Int /\ k \in Int
      <4>1. tried[j] \in Int
        BY <1>t
      <4>2. j \in Int /\ k \in Int
        BY <1>t
      <4>3. tried[j] - m.s = w[p]
        BY <1>3, <3>1, <3>2
      <4> QED
        BY <4>1, <4>2, <4>3
    <3>4. CASE j < k
      <4>1. j \in 1 .. k - 1
        BY <3>3, <3>4
      <4>2. X(w[p]) = {}
        BY <1>10, <1>13, <3>3, <4>1
      <4> QED
        BY <3>1, <4>2
    <3>5. CASE j = k
      <4>1. w[p] = n
        BY <3>3, <3>5 DEF n
      <4> QED
        BY <2>4, <3>1, <4>1 DEF Preferred
    <3>6. CASE j > k
      <4>1. IF i.rep = "-" THEN tried[k] < tried[j] ELSE tried[k] > tried[j]
        BY <1>t, <3>6
      <4>2. IF i.rep = "-" THEN b[p] < w[p] ELSE b[p] > w[p]
        BY <1>3, <2>1, <2>6, <3>1, <3>2, <4>1
      <4>3. \A q \in 1 .. p - 1 : b[q] = w[q]
        BY <2>6 DEF W, Ways
      <4> QED
        BY <1>1, <4>2, <4>3 DEF Prefers, i
    <3> QED
      BY <3>3, <3>4, <3>5, <3>6
  <2>8. Preferred(pat, b, W)
    BY <2>5, <2>7 DEF Preferred
  <2> QED
    BY <2>4, <2>8 DEF Answers, W
<1>14. Answers(src, pat, s, p, u, m.cap, r)
  <2>1. CASE /\ \A k \in 1 .. Len(tried) : rest[At(tried[k], m.cap)].s = 0
             /\ r = Null(m.cap)
    BY <1>12, <2>1 DEF m, r, M
  <2>2. CASE \E k \in 1 .. Len(tried) :
              /\ rest[At(tried[k], m.cap)].s # 0
              /\ \A j \in 1 .. k - 1 : rest[At(tried[j], m.cap)].s = 0
              /\ r = rest[At(tried[k], m.cap)]
    BY <1>13, <2>2
  <2> QED
    BY <1>11, <2>1, <2>2
<1> QED
  BY <1>14 DEF m, r, M

LEMMA FindsAll ==
    ASSUME NEW src, NEW pat, Asked(src, pat), NEW s \in Positions(src)
    PROVE  Finds(src, pat, s, 1)
<1> DEFINE N == Len(pat)
           S == {n \in 0 .. N : Finds(src, pat, s, N + 1 - n)}
<1>1. N \in Nat
  BY DEF Asked
<1>2. 0 \in S
  BY <1>1, FindsAtEnd
<1>3. ASSUME NEW n \in 0 .. N - 1, n \in S PROVE n + 1 \in S
  <2> DEFINE p == N - n
  <2>1. p \in 1 .. N /\ p + 1 = N + 1 - n /\ p = N + 1 - (n + 1) /\ n + 1 \in 0 .. N
    BY <1>1
  <2> HIDE DEF p
  <2>2. Finds(src, pat, s, p + 1)
    BY <1>3, <2>1
  <2>3. Finds(src, pat, s, p)
    BY <2>1, <2>2, FindsPlain, FindsSingle
  <2> QED
    BY <2>1, <2>3
<1>4. 0 .. N \subseteq S
  <2> HIDE DEF S
  <2> QED
    BY <1>1, <1>2, <1>3, UpTo
<1>5. N \in 0 .. N /\ N + 1 - N = 1
  BY <1>1
<1> QED
  BY <1>4, <1>5

LEMMA MatchIsBest ==
    ASSUME NEW src, NEW pat, Asked(src, pat), NEW s \in Positions(src)
    PROVE  MatchAt(src, pat, s) = Best(src, pat, s)
<1> DEFINE u == [p \in DOMAIN pat |-> 0]
           W == Ways(src, pat, s, 1, u)
           r == MatchAt(src, pat, s)
<1>1. s \in Nat /\ s # 0 /\ Len(src) + 1 - s \in Nat /\ Len(pat) \in Nat
  BY DEF Asked, Positions
<1>2. u \in Lengths(src, pat, s) /\ Plain(pat, u)
  BY <1>1 DEF Lengths, Plain
<1>3. Way(src, pat, s, u)[1 - 1] = At(s, <<>>) /\ At(s, <<>>).s # 0 /\ At(s, <<>>).cap = <<>>
  BY <1>1, WayIs DEF At
<1>4. Answers(src, pat, s, 1, u, <<>>, r)
  <2>1. Finds(src, pat, s, 1)
    BY FindsAll
  <2> HIDE DEF u
  <2> QED
    BY <1>2, <1>3, <2>1 DEF Finds, MatchAt
<1>5. W = {v \in [DOMAIN pat -> 0 .. Len(src) + 1 - s] :
              /\ \A p \in DOMAIN pat : pat[p].op # "single" => v[p] = 0
              /\ End(src, pat, s, v).s # 0}
  BY DEF Ways, Lengths, Plain
<1> HIDE DEF W, u, r
<1>6. Best(src, pat, s) = IF W = {} THEN Null(<<>>)
                          ELSE End(src, pat, s, CHOOSE v \in W : \A w \in W : Prefers(pat, v, w))
  BY <1>5 DEF Best
<1>7. CASE W = {} /\ r = Null(<<>>)
  BY <1>6, <1>7 DEF r
<1>8. ASSUME NEW b, Preferred(pat, b, W), r = End(src, pat, s, b)
      PROVE  r = Best(src, pat, s)
  <2> DEFINE c == CHOOSE v \in W : \A w \in W : Prefers(pat, v, w)
  <2>1. b \in W /\ \A w \in W : Prefers(pat, b, w)
    BY <1>8 DEF Preferred
  <2>2. c \in W /\ \A w \in W : Prefers(pat, c, w)
    BY <2>1
  <2> HIDE DEF c
  <2>3. b \in Lengths(src, pat, s) /\ c \in Lengths(src, pat, s)
    BY <2>1, <2>2 DEF W, Ways
  <2>4. b = c
    BY <2>1, <2>2, <2>3, PrefersOne
  <2>5. Best(src, pat, s) = End(src, pat, s, c)
    BY <1>6, <2>1 DEF c
  <2> QED
    BY <1>8, <2>4, <2>5
<1>9. r = Best(src, pat, s)
  <2>1. CASE Ways(src, pat, s, 1, u) = {} /\ r = Null(<<>>)
    BY <1>7, <2>1 DEF W, r
  <2>2. CASE \E b : /\ Preferred(pat, b, Ways(src, pat, s, 1, u))
                    /\ r = End(src, pat, s, b) /\ r.s # 0
    BY <1>8, <2>2 DEF W
  <2> QED
    BY <1>4, <2>1, <2>2 DEF Answers
<1> QED
  BY <1>9 DEF r

LEMMA PatternAsked ==
    ASSUME NEW q \in PatternQuestions
    PROVE  Asked(q.src, q.pat)
<1>1. \A n, max : max \in Nat /\ n \in 0 .. max => [1 .. n -> Chars] \subseteq Seq(Chars)
  BY SeqDef
<1>2. \A max \in Nat : Texts(max) \subseteq Seq(Chars)
  BY <1>1 DEF Texts
<1>3. MaxText \in Nat /\ MaxText + 1 \in Nat /\ MaxItems \in Nat /\ Items \subseteq AllItems
      /\ \A pat \in Longer : pat \in Seq(AllItems) /\ WellFormed(pat)
  BY PatternsAssumption
<1>4. q.src \in Seq(Chars)
  BY <1>2, <1>3 DEF PatternQuestions
<1>5. \A n \in Nat : [1 .. n -> Items] \subseteq Seq(AllItems)
  <2>1. ASSUME NEW n \in Nat PROVE [1 .. n -> Items] \subseteq [1 .. n -> AllItems]
    BY <1>3
  <2>2. \A n \in Nat : [1 .. n -> AllItems] \subseteq Seq(AllItems)
    BY SeqDef
  <2> QED
    BY <2>1, <2>2
<1>6. \A pat \in Wanted : pat \in Seq(AllItems) /\ WellFormed(pat)
  BY <1>3, <1>5 DEF Wanted
<1>7. q.pat \in Seq(AllItems) /\ WellFormed(q.pat)
  BY <1>3, <1>6 DEF PatternQuestions
<1> QED
  BY <1>4, <1>7 DEF Asked

LEMMA PatternsAsked ==
    PatternsSpec => [](asked = Nobody \/ asked \in PatternQuestions \/ asked \in RangeQuestions)
<1> DEFINE I == asked = Nobody \/ asked \in PatternQuestions \/ asked \in RangeQuestions
<1>1. Quiet => I
  BY DEF Quiet
<1>2. I /\ [PatternsNext]_asked => I'
  BY DEF PatternsNext, Ask
<1> QED
  BY <1>1, <1>2, PTL DEF PatternsSpec

LEMMA PatternKinds ==
    ASSUME asked = Nobody \/ asked \in PatternQuestions \/ asked \in RangeQuestions
    PROVE  /\ Of("pattern") => asked \in PatternQuestions
           /\ Of("range") => asked \in RangeQuestions
BY DEF PatternQuestions, RangeQuestions, Of

(* Backtracking over every well-formed pattern and every text of any alphabet *)
(* finds the preferred way to match, with its captures (match, max_expand,    *)
(* min_expand, start_capture, end_capture).                                   *)
THEOREM MatchFindsPreferred == PatternsSpec => []MatchPreferred
<1>1. ASSUME asked = Nobody \/ asked \in PatternQuestions \/ asked \in RangeQuestions
      PROVE  MatchPreferred
  <2>1. Of("pattern") => Asked(asked.src, asked.pat)
    BY <1>1, PatternKinds, PatternAsked
  <2> QED
    BY <2>1, MatchIsBest DEF MatchPreferred, Positions
<1> QED
  BY <1>1, PatternsAsked, PTL

(* The ranges of string.sub and string.byte, for texts of any length and any  *)
(* positions (posrelat, getendpos).                                          *)
THEOREM RangesAreInside == PatternsSpec => []RangeInside
<1>1. ASSUME asked = Nobody \/ asked \in PatternQuestions \/ asked \in RangeQuestions
      PROVE  RangeInside
  <2> SUFFICES ASSUME Of("range") PROVE RangeInside
    BY DEF RangeInside
  <2> DEFINE i == asked.i
             j == asked.j
             L == asked.len
             Counted(k) == IF k < 0 THEN L + 1 + k ELSE k
             inside == {n \in 1 .. L : Counted(i) <= n /\ n <= Counted(j)}
  <2>1. i \in Int /\ j \in Int /\ L \in Nat
    BY <1>1, PatternKinds, PatternsAssumption DEF RangeQuestions
  <2> HIDE DEF i, j, L
  <2>2. PosRelat(i, L) .. GetEndPos(j, L) = inside
    BY <2>1 DEF PosRelat, GetEndPos
  <2>3. i >= 1 /\ j >= i /\ j <= L => i .. j = inside
    BY <2>1
  <2>4. Sub(i, j, L).from .. Sub(i, j, L).to = inside
    <3>1. CASE i >= 1 /\ j >= i /\ j <= L
      BY <2>3, <3>1 DEF Sub
    <3>2. CASE ~(i >= 1 /\ j >= i /\ j <= L)
      BY <2>2, <3>2 DEF Sub
    <3> QED
      BY <3>1, <3>2
  <2>5. Byte(i, j, L).from .. Byte(i, j, L).to = inside
    BY <2>2 DEF Byte
  <2> QED
    BY <2>4, <2>5 DEF RangeInside, i, j, L
<1> QED
  BY <1>1, PatternsAsked, PTL

-----------------------------------------------------------------------------
(* The searches: a function that looks at a start, and unless that decides it  *)
(* goes on at a later one, exists, and it finds the first of the starts it     *)
(* looks for when it steps over none.                                         *)

After(H, s) == {h \in H : h >= s}

Searches(f, N, Done, val, next) ==
    f = [s \in 1 .. N |-> IF s \in Done THEN val[s] ELSE f[next[s]]]

FirstOf(H, r) == IF H = {} THEN r = 0 ELSE r \in H /\ \A h \in H : r <= h

LEMMA SearchSolved ==
    ASSUME NEW N \in Nat, NEW Done, NEW val, NEW next,
           \A s \in 1 .. N : s \notin Done => next[s] \in s + 1 .. N
    PROVE  \E f : Searches(f, N, Done, val, next)
<1> DEFINE Step(s, r) == IF s \in Done THEN val[s] ELSE r
           Solves(n, f) == f = [s \in N + 1 - n .. N |-> Step(s, f[next[s]])]
           S == {n \in 0 .. N : \E g : Solves(n, g)}
<1>0. ASSUME NEW s \in 1 .. N, NEW r, NEW t, next[s] \in s + 1 .. N => r = t
      PROVE  Step(s, r) = Step(s, t)
  BY <1>0
<1> HIDE DEF Step
<1>1. 0 \in S
  <2> DEFINE f == [s \in N + 1 .. N |-> 0]
  <2>1. Solves(0, f)
    OBVIOUS
  <2> HIDE DEF Solves, f
  <2> QED
    BY <2>1
<1>2. ASSUME NEW n \in 0 .. N - 1, n \in S PROVE n + 1 \in S
  <2>1. PICK f : Solves(n, f)
    BY <1>2
  <2> DEFINE g == [s \in N - n .. N |-> IF s = N - n THEN Step(s, f[next[s]]) ELSE f[s]]
  <2>2. ASSUME NEW s \in N - n .. N PROVE g[s] = Step(s, g[next[s]])
    <3>1. next[s] \in s + 1 .. N => g[next[s]] = f[next[s]]
      OBVIOUS
    <3>2. s \in 1 .. N
      OBVIOUS
    <3>3. Step(s, f[next[s]]) = Step(s, g[next[s]])
      <4> HIDE DEF g
      <4> QED
        BY <1>0, <3>1, <3>2
    <3>4. CASE s = N - n
      BY <3>3, <3>4
    <3>5. CASE s # N - n
      <4>1. s \in N + 1 - n .. N /\ g[s] = f[s]
        BY <3>5
      <4>2. f[s] = Step(s, f[next[s]])
        BY <2>1, <4>1
      <4> QED
        BY <3>3, <4>1, <4>2
    <3> QED
      BY <3>4, <3>5
  <2>3. Solves(n + 1, g)
    <3>1. N + 1 - (n + 1) = N - n
      OBVIOUS
    <3> QED
      BY <2>2, <3>1
  <2> HIDE DEF Solves, g
  <2> QED
    BY <2>3
<1>3. PICK f : Solves(N, f)
  <2> HIDE DEF S
  <2>1. 0 .. N \subseteq S
    BY <1>1, <1>2, UpTo
  <2>2. N \in S
    BY <2>1
  <2> QED
    BY <2>2 DEF S
<1>4. N + 1 - N = 1
  OBVIOUS
<1> QED
  BY <1>3, <1>4 DEF Step, Searches

LEMMA SearchFinds ==
    ASSUME NEW N \in Nat, NEW Done, NEW val, NEW next, NEW H \in SUBSET (1 .. N), NEW f,
           Searches(f, N, Done, val, next),
           \A s \in 1 .. N :
               IF s \in Done THEN FirstOf(After(H, s), val[s])
               ELSE next[s] \in s + 1 .. N /\ \A h \in After(H, s) : h >= next[s]
    PROVE  \A s \in 1 .. N : FirstOf(After(H, s), f[s])
<1> DEFINE S == {n \in 0 .. N : \A s \in N + 1 - n .. N : FirstOf(After(H, s), f[s])}
<1>1. 0 \in S
  OBVIOUS
<1>2. ASSUME NEW n \in 0 .. N - 1, n \in S PROVE n + 1 \in S
  <2>1. ASSUME NEW s \in N - n .. N PROVE FirstOf(After(H, s), f[s])
    <3>1. s \in 1 .. N
      OBVIOUS
    <3>2. CASE s # N - n
      BY <1>2, <3>2
    <3>3. CASE s = N - n /\ s \in Done
      <4>1. f[s] = val[s]
        BY <3>1, <3>3 DEF Searches
      <4> QED
        BY <3>1, <3>3, <4>1
    <3>4. CASE s = N - n /\ s \notin Done
      <4>1. next[s] \in s + 1 .. N /\ f[s] = f[next[s]] /\ \A h \in After(H, s) : h >= next[s]
        BY <3>1, <3>4 DEF Searches
      <4>2. After(H, s) = After(H, next[s])
        <5> DEFINE t == next[s]
        <5>1. t \in s + 1 .. N /\ \A h \in After(H, s) : h >= t
          BY <4>1
        <5> HIDE DEF t
        <5>2. \A h \in H : h >= s <=> h >= t
          BY <3>1, <5>1 DEF After
        <5> QED
          BY <5>2 DEF After, t
      <4>3. FirstOf(After(H, next[s]), f[next[s]])
        BY <1>2, <3>4, <4>1
      <4> QED
        BY <4>1, <4>2, <4>3
    <3> QED
      BY <3>2, <3>3, <3>4
  <2>2. N + 1 - (n + 1) = N - n /\ n + 1 \in 0 .. N
    OBVIOUS
  <2> QED
    BY <2>1, <2>2
<1>3. N \in S
  <2> HIDE DEF S
  <2>1. 0 .. N \subseteq S
    BY <1>1, <1>2, UpTo
  <2> QED
    BY <2>1
<1>4. N + 1 - N = 1
  OBVIOUS
<1> QED
  BY <1>3, <1>4

(* What MatchAt returns: nothing, or a state behind the last item.           *)
LEMMA MatchAtIs ==
    ASSUME NEW src, NEW pat, Asked(src, pat), NEW s \in Positions(src),
           NEW r, r = MatchAt(src, pat, s)
    PROVE  \/ /\ r = Null(<<>>)
              /\ \A v \in Lengths(src, pat, s) : Plain(pat, v) => End(src, pat, s, v).s = 0
           \/ \E v \in Lengths(src, pat, s) :
                  /\ Plain(pat, v) /\ r = End(src, pat, s, v) /\ r.s # 0
                  /\ r \in States(src) /\ r.s >= s
<1> DEFINE u == [p \in DOMAIN pat |-> 0]
<1>1. s \in Nat /\ s # 0 /\ Len(src) + 1 - s \in Nat /\ Len(pat) \in Nat
  BY DEF Asked, Positions
<1>2. u \in Lengths(src, pat, s) /\ Plain(pat, u)
  BY <1>1 DEF Lengths, Plain
<1>3. Way(src, pat, s, u)[1 - 1] = At(s, <<>>) /\ At(s, <<>>).s # 0 /\ At(s, <<>>).cap = <<>>
  <2> HIDE DEF u
  <2>1. Way(src, pat, s, u)[0] = At(s, <<>>) /\ 1 - 1 = 0
    BY <1>1, WayIs
  <2> QED
    BY <1>1, <2>1 DEF At
<1>4. Answers(src, pat, s, 1, u, <<>>, r)
  <2>1. Finds(src, pat, s, 1)
    BY FindsAll
  <2> HIDE DEF u
  <2> QED
    BY <1>2, <1>3, <2>1 DEF Finds, MatchAt
<1> HIDE DEF u
<1>5. CASE Ways(src, pat, s, 1, u) = {} /\ r = Null(<<>>)
  <2>1. ASSUME NEW v \in Lengths(src, pat, s), Plain(pat, v) PROVE End(src, pat, s, v).s = 0
    BY <1>5, <2>1 DEF Ways
  <2> QED
    BY <1>5, <2>1
<1>6. ASSUME NEW b \in Ways(src, pat, s, 1, u), r = End(src, pat, s, b), r.s # 0
      PROVE  /\ b \in Lengths(src, pat, s) /\ Plain(pat, b)
             /\ r \in States(src) /\ r.s >= s
  <2>1. b \in Lengths(src, pat, s) /\ Plain(pat, b)
    BY DEF Ways
  <2>2. Len(pat) \in 0 .. Len(pat)
    BY <1>1
  <2>3. WayInv(src, pat, Len(pat), r) /\ r.s >= s
    BY <1>6, <2>1, <2>2, WayHolds DEF End
  <2> QED
    BY <2>1, <2>3 DEF WayInv
<1>7. CASE \E b : /\ Preferred(pat, b, Ways(src, pat, s, 1, u))
                  /\ r = End(src, pat, s, b) /\ r.s # 0
  <2>1. PICK b : b \in Ways(src, pat, s, 1, u) /\ r = End(src, pat, s, b) /\ r.s # 0
    BY <1>7 DEF Preferred
  <2> QED
    BY <1>6, <2>1
<1> QED
  BY <1>4, <1>5, <1>7 DEF Answers

Hits(src, pat) == {s \in Positions(src) : MatchAt(src, pat, s).s # 0}

(* A match of a pattern whose first item is a literal begins with it.        *)
LEMMA FirstByteIs ==
    ASSUME NEW src, NEW pat, Asked(src, pat), NEW s \in Positions(src), pat # <<>>,
           Literal(pat[1]), MatchAt(src, pat, s).s # 0
    PROVE  s \in 1 .. Len(src) /\ src[s] = FirstByte(pat)
<1> DEFINE i == pat[1]
           c == FirstByte(pat)
<1>1. Len(pat) \in Nat /\ 1 \in 1 .. Len(pat) /\ DOMAIN pat = 1 .. Len(pat) /\ Len(src) \in Nat
      /\ s \in Nat /\ s >= 1 /\ 1 \in 0 .. Len(pat)
  BY DEF Asked, Positions
<1>2. i.set = {c} /\ i.op = "single" /\ i.rep = ""
  BY DEF Literal, FirstByte
<1>3. PICK v \in Lengths(src, pat, s) : End(src, pat, s, v).s # 0
  BY MatchAtIs DEF Null
<1> DEFINE w == Way(src, pat, s, v)
<1>4. w[1].s # 0 /\ w[0] = At(s, <<>>)
  <2>1. w[Len(pat)].s # 0
    BY <1>3 DEF End
  <2>2. w[1].s # 0
    BY <1>1, <2>1, WayEnds
  <2> QED
    BY <1>1, <2>2, WayIs
<1>5. w[1] = WayItem(src, i, v[1], At(s, <<>>))
  <2>1. w[1] = IF w[1 - 1].s = 0 THEN Null(<<>>) ELSE WayItem(src, i, v[1], w[1 - 1])
    <3>1. \A p \in 1 .. Len(pat) :
              w[p] = IF w[p - 1].s = 0 THEN Null(<<>>) ELSE WayItem(src, pat[p], v[p], w[p - 1])
      <4>1. w = Way(src, pat, s, v) /\ Len(pat) \in Nat
        BY <1>1
      <4> HIDE DEF w
      <4> QED
        BY ONLY <4>1, WayIs
    <3> HIDE DEF w
    <3> QED
      BY <1>1, <3>1
  <2>2. At(s, <<>>).s # 0
    BY <1>1 DEF At
  <2> HIDE DEF w
  <2> QED
    BY <1>4, <2>1, <2>2
<1> HIDE DEF w, i
<1> DEFINE n == v[1]
           m == At(s, <<>>)
           g == /\ Takes(i.rep, n) /\ m.s + n <= Len(src) + 1
                /\ \A k \in 0 .. n - 1 : src[m.s + k] \in i.set
<1> HIDE DEF n, m
<1>6. WayItem(src, i, n, m) = IF g THEN At(m.s + n, m.cap) ELSE Null(<<>>)
  BY <1>2 DEF WayItem
<1>7. g
  <2>1. Null(<<>>).s = 0
    BY DEF Null
  <2> HIDE DEF g
  <2> QED
    BY <1>4, <1>5, <1>6, <2>1 DEF n, m
<1>8. n = 1 /\ m.s = s
  BY <1>2, <1>7 DEF Takes, m, At
<1>9. s + 1 <= Len(src) + 1 /\ src[s + 0] \in i.set
  <2>1. 0 \in 0 .. n - 1
    BY <1>8
  <2> QED
    BY <1>7, <1>8, <2>1
<1>10. src[s] = c
  <2>1. s + 0 = s
    BY <1>1
  <2> HIDE DEF c
  <2> QED
    BY <1>2, <1>9, <2>1
<1> QED
  BY <1>1, <1>9, <1>10

LEMMA NextByteIs ==
    ASSUME NEW src, Len(src) \in Nat, NEW s \in Positions(src), NEW c
    PROVE  FirstOf({n \in s + 1 .. Len(src) : src[n] = c}, NextByte(src, s, c))
<1> DEFINE later == {n \in s + 1 .. Len(src) : src[n] = c}
<1>1. NextByte(src, s, c) = IF later = {} THEN 0
                            ELSE CHOOSE n \in later : \A k \in later : n <= k
  BY DEF NextByte
<1>2. later \in SUBSET Nat
  BY DEF Positions
<1> HIDE DEF later
<1> DEFINE d == CHOOSE n \in later : \A k \in later : n <= k
<1>3. later # {} => FirstOf(later, NextByte(src, s, c))
  <2> SUFFICES ASSUME later # {} PROVE FirstOf(later, NextByte(src, s, c))
    OBVIOUS
  <2>1. \E n \in later : \A k \in later : n <= k
    BY <1>2, LeastOf
  <2>2. d \in later /\ \A k \in later : d <= k
    BY <2>1
  <2>3. NextByte(src, s, c) = d
    BY <1>1
  <2> HIDE DEF d
  <2> QED
    BY <2>2, <2>3 DEF FirstOf
<1>4. FirstOf(later, NextByte(src, s, c))
  <2>1. CASE later = {}
    <3>1. NextByte(src, s, c) = 0
      BY <1>1, <2>1
    <3> QED
      BY <2>1, <3>1 DEF FirstOf
  <2> QED
    BY <1>3, <2>1
<1> QED
  BY <1>4 DEF later

NextStart(src, pat, anchor, s) ==
    IF CanSkip(pat, anchor) /\ s <= Len(src) THEN NextByte(src, s, FirstByte(pat)) ELSE s + 1

(* The loop of str_find_aux, with and without the skip to the first byte.     *)
LEMMA ScanFinds ==
    ASSUME NEW src, NEW pat, Asked(src, pat), NEW anchor \in BOOLEAN, NEW init \in Positions(src),
           NEW s, s = Scan(src, pat, anchor, init)
    PROVE  IF anchor THEN s = IF init \in Hits(src, pat) THEN init ELSE 0
           ELSE FirstOf(After(Hits(src, pat), init), s)
<1> DEFINE N == Len(src) + 1
           H == Hits(src, pat)
           next == [t \in 1 .. N |-> NextStart(src, pat, anchor, t)]
           Done == {t \in 1 .. N : t \in H \/ anchor \/ next[t] = 0 \/ next[t] > N}
           val == [t \in 1 .. N |-> IF t \in H THEN t ELSE 0]
<1>1. N \in Nat /\ Positions(src) = 1 .. N /\ Len(src) \in Nat /\ H \in SUBSET (1 .. N)
  BY DEF Asked, Positions, Hits
<1>2. \A t \in 1 .. N : t \in H <=> MatchAt(src, pat, t).s # 0
  BY <1>1 DEF Hits
<1> DEFINE Body(t, f) ==
               IF MatchAt(src, pat, t).s # 0 THEN t
               ELSE IF anchor \/ NextStart(src, pat, anchor, t) = 0
                       \/ NextStart(src, pat, anchor, t) > Len(src) + 1
               THEN 0 ELSE f[NextStart(src, pat, anchor, t)]
           P(f) == f = [t \in Positions(src) |-> Body(t, f)]
<1>3. s = (CHOOSE f : P(f))[init]
  BY DEF Scan, NextStart
<1>a. ASSUME NEW f PROVE P(f) <=> Searches(f, N, Done, val, next)
  <2>1. ASSUME NEW t \in 1 .. N
        PROVE  Body(t, f) = IF t \in Done THEN val[t] ELSE f[next[t]]
    BY <1>2
  <2> HIDE DEF Body, Done, val, next, N
  <2>2. [t \in Positions(src) |-> Body(t, f)]
            = [t \in 1 .. N |-> IF t \in Done THEN val[t] ELSE f[next[t]]]
    BY <1>1, <2>1
  <2> QED
    BY <2>2 DEF Searches
<1>4. ASSUME NEW t \in 1 .. N
      PROVE  /\ t \in Done <=> t \in H \/ anchor \/ next[t] = 0 \/ next[t] > N
             /\ t \in H => val[t] = t
             /\ t \notin H => val[t] = 0
             /\ next[t] = NextStart(src, pat, anchor, t)
  OBVIOUS
<1>5. ASSUME NEW t \in 1 .. N, t \notin H
      PROVE  /\ next[t] = 0 => ~anchor /\ After(H, t) = {}
             /\ next[t] # 0 => next[t] \in Nat /\ next[t] > t
             /\ ~anchor /\ next[t] # 0 => \A h \in After(H, t) : h >= next[t]
  <2>1. ASSUME NEW h \in After(H, t) PROVE h \in t + 1 .. N
    BY <1>1, <1>5 DEF After
  <2>2. CASE CanSkip(pat, anchor) /\ t <= Len(src)
    <3> DEFINE c == FirstByte(pat)
               L == {n \in t + 1 .. Len(src) : src[n] = c}
    <3>1. ~anchor /\ next[t] = NextByte(src, t, c)
      BY <1>4, <2>2 DEF NextStart, CanSkip
    <3>2. FirstOf(L, next[t])
      BY <1>1, <3>1, NextByteIs
    <3>3. ASSUME NEW h \in After(H, t) PROVE h \in L
      <4>1. h \in Positions(src) /\ MatchAt(src, pat, h).s # 0
        BY DEF After, Hits
      <4>2. h \in 1 .. Len(src) /\ src[h] = c
        BY <2>2, <4>1, FirstByteIs DEF CanSkip
      <4> QED
        BY <1>1, <2>1, <4>2
    <3>4. \A n \in L : n \in Nat /\ n > t /\ n # 0
      BY <1>1
    <3> HIDE DEF L, next, H
    <3> QED
      BY <3>1, <3>2, <3>3, <3>4 DEF FirstOf
  <2>3. CASE ~(CanSkip(pat, anchor) /\ t <= Len(src))
    <3>1. next[t] = t + 1
      BY <1>4, <2>3 DEF NextStart
    <3> HIDE DEF H, next
    <3> QED
      BY <1>1, <2>1, <3>1
  <2> QED
    BY <2>2, <2>3
<1> HIDE DEF N, H, next, Done, val, Body
<1>6. PICK f : Searches(f, N, Done, val, next) /\ s = f[init]
  <2> HIDE DEF P
  <2>1. \A t \in 1 .. N : t \notin Done => next[t] \in t + 1 .. N
    BY <1>1, <1>4, <1>5
  <2>2. \E f : Searches(f, N, Done, val, next)
    BY <1>1, <2>1, SearchSolved
  <2>3. \E f : P(f)
    BY <1>a, <2>2
  <2>4. P(CHOOSE f : P(f))
    BY <2>3
  <2>5. Searches(CHOOSE f : P(f), N, Done, val, next)
    BY <1>a, <2>4
  <2> QED
    BY <1>3, <2>5
<1>7. init \in 1 .. N
  BY <1>1
<1>8. CASE anchor
  <2>1. f[init] = IF init \in Done THEN val[init] ELSE f[next[init]]
    BY <1>6, <1>7 DEF Searches
  <2> QED
    BY <1>4, <1>6, <1>7, <1>8, <2>1 DEF H
<1>9. CASE ~anchor
  <2>1. ASSUME NEW t \in 1 .. N
        PROVE  IF t \in Done THEN FirstOf(After(H, t), val[t])
               ELSE next[t] \in t + 1 .. N /\ \A h \in After(H, t) : h >= next[t]
    <3>1. CASE t \in H
      <4>1. t \in Done /\ val[t] = t
        BY <1>4, <3>1
      <4>2. t \in After(H, t) /\ \A h \in After(H, t) : t <= h
        BY <1>1, <3>1 DEF After
      <4> QED
        BY <4>1, <4>2 DEF FirstOf
    <3>2. CASE t \notin H /\ t \in Done
      <4>1. val[t] = 0
        BY <1>4, <3>2
      <4>2. next[t] = 0 => After(H, t) = {}
        BY <1>5, <3>2
      <4>3. CASE next[t] # 0
        <5>1. next[t] \in Nat /\ next[t] > N
          BY <1>4, <1>5, <1>9, <3>2, <4>3
        <5>2. \A h \in After(H, t) : h >= next[t] /\ h \in 1 .. N
          BY <1>1, <1>5, <1>9, <3>2, <4>3 DEF After
        <5>3. After(H, t) = {}
          BY <1>1, <5>1, <5>2
        <5> QED
          BY <3>2, <4>1, <5>3 DEF FirstOf
      <4> QED
        BY <3>2, <4>1, <4>2, <4>3 DEF FirstOf
    <3>3. CASE t \notin H /\ t \notin Done
      BY <1>1, <1>4, <1>5, <3>3
    <3> QED
      BY <3>1, <3>2, <3>3
  <2>2. \A t \in 1 .. N : FirstOf(After(H, t), f[t])
    BY <1>1, <1>6, <2>1, SearchFinds
  <2> QED
    BY <1>6, <1>7, <1>9, <2>2 DEF H
<1> QED
  BY <1>8, <1>9

-----------------------------------------------------------------------------
(* Plain text: a pattern of literals matches where its characters are.       *)

ReadsAt(src, pat, s, n) ==
    s + n <= Len(src) + 1 /\ \A q \in 1 .. n : src[s + q - 1] \in pat[q].set

LEMMA LiteralsMatch ==
    ASSUME NEW src, NEW pat, Asked(src, pat), NoSpecials(pat), NEW s \in Positions(src),
           NEW v, NEW w, w = Way(src, pat, s, v)
    PROVE  \A p \in 0 .. Len(pat) :
               w[p] = IF (\A q \in 1 .. p : v[q] = 1) /\ ReadsAt(src, pat, s, p)
                      THEN At(s + p, <<>>) ELSE Null(<<>>)
<1> DEFINE N == Len(pat)
           L == Len(src)
           Right(p) == (\A q \in 1 .. p : v[q] = 1) /\ ReadsAt(src, pat, s, p)
           S == {p \in 0 .. N : w[p] = IF Right(p) THEN At(s + p, <<>>) ELSE Null(<<>>)}
<1>1. N \in Nat /\ DOMAIN pat = 1 .. N /\ s \in Nat /\ s >= 1 /\ L \in Nat /\ s <= L + 1
  BY DEF Asked, Positions
<1>2. w[0] = At(s, <<>>) /\ \A p \in 1 .. N :
          w[p] = IF w[p - 1].s = 0 THEN Null(<<>>) ELSE WayItem(src, pat[p], v[p], w[p - 1])
  <2> HIDE DEF S, Right, L
  <2>1. Len(pat) \in Nat /\ w = Way(src, pat, s, v)
    BY <1>1
  <2> QED
    BY <2>1, WayIs
<1>3. 0 \in S
  BY <1>1, <1>2 DEF ReadsAt
<1>4. ASSUME NEW n \in 0 .. N - 1, n \in S PROVE n + 1 \in S
  <2> DEFINE p == n + 1
             i == pat[p]
             m == At(s + n, <<>>)
             k == v[p]
  <2>1. n \in Nat /\ p \in 1 .. N /\ p \in 0 .. N /\ p - 1 = n /\ s + p = s + n + 1
        /\ s + p - 1 = s + n
    BY <1>1
  <2>2. i.op = "single" /\ i.rep = ""
    BY <1>1, <2>1 DEF NoSpecials, Literal
  <2>3. Right(p) <=> Right(n) /\ k = 1 /\ s + n + 1 <= L + 1 /\ src[s + n] \in i.set
    <3>1. 1 .. p = 1 .. n \cup {p}
      BY <2>1
    <3>2. s + n + 1 <= L + 1 => s + n <= L + 1
      BY <1>1, <2>1
    <3>3. \A q \in 1 .. p : q \in 1 .. n \/ q = p
      BY <3>1
    <3> HIDE DEF p
    <3> QED
      BY <2>1, <3>1, <3>2, <3>3 DEF ReadsAt
  <2>4. w[n] = IF Right(n) THEN m ELSE Null(<<>>)
    BY <1>4
  <2>5. w[p] = IF w[n].s = 0 THEN Null(<<>>) ELSE WayItem(src, i, k, w[n])
    BY <1>2, <2>1
  <2>6. m.s = s + n /\ m.cap = <<>> /\ m.s # 0
    BY <1>1, <2>1 DEF At
  <2>7. Null(<<>>).s = 0
    BY DEF Null
  <2> DEFINE g == /\ Takes(i.rep, k) /\ m.s + k <= L + 1
                  /\ \A j \in 0 .. k - 1 : src[m.s + j] \in i.set
  <2> HIDE DEF m, i, k, p, Right
  <2>8. WayItem(src, i, k, m) = IF g THEN At(m.s + k, m.cap) ELSE Null(<<>>)
    BY <2>2 DEF WayItem
  <2>9. g <=> k = 1 /\ s + n + 1 <= L + 1 /\ src[s + n] \in i.set
    <3>1. Takes(i.rep, k) <=> k = 1
      BY <2>2 DEF Takes
    <3>2. 0 .. 1 - 1 = {0} /\ s + n + 0 = s + n
      BY <1>1, <2>1
    <3>3. CASE k = 1
      BY <2>6, <3>1, <3>2, <3>3
    <3> QED
      BY <3>1, <3>3
  <2>10. k = 1 => At(m.s + k, m.cap) = At(s + p, <<>>)
    BY <2>1, <2>6
  <2> HIDE DEF g
  <2>11. w[p] = IF Right(p) THEN At(s + p, <<>>) ELSE Null(<<>>)
    <3>1. CASE Right(n)
      <4>1. w[p] = WayItem(src, i, k, m)
        BY <2>4, <2>5, <2>6, <3>1
      <4>2. CASE g
        <5>1. w[p] = At(m.s + k, m.cap) /\ Right(p) /\ k = 1
          BY <2>3, <2>8, <2>9, <3>1, <4>1, <4>2
        <5> QED
          BY <2>10, <5>1
      <4>3. CASE ~g
        BY <2>3, <2>8, <2>9, <3>1, <4>1, <4>3
      <4> QED
        BY <4>2, <4>3
    <3>2. CASE ~Right(n)
      BY <2>3, <2>4, <2>5, <2>7, <3>2
    <3> QED
      BY <3>1, <3>2
  <2> QED
    BY <2>1, <2>11 DEF p
<1>5. 0 .. N \subseteq S
  <2> HIDE DEF S
  <2> QED
    BY <1>1, <1>3, <1>4, UpTo
<1> QED
  BY <1>5

LEMMA LiteralsFound ==
    ASSUME NEW src, NEW pat, Asked(src, pat), NoSpecials(pat), NEW s \in Positions(src)
    PROVE  MatchAt(src, pat, s) = IF ReadsAt(src, pat, s, Len(pat)) THEN At(s + Len(pat), <<>>)
                                  ELSE Null(<<>>)
<1> DEFINE N == Len(pat)
           L == Len(src)
           r == MatchAt(src, pat, s)
           one == [p \in DOMAIN pat |-> 1]
<1>1. N \in Nat /\ DOMAIN pat = 1 .. N /\ s \in Nat /\ s >= 1 /\ L \in Nat /\ s <= L + 1
      /\ N \in 0 .. N
  BY DEF Asked, Positions
<1>2. Plain(pat, one) /\ \A v : Plain(pat, v)
  BY DEF Plain, NoSpecials, Literal
<1>3. ASSUME NEW v
      PROVE  End(src, pat, s, v) = IF (\A q \in 1 .. N : v[q] = 1) /\ ReadsAt(src, pat, s, N)
                                   THEN At(s + N, <<>>) ELSE Null(<<>>)
  <2> DEFINE w == Way(src, pat, s, v)
  <2>1. \A p \in 0 .. N :
            w[p] = IF (\A q \in 1 .. p : v[q] = 1) /\ ReadsAt(src, pat, s, p)
                   THEN At(s + p, <<>>) ELSE Null(<<>>)
    BY LiteralsMatch
  <2> HIDE DEF w
  <2>2. w[N] = IF (\A q \in 1 .. N : v[q] = 1) /\ ReadsAt(src, pat, s, N)
               THEN At(s + N, <<>>) ELSE Null(<<>>)
    BY <1>1, <2>1
  <2> QED
    BY <2>2 DEF End, w
<1>4. At(s + N, <<>>).s # 0 /\ Null(<<>>).s = 0
  BY <1>1 DEF At, Null
<1>5. \/ /\ r = Null(<<>>)
         /\ \A v \in Lengths(src, pat, s) : Plain(pat, v) => End(src, pat, s, v).s = 0
      \/ \E v \in Lengths(src, pat, s) : r = End(src, pat, s, v) /\ r.s # 0
  BY MatchAtIs
<1> HIDE DEF r
<1>6. CASE ReadsAt(src, pat, s, N)
  <2>1. one \in Lengths(src, pat, s)
    <3>1. \A p \in 1 .. N : 1 \in 0 .. L + 1 - s
      BY <1>1, <1>6 DEF ReadsAt
    <3> QED
      BY <1>1, <3>1 DEF Lengths
  <2>2. \A q \in 1 .. N : one[q] = 1
    BY <1>1
  <2> HIDE DEF one
  <2>3. End(src, pat, s, one).s # 0
    BY <1>3, <1>4, <1>6, <2>2
  <2>4. PICK v : r = End(src, pat, s, v) /\ r.s # 0
    BY <1>2, <1>5, <2>1, <2>3
  <2>5. r = At(s + N, <<>>)
    BY <1>3, <1>4, <2>4
  <2> QED
    BY <1>6, <2>5 DEF r
<1>7. CASE ~ReadsAt(src, pat, s, N)
  <2>1. r = Null(<<>>)
    BY <1>3, <1>4, <1>5, <1>7
  <2> QED
    BY <1>7, <2>1 DEF r
<1> QED
  BY <1>6, <1>7

(* lmemfind.                                                                 *)
LEMMA PlainFinds ==
    ASSUME NEW src, NEW pat, Asked(src, pat), NoSpecials(pat), NEW init \in Positions(src),
           NEW s, s = FindPlain(src, pat, init)
    PROVE  FirstOf(After(Hits(src, pat), init), s)
<1> DEFINE N == Len(src) + 1
           k == Len(pat)
           H == Hits(src, pat)
           c == FirstByte(pat)
           first(t) == {n \in t .. N - k : src[n] = c}
           least == [t \in 1 .. N |-> CHOOSE n \in first(t) : \A h \in first(t) : n <= h]
           next == [t \in 1 .. N |-> least[t] + 1]
           Done == {t \in 1 .. N : first(t) = {} \/ least[t] \in H}
           val == [t \in 1 .. N |-> IF first(t) = {} THEN 0 ELSE least[t]]
<1>1. /\ N \in Nat /\ Positions(src) = 1 .. N /\ Len(src) \in Nat /\ H \in SUBSET (1 .. N)
      /\ k \in Nat /\ DOMAIN pat = 1 .. k
  BY DEF Asked, Positions, Hits
<1>2. \A t \in 1 .. N : t \in H <=> ReadsAt(src, pat, t, k)
  <2>1. ASSUME NEW t \in 1 .. N
        PROVE  MatchAt(src, pat, t).s # 0 <=> ReadsAt(src, pat, t, k)
    <3>1. At(t + k, <<>>).s # 0 /\ Null(<<>>).s = 0
      BY <1>1 DEF At, Null
    <3> QED
      BY <1>1, <3>1, LiteralsFound
  <2> QED
    BY <1>1, <2>1 DEF Hits
<1>3. CASE pat = <<>>
  <2>1. k = 0 /\ s = init
    BY <1>3 DEF FindPlain
  <2>2. init \in H
    <3>1. ReadsAt(src, pat, init, k)
      BY <1>1, <2>1 DEF ReadsAt
    <3> QED
      BY <1>1, <1>2, <3>1
  <2> HIDE DEF H, N
  <2>3. init \in After(H, init) /\ \A h \in After(H, init) : init <= h
    BY <1>1, <2>2 DEF After
  <2> QED
    BY <2>1, <2>3 DEF FirstOf, H
<1>4. CASE pat # <<>>
  <2>1. k >= 1 /\ 1 \in 1 .. k /\ Literal(pat[1])
    <3>1. k >= 1
      BY <1>1, <1>4 DEF Asked
    <3> QED
      BY <1>1, <3>1 DEF NoSpecials
  <2>2. pat[1].set = {c}
    BY <2>1 DEF Literal, FirstByte
  <2>3. ASSUME NEW t \in 1 .. N, t \in H PROVE t \in 1 .. N - k /\ src[t] = c
    <3>1. ReadsAt(src, pat, t, k)
      BY <1>2, <2>3
    <3>2. t + k <= N /\ src[t + 1 - 1] \in pat[1].set /\ t + 1 - 1 = t
      BY <2>1, <3>1 DEF ReadsAt
    <3> HIDE DEF c, k, N
    <3> QED
      BY <1>1, <2>2, <3>2
  <2>4. ASSUME NEW t \in 1 .. N
        PROVE  /\ \A h \in After(H, t) : h \in first(t)
               /\ first(t) # {} => /\ least[t] \in first(t) /\ \A h \in first(t) : least[t] <= h
                                   /\ least[t] \in t .. N - k
    <3>1. \A h \in After(H, t) : h \in first(t)
      <4> SUFFICES ASSUME NEW h \in After(H, t) PROVE h \in first(t)
        OBVIOUS
      <4>1. h \in H /\ h \in 1 .. N /\ h >= t
        BY <1>1 DEF After
      <4>2. h \in 1 .. N - k /\ src[h] = c
        BY <2>3, <4>1
      <4> HIDE DEF N, c, k
      <4> QED
        BY <1>1, <4>1, <4>2
    <3>2. first(t) # {} => \E n \in first(t) : \A h \in first(t) : n <= h
      <4>1. first(t) \in SUBSET Nat
        BY <1>1
      <4> HIDE DEF first
      <4> QED
        BY <4>1, LeastOf
    <3>3. least[t] = CHOOSE n \in first(t) : \A h \in first(t) : n <= h
      OBVIOUS
    <3> HIDE DEF least
    <3>4. first(t) # {} => least[t] \in first(t) /\ \A h \in first(t) : least[t] <= h
      BY <3>2, <3>3
    <3> QED
      BY <3>1, <3>4
  <2>5. ASSUME NEW t \in 1 .. N, first(t) # {}
        PROVE  least[t] \in H <=> \A j \in 1 .. k - 1 : src[least[t] + j] \in pat[j + 1].set
    <3> DEFINE n == least[t]
    <3>1. n \in t .. N - k /\ src[n] = c
      BY <2>4, <2>5
    <3> HIDE DEF n, c, k, N
    <3>2. n \in 1 .. N /\ n + k <= N /\ n \in Nat
      BY <1>1, <3>1
    <3>3. n \in H <=> \A q \in 1 .. k : src[n + q - 1] \in pat[q].set
      BY <1>2, <3>2 DEF ReadsAt, N
    <3>4. n + 1 - 1 = n /\ src[n + 1 - 1] \in pat[1].set
      BY <2>2, <3>1, <3>2
    <3>5. (\A q \in 1 .. k : src[n + q - 1] \in pat[q].set)
              <=> \A j \in 1 .. k - 1 : src[n + j] \in pat[j + 1].set
      <4>1. ASSUME \A q \in 1 .. k : src[n + q - 1] \in pat[q].set, NEW j \in 1 .. k - 1
            PROVE  src[n + j] \in pat[j + 1].set
        <5>1. j + 1 \in 1 .. k /\ n + (j + 1) - 1 = n + j
          BY <1>1, <3>2
        <5> QED
          BY <4>1, <5>1
      <4>2. ASSUME \A j \in 1 .. k - 1 : src[n + j] \in pat[j + 1].set, NEW q \in 1 .. k
            PROVE  src[n + q - 1] \in pat[q].set
        <5>1. CASE q = 1
          BY <3>4, <5>1
        <5>2. CASE q # 1
          <6>1. q - 1 \in 1 .. k - 1 /\ q - 1 + 1 = q /\ n + (q - 1) = n + q - 1
            BY <1>1, <3>2, <5>2
          <6> QED
            BY <4>2, <6>1
        <5> QED
          BY <5>1, <5>2
      <4> QED
        BY <4>1, <4>2
    <3> QED
      BY <3>3, <3>5 DEF n
  <2> DEFINE Body(t, f) ==
                 LET n == CHOOSE n \in first(t) : \A h \in first(t) : n <= h
                 IN  IF first(t) = {} THEN 0
                     ELSE IF \A j \in 1 .. k - 1 : src[n + j] \in pat[j + 1].set THEN n
                     ELSE f[n + 1]
             P(f) == f = [t \in Positions(src) |-> Body(t, f)]
  <2>6. s = (CHOOSE f : P(f))[init]
    BY <1>4 DEF FindPlain
  <2>7. ASSUME NEW t \in 1 .. N
        PROVE  /\ t \in Done <=> first(t) = {} \/ least[t] \in H
               /\ val[t] = IF first(t) = {} THEN 0 ELSE least[t]
               /\ next[t] = least[t] + 1
               /\ least[t] = CHOOSE n \in first(t) : \A h \in first(t) : n <= h
    OBVIOUS
  <2>8. ASSUME NEW f PROVE P(f) <=> Searches(f, N, Done, val, next)
    <3>1. ASSUME NEW t \in 1 .. N
          PROVE  Body(t, f) = IF t \in Done THEN val[t] ELSE f[next[t]]
      <4> DEFINE n == least[t]
                 fits == \A j \in 1 .. k - 1 : src[n + j] \in pat[j + 1].set
      <4>1. Body(t, f) = IF first(t) = {} THEN 0 ELSE IF fits THEN n ELSE f[n + 1]
        BY <2>7
      <4>2. first(t) # {} => (n \in H <=> fits)
        BY <2>5
      <4> HIDE DEF Body, first, fits, least, Done, val, next, H, N
      <4> QED
        BY <2>7, <4>1, <4>2
    <3> HIDE DEF Body, Done, val, next, N
    <3>2. [t \in Positions(src) |-> Body(t, f)]
              = [t \in 1 .. N |-> IF t \in Done THEN val[t] ELSE f[next[t]]]
      BY <1>1, <3>1
    <3> QED
      BY <3>2 DEF Searches
  <2> HIDE DEF Body, Done, val, next, N, H, least
  <2>9. ASSUME NEW t \in 1 .. N
        PROVE  IF t \in Done THEN FirstOf(After(H, t), val[t])
               ELSE next[t] \in t + 1 .. N /\ \A h \in After(H, t) : h >= next[t]
    <3> DEFINE F == first(t)
               n == least[t]
    <3>1. /\ t \in Done <=> F = {} \/ n \in H
          /\ val[t] = IF F = {} THEN 0 ELSE n
          /\ next[t] = n + 1
      BY <2>7
    <3>2. /\ \A h \in After(H, t) : h \in F
          /\ F # {} => n \in F /\ n \in t .. N - k /\ \A h \in F : n <= h
      BY <2>4
    <3>3. \A h \in After(H, t) : h \in 1 .. N /\ h \in H /\ h >= t
      BY <1>1 DEF After
    <3> HIDE DEF F, n
    <3>4. CASE F = {}
      <4>1. After(H, t) = {}
        BY <3>2, <3>4
      <4> QED
        BY <3>1, <3>4, <4>1 DEF FirstOf
    <3>5. CASE F # {} /\ n \in H
      <4>1. n \in After(H, t) /\ \A h \in After(H, t) : n <= h
        BY <3>2, <3>5 DEF After
      <4>2. t \in Done /\ val[t] = n
        BY <3>1, <3>5
      <4> QED
        BY <4>1, <4>2 DEF FirstOf
    <3>6. CASE F # {} /\ n \notin H
      <4>1. n \in t .. N - k /\ t \notin Done
        BY <3>1, <3>2, <3>6
      <4>2. n + 1 \in t + 1 .. N
        BY <1>1, <2>1, <4>1
      <4>3. ASSUME NEW h \in After(H, t) PROVE h >= n + 1
        <5>1. h # n /\ n <= h /\ h \in 1 .. N
          BY <3>2, <3>3, <3>6
        <5> QED
          BY <1>1, <4>1, <5>1
      <4> QED
        BY <3>1, <4>1, <4>2, <4>3
    <3> QED
      BY <3>4, <3>5, <3>6
  <2>10. PICK f : Searches(f, N, Done, val, next) /\ s = f[init]
    <3> HIDE DEF P
    <3>1. \A t \in 1 .. N : t \notin Done => next[t] \in t + 1 .. N
      BY <2>9
    <3>2. \E f : Searches(f, N, Done, val, next)
      BY <1>1, <3>1, SearchSolved
    <3>3. \E f : P(f)
      BY <2>8, <3>2
    <3>4. P(CHOOSE f : P(f))
      BY <3>3
    <3>5. Searches(CHOOSE f : P(f), N, Done, val, next)
      BY <2>8, <3>4
    <3> QED
      BY <2>6, <3>5
  <2>11. \A t \in 1 .. N : FirstOf(After(H, t), f[t])
    BY <1>1, <2>9, <2>10, SearchFinds
  <2> QED
    BY <1>1, <2>10, <2>11 DEF H
<1> QED
  BY <1>3, <1>4

Leftmost(src, pat, r, hits) ==
    IF hits = {} THEN r = Missing
    ELSE /\ r.start \in hits /\ \A s \in hits : r.start <= s
         /\ [s |-> r.end, cap |-> r.cap] = MatchAt(src, pat, r.start)

HitsFrom(src, pat, anchor, init) ==
    {s \in (IF anchor THEN {init} ELSE init .. Len(src) + 1) : MatchAt(src, pat, s).s # 0}

\* The shortcut finds what match finds at the same place.
LEMMA SpacesFound ==
    ASSUME NEW src, NEW pat, Asked(src, pat), NEW s \in Positions(src),
           pat = <<Single(Spaces, "*"), Item("()")>>
    PROVE  MatchAt(src, pat, s) = FindSpaces(src, pat, s) /\ MatchAt(src, pat, s).s # 0
<1> DEFINE M == Match(src, pat)
           item == Single(Spaces, "*")
           tried == Tried(src, s, item)
           Here(t) == At(t, <<>>)
           There(t) == At(t, <<[init |-> t, len |-> Position]>>)
<1>1. /\ Len(pat) = 2 /\ pat[1] = item /\ pat[2] = Item("()")
      /\ item.op = "single" /\ item.rep = "*" /\ Len(src) \in Nat
  BY DEF Single, Asked
<1>2. PICK C : src \in Seq(C)
  BY DEF Asked
<1>3. PICK most \in Nat : /\ most = Most(src, s, item)
                          /\ \A n : Run(src, s, item.set, n) <=> n \in 0 .. most
  BY <1>2, MostIs
<1>4. s \in Nat /\ s >= 1 /\ s + most <= Len(src) + 1
  <2>1. Run(src, s, item.set, most)
    BY <1>3
  <2> QED
    BY <1>1, <2>1 DEF Positions, Run
<1>5. Len(tried) \in Nat /\ Len(tried) >= 1 /\ tried[1] = s + most
      /\ \A k \in 1 .. Len(tried) : tried[k] \in s .. s + most
  <2>1. CASE SingleMatch(src, s, item)
    <3>1. tried = MaxExpand(src, s, item)
      BY <1>1, <2>1 DEF Tried
    <3>2. Len(tried) = most + 1 /\ \A k \in 1 .. most + 1 : tried[k] = s + most + 1 - k
      BY <1>3, <1>4, <3>1, MaxExpandIs
    <3> HIDE DEF tried
    <3>3. 1 \in 1 .. most + 1 /\ s + most + 1 - 1 = s + most
      BY <1>3, <1>4
    <3>4. \A k \in 1 .. most + 1 : s + most + 1 - k \in s .. s + most
      BY <1>3, <1>4
    <3>5. most + 1 \in Nat /\ most + 1 >= 1
      BY <1>3
    <3> QED
      BY <3>2, <3>3, <3>4, <3>5
  <2>2. CASE ~SingleMatch(src, s, item)
    <3>1. tried = <<s>>
      BY <1>1, <2>2 DEF Tried
    <3>2. most = 0
      <4>1. SUFFICES ASSUME most >= 1 PROVE FALSE
        BY <1>3
      <4>2. 1 \in 0 .. most
        BY <1>3, <4>1
      <4>3. Run(src, s, item.set, 1)
        BY <1>3, <4>2
      <4>4. s + 1 <= Len(src) + 1 /\ \A k \in 0 .. 1 - 1 : src[s + k] \in item.set
        BY <4>3 DEF Run
      <4>5. 0 \in 0 .. 1 - 1 /\ s + 0 = s
        BY <1>4
      <4>6. s \in DOMAIN src
        BY <1>1, <1>2, <1>4, <4>4
      <4> QED
        BY <2>2, <4>4, <4>5, <4>6 DEF SingleMatch
    <3> HIDE DEF tried
    <3> QED
      BY <1>4, <3>1, <3>2
  <2> QED
    BY <2>1, <2>2
<1>6. \A m \in States(src) : /\ M[1][m] = FirstMatch(M[2], Tried(src, m.s, item), m.cap)
                              /\ M[2][m] = StartCapture(M[3], m, Position) /\ M[3][m] = m
  <2>0. Len(pat) \in Nat
    BY <1>1
  <2>1. \A p \in 1 .. Len(pat) + 1 :
            M[p] = [m \in States(src) |-> IF p > Len(pat) THEN m
                                          ELSE MatchItem(src, pat[p], M[p + 1], m)]
    <3>1. M = Match(src, pat)
      OBVIOUS
    <3> HIDE DEF M
    <3> QED
      BY ONLY <2>0, <3>1, MatchIs
  <2>4. 1 \in 1 .. 3 /\ 2 \in 1 .. 3 /\ 3 \in 1 .. 3 /\ Len(pat) + 1 = 3
        /\ ~(1 > Len(pat)) /\ ~(2 > Len(pat)) /\ 3 > Len(pat)
    BY <1>1
  <2>2. /\ M[1] = [m \in States(src) |-> MatchItem(src, pat[1], M[2], m)]
        /\ M[2] = [m \in States(src) |-> MatchItem(src, pat[2], M[3], m)]
        /\ M[3] = [m \in States(src) |-> m]
    <3> DEFINE Row(p, m) == IF p > Len(pat) THEN m ELSE MatchItem(src, pat[p], M[p + 1], m)
    <3>1. \A p \in 1 .. Len(pat) + 1 : M[p] = [m \in States(src) |-> Row(p, m)]
      <4> HIDE DEF M
      <4> QED
        BY <2>1, Zenon
    <3>2. \A m : /\ Row(1, m) = MatchItem(src, pat[1], M[2], m)
                 /\ Row(2, m) = MatchItem(src, pat[2], M[3], m)
                 /\ Row(3, m) = m
      <4> HIDE DEF M
      <4>1. 1 + 1 = 2 /\ 2 + 1 = 3
        OBVIOUS
      <4> QED
        BY <2>4, <4>1
    <3> HIDE DEF M, Row
    <3>3. /\ M[1] = [m \in States(src) |-> Row(1, m)]
          /\ M[2] = [m \in States(src) |-> Row(2, m)]
          /\ M[3] = [m \in States(src) |-> Row(3, m)]
      BY <2>4, <3>1
    <3> QED
      BY <3>2, <3>3
  <2>3. \A r, m : /\ MatchItem(src, item, r, m) = FirstMatch(r, Tried(src, m.s, item), m.cap)
                  /\ MatchItem(src, Item("()"), r, m) = StartCapture(r, m, Position)
    BY <1>1 DEF MatchItem, Item
  <2> HIDE DEF M, item
  <2> QED
    BY <1>1, <2>2, <2>3
<1>7. ASSUME NEW t \in s .. s + most
      PROVE  Here(t) \in States(src) /\ M[2][Here(t)] = There(t) /\ There(t).s # 0
  <2>1. t \in Positions(src) /\ t # 0
    BY <1>1, <1>4 DEF Positions
  <2>2. Here(t) \in States(src) /\ There(t) \in States(src)
    BY <2>1 DEF States, Captures, At
  <2>3. Append(Here(t).cap, [init |-> Here(t).s, len |-> Position])
            = <<[init |-> t, len |-> Position]>>
    BY DEF At
  <2>4. Here(t).s = t /\ There(t).s = t
    BY DEF At
  <2>5. M[2][Here(t)] = StartCapture(M[3], Here(t), Position) /\ M[3][There(t)] = There(t)
    BY <1>6, <2>2
  <2> HIDE DEF M
  <2> QED
    BY <2>1, <2>2, <2>3, <2>4, <2>5 DEF StartCapture
<1>8. MatchAt(src, pat, s) = FirstMatch(M[2], tried, <<>>)
  <2>2. s \in s .. s + most
    BY <1>3, <1>4
  <2>3. Here(s).s = s /\ Here(s).cap = <<>>
    BY DEF At
  <2>1. Here(s) \in States(src) /\ Here(s).s = s /\ Here(s).cap = <<>>
    BY <1>7, <2>2, <2>3
  <2> QED
    BY <1>6, <2>1 DEF MatchAt
<1>9. FirstMatch(M[2], tried, <<>>) = M[2][Here(s + most)]
  <2> HIDE DEF M, tried
  <2>1. \A k \in 1 .. Len(tried) : M[2][At(tried[k], <<>>)].s # 0
    BY <1>5, <1>7
  <2>2. \A k \in 1 .. Len(tried) :
            M[2][At(tried[k], <<>>)].s = 0 => M[2][At(tried[k], <<>>)] = Null(<<>>)
    BY <2>1
  <2>3. \E k \in 1 .. Len(tried) :
            /\ \A j \in 1 .. k - 1 : M[2][At(tried[j], <<>>)].s = 0
            /\ FirstMatch(M[2], tried, <<>>) = M[2][At(tried[k], <<>>)]
    <3> DEFINE rest == M[2]
               cap == <<>>
    <3>1. 1 \in 1 .. Len(tried) /\ Len(tried) \in Nat
      BY <1>5
    <3>2. /\ \A k \in 1 .. Len(tried) : rest[At(tried[k], cap)].s # 0
          /\ \A k \in 1 .. Len(tried) :
                 rest[At(tried[k], cap)].s = 0 => rest[At(tried[k], cap)] = Null(cap)
      BY <2>1, <2>2
    <3> HIDE DEF rest, cap
    <3>3. \/ /\ \A k \in 1 .. Len(tried) : rest[At(tried[k], cap)].s = 0
             /\ FirstMatch(rest, tried, cap) = Null(cap)
          \/ \E k \in 1 .. Len(tried) :
                 /\ rest[At(tried[k], cap)].s # 0
                 /\ \A j \in 1 .. k - 1 : rest[At(tried[j], cap)].s = 0
                 /\ FirstMatch(rest, tried, cap) = rest[At(tried[k], cap)]
      BY <3>1, <3>2, FirstMatchIs
    <3>4. \E k \in 1 .. Len(tried) :
             /\ \A j \in 1 .. k - 1 : rest[At(tried[j], cap)].s = 0
             /\ FirstMatch(rest, tried, cap) = rest[At(tried[k], cap)]
      BY <3>1, <3>2, <3>3
    <3> QED
      BY <3>4 DEF rest, cap
  <2>4. PICK k \in 1 .. Len(tried) :
            /\ \A j \in 1 .. k - 1 : M[2][At(tried[j], <<>>)].s = 0
            /\ FirstMatch(M[2], tried, <<>>) = M[2][At(tried[k], <<>>)]
    BY <2>3
  <2>5. k = 1
    <3>1. SUFFICES ASSUME k >= 2 PROVE FALSE
      BY <1>5
    <3>2. 1 \in 1 .. k - 1 /\ 1 \in 1 .. Len(tried)
      BY <1>5, <3>1
    <3> QED
      BY <2>1, <2>4, <3>2
  <2> QED
    BY <1>5, <2>4, <2>5
<1> QED
  BY <1>1, <1>3, <1>4, <1>7, <1>8, <1>9 DEF FindSpaces

LEMMA FindIs ==
    ASSUME NEW src, NEW pat, Asked(src, pat), NEW init \in Positions(src), NEW anchor \in BOOLEAN,
           NEW by \in SearchedBy(pat, anchor), NEW r, r = Find(src, pat, anchor, init, by),
           NEW hits, hits = HitsFrom(src, pat, anchor, init)
    PROVE  Leftmost(src, pat, r, hits)
<1> DEFINE plain == by = "plain"
           spaces == by = "spaces"
           s == CASE plain -> FindPlain(src, pat, init)
                  [] spaces -> init
                  [] OTHER -> Scan(src, pat, anchor, init)
           e == CASE plain -> At(s + Len(pat), <<>>)
                  [] spaces -> FindSpaces(src, pat, init)
                  [] OTHER -> MatchAt(src, pat, s)
<1>0. /\ plain => ~anchor /\ NoSpecials(pat)
      /\ spaces => ~anchor /\ pat = <<Single(Spaces, "*"), Item("()")>>
      /\ ~(plain /\ spaces)
  BY DEF SearchedBy
<1>10. spaces => MatchAt(src, pat, init) = FindSpaces(src, pat, init)
                 /\ MatchAt(src, pat, init).s # 0
  BY <1>0, SpacesFound
<1>1. Len(src) \in Nat /\ init \in Nat /\ init >= 1 /\ init <= Len(src) + 1
  BY DEF Asked, Positions
<1>2. FirstOf(hits, s)
  <2>1. CASE ~anchor
    <3>1. hits = After(Hits(src, pat), init)
      BY <1>1, <2>1 DEF After, Hits, Positions, HitsFrom
    <3>2. CASE plain
      <4>1. FirstOf(After(Hits(src, pat), init), FindPlain(src, pat, init))
        BY <1>0, <3>2, PlainFinds
      <4> QED
        BY <3>1, <3>2, <4>1
    <3>4. CASE spaces
      <4>1. s = init
        BY <1>0, <3>4
      <4>2. init \in hits /\ \A t \in hits : init <= t
        BY <1>1, <1>10, <2>1, <3>4 DEF HitsFrom
      <4> QED
        BY <1>1, <4>1, <4>2 DEF FirstOf
    <3>3. CASE ~plain /\ ~spaces
      <4>1. FirstOf(After(Hits(src, pat), init), Scan(src, pat, anchor, init))
        BY <2>1, ScanFinds
      <4> QED
        BY <3>1, <3>3, <4>1
    <3> QED
      BY <3>2, <3>3, <3>4
  <2>2. CASE anchor
    <3>1. s = IF init \in Hits(src, pat) THEN init ELSE 0
      <4> DEFINE t == Scan(src, pat, anchor, init)
      <4>1. s = t
        BY <1>0, <2>2
      <4> HIDE DEF t
      <4>2. IF anchor THEN t = IF init \in Hits(src, pat) THEN init ELSE 0
            ELSE FirstOf(After(Hits(src, pat), init), t)
        BY ScanFinds DEF t
      <4> QED
        BY <2>2, <4>1, <4>2
    <3>2. hits = IF init \in Hits(src, pat) THEN {init} ELSE {}
      BY <2>2 DEF Hits, HitsFrom
    <3> HIDE DEF s
    <3> QED
      BY <1>1, <3>1, <3>2 DEF FirstOf
  <2> QED
    BY <2>1, <2>2
<1>3. r = IF s = 0 THEN Missing ELSE Found(s, e)
  <2>1. ~(init > Len(src) + 1)
    BY <1>1
  <2> QED
    BY <2>1 DEF Find
<1>4. \A t \in hits : t \in Positions(src) /\ t # 0 /\ MatchAt(src, pat, t).s # 0
  BY <1>1 DEF Positions, HitsFrom
<1>5. s \in hits => e = MatchAt(src, pat, s)
  <2>1. CASE s \in hits /\ plain
    <3> HIDE DEF s
    <3>1. MatchAt(src, pat, s) = At(s + Len(pat), <<>>)
      BY <1>0, <1>4, <2>1, LiteralsFound DEF Null
    <3> QED
      BY <2>1, <3>1
  <2>2. CASE spaces
    BY <1>0, <1>10, <2>2
  <2> QED
    BY <2>1, <2>2
<1>6. ASSUME NEW t \in Positions(src)
      PROVE  MatchAt(src, pat, t) = At(MatchAt(src, pat, t).s, MatchAt(src, pat, t).cap)
  <2>1. \/ MatchAt(src, pat, t) = Null(<<>>)
        \/ MatchAt(src, pat, t) \in States(src)
    BY MatchAtIs
  <2>2. \A m \in States(src) : m = At(m.s, m.cap)
    BY DEF States, At
  <2>3. Null(<<>>) = At(Null(<<>>).s, Null(<<>>).cap)
    BY DEF Null, At
  <2> QED
    BY <2>1, <2>2, <2>3
<1>7. CASE hits = {}
  BY <1>2, <1>3, <1>7 DEF FirstOf, Leftmost
<1>8. CASE hits # {}
  <2>1. s \in hits /\ \A t \in hits : s <= t
    BY <1>2, <1>8 DEF FirstOf
  <2> HIDE DEF s, e
  <2>2. r = Found(s, MatchAt(src, pat, s))
    BY <1>3, <1>4, <1>5, <2>1
  <2>3. r.start = s /\ At(r.end, r.cap) = MatchAt(src, pat, s)
    BY <1>4, <1>6, <2>1, <2>2 DEF Found
  <2> QED
    BY <1>8, <2>1, <2>3 DEF At, Leftmost
<1> QED
  BY <1>7, <1>8

(* string.find, for every text, pattern, start and anchor: the search for     *)
(* plain text, the shortcut of "%s*()", the skip to the first byte and the     *)
(* loop over the starts find the leftmost match (str_find_aux, lmemfind,      *)
(* literal_first_byte).                                                       *)
THEOREM FindIsLeftmost == PatternsSpec => []FindLeftmost
<1>1. ASSUME asked = Nobody \/ asked \in PatternQuestions \/ asked \in RangeQuestions
      PROVE  FindLeftmost
  <2> DEFINE src == asked.src
             pat == asked.pat
  <2>1. ASSUME Of("pattern"), NEW init \in 1 .. Len(src) + 1, NEW anchor \in BOOLEAN,
               NEW by \in SearchedBy(pat, anchor)
        PROVE  Leftmost(src, pat, Find(src, pat, anchor, init, by), HitsFrom(src, pat, anchor, init))
    <3>1. Asked(src, pat) /\ init \in Positions(src)
      BY <1>1, <2>1, PatternKinds, PatternAsked DEF Positions
    <3> HIDE DEF src, pat
    <3> QED
      BY <3>1, FindIs
  <2> QED
    BY <2>1 DEF FindLeftmost, Leftmost, HitsFrom
<1> QED
  BY <1>1, PatternsAsked, PTL

-----------------------------------------------------------------------------
(* gsub: what its pieces are when one is put in front of the others.         *)

LEMMA Prepended ==
    ASSUME NEW S, NEW p \in S, NEW r \in Seq(S), NEW x, x = <<p>> \o r
    PROVE  /\ x \in Seq(S) /\ Len(r) \in Nat /\ Len(x) = Len(r) + 1 /\ x # <<>> /\ x[1] = p
           /\ \A k \in 1 .. Len(r) : x[k + 1] = r[k]
<1>1. <<p>> \in Seq(S) /\ Len(<<p>>) = 1 /\ <<p>>[1] = p /\ Len(r) \in Nat
  OBVIOUS
<1> DEFINE q == <<p>>
<1> HIDE DEF q
<1>2. /\ x \in Seq(S) /\ Len(x) = 1 + Len(r)
      /\ \A k \in 1 .. 1 + Len(r) : x[k] = IF k <= 1 THEN q[k] ELSE r[k - 1]
  <2>1. q \in Seq(S) /\ Len(q) = 1 /\ x = q \o r
    BY <1>1 DEF q
  <2> QED
    BY <2>1, ConcatProperties
<1>3. x[1] = p /\ Len(x) = Len(r) + 1
  BY <1>1, <1>2 DEF q
<1>4. ASSUME NEW k \in 1 .. Len(r) PROVE x[k + 1] = r[k]
  <2>1. k + 1 \in 1 .. 1 + Len(r) /\ ~(k + 1 <= 1) /\ k + 1 - 1 = k
    BY <1>1
  <2> QED
    BY <1>2, <2>1
<1>5. x # <<>>
  BY <1>1, <1>3
<1> QED
  BY <1>1, <1>2, <1>3, <1>4, <1>5

LEMMA NewCount ==
    ASSUME NEW x, NEW n \in Nat
    PROVE  /\ IsFiniteSet(NewIn(x, n)) /\ Cardinality(NewIn(x, n)) \in Nat
           /\ Cardinality(NewIn(x, 0)) = 0
           /\ Cardinality(NewIn(x, n + 1))
                  = Cardinality(NewIn(x, n)) + (IF x[n + 1].kind = "new" THEN 1 ELSE 0)
<1>1. IsFiniteSet(1 .. n) /\ NewIn(x, n) \in SUBSET (1 .. n)
  BY FS_Interval DEF NewIn
<1>2. IsFiniteSet(NewIn(x, n))
  BY <1>1, FS_Subset
<1>3. Cardinality(NewIn(x, n)) \in Nat
  BY <1>2, FS_CardinalityType
<1>4. NewIn(x, 0) = {}
  BY DEF NewIn
<1>5. Cardinality(NewIn(x, 0)) = 0
  BY <1>4, FS_EmptySet
<1>6. NewIn(x, n + 1) = NewIn(x, n) \cup (IF x[n + 1].kind = "new" THEN {n + 1} ELSE {})
  BY DEF NewIn
<1>7. n + 1 \notin NewIn(x, n)
  BY DEF NewIn
<1>8. CASE x[n + 1].kind = "new"
  <2>1. Cardinality(NewIn(x, n) \cup {n + 1}) = Cardinality(NewIn(x, n)) + 1
    BY <1>2, <1>7, FS_AddElement
  <2> QED
    BY <1>2, <1>3, <1>5, <1>6, <1>8, <2>1
<1>9. CASE x[n + 1].kind # "new"
  <2>1. NewIn(x, n + 1) = NewIn(x, n)
    BY <1>6, <1>9
  <2> DEFINE c == Cardinality(NewIn(x, n))
  <2>2. Cardinality(NewIn(x, n + 1)) = c
    BY <2>1
  <2> HIDE DEF c
  <2>3. Cardinality(NewIn(x, n + 1)) = c + (IF x[n + 1].kind = "new" THEN 1 ELSE 0)
    BY <1>3, <1>9, <2>2 DEF c
  <2> QED
    BY <1>2, <1>3, <1>5, <2>3 DEF c
<1> QED
  BY <1>8, <1>9

Precedes(p, r, x) ==
    Len(r) \in Nat /\ Len(x) = Len(r) + 1 /\ x[1] = p /\ \A k \in 1 .. Len(r) : x[k + 1] = r[k]

LEMMA NewPrepended ==
    ASSUME NEW p, NEW r, NEW x, Precedes(p, r, x)
    PROVE  \A n \in 0 .. Len(r) :
               /\ p.kind = "new" => Cardinality(NewIn(x, n + 1)) = 1 + Cardinality(NewIn(r, n))
               /\ p.kind # "new" => Cardinality(NewIn(x, n + 1)) = Cardinality(NewIn(r, n))
<1> DEFINE N == Len(r)
           d == IF p.kind = "new" THEN 1 ELSE 0
           T == {n \in 0 .. N : Cardinality(NewIn(x, n + 1)) = d + Cardinality(NewIn(r, n))}
<1>1. N \in Nat /\ x[1] = p /\ \A k \in 1 .. N : x[k + 1] = r[k]
  BY DEF Precedes
<1>2. d \in Nat
  OBVIOUS
<1>3. 0 \in T
  <2>1. Cardinality(NewIn(x, 0)) = 0 /\ Cardinality(NewIn(r, 0)) = 0
    BY NewCount
  <2>2. Cardinality(NewIn(x, 0 + 1)) = Cardinality(NewIn(x, 0)) + d
    <3>1. 0 \in Nat /\ x[0 + 1].kind = p.kind
      BY <1>1
    <3> HIDE DEF d
    <3> QED
      BY <3>1, NewCount DEF d
  <2> HIDE DEF d
  <2> QED
    BY <1>1, <1>2, <2>1, <2>2
<1>4. ASSUME NEW n \in 0 .. N - 1, n \in T PROVE n + 1 \in T
  <2>1. n \in Nat /\ n + 1 \in Nat /\ n + 1 \in 0 .. N /\ n + 1 \in 1 .. N
    BY <1>1
  <2> DEFINE a == Cardinality(NewIn(x, n + 1))
             b == Cardinality(NewIn(r, n))
             i == IF r[n + 1].kind = "new" THEN 1 ELSE 0
  <2>2. Cardinality(NewIn(x, n + 1 + 1)) = a + i
    <3>1. x[n + 1 + 1] = r[n + 1]
      BY <1>1, <2>1
    <3>2. Cardinality(NewIn(x, (n + 1) + 1)) = a + (IF x[n + 1 + 1].kind = "new" THEN 1 ELSE 0)
      BY <2>1, NewCount
    <3> QED
      BY <3>1, <3>2
  <2>3. Cardinality(NewIn(r, n + 1)) = b + i /\ b \in Nat
    BY <2>1, NewCount
  <2>4. a = d + b /\ i \in Nat
    BY <1>4
  <2> HIDE DEF a, b, i, d
  <2>5. a + i = d + (b + i)
    BY <1>2, <2>3, <2>4
  <2> QED
    BY <2>1, <2>2, <2>3, <2>5
<1>5. 0 .. N \subseteq T
  <2> HIDE DEF T
  <2> QED
    BY <1>1, <1>3, <1>4, UpTo
<1>6. ASSUME NEW n \in 0 .. N
      PROVE  /\ p.kind = "new" => Cardinality(NewIn(x, n + 1)) = 1 + Cardinality(NewIn(r, n))
             /\ p.kind # "new" => Cardinality(NewIn(x, n + 1)) = Cardinality(NewIn(r, n))
  <2>1. Cardinality(NewIn(x, n + 1)) = d + Cardinality(NewIn(r, n))
    BY <1>5
  <2>2. Cardinality(NewIn(r, n)) \in Nat
    BY <1>1, NewCount
  <2>3. (p.kind = "new" => d = 1) /\ (p.kind # "new" => d = 0)
    OBVIOUS
  <2> HIDE DEF d
  <2> QED
    BY <2>1, <2>2, <2>3
<1> QED
  BY <1>6

Piece == [kind : {"kept", "new"}, from : Nat, to : Nat]
Pair == [from : Nat, to : Nat]

LEMMA TilesFrom ==
    ASSUME NEW p \in Piece, NEW r \in Seq(Piece), NEW to, Tiles(r, p.to, to)
    PROVE  Tiles(<<p>> \o r, p.from, to)
<1> DEFINE x == <<p>> \o r
<1>1. Len(r) \in Nat /\ Len(x) = Len(r) + 1 /\ x # <<>> /\ x[1] = p
      /\ \A k \in 1 .. Len(r) : x[k + 1] = r[k]
  BY Prepended
<1> HIDE DEF x
<1>2. r = <<>> <=> Len(r) = 0
  OBVIOUS
<1>3. /\ r # <<>> => r[1].from = p.to
      /\ \A k \in 1 .. Len(r) - 1 : r[k].to = r[k + 1].from
      /\ (IF r = <<>> THEN p.to ELSE r[Len(r)].to) = to
  BY DEF Tiles
<1>4. ASSUME NEW k \in 1 .. Len(x) - 1 PROVE x[k].to = x[k + 1].from
  <2>1. k \in 1 .. Len(r) /\ x[k + 1] = r[k] /\ r # <<>>
    BY <1>1, <1>2
  <2>2. CASE k = 1
    BY <1>1, <1>3, <2>1, <2>2
  <2>3. CASE k # 1
    <3>1. k - 1 \in 1 .. Len(r) - 1 /\ k - 1 \in 1 .. Len(r) /\ k - 1 + 1 = k
      BY <1>1, <2>1, <2>3
    <3>2. x[k] = r[k - 1] /\ r[k - 1].to = r[k].from
      BY <1>1, <1>3, <3>1
    <3> QED
      BY <2>1, <3>2
  <2> QED
    BY <2>2, <2>3
<1>5. x[Len(x)].to = to
  <2>1. CASE r = <<>>
    BY <1>1, <1>2, <1>3, <2>1
  <2>2. CASE r # <<>>
    <3>1. Len(r) \in 1 .. Len(r)
      BY <1>1, <1>2, <2>2
    <3> QED
      BY <1>1, <1>3, <2>2, <3>1
  <2> QED
    BY <2>1, <2>2
<1> QED
  BY <1>1, <1>4, <1>5 DEF Tiles, x

LEMMA ReplacesKept ==
    ASSUME NEW p \in Piece, NEW r \in Seq(Piece), NEW matches, NEW n,
           p.kind = "kept", Replaces(r, matches, n)
    PROVE  Replaces(<<p>> \o r, matches, n)
<1> DEFINE x == <<p>> \o r
<1>1. Len(r) \in Nat /\ Len(x) = Len(r) + 1 /\ x[1] = p
      /\ \A k \in 1 .. Len(r) : x[k + 1] = r[k]
  BY Prepended
<1>2. \A k \in 0 .. Len(r) : Cardinality(NewIn(x, k + 1)) = Cardinality(NewIn(r, k))
  <2>1. Precedes(p, r, x)
    BY <1>1 DEF Precedes
  <2> HIDE DEF x
  <2> QED
    BY <2>1, NewPrepended
<1> HIDE DEF x
<1>3. Cardinality(NewIn(x, Len(x))) = Cardinality(NewIn(r, Len(r)))
  BY <1>1, <1>2
<1>4. ASSUME NEW k \in NewIn(x, Len(x))
      PROVE  [from |-> x[k].from, to |-> x[k].to] = matches[Cardinality(NewIn(x, k))]
  <2>1. k \in 1 .. Len(r) + 1 /\ x[k].kind = "new" /\ k # 1
    BY <1>1 DEF NewIn
  <2>2. k - 1 \in 1 .. Len(r) /\ k - 1 \in 0 .. Len(r) /\ k - 1 + 1 = k
    BY <1>1, <2>1
  <2>3. x[k] = r[k - 1] /\ k - 1 \in NewIn(r, Len(r))
    BY <1>1, <2>1, <2>2 DEF NewIn
  <2>4. Cardinality(NewIn(x, k)) = Cardinality(NewIn(r, k - 1))
    BY <1>2, <2>2
  <2> QED
    BY <2>3, <2>4 DEF Replaces
<1> QED
  BY <1>3, <1>4 DEF Replaces, x

LEMMA ReplacesNew ==
    ASSUME NEW p \in Piece, NEW r \in Seq(Piece), NEW matches \in Seq(Pair), NEW n \in Nat, n >= 1,
           p.kind = "new", Replaces(r, matches, n - 1),
           NEW q, q = [from |-> p.from, to |-> p.to]
    PROVE  Replaces(<<p>> \o r, <<q>> \o matches, n)
<1> DEFINE x == <<p>> \o r
           ms == <<q>> \o matches
<1>1. Len(r) \in Nat /\ Len(x) = Len(r) + 1 /\ x[1] = p
      /\ \A k \in 1 .. Len(r) : x[k + 1] = r[k]
  BY Prepended
<1>2. Len(matches) \in Nat /\ Len(ms) = Len(matches) + 1 /\ ms[1] = q
      /\ \A k \in 1 .. Len(matches) : ms[k + 1] = matches[k]
  <2>1. q \in Pair
    BY DEF Piece, Pair
  <2> QED
    BY <2>1, Prepended
<1>3. \A k \in 0 .. Len(r) : Cardinality(NewIn(x, k + 1)) = 1 + Cardinality(NewIn(r, k))
  <2>1. Precedes(p, r, x)
    BY <1>1 DEF Precedes
  <2> HIDE DEF x
  <2> QED
    BY <2>1, NewPrepended
<1> HIDE DEF x, ms
<1>4. Cardinality(NewIn(r, Len(r))) = IF n - 1 < Len(matches) THEN n - 1 ELSE Len(matches)
  BY DEF Replaces
<1>5. Cardinality(NewIn(x, Len(x))) = 1 + Cardinality(NewIn(r, Len(r)))
  BY <1>1, <1>3
<1>6. Cardinality(NewIn(x, Len(x))) = IF n < Len(ms) THEN n ELSE Len(ms)
  <2> DEFINE a == Cardinality(NewIn(x, Len(x)))
             b == Cardinality(NewIn(r, Len(r)))
  <2>1. a = 1 + b /\ b = (IF n - 1 < Len(matches) THEN n - 1 ELSE Len(matches))
    BY <1>4, <1>5
  <2> HIDE DEF a, b
  <2> QED
    BY <1>2, <2>1 DEF a
<1>7. ASSUME NEW k \in NewIn(x, Len(x))
      PROVE  [from |-> x[k].from, to |-> x[k].to] = ms[Cardinality(NewIn(x, k))]
  <2>1. k \in 1 .. Len(r) + 1 /\ x[k].kind = "new"
    BY <1>1 DEF NewIn
  <2>2. CASE k = 1
    <3>1. 0 \in 0 .. Len(r) /\ Cardinality(NewIn(r, 0)) = 0
      BY <1>1, NewCount
    <3>2. Cardinality(NewIn(x, 1)) = 1
      <4>1. Cardinality(NewIn(x, 0 + 1)) = 1 + 0
        BY <1>3, <3>1
      <4> QED
        BY <4>1
    <3> QED
      BY <1>1, <1>2, <2>2, <3>2
  <2>3. CASE k # 1
    <3> DEFINE j == k - 1
               c == Cardinality(NewIn(r, j))
    <3>1. j \in 1 .. Len(r) /\ j \in 0 .. Len(r) /\ j + 1 = k /\ j \in Nat
      BY <1>1, <2>1, <2>3
    <3>2. x[k] = r[j] /\ j \in NewIn(r, Len(r))
      BY <1>1, <2>1, <3>1 DEF NewIn
    <3>3. Cardinality(NewIn(x, k)) = 1 + c
      BY <1>3, <3>1
    <3>4. [from |-> r[j].from, to |-> r[j].to] = matches[c]
      BY <3>2 DEF Replaces
    <3>5. c \in 1 .. Len(matches)
      <4>1. c \in Nat
        BY <3>1, NewCount
      <4>2. c >= 1
        <5> DEFINE i == j - 1
        <5>1. i \in Nat /\ i + 1 = j
          BY <3>1
        <5>2. r[j].kind = "new"
          BY <3>2 DEF NewIn
        <5> HIDE DEF i, j
        <5>3. Cardinality(NewIn(r, i + 1))
                  = Cardinality(NewIn(r, i)) + (IF r[i + 1].kind = "new" THEN 1 ELSE 0)
              /\ Cardinality(NewIn(r, i)) \in Nat
          BY <5>1, NewCount
        <5> QED
          BY <5>1, <5>2, <5>3
      <4>3. c <= Cardinality(NewIn(r, Len(r)))
        <5>1. NewIn(r, j) \in SUBSET NewIn(r, Len(r))
          BY <1>1, <3>1 DEF NewIn
        <5>2. IsFiniteSet(NewIn(r, Len(r)))
          BY <1>1, NewCount
        <5> HIDE DEF j
        <5> QED
          BY <5>1, <5>2, FS_Subset
      <4>4. Cardinality(NewIn(r, Len(r))) <= Len(matches)
        <5> DEFINE b == Cardinality(NewIn(r, Len(r)))
        <5>1. b = (IF n - 1 < Len(matches) THEN n - 1 ELSE Len(matches))
          BY <1>4
        <5> HIDE DEF b
        <5>2. b <= Len(matches)
          BY <1>2, <5>1
        <5> QED
          BY <5>2 DEF b
      <4>5. Cardinality(NewIn(r, Len(r))) \in Nat
        BY <1>1, NewCount
      <4> HIDE DEF c
      <4> QED
        BY <1>2, <4>1, <4>2, <4>3, <4>4, <4>5
    <3> HIDE DEF c, j
    <3>6. ms[1 + c] = matches[c]
      <4>1. 1 + c = c + 1
        BY <1>2, <3>5
      <4> QED
        BY <1>2, <3>5, <4>1
    <3> QED
      BY <3>2, <3>3, <3>4, <3>6
  <2> QED
    BY <2>2, <2>3
<1> QED
  BY <1>6, <1>7 DEF Replaces, x, ms

LEMMA ReplacesNothing ==
    ASSUME NEW matches \in Seq(Pair), NEW n \in Nat, n = 0 \/ matches = <<>>
    PROVE  Replaces(<<>>, matches, n)
<1>1. Len(matches) \in Nat /\ (matches = <<>> => Len(matches) = 0) /\ Len(<<>>) = 0
  OBVIOUS
<1>2. Cardinality(NewIn(<<>>, 0)) = 0
  BY NewCount
<1>3. NewIn(<<>>, 0) = {}
  BY DEF NewIn
<1>4. (IF n < Len(matches) THEN n ELSE Len(matches)) = 0
  BY <1>1
<1> QED
  BY <1>1, <1>2, <1>3, <1>4 DEF Replaces

-----------------------------------------------------------------------------
(* gmatch and gsub: their recursive functions are what their definitions say. *)

(* The values of F[g] depend on values of g at lower ranks. *)
LowerOnly(D, X, N, rank, F) ==
    /\ X # {} /\ N \in Nat /\ rank \in [D -> 0 .. N] /\ F \in [[D -> X] -> [D -> X]]
    /\ \A g, h \in [D -> X], d \in D :
          (\A e \in D : rank[e] < rank[d] => g[e] = h[e]) => F[g][d] = F[h][d]

(* Then there is a function that F does not change. *)
LEMMA RankedRecursion ==
    ASSUME NEW D, NEW X, NEW N, NEW rank, NEW F, LowerOnly(D, X, N, rank, F)
    PROVE  \E g \in [D -> X] : F[g] = g
<1>r. /\ N \in Nat /\ rank \in [D -> 0 .. N] /\ F \in [[D -> X] -> [D -> X]]
      /\ \A g, h \in [D -> X], d \in D :
            (\A e \in D : rank[e] < rank[d] => g[e] = h[e]) => F[g][d] = F[h][d]
  BY DEF LowerOnly
<1>0. PICK x0 \in X : TRUE
  BY DEF LowerOnly
<1> DEFINE Y == [D -> X]
           g0 == [d \in D |-> x0]
           M == N + 1
           step == [n \in 1 .. M |-> F]
<1>1. g0 \in Y /\ M \in Nat /\ step \in [1 .. M -> [Y -> Y]]
  BY <1>r
<1>2. PICK G : G \in [0 .. M -> Y] /\ \A n \in 1 .. M : G[n] = F[G[n - 1]]
  <2>1. \A n \in 1 .. M : step[n] = F
    OBVIOUS
  <2> HIDE DEF Y, step, M, g0
  <2>2. PICK G : Solution(M, Y, g0, step, G)
    BY <1>1, RecursionSolved
  <2>3. G \in [0 .. M -> Y] /\ \A n \in 1 .. M : G[n] = step[n][G[n - 1]]
    BY <2>2 DEF Solution
  <2>4. \A n \in 1 .. M : G[n] = F[G[n - 1]]
    BY <2>1, <2>3
  <2> QED
    BY <2>3, <2>4
<1> HIDE DEF step
<1> DEFINE S == {n \in 0 .. M : \A d \in D : rank[d] < n => F[G[n]][d] = G[n][d]}
<1>3. 0 \in S
  <2>1. \A d \in D : ~(rank[d] < 0)
    BY <1>r
  <2> QED
    BY <1>r, <2>1
<1>4. ASSUME NEW n \in 0 .. M - 1, n \in S PROVE n + 1 \in S
  <2>1. n + 1 \in 1 .. M /\ n + 1 \in 0 .. M /\ n \in 0 .. M /\ (n + 1) - 1 = n
    BY <1>1
  <2>2. PICK x \in Y, y \in Y : x = G[n] /\ y = G[n + 1]
    <3> HIDE DEF Y
    <3> QED
      BY <1>2, <2>1
  <2>3. y = F[x] /\ \A d \in D : rank[d] < n => F[x][d] = x[d]
    BY <1>2, <1>4, <2>1, <2>2
  <2>4. ASSUME NEW d \in D, rank[d] < n + 1 PROVE F[y][d] = y[d]
    <3>1. ASSUME NEW e \in D, rank[e] < rank[d] PROVE y[e] = x[e]
      <4>1. rank[e] \in Nat /\ rank[d] \in Nat /\ n \in Nat
        BY <1>r
      <4>2. rank[e] < n
        BY <2>4, <3>1, <4>1
      <4> QED
        BY <2>3, <4>2
    <3> QED
      BY <1>r, <2>3, <3>1
  <2> QED
    BY <2>1, <2>2, <2>4
<1>5. M \in S
  <2> HIDE DEF S
  <2>1. 0 .. M \subseteq S
    BY <1>1, <1>3, <1>4, UpTo
  <2> QED
    BY <1>1, <2>1
<1>6. PICK g \in Y : g = G[M]
  BY <1>1, <1>2
<1>7. \A d \in D : F[g][d] = g[d]
  <2>1. \A d \in D : rank[d] < M
    BY <1>r
  <2> QED
    BY <1>5, <1>6, <2>1
<1>8. F[g] \in [D -> X]
  BY <1>r
<1> QED
  BY <1>7, <1>8

(* What holds at d if it holds at all lower ranks holds everywhere.          *)
LEMMA RankedInduction ==
    ASSUME NEW D, NEW N \in Nat, NEW rank \in [D -> 0 .. N], NEW S,
           \A d \in D : (\A e \in D : rank[e] < rank[d] => e \in S) => d \in S
    PROVE  D \subseteq S
<1> DEFINE Bad == {rank[d] : d \in D \ S}
<1> SUFFICES ASSUME Bad # {} PROVE FALSE
  OBVIOUS
<1>1. Bad \in SUBSET Nat
  OBVIOUS
<1>2. PICK b \in Bad : \A y \in Bad : b <= y
  <2> HIDE DEF Bad
  <2> QED
    BY <1>1, LeastOf
<1>3. PICK d \in D : d \notin S /\ rank[d] = b
  BY <1>2
<1>4. ASSUME NEW e \in D, rank[e] < rank[d] PROVE e \in S
  <2>1. rank[e] \in Nat /\ rank[d] \in Nat
    OBVIOUS
  <2>2. e \notin S => rank[e] \in Bad
    OBVIOUS
  <2> HIDE DEF Bad
  <2> QED
    BY <1>2, <1>3, <1>4, <2>1, <2>2
<1> QED
  BY <1>3, <1>4

LEMMA EndIs ==
    ASSUME NEW src, NEW pat, Asked(src, pat), NEW s \in Positions(src),
           NEW e, e = MatchAt(src, pat, s).s
    PROVE  e = 0 \/ (e \in Positions(src) /\ e >= s)
<1> DEFINE r == MatchAt(src, pat, s)
<1>1. r = Null(<<>>) \/ (r \in States(src) /\ r.s >= s)
  BY MatchAtIs
<1> HIDE DEF r
<1>2. e = r.s
  BY DEF r
<1> QED
  BY <1>1, <1>2 DEF Null, States

(* The starts of the matches gmatch may return next.                         *)
Later(src, pat, last) ==
    {s \in (IF last = 0 THEN 1 ELSE last) .. Len(src) + 1 : MatchAt(src, pat, s).s \notin {0, last}}

IteratesAt(src, pat, g, last) ==
    IF Later(src, pat, last) = {} THEN g[last] = <<>>
    ELSE \E s \in Later(src, pat, last) :
             /\ \A k \in Later(src, pat, last) : s <= k
             /\ g[last] = <<[from |-> s, to |-> MatchAt(src, pat, s).s]>>
                              \o g[MatchAt(src, pat, s).s]

Iterates(src, pat, g) ==
    /\ g \in [0 .. Len(src) + 1 -> Seq(Pair)]
    /\ \A last \in 0 .. Len(src) + 1 : IteratesAt(src, pat, g, last)
    /\ Gmatch(src, pat) = g[0]

LEMMA GmatchIs ==
    ASSUME NEW src, NEW pat, Asked(src, pat)
    PROVE  \E g : Iterates(src, pat, g)
<1> DEFINE L == Len(src)
           D == 0 .. L + 1
           X == Seq(Pair)
           E(s) == MatchAt(src, pat, s).s
           T(last) == Later(src, pat, last)
           least(last) == CHOOSE n \in T(last) : \A k \in T(last) : n <= k
           Step(last, g) ==
               IF T(last) = {} THEN <<>>
               ELSE <<[from |-> least(last), to |-> E(least(last))]>> \o g[E(least(last))]
           Body(g) == [last \in D |-> Step(last, g)]
           f == CHOOSE g : g = Body(g)
           F == [g \in [D -> X] |-> Body(g)]
           rank == [last \in D |-> L + 1 - last]
<1>1. Gmatch(src, pat) = f[0]
  BY DEF Gmatch, Later
<1>2. L \in Nat /\ Positions(src) = 1 .. L + 1
  BY DEF Asked, Positions
<1>3. ASSUME NEW last \in D, T(last) # {}
      PROVE  /\ least(last) \in T(last) /\ \A k \in T(last) : least(last) <= k
             /\ E(least(last)) \in D /\ E(least(last)) > last
             /\ [from |-> least(last), to |-> E(least(last))] \in Pair
  <2> DEFINE from == IF last = 0 THEN 1 ELSE last
             s == least(last)
  <2>1. T(last) \in SUBSET Nat /\ \A t \in T(last) : t \in 1 .. L + 1 /\ t >= from
        /\ E(t) # 0 /\ E(t) # last
    BY <1>2 DEF Later
  <2>2. \E n \in T(last) : \A k \in T(last) : n <= k
    <3> HIDE DEF T
    <3> QED
      BY <1>3, <2>1, LeastOf
  <2>3. s \in T(last) /\ \A k \in T(last) : s <= k
    <3> HIDE DEF T
    <3> QED
      BY <2>2
  <2> HIDE DEF s, T
  <2>4. s \in 1 .. L + 1 /\ s >= from /\ E(s) # 0 /\ E(s) # last
    BY <2>1, <2>3
  <2>5. E(s) \in 1 .. L + 1 /\ E(s) >= s
    BY <1>2, <2>4, EndIs
  <2> DEFINE e == E(s)
  <2> HIDE DEF e
  <2>6. e \in D /\ e > last /\ [from |-> s, to |-> e] \in Pair
    <3>1. e \in 1 .. L + 1 /\ e >= s /\ e # 0 /\ e # last
      BY <2>4, <2>5 DEF e
    <3>2. e \in D
      BY <1>2, <3>1
    <3>3. e > last
      BY <1>2, <2>4, <3>1
    <3>4. s \in Nat /\ e \in Nat
      BY <1>2, <2>4, <3>1
    <3> QED
      BY <3>2, <3>3, <3>4 DEF Pair
  <2> QED
    BY <2>3, <2>6 DEF s, e
<1>r. rank \in [D -> 0 .. L + 1] /\ L + 1 \in Nat /\ X # {}
      /\ \A d, e \in D : e > d => rank[e] < rank[d]
  <2>1. L \in Nat
    BY <1>2
  <2>2. <<>> \in X
    OBVIOUS
  <2> HIDE DEF L, X
  <2> QED
    BY <2>1, <2>2
<1> HIDE DEF T, least, E, D, rank
<1>4. ASSUME NEW g, NEW last \in D, \A e \in D : rank[e] < rank[last] => g[e] \in X
      PROVE  Step(last, g) \in X
  <2>1. CASE T(last) = {}
    <3>1. <<>> \in X
      OBVIOUS
    <3> QED
      BY <2>1, <3>1
  <2>2. CASE T(last) # {}
    <3>1. g[E(least(last))] \in X /\ [from |-> least(last), to |-> E(least(last))] \in Pair
      BY <1>3, <1>4, <1>r, <2>2
    <3>2. <<[from |-> least(last), to |-> E(least(last))]>> \o g[E(least(last))] \in X
      BY <3>1
    <3> QED
      BY <2>2, <3>2
  <2> QED
    BY <2>1, <2>2
<1>5. ASSUME NEW g \in [D -> X], NEW h \in [D -> X], NEW d \in D,
             \A e \in D : rank[e] < rank[d] => g[e] = h[e]
      PROVE  Step(d, g) = Step(d, h)
  <2>1. CASE T(d) # {}
    <3>1. g[E(least(d))] = h[E(least(d))]
      BY <1>3, <1>5, <1>r, <2>1
    <3> QED
      BY <3>1
  <2>2. CASE T(d) = {}
    BY <2>2
  <2> QED
    BY <2>1, <2>2
<1>6. ASSUME NEW g, NEW last \in D
      PROVE  Step(last, g) = IF T(last) = {} THEN <<>>
                             ELSE <<[from |-> least(last), to |-> E(least(last))]>>
                                      \o g[E(least(last))]
  OBVIOUS
<1> HIDE DEF Step, X
<1>7. \A g \in [D -> X] : Body(g) \in [D -> X]
  BY <1>4
<1>8. F \in [[D -> X] -> [D -> X]] /\ \A g \in [D -> X] : F[g] = Body(g)
  <2> HIDE DEF Body
  <2> QED
    BY <1>7
<1>9. LowerOnly(D, X, L + 1, rank, F)
  <2>1. ASSUME NEW g \in [D -> X], NEW h \in [D -> X], NEW d \in D,
               \A e \in D : rank[e] < rank[d] => g[e] = h[e]
        PROVE  F[g][d] = F[h][d]
    <3>1. Step(d, g) = Step(d, h)
      BY <1>5, <2>1
    <3>2. F[g] = Body(g) /\ F[h] = Body(h)
      BY <1>8
    <3> HIDE DEF F
    <3> QED
      BY <3>1, <3>2
  <2> HIDE DEF F
  <2> QED
    BY <1>r, <1>8, <2>1 DEF LowerOnly
<1> HIDE DEF F
<1>10. f = Body(f)
  <2> HIDE DEF Body
  <2>1. PICK g \in [D -> X] : F[g] = g
    BY <1>9, RankedRecursion
  <2>2. g = Body(g)
    BY <1>8, <2>1
  <2> QED
    BY <2>2
<1> HIDE DEF f
<1>11. \A last \in D : f[last] = Step(last, f)
  BY <1>10
<1>12. D \subseteq {last \in D : f[last] \in X}
  <2> DEFINE S == {last \in D : f[last] \in X}
  <2>1. ASSUME NEW d \in D, \A e \in D : rank[e] < rank[d] => e \in S
        PROVE  d \in S
    BY <1>4, <1>11, <2>1
  <2> HIDE DEF S
  <2>2. D \subseteq S
    BY <1>r, <2>1, RankedInduction
  <2> QED
    BY <2>2 DEF S
<1>13. f \in [D -> X]
  BY <1>10, <1>12
<1>14. ASSUME NEW last \in D PROVE IteratesAt(src, pat, f, last)
  <2>1. f[last] = IF T(last) = {} THEN <<>>
                  ELSE <<[from |-> least(last), to |-> E(least(last))]>> \o f[E(least(last))]
    BY <1>6, <1>11
  <2>2. CASE T(last) = {}
    <3>1. f[last] = <<>>
      BY <2>1, <2>2
    <3> QED
      BY <2>2, <3>1 DEF IteratesAt, T
  <2>3. CASE T(last) # {}
    <3> DEFINE s == least(last)
    <3>1. s \in T(last) /\ \A k \in T(last) : s <= k
      BY <1>3, <2>3
    <3>2. f[last] = <<[from |-> s, to |-> E(s)]>> \o f[E(s)]
      BY <2>1, <2>3
    <3> HIDE DEF s
    <3> QED
      BY <2>3, <3>1, <3>2 DEF IteratesAt, T, E
  <2> QED
    BY <2>2, <2>3
<1>15. Iterates(src, pat, f)
  BY <1>1, <1>13, <1>14 DEF Iterates, D, X
<1> QED
  BY <1>15

Tasks(src, max) == [n : 0 .. max, pos : Positions(src), last : 0 .. Len(src) + 1]

Task(n, pos, last) == [n |-> n, pos |-> pos, last |-> last]

(* Where gsub goes on when it keeps what is at pos.                          *)
Span(src, pat, anchor, pos) ==
    IF ~CanSkip(pat, anchor) THEN pos + 1
    ELSE IF NextByte(src, pos, FirstByte(pat)) = 0 THEN Len(src) + 1
    ELSE NextByte(src, pos, FirstByte(pat))

Behind(src, anchor, h, n, pos, last) ==
    IF anchor THEN Remaining(src, pos) ELSE h[Task(n, pos, last)]

GsubStep(src, pat, anchor, h, t) ==
    IF t.n = 0 THEN Remaining(src, t.pos)
    ELSE IF Substitutes(src, pat, t.pos, t.last)
    THEN <<New(t.pos, MatchAt(src, pat, t.pos).s)>>
             \o Behind(src, anchor, h, t.n - 1, MatchAt(src, pat, t.pos).s, MatchAt(src, pat, t.pos).s)
    ELSE IF t.pos <= Len(src)
    THEN <<Kept(t.pos, Span(src, pat, anchor, t.pos))>>
             \o Behind(src, anchor, h, t.n, Span(src, pat, anchor, t.pos), t.last)
    ELSE <<>>

Rewrites(src, pat, anchor, max, h) ==
    /\ h \in [Tasks(src, max) -> Seq(Piece)]
    /\ \A t \in Tasks(src, max) : h[t] = GsubStep(src, pat, anchor, h, t)
    /\ Gsub(src, pat, anchor, max) = h[Task(max, 1, 0)]

LEMMA SpanIs ==
    ASSUME NEW src, NEW pat, Asked(src, pat), NEW anchor \in BOOLEAN, NEW pos \in 1 .. Len(src),
           NEW to, to = Span(src, pat, anchor, pos)
    PROVE  /\ to \in pos + 1 .. Len(src) + 1
           /\ \A s \in pos + 1 .. to - 1 : MatchAt(src, pat, s).s = 0
<1> DEFINE L == Len(src)
           c == FirstByte(pat)
           n == NextByte(src, pos, c)
           H == {k \in pos + 1 .. L : src[k] = c}
<1>1. L \in Nat /\ Positions(src) = 1 .. L + 1 /\ pos \in Positions(src)
  BY DEF Asked, Positions
<1>2. FirstOf(H, n)
  BY <1>1, NextByteIs
<1>3. to = IF ~CanSkip(pat, anchor) THEN pos + 1 ELSE IF n = 0 THEN L + 1 ELSE n
  BY DEF Span
<1> HIDE DEF n
<1>4. \A k \in H : k \in pos + 1 .. L /\ k # 0 /\ k \in Nat
  BY <1>1
<1>5. (n = 0 /\ H = {}) \/ (n \in H /\ \A k \in H : n <= k)
  <2> HIDE DEF H
  <2> QED
    BY <1>2, <1>4 DEF FirstOf
<1>6. to \in pos + 1 .. L + 1 /\ (CanSkip(pat, anchor) => \A k \in H : to <= k)
      /\ (~CanSkip(pat, anchor) => to = pos + 1)
  <2> HIDE DEF H, L
  <2> QED
    BY <1>1, <1>3, <1>4, <1>5 DEF L
<1>7. ASSUME NEW s \in pos + 1 .. to - 1, MatchAt(src, pat, s).s # 0 PROVE FALSE
  <2>1. s \in Positions(src) /\ s < to /\ s \in Nat /\ s >= pos + 1
    <3> HIDE DEF L, H
    <3> QED
      BY <1>1, <1>6
  <2>2. CASE CanSkip(pat, anchor)
    <3>1. s \in 1 .. L /\ src[s] = c
      BY <1>7, <2>1, <2>2, FirstByteIs DEF CanSkip
    <3>2. s \in H
      BY <2>1, <3>1
    <3>3. to <= s
      BY <1>6, <2>2, <3>2
    <3> HIDE DEF H, L
    <3> QED
      BY <1>1, <1>6, <2>1, <3>3
  <2>3. CASE ~CanSkip(pat, anchor)
    <3> HIDE DEF H, L
    <3> QED
      BY <1>1, <1>6, <2>1, <2>3
  <2> QED
    BY <2>2, <2>3
<1> QED
  BY <1>6, <1>7

LEMMA RemainingIs ==
    ASSUME NEW src, Len(src) \in Nat, NEW pos \in Positions(src)
    PROVE  /\ Remaining(src, pos) \in Seq(Piece)
           /\ Tiles(Remaining(src, pos), pos, Len(src) + 1)
           /\ \A matches \in Seq(Pair), n \in Nat :
                  n = 0 \/ matches = <<>> => Replaces(Remaining(src, pos), matches, n)
<1> DEFINE L == Len(src)
           p == Kept(pos, L + 1)
<1>1. pos \in Nat /\ L \in Nat /\ pos <= L + 1 /\ <<>> \in Seq(Piece)
  BY DEF Positions
<1>2. CASE pos <= L
  <2>1. Remaining(src, pos) = <<p>>
    BY <1>2 DEF Remaining
  <2>2. p \in Piece /\ p.from = pos /\ p.to = L + 1 /\ p.kind = "kept"
    BY <1>1 DEF Piece, Kept
  <2> HIDE DEF p
  <2>3. <<p>> \in Seq(Piece) /\ <<p>> \o <<>> = <<p>>
    BY <2>2
  <2>4. Tiles(<<>>, p.to, L + 1)
    BY <2>2 DEF Tiles
  <2>5. Tiles(<<p>>, pos, L + 1)
    BY <1>1, <2>2, <2>3, <2>4, TilesFrom
  <2>6. ASSUME NEW matches \in Seq(Pair), NEW n \in Nat, n = 0 \/ matches = <<>>
        PROVE  Replaces(<<p>>, matches, n)
    <3>1. Replaces(<<>>, matches, n)
      BY <2>6, ReplacesNothing
    <3>2. Replaces(<<p>> \o <<>>, matches, n)
      BY <1>1, <2>2, <3>1, ReplacesKept
    <3> QED
      BY <2>3, <3>2
  <2> QED
    BY <2>1, <2>3, <2>5, <2>6
<1>3. CASE ~(pos <= L)
  <2>1. Remaining(src, pos) = <<>> /\ pos = L + 1
    BY <1>1, <1>3 DEF Remaining
  <2>2. Tiles(<<>>, pos, L + 1)
    BY <2>1 DEF Tiles
  <2> QED
    BY <1>1, <2>1, <2>2, ReplacesNothing
<1> QED
  BY <1>2, <1>3

LEMMA GsubIs ==
    ASSUME NEW src, NEW pat, Asked(src, pat), NEW anchor \in BOOLEAN, NEW max \in Nat
    PROVE  \E h : Rewrites(src, pat, anchor, max, h)
<1> DEFINE L == Len(src)
           D == Tasks(src, max)
           X == Seq(Piece)
           Step(t, h) == GsubStep(src, pat, anchor, h, t)
           Body(h) == [t \in D |-> Step(t, h)]
           f == CHOOSE h : h = Body(h)
           F == [h \in [D -> X] |-> Body(h)]
           rank == [t \in D |-> t.n + (L + 1 - t.pos)]
<1>1. Gsub(src, pat, anchor, max) = f[Task(max, 1, 0)]
  BY DEF Gsub, GsubStep, Behind, Span, Tasks, Task
<1>2. L \in Nat /\ Positions(src) = 1 .. L + 1
  BY DEF Asked, Positions
<1>3. ASSUME NEW t \in D
      PROVE  /\ t.n \in 0 .. max /\ t.pos \in 1 .. L + 1 /\ t.last \in 0 .. L + 1
             /\ t.n \in Nat /\ t.pos \in Nat /\ t.pos \in Positions(src)
  BY <1>2 DEF Tasks
<1>4. \A n \in 0 .. max, pos \in 1 .. L + 1, last \in 0 .. L + 1 :
          /\ Task(n, pos, last) \in D
          /\ rank[Task(n, pos, last)] = n + (L + 1 - pos)
  BY <1>2 DEF Tasks, Task
<1>5. \A t \in D : rank[t] = t.n + (L + 1 - t.pos)
  OBVIOUS
<1>6. rank \in [D -> 0 .. max + L] /\ max + L \in Nat
  <2>1. ASSUME NEW t \in D PROVE t.n + (L + 1 - t.pos) \in 0 .. max + L
    <3> HIDE DEF L, D
    <3> QED
      BY <1>2, <1>3
  <2> HIDE DEF L, D
  <2> QED
    BY <1>2, <2>1
<1>7. X # {} /\ <<>> \in X
  <2>1. <<>> \in X
    OBVIOUS
  <2> HIDE DEF X
  <2> QED
    BY <2>1
<1> HIDE DEF D, rank
(* The three ways to go on. *)
<1>8. ASSUME NEW t \in D, t.n # 0, Substitutes(src, pat, t.pos, t.last),
             NEW e, e = MatchAt(src, pat, t.pos).s
      PROVE  /\ e \in Positions(src) /\ New(t.pos, e) \in Piece
             /\ Task(t.n - 1, e, e) \in D /\ rank[Task(t.n - 1, e, e)] < rank[t]
  <2>1. e \in 1 .. L + 1 /\ e >= t.pos
    BY <1>2, <1>3, <1>8, EndIs DEF Substitutes
  <2>2. t.n - 1 \in 0 .. max /\ e \in 0 .. L + 1
    BY <1>2, <1>3, <1>8, <2>1
  <2>3. Task(t.n - 1, e, e) \in D /\ rank[Task(t.n - 1, e, e)] = t.n - 1 + (L + 1 - e)
    BY <1>4, <2>1, <2>2
  <2>4. t.n - 1 + (L + 1 - e) < t.n + (L + 1 - t.pos)
    <3> HIDE DEF L
    <3> QED
      BY <1>2, <1>3, <2>1
  <2>5. New(t.pos, e) \in Piece
    BY <1>3, <2>1 DEF New, Piece
  <2> QED
    BY <1>2, <1>5, <2>1, <2>3, <2>4, <2>5
<1>9. ASSUME NEW t \in D, t.pos <= L, NEW to, to = Span(src, pat, anchor, t.pos)
      PROVE  /\ to \in Positions(src) /\ Kept(t.pos, to) \in Piece
             /\ Task(t.n, to, t.last) \in D /\ rank[Task(t.n, to, t.last)] < rank[t]
  <2>1. to \in t.pos + 1 .. L + 1
    <3>1. t.pos \in 1 .. L
      BY <1>3, <1>9
    <3> QED
      BY <1>9, <3>1, SpanIs
  <2>2. to \in 1 .. L + 1 /\ to > t.pos /\ to \in Nat
    <3> HIDE DEF L
    <3> QED
      BY <1>2, <1>3, <2>1
  <2>3. Task(t.n, to, t.last) \in D /\ rank[Task(t.n, to, t.last)] = t.n + (L + 1 - to)
    BY <1>3, <1>4, <2>2
  <2>4. t.n + (L + 1 - to) < t.n + (L + 1 - t.pos)
    <3> HIDE DEF L
    <3> QED
      BY <1>2, <1>3, <2>2
  <2>5. Kept(t.pos, to) \in Piece
    BY <1>3, <2>2 DEF Kept, Piece
  <2> QED
    BY <1>2, <1>5, <2>2, <2>3, <2>4, <2>5
<1>10. \A pos \in Positions(src) : Remaining(src, pos) \in X
  BY <1>2, RemainingIs
<1> HIDE DEF X
<1>11. \A p \in Piece, r \in X : <<p>> \o r \in X
  BY Prepended DEF X
<1>12. ASSUME NEW h, NEW t \in D, \A e \in D : rank[e] < rank[t] => h[e] \in X
       PROVE  Step(t, h) \in X
  <2>1. CASE t.n = 0
    BY <1>3, <1>10, <2>1 DEF GsubStep
  <2>2. CASE t.n # 0 /\ Substitutes(src, pat, t.pos, t.last)
    <3> DEFINE e == MatchAt(src, pat, t.pos).s
               b == Behind(src, anchor, h, t.n - 1, e, e)
    <3>1. /\ e \in Positions(src) /\ New(t.pos, e) \in Piece
          /\ Task(t.n - 1, e, e) \in D /\ rank[Task(t.n - 1, e, e)] < rank[t]
      BY <1>8, <2>2
    <3>2. Step(t, h) = <<New(t.pos, e)>> \o b
      BY <2>2 DEF GsubStep
    <3> HIDE DEF e
    <3>3. b \in X
      BY <1>10, <1>12, <3>1 DEF Behind
    <3> HIDE DEF b, Step
    <3> QED
      BY <1>11, <3>1, <3>2, <3>3
  <2>3. CASE t.n # 0 /\ ~Substitutes(src, pat, t.pos, t.last) /\ t.pos <= L
    <3> DEFINE to == Span(src, pat, anchor, t.pos)
               b == Behind(src, anchor, h, t.n, to, t.last)
    <3>1. /\ to \in Positions(src) /\ Kept(t.pos, to) \in Piece
          /\ Task(t.n, to, t.last) \in D /\ rank[Task(t.n, to, t.last)] < rank[t]
      BY <1>9, <2>3
    <3>2. Step(t, h) = <<Kept(t.pos, to)>> \o b
      BY <2>3 DEF GsubStep
    <3> HIDE DEF to
    <3>3. b \in X
      BY <1>10, <1>12, <3>1 DEF Behind
    <3> HIDE DEF b, Step
    <3> QED
      BY <1>11, <3>1, <3>2, <3>3
  <2>4. CASE t.n # 0 /\ ~Substitutes(src, pat, t.pos, t.last) /\ ~(t.pos <= L)
    BY <1>7, <2>4 DEF GsubStep
  <2> QED
    BY <2>1, <2>2, <2>3, <2>4
<1>13. ASSUME NEW g, NEW h, NEW t \in D, \A e \in D : rank[e] < rank[t] => g[e] = h[e]
       PROVE  Step(t, g) = Step(t, h)
  <2>1. CASE t.n = 0
    BY <2>1 DEF GsubStep
  <2>2. CASE t.n # 0 /\ Substitutes(src, pat, t.pos, t.last)
    <3> DEFINE e == MatchAt(src, pat, t.pos).s
    <3>1. Task(t.n - 1, e, e) \in D /\ rank[Task(t.n - 1, e, e)] < rank[t]
      BY <1>8, <2>2
    <3>2. Step(t, g) = <<New(t.pos, e)>> \o Behind(src, anchor, g, t.n - 1, e, e)
          /\ Step(t, h) = <<New(t.pos, e)>> \o Behind(src, anchor, h, t.n - 1, e, e)
      BY <2>2 DEF GsubStep
    <3> HIDE DEF e, Step
    <3>3. Behind(src, anchor, g, t.n - 1, e, e) = Behind(src, anchor, h, t.n - 1, e, e)
      BY <1>13, <3>1 DEF Behind
    <3> QED
      BY <3>2, <3>3
  <2>3. CASE t.n # 0 /\ ~Substitutes(src, pat, t.pos, t.last) /\ t.pos <= L
    <3> DEFINE to == Span(src, pat, anchor, t.pos)
    <3>1. Task(t.n, to, t.last) \in D /\ rank[Task(t.n, to, t.last)] < rank[t]
      BY <1>9, <2>3
    <3>2. Step(t, g) = <<Kept(t.pos, to)>> \o Behind(src, anchor, g, t.n, to, t.last)
          /\ Step(t, h) = <<Kept(t.pos, to)>> \o Behind(src, anchor, h, t.n, to, t.last)
      BY <2>3 DEF GsubStep
    <3> HIDE DEF to, Step
    <3>3. Behind(src, anchor, g, t.n, to, t.last) = Behind(src, anchor, h, t.n, to, t.last)
      BY <1>13, <3>1 DEF Behind
    <3> QED
      BY <3>2, <3>3
  <2>4. CASE t.n # 0 /\ ~Substitutes(src, pat, t.pos, t.last) /\ ~(t.pos <= L)
    BY <2>4 DEF GsubStep
  <2> QED
    BY <2>1, <2>2, <2>3, <2>4
<1> HIDE DEF Step
<1>14. \A h \in [D -> X] : Body(h) \in [D -> X]
  BY <1>12
<1>15. F \in [[D -> X] -> [D -> X]] /\ \A h \in [D -> X] : F[h] = Body(h)
  <2> HIDE DEF Body
  <2> QED
    BY <1>14
<1>16. LowerOnly(D, X, max + L, rank, F)
  <2>1. ASSUME NEW g \in [D -> X], NEW h \in [D -> X], NEW d \in D,
               \A e \in D : rank[e] < rank[d] => g[e] = h[e]
        PROVE  F[g][d] = F[h][d]
    <3>1. Step(d, g) = Step(d, h)
      BY <1>13, <2>1
    <3>2. F[g] = Body(g) /\ F[h] = Body(h)
      BY <1>15
    <3> HIDE DEF F
    <3> QED
      BY <3>1, <3>2
  <2> HIDE DEF F
  <2> QED
    BY <1>6, <1>7, <1>15, <2>1 DEF LowerOnly
<1> HIDE DEF F
<1>17. f = Body(f)
  <2> HIDE DEF Body
  <2>1. PICK g \in [D -> X] : F[g] = g
    BY <1>16, RankedRecursion
  <2>2. g = Body(g)
    BY <1>15, <2>1
  <2> QED
    BY <2>2
<1> HIDE DEF f
<1>18. \A t \in D : f[t] = Step(t, f)
  BY <1>17
<1>19. D \subseteq {t \in D : f[t] \in X}
  <2> DEFINE S == {t \in D : f[t] \in X}
  <2>1. ASSUME NEW d \in D, \A e \in D : rank[e] < rank[d] => e \in S
        PROVE  d \in S
    BY <1>12, <1>18, <2>1
  <2> HIDE DEF S
  <2>2. D \subseteq S
    BY <1>6, <2>1, RankedInduction
  <2> QED
    BY <2>2 DEF S
<1>20. f \in [D -> X]
  BY <1>17, <1>19
<1>21. Rewrites(src, pat, anchor, max, f)
  BY <1>1, <1>18, <1>20 DEF Rewrites, D, X, Step
<1> QED
  BY <1>21

(* Unanchored: from a task behind which no match was left out, the pieces     *)
(* tile the rest of the text and replace what gmatch returns next.            *)
Ready(src, pat, t) ==
    t.last <= t.pos /\ \A s \in Later(src, pat, t.last) : s >= t.pos

Rewritten(src, pieces, matches, pos, n) ==
    Tiles(pieces, pos, Len(src) + 1) /\ Replaces(pieces, matches, n)

LEMMA RewritesOn ==
    ASSUME NEW src, NEW pat, Asked(src, pat), NEW max \in Nat,
           NEW g, Iterates(src, pat, g), NEW h, Rewrites(src, pat, FALSE, max, h)
    PROVE  \A t \in Tasks(src, max) :
               Ready(src, pat, t) => Rewritten(src, h[t], g[t.last], t.pos, t.n)
<1> DEFINE L == Len(src)
           D == Tasks(src, max)
           rank == [t \in D |-> t.n + (L + 1 - t.pos)]
           Good(t) == Ready(src, pat, t) => Rewritten(src, h[t], g[t.last], t.pos, t.n)
           S == {t \in D : Good(t)}
<1>2. L \in Nat /\ Positions(src) = 1 .. L + 1
  BY DEF Asked, Positions
<1>3. ASSUME NEW t \in D
      PROVE  /\ t.n \in 0 .. max /\ t.pos \in 1 .. L + 1 /\ t.last \in 0 .. L + 1
             /\ t.n \in Nat /\ t.pos \in Nat /\ t.pos \in Positions(src) /\ t.last \in Nat
  BY <1>2 DEF Tasks
<1>4. \A n \in 0 .. max, pos \in 1 .. L + 1, last \in 0 .. L + 1 :
          /\ Task(n, pos, last) \in D
          /\ rank[Task(n, pos, last)] = n + (L + 1 - pos)
          /\ Task(n, pos, last).n = n /\ Task(n, pos, last).pos = pos
          /\ Task(n, pos, last).last = last
  BY <1>2 DEF Tasks, Task
<1>5. \A t \in D : rank[t] = t.n + (L + 1 - t.pos)
  OBVIOUS
<1>6. rank \in [D -> 0 .. max + L] /\ max + L \in Nat
  <2>1. ASSUME NEW t \in D PROVE t.n + (L + 1 - t.pos) \in 0 .. max + L
    <3> HIDE DEF L, D
    <3> QED
      BY <1>2, <1>3
  <2> HIDE DEF L, D
  <2> QED
    BY <1>2, <2>1
<1>7. \A last \in 0 .. L + 1 : g[last] \in Seq(Pair) /\ IteratesAt(src, pat, g, last)
  BY DEF Iterates
<1>8. \A t \in D : h[t] \in Seq(Piece) /\ h[t] = GsubStep(src, pat, FALSE, h, t)
  BY DEF Rewrites
<1>9. \A n, pos, last : Behind(src, FALSE, h, n, pos, last) = h[Task(n, pos, last)]
  BY DEF Behind
<1> HIDE DEF D, rank
<1>10. ASSUME NEW t \in D, \A e \in D : rank[e] < rank[t] => e \in S
       PROVE  t \in S
  <2> SUFFICES ASSUME Ready(src, pat, t)
               PROVE  Rewritten(src, h[t], g[t.last], t.pos, t.n)
    OBVIOUS
  <2> DEFINE n == t.n
             pos == t.pos
             last == t.last
             from == IF last = 0 THEN 1 ELSE last
             T == Later(src, pat, last)
  <2>1. /\ n \in 0 .. max /\ pos \in 1 .. L + 1 /\ last \in 0 .. L + 1
        /\ n \in Nat /\ pos \in Nat /\ pos \in Positions(src) /\ last \in Nat
        /\ last <= pos /\ \A s \in T : s >= pos
    BY <1>3 DEF Ready
  <2>2. /\ g[last] \in Seq(Pair) /\ IteratesAt(src, pat, g, last)
        /\ h[t] = GsubStep(src, pat, FALSE, h, t)
    BY <1>3, <1>7, <1>8
  <2>3. \A s : s \in T <=> s \in from .. L + 1 /\ MatchAt(src, pat, s).s \notin {0, last}
    BY DEF Later
  <2>4. CASE n = 0
    <3>1. h[t] = Remaining(src, pos)
      BY <2>2, <2>4 DEF GsubStep
    <3>2. Tiles(Remaining(src, pos), pos, L + 1)
      BY <1>2, <2>1, RemainingIs
    <3>3. Replaces(Remaining(src, pos), g[last], n)
      BY <1>2, <2>1, <2>2, <2>4, RemainingIs
    <3> QED
      BY <3>1, <3>2, <3>3 DEF Rewritten
  <2>5. CASE n # 0 /\ Substitutes(src, pat, pos, last)
    <3> DEFINE e == MatchAt(src, pat, pos).s
               u == Task(n - 1, e, e)
               p == New(pos, e)
               q == [from |-> pos, to |-> e]
    <3>1. e \notin {0, last}
      BY <2>5 DEF Substitutes
    <3>2. e \in 1 .. L + 1 /\ e >= pos
      BY <1>2, <2>1, <3>1, EndIs
    <3>3. pos \in T
      <4>1. pos \in from .. L + 1
        <5> HIDE DEF L, pos, last
        <5> QED
          BY <1>2, <2>1
      <4> QED
        BY <2>3, <3>1, <4>1
    <3>4. h[t] = <<p>> \o h[u]
      BY <1>9, <2>2, <2>5 DEF GsubStep
    <3>5. g[last] = <<q>> \o g[e]
      <4>1. PICK s \in T : /\ \A k \in T : s <= k
                           /\ g[last] = <<[from |-> s, to |-> MatchAt(src, pat, s).s]>>
                                            \o g[MatchAt(src, pat, s).s]
        BY <2>2, <3>3 DEF IteratesAt
      <4>2. s = pos
        <5>1. s <= pos /\ s >= pos /\ s \in Nat
          <6>1. s \in from .. L + 1
            BY <2>3
          <6>2. s \in Nat
            <7> HIDE DEF L, last
            <7> QED
              BY <1>2, <2>1, <6>1
          <6> QED
            BY <2>1, <3>3, <4>1, <6>2
        <5> HIDE DEF pos
        <5> QED
          BY <2>1, <5>1
      <4> QED
        BY <4>1, <4>2
    <3> HIDE DEF e
    <3>6. n - 1 \in 0 .. max /\ n >= 1 /\ n - 1 \in Nat
      <4> HIDE DEF n
      <4> QED
        BY <2>1, <2>5
    <3>7. u \in D /\ rank[u] = (n - 1) + (L + 1 - e) /\ u.n = n - 1 /\ u.pos = e /\ u.last = e
      <4>1. e \in 0 .. L + 1
        <5> HIDE DEF L
        <5> QED
          BY <1>2, <3>2
      <4> HIDE DEF n, L
      <4> QED
        BY <1>4, <3>2, <3>6, <4>1
    <3>8. rank[u] < rank[t]
      <4>1. rank[t] = n + (L + 1 - pos)
        BY <1>5
      <4> HIDE DEF u, n, pos, L
      <4> QED
        BY <1>2, <2>1, <3>2, <3>7, <4>1
    <3> HIDE DEF u
    <3>9. Ready(src, pat, u)
      <4>1. e <= e /\ \A s \in Later(src, pat, e) : s >= e
        <5>1. e # 0 /\ e \in Nat
          <6> HIDE DEF L
          <6> QED
            BY <1>2, <3>2
        <5> QED
          BY <1>2, <5>1 DEF Later
      <4> QED
        BY <3>7, <4>1 DEF Ready
    <3>10. Rewritten(src, h[u], g[e], e, n - 1)
      <4>1. u \in S
        BY <1>10, <3>7, <3>8
      <4> QED
        BY <3>7, <3>9, <4>1
    <3>11. p \in Piece /\ p.kind = "new" /\ p.from = pos /\ p.to = e
      <4>1. e \in Nat
        <5> HIDE DEF L
        <5> QED
          BY <1>2, <3>2
      <4> QED
        BY <2>1, <4>1 DEF New, Piece
    <3>12. h[u] \in Seq(Piece) /\ g[e] \in Seq(Pair)
      <4>1. e \in 0 .. L + 1
        <5> HIDE DEF L
        <5> QED
          BY <1>2, <3>2
      <4> QED
        BY <1>7, <1>8, <3>7, <4>1
    <3>13. Tiles(<<p>> \o h[u], pos, L + 1)
      <4>1. Tiles(h[u], p.to, L + 1)
        BY <3>10, <3>11 DEF Rewritten
      <4>2. Tiles(<<p>> \o h[u], p.from, L + 1)
        <5> HIDE DEF p, L
        <5> QED
          BY <3>11, <3>12, <4>1, TilesFrom
      <4> QED
        BY <3>11, <4>2
    <3>14. Replaces(<<p>> \o h[u], <<q>> \o g[e], n)
      <4>1. Replaces(h[u], g[e], n - 1)
        BY <3>10 DEF Rewritten
      <4>2. q = [from |-> p.from, to |-> p.to]
        BY <3>11
      <4> HIDE DEF p, q, n
      <4> QED
        BY <2>1, <3>6, <3>11, <3>12, <4>1, <4>2, ReplacesNew
    <3> QED
      BY <3>4, <3>5, <3>13, <3>14 DEF Rewritten
  <2>6. CASE n # 0 /\ ~Substitutes(src, pat, pos, last) /\ pos <= L
    <3> DEFINE to == Span(src, pat, FALSE, pos)
               u == Task(n, to, last)
               p == Kept(pos, to)
    <3>1. pos \in 1 .. L
      <4> HIDE DEF L, pos
      <4> QED
        BY <1>2, <2>1, <2>6
    <3>2. to \in pos + 1 .. L + 1 /\ \A s \in pos + 1 .. to - 1 : MatchAt(src, pat, s).s = 0
      BY <3>1, SpanIs
    <3>3. h[t] = <<p>> \o h[u]
      BY <1>9, <2>2, <2>6 DEF GsubStep
    <3> HIDE DEF to
    <3>4. to \in 1 .. L + 1 /\ to > pos /\ to \in Nat
      <4> HIDE DEF L, pos
      <4> QED
        BY <1>2, <2>1, <3>2
    <3>5. u \in D /\ rank[u] = n + (L + 1 - to) /\ u.n = n /\ u.pos = to /\ u.last = last
      <4> HIDE DEF L, n, pos, last, to
      <4> QED
        BY <1>4, <2>1, <3>4
    <3>6. rank[u] < rank[t]
      <4>1. rank[t] = n + (L + 1 - pos)
        BY <1>5
      <4> HIDE DEF u, n, pos, L
      <4> QED
        BY <1>2, <2>1, <3>4, <3>5, <4>1
    <3> HIDE DEF u
    <3>7. Ready(src, pat, u)
      <4>1. last <= to
        <5> HIDE DEF pos, last
        <5> QED
          BY <2>1, <3>4
      <4>2. ASSUME NEW s \in T PROVE s >= to
        <5>1. MatchAt(src, pat, s).s # 0 /\ s \in from .. L + 1 /\ s # pos
          BY <2>3, <2>6 DEF Substitutes
        <5>2. s \in Nat /\ s >= pos
          <6>1. s \in Nat
            <7> HIDE DEF L, last
            <7> QED
              BY <1>2, <2>1, <5>1
          <6> QED
            BY <2>1, <6>1
        <5>3. s \notin pos + 1 .. to - 1
          BY <3>2, <5>1
        <5> HIDE DEF pos
        <5> QED
          BY <2>1, <3>4, <5>1, <5>2, <5>3
      <4> QED
        BY <3>5, <4>1, <4>2 DEF Ready
    <3>8. Rewritten(src, h[u], g[last], to, n)
      <4>1. u \in S
        BY <1>10, <3>5, <3>6
      <4> QED
        BY <3>5, <3>7, <4>1
    <3>9. p \in Piece /\ p.kind = "kept" /\ p.from = pos /\ p.to = to
      BY <2>1, <3>4 DEF Kept, Piece
    <3>10. h[u] \in Seq(Piece)
      BY <1>8, <3>5
    <3>11. Tiles(<<p>> \o h[u], pos, L + 1)
      <4>1. Tiles(h[u], p.to, L + 1)
        BY <3>8, <3>9 DEF Rewritten
      <4>2. Tiles(<<p>> \o h[u], p.from, L + 1)
        <5> HIDE DEF p, L
        <5> QED
          BY <3>9, <3>10, <4>1, TilesFrom
      <4> QED
        BY <3>9, <4>2
    <3>12. Replaces(<<p>> \o h[u], g[last], n)
      <4>1. Replaces(h[u], g[last], n)
        BY <3>8 DEF Rewritten
      <4> HIDE DEF p, n, last
      <4> QED
        BY <3>9, <3>10, <4>1, ReplacesKept
    <3> QED
      BY <3>3, <3>11, <3>12 DEF Rewritten
  <2>7. CASE n # 0 /\ ~Substitutes(src, pat, pos, last) /\ ~(pos <= L)
    <3>1. h[t] = <<>>
      BY <2>2, <2>7 DEF GsubStep
    <3>2. pos = L + 1
      <4> HIDE DEF L, pos
      <4> QED
        BY <1>2, <2>1, <2>7
    <3>3. T = {}
      <4>1. ASSUME NEW s \in T PROVE FALSE
        <5>1. s \in from .. L + 1 /\ s >= pos /\ s # pos
          BY <2>1, <2>3, <2>7 DEF Substitutes
        <5> HIDE DEF L, pos, last
        <5> QED
          BY <1>2, <2>1, <3>2, <5>1
      <4> QED
        BY <4>1
    <3>4. g[last] = <<>>
      BY <2>2, <3>3 DEF IteratesAt
    <3>5. Tiles(<<>>, pos, L + 1)
      BY <3>2 DEF Tiles
    <3>6. Replaces(<<>>, <<>>, n)
      <4>1. <<>> \in Seq(Pair)
        OBVIOUS
      <4> QED
        BY <2>1, <4>1, ReplacesNothing
    <3> QED
      BY <3>1, <3>4, <3>5, <3>6 DEF Rewritten
  <2> QED
    BY <2>4, <2>5, <2>6, <2>7
<1>11. D \subseteq S
  <2> HIDE DEF S
  <2> QED
    BY <1>6, <1>10, RankedInduction
<1> QED
  BY <1>11 DEF D

(* The matches an anchored pattern may replace.                              *)
Wants(all, anchor) ==
    IF ~anchor THEN all
    ELSE IF all # <<>> /\ all[1].from = 1 THEN SubSeq(all, 1, 1) ELSE <<>>

LEMMA GsubUnanchored ==
    ASSUME NEW src, NEW pat, Asked(src, pat), NEW n \in Nat
    PROVE  Rewritten(src, Gsub(src, pat, FALSE, n), Gmatch(src, pat), 1, n)
<1>1. PICK g : Iterates(src, pat, g)
  BY GmatchIs
<1>2. PICK h : Rewrites(src, pat, FALSE, n, h)
  BY GsubIs
<1> DEFINE t == Task(n, 1, 0)
<1>3. t \in Tasks(src, n) /\ t.n = n /\ t.pos = 1 /\ t.last = 0
  <2>1. n \in 0 .. n /\ 1 \in Positions(src) /\ 0 \in 0 .. Len(src) + 1
    BY DEF Asked, Positions
  <2> QED
    BY <2>1 DEF Task, Tasks
<1> HIDE DEF t
<1>4. Ready(src, pat, t)
  BY <1>3 DEF Ready, Later
<1>5. Rewritten(src, h[t], g[0], 1, n)
  BY <1>1, <1>2, <1>3, <1>4, RewritesOn
<1>6. Gsub(src, pat, FALSE, n) = h[t] /\ Gmatch(src, pat) = g[0]
  BY <1>1, <1>2 DEF Rewrites, Iterates, t
<1> QED
  BY <1>5, <1>6

LEMMA GsubAnchored ==
    ASSUME NEW src, NEW pat, Asked(src, pat), NEW n \in Nat
    PROVE  Rewritten(src, Gsub(src, pat, TRUE, n), Wants(Gmatch(src, pat), TRUE), 1, n)
<1> DEFINE L == Len(src)
           pieces == Gsub(src, pat, TRUE, n)
           all == Gmatch(src, pat)
           e == MatchAt(src, pat, 1).s
           T == Later(src, pat, 0)
           t == Task(n, 1, 0)
           wanted == Wants(all, TRUE)
<1>1. L \in Nat /\ 1 \in Positions(src) /\ Positions(src) = 1 .. L + 1
  BY DEF Asked, Positions
<1>2. PICK g : Iterates(src, pat, g)
  BY GmatchIs
<1>3. PICK h : Rewrites(src, pat, TRUE, n, h)
  BY GsubIs
<1>4. all \in Seq(Pair) /\ all = g[0] /\ g \in [0 .. L + 1 -> Seq(Pair)]
      /\ IteratesAt(src, pat, g, 0)
  <2>1. 0 \in 0 .. L + 1
    BY <1>1
  <2> QED
    BY <1>2, <2>1 DEF Iterates
<1>5. pieces = GsubStep(src, pat, TRUE, h, t) /\ t.n = n /\ t.pos = 1 /\ t.last = 0
  <2>1. n \in 0 .. n /\ 1 \in Positions(src) /\ 0 \in 0 .. Len(src) + 1
    BY <1>1
  <2>2. t \in Tasks(src, n) /\ t.n = n /\ t.pos = 1 /\ t.last = 0
    BY <2>1 DEF Task, Tasks
  <2> HIDE DEF t
  <2> QED
    BY <1>3, <2>2 DEF Rewrites, t
<1> HIDE DEF t, pieces, all
<1>6. \A s : s \in T <=> s \in 1 .. L + 1 /\ MatchAt(src, pat, s).s # 0
  BY DEF Later
<1>7. ASSUME T # {}
      PROVE  \E s \in T : /\ \A k \in T : s <= k
                          /\ MatchAt(src, pat, s).s \in 1 .. L + 1
                          /\ all = <<[from |-> s, to |-> MatchAt(src, pat, s).s]>>
                                       \o g[MatchAt(src, pat, s).s]
  <2>1. PICK s \in T : /\ \A k \in T : s <= k
                       /\ g[0] = <<[from |-> s, to |-> MatchAt(src, pat, s).s]>>
                                     \o g[MatchAt(src, pat, s).s]
    BY <1>4, <1>7 DEF IteratesAt
  <2>2. MatchAt(src, pat, s).s \in 1 .. L + 1
    BY <1>1, <1>6, EndIs
  <2> QED
    BY <1>4, <2>1, <2>2
<1>8. ASSUME T # {}
      PROVE  \E s \in T : /\ \A k \in T : s <= k
                          /\ all # <<>> /\ all[1] = [from |-> s, to |-> MatchAt(src, pat, s).s]
                          /\ SubSeq(all, 1, 1) = <<all[1]>>
  <2>1. PICK s \in T : /\ \A k \in T : s <= k
                       /\ MatchAt(src, pat, s).s \in 1 .. L + 1
                       /\ all = <<[from |-> s, to |-> MatchAt(src, pat, s).s]>>
                                    \o g[MatchAt(src, pat, s).s]
    BY <1>7, <1>8
  <2> DEFINE d == MatchAt(src, pat, s).s
             q == [from |-> s, to |-> d]
             r == g[d]
  <2>2. d \in Nat /\ d \in 0 .. L + 1 /\ s \in Nat
    <3>1. d \in 1 .. L + 1 /\ s \in 1 .. L + 1
      BY <1>6, <2>1
    <3> HIDE DEF d, L
    <3> QED
      BY <1>1, <3>1
  <2> HIDE DEF d
  <2>3. q \in Pair /\ r \in Seq(Pair)
    BY <1>4, <2>2 DEF Pair
  <2>4. all = <<q>> \o r
    BY <2>1 DEF d
  <2> HIDE DEF q, r
  <2>5. all # <<>> /\ all[1] = q /\ Len(all) = Len(r) + 1 /\ Len(r) \in Nat
    BY <2>3, <2>4, Prepended
  <2>6. SubSeq(all, 1, 1) = <<all[1]>>
    <3>1. 1 \in 1 .. Len(all) /\ all \in Seq(Pair) /\ 1 \in 1 .. 1
      BY <1>4, <2>5
    <3>2. SubSeq(all, 1, 1) = <<all[1]>> \o SubSeq(all, 1 + 1, 1)
      BY <3>1, SubSeqRecursiveFirst
    <3>3. SubSeq(all, 1 + 1, 1) = <<>>
      BY <3>1
    <3>4. <<all[1]>> \in Seq(Pair)
      BY <2>3, <2>5
    <3>5. <<all[1]>> \o <<>> = <<all[1]>>
      BY <3>4, ConcatEmptySeq
    <3> QED
      BY <3>2, <3>3, <3>5
  <2> QED
    BY <2>1, <2>5, <2>6 DEF q, d
<1>9. T = {} => all = <<>>
  BY <1>4 DEF IteratesAt
<1>10. /\ e # 0 => wanted = <<[from |-> 1, to |-> e]>>
       /\ e = 0 => wanted = <<>>
       /\ wanted \in Seq(Pair)
  <2>1. CASE e # 0
    <3>1. 1 \in T
      BY <1>1, <1>6, <2>1
    <3>2. PICK s \in T : /\ \A k \in T : s <= k
                         /\ all # <<>> /\ all[1] = [from |-> s, to |-> MatchAt(src, pat, s).s]
                         /\ SubSeq(all, 1, 1) = <<all[1]>>
      BY <1>8, <3>1
    <3>3. s = 1
      <4>1. s <= 1 /\ s \in 1 .. L + 1
        BY <1>6, <3>1, <3>2
      <4> HIDE DEF L
      <4> QED
        BY <1>1, <4>1
    <3>4. wanted = <<[from |-> 1, to |-> e]>>
      BY <3>2, <3>3 DEF Wants
    <3>5. [from |-> 1, to |-> e] \in Pair
      <4>1. e \in Positions(src)
        BY <1>1, <2>1, EndIs
      <4> HIDE DEF e
      <4> QED
        BY <1>1, <4>1 DEF Pair
    <3> HIDE DEF e, wanted
    <3> QED
      BY <2>1, <3>4, <3>5
  <2>2. CASE e = 0
    <3>1. all # <<>> => all[1].from # 1
      <4> SUFFICES ASSUME all # <<>> PROVE all[1].from # 1
        OBVIOUS
      <4>1. T # {}
        BY <1>9
      <4>2. PICK s \in T : all[1] = [from |-> s, to |-> MatchAt(src, pat, s).s]
        BY <1>8, <4>1
      <4>3. s # 1
        BY <1>6, <2>2
      <4> QED
        BY <4>2, <4>3
    <3>2. wanted = <<>> /\ <<>> \in Seq(Pair)
      BY <3>1 DEF Wants
    <3> QED
      BY <2>2, <3>2
  <2> QED
    BY <2>1, <2>2
<1> HIDE DEF wanted
<1>11. CASE n = 0
  <2>1. pieces = Remaining(src, 1)
    BY <1>5, <1>11 DEF GsubStep
  <2> QED
    BY <1>1, <1>10, <1>11, <2>1, RemainingIs DEF Rewritten, wanted, pieces, all
<1>12. CASE n # 0 /\ e # 0
  <2> DEFINE p == New(1, e)
             r == Remaining(src, e)
  <2>1. pieces = <<p>> \o r
    <3>1. Substitutes(src, pat, 1, 0)
      BY <1>12 DEF Substitutes
    <3> QED
      BY <1>5, <1>12, <3>1 DEF GsubStep, Behind
  <2>2. e \in Positions(src)
    BY <1>1, <1>12, EndIs
  <2> HIDE DEF e
  <2>3. n - 1 \in Nat /\ n >= 1 /\ <<>> \in Seq(Pair)
    BY <1>12
  <2>4. p \in Piece /\ p.kind = "new" /\ p.from = 1 /\ p.to = e
    BY <1>1, <2>2 DEF New, Piece
  <2>5. r \in Seq(Piece) /\ Tiles(r, e, L + 1) /\ Replaces(r, <<>>, n - 1)
    BY <1>1, <2>2, <2>3, RemainingIs
  <2> DEFINE q == [from |-> 1, to |-> e]
  <2>6. q = [from |-> p.from, to |-> p.to] /\ <<q>> \o <<>> = <<q>>
    <3>1. q \in Pair
      BY <1>1, <2>2 DEF Pair
    <3> HIDE DEF q
    <3>2. <<q>> \o <<>> = <<q>>
      BY <3>1
    <3> QED
      BY <2>4, <3>2 DEF q
  <2> HIDE DEF p, r, q
  <2>7. Tiles(<<p>> \o r, 1, L + 1)
    BY <2>4, <2>5, TilesFrom
  <2>8. Replaces(<<p>> \o r, <<q>> \o <<>>, n)
    BY <2>3, <2>4, <2>5, <2>6, ReplacesNew
  <2> QED
    BY <1>10, <1>12, <2>1, <2>6, <2>7, <2>8 DEF Rewritten, wanted, pieces, all, q
<1>13. CASE n # 0 /\ e = 0
  <2>1. ~Substitutes(src, pat, 1, 0) /\ wanted = <<>>
    BY <1>10, <1>13 DEF Substitutes
  <2>2. CASE 1 <= L
    <3> DEFINE to == Span(src, pat, TRUE, 1)
               p == Kept(1, to)
               r == Remaining(src, to)
    <3>1. pieces = <<p>> \o r
      BY <1>5, <1>13, <2>1, <2>2 DEF GsubStep, Behind
    <3>2. to = 2 /\ to \in Positions(src)
      <4>1. to = 2
        BY DEF Span, CanSkip
      <4> HIDE DEF to
      <4> QED
        BY <1>1, <2>2, <4>1
    <3> HIDE DEF to
    <3>3. p \in Piece /\ p.kind = "kept" /\ p.from = 1 /\ p.to = to
      BY <3>2 DEF Kept, Piece
    <3>4. r \in Seq(Piece) /\ Tiles(r, to, L + 1) /\ Replaces(r, <<>>, n)
      <4>1. <<>> \in Seq(Pair)
        OBVIOUS
      <4> QED
        BY <1>1, <3>2, <4>1, RemainingIs
    <3> HIDE DEF p, r
    <3>5. Tiles(<<p>> \o r, 1, L + 1)
      BY <3>3, <3>4, TilesFrom
    <3>6. Replaces(<<p>> \o r, <<>>, n)
      BY <3>3, <3>4, ReplacesKept
    <3> QED
      BY <2>1, <3>1, <3>5, <3>6 DEF Rewritten, wanted, pieces, all
  <2>3. CASE ~(1 <= L)
    <3>1. pieces = <<>> /\ 1 = L + 1
      BY <1>1, <1>5, <1>13, <2>1, <2>3 DEF GsubStep
    <3>2. Tiles(<<>>, 1, L + 1)
      BY <3>1 DEF Tiles
    <3>3. Replaces(<<>>, <<>>, n)
      <4>1. <<>> \in Seq(Pair)
        OBVIOUS
      <4> QED
        BY <4>1, ReplacesNothing
    <3> QED
      BY <2>1, <3>1, <3>2, <3>3 DEF Rewritten, wanted, pieces, all
  <2> QED
    BY <2>2, <2>3
<1> QED
  BY <1>11, <1>12, <1>13

(* string.gsub, for every text, pattern and limit, anchored or not: nothing   *)
(* of the text is lost or repeated, and what is replaced is what gmatch would *)
(* return (str_gsub, gmatch_aux; an empty match is not taken right behind     *)
(* another match, and the skip to the first byte steps over no match).        *)
THEOREM GsubTilesTheText == PatternsSpec => []GsubTiles
<1>1. ASSUME asked = Nobody \/ asked \in PatternQuestions \/ asked \in RangeQuestions
      PROVE  GsubTiles
  <2> DEFINE src == asked.src
             pat == asked.pat
  <2>1. ASSUME Of("pattern"), NEW n \in 0 .. Len(src) + 1, NEW anchor \in BOOLEAN
        PROVE  Rewritten(src, Gsub(src, pat, anchor, n), Wants(Gmatch(src, pat), anchor), 1, n)
    <3>1. Asked(src, pat) /\ n \in Nat
      <4>1. Asked(src, pat)
        BY <1>1, <2>1, PatternKinds, PatternAsked
      <4> QED
        BY <2>1, <4>1
    <3> HIDE DEF src, pat
    <3>2. CASE anchor
      BY <3>1, <3>2, GsubAnchored
    <3>3. CASE ~anchor
      <4>1. Wants(Gmatch(src, pat), anchor) = Gmatch(src, pat)
        BY <3>3 DEF Wants
      <4> QED
        BY <3>1, <3>3, <4>1, GsubUnanchored
    <3> QED
      BY <3>2, <3>3
  <2> QED
    BY <2>1 DEF GsubTiles, Rewritten, Wants
<1> QED
  BY <1>1, PatternsAsked, PTL
=============================================================================

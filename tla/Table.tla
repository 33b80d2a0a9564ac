------------------------------- MODULE Table -------------------------------
(***************************************************************************)
(* The tables of the clx runtime (src/runtime/tables.cpp, the table_get and *)
(* table_set paths of clx_runtime.h, next and rawlen of clx.h): an array    *)
(* part with a length hint, a hash part with open addressing, and a cache   *)
(* of hash slots by key.  One table without metamethods is used by one      *)
(* program.  What a key is to the code is given by constants: its hash, the *)
(* bits of its payload, the place of these bits in the cache.               *)
(***************************************************************************)
EXTENDS Integers, Sequences, FiniteSets, FiniteSetsExt, SequencesExt

CONSTANTS
    Key,        \* keys as programs write them; an integer is itself
    LuaKey,     \* the keys Lua distinguishes: 2 and 2.0 are one
    Lua,        \* the key of LuaKey that a key of Key is (lvalue_eq_fast)
    Home,       \* lvalue_hash
    Payload,    \* the 64 bits of a key, its type apart
    CacheOf,    \* which entry of the inline cache its payload selects
    Cut,        \* the integer a number is cast to, 0 for other keys
    Value, Nil,
    Empty, Tomb,    \* HASH_EMPTY, HASH_TOMBSTONE
    FirstCap,   \* array_cap of the first array part (8 in the code)
    MinHash,    \* smallest hash_size (8 in the code)
    MaxIndex,   \* bound: the integer keys are 1..MaxIndex
    Sizes,      \* sizes tables are created with
    Erased,     \* keys programs set to nil
    RawKeys,    \* keys programs set with rawset
    Updates     \* whether programs assign to fields while they traverse

ASSUME KeyAssumption ==
    /\ Lua \in [Key -> LuaKey] /\ Home \in [Key -> Nat] /\ Cut \in [Key -> Nat]
    /\ \A i \in 1..MaxIndex : i \in Key /\ Lua[i] = i
    /\ \A k \in Key : Lua[k] \in 1..MaxIndex => Cut[k] = Lua[k]
    /\ Nil \notin Value \cup Key
    /\ Empty \notin Key /\ Tomb \notin Key /\ Empty # Tomb
ASSUME SizeAssumption ==
    /\ FirstCap \in Nat \ {0} /\ MinHash \in Nat /\ MinHash > 3
    /\ MaxIndex \in Nat /\ Sizes \subseteq Nat
ASSUME ProgramAssumption ==
    Erased \subseteq Key /\ RawKeys \subseteq Key /\ Updates \in BOOLEAN

VARIABLES
    tab,        \* LTable and LTableExt
    cursor,     \* the key next returned last, Nil if no traversal is under way
    seen,       \* history: the keys this traversal returned, in order
    wrote       \* history: the write this step was asked for, <<>> if none

vars == <<tab, cursor, seen, wrote>>

Index(k) == IF Lua[k] \in 1..MaxIndex THEN Lua[k] ELSE 0

Free == {Empty, Tomb}
Blank == [key |-> Empty, val |-> Nil]
NoCache == [c \in {CacheOf[k] : k \in Key} |-> Nil]

-----------------------------------------------------------------------------
(* The hash part: linear probing from Home, over tombstones. *)

(* The slot that the probe for k comes to after i others; the one after the   *)
(* last is the first.                                                       *)
Pos(size, k, i) ==
    LET s == (Home[k] % size) + i IN IF s < size THEN s ELSE s - size

Matches(e, k) == e \notin Free /\ Lua[e] = Lua[k]

Stops(t, k) ==
    {i \in 0 .. t.size - 1 :
        LET e == t.slots[Pos(t.size, k, i)].key IN e = Empty \/ Matches(e, k)}

At(t, k) == Pos(t.size, k, Min(Stops(t, k)))

Found(t, k) == Stops(t, k) # {} /\ Matches(t.slots[At(t, k)].key, k)

(* The inline cache compares payloads, not types, and the version, which    *)
(* moves when the hash is rebuilt: then nothing is cached any more.         *)
Cached(t, k) ==
    LET c == t.cache[CacheOf[k]]
    IN  c # Nil /\ c.payload = Payload[k] /\ t.slots[c.at].key \notin Free

CachedAt(t, k) == t.cache[CacheOf[k]].at

InArray(t, k) == Index(k) \in 1 .. Len(t.arr)

(* LTable::gettable: the value, and the table after the cache was filled.   *)
Lookup(t, k) ==
    IF InArray(t, k) THEN t.arr[Index(k)]
    ELSE IF Cached(t, k) THEN t.slots[CachedAt(t, k)].val
    ELSE IF Found(t, k) THEN t.slots[At(t, k)].val
    ELSE Nil

Looked(t, k) ==
    IF InArray(t, k) \/ Cached(t, k) \/ ~Found(t, k) THEN t
    ELSE [t EXCEPT !.cache[CacheOf[k]] = [payload |-> Payload[k], at |-> At(t, k)]]

-----------------------------------------------------------------------------
(* The array part. *)

(* table_hint_on_array_write *)
Hint(lim, i, v) ==
    IF v = Nil THEN Min({lim, i - 1})
    ELSE IF i = lim + 1 THEN i ELSE lim

(* A write within the capacity; a gap above array_size is filled with nil.  *)
WriteArray(t, i, v) ==
    [t EXCEPT !.arr = [j \in 1 .. Max({i, Len(@)}) |->
                          IF j = i THEN v ELSE IF j <= Len(@) THEN @[j] ELSE Nil],
              !.lim = Hint(@, i, v)]

(* Mutant: the entries are copied into the array part and stay in the hash. *)
MovedNot(t, cap) == {}

(* Entries whose index the array part now covers; those above the key that  *)
(* made it grow move into it, and every one leaves a tombstone.             *)
Moved(t, cap) ==
    {s \in DOMAIN t.slots :
        /\ t.slots[s].key \notin Free /\ t.slots[s].val # Nil
        /\ Index(t.slots[s].key) \in 1..cap}

(* settable at array_size + 1 = array_cap + 1: the array part doubles.      *)
Grow(t, i, v) ==
    LET cap == IF t.cap = 0 THEN FirstCap ELSE 2 * t.cap
        moved == Moved(t, cap)
        at(j) == {s \in moved : Index(t.slots[s].key) = j}
        top == Max({i} \cup {Index(t.slots[s].key) : s \in moved})
    IN  [t EXCEPT
            !.cap = cap, !.small = FALSE,
            !.arr = [j \in 1..top |->
                        IF j < i THEN @[j] ELSE IF j = i THEN v
                        ELSE IF at(j) # {} THEN t.slots[Max(at(j))].val ELSE Nil],
            !.lim = Hint(@, i, v),
            !.slots = [s \in DOMAIN @ |->
                          IF s \in moved THEN [key |-> Tomb, val |-> Nil] ELSE @[s]],
            !.count = @ - Cardinality(moved),
            !.tombs = @ + Cardinality(moved)]

-----------------------------------------------------------------------------
(* Stores into the hash part. *)

(* Mutant: a deleted key leaves a tombstone. *)
DeleteToTomb(t, k) ==
    IF Found(t, k) /\ t.slots[At(t, k)].val # Nil
    THEN [t EXCEPT !.slots[At(t, k)] = [key |-> Tomb, val |-> Nil],
                   !.count = @ - 1, !.tombs = @ + 1]
    ELSE t

(* A deleted key keeps its slot, without a value. *)
Delete(t, k) ==
    IF Found(t, k) /\ t.slots[At(t, k)].val # Nil
    THEN [t EXCEPT !.slots[At(t, k)].val = Nil, !.count = @ - 1, !.tombs = @ + 1]
    ELSE t

(* The entry goes to the first empty slot of its probe. *)
Place(slots, size, e) ==
    LET i == Min({j \in 0 .. size - 1 : slots[Pos(size, e.key, j)].key = Empty})
    IN  [slots EXCEPT ![Pos(size, e.key, i)] = e]

(* resize_hash: live entries are inserted again, in the order of the slots. *)
Rebuilt(t, size) ==
    LET live(e) == e.key \notin Free /\ e.val # Nil
        slots[n \in 0 .. t.size] ==
            IF n = 0 THEN [s \in 0 .. size - 1 |-> Blank]
            ELSE IF live(t.slots[n - 1]) THEN Place(slots[n - 1], size, t.slots[n - 1])
            ELSE slots[n - 1]
    IN  slots[t.size]

(* Mutant: the version stays, and with it what is cached. *)
RehashCached(t, size) ==
    [t EXCEPT !.size = size, !.slots = Rebuilt(t, size), !.tombs = 0]

Rehash(t, size) ==
    [t EXCEPT !.size = size, !.slots = Rebuilt(t, size), !.tombs = 0, !.cache = NoCache]

(* Mutant: tombstones are not counted against the size. *)
RoomyCrowded(t) ==
    IF t.size = 0 THEN Rehash(t, MinHash)
    ELSE IF (t.count + 1) * 4 >= t.size * 3 THEN Rehash(t, 2 * t.size)
    ELSE t

(* At three quarters of its size the hash is rebuilt, larger if at least    *)
(* half of it is live; also when the key to be stored is there already.     *)
Roomy(t) ==
    IF t.size = 0 THEN Rehash(t, MinHash)
    ELSE IF (t.count + t.tombs + 1) * 4 >= t.size * 3
         THEN Rehash(t, IF t.count >= t.size \div 2 THEN 2 * t.size ELSE t.size)
    ELSE t

(* Mutant: a slot without a value is taken whatever its key. *)
InsertStopsDead(t, k) ==
    {i \in 0 .. t.size - 1 :
        LET e == t.slots[Pos(t.size, k, i)]
        IN  e.key \in Free \/ Matches(e.key, k) \/ e.val = Nil}

(* The probe of an insertion stops at the first slot without a key type,    *)
(* and a tombstone has none.                                                *)
InsertStops(t, k) ==
    {i \in 0 .. t.size - 1 :
        LET e == t.slots[Pos(t.size, k, i)].key IN e \in Free \/ Matches(e, k)}

Insert(t, k, v) ==
    LET s == Pos(t.size, k, Min(InsertStops(t, k)))
        dead == t.slots[s].key \notin Free /\ t.slots[s].val = Nil
        new == t.slots[s].key \in Free
    IN  IF Cached(t, k) /\ t.slots[CachedAt(t, k)].val # Nil
        THEN [t EXCEPT !.slots[CachedAt(t, k)].val = v]
        ELSE [t EXCEPT !.slots[s] = [key |-> IF new THEN k ELSE @.key, val |-> v],
                       !.count = IF new \/ dead THEN @ + 1 ELSE @,
                       !.tombs = IF dead THEN @ - 1 ELSE @]

(* LTable::settable *)
Settable(t, k, v) ==
    IF Index(k) \in 1 .. t.cap THEN WriteArray(t, Index(k), v)
    ELSE IF Index(k) = Len(t.arr) + 1 THEN Grow(t, Index(k), v)
    ELSE IF v = Nil THEN Delete(t, k)
    ELSE Insert(Roomy(t), k, v)

-----------------------------------------------------------------------------
(* What a lookup that no cache misleads finds. *)
Content(t, l) ==
    IF l \in 1 .. Len(t.arr) THEN t.arr[l]
    ELSE LET at == {s \in DOMAIN t.slots :
                       t.slots[s].val # Nil /\ t.slots[s].key \notin Free
                       /\ Lua[t.slots[s].key] = l}
         IN  IF at = {} THEN Nil ELSE t.slots[CHOOSE s \in at : TRUE].val

Walking == cursor # Nil

Init ==
    /\ tab = [arr |-> <<>>, cap |-> 0, small |-> FALSE, lim |-> 0, size |-> 0,
              slots |-> [s \in {} |-> Blank], count |-> 0, tombs |-> 0, cache |-> NoCache]
    /\ cursor = Nil /\ seen = <<>> /\ wrote = <<>>

(* table_get: array part, cache, then gettable.  What it returns, and what  *)
(* it does to the table.                                                    *)
Answer(t, k) ==
    IF ~(InArray(t, k) /\ t.arr[Index(k)] # Nil) /\ Cached(t, k)
    THEN t.slots[CachedAt(t, k)].val
    ELSE Lookup(t, k)

Get(k) ==
    /\ tab' = IF Cached(tab, k) THEN tab ELSE Looked(tab, k)
    /\ wrote' = <<>> /\ UNCHANGED <<cursor, seen>>

(* The program gives a traversal up when it adds a field. *)
Assigns(k, v) ==
    /\ v = Nil => k \in Erased
    /\ Walking => v = Nil \/ Updates
    /\ cursor' = IF Walking /\ Content(tab, Lua[k]) # Nil THEN cursor ELSE Nil
    /\ seen' = IF cursor' = Nil THEN <<>> ELSE seen
    /\ wrote' = <<"store", Lua[k], v>>

(* table_set: gettable looks for the field, then settable stores. *)
Set(k, v) ==
    /\ Assigns(k, v)
    /\ tab' = IF Index(k) \in 1 .. tab.cap THEN WriteArray(tab, Index(k), v)
              ELSE Settable(Looked(tab, k), k, v)

(* rawset *)
RawSet(k, v) ==
    /\ k \in RawKeys
    /\ Assigns(k, v)
    /\ tab' = Settable(tab, k, v)

(* Mutant: a hint is taken for the length. *)
PrefixTrusted(t) == IF t.lim > 0 THEN t.lim ELSE Len(t.arr)

(* rawlen, with the hint moved on to the first nil; above the array part it *)
(* looks up one integer key after the other.                                *)
PrefixLen(t) ==
    IF t.lim < Len(t.arr)
    THEN Min({j \in t.lim .. Len(t.arr) - 1 : t.arr[j + 1] = Nil} \cup {Len(t.arr)})
    ELSE t.lim

RawLen(t) ==
    LET n == Len(t.arr)
        there(j) == j \in 1..MaxIndex /\ Lookup(t, j) # Nil
    IN  IF PrefixLen(t) < n THEN PrefixLen(t)
        ELSE Min({j \in n .. n + MaxIndex : ~there(j + 1)})

(* The n integers above the array part are looked up, one after the other.  *)
Asked(t, n) ==
    LET asked[i \in 0 .. n] ==
            IF i = 0 THEN t ELSE Looked(asked[i - 1], Len(t.arr) + i)
    IN  asked[n]

Healed(t) == [t EXCEPT !.lim = PrefixLen(t)]

Length ==
    /\ tab' = Asked(Healed(tab), Max({0, Min({RawLen(tab) + 1, MaxIndex}) - Len(tab.arr)}))
    /\ wrote' = <<>> /\ UNCHANGED <<cursor, seen>>

-----------------------------------------------------------------------------
(* next.  A number that is cast to an index of the array part is taken for  *)
(* that index, whether it is integral or not.                               *)

ArrayAfter(i) == {j \in i + 1 .. Len(tab.arr) : tab.arr[j] # Nil}

(* Mutant: deleted entries are visited. *)
HashFromDead(s) == {j \in DOMAIN tab.slots : j >= s /\ tab.slots[j].key \notin Free}

HashFrom(s) ==
    {j \in DOMAIN tab.slots : j >= s /\ tab.slots[j].key \notin Free /\ tab.slots[j].val # Nil}

Returns(k) == cursor' = k /\ seen' = Append(seen, Lua[k])

Ends == cursor' = Nil /\ seen' = <<>>

FromHash(s) ==
    IF HashFrom(s) # {} THEN Returns(tab.slots[Min(HashFrom(s))].key) ELSE Ends

FromArray(i) ==
    IF ArrayAfter(i) # {} THEN Returns(Min(ArrayAfter(i))) ELSE FromHash(0)

NextKey ==
    /\ IF ~Walking THEN FromArray(0)
       ELSE IF Cut[cursor] \in 1 .. Len(tab.arr) THEN FromArray(Cut[cursor])
       ELSE IF Found(tab, cursor) THEN FromHash(At(tab, cursor) + 1)
       ELSE Ends       \* "invalid key to 'next'"
    /\ wrote' = <<>> /\ UNCHANGED tab

(* The table is collected and create_table recycles it: slots lose their    *)
(* keys, the array part is given n elements.  Without elements a small      *)
(* array keeps its capacity, a larger one is freed.                         *)
Recycle(n) ==
    /\ tab' = [tab EXCEPT
                  !.arr = [j \in 1..n |-> Nil],
                  !.cap = IF n = 0 /\ tab.small THEN @ ELSE n,
                  !.small = IF n = 0 THEN @ ELSE n <= 2,
                  !.lim = 0,
                  !.slots = [s \in DOMAIN @ |-> [@[s] EXCEPT !.key = Empty]],
                  !.count = 0, !.tombs = 0,
                  !.cache = NoCache]
    /\ wrote' = <<>> /\ Ends

Next ==
    \/ \E k \in Key : \/ Get(k)
                      \/ \E v \in Value \cup {Nil} : Set(k, v) \/ RawSet(k, v)
    \/ Length
    \/ NextKey
    \/ \E n \in Sizes : Recycle(n)

Spec == Init /\ [][Next]_vars
=============================================================================

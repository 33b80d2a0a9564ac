----------------------------- MODULE StringPool -----------------------------
(***************************************************************************)
(* The pool of interned strings (StringPool of clx_runtime.h) and the code  *)
(* a compiled module runs to put its own strings into it (codegen.cpp): an  *)
(* open-addressed table of copies that is never shrunk and never emptied.   *)
(***************************************************************************)
EXTENDS Integers, Sequences, FiniteSets, FiniteSetsExt, SequencesExt

CONSTANTS
    Text,       \* the strings a program makes
    HashOf,     \* their hashes
    PoolCap,    \* INIT_CAP
    Modules,    \* the compiled modules: the list of strings of each
    MaxMade     \* bound: copies made

ASSUME PoolAssumption ==
    /\ "none" \notin Text
    /\ HashOf \in [Text -> Nat]
    /\ PoolCap \in Nat \ {0}
    /\ Modules \subseteq Seq(Text)
    /\ MaxMade \in Nat

VARIABLE pool   \* slots, count; made: copies so far; history: base: those made
                \* when the last module was loaded, given: the copies of a text
                \* that intern returned

NoCopy == [text |-> "none", nr |-> 0]

CopyOf(t, nr) == [text |-> t, nr |-> nr]

CapacityOf(p) == Cardinality(DOMAIN p.slots)

Occupied(p) == {s \in DOMAIN p.slots : p.slots[s] # NoCopy}

(* The slot that a probe for t comes to after i others: the home slot, and     *)
(* the one after the last is the first.                                      *)
SlotAt(t, i, cap) ==
    LET s == (HashOf[t] % cap) + i IN IF s < cap THEN s ELSE s - cap

(* The first slot of the probe for t that holds one of the texts, where an   *)
(* empty slot holds "none".                                                 *)
Probe(slots, t, texts) ==
    LET cap == Cardinality(DOMAIN slots)
    IN  SlotAt(t, Min({i \in 0 .. cap - 1 : slots[SlotAt(t, i, cap)].text \in texts}), cap)

(* Mutant: a copy goes to its home slot, taken or not. *)
PutHome(slots, c) ==
    [slots EXCEPT ![HashOf[c.text] % Cardinality(DOMAIN slots)] = c]

Put(slots, c) ==
    [slots EXCEPT ![Probe(slots, c.text, {"none"})] = c]

(* rehash: the copies move in the order of their slots. *)
PoolRehash(p, cap) ==
    LET moved[n \in 0 .. CapacityOf(p)] ==
            IF n = 0 THEN [s \in 0 .. cap - 1 |-> NoCopy]
            ELSE IF p.slots[n - 1] = NoCopy THEN moved[n - 1]
            ELSE Put(moved[n - 1], p.slots[n - 1])
    IN  [p EXCEPT !.slots = moved[CapacityOf(p)]]

Grown(p) == IF 2 * p.count >= CapacityOf(p) THEN PoolRehash(p, 2 * CapacityOf(p)) ELSE p

PoolInit ==
    pool = [slots |-> [s \in 0 .. PoolCap - 1 |-> NoCopy], count |-> 0, made |-> 0,
            base |-> 0, given |-> [t \in Text |-> {}]]

(* intern and intern_preallocated *)
Intern(t) ==
    LET p == Grown(pool)
        s == Probe(p.slots, t, {"none", t})
        new == CopyOf(t, p.made + 1)
    IN  /\ pool.made < MaxMade
        /\ pool' = IF p.slots[s] # NoCopy
                   THEN [p EXCEPT !.given[t] = @ \cup {p.slots[s]}]
                   ELSE [p EXCEPT !.slots[s] = new, !.count = @ + 1, !.made = @ + 1,
                                  !.given[t] = @ \cup {new}]

(* The capacity and the slots that the compiler computes for a module: those *)
(* the strings would have in a pool of their own.  The capacity is doubled     *)
(* until it is twice their number, so not more often than there are strings. *)
ModuleCap(m) ==
    LET cap[n \in 0 .. Len(m)] ==
            IF n = 0 THEN PoolCap
            ELSE IF cap[n - 1] < 2 * Len(m) THEN 2 * cap[n - 1]
            ELSE cap[n - 1]
    IN  cap[Len(m)]

ModuleSlots(m) ==
    LET put(slots, t) == Put(slots, CopyOf(t, 1))
        alone == FoldLeft(put, [s \in 0 .. ModuleCap(m) - 1 |-> NoCopy], m)
    IN  [i \in DOMAIN m |-> CHOOSE s \in DOMAIN alone : alone[s].text = m[i]]

Reserved(p, cap) == IF cap > CapacityOf(p) THEN PoolRehash(p, cap) ELSE p

(* Mutant: the strings of a module are not counted. *)
FilledUncounted(p, m) ==
    LET at == ModuleSlots(m)
        here(s) == {i \in DOMAIN m : at[i] = s}
    IN  [p EXCEPT !.slots = [s \in DOMAIN @ |-> IF here(s) = {} THEN @[s]
                                 ELSE CopyOf(m[Max(here(s))], p.made + Max(here(s)))],
                  !.made = @ + Len(m), !.base = p.made + Len(m)]

(* bulk_fill_precomputed: whatever is in the slots is replaced. *)
Filled(p, m) ==
    LET at == ModuleSlots(m)
        here(s) == {i \in DOMAIN m : at[i] = s}
    IN  [p EXCEPT !.slots = [s \in DOMAIN @ |-> IF here(s) = {} THEN @[s]
                                 ELSE CopyOf(m[Max(here(s))], p.made + Max(here(s)))],
                  !.count = @ + Len(m), !.made = @ + Len(m), !.base = p.made + Len(m)]

(* luaopen_<module>: run again if the program takes the module out of          *)
(* package.loaded and requires it again.                                     *)
LoadModule(m) ==
    /\ pool.made + Len(m) <= MaxMade
    /\ pool' = Filled(Reserved(pool, ModuleCap(m)), m)

PoolNext ==
    \/ \E t \in Text : Intern(t)
    \/ \E m \in Modules : LoadModule(m)

-----------------------------------------------------------------------------
(* The probe of the next intern ends: after the growth that its count calls  *)
(* for there is an empty slot, although modules put strings over others and  *)
(* the count runs ahead of the slots.                                       *)
PoolProbeEnds == Cardinality(Occupied(Grown(pool))) < CapacityOf(Grown(pool))

(* Between two loads of modules intern makes no second copy of a text: growth *)
(* and collisions, and the strings that the modules before left where no probe  *)
(* looks for them, never make it miss the copy it made.  Nothing leaves the   *)
(* pool, so copies made again and again would fill the memory.               *)
OneCopyMade ==
    \A t \in Text : Cardinality({c \in pool.given[t] : c.nr > pool.base}) <= 1

PoolSpec == PoolInit /\ [][PoolNext]_pool
=============================================================================

----------------------------- MODULE TableProps -----------------------------
(***************************************************************************)
(* What the tables of Table must guarantee.                                 *)
(***************************************************************************)
EXTENDS TableLib

(* "array[0..array_lim-1] are all non-nil", "writers keep it from ever      *)
(* going stale-high" (LTable, clx_runtime.h).                               *)
HintSound ==
    tab.lim <= Len(tab.arr) /\ \A i \in 1 .. tab.lim : tab.arr[i] # Nil

(* The counters that decide when to rebuild agree with the slots: count is  *)
(* the number of fields, and however keys were deleted, revived, moved to   *)
(* the array part or inserted over a tombstone, fewer than three quarters   *)
(* of the slots are not empty, so that every probe meets an empty one.      *)
HashAccounted ==
    tab.size > 0 =>
        /\ tab.count = Cardinality(HashFrom(0))
        /\ 4 * Cardinality({s \in DOMAIN tab.slots : tab.slots[s].key # Empty}) < 3 * tab.size

(* A field is in one place: no key twice in the hash, none that the array   *)
(* part covers.                                                             *)
OnePlace ==
    \A s \in HashFrom(0) :
        /\ Index(tab.slots[s].key) \notin 1 .. tab.cap
        /\ \A u \in HashFrom(0) : Lua[tab.slots[u].key] = Lua[tab.slots[s].key] => u = s

(* t[k] is what the table holds for k, which by MapSpec is the value last     *)
(* stored, whatever the cache remembers of slots since cleared, refilled or  *)
(* used by another key.                                                     *)
ReadsAgree == \A k \in Key : Answer(tab, k) = Content(tab, Lua[k])

(* #t is a border, though the length hint skips part of the array and the   *)
(* hash is asked one key at a time; so is the length the table library       *)
(* finds by doubling and bisecting.                                         *)
LengthIsBorder ==
    LET field(i) == IF i \in 1..MaxIndex THEN Content(tab, i) ELSE Nil
    IN  \A n \in {RawLen(tab), ListLen(tab)} :
            (n = 0 \/ field(n) # Nil) /\ field(n + 1) = Nil

(* next finds the key it returned last: a traversal during which fields are *)
(* cleared never fails with "invalid key to 'next'".                        *)
WalkGoesOn ==
    Walking => Cut[cursor] \in 1 .. Len(tab.arr) \/ Found(tab, cursor)

-----------------------------------------------------------------------------
(* Table implements a dictionary that is asked for the same writes: a store  *)
(* gives the field it names the value it names and changes no other,         *)
(* wherever growth and rebuilding move the fields; insert, remove and move   *)
(* shift the elements they are asked to as if all were read before any is    *)
(* written, in the array part, in the hash or across; reads and lengths      *)
(* change nothing; and a traversal visits each field once ("table            *)
(* iteration", doc/compatibility.md).                                       *)
Map == INSTANCE Dictionary WITH
            dict <- [l \in LuaKey |-> Content(tab, l)],
            walking <- Walking

MapSpec == Map!Spec
=============================================================================

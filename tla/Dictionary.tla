----------------------------- MODULE Dictionary -----------------------------
(***************************************************************************)
(* What a Lua table promises: a map from keys to values, where every write   *)
(* does to the map what it was asked for, and a traversal that visits every  *)
(* field once as long as the program only assigns to or clears fields that  *)
(* exist.                                                                   *)
(***************************************************************************)
EXTENDS Integers, Sequences, Functions

CONSTANTS LuaKey, Value, Nil,
          MaxIndex      \* the keys 1..MaxIndex are the indices of a list

VARIABLES
    dict,       \* the value of every key
    walking,    \* a traversal is under way
    seen,       \* the keys it has visited, in order
    wrote       \* the write this step was asked for, <<>> if none

vars == <<dict, walking, seen, wrote>>

Present == {l \in LuaKey : dict[l] # Nil}

Init ==
    /\ dict = [l \in LuaKey |-> Nil]
    /\ walking = FALSE /\ seen = <<>> /\ wrote = <<>>

(* A new field ends the traversal: what next does from then on is open.     *)
Set(l, v) ==
    /\ wrote' = <<"store", l, v>>
    /\ dict' = [dict EXCEPT ![l] = v]
    /\ walking' = (walking /\ dict[l] # Nil)
    /\ seen' = IF walking' THEN seen ELSE <<>>

(* A field or the length is read. *)
Read == wrote' = <<>> /\ UNCHANGED <<dict, walking, seen>>

Visit(l) ==
    /\ wrote' = <<>> /\ UNCHANGED dict
    /\ l \in Present \ Range(seen)
    /\ walking' = TRUE
    /\ seen' = Append(seen, l)

EndOfWalk ==
    /\ wrote' = <<>> /\ UNCHANGED dict
    /\ Present \subseteq Range(seen)
    /\ walking' = FALSE /\ seen' = <<>>

(* The table is dropped and another takes its place. *)
Renew ==
    /\ wrote' = <<>>
    /\ dict' = [l \in LuaKey |-> Nil]
    /\ walking' = FALSE /\ seen' = <<>>

(* A length of the list: a border.                                          *)
Borders ==
    {n \in 0..MaxIndex : /\ n > 0 => n \in Present
                         /\ n < MaxIndex => n + 1 \notin Present}

Rearranged(element) ==
    /\ dict' = [l \in LuaKey |-> IF l \in 1..MaxIndex THEN element[l] ELSE dict[l]]
    /\ walking' = FALSE /\ seen' = <<>>

(* A position outside the list is refused. *)
InsertElement(pos, v) ==
    /\ wrote' = <<"insert", pos, v>>
    /\ \E n \in Borders \ {MaxIndex} :
          Rearranged([l \in 1..MaxIndex |->
                         IF pos > n + 1 THEN dict[l]
                         ELSE IF l = pos THEN v
                         ELSE IF l > pos /\ l <= n + 1 THEN dict[l - 1] ELSE dict[l]])

(* Behind the list nothing is moved. *)
RemoveElement(pos) ==
    /\ wrote' = <<"remove", pos>>
    /\ \E n \in Borders :
          Rearranged([l \in 1..MaxIndex |->
                         IF l < pos \/ l > n THEN dict[l]
                         ELSE IF l < n THEN dict[l + 1] ELSE Nil])

(* All elements are read before the first is written. *)
MoveElements(f, e, to) ==
    /\ wrote' = <<"move", f, e, to>>
    /\ to + (e - f) <= MaxIndex
    /\ Rearranged([l \in 1..MaxIndex |->
                      IF l \in to .. to + (e - f) THEN dict[l - to + f] ELSE dict[l]])

Next ==
    \/ Read \/ EndOfWalk \/ Renew
    \/ \E l \in LuaKey : Visit(l) \/ \E v \in Value \cup {Nil} : Set(l, v)
    \/ \E pos \in 1..MaxIndex : RemoveElement(pos) \/ \E v \in Value : InsertElement(pos, v)
    \/ \E f, e, to \in 1..MaxIndex : MoveElements(f, e, to)

Spec == Init /\ [][Next]_vars
=============================================================================

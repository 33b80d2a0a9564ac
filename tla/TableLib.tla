------------------------------ MODULE TableLib ------------------------------
(***************************************************************************)
(* The functions of the table library that rearrange a list (insert, remove *)
(* and move of src/runtime/table.cpp), on the tables of Table: they write    *)
(* the array part themselves where they can, and element by element where   *)
(* the list reaches into the hash part.                                     *)
(***************************************************************************)
EXTENDS Table

(* get_elem looks an index up as gettable does; set_elem is settable.       *)
MoveElem(t, from, to) == Settable(Looked(t, from), to, Lookup(t, from))

(* n elements are moved by places, the one at from first, then that at       *)
(* from + step, and so on.                                                  *)
MoveEach(t, from, step, n, by) ==
    LET moved[i \in 0 .. n] ==
            IF i = 0 THEN t
            ELSE LET k == from + step * (i - 1) IN MoveElem(moved[i - 1], k, k + by)
    IN  moved[n]

(* get_array_len: the first nil of the array part; if there is none, the     *)
(* search doubles its upper end until it finds a nil, then bisects.         *)
There(t, j) == j \in 1..MaxIndex /\ Lookup(t, j) # Nil

Ceiling == 4 * (MaxIndex + FirstCap)

Bracket(t) ==
    LET from[hi \in 1 .. Ceiling] ==
            IF ~There(t, hi) THEN hi
            ELSE from[IF hi < FirstCap THEN FirstCap ELSE 2 * hi]
    IN  from[Len(t.arr) + 1]

(* The last index found before hi was reached. *)
LastThere(t, hi) ==
    LET reached[h \in 1 .. Ceiling] ==
            LET next == IF h < FirstCap THEN FirstCap ELSE 2 * h
            IN  IF h = hi THEN Len(t.arr) ELSE IF next >= hi THEN h ELSE reached[next]
    IN  reached[Len(t.arr) + 1]

Bisect(t, lo, hi) ==
    LET at[p \in (0 .. Ceiling) \X (0 .. Ceiling)] ==
            LET l == p[1]
                h == p[2]
                mid == l + (h - l) \div 2
            IN  IF h - l <= 1 THEN l
                ELSE IF There(t, mid) THEN at[<<mid, h>>] ELSE at[<<l, mid>>]
    IN  at[<<lo, hi>>]

ListLen(t) ==
    IF PrefixLen(t) < Len(t.arr) THEN PrefixLen(t)
    ELSE Bisect(t, LastThere(t, Bracket(t)), Bracket(t))

(* The table after its length was asked for: the hint is healed, and the    *)
(* lookups of the search fill the cache.                                    *)
Measured(t) ==
    IF PrefixLen(t) < Len(t.arr) THEN Healed(t)
    ELSE Asked(Healed(t), Max({0, MaxIndex - Len(t.arr)}))

InArrayPart(t, pos, len) == pos <= Len(t.arr) /\ len <= Len(t.arr)

(* Mutant: the element at pos is overwritten before it is moved up. *)
OpenGapLate(t, pos, len, v) ==
    [t EXCEPT !.arr = [j \in 1 .. Max({len + 1, Len(@)}) |->
                          IF j = pos THEN v
                          ELSE IF j = pos + 1 THEN v
                          ELSE IF j > pos /\ j <= len + 1 THEN @[j - 1] ELSE @[j]],
              !.lim = Hint(@, pos, v)]

(* The memmove of table_insert, and the write into the gap. *)
OpenGap(t, pos, len, v) ==
    [t EXCEPT !.arr = [j \in 1 .. Max({len + 1, Len(@)}) |->
                          IF j = pos THEN v
                          ELSE IF j > pos /\ j <= len + 1 THEN @[j - 1] ELSE @[j]],
              !.lim = Hint(@, pos, v)]

Inserted(t, pos, len, v) ==
    IF pos > len THEN Settable(t, pos, v)
    ELSE IF InArrayPart(t, pos, len)
         THEN OpenGap(IF t.cap <= len THEN Settable(t, len + 1, Nil) ELSE t, pos, len, v)
    ELSE Settable(MoveEach(t, len, -1, len - pos + 1, 1), pos, v)

(* Mutant: the hint stays where it was. *)
CloseGapHinted(t, pos, len) ==
    [t EXCEPT !.arr = [j \in DOMAIN @ |-> IF j < pos \/ j > len THEN @[j]
                                          ELSE IF j < len THEN @[j + 1] ELSE Nil]]

(* The memmove of table_remove; the hint comes down to the gap. *)
CloseGap(t, pos, len) ==
    [t EXCEPT !.arr = [j \in DOMAIN @ |-> IF j < pos \/ j > len THEN @[j]
                                          ELSE IF j < len THEN @[j + 1] ELSE Nil],
              !.lim = Min({@, pos - 1})]

Removed(t, pos, len) ==
    IF InArrayPart(t, pos, len) THEN CloseGap(t, pos, len)
    ELSE Settable(MoveEach(Looked(t, pos), pos + 1, 1, len - pos, -1), len, Nil)

(* Elements f..e go to to..to+e-f of the same table. *)
MoveRange(t, f, e, to) ==
    IF e < f THEN t
    ELSE IF e <= Len(t.arr) /\ to + (e - f) <= Len(t.arr)
    THEN [t EXCEPT !.arr = [j \in DOMAIN @ |->
                               IF j \in to .. to + (e - f) THEN @[j - to + f] ELSE @[j]],
                   !.lim = Min({@, f - 1, to - 1})]
    ELSE IF to >= f THEN MoveEach(t, e, -1, e - f + 1, to - f)
    ELSE MoveEach(t, f, 1, e - f + 1, to - f)

(* The program gives a traversal up when it rearranges the list.  A position *)
(* outside the list is an error of insert; remove returns nil.              *)
TableInsert(pos, v) ==
    LET len == ListLen(tab)
    IN  /\ len \in 0 .. MaxIndex - 1
        /\ tab' = IF pos <= len + 1 THEN Inserted(Measured(tab), pos, len, v)
                  ELSE Measured(tab)
        /\ wrote' = <<"insert", pos, v>> /\ Ends

TableRemove(pos) ==
    LET len == ListLen(tab)
    IN  /\ len \in 0 .. MaxIndex
        /\ tab' = IF pos <= len THEN Removed(Measured(tab), pos, len) ELSE Measured(tab)
        /\ wrote' = <<"remove", pos>> /\ Ends

TableMove(f, e, to) ==
    /\ to + (e - f) <= MaxIndex
    /\ tab' = MoveRange(tab, f, e, to)
    /\ wrote' = <<"move", f, e, to>> /\ Ends

LibNext ==
    \/ Next
    \/ \E pos \in 1..MaxIndex : TableRemove(pos) \/ \E v \in Value : TableInsert(pos, v)
    \/ \E f, e, to \in 1..MaxIndex : TableMove(f, e, to)

LibSpec == Init /\ [][LibNext]_vars
=============================================================================

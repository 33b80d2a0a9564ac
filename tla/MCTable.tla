------------------------------ MODULE MCTable ------------------------------
(***************************************************************************)
(* Instances of Table for TLC: integer keys, three strings of which two     *)
(* collide, and true, whose payload is that of 1.                            *)
(***************************************************************************)
EXTENDS TableProps, TLC

CONSTANTS sa, sb, sc, true, v, w, nil, empty, tomb

Symm == Permutations({v, w})

(* The states of a run: no step depends on what the step before wrote, and    *)
(* MapSpec is checked on every step, those to states seen before included.   *)
Forgetful == <<tab, cursor, seen>>

MCLua == [k \in Key |-> k]
MCPayload == [k \in Key |-> IF k = true THEN 1 ELSE k]
MCCut == [k \in Key |-> IF k \in {sa, sb, sc, true} THEN 0 ELSE k]
MCHome == [k \in Key |-> CASE k \in {sa, sb} -> 2 [] k = sc -> 5 [] k = true -> 1
                           [] OTHER -> k]
MCCacheOf == [k \in Key |-> IF k \in {1, 2, sa, true} THEN 0 ELSE 1]
=============================================================================

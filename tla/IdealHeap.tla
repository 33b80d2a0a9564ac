------------------------------ MODULE IdealHeap ------------------------------
(***************************************************************************)
(* What a garbage collector promises to the program, with no ages, no       *)
(* remembered set and no marks: the program allocates objects, rewires      *)
(* what it can reach, and memory is taken back only from objects it can no  *)
(* longer reach.  GC implements this module.                                *)
(***************************************************************************)
EXTENDS Reachability

VARIABLES
    alloc,      \* objects that are not free
    kids,       \* the object graph
    roots       \* what the program holds directly

vars == <<alloc, kids, roots>>

(* What the program can use. *)
Live == Closure(roots, kids)

Init ==
    /\ alloc \in SUBSET Obj
    /\ roots \subseteq alloc
    /\ kids = [o \in Obj |-> {}]

(* A new object has no children and is held by the program. *)
New ==
    \E o \in Obj \ alloc, K \in SUBSET Live :
        /\ alloc' = alloc \cup {o}
        /\ kids' = [kids EXCEPT ![o] = K]
        /\ roots' = roots \cup {o}

(* The program changes the children of objects and its own variables; it    *)
(* hands out nothing it could not reach before.  An object it cannot reach  *)
(* changes too when it shares a captured variable with one it can.          *)
Mutate ==
    /\ kids' \in [Obj -> SUBSET Obj]
    /\ \A o \in Obj : kids'[o] \subseteq kids[o] \cup Live
    /\ roots' \in SUBSET Live
    /\ UNCHANGED alloc

(* Memory is taken back from objects the program cannot use. *)
Reclaim ==
    \E D \in SUBSET (alloc \ Live) :
        /\ alloc' = alloc \ D
        /\ kids' = [o \in Obj |-> IF o \in D THEN {} ELSE kids[o]]
        /\ UNCHANGED roots

Next == New \/ Mutate \/ Reclaim

Spec == Init /\ [][Next]_vars

(* Nothing the program can use is free. *)
NoLiveFree == Live \subseteq alloc
=============================================================================

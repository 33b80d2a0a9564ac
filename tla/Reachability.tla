---------------------------- MODULE Reachability ----------------------------
(***************************************************************************)
(* What a marking pass computes.  The collector of clx marks with an        *)
(* explicit worklist (LState::GCStack): it pushes the seeds, pops an        *)
(* object, pushes its unmarked children, until the list is empty.  The set  *)
(* it ends with does not depend on the order: it is the least set that      *)
(* holds the seeds and is closed under the children relation, which is how  *)
(* it is defined here.                                                      *)
(***************************************************************************)

CONSTANT Obj       \* heap objects (LHeader): tables, closures, threads

(* S is closed under the children function kids. *)
Closed(S, kids) == \A x \in S : kids[x] \subseteq S

(* Everything a worklist seeded with S marks along kids. *)
Closure(S, kids) ==
    {o \in Obj : \A M \in SUBSET Obj :
                    (S \subseteq M /\ Closed(M, kids)) => o \in M}
=============================================================================

--------------------------- MODULE MCCoroutineRoots ---------------------------
(* Instances of CoroutineRoots for TLC: the main thread, two coroutines and *)
(* two values.                                                              *)
EXTENDS CoroutineRootsProps, CoroutineProps, TLC

CONSTANTS main, p, q, v, w, nil

Symm == Permutations({p, q}) \cup Permutations({v, w})
=============================================================================

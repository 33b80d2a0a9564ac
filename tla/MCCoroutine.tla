----------------------------- MODULE MCCoroutine -----------------------------
(* Instances of Coroutine for TLC: the main thread and two or three        *)
(* coroutines, which any of them creates and resumes.                       *)
EXTENDS CoroutineProps, TLC

CONSTANTS main, p, q, x, nil

Symm == Permutations(Thread \ {main})
=============================================================================

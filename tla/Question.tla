------------------------------ MODULE Question ------------------------------
(***************************************************************************)
(* A pure function has no state of its own: the state is the question put    *)
(* to it, and what it answers is an invariant.                               *)
(***************************************************************************)

CONSTANT Nobody      \* nothing has been asked yet

VARIABLE asked

Quiet == asked = Nobody

Ask(questions) == asked = Nobody /\ asked' \in questions

Of(kind) == asked # Nobody /\ asked.kind = kind
=============================================================================

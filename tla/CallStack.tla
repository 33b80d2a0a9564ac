------------------------------ MODULE CallStack ------------------------------
(***************************************************************************)
(* What coroutines promise: control is a stack of coroutines, the one on    *)
(* top runs, and values travel between neighbours only.  Coroutine          *)
(* implements this module with caller pointers and status words.            *)
(***************************************************************************)
EXTENDS Naturals, Sequences

CONSTANTS
    Thread,     \* coroutines, the main one included
    Main

VARIABLES
    stack,      \* from the main thread to the one that runs
    alive,      \* coroutines that can still be resumed or run
    mail        \* how many values the one that runs is being handed

vars == <<stack, alive, mail>>

OnStack == {stack[i] : i \in 1..Len(stack)}
Below == SubSeq(stack, 1, Len(stack) - 1)

Init == stack = <<Main>> /\ alive = {Main} /\ mail = 0

Create(t) ==
    /\ t \notin alive
    /\ alive' = alive \cup {t}
    /\ UNCHANGED <<stack, mail>>

(* A resumed coroutine goes on top, whoever resumed it waits below. *)
Resume(t) ==
    /\ t \in alive \ OnStack
    /\ stack' = Append(stack, t)
    /\ mail' \in Nat
    /\ UNCHANGED alive

(* The one that runs takes what it was handed. *)
Receive == mail' = 0 /\ UNCHANGED <<stack, alive>>

(* It hands values down, and ends or waits to be resumed. *)
Leave ==
    /\ Len(stack) > 1
    /\ stack' = Below
    /\ alive' \in {alive, alive \ {stack[Len(stack)]}}
    /\ mail' \in Nat

(* A coroutine that waits is given up. *)
Kill(t) ==
    /\ t \in alive \ OnStack
    /\ alive' = alive \ {t}
    /\ UNCHANGED stack
    /\ mail' = 0

Next == (\E t \in Thread : Create(t) \/ Resume(t) \/ Kill(t)) \/ Receive \/ Leave

Spec == Init /\ [][Next]_vars
=============================================================================

------------------------------ MODULE MCRuntime ------------------------------
(***************************************************************************)
(* The small machines of the runtime.  They share no state, so each run of    *)
(* this specification chooses one of them and the others stay as they are.    *)
(***************************************************************************)
EXTENDS Calls, Files, Loops, Require, StringPool

VARIABLE machine

Machines == {"calls", "files", "loops", "require", "strings"}

(* a and b share a home slot in pools of 4 and 8, and the modules fill all    *)
(* slots of a pool of 4.                                                     *)
MCHash == [t \in Text |-> CASE t = "a" -> 3 [] t = "b" -> 11 [] t = "c" -> 1
                             [] t = "d" -> 4 [] t = "e" -> 2]
MCModules == {<<"a", "c">>, <<"d", "e">>}

IntOf(n) == [type |-> "Int64", v |-> n]
FloatOf(h) == [type |-> "Double", v |-> h]

(* Five bits, of which a float holds three: 9 and 15 are rounded, the second   *)
(* to the first number beyond the integers, 16.                              *)
MCStarts == {IntOf(-16), IntOf(5), IntOf(15), FloatOf(3)}
MCAddends == {IntOf(3), IntOf(9), FloatOf(-5)}
MCLimits == {IntOf(-3), IntOf(9), IntOf(15), FloatOf(5), FloatOf(-5), FloatOf(32),
             FloatOf(PInf), FloatOf(NaN)}
MCSteps == {IntOf(1), IntOf(-3), FloatOf(1), FloatOf(-2)}

vars == <<machine, call, files, loop, req, pool>>

Init ==
    /\ machine \in Machines
    /\ CallsInit /\ FilesInit /\ LoopInit /\ RequireInit /\ PoolInit

Next ==
    \/ machine = "calls" /\ CallsNext /\ UNCHANGED <<machine, files, loop, req, pool>>
    \/ machine = "files" /\ FilesNext /\ UNCHANGED <<machine, call, loop, req, pool>>
    \/ machine = "loops" /\ LoopNext /\ UNCHANGED <<machine, call, files, req, pool>>
    \/ machine = "require" /\ RequireNext /\ UNCHANGED <<machine, call, files, loop, pool>>
    \/ machine = "strings" /\ PoolNext /\ UNCHANGED <<machine, call, files, loop, req>>

Fairness ==
    /\ WF_call(machine = "calls" /\ Unwinding) /\ WF_call(machine = "calls" /\ Return)
    /\ WF_loop(machine = "loops" /\ Test) /\ WF_loop(machine = "loops" /\ Advance)

Spec == Init /\ [][Next]_vars /\ Fairness
=============================================================================

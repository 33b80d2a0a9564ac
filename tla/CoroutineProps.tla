--------------------------- MODULE CoroutineProps ---------------------------
(***************************************************************************)
(* What coroutines must guarantee, and the inductive invariant behind it.  *)
(***************************************************************************)
EXTENDS Coroutine

(* "`resume` returns {true, ...results} or {false, error_message}"          *)
(* (doc/api.md): resume reports an error exactly when the coroutine died of *)
(* one, whatever closes, caught errors and nested resumes came before.      *)
ResumeTruth ==
    at[running] = "resuming" =>
        (has_error[target[running]] <=> at[target[running]] = "raised")

(* "resumes a suspended coroutine" (threads.cpp, coroutine.cpp): when       *)
(* resume returns, the coroutine it resumed gave control back, by yielding  *)
(* or by ending.                                                            *)
ResumeWaits ==
    at[running] = "resuming" => status[target[running]] \in {"suspended", "dead"}

-----------------------------------------------------------------------------
(* The inductive invariant.  Active coroutines form a chain of callers from *)
(* the one that runs to the main thread, without reference to its length:   *)
(* every active coroutine but Main was resumed by a normal one that waits   *)
(* for it, and none by two.                                                 *)

Active == {t \in Thread : status[t] \in {"running", "normal"}}

Waits(t, u) == at[t] \in {"resuming", "closing", "capiClosing"} /\ target[t] = u

CallersChained ==
    /\ status[running] = "running"
    /\ \A t \in Thread \ {running} : status[t] # "running"
    /\ Main \in Active
    /\ \A t \in Active \ {Main} :
           caller[t] \in Thread /\ status[caller[t]] = "normal" /\ Waits(caller[t], t)
    /\ \A t \in Active : status[t] = "normal" =>
           target[t] \in Active \ {Main} /\ caller[target[t]] = t

(* "Coroutine switches stash and reload the whole chain" (doc/internals/    *)
(* runtime.md): the frames loaded are those of the coroutine that runs, and *)
(* every other coroutine keeps its own.                                     *)
Opened(t) == IF at[t] = "entry" THEN Nil ELSE t

FramesFollow ==
    /\ loaded = Opened(running)
    /\ \A t \in Thread : status[t] \in {"normal", "suspended"} => top_root[t] = Opened(t)

Positions ==
    \A t \in Thread :
        /\ status[t] = "suspended" => at[t] \in {"entry", "yielding"}
        /\ status[t] = "normal" => at[t] \in {"resuming", "closing", "capiClosing"}
        /\ status[t] = "running" => at[t] \notin {"returned", "raised"}
        /\ status[t] = "none" => at[t] = "entry"
        /\ t = Main => at[t] \notin {"entry", "yielding", "returned", "raised"}

(* Who gets control back in resume or close_thread finds the coroutine he   *)
(* waited for suspended or dead.                                            *)
WaitsOver ==
    at[running] \in {"resuming", "closing", "capiClosing"} =>
        /\ target[running] \in Thread \ {Main}
        /\ status[target[running]] \in {"suspended", "dead"}

IInv ==
    /\ TypeOK
    /\ CallersChained
    /\ FramesFollow
    /\ Positions
    /\ WaitsOver

-----------------------------------------------------------------------------
(* The stack of the abstract specification is read off the caller pointers. *)
Callers ==
    LET upTo[n \in 0..Cardinality(Thread)] ==
            IF n = 0 THEN <<running>>
            ELSE LET below == upTo[n - 1]
                 IN  IF Head(below) = Main THEN below
                     ELSE <<caller[Head(below)]>> \o below
    IN  upTo[Cardinality(Thread)]

Mail ==
    CASE at[running] \in {"entry", "yielding"} -> resume_args[running]
      [] at[running] = "resuming" -> yield_args[target[running]]
      [] OTHER -> 0

Stack == INSTANCE CallStack WITH
            stack <- Callers,
            alive <- {t \in Thread : status[t] \notin {"none", "dead"}},
            mail <- Mail

StackSpec == Stack!Spec
=============================================================================
